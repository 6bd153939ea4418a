------------------------- MODULE LogRotationProofs -------------------------
(***************************************************************************)
(* The generations of the session log keep their order, hold full files    *)
(* only, and lose no lines early, for any number of appenders, kept        *)
(* generations and lines. LogOK holds always; InPlace says where each file *)
(* stands between the renames of a rotation, as long as no upset happened. *)
(***************************************************************************)
EXTENDS LogRotation, TLAPS

USE DEF NoLog

\* Names and numbers of the files.
FilesOK ==
  /\ active \in Files \cup {NoLog} /\ rotated \in [Generations -> Files \cup {NoLog}]
  /\ nextFile \in 1 .. MaxFiles + 1 /\ active < nextFile
  /\ \A n \in Generations : rotated[n] < nextFile
  /\ rotations \in Nat /\ rotations + (IF active = NoLog THEN 0 ELSE 1) < nextFile
  /\ rotationOf \in [Files -> 0 .. MaxFiles]
  /\ GenerationsInOrder

LinesOK ==
  /\ lines \in 0 .. MaxLines
  /\ length \in [Files -> 0 .. MaxLines]
  /\ \A f \in Files : length[f] <= lines

Appends == [at : AppendSteps, n : 0 .. KeptRotations, file : Files \cup {NoLog}]
AppendOK(p) ==
  /\ p \in Appends
  /\ p.at = "write" => p.file # NoLog
  /\ p.at = "shift" => p.n \in 1 .. KeptRotations - 1
  /\ p.at = "first" => p.n = 0

\* Who holds the lock of the rotations.
LocksOK ==
  /\ lockBy \in Appenders \cup {NobodyLocks, Pruner}
  /\ appender \in [Appenders -> Appends]
  /\ \A a \in Appenders : AppendOK(appender[a]) /\ (Rotating(a) => lockBy = a)
  /\ prune \in [at : {"idle", "judged", "removing"}, old : SUBSET Generations]
  /\ prune.at = "removing" => lockBy = Pruner

FlagsOK ==
  /\ aged \subseteq Files
  /\ reaper \in BOOLEAN /\ upset \in BOOLEAN /\ lostEarly \in BOOLEAN

LogOK == FilesOK /\ LinesOK /\ LocksOK /\ FlagsOK

LEMMA LogOKTypes == LogOK => RotationTypeOK
BY DEF LogOK, FilesOK, LinesOK, LocksOK, FlagsOK, RotationTypeOK, Appends

-----------------------------------------------------------------------------
\* One appender moves, and the rest of the locks stand.
LEMMA AppenderMoves ==
  ASSUME LocksOK, NEW a \in Appenders, NEW p, AppendOK(p), appender' = [appender EXCEPT ![a] = p],
         lockBy' \in {lockBy, a, NobodyLocks},
         p.at \in {"drop", "shift", "first"} => lockBy' = a,
         lockBy' # lockBy => lockBy \in {NobodyLocks, a},
         UNCHANGED prune
  PROVE  LocksOK'
<1>1. appender' \in [Appenders -> Appends] /\ appender'[a] = p /\ \A b \in Appenders \ {a} : appender'[b] = appender[b]
  BY DEF LocksOK, AppendOK
<1>2. ASSUME NEW b \in Appenders \ {a} PROVE AppendOK(appender[b])' /\ (Rotating(b)' => lockBy' = b)
  BY <1>1, <1>2, RotationAssumption DEF LocksOK, Rotating, AppendOK, Appends
<1>3. AppendOK(appender[a])' /\ (Rotating(a)' => lockBy' = a)
  BY <1>1 DEF Rotating, AppendOK, Appends
<1>4. lockBy' \in Appenders \cup {NobodyLocks, Pruner} /\ (prune'.at = "removing" => lockBy' = Pruner)
  BY RotationAssumption DEF LocksOK, NobodyLocks, Pruner
<1> QED
  BY <1>1, <1>2, <1>3, <1>4 DEF LocksOK

LEMMA LocksStep ==
  ASSUME LogOK, [RotationNext]_logVars
  PROVE  LocksOK'
<1>0. LocksOK
  BY DEF LogOK
<1>1. ASSUME NEW a \in Appenders, StartAppend(a) PROVE LocksOK'
  <2> DEFINE p == [appender[a] EXCEPT !.at = IF IsFull(active) THEN "lock" ELSE "open"]
  <2>1. appender[a] \in Appends
    BY DEF LogOK, LocksOK
  <2>2. AppendOK(p) /\ p.at \in {"lock", "open"}
    BY <2>1 DEF AppendOK, Appends, AppendSteps
  <2>3. appender' = [appender EXCEPT ![a] = p] /\ UNCHANGED <<lockBy, prune>>
    BY <1>1 DEF StartAppend
  <2> QED
    BY <1>0, <2>2, <2>3, AppenderMoves
<1>2. ASSUME NEW a \in Appenders, LockRotation(a) PROVE LocksOK'
  <2> DEFINE p == [appender[a] EXCEPT !.at = IF IsFull(active) THEN "drop" ELSE "open"]
  <2>1. appender[a] \in Appends
    BY DEF LogOK, LocksOK
  <2>2. AppendOK(p) /\ p.at = IF IsFull(active) THEN "drop" ELSE "open"
    BY <2>1 DEF AppendOK, Appends, AppendSteps
  <2>3. /\ appender' = [appender EXCEPT ![a] = p] /\ UNCHANGED prune
        /\ lockBy = NobodyLocks /\ lockBy' = IF IsFull(active) THEN a ELSE lockBy
    BY <1>2 DEF LockRotation
  <2>4. /\ lockBy' \in {lockBy, a, NobodyLocks}
        /\ p.at \in {"drop", "shift", "first"} => lockBy' = a
        /\ lockBy' # lockBy => lockBy \in {NobodyLocks, a}
    BY <2>2, <2>3
  <2> HIDE DEF p
  <2> QED
    BY <1>0, <2>2, <2>3, <2>4, AppenderMoves
<1>3. ASSUME NEW a \in Appenders, GiveUpRotation(a) PROVE LocksOK'
  <2> DEFINE p == [appender[a] EXCEPT !.at = "open"]
  <2>1. appender[a] \in Appends
    BY DEF LogOK, LocksOK
  <2>2. AppendOK(p) /\ p.at = "open"
    BY <2>1 DEF AppendOK, Appends, AppendSteps
  <2>3. appender' = [appender EXCEPT ![a] = p] /\ UNCHANGED <<lockBy, prune>>
    BY <1>3 DEF GiveUpRotation
  <2> QED
    BY <1>0, <2>2, <2>3, AppenderMoves
<1>4. ASSUME NEW a \in Appenders, DropOldest(a) PROVE LocksOK'
  <2> DEFINE p == [appender[a] EXCEPT !.at = IF KeptRotations = 1 THEN "first" ELSE "shift",
                                      !.n = KeptRotations - 1]
  <2>1. appender[a] \in Appends /\ lockBy = a
    BY <1>4 DEF LogOK, LocksOK, DropOldest, Rotating
  <2>2. AppendOK(p)
    <3>1. KeptRotations - 1 \in 0 .. KeptRotations /\ (KeptRotations # 1 => KeptRotations - 1 \in 1 .. KeptRotations - 1)
      BY RotationAssumption
    <3>2. p \in Appends /\ p.at = (IF KeptRotations = 1 THEN "first" ELSE "shift") /\ p.n = KeptRotations - 1
      BY <2>1, <3>1 DEF Appends, AppendSteps
    <3> HIDE DEF p
    <3> QED
      BY <3>1, <3>2 DEF AppendOK
  <2>3. appender' = [appender EXCEPT ![a] = p] /\ UNCHANGED <<lockBy, prune>>
    BY <1>4 DEF DropOldest
  <2> QED
    BY <1>0, <2>1, <2>2, <2>3, AppenderMoves
<1>5. ASSUME NEW a \in Appenders, ShiftUp(a) PROVE LocksOK'
  <2> DEFINE p == [appender[a] EXCEPT !.at = IF appender[a].n = 1 THEN "first" ELSE "shift",
                                      !.n = appender[a].n - 1]
  <2>1. appender[a] \in Appends /\ lockBy = a /\ appender[a].n \in 1 .. KeptRotations - 1
    BY <1>5 DEF LogOK, LocksOK, AppendOK, ShiftUp, Rotating
  <2>2. AppendOK(p)
    <3> DEFINE k == appender[a].n
    <3>1. k - 1 \in 0 .. KeptRotations /\ (k # 1 => k - 1 \in 1 .. KeptRotations - 1)
      BY <2>1, RotationAssumption
    <3>2. p \in Appends /\ p.at = (IF k = 1 THEN "first" ELSE "shift") /\ p.n = k - 1
      BY <2>1, <3>1 DEF Appends, AppendSteps
    <3> HIDE DEF p
    <3> QED
      BY <3>1, <3>2 DEF AppendOK
  <2>3. appender' = [appender EXCEPT ![a] = p] /\ UNCHANGED <<lockBy, prune>>
    BY <1>5 DEF ShiftUp
  <2> QED
    BY <1>0, <2>1, <2>2, <2>3, AppenderMoves
<1>6. ASSUME NEW a \in Appenders, MoveActive(a) PROVE LocksOK'
  <2> DEFINE p == [appender[a] EXCEPT !.at = "open"]
  <2>1. appender[a] \in Appends /\ lockBy = a
    BY <1>6 DEF LogOK, LocksOK, MoveActive, Rotating
  <2>2. AppendOK(p) /\ p.at = "open"
    BY <2>1 DEF AppendOK, Appends, AppendSteps
  <2>3. appender' = [appender EXCEPT ![a] = p] /\ lockBy' = NobodyLocks /\ UNCHANGED prune
    BY <1>6 DEF MoveActive
  <2> QED
    BY <1>0, <2>1, <2>2, <2>3, AppenderMoves
<1>7. ASSUME NEW a \in Appenders, OpenLog(a) PROVE LocksOK'
  <2> DEFINE p == [appender[a] EXCEPT !.at = "write", !.file = IF active # NoLog THEN active ELSE nextFile]
  <2>1. appender[a] \in Appends /\ (IF active # NoLog THEN active ELSE nextFile) \in Files
    BY <1>7, RotationAssumption DEF LogOK, LocksOK, FilesOK, OpenLog, Files
  <2>2. AppendOK(p) /\ p.at = "write"
    <3>1. p \in Appends /\ p.at = "write" /\ p.file \in Files
      BY <2>1 DEF Appends, AppendSteps
    <3> HIDE DEF p
    <3> QED
      BY <3>1 DEF AppendOK, Files
  <2>3. appender' = [appender EXCEPT ![a] = p] /\ UNCHANGED <<lockBy, prune>>
    BY <1>7 DEF OpenLog
  <2> QED
    BY <1>0, <2>2, <2>3, AppenderMoves
<1>8. ASSUME NEW a \in Appenders, WriteLine(a) \/ HaltAppend(a) PROVE LocksOK'
  <2>1. AppendOK(AppendIdle) /\ AppendIdle.at = "idle"
    BY RotationAssumption DEF AppendOK, AppendIdle, Appends, AppendSteps
  <2>2. /\ appender' = [appender EXCEPT ![a] = AppendIdle] /\ UNCHANGED prune
        /\ \/ UNCHANGED lockBy
           \/ lockBy = a /\ lockBy' = NobodyLocks
    BY <1>8 DEF WriteLine, HaltAppend, LogOK, LocksOK
  <2> QED
    BY <1>0, <2>1, <2>2, AppenderMoves
<1>9. CASE JudgeRotations \/ LockPrune \/ \E n \in Generations : RemoveRotation(n)
  <2>1. UNCHANGED appender /\ prune' \in [at : {"idle", "judged", "removing"}, old : SUBSET Generations]
    BY <1>0, <1>9 DEF LocksOK, JudgeRotations, LockPrune, RemoveRotation, OldGenerations
  <2>2. \/ UNCHANGED lockBy /\ (prune'.at = "removing" => prune.at = "removing")
        \/ lockBy = NobodyLocks /\ lockBy' = Pruner
        \/ lockBy = Pruner /\ lockBy' = NobodyLocks /\ prune'.at = "idle"
    BY <1>0, <1>9 DEF LocksOK, JudgeRotations, LockPrune, RemoveRotation
  <2> QED
    BY <1>0, <2>1, <2>2, RotationAssumption DEF LocksOK, Rotating, AppendOK
<1>10. CASE ReadLogAge \/ ReapLog \/ AgeLog \/ UNCHANGED logVars
  BY <1>0, <1>10 DEF ReadLogAge, ReapLog, AgeLog, logVars, LocksOK, Rotating, AppendOK
<1> QED
  BY <1>1, <1>2, <1>3, <1>4, <1>5, <1>6, <1>7, <1>8, <1>9, <1>10 DEF RotationNext

\* Only the appender's own line changes the length of a file.
LEMMA LinesStep ==
  ASSUME LogOK, [RotationNext]_logVars
  PROVE  LinesOK'
<1>1. ASSUME NEW a \in Appenders, WriteLine(a) PROVE LinesOK'
  <2>1. appender[a].file \in Files
    BY <1>1 DEF LogOK, LocksOK, AppendOK, Appends, WriteLine
  <2>2. length[appender[a].file] \in Nat /\ lines' = lines + 1 /\ lines' \in 0 .. MaxLines /\ lines \in Nat
    BY <1>1, <2>1, RotationAssumption DEF LogOK, LinesOK, WriteLine
  <2>3. \A f \in Files : length'[f] <= lines' /\ length'[f] \in Nat
    BY <1>1, <2>1, <2>2 DEF LogOK, LinesOK, WriteLine
  <2>4. length' \in [Files -> 0 .. MaxLines]
    BY <1>1, <2>1, <2>2, <2>3, RotationAssumption DEF LogOK, LinesOK, WriteLine
  <2> QED
    BY <2>2, <2>3, <2>4 DEF LinesOK
<1>2. CASE UNCHANGED <<lines, length>>
  BY <1>2 DEF LogOK, LinesOK
<1> QED
  BY <1>1, <1>2
     DEF RotationNext, logVars, StartAppend, LockRotation, GiveUpRotation, DropOldest, ShiftUp, MoveActive,
         OpenLog, HaltAppend, JudgeRotations, LockPrune, RemoveRotation, ReadLogAge, ReapLog, AgeLog

LEMMA FlagsStep ==
  ASSUME LogOK, [RotationNext]_logVars
  PROVE  FlagsOK'
<1>1. FlagsOK
  BY DEF LogOK
<1>2. aged' \subseteq Files
  BY <1>1
     DEF FlagsOK, RotationNext, logVars, StartAppend, LockRotation, GiveUpRotation, DropOldest, ShiftUp, MoveActive,
         OpenLog, WriteLine, HaltAppend, JudgeRotations, LockPrune, RemoveRotation, ReadLogAge, ReapLog, AgeLog
<1>3. reaper' \in BOOLEAN
  BY <1>1
     DEF FlagsOK, RotationNext, logVars, StartAppend, LockRotation, GiveUpRotation, DropOldest, ShiftUp, MoveActive,
         OpenLog, WriteLine, HaltAppend, JudgeRotations, LockPrune, RemoveRotation, ReadLogAge, ReapLog, AgeLog
<1>5. upset' \in BOOLEAN
  BY <1>1
     DEF FlagsOK, RotationNext, logVars, StartAppend, LockRotation, GiveUpRotation, DropOldest, ShiftUp, MoveActive,
         OpenLog, WriteLine, HaltAppend, JudgeRotations, LockPrune, RemoveRotation, ReadLogAge, ReapLog, AgeLog
<1>4. lostEarly' \in BOOLEAN
  BY <1>1
     DEF FlagsOK, RotationNext, logVars, StartAppend, LockRotation, GiveUpRotation, DropOldest, ShiftUp, MoveActive,
         OpenLog, WriteLine, HaltAppend, JudgeRotations, LockPrune, RemoveRotation, ReadLogAge, ReapLog, AgeLog, Lose
<1> QED
  BY <1>2, <1>3, <1>4, <1>5 DEF FlagsOK

\* A rename, a removal and a new file keep the order of the generations.
LEMMA FilesStep ==
  ASSUME LogOK, [RotationNext]_logVars
  PROVE  FilesOK'
<1>0. FilesOK /\ KeptRotations \in Nat \ {0} /\ MaxFiles \in Nat
  BY RotationAssumption DEF LogOK
<1>1. ASSUME NEW m \in Generations, rotated' = [rotated EXCEPT ![m] = NoLog],
             UNCHANGED <<active, rotationOf, rotations, nextFile>>
      PROVE  FilesOK'
  BY <1>0, <1>1 DEF FilesOK, GenerationsInOrder, Generations, Files
<1>2. ASSUME NEW a \in Appenders, DropOldest(a) PROVE FilesOK'
  <2>1. KeptRotations \in Generations
    BY <1>0 DEF Generations
  <2> QED
    BY <1>1, <1>2, <2>1 DEF DropOldest
<1>3. ASSUME NEW a \in Appenders, ShiftUp(a) PROVE FilesOK'
  <2> DEFINE n == appender[a].n
  <2>1. n \in Generations /\ n + 1 \in Generations /\ n \in Nat
    BY <1>0, <1>3 DEF LogOK, LocksOK, AppendOK, ShiftUp, Generations
  <2>2. CASE rotated[n] = NoLog
    BY <1>0, <1>3, <2>2 DEF ShiftUp, FilesOK, GenerationsInOrder
  <2>3. CASE rotated[n] # NoLog
    <3>1. rotated' = [rotated EXCEPT ![n + 1] = rotated[n], ![n] = NoLog]
          /\ UNCHANGED <<active, rotationOf, rotations, nextFile>>
      BY <1>3, <2>3 DEF ShiftUp
    <3>2. /\ rotated' \in [Generations -> Files \cup {NoLog}]
          /\ rotated'[n + 1] = rotated[n] /\ rotated'[n] = NoLog
          /\ \A m \in Generations \ {n, n + 1} : rotated'[m] = rotated[m]
      BY <1>0, <2>1, <3>1 DEF FilesOK
    <3> HIDE DEF n
    <3>3. \A m \in Generations : rotated'[m] < nextFile'
      BY <1>0, <2>1, <3>1, <3>2 DEF FilesOK
    <3>4. GenerationsInOrder'
      BY <1>0, <2>1, <2>3, <3>1, <3>2 DEF FilesOK, GenerationsInOrder, Generations
    <3> QED
      BY <1>0, <3>1, <3>2, <3>3, <3>4 DEF FilesOK
  <2> QED
    BY <2>2, <2>3
<1>4. ASSUME NEW a \in Appenders, MoveActive(a) PROVE FilesOK'
  <2>1. CASE active = NoLog
    BY <1>0, <1>4, <2>1 DEF MoveActive, FilesOK, GenerationsInOrder
  <2>2. CASE active # NoLog
    <3>1. /\ rotated' = [rotated EXCEPT ![1] = active] /\ active' = NoLog /\ rotations' = rotations + 1
          /\ rotationOf' = [rotationOf EXCEPT ![active] = rotations + 1] /\ UNCHANGED nextFile
      BY <1>4, <2>2 DEF MoveActive
    <3>2. 1 \in Generations /\ active \in Files /\ rotations + 1 \in 0 .. MaxFiles
      BY <1>0, <2>2 DEF FilesOK, Generations
    <3>3. /\ rotated' \in [Generations -> Files \cup {NoLog}]
          /\ rotated'[1] = active /\ \A m \in Generations \ {1} : rotated'[m] = rotated[m]
          /\ rotationOf' \in [Files -> 0 .. MaxFiles]
      BY <1>0, <3>1, <3>2 DEF FilesOK
    <3>4. GenerationsInOrder' /\ \A m \in Generations : rotated'[m] < nextFile'
      BY <1>0, <3>1, <3>2, <3>3 DEF FilesOK, GenerationsInOrder, Generations, Files
    <3> QED
      BY <1>0, <2>2, <3>1, <3>3, <3>4 DEF FilesOK
  <2> QED
    BY <2>1, <2>2
<1>5. ASSUME NEW a \in Appenders, OpenLog(a) PROVE FilesOK'
  <2>1. CASE active # NoLog
    BY <1>0, <1>5, <2>1 DEF OpenLog, FilesOK, GenerationsInOrder
  <2>2. CASE active = NoLog
    <3>1. /\ nextFile <= MaxFiles /\ active' = nextFile /\ nextFile' = nextFile + 1
          /\ UNCHANGED <<rotated, rotationOf, rotations>>
      BY <1>5, <2>2 DEF OpenLog
    <3>2. active' \in Files /\ nextFile' \in 1 .. MaxFiles + 1
      BY <1>0, <3>1 DEF FilesOK, Files
    <3>3. GenerationsInOrder' /\ \A n \in Generations : rotated'[n] < nextFile'
      BY <1>0, <3>1 DEF FilesOK, GenerationsInOrder, Files
    <3> QED
      BY <1>0, <2>2, <3>1, <3>2, <3>3 DEF FilesOK
  <2> QED
    BY <2>1, <2>2
<1>6. ASSUME NEW n \in Generations, RemoveRotation(n) PROVE FilesOK'
  <2>1. UNCHANGED <<active, rotationOf, rotations, nextFile>>
        /\ (rotated' = [rotated EXCEPT ![n] = NoLog] \/ UNCHANGED rotated)
    BY <1>6 DEF RemoveRotation
  <2> QED
    BY <1>0, <1>1, <2>1 DEF FilesOK, GenerationsInOrder
<1>7. CASE ReapLog
  BY <1>0, <1>7 DEF ReapLog, FilesOK, GenerationsInOrder, Generations, Files
<1>8. CASE UNCHANGED <<active, rotated, rotationOf, rotations, nextFile>>
  BY <1>0, <1>8 DEF FilesOK, GenerationsInOrder
<1> QED
  BY <1>2, <1>3, <1>4, <1>5, <1>6, <1>7, <1>8
     DEF RotationNext, logVars, StartAppend, LockRotation, GiveUpRotation, WriteLine, HaltAppend,
         JudgeRotations, LockPrune, ReadLogAge, AgeLog

\* The names, the lines and the locks are right in every state.
THEOREM LogInvariance == RotationSpec => []LogOK
<1>1. RotationInit => LogOK
  <2> SUFFICES ASSUME RotationInit PROVE LogOK
    OBVIOUS
  <2>1. FilesOK
    BY RotationAssumption DEF RotationInit, FilesOK, GenerationsInOrder
  <2>2. LinesOK
    BY RotationAssumption DEF RotationInit, LinesOK
  <2>3. AppendOK(AppendIdle) /\ AppendIdle.at = "idle"
    BY RotationAssumption DEF AppendOK, AppendIdle, Appends, AppendSteps
  <2>4. LocksOK
    BY <2>3 DEF RotationInit, LocksOK, Rotating, AppendOK
  <2>5. FlagsOK
    BY DEF RotationInit, FlagsOK
  <2> QED
    BY <2>1, <2>2, <2>4, <2>5 DEF LogOK
<1>2. LogOK /\ [RotationNext]_logVars => LogOK'
  BY FilesStep, LinesStep, LocksStep, FlagsStep DEF LogOK
<1> QED
  BY <1>1, <1>2, PTL DEF RotationSpec

\* The generations are in the order of their files, also between two renames.
THEOREM OrderAlwaysKept == RotationSpec => []GenerationsInOrder
<1>1. LogOK => GenerationsInOrder
  BY DEF LogOK, FilesOK
<1> QED
  BY <1>1, LogInvariance, PTL

-----------------------------------------------------------------------------
(* What holds until the first upset.                                       *)

\* The renames of an appender are under way.
Shifting(a) == appender[a].at \in {"shift", "first"}

\* The file of generation m was moved from the log's name `late' rotations before
\* the last one, less m.
Due(m, late) == rotated[m] # NoLog => rotationOf[rotated[m]] = rotations + late - m

\* Each file is in the generation that its age asks for: past the appender's place
\* the files have made room already, and the generation above it is free.
InPlace ==
  /\ (\A a \in Appenders : ~Shifting(a)) => \A m \in Generations : Due(m, 1)
  /\ \A a \in Appenders :
       Shifting(a) =>
         /\ rotated[appender[a].n + 1] = NoLog
         /\ \A m \in Generations : Due(m, IF m <= appender[a].n THEN 1 ELSE 2)

\* The file that a rotation measured keeps the log's name until it is moved.
MeasuredFull == \A a \in Appenders : Rotating(a) => IsFull(active)
RotatedFull == \A n \in Generations : rotated[n] # NoLog => IsFull(rotated[n])

CalmInv == upset \/ (InPlace /\ MeasuredFull /\ RotatedFull /\ ~lostEarly)

\* A file that was full stays full.
LEMMA FullStays ==
  ASSUME LogOK, LogOK', [RotationNext]_logVars, NEW f \in Files, IsFull(f)
  PROVE  IsFull(f)'
<1>1. length[f] \in Nat /\ length'[f] \in Nat /\ FullAt \in Nat
  BY RotationAssumption DEF LogOK, LinesOK
<1>2. length'[f] >= length[f]
  <2>1. ASSUME NEW a \in Appenders, WriteLine(a) PROVE length'[f] >= length[f]
    BY <1>1, <2>1 DEF LogOK, LinesOK, WriteLine
  <2>2. CASE UNCHANGED length
    BY <1>1, <2>2
  <2> QED
    BY <2>1, <2>2
       DEF RotationNext, logVars, StartAppend, LockRotation, GiveUpRotation, DropOldest, ShiftUp, MoveActive,
           OpenLog, HaltAppend, JudgeRotations, LockPrune, RemoveRotation, ReadLogAge, ReapLog, AgeLog
<1> QED
  BY <1>1, <1>2 DEF IsFull

\* An upset is never forgotten.
LEMMA UpsetStays ==
  ASSUME [RotationNext]_logVars, upset
  PROVE  upset'
BY DEF RotationNext, logVars, StartAppend, LockRotation, GiveUpRotation, DropOldest, ShiftUp, MoveActive,
       OpenLog, WriteLine, HaltAppend, JudgeRotations, LockPrune, RemoveRotation, ReadLogAge, ReapLog, AgeLog

\* A step that renames nothing and starts or ends no shift keeps every file in place.
LEMMA PlacesStand ==
  ASSUME InPlace, UNCHANGED <<rotated, rotationOf, rotations>>,
         \A a \in Appenders : (Shifting(a)' <=> Shifting(a)) /\ (Shifting(a) => appender'[a].n = appender[a].n)
  PROVE  InPlace'
BY DEF InPlace, Due

\* So does the removal of a file when no shift is under way.
LEMMA RemovalKeepsPlaces ==
  ASSUME LogOK, InPlace, NEW n \in Generations, rotated' = [rotated EXCEPT ![n] = NoLog],
         UNCHANGED <<rotationOf, rotations, appender>>, \A a \in Appenders : ~Shifting(a)
  PROVE  InPlace'
BY DEF LogOK, FilesOK, InPlace, Due, Shifting

LEMMA CalmDrop ==
  ASSUME LogOK, CalmInv, ~upset, NEW a \in Appenders, DropOldest(a)
  PROVE  InPlace' /\ RotatedFull' /\ ~lostEarly'
<1>0. KeptRotations \in Generations /\ KeptRotations \in Nat /\ lockBy = a /\ KeptRotations - 1 + 1 = KeptRotations
  BY RotationAssumption DEF Generations, LogOK, LocksOK, Rotating, DropOldest
<1>1. \A b \in Appenders : ~Shifting(b)
  BY <1>0 DEF LogOK, LocksOK, Rotating, Shifting, DropOldest
<1>2. /\ rotated' = [rotated EXCEPT ![KeptRotations] = NoLog]
      /\ UNCHANGED <<rotationOf, rotations, length>>
      /\ rotated'[KeptRotations] = NoLog /\ \A m \in Generations \ {KeptRotations} : rotated'[m] = rotated[m]
  BY <1>0 DEF DropOldest, LogOK, FilesOK
<1>3. /\ appender'[a].n = KeptRotations - 1
      /\ \A b \in Appenders \ {a} : appender'[b] = appender[b]
  BY DEF DropOldest, LogOK, LocksOK, Appends
<1>4. \A m \in Generations : Due(m, 1)
  BY <1>1 DEF CalmInv, InPlace
<1>5. ASSUME NEW m \in Generations PROVE Due(m, IF m <= KeptRotations - 1 THEN 1 ELSE 2)'
  <2>1. m # KeptRotations => m <= KeptRotations - 1
    BY <1>0 DEF Generations
  <2> QED
    BY <1>2, <1>4, <2>1 DEF Due
<1>6. Shifting(a)'
  BY DEF DropOldest, Shifting, LogOK, LocksOK, Appends
<1>7. InPlace'
  BY <1>0, <1>1, <1>2, <1>3, <1>5, <1>6 DEF InPlace, Shifting
<1>8. RotatedFull'
  BY <1>2 DEF CalmInv, RotatedFull, IsFull
<1>9. ~lostEarly'
  <2> DEFINE f == rotated[KeptRotations]
  <2>1. f # NoLog => rotations + 1 - rotationOf[f] >= KeptRotations
    <3>1. f # NoLog => rotationOf[f] = rotations + 1 - KeptRotations
      BY <1>0, <1>4 DEF Due
    <3> QED
      BY <1>0, <3>1 DEF LogOK, FilesOK
  <2> QED
    BY <2>1 DEF DropOldest, Lose, HadItsTime, CalmInv
<1> QED
  BY <1>7, <1>8, <1>9

\* The rename goes to a free generation, so it replaces no file.
LEMMA CalmShift ==
  ASSUME LogOK, CalmInv, ~upset, NEW a \in Appenders, ShiftUp(a)
  PROVE  InPlace' /\ RotatedFull' /\ ~lostEarly'
<1>n. PICK n \in 1 .. KeptRotations - 1 : n = appender[a].n
  BY DEF LogOK, LocksOK, AppendOK, ShiftUp
<1>0. n \in Generations /\ n + 1 \in Generations /\ n \in Nat /\ lockBy = a
  BY RotationAssumption DEF Generations, LogOK, LocksOK, Rotating, ShiftUp
<1>1. \A b \in Appenders \ {a} : ~Shifting(b)
  BY <1>0 DEF LogOK, LocksOK, Rotating, Shifting
<1>2. Shifting(a) /\ rotated[n + 1] = NoLog
      /\ \A m \in Generations : Due(m, IF m <= n THEN 1 ELSE 2)
  BY <1>n DEF ShiftUp, Shifting, CalmInv, InPlace
<1>3. /\ rotated'[n] = NoLog /\ rotated'[n + 1] = rotated[n]
      /\ \A m \in Generations \ {n, n + 1} : rotated'[m] = rotated[m]
      /\ UNCHANGED <<rotationOf, rotations, length>>
  <2>1. CASE rotated[n] = NoLog
    BY <1>n, <1>2, <2>1 DEF ShiftUp
  <2>2. CASE rotated[n] # NoLog
    <3>1. /\ rotated' = [rotated EXCEPT ![n + 1] = rotated[n], ![n] = NoLog]
          /\ UNCHANGED <<rotationOf, rotations, length>>
      BY <1>n, <2>2 DEF ShiftUp
    <3>2. rotated \in [Generations -> Files \cup {NoLog}] /\ n # n + 1
      BY <1>0 DEF LogOK, FilesOK
    <3> QED
      BY <1>0, <3>1, <3>2
  <2> QED
    BY <2>1, <2>2
<1>4. appender'[a].n = n - 1 /\ Shifting(a)' /\ \A b \in Appenders \ {a} : appender'[b] = appender[b]
  BY <1>n DEF ShiftUp, Shifting, LogOK, LocksOK, Appends
<1>5. ASSUME NEW m \in Generations PROVE Due(m, IF m <= n - 1 THEN 1 ELSE 2)'
  <2>0. rotations \in Nat /\ m \in Nat
    BY DEF LogOK, FilesOK, Generations
  <2>1. CASE m = n
    BY <1>3, <2>1 DEF Due
  <2>2. CASE m = n + 1
    <3>1. rotated[n] # NoLog => rotationOf[rotated[n]] = rotations + 1 - n
      BY <1>0, <1>2 DEF Due
    <3>2. ~(m <= n - 1) /\ rotations + 1 - n = rotations + 2 - m
      BY <1>0, <2>0, <2>2
    <3> QED
      BY <1>3, <2>2, <3>1, <3>2 DEF Due
  <2>3. CASE m \notin {n, n + 1}
    <3>1. m <= n <=> m <= n - 1
      BY <1>0, <2>0, <2>3
    <3> QED
      BY <1>2, <1>3, <2>3, <3>1 DEF Due
  <2> QED
    BY <2>1, <2>2, <2>3
<1>6. InPlace'
  <2>1. appender'[a].n + 1 = n
    BY <1>0, <1>4
  <2> QED
    BY <1>1, <1>3, <1>4, <1>5, <2>1 DEF InPlace, Shifting
<1>7. RotatedFull'
  BY <1>0, <1>3 DEF CalmInv, RotatedFull, IsFull
<1>8. ~lostEarly'
  BY <1>n, <1>2 DEF ShiftUp, Lose, CalmInv
<1> QED
  BY <1>6, <1>7, <1>8

\* The measured file goes to the free generation 1, and the rotation is over.
LEMMA CalmMove ==
  ASSUME LogOK, CalmInv, ~upset, NEW a \in Appenders, MoveActive(a)
  PROVE  InPlace' /\ RotatedFull' /\ ~lostEarly'
<1>0. 1 \in Generations /\ lockBy = a /\ appender[a].n = 0 /\ rotations \in Nat
  BY RotationAssumption DEF Generations, LogOK, FilesOK, LocksOK, AppendOK, Rotating, MoveActive
<1>1. \A b \in Appenders \ {a} : ~Shifting(b)
  BY <1>0 DEF LogOK, LocksOK, Rotating, Shifting
<1>2. IsFull(active) /\ active # NoLog /\ active \in Files
  BY DEF CalmInv, MeasuredFull, Rotating, MoveActive, IsFull, LogOK, FilesOK
<1>3. Shifting(a) /\ rotated[1] = NoLog /\ \A m \in Generations : Due(m, 2)
  <2>1. Shifting(a)
    BY DEF MoveActive, Shifting
  <2>2. \A m \in Generations : ~(m <= 0)
    BY DEF Generations
  <2> QED
    BY <1>0, <2>1, <2>2 DEF CalmInv, InPlace
<1>4. /\ rotated'[1] = active /\ \A m \in Generations \ {1} : rotated'[m] = rotated[m]
      /\ rotations' = rotations + 1 /\ UNCHANGED length
      /\ rotationOf'[active] = rotations + 1
      /\ \A f \in Files \ {active} : rotationOf'[f] = rotationOf[f]
  BY <1>0, <1>2 DEF MoveActive, LogOK, FilesOK
<1>5. \A b \in Appenders : ~Shifting(b)'
  BY <1>1 DEF MoveActive, Shifting, LogOK, LocksOK, Appends
<1>6. ASSUME NEW m \in Generations PROVE Due(m, 1)'
  <2>1. CASE m = 1
    BY <1>0, <1>4, <2>1 DEF Due
  <2>2. CASE m # 1
    <3>1. rotated[m] # NoLog => rotated[m] \in Files \ {active}
      BY <1>2 DEF LogOK, FilesOK, GenerationsInOrder, Files
    <3>2. rotated[m] # NoLog => rotationOf[rotated[m]] = rotations + 2 - m
      BY <1>3 DEF Due
    <3>3. rotations + 2 - m = rotations' + 1 - m
      BY <1>0, <1>4 DEF Generations
    <3> QED
      BY <1>4, <2>2, <3>1, <3>2, <3>3 DEF Due
  <2> QED
    BY <2>1, <2>2
<1>7. InPlace'
  BY <1>5, <1>6 DEF InPlace
<1>8. RotatedFull'
  BY <1>2, <1>4 DEF CalmInv, RotatedFull, IsFull
<1>9. ~lostEarly'
  BY <1>2, <1>3 DEF MoveActive, Lose, CalmInv
<1> QED
  BY <1>7, <1>8, <1>9

\* Until an upset, the active file that a rotation measured stays the active file.
LEMMA MeasuredStays ==
  ASSUME LogOK, LogOK', CalmInv, ~upset', [RotationNext]_logVars
  PROVE  MeasuredFull'
<1>0. MeasuredFull
  BY UpsetStays DEF CalmInv
<1> SUFFICES ASSUME NEW a \in Appenders, Rotating(a)' PROVE IsFull(active)'
  BY DEF MeasuredFull
<1>1. CASE Rotating(a) /\ UNCHANGED active
  <2>1. IsFull(active) /\ active \in Files
    BY <1>0, <1>1 DEF MeasuredFull, IsFull, LogOK, FilesOK
  <2> QED
    BY <1>1, <2>1, FullStays DEF IsFull
<1>2. CASE LockRotation(a)
  <2>1. IsFull(active) /\ UNCHANGED <<active, length>>
    BY <1>2 DEF LockRotation, Rotating, LogOK, LocksOK, Appends
  <2> QED
    BY <2>1 DEF IsFull
<1>3. Rotating(a) \/ LockRotation(a)
  <2>1. ASSUME NEW b \in Appenders, \/ StartAppend(b) \/ GiveUpRotation(b) \/ MoveActive(b) \/ OpenLog(b)
                                    \/ WriteLine(b) \/ HaltAppend(b) \/ LockRotation(b)
        PROVE  Rotating(a) \/ LockRotation(a)
    <3>1. CASE a # b
      BY <2>1, <3>1 DEF LogOK, LocksOK, Rotating, StartAppend, GiveUpRotation, MoveActive, OpenLog, WriteLine,
                        HaltAppend, LockRotation
    <3>2. CASE a = b
      BY <2>1, <3>2 DEF LogOK, LocksOK, Appends, Rotating, StartAppend, GiveUpRotation, MoveActive, OpenLog,
                        WriteLine, HaltAppend, AppendIdle
    <3> QED
      BY <3>1, <3>2
  <2>2. ASSUME NEW b \in Appenders, DropOldest(b) \/ ShiftUp(b) PROVE Rotating(a)
    BY <2>2 DEF LogOK, LocksOK, Rotating, DropOldest, ShiftUp
  <2>3. CASE UNCHANGED appender
    BY <2>3 DEF Rotating
  <2> QED
    BY <2>1, <2>2, <2>3
       DEF RotationNext, logVars, JudgeRotations, LockPrune, RemoveRotation, ReadLogAge, ReapLog, AgeLog
<1>4. Rotating(a) => UNCHANGED active
  <2> SUFFICES ASSUME Rotating(a) PROVE UNCHANGED active
    OBVIOUS
  <2>1. lockBy = a /\ active # NoLog /\ a # NobodyLocks
    BY <1>0, RotationAssumption DEF LogOK, LocksOK, MeasuredFull, IsFull
  <2>2. ASSUME NEW b \in Appenders, MoveActive(b) PROVE FALSE
    <3>1. a = b
      BY <2>1, <2>2 DEF LogOK, LocksOK, Rotating, MoveActive
    <3> QED
      BY <2>2, <3>1 DEF MoveActive, Rotating, LogOK, LocksOK, Appends
  <2>3. ASSUME NEW b \in Appenders, OpenLog(b) PROVE UNCHANGED active
    BY <2>1, <2>3 DEF OpenLog
  <2>4. CASE ReapLog
    BY <2>1, <2>4 DEF ReapLog
  <2> QED
    BY <2>2, <2>3, <2>4
       DEF RotationNext, logVars, StartAppend, LockRotation, GiveUpRotation, DropOldest, ShiftUp,
           WriteLine, HaltAppend, JudgeRotations, LockPrune, RemoveRotation, ReadLogAge, AgeLog
<1> QED
  BY <1>1, <1>2, <1>3, <1>4

LEMMA CalmStep ==
  ASSUME LogOK, LogOK', CalmInv, [RotationNext]_logVars
  PROVE  CalmInv'
<1> SUFFICES ASSUME ~upset' PROVE InPlace' /\ RotatedFull' /\ ~lostEarly'
  BY MeasuredStays DEF CalmInv
<1>0. ~upset /\ InPlace /\ MeasuredFull /\ RotatedFull /\ ~lostEarly
  BY UpsetStays DEF CalmInv
<1>1. ASSUME NEW a \in Appenders, DropOldest(a) \/ ShiftUp(a) \/ MoveActive(a)
      PROVE  InPlace' /\ RotatedFull' /\ ~lostEarly'
  BY <1>0, <1>1, CalmDrop, CalmShift, CalmMove
<1>2. ASSUME UNCHANGED <<rotated, rotationOf, rotations>>, ~lostEarly',
             \A a \in Appenders : (Shifting(a)' <=> Shifting(a)) /\ (Shifting(a) => appender'[a].n = appender[a].n)
      PROVE  InPlace' /\ RotatedFull' /\ ~lostEarly'
  <2>1. InPlace'
    BY <1>0, <1>2, PlacesStand
  <2>2. RotatedFull'
    BY <1>0, <1>2, FullStays DEF RotatedFull, IsFull, LogOK, FilesOK
  <2> QED
    BY <1>0, <1>2, <2>1, <2>2
<1>3. ASSUME NEW a \in Appenders, \/ StartAppend(a) \/ LockRotation(a) \/ GiveUpRotation(a)
                                  \/ OpenLog(a) \/ WriteLine(a)
      PROVE  InPlace' /\ RotatedFull' /\ ~lostEarly'
  <2>1. ~Shifting(a) /\ ~Shifting(a)'
    BY <1>3 DEF Shifting, StartAppend, LockRotation, GiveUpRotation, OpenLog, WriteLine, AppendIdle,
                LogOK, LocksOK, Appends
  <2>2. \A b \in Appenders \ {a} : appender'[b] = appender[b]
    BY <1>3 DEF StartAppend, LockRotation, GiveUpRotation, OpenLog, WriteLine, LogOK, LocksOK
  <2>3. UNCHANGED <<rotated, rotationOf, rotations>> /\ ~lostEarly'
    BY <1>0, <1>3 DEF StartAppend, LockRotation, GiveUpRotation, OpenLog, WriteLine
  <2> QED
    BY <1>2, <2>1, <2>2, <2>3 DEF Shifting
<1>4. ASSUME NEW a \in Appenders, HaltAppend(a) PROVE FALSE
  BY <1>4 DEF HaltAppend
<1>5. ASSUME NEW n \in Generations, RemoveRotation(n) PROVE InPlace' /\ RotatedFull' /\ ~lostEarly'
  <2>1. \A a \in Appenders : ~Shifting(a)
    BY <1>5, RotationAssumption DEF RemoveRotation, LogOK, LocksOK, Rotating, Shifting
  <2>2. ~lostEarly'
    BY <1>0, <1>5 DEF RemoveRotation, Lose, HadItsTime
  <2>3. UNCHANGED <<rotationOf, rotations, appender, length>>
    BY <1>5 DEF RemoveRotation
  <2>4. CASE UNCHANGED rotated
    BY <1>0, <1>2, <2>1, <2>2, <2>3, <2>4 DEF Shifting
  <2>5. CASE rotated' = [rotated EXCEPT ![n] = NoLog]
    <3>1. InPlace'
      BY <1>0, <2>1, <2>3, <2>5, RemovalKeepsPlaces
    <3>2. RotatedFull'
      BY <1>0, <2>3, <2>5 DEF RotatedFull, IsFull, LogOK, FilesOK
    <3> QED
      BY <2>2, <3>1, <3>2
  <2> QED
    BY <1>5, <2>4, <2>5 DEF RemoveRotation
<1>6. CASE ReapLog
  <2>1. UNCHANGED <<rotated, rotationOf, rotations, appender>> /\ ~lostEarly'
    BY <1>0, <1>6 DEF ReapLog
  <2> QED
    BY <1>2, <2>1 DEF Shifting
<1>7. CASE JudgeRotations \/ LockPrune \/ ReadLogAge \/ AgeLog \/ UNCHANGED logVars
  BY <1>0, <1>2, <1>7 DEF JudgeRotations, LockPrune, ReadLogAge, AgeLog, logVars, Shifting
<1> QED
  BY <1>1, <1>3, <1>4, <1>5, <1>6, <1>7 DEF RotationNext

\* Until an upset every file is in place, full, and not lost.
THEOREM CalmInvariance == RotationSpec => []CalmInv
<1>1. RotationInit => CalmInv
  BY DEF RotationInit, CalmInv, InPlace, Due, Shifting, MeasuredFull, Rotating, RotatedFull, AppendIdle
<1>2. LogOK /\ LogOK' /\ CalmInv /\ [RotationNext]_logVars => CalmInv'
  BY CalmStep
<1> QED
  BY <1>1, <1>2, LogInvariance, PTL DEF RotationSpec

\* Only a full file is rotated, unless the reaper took the file that was measured.
THEOREM RotatedAlwaysFull == RotationSpec => []RotatedWasFull
<1>1. CalmInv => RotatedWasFull
  BY DEF CalmInv, RotatedFull, RotatedWasFull
<1> QED
  BY <1>1, CalmInvariance, PTL

\* No file with lines leaves before its time, unless a rotation was cut off or the
\* reaper took a file in use.
THEOREM NoEarlyLoss == RotationSpec => []EarlyLossNeedsUpset
<1>1. CalmInv => EarlyLossNeedsUpset
  BY DEF CalmInv, EarlyLossNeedsUpset
<1> QED
  BY <1>1, CalmInvariance, PTL

\* Without an upset the log keeps its lines, for any number of appenders and generations.
THEOREM CalmLogAlwaysKeeps == RotationSpec => []CalmLogKeepsLines
  BY RotatedAlwaysFull, NoEarlyLoss, PTL DEF CalmLogKeepsLines
=============================================================================
