------------------------- MODULE TaskStoreTheorems -------------------------
(***************************************************************************)
(* What the task store keeps, whoever runs which commands in which order    *)
(* and whoever dies between two saves.  Each theorem follows from Effect,   *)
(* the list of what one step may do to the files (TaskStoreProofs).         *)
(***************************************************************************)
EXTENDS TaskStoreProofs

LEMMA StepIInv ==
    ASSUME IInv, [Next]_vars
    PROVE  IInv' /\ (Effect \/ UNCHANGED vars)
<1>1. CASE Next
  BY <1>1, StepEffect
<1>2. CASE UNCHANGED vars
  BY <1>2 DEF vars, IInv, TypeOK, JobOK, LoopOK, Exists, IsOpen
<1>. QED
  BY <1>1, <1>2

\* The inductive invariant: types, and the files that a job counts on.
THEOREM Invariance == Spec => []IInv
<1>1. IInv /\ [Next]_vars => IInv'
  BY StepIInv
<1>. QED
  BY InitIInv, <1>1, PTL DEF Spec

\* Every file has the shape the code gives it, and so has every job.
THEOREM TypeCorrect == Spec => []TypeOK
<1>1. IInv => TypeOK
  BY DEF IInv
<1>. QED
  BY Invariance, <1>1, PTL

-----------------------------------------------------------------------------
\* A finished or abandoned session gets no new unfinished task, except a
\* reopened one and the next --task of a session start that saw it open.
THEOREM ClosedSessionsStayEmpty == Spec => ClosedTakesNoWork
<1>. DEFINE A == \A s \in SessionIds : sessions[s] # None /\ ~IsOpen(sessions, s) =>
                    \A x \in Unfinished(tasks', s) \ Unfinished(tasks, s) :
                        \/ tasks[x] # None /\ tasks[x].session = s
                        \/ \E p \in Procs : loop[p].sid = s /\ loop[p].seen
<1>1. ASSUME IInv, [Next]_vars
      PROVE  [A]_vars
  <2>. SUFFICES ASSUME Effect,
                       NEW s \in SessionIds, sessions[s] # None, ~IsOpen(sessions, s),
                       NEW x \in Slugs, tasks'[x] # None, tasks'[x].session = s,
                       tasks[x] # None => tasks[x].session # s
                PROVE  \E p \in Procs : loop[p].sid = s /\ loop[p].seen
    BY <1>1, StepIInv DEF Unfinished, Exists
  <2>1. PICK y \in Slugs : /\ Only(y)
                           /\ \/ Moved(y) \/ Posted(y) \/ Linked(y) \/ Freed(y)
                              \/ tasks'[y] = None
    BY DEF Effect
  <2>2. x = y
    BY <2>1 DEF Only
  <2>3. Posted(x)
    BY <2>1, <2>2, NoneAssumption DEF Moved, Linked, Freed
  <2>. QED
    BY <2>3 DEF Posted
<1>. HIDE DEF A
<1>2. Spec => [][A]_vars
  BY Invariance, <1>1, PTL DEF Spec
<1>. QED
  BY <1>2 DEF A, ClosedTakesNoWork

-----------------------------------------------------------------------------
(* Parent links *)

\* A link to a task that is not there is a link to a deleted one.
DanglingAreGone ==
    \A x \in Exists(tasks) : tasks[x].parent \in Exists(tasks) \cup gone \cup {None}

\* The ways up from y lead to y, and they do not end at a link.
LEMMA LineageClosed ==
    ASSUME NEW T \in [Slugs -> Task \cup {None}], NEW y \in Slugs
    PROVE  /\ y \in Lineage(T, y)
           /\ \A x \in Lineage(T, y) :
                 T[x] # None /\ T[x].parent # None => T[x].parent \in Lineage(T, y)
<1>1. y \in Lineage(T, y)
  BY DEF Lineage
<1>2. ASSUME NEW x \in Lineage(T, y), T[x] # None, T[x].parent # None
      PROVE  T[x].parent \in Lineage(T, y)
  <2>1. x \in Slugs /\ T[x].parent \in Slugs
    BY <1>2 DEF Lineage, Task
  <2>2. ASSUME NEW B \in SUBSET Slugs, y \in B, ParentClosed(T, B)
        PROVE  T[x].parent \in B
    BY <1>2, <2>2 DEF Lineage, ParentClosed
  <2>. QED
    BY <2>1, <2>2 DEF Lineage
<1>. QED
  BY <1>1, <1>2

\* What a step does to the parent links: it may add a task without dependents,
\* redirect the link of one task, or remove one.
LEMMA LinkEffect ==
    ASSUME IInv, DanglingAreGone, Effect \/ UNCHANGED vars
    PROVE  /\ tasks' \in [Slugs -> Task \cup {None}]
           /\ DanglingAreGone'
           /\ gone \subseteq gone'
<1>1. CASE tasks' = tasks /\ gone' = gone
  BY <1>1 DEF IInv, TypeOK, DanglingAreGone, Exists
<1>2. ASSUME NEW x \in Slugs, Only(x), gone' = gone, Moved(x) \/ Posted(x) \/ Linked(x) \/ Freed(x)
      PROVE  DanglingAreGone' /\ gone \subseteq gone'
  <2>1. Exists(tasks)' = Exists(tasks) \cup {x}
    BY <1>2 DEF Exists, Only, Moved, Posted, Linked, Freed
  <2>2. tasks'[x].parent \in Exists(tasks) \cup gone \cup {None}
    <3>1. CASE Moved(x) \/ Freed(x)
      BY <3>1 DEF DanglingAreGone, Exists, Moved, Freed
    <3>2. CASE Posted(x) \/ Linked(x)
      BY <3>2 DEF Posted, Linked
    <3>. QED
      BY <1>2, <3>1, <3>2
  <2>3. \A y \in Exists(tasks) \ {x} : tasks'[y].parent \in Exists(tasks) \cup gone \cup {None}
    BY <1>2 DEF Only, Exists, DanglingAreGone
  <2>. QED
    BY <1>2, <2>1, <2>2, <2>3 DEF DanglingAreGone
<1>3. ASSUME NEW x \in Slugs, Only(x), gone' = gone \cup {x}, tasks[x] # None, tasks'[x] = None
      PROVE  DanglingAreGone' /\ gone \subseteq gone'
  <2>1. Exists(tasks)' = Exists(tasks) \ {x}
    BY <1>3 DEF Exists, Only
  <2>. QED
    BY <1>3, <2>1 DEF DanglingAreGone, Only, Exists
<1>. QED
  BY <1>1, <1>2, <1>3 DEF Effect, vars, Only, IInv, TypeOK

LEMMA StepAcyclic ==
    ASSUME IInv, DanglingAreGone, CycleNeedsReuse, Effect \/ UNCHANGED vars
    PROVE  CycleNeedsReuse'
<1>. SUFFICES ASSUME NEW C \in SUBSET Exists(tasks)', Cyclic(C)'
              PROVE  C \cap gone' # {}
  BY DEF CycleNeedsReuse
<1>1. gone \subseteq gone'
  BY LinkEffect
<1>2. C # {} /\ \A y \in C : y \in Slugs /\ tasks'[y] # None /\ tasks'[y].parent \in C
  BY DEF Cyclic, Exists
<1>3. ASSUME \A y \in C : tasks[y] # None /\ tasks'[y].parent = tasks[y].parent
      PROVE  C \cap gone' # {}
  BY <1>1, <1>2, <1>3 DEF CycleNeedsReuse, Cyclic, Exists
<1>4. CASE tasks' = tasks
  BY <1>2, <1>3, <1>4
<1>5. ASSUME NEW x \in Slugs, Only(x), Moved(x) \/ Freed(x) \/ tasks'[x] = None
      PROVE  C \cap gone' # {}
  BY <1>2, <1>3, <1>5 DEF Only, Moved, Freed
<1>6. ASSUME NEW x \in Slugs, Only(x), Posted(x), gone' = gone
      PROVE  C \cap gone' # {}
  <2>1. CASE x \notin C
    BY <1>2, <1>3, <1>6, <2>1 DEF Only
  <2>2. CASE x \in C /\ x \notin gone
    <3>. DEFINE D == C \ {x}
    <3>1. \A y \in D : y \in Exists(tasks) /\ tasks[y].parent \in C
      BY <1>2, <1>6 DEF Only, Exists
    <3>2. x \notin Exists(tasks) \cup gone \cup {None}
      BY <1>6, <2>2, NoneAssumption DEF Posted, Exists
    <3>3. \A y \in D : tasks[y].parent \in D
      BY <3>1, <3>2 DEF DanglingAreGone
    <3>4. tasks'[x].parent \in D
      BY <1>2, <1>6, <2>2, <3>2, NoneAssumption DEF Posted
    <3>5. D \cap gone # {}
      <4>1. D \in SUBSET Exists(tasks) /\ Cyclic(D)
        BY <3>1, <3>3, <3>4 DEF Cyclic
      <4>. HIDE DEF D
      <4>. QED
        BY <4>1 DEF CycleNeedsReuse
    <3>. QED
      BY <1>1, <3>5
  <2>. QED
    BY <1>6, <2>1, <2>2
<1>7. ASSUME NEW x \in Slugs, Only(x), Linked(x)
      PROVE  C \cap gone' # {}
  <2>1. CASE x \notin C
    BY <1>2, <1>3, <1>7, <2>1 DEF Only
  <2>2. CASE x \in C
    <3>. DEFINE par == tasks'[x].parent
                D == C \cap Lineage(tasks, par)
    <3>1. par \in C /\ par \in Slugs /\ par # None /\ tasks \in [Slugs -> Task \cup {None}]
      BY <1>2, <2>2, NoneAssumption DEF IInv, TypeOK
    <3>2. x \notin Lineage(tasks, par) /\ par \in D
      BY <1>7, <3>1, LineageClosed DEF Linked, NoCycle
    <3>3. \A y \in D : y \in Exists(tasks) /\ tasks[y].parent \in C /\ tasks[y].parent # None
      BY <1>2, <1>7, <3>2, NoneAssumption DEF Only, Exists
    <3>4. \A y \in D : tasks[y].parent \in Lineage(tasks, par)
      BY <3>1, <3>3, LineageClosed DEF Exists
    <3>5. D \in SUBSET Exists(tasks) /\ Cyclic(D)
      BY <3>2, <3>3, <3>4 DEF Cyclic
    <3>6. D \cap gone # {}
      <4>. HIDE DEF D
      <4>. QED
        BY <3>5 DEF CycleNeedsReuse
    <3>. QED
      BY <1>1, <3>6
  <2>. QED
    BY <2>1, <2>2
<1>. QED
  BY <1>4, <1>5, <1>6, <1>7 DEF Effect, vars

\* Adds and edits alone never make the parent links loop, for any number of
\* tasks: only the slug of a deleted task that is used again can close a loop.
THEOREM LoopsNeedReuse == Spec => []CycleNeedsReuse
<1>1. Init => DanglingAreGone /\ CycleNeedsReuse
  BY DEF Init, DanglingAreGone, CycleNeedsReuse, Exists, Cyclic
<1>2. IInv /\ DanglingAreGone /\ CycleNeedsReuse /\ [Next]_vars =>
          DanglingAreGone' /\ CycleNeedsReuse'
  BY StepIInv, LinkEffect, StepAcyclic
<1>. QED
  BY Invariance, <1>1, <1>2, PTL DEF Spec

LEMMA StepLinks ==
    ASSUME IInv, DanglingAreGone, LinksStayInSession, Effect \/ UNCHANGED vars
    PROVE  LinksStayInSession'
<1>. SUFFICES ASSUME NEW x \in Slugs, NEW y \in Slugs, tasks'[x] # None, tasks'[y] # None,
                     tasks'[x].parent = y, y \notin gone',
                     tasks'[x].session # None, tasks'[y].session # None
              PROVE  tasks'[x].session = tasks'[y].session
  BY DEF LinksStayInSession, Exists
<1>1. y \notin gone
  BY LinkEffect
<1>2. CASE tasks' = tasks
  BY <1>1, <1>2 DEF LinksStayInSession, Exists
<1>3. ASSUME NEW z \in Slugs, Only(z), Moved(z) \/ Freed(z) \/ tasks'[z] = None
      PROVE  tasks'[x].session = tasks'[y].session
  BY <1>1, <1>3 DEF Only, Moved, Freed, LinksStayInSession, Exists
<1>4. ASSUME NEW z \in Slugs, Only(z), Posted(z)
      PROVE  tasks'[x].session = tasks'[y].session
  <2>1. CASE z = x
    BY <1>4, <2>1, NoneAssumption DEF Only, Posted, Exists
  <2>2. CASE z # x /\ z = y
    BY <1>1, <1>4, <2>2, NoneAssumption DEF Only, Posted, Exists, DanglingAreGone
  <2>3. CASE z # x /\ z # y
    BY <1>1, <1>4, <2>3 DEF Only, LinksStayInSession, Exists
  <2>. QED
    BY <2>1, <2>2, <2>3
<1>5. ASSUME NEW z \in Slugs, Only(z), Linked(z)
      PROVE  tasks'[x].session = tasks'[y].session
  <2>1. CASE z = x
    BY <1>5, <2>1, NoneAssumption DEF Only, Linked, Exists
  <2>2. CASE z # x
    BY <1>1, <1>5, <2>2 DEF Only, Linked, LinksStayInSession, Exists
  <2>. QED
    BY <2>1, <2>2
<1>. QED
  BY <1>2, <1>3, <1>4, <1>5 DEF Effect, vars

\* A task and its parent never belong to two sessions, unless the parent is a
\* later task under the slug of a deleted one.
THEOREM LinksInOneSession == Spec => []LinksStayInSession
<1>1. Init => DanglingAreGone /\ LinksStayInSession
  BY DEF Init, DanglingAreGone, LinksStayInSession, Exists
<1>2. IInv /\ DanglingAreGone /\ LinksStayInSession /\ [Next]_vars =>
          DanglingAreGone' /\ LinksStayInSession'
  BY StepIInv, LinkEffect, StepLinks
<1>. QED
  BY Invariance, <1>1, <1>2, PTL DEF Spec

-----------------------------------------------------------------------------
(* TaskBoard *)

boardVars == <<boardState, boardTag, boardStatus>>

\* What TaskBoard sees of one file, and of one that another step wrote.
LEMMA SeenTask ==
    ASSUME NEW x \in Slugs
    PROVE  /\ boardState[x] = IF tasks[x] = None THEN "absent" ELSE tasks[x].state
           /\ boardTag[x] = IF tasks[x] = None THEN None ELSE tasks[x].session
           /\ boardState'[x] = IF tasks'[x] = None THEN "absent" ELSE tasks'[x].state
           /\ boardTag'[x] = IF tasks'[x] = None THEN None ELSE tasks'[x].session
  BY DEF boardState, boardTag

LEMMA SeenOnly ==
    ASSUME NEW x \in Slugs, Only(x)
    PROVE  /\ boardState' = [boardState EXCEPT ![x] = boardState'[x]]
           /\ boardTag' = [boardTag EXCEPT ![x] = boardTag'[x]]
  BY DEF Only, boardState, boardTag

LEMMA SeenSessions ==
    /\ SessionsBut(None) => boardStatus' = boardStatus
    /\ \A s \in SessionIds :
          /\ boardStatus[s] = IF sessions[s] = None THEN "absent"
                              ELSE IF IsOpen(sessions, s) THEN "open" ELSE "closed"
          /\ SessionsBut(s) => boardStatus' = [boardStatus EXCEPT ![s] = boardStatus'[s]]
          /\ Opened(s) => boardStatus'[s] = "open"
          /\ Closed(s) => boardStatus'[s] = "closed"
<1>1. SessionsBut(None) => boardStatus' = boardStatus
  BY NoneAssumption DEF SessionsBut, boardStatus
<1>2. ASSUME NEW s \in SessionIds
      PROVE  /\ boardStatus[s] = IF sessions[s] = None THEN "absent"
                                 ELSE IF IsOpen(sessions, s) THEN "open" ELSE "closed"
             /\ boardStatus'[s] = IF sessions'[s] = None THEN "absent"
                                 ELSE IF IsOpen(sessions', s) THEN "open" ELSE "closed"
             /\ SessionsBut(s) => boardStatus' = [boardStatus EXCEPT ![s] = boardStatus'[s]]
  BY DEF SessionsBut, boardStatus, IsOpen
<1>. QED
  BY <1>1, <1>2 DEF Opened, Closed

LEMMA StepBoard ==
    ASSUME IInv, Effect \/ UNCHANGED vars
    PROVE  [Board!Next]_boardVars
<1>1. CASE UNCHANGED <<tasks, sessions>>
  BY <1>1 DEF boardVars, boardState, boardTag, boardStatus, IsOpen
<1>2. ASSUME NEW x \in Slugs, Only(x), SessionsBut(None),
             Moved(x) \/ Linked(x)
      PROVE  [Board!Next]_boardVars
  <2>. DEFINE to == tasks'[x].state
  <2>1. /\ boardStatus' = boardStatus
        /\ boardState' = [boardState EXCEPT ![x] = to]
        /\ boardTag' = [boardTag EXCEPT ![x] = boardTag[x]]
        /\ boardState[x] = tasks[x].state
    BY <1>2, SeenTask, SeenOnly, SeenSessions DEF Moved, Linked
  <2>2. boardTag' = boardTag
    BY <2>1 DEF boardTag
  <2>3. CASE to = tasks[x].state
    <3>1. boardState' = boardState
      BY <2>1, <2>3 DEF boardState
    <3>. QED
      BY <2>1, <2>2, <3>1 DEF boardVars
  <2>4. CASE to # tasks[x].state
    <3>1. (boardState[x] = "done") <=> (to = "open")
      BY <1>2, <2>1, <2>4 DEF Moved, Linked
    <3>2. to \in {"open", "wip", "waiting", "done"} /\ boardState[x] # "absent"
      <4>1. tasks'[x] \in Task /\ tasks[x] \in Task
        BY <1>2 DEF Only, Moved, Linked, IInv, TypeOK
      <4>. QED
        BY <2>1, <4>1 DEF Task, States
    <3>. HIDE DEF to
    <3>3. Board!Move(x, to)
      BY <2>1, <2>2, <3>1, <3>2 DEF Board!Move
    <3>. QED
      BY <3>2, <3>3 DEF Board!Next
  <2>. QED
    BY <2>3, <2>4
<1>3. ASSUME NEW x \in Slugs, Only(x), SessionsBut(None), Posted(x)
      PROVE  Board!Next
  <2>. DEFINE s == tasks'[x].session
  <2>1. /\ s \in SessionIds /\ boardStatus[s] # "absent" /\ boardStatus' = boardStatus
        /\ boardState[x] = "absent"
        /\ boardState' = [boardState EXCEPT ![x] = "open"]
        /\ boardTag' = [boardTag EXCEPT ![x] = s]
    BY <1>3, SeenTask, SeenOnly, SeenSessions DEF Posted
  <2>. HIDE DEF s
  <2>2. Board!Post(x, s)
    BY <2>1 DEF Board!Post
  <2>. QED
    BY <2>1, <2>2 DEF Board!Next
<1>4. ASSUME NEW x \in Slugs, Only(x), SessionsBut(None), Freed(x)
      PROVE  Board!Next
  <2>1. /\ boardStatus' = boardStatus
        /\ boardState[x] = tasks[x].state /\ boardTag[x] = tasks[x].session
        /\ boardState' = [boardState EXCEPT ![x] = boardState[x]]
        /\ boardTag' = [boardTag EXCEPT ![x] = None]
    BY <1>4, SeenTask, SeenOnly, SeenSessions DEF Freed
  <2>2. boardState' = boardState
    BY <2>1 DEF boardState
  <2>3. boardTag[x] \in SessionIds /\ boardStatus[boardTag[x]] = "open"
    BY <1>4, <2>1, SeenSessions DEF Freed, IsOpen
  <2>4. boardState[x] \in {"open", "wip", "waiting"}
    <3>1. tasks[x] \in Task
      BY <1>4 DEF Freed, IInv, TypeOK
    <3>. QED
      BY <1>4, <2>1, <3>1 DEF Freed, Task, States
  <2>5. Board!Orphan(x)
    BY <2>1, <2>2, <2>3, <2>4 DEF Board!Orphan
  <2>. QED
    BY <2>5 DEF Board!Next
<1>5. ASSUME NEW x \in Slugs, Only(x), SessionsBut(None), tasks[x] # None, tasks'[x] = None
      PROVE  Board!Next
  <2>1. /\ boardStatus' = boardStatus
        /\ boardState[x] = tasks[x].state
        /\ boardState' = [boardState EXCEPT ![x] = "absent"]
        /\ boardTag' = [boardTag EXCEPT ![x] = None]
    BY <1>5, SeenTask, SeenOnly, SeenSessions
  <2>2. tasks[x] \in Task
    BY <1>5 DEF IInv, TypeOK
  <2>3. boardState[x] # "absent"
    BY <2>1, <2>2 DEF Task, States
  <2>4. Board!Remove(x)
    BY <2>1, <2>3 DEF Board!Remove
  <2>. QED
    BY <2>4 DEF Board!Next
<1>6. ASSUME tasks' = tasks, NEW s \in SessionIds, SessionsBut(s), Opened(s) \/ Closed(s)
      PROVE  Board!Next
  <2>1. boardState' = boardState /\ boardTag' = boardTag
    BY <1>6 DEF boardState, boardTag
  <2>2. CASE Opened(s)
    <3>1. boardStatus[s] = "absent" /\ boardStatus' = [boardStatus EXCEPT ![s] = "open"]
      BY <1>6, <2>2, SeenSessions DEF Opened
    <3>2. Board!Open(s)
      BY <2>1, <3>1 DEF Board!Open
    <3>. QED
      BY <3>2 DEF Board!Next
  <2>3. CASE Closed(s)
    <3>1. boardStatus[s] = "open" /\ boardStatus' = [boardStatus EXCEPT ![s] = "closed"]
      BY <1>6, <2>3, SeenSessions DEF Closed, IsOpen
    <3>2. \A x \in Slugs : boardTag[x] = s => boardState[x] = "done"
      BY <2>3, SeenTask, NoneAssumption DEF Closed, Exists
    <3>3. Board!Close(s)
      BY <2>1, <3>1, <3>2 DEF Board!Close
    <3>. QED
      BY <3>3 DEF Board!Next
  <2>. QED
    BY <1>6, <2>2, <2>3
<1>7. ASSUME tasks' = tasks, SessionsBut(None)
      PROVE  [Board!Next]_boardVars
  BY <1>7, SeenSessions DEF boardVars, boardState, boardTag
<1>. QED
  BY <1>1, <1>2, <1>3, <1>4, <1>5, <1>6, <1>7 DEF Effect, vars

\* The commands, the hooks and the deaths between two saves implement
\* TaskBoard: a done task only goes back to open, a session closes once and
\* with no unfinished task, and no step changes two tasks or sessions.
THEOREM ImplementsBoard == Spec => BoardSpec
<1>1. Init => Board!Init
  BY DEF Init, Board!Init, boardState, boardTag, boardStatus
<1>2. IInv /\ [Next]_vars => [Board!Next]_boardVars
  BY StepIInv, StepBoard
<1>. QED
  BY Invariance, <1>1, <1>2, PTL DEF Spec, BoardSpec, Board!Spec, boardVars

-----------------------------------------------------------------------------
(* Done tasks and their sub-tasks *)

\* x is a sub-task of y.
SubtaskOf(x, y) ==
    /\ x \in Exists(tasks) /\ y \in Exists(tasks)
    /\ tasks[x].parent = y /\ tasks[x].relation = "child"

\* A done task has an unfinished sub-task only while a reopen is about to reopen
\* the task too; and what a reopen has left to do holds, with a sub-task, its
\* done parent.
CoverInv ==
    /\ \A x, y \in Slugs :
          SubtaskOf(x, y) /\ tasks[y].state = "done" /\ tasks[x].state # "done" =>
              job.op = "reopen" /\ y \in job.pend
    /\ job.op = "reopen" =>
          \A x, y \in Slugs :
              SubtaskOf(x, y) /\ tasks[y].state = "done" /\ x \in job.pend => y \in job.pend

\* One file changed, outside a reopen, and no cover is lost if the task is gone,
\* or is as done as it was under the parent it had, or is new under a parent
\* that is not done.
LEMMA CoverKept ==
    ASSUME TypeOK, CoverInv, NEW x \in Slugs, Only(x), job.op # "reopen", job'.op # "reopen",
           \/ tasks'[x] = None
           \/ /\ tasks[x] # None
              /\ tasks'[x].parent = tasks[x].parent /\ tasks'[x].relation = tasks[x].relation
              /\ (tasks'[x].state = "done") <=> (tasks[x].state = "done")
           \/ /\ tasks'[x].state # "done"
              /\ \A y \in Exists(tasks) :
                    tasks'[x].relation = "child" /\ tasks'[x].parent = y => tasks[y].state # "done"
    PROVE  CoverInv'
<1>. SUFFICES ASSUME NEW z \in Slugs, NEW y \in Slugs, SubtaskOf(z, y)', tasks'[y].state = "done",
                     tasks'[z].state # "done"
              PROVE  FALSE
  BY DEF CoverInv
<1>1. /\ tasks'[z] # None /\ tasks'[y] # None
      /\ tasks'[z].parent = y /\ tasks'[z].relation = "child"
  BY DEF SubtaskOf, Exists
<1>2. \A v \in Slugs : v # x => tasks'[v] = tasks[v]
  BY DEF Only
<1>3. \A v, w \in Slugs : tasks[v] # None /\ tasks[w] # None /\ tasks[v].parent = w
          /\ tasks[v].relation = "child" /\ tasks[w].state = "done" => tasks[v].state = "done"
  BY DEF CoverInv, SubtaskOf, Exists
<1>. QED
  BY <1>1, <1>2, <1>3 DEF Exists

\* The files are as they were, and no reopen begins.
LEMMA CoverQuiet ==
    ASSUME CoverInv, tasks' = tasks, job' = job \/ (job.op # "reopen" /\ job'.op # "reopen")
    PROVE  CoverInv'
  BY DEF CoverInv, SubtaskOf, Exists

LEMMA CoverNew ==
    ASSUME IInv, CoverInv, NEW x \in Slugs, NEW s \in SessionIds, NEW place,
           NEW after \in SUBSET Slugs, NewTask(x, s, place, after),
           place.parent \in Slugs \cup {None}, place.relation \in Relations,
           place.parallel \in BOOLEAN,
           place.relation = "child" =>
               place.parent \in Exists(tasks) /\ tasks[place.parent].state # "done",
           job.op # "reopen", job'.op # "reopen"
    PROVE  CoverInv'
<1>1. Only(x) /\ tasks'[x].state = "open" /\ tasks'[x].parent = place.parent
  BY SaveNew DEF IInv
<1>2. tasks'[x].relation = place.relation
  BY DEF NewTask, IInv, TypeOK
<1>. QED
  BY <1>1, <1>2, CoverKept DEF IInv

LEMMA CoverState ==
    ASSUME IInv, CoverInv, NEW x \in Exists(tasks), NEW st \in States \ {"done"}, SetState(x, st),
           tasks[x].state # "done", job.op # "reopen", job'.op # "reopen"
    PROVE  CoverInv'
<1>1. x \in Slugs /\ tasks[x] \in Task /\ tasks \in [Slugs -> Task \cup {None}]
  BY DEF Exists, IInv, TypeOK
<1>2. /\ tasks' = [tasks EXCEPT ![x] = [tasks[x] EXCEPT !.state = st]]
      /\ [tasks[x] EXCEPT !.state = st] \in Task
  BY <1>1 DEF SetState, Task
<1>3. /\ Only(x) /\ tasks'[x].state = st
      /\ tasks'[x].parent = tasks[x].parent /\ tasks'[x].relation = tasks[x].relation
  BY <1>1, <1>2 DEF Only, Task
<1>4. tasks[x] # None
  BY DEF Exists
<1>. QED
  BY <1>1, <1>3, <1>4, CoverKept DEF IInv

\* A sub-task that is not done keeps complete_task from closing its parent.
LEMMA CoverDone ==
    ASSUME IInv, CoverInv, NEW p \in Procs, NEW x \in Slugs, NEW over, Done(p, x, FALSE, over)
    PROVE  CoverInv'
<1>1. /\ job = Idle /\ job' = job /\ x \in Exists(tasks)
      /\ SetState(x, "done") /\ UndoneDescendants(tasks, x) = {}
  BY DEF Done, Runs, MayAct, DoneOK, Exists
<1>2. job.op # "reopen" /\ job'.op # "reopen"
  BY <1>1, IdleJob
<1>3. tasks[x] \in Task /\ tasks \in [Slugs -> Task \cup {None}]
  BY <1>1 DEF Exists, IInv, TypeOK
<1>4. /\ tasks' = [tasks EXCEPT ![x] = [tasks[x] EXCEPT !.state = "done"]]
      /\ \A v \in Slugs : v # x => tasks'[v] = tasks[v]
  BY <1>1, <1>3 DEF SetState, Task
<1>5. tasks'[x].parent = tasks[x].parent /\ tasks'[x].state = "done"
  BY <1>3, <1>4 DEF Task
<1>. SUFFICES ASSUME NEW z \in Slugs, NEW y \in Slugs, SubtaskOf(z, y)', tasks'[y].state = "done",
                     tasks'[z].state # "done"
              PROVE  FALSE
  BY <1>2 DEF CoverInv
<1>6. z # x /\ tasks'[z] = tasks[z]
  BY <1>4, <1>5
<1>7. tasks[z] # None /\ tasks[z].parent = y /\ tasks[z].relation = "child" /\ tasks[z].state # "done"
  BY <1>6 DEF SubtaskOf, Exists
<1>8. CASE y = x
  <2>1. z \in UndoneDescendants(tasks, x)
    BY <1>6, <1>7, <1>8 DEF UndoneDescendants, Below, Exists
  <2>. QED
    BY <1>1, <2>1
<1>9. CASE y # x
  <2>1. tasks[y] # None /\ tasks[y].state = "done"
    BY <1>4, <1>9 DEF SubtaskOf, Exists
  <2>. QED
    BY <1>2, <1>7, <2>1 DEF CoverInv, SubtaskOf, Exists
<1>. QED
  BY <1>8, <1>9

\* refuse_done_parents: a done parent of a named sub-task is named too.
LEMMA CoverReopen ==
    ASSUME IInv, CoverInv, NEW p \in Procs, NEW X \in SUBSET Slugs, NEW over, Reopen(p, X, over)
    PROVE  CoverInv'
<1>1. job = Idle /\ ReopenOK(X) /\ tasks' = tasks /\ job'.op = "reopen" /\ job'.pend = X
  BY DEF Reopen, Runs, Take
<1>2. \A x, y \in Slugs : SubtaskOf(x, y) /\ tasks[y].state = "done" => tasks[x].state = "done"
  BY <1>1, IdleJob DEF CoverInv
<1>3. \A x, y \in Slugs : SubtaskOf(x, y) /\ tasks[y].state = "done" /\ x \in X => y \in X
  BY <1>1, NoneAssumption DEF ReopenOK, SubtaskOf, Exists
<1>. QED
  BY <1>1, <1>2, <1>3 DEF CoverInv, SubtaskOf, Exists

LEMMA CoverReopenStep ==
    ASSUME IInv, CoverInv, ReopenStep
    PROVE  CoverInv'
<1>1. PICK x \in job.pend : SetState(x, "open") /\ Handled(x) /\ job.op = "reopen"
  BY DEF ReopenStep
<1>2. job.pend \in SUBSET Slugs /\ x \in Slugs /\ tasks[x] # None /\ tasks[x].state = "done"
  BY <1>1 DEF IInv, TypeOK, Job, JobOK, Exists
<1>3. tasks[x] \in Task /\ tasks \in [Slugs -> Task \cup {None}]
  BY <1>2 DEF IInv, TypeOK
<1>4. /\ tasks' = [tasks EXCEPT ![x] = [tasks[x] EXCEPT !.state = "open"]]
      /\ \A v \in Slugs : v # x => tasks'[v] = tasks[v]
  BY <1>1, <1>2, <1>3 DEF SetState, Task
<1>5. /\ tasks'[x].parent = tasks[x].parent /\ tasks'[x].relation = tasks[x].relation
      /\ tasks'[x].state = "open"
  BY <1>2, <1>3, <1>4 DEF Task
<1>6. ASSUME NEW z \in Slugs, NEW y \in Slugs, SubtaskOf(z, y)', tasks'[y].state = "done",
             tasks'[z].state # "done" \/ z \in job.pend \ {x}
      PROVE  y \in job.pend \ {x}
  <2>1. y # x /\ tasks[y] = tasks'[y]
    BY <1>4, <1>5, <1>6
  <2>2. tasks'[z] # None /\ tasks'[z].parent = y /\ tasks'[z].relation = "child"
        /\ tasks[y] # None /\ tasks[y].state = "done"
    BY <1>6, <2>1 DEF SubtaskOf, Exists
  <2>3. SubtaskOf(z, y)
    BY <1>2, <1>4, <1>5, <2>2 DEF SubtaskOf, Exists
  <2>4. tasks[z].state # "done" \/ z \in job.pend
    BY <1>1, <1>4, <1>6
  <2>. QED
    BY <1>1, <2>1, <2>2, <2>3, <2>4 DEF CoverInv
<1>7. CASE job.pend = {x}
  <2>1. job' = Idle
    BY <1>1, <1>7 DEF Handled
  <2>. QED
    BY <1>6, <1>7, <2>1, IdleJob DEF CoverInv
<1>8. CASE job.pend # {x}
  <2>1. job'.op = "reopen" /\ job'.pend = job.pend \ {x}
    BY <1>1, <1>8 DEF Handled, IInv, TypeOK, Job
  <2>. QED
    BY <1>6, <2>1 DEF CoverInv
<1>. QED
  BY <1>7, <1>8

LEMMA CoverStart ==
    ASSUME IInv, CoverInv, NEW p, NEW x \in Slugs, NEW over, Start(p, x, FALSE, FALSE, over)
    PROVE  CoverInv'
<1>1. job = Idle /\ tasks' = tasks
  BY DEF Start, Runs
<1>2. job' = job \/ Take(p, "start", x, None, {}, 0, FALSE \/ over)
  BY DEF Start
<1>3. job' = job \/ job'.op = "start"
  BY <1>2 DEF Take
<1>. QED
  BY <1>1, <1>3, IdleJob, CoverQuiet

LEMMA CoverStartStep ==
    ASSUME IInv, CoverInv, StartStep
    PROVE  CoverInv'
<1>1. job.op = "start" /\ (job' = job \/ job' = Idle)
  BY DEF StartStep
<1>2. job.op # "reopen" /\ job'.op # "reopen"
  BY <1>1, IdleJob
<1>3. PICK y \in Exists(tasks) : SetState(y, "wip") /\ tasks[y].state # "done"
  <2>1. CASE \E y \in Slugs : NextPromoted(tasks, job.slug, y) /\ SetState(y, "wip")
    BY <2>1 DEF NextPromoted, OpenAncestors
  <2>2. CASE SetState(job.slug, "wip")
    BY <1>1, <2>2 DEF IInv, JobOK
  <2>. QED
    BY <2>1, <2>2 DEF StartStep
<1>. QED
  BY <1>2, <1>3, CoverState DEF States

\* The commands that link, force or break off: `task edit`, --force, --reopen
\* and a death between two saves.
NoOverrides == {"edit", "die"} \cap Commands = {} /\ {"force", "reopen"} \cap Flags = {}

LEMMA CoverTaskCommand ==
    ASSUME NoOverrides, IInv, CoverInv, NEW p \in Procs, TaskCommand(p)
    PROVE  CoverInv'
<1>1. PICK x \in Slugs, over \in Flag("over") :
          \/ \E s \in SessionIds : Add(p, x, s, over)
          \/ \E force \in Flag("force"), reopen \in Flag("reopen") : Start(p, x, force, reopen, over)
          \/ \E force \in Flag("force") : Done(p, x, force, over)
          \/ Wait(p, x, over)
          \/ \E on \in Slugs : Block(p, x, on, over)
          \/ \E par \in Slugs \cup {None}, on, off \in {{}} \cup {{y} : y \in Blockable} :
                 Edit(p, x, par, on, off, over)
  BY DEF TaskCommand
<1>2. Flag("force") = {FALSE} /\ Flag("reopen") = {FALSE}
  BY DEF NoOverrides, Flag
<1>3. ASSUME NEW s \in SessionIds, Add(p, x, s, over)
      PROVE  CoverInv'
  <2>1. PICK place \in Placements(s), after \in Afters : NewTask(x, s, place, after)
    BY <1>3 DEF Add
  <2>2. job = Idle /\ job' = job
    BY <1>3 DEF Add, Runs
  <2>3. after \in SUBSET Slugs
    BY DEF Afters, Exists
  <2>4. /\ place.parent \in Slugs \cup {None} /\ place.relation \in Relations
        /\ place.parallel \in BOOLEAN
        /\ place.relation = "child" =>
              place.parent \in Exists(tasks) /\ tasks[place.parent].state # "done"
    BY FlagsAreBoolean DEF Placements, Relations, Exists
  <2>. QED
    BY <2>1, <2>2, <2>3, <2>4, IdleJob, CoverNew
<1>4. ASSUME Wait(p, x, over)
      PROVE  CoverInv'
  <2>1. /\ job = Idle /\ job' = job /\ x \in Exists(tasks) /\ tasks[x].state # "done"
        /\ SetState(x, "waiting")
    BY <1>4 DEF Wait, Runs, MayAct, Exists
  <2>. QED
    BY <2>1, IdleJob, CoverState DEF States
<1>5. ASSUME NEW on \in Slugs, Block(p, x, on, over)
      PROVE  CoverInv'
  <2>1. /\ job = Idle /\ job' = job /\ tasks[x] # None
        /\ tasks' = [tasks EXCEPT ![x].blocked = @ \cup {on}]
    BY <1>5 DEF Block, Runs, MayAct
  <2>2. tasks[x] \in Task /\ tasks \in [Slugs -> Task \cup {None}]
    BY <2>1 DEF IInv, TypeOK
  <2>3. /\ tasks' = [tasks EXCEPT ![x] = [tasks[x] EXCEPT !.blocked = @ \cup {on}]]
        /\ [tasks[x] EXCEPT !.blocked = @ \cup {on}] \in Task
    BY <2>1, <2>2 DEF Task
  <2>4. /\ Only(x) /\ tasks'[x].parent = tasks[x].parent /\ tasks'[x].state = tasks[x].state
        /\ tasks'[x].relation = tasks[x].relation
    BY <2>2, <2>3 DEF Only, Task
  <2>. QED
    BY <2>1, <2>4, IdleJob, CoverKept DEF IInv
<1>6. ~ \E par, on, off : Edit(p, x, par, on, off, over)
  BY DEF Edit, Runs, NoOverrides
<1>. QED
  BY <1>1, <1>2, <1>3, <1>4, <1>5, <1>6, CoverStart, CoverDone

LEMMA CoverClear ==
    ASSUME IInv, CoverInv, ClearStep
    PROVE  CoverInv'
<1>1. PICK x \in job.pend : tasks' = [tasks EXCEPT ![x] = None] /\ Handled(x) /\ job.op = "clear"
  BY DEF ClearStep
<1>2. x \in Slugs /\ tasks \in [Slugs -> Task \cup {None}]
  BY DEF IInv, TypeOK, Job
<1>3. job'.op # "reopen"
  BY <1>1, IdleJob DEF Handled, IInv, TypeOK, Job
<1>4. Only(x) /\ tasks'[x] = None
  BY <1>1, <1>2 DEF Only
<1>. QED
  BY <1>1, <1>2, <1>3, <1>4, CoverKept DEF IInv

LEMMA CoverClose ==
    ASSUME IInv, CoverInv, CloseStep
    PROVE  CoverInv'
<1>1. job.op \in {"finish", "replace"} /\ job'.op # "reopen"
  BY IdleJob DEF CloseStep, IInv, TypeOK, Job
<1>2. ASSUME NEW x \in Unfinished(tasks, job.sid), tasks' = [tasks EXCEPT ![x].session = None]
      PROVE  CoverInv'
  <2>1. x \in Slugs /\ tasks[x] # None
    BY DEF Unfinished, Exists
  <2>2. tasks[x] \in Task /\ tasks \in [Slugs -> Task \cup {None}]
    BY <2>1 DEF IInv, TypeOK
  <2>3. /\ tasks' = [tasks EXCEPT ![x] = [tasks[x] EXCEPT !.session = None]]
        /\ [tasks[x] EXCEPT !.session = None] \in Task
    BY <1>2, <2>2 DEF Task
  <2>4. /\ Only(x) /\ tasks'[x].parent = tasks[x].parent /\ tasks'[x].state = tasks[x].state
        /\ tasks'[x].relation = tasks[x].relation
    BY <2>1, <2>2, <2>3 DEF Only, Task
  <2>. QED
    BY <1>1, <2>1, <2>4, CoverKept DEF IInv
<1>3. CASE tasks' = tasks
  BY <1>1, <1>3, CoverQuiet
<1>. QED
  BY <1>2, <1>3 DEF CloseStep

\* A task under no parent: the hooks and the --task flags add those.
LEMMA CoverDetached ==
    ASSUME IInv, CoverInv, NEW x \in Slugs, NEW s \in SessionIds, NewTask(x, s, Detached, {}),
           job.op # "reopen", job'.op # "reopen"
    PROVE  CoverInv'
<1>1. /\ Detached.parent = None /\ Detached.relation = "queued" /\ Detached.parallel = FALSE
      /\ "queued" \in Relations /\ {} \in SUBSET Slugs
  BY DEF Detached, Relations
<1>. QED
  BY <1>1, CoverNew

LEMMA CoverJob ==
    ASSUME IInv, CoverInv, JobStep
    PROVE  CoverInv'
<1>1. ASSUME NEW x \in Slugs, TaskCreateStep(x)
      PROVE  CoverInv'
  <2>1. job.op = "add" /\ NewTask(x, job.sid, Detached, {}) /\ job' = Idle
    BY <1>1 DEF TaskCreateStep
  <2>2. job.sid \in SessionIds
    BY <2>1 DEF IInv, TypeOK, Job, JobOK
  <2>. QED
    BY <2>1, <2>2, IdleJob, CoverDetached
<1>2. CASE ReplaceStep
  <2>1. tasks' = tasks /\ job.op = "replace" /\ job'.op # "reopen"
    BY <1>2, IdleJob DEF ReplaceStep, IInv, TypeOK, Job
  <2>. QED
    BY <2>1, CoverQuiet
<1>. QED
  BY <1>1, <1>2, CoverStartStep, CoverReopenStep, CoverClear, CoverClose DEF JobStep

LEMMA CoverSetCommand ==
    ASSUME IInv, CoverInv, NEW p \in Procs, SetCommand(p)
    PROVE  CoverInv'
<1>1. ASSUME NEW X, NEW over, ClearIds(p, X, over)
      PROVE  CoverInv'
  <2>1. job = Idle /\ tasks' = tasks /\ job'.op = "clear"
    BY <1>1 DEF ClearIds, Runs, Take
  <2>. QED
    BY <2>1, IdleJob, CoverQuiet
<1>2. ASSUME NEW s, NEW over, ClearSession(p, s, over)
      PROVE  CoverInv'
  <2>1. job = Idle /\ tasks' = tasks /\ job'.op = "clear"
    BY <1>2 DEF ClearSession, Runs, Take
  <2>. QED
    BY <2>1, IdleJob, CoverQuiet
<1>. QED
  BY <1>1, <1>2, CoverReopen DEF SetCommand

LEMMA CoverSessionCommand ==
    ASSUME IInv, CoverInv, NEW p \in Procs, SessionCommand(p)
    PROVE  CoverInv'
<1>1. /\ job = Idle /\ tasks' = tasks
      /\ job' = job \/ job'.op = "replace" \/ job'.op = "finish"
  BY DEF SessionCommand, SessionStart, SessionNew, SessionResume, SessionReplace, SessionFinish,
         Runs, Take
<1>. QED
  BY <1>1, IdleJob, CoverQuiet

LEMMA CoverHook ==
    ASSUME IInv, CoverInv, NEW p \in Procs, NEW x \in Slugs, TaskCreate(p, x) \/ TaskUpdate(p, x)
    PROVE  CoverInv'
<1>1. ASSUME TaskCreate(p, x)
      PROVE  CoverInv'
  <2>1. job = Idle
    BY <1>1 DEF TaskCreate, Runs
  <2>2. CASE tasks' = tasks /\ job'.op = "add"
    BY <2>1, <2>2, IdleJob, CoverQuiet
  <2>3. CASE Me(p) # None /\ NewTask(x, Me(p), Detached, {}) /\ job' = job
    BY <2>1, <2>3, IdleJob, CallerIsOpen, CoverDetached
  <2>. QED
    BY <1>1, <2>2, <2>3 DEF TaskCreate, Take
<1>2. ASSUME ClearIds(p, {x}, FALSE)
      PROVE  CoverInv'
  <2>1. job = Idle /\ tasks' = tasks /\ job'.op = "clear"
    BY <1>2 DEF ClearIds, Runs, Take
  <2>. QED
    BY <2>1, IdleJob, CoverQuiet
<1>. QED
  BY <1>1, <1>2, CoverStart, CoverDone DEF TaskUpdate

LEMMA CoverLoop ==
    ASSUME IInv, CoverInv, NEW p \in Procs, LoopStep(p)
    PROVE  CoverInv'
<1>1. CASE LoopLook(p)
  BY <1>1, CoverQuiet DEF LoopLook
<1>2. ASSUME NEW x \in Slugs, LoopAdd(p, x)
      PROVE  CoverInv'
  <2>1. loop[p].seen /\ job = Idle /\ job' = job /\ NewTask(x, loop[p].sid, Detached, {})
    BY <1>2 DEF LoopAdd
  <2>2. loop[p].sid \in SessionIds
    BY <2>1 DEF IInv, TypeOK, Loop, LoopOK, NoLoop
  <2>. QED
    BY <2>1, <2>2, IdleJob, CoverDetached
<1>. QED
  BY <1>1, <1>2 DEF LoopStep

\* Without --force, `edit` and `start --reopen`, and as long as no process dies
\* inside a reopen, a done task has no unfinished sub-task between commands.
THEOREM DoneAlwaysCovers ==
    ASSUME NoOverrides
    PROVE  Spec => []DoneCoversSubtasks
<1>1. Init => CoverInv
  BY IdleJob DEF Init, CoverInv, SubtaskOf, Exists
<1>2. ASSUME IInv, CoverInv, [Next]_vars
      PROVE  CoverInv'
  <2>1. ~ \E p \in Procs : Die(p)
    BY DEF Die, NoOverrides
  <2>2. CASE UNCHANGED vars
    BY <1>2, <2>2, CoverQuiet DEF vars
  <2>3. CASE Next
    BY <1>2, <2>1, <2>3, CoverJob, CoverTaskCommand, CoverSetCommand, CoverSessionCommand,
       CoverHook, CoverLoop DEF Next
  <2>. QED
    BY <1>2, <2>2, <2>3
<1>3. CoverInv => DoneCoversSubtasks
  BY IdleJob DEF CoverInv, SubtaskOf, DoneCoversSubtasks, Exists
<1>. QED
  BY Invariance, <1>1, <1>2, <1>3, PTL DEF Spec
=============================================================================
