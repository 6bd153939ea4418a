-------------------------- MODULE TaskStoreProofs --------------------------
(***************************************************************************)
(* Proofs about TaskStore, for any slugs, sessions, processes, flags and    *)
(* bounds.                                                                  *)
(*                                                                          *)
(* The commands are many, and what they may do to the files is little.      *)
(* Effect lists it: at most one task is posted, moved, linked, freed from   *)
(* its session or removed, or one session is opened or closed.  Every step  *)
(* is an Effect (StepEffect); the properties follow from Effect alone.      *)
(* That a job finds the files it was promised when it comes to save them    *)
(* (JobOK, LoopOK) is what makes Effect, and the types, inductive.          *)
(***************************************************************************)
EXTENDS TaskStore, FiniteSetTheorems, TLAPS

\* The files that the checks of a command found are there until it ends.
JobOK ==
    /\ job.op = "start" => job.slug \in Exists(tasks) /\ tasks[job.slug].state # "done"
    /\ job.op = "reopen" => \A x \in job.pend : x \in Exists(tasks) /\ tasks[x].state = "done"
    /\ job.op = "clear" => job.pend \subseteq Exists(tasks)
    /\ job.op \in {"finish", "replace"} /\ job.sid # None => IsOpen(sessions, job.sid)
    /\ job.op = "replace" => job.proc \in Procs
    /\ job.op = "add" => job.sid # None /\ IsOpen(sessions, job.sid)

\* The session that --task flags add to exists, if no longer open.
LoopOK ==
    \A p \in Procs : loop[p] # NoLoop =>
        loop[p].sid # None /\ sessions[loop[p].sid] # None /\ loop[p].left > 0

IInv == TypeOK /\ JobOK /\ LoopOK

\* At most the file of x is written.
Only(x) == /\ tasks' \in [Slugs -> Task \cup {None}]
           /\ \A y \in Slugs \ {x} : tasks'[y] = tasks[y]

\* The states a task may go to, and nothing that ties it to others.
Moved(x) ==
    /\ tasks[x] # None /\ tasks'[x] # None
    /\ tasks'[x].parent = tasks[x].parent /\ tasks'[x].session = tasks[x].session
    /\ \/ tasks'[x].state = tasks[x].state
       \/ (tasks[x].state = "done") <=> (tasks'[x].state = "open")

Posted(x) ==
    /\ tasks[x] = None /\ tasks'[x] # None
    /\ tasks'[x].state = "open"
    /\ LET s == tasks'[x].session
           y == tasks'[x].parent
       IN  /\ s \in SessionIds /\ sessions[s] # None
           /\ IsOpen(sessions, s) \/ \E p \in Procs : loop[p].sid = s /\ loop[p].seen
           /\ y # None => y \in Exists(tasks) /\ tasks[y].session = s

Linked(x) ==
    /\ tasks[x] # None /\ tasks'[x] # None
    /\ tasks'[x].session = tasks[x].session /\ tasks'[x].state = tasks[x].state
    /\ LET y == tasks'[x].parent
       IN  y # None => /\ y \in Exists(tasks) \ {x}
                       /\ tasks[y].session = tasks[x].session
                       /\ NoCycle(tasks, x, y)

Freed(x) ==
    /\ tasks[x] # None /\ tasks'[x] # None
    /\ tasks'[x].state = tasks[x].state /\ tasks[x].state # "done"
    /\ tasks'[x].parent = tasks[x].parent
    /\ tasks[x].session \in SessionIds /\ IsOpen(sessions, tasks[x].session)
    /\ tasks'[x].session = None

\* No session is opened or closed, except perhaps s.
SessionsBut(s) ==
    \A z \in SessionIds \ {s} : /\ sessions'[z] = None <=> sessions[z] = None
                                /\ IsOpen(sessions', z) <=> IsOpen(sessions, z)

Opened(s) == sessions[s] = None /\ sessions'[s] # None /\ IsOpen(sessions', s)
Closed(s) == /\ IsOpen(sessions, s) /\ sessions'[s] # None /\ ~IsOpen(sessions', s)
             /\ \A x \in Exists(tasks) : tasks[x].session = s => tasks[x].state = "done"

Effect ==
    \/ /\ SessionsBut(None)
       /\ \E x \in Slugs :
            /\ Only(x)
            /\ \/ gone' = gone /\ (Moved(x) \/ Posted(x) \/ Linked(x) \/ Freed(x))
               \/ gone' = gone \cup {x} /\ tasks[x] # None /\ tasks'[x] = None
    \/ /\ tasks' = tasks /\ gone' = gone
       /\ \/ SessionsBut(None)
          \/ \E s \in SessionIds : SessionsBut(s) /\ (Opened(s) \/ Closed(s))

-----------------------------------------------------------------------------
\* A new state in a task's file.
LEMMA SaveState ==
    ASSUME TypeOK, NEW x \in Exists(tasks), NEW st \in States, SetState(x, st),
           st = tasks[x].state \/ (tasks[x].state = "done" <=> st = "open")
    PROVE  /\ x \in Slugs /\ Only(x) /\ Moved(x)
           /\ tasks'[x].state = st
<1>1. x \in Slugs /\ tasks[x] \in Task /\ tasks \in [Slugs -> Task \cup {None}]
  BY DEF Exists, TypeOK
<1>2. /\ tasks' = [tasks EXCEPT ![x] = [tasks[x] EXCEPT !.state = st]]
      /\ [tasks[x] EXCEPT !.state = st] \in Task
  BY <1>1 DEF SetState, Task
<1>3. tasks'[x] = [tasks[x] EXCEPT !.state = st] /\ tasks'[x] # None
  BY <1>1, <1>2, NoneIsNoRecord
<1>4. /\ tasks'[x].state = st /\ tasks'[x].parent = tasks[x].parent
      /\ tasks'[x].session = tasks[x].session
  BY <1>1, <1>3 DEF Task
<1>5. Only(x)
  BY <1>1, <1>2 DEF Only
<1>. QED
  BY <1>1, <1>3, <1>4, <1>5, NoneIsNoRecord DEF Moved

\* A new task's file.
LEMMA SaveNew ==
    ASSUME TypeOK, NEW x \in Slugs, NEW s \in SessionIds, NEW place, NEW after \in SUBSET Slugs,
           NewTask(x, s, place, after),
           place.parent \in Slugs \cup {None}, place.relation \in Relations,
           place.parallel \in BOOLEAN
    PROVE  /\ Only(x) /\ tasks[x] = None /\ tasks'[x] # None
           /\ tasks'[x].state = "open" /\ tasks'[x].session = s
           /\ tasks'[x].parent = place.parent
           /\ clock' \in Nat
<1>. DEFINE r == [state |-> "open", parent |-> place.parent, relation |-> place.relation,
                  parallel |-> place.parallel, blocked |-> after, session |-> s, born |-> clock]
<1>1. tasks[x] = None /\ tasks' = [tasks EXCEPT ![x] = r] /\ clock' = clock + 1
  BY DEF NewTask
<1>2. r \in Task
  BY DEF Task, TypeOK, States
<1>3. r # None
  BY <1>2, NoneIsNoRecord
<1>4. tasks'[x] = r
  BY <1>1 DEF TypeOK
<1>5. Only(x)
  <2>. HIDE DEF r
  <2>. QED
    BY <1>1, <1>2 DEF Only, TypeOK
<1>6. clock' \in Nat
  BY <1>1 DEF TypeOK
<1>. QED
  BY <1>1, <1>3, <1>4, <1>5, <1>6

\* The session a caller acts for is one of the open ones.
LEMMA CallerIsOpen ==
    ASSUME NEW p \in Procs, Me(p) # None
    PROVE  Me(p) \in SessionIds /\ IsOpen(sessions, Me(p))
<1>. DEFINE open  == OpenSessions(sessions)
            owned == {s \in open : Conv[p] # None /\ sessions[s].conv = Conv[p]}
<1>1. Cardinality({}) = 0
  BY FS_EmptySet
<1>2. Cardinality(open) = 1 => (CHOOSE s \in open : TRUE) \in open
  BY <1>1
<1>3. Cardinality(owned) = 1 => (CHOOSE s \in owned : TRUE) \in open
  BY <1>1
<1>4. Me(p) = Pick(sessions, Conv[p])
  BY DEF Me, Caller
<1>5. Me(p) \in open
  BY <1>2, <1>3, <1>4 DEF Pick
<1>. QED
  BY <1>5 DEF OpenSessions

\* Idle is a job that promises nothing.
LEMMA IdleJob == Idle \in Job /\ Idle.op = "idle" /\ Idle.sid = None
  BY BoundAssumption DEF Idle, Job, Ops

\* The end of a command that wrote tasks only.
LEMMA AtRest ==
    ASSUME IInv, job' = Idle, sessions' = sessions, loop' = loop,
           tasks' \in [Slugs -> Task \cup {None}], clock' \in Nat, gone' \subseteq Slugs
    PROVE  IInv' /\ SessionsBut(None)
<1>1. TypeOK'
  BY IdleJob DEF IInv, TypeOK
<1>2. JobOK'
  BY IdleJob DEF JobOK
<1>3. LoopOK'
  BY DEF IInv, LoopOK
<1>. QED
  BY <1>1, <1>2, <1>3 DEF IInv, SessionsBut

\* A command that took the lock and has not saved anything.
LEMMA JobTaken ==
    ASSUME IInv, UNCHANGED <<tasks, sessions, loop, clock, gone>>,
           job' \in Job, JobOK'
    PROVE  IInv' /\ Effect
<1>1. TypeOK' /\ LoopOK'
  BY DEF IInv, TypeOK, LoopOK
<1>2. SessionsBut(None)
  BY DEF SessionsBut
<1>. QED
  BY <1>1, <1>2 DEF IInv, Effect

-----------------------------------------------------------------------------
\* One lemma per command: it keeps the invariant and is an Effect.

LEMMA AddStep ==
    ASSUME IInv, NEW p \in Procs, NEW x \in Slugs, NEW s \in SessionIds, NEW over \in BOOLEAN,
           Add(p, x, s, over)
    PROVE  IInv' /\ Effect
<1>1. PICK place \in Placements(s), after \in Afters : NewTask(x, s, place, after)
  BY DEF Add
<1>2. job = Idle /\ IsOpen(sessions, s) /\ UNCHANGED <<sessions, job, loop, gone>>
  BY DEF Add, Runs
<1>3. after \in SUBSET Slugs
  BY DEF Afters, Exists
<1>4. /\ place.parent \in Slugs \cup {None} /\ place.relation \in Relations
      /\ place.parallel \in BOOLEAN
      /\ place.parent # None => place.parent \in Exists(tasks) /\ tasks[place.parent].session = s
  BY DEF Placements, Exists, Relations, Flag
<1>5. /\ Only(x) /\ tasks[x] = None /\ tasks'[x] # None
      /\ tasks'[x].state = "open" /\ tasks'[x].session = s
      /\ tasks'[x].parent = place.parent
      /\ clock' \in Nat
  BY <1>1, <1>3, <1>4, SaveNew DEF IInv
<1>6. Posted(x)
  BY <1>2, <1>4, <1>5 DEF Posted, IsOpen
<1>7. IInv' /\ SessionsBut(None)
  BY <1>2, <1>5, AtRest DEF Only, IInv, TypeOK
<1>. QED
  BY <1>2, <1>5, <1>6, <1>7 DEF Effect

LEMMA DoneStep ==
    ASSUME IInv, NEW p \in Procs, NEW x \in Slugs, NEW force \in BOOLEAN, NEW over \in BOOLEAN,
           Done(p, x, force, over)
    PROVE  IInv' /\ Effect
<1>1. /\ job = Idle /\ UNCHANGED <<sessions, job, loop, clock, gone>>
      /\ x \in Exists(tasks) /\ SetState(x, "done")
  BY DEF Done, Runs, MayAct, Exists
<1>2. Only(x) /\ Moved(x)
  <2>1. "done" \in States /\ ("done" = tasks[x].state \/ (tasks[x].state = "done" <=> "done" = "open"))
    BY DEF States
  <2>. QED
    BY <1>1, <2>1, SaveState DEF IInv
<1>3. IInv' /\ SessionsBut(None)
  BY <1>1, <1>2, AtRest DEF Only, IInv, TypeOK
<1>. QED
  BY <1>1, <1>2, <1>3 DEF Effect

LEMMA WaitStep ==
    ASSUME IInv, NEW p \in Procs, NEW x \in Slugs, NEW over \in BOOLEAN, Wait(p, x, over)
    PROVE  IInv' /\ Effect
<1>1. /\ job = Idle /\ UNCHANGED <<sessions, job, loop, clock, gone>>
      /\ x \in Exists(tasks) /\ SetState(x, "waiting") /\ tasks[x].state # "done"
  BY DEF Wait, Runs, MayAct, Exists
<1>2. Only(x) /\ Moved(x)
  <2>1. "waiting" \in States /\ (tasks[x].state = "done" <=> "waiting" = "open")
    BY <1>1 DEF States
  <2>. QED
    BY <1>1, <2>1, SaveState DEF IInv
<1>3. IInv' /\ SessionsBut(None)
  BY <1>1, <1>2, AtRest DEF Only, IInv, TypeOK
<1>. QED
  BY <1>1, <1>2, <1>3 DEF Effect

LEMMA BlockStep ==
    ASSUME IInv, NEW p \in Procs, NEW x \in Slugs, NEW on \in Slugs, NEW over \in BOOLEAN,
           Block(p, x, on, over)
    PROVE  IInv' /\ Effect
<1>. DEFINE r == [tasks[x] EXCEPT !.blocked = @ \cup {on}]
<1>1. /\ job = Idle /\ UNCHANGED <<sessions, job, loop, clock, gone>>
      /\ tasks[x] # None
      /\ tasks' = [tasks EXCEPT ![x] = r]
  BY DEF Block, Runs, MayAct
<1>2. tasks[x] \in Task
  BY <1>1 DEF IInv, TypeOK
<1>3. r \in Task /\ r.parent = tasks[x].parent /\ r.session = tasks[x].session /\ r.state = tasks[x].state
  BY <1>2 DEF Task
<1>. HIDE DEF r
<1>4. Only(x) /\ tasks'[x] = r
  BY <1>1, <1>3 DEF Only, IInv, TypeOK
<1>5. Moved(x)
  BY <1>1, <1>3, <1>4, NoneIsNoRecord DEF Moved
<1>6. IInv' /\ SessionsBut(None)
  BY <1>1, <1>4, AtRest DEF Only, IInv, TypeOK
<1>. QED
  BY <1>1, <1>4, <1>5, <1>6 DEF Effect

LEMMA EditStep ==
    ASSUME IInv, NEW p \in Procs, NEW x \in Slugs, NEW par \in Slugs \cup {None},
           NEW on \in SUBSET Slugs, NEW off \in SUBSET Slugs, NEW over \in BOOLEAN,
           Edit(p, x, par, on, off, over)
    PROVE  IInv' /\ Effect
<1>. DEFINE r == [tasks[x] EXCEPT !.parent = IF par = x THEN @ ELSE par,
                                  !.blocked = (@ \cup on) \ off]
<1>1. /\ job = Idle /\ UNCHANGED <<sessions, job, loop, clock, gone>>
      /\ tasks[x] # None
      /\ par \in Slugs \ {x} => /\ par \in Exists(tasks)
                                /\ tasks[par].session = tasks[x].session
                                /\ NoCycle(tasks, x, par)
  BY DEF Edit, Runs, MayAct
<1>2. tasks[x] \in Task /\ tasks \in [Slugs -> Task \cup {None}]
  BY <1>1 DEF IInv, TypeOK
<1>3. tasks' = [tasks EXCEPT ![x] = r]
  BY <1>2 DEF Edit, Task
<1>4. /\ r \in Task /\ r.session = tasks[x].session /\ r.state = tasks[x].state
      /\ r.parent = IF par = x THEN tasks[x].parent ELSE par
  BY <1>2 DEF Task
<1>. HIDE DEF r
<1>5. Only(x) /\ tasks'[x] = r /\ tasks'[x] # None
  BY <1>2, <1>3, <1>4, NoneIsNoRecord DEF Only
<1>6. CASE par = x
  BY <1>1, <1>4, <1>5, <1>6, AtRest DEF Moved, Only, Effect, IInv, TypeOK
<1>7. CASE par # x
  <2>1. Linked(x)
    BY <1>1, <1>4, <1>5, <1>7 DEF Linked
  <2>2. IInv' /\ SessionsBut(None)
    BY <1>1, <1>5, AtRest DEF Only, IInv, TypeOK
  <2>. QED
    BY <1>1, <1>5, <2>1, <2>2 DEF Effect
<1>. QED
  BY <1>6, <1>7

LEMMA StartCommand ==
    ASSUME IInv, NEW p \in Procs, NEW x \in Slugs,
           NEW force \in BOOLEAN, NEW reopen \in BOOLEAN, NEW over \in BOOLEAN,
           Start(p, x, force, reopen, over)
    PROVE  IInv' /\ Effect
<1>. DEFINE st == IF tasks[x].state = "done" THEN "open" ELSE tasks[x].state
<1>1. /\ job = Idle /\ UNCHANGED <<sessions, loop, clock, gone>>
      /\ tasks[x] # None
      /\ tasks' = IF reopen THEN Reopened(x) ELSE tasks
      /\ job' # job => /\ Take(p, "start", x, None, {}, 0, force \/ over)
                       /\ StartOK(tasks', x, force)
  BY DEF Start, Runs, MayAct
<1>2. tasks[x] \in Task /\ x \in Exists(tasks) /\ tasks[x].state \in States
  BY <1>1 DEF IInv, TypeOK, Exists, Task
<1>3. /\ Only(x) /\ Moved(x)
  <2>1. CASE reopen
    <3>1. SetState(x, st)
      BY <1>1, <2>1 DEF SetState, Reopened
    <3>2. st \in States /\ (st = tasks[x].state \/ (tasks[x].state = "done" <=> st = "open"))
      BY <1>2 DEF States
    <3>. HIDE DEF st
    <3>. QED
      BY <1>2, <3>1, <3>2, SaveState DEF IInv
  <2>2. CASE ~reopen
    BY <1>1, <2>2 DEF Only, Moved, IInv, TypeOK
  <2>. QED
    BY <2>1, <2>2
<1>4. SessionsBut(None)
  BY <1>1 DEF SessionsBut
<1>5. Effect
  BY <1>1, <1>3, <1>4 DEF Effect
<1>6. job' \in Job
  BY <1>1, IdleJob, BoundAssumption DEF Take, Job, Ops
<1>7. TypeOK' /\ LoopOK'
  BY <1>1, <1>3, <1>6 DEF IInv, TypeOK, LoopOK, Only
<1>8. JobOK'
  <2>1. CASE job' = job
    BY <1>1, <2>1, IdleJob DEF JobOK
  <2>2. CASE job' # job
    <3>1. job'.op = "start" /\ job'.slug = x
      BY <1>1, <2>2 DEF Take
    <3>2. x \in Exists(tasks)' /\ tasks'[x].state # "done"
      BY <1>1, <1>3, <2>2 DEF StartOK, Exists, Moved
    <3>. QED
      BY <3>1, <3>2 DEF JobOK
  <2>. QED
    BY <2>1, <2>2
<1>. QED
  BY <1>5, <1>7, <1>8 DEF IInv

LEMMA ReopenCommand ==
    ASSUME IInv, NEW p \in Procs, NEW X \in SUBSET Slugs, NEW over \in BOOLEAN,
           Reopen(p, X, over)
    PROVE  IInv' /\ Effect
<1>1. /\ Take(p, "reopen", None, None, X, 0, over)
      /\ UNCHANGED <<tasks, sessions, loop, clock, gone>>
      /\ \A x \in X : x \in Exists(tasks) /\ tasks[x].state = "done"
  BY DEF Reopen, MayAct, ReopenOK, Exists
<1>2. job' \in Job /\ job'.op = "reopen" /\ job'.pend = X
  BY <1>1, BoundAssumption DEF Take, Job, Ops
<1>3. JobOK'
  BY <1>1, <1>2 DEF JobOK, Exists
<1>. QED
  BY <1>1, <1>2, <1>3, JobTaken

\* The lock is taken to delete the tasks of X.
LEMMA ClearTaken ==
    ASSUME IInv, NEW p \in Procs, NEW X \in SUBSET Exists(tasks), NEW over \in BOOLEAN,
           Take(p, "clear", None, None, X, 0, over),
           UNCHANGED <<tasks, sessions, loop, clock, gone>>
    PROVE  IInv' /\ Effect
<1>1. X \in SUBSET Slugs
  BY DEF Exists
<1>2. job' \in Job /\ job'.op = "clear" /\ job'.pend = X
  BY <1>1, BoundAssumption DEF Take, Job, Ops
<1>3. JobOK'
  BY <1>2 DEF JobOK, Exists
<1>. QED
  BY <1>2, <1>3, JobTaken

LEMMA ClearIdsCommand ==
    ASSUME IInv, NEW p \in Procs, NEW X \in SUBSET Slugs, NEW over \in BOOLEAN,
           ClearIds(p, X, over)
    PROVE  IInv' /\ Effect
<1>1. X \in SUBSET Exists(tasks)
  BY DEF ClearIds, MayAct, Exists
<1>. QED
  BY <1>1, ClearTaken DEF ClearIds

LEMMA ClearSessionCommand ==
    ASSUME IInv, NEW p \in Procs, NEW s \in SessionIds, NEW over \in BOOLEAN,
           ClearSession(p, s, over)
    PROVE  IInv' /\ Effect
<1>. DEFINE X == {x \in Exists(tasks) : tasks[x].session = s}
<1>1. X \in SUBSET Exists(tasks) /\ Take(p, "clear", None, None, X, 0, over)
  BY DEF ClearSession
<1>. HIDE DEF X
<1>. QED
  BY <1>1, ClearTaken DEF ClearSession

LEMMA SessionFinishCommand ==
    ASSUME IInv, NEW p \in Procs, NEW s \in SessionIds,
           NEW abandon_open \in BOOLEAN, NEW over \in BOOLEAN,
           SessionFinish(p, s, abandon_open, over)
    PROVE  IInv' /\ Effect
<1>1. /\ Take(p, "finish", None, s, {}, 0, over)
      /\ UNCHANGED <<tasks, sessions, loop, clock, gone>>
      /\ IsOpen(sessions, s)
  BY DEF SessionFinish
<1>2. job' \in Job /\ job'.op = "finish" /\ job'.sid = s
  BY <1>1, BoundAssumption DEF Take, Job, Ops
<1>3. JobOK'
  BY <1>1, <1>2 DEF JobOK, IsOpen
<1>. QED
  BY <1>1, <1>2, <1>3, JobTaken

LEMMA SessionReplaceCommand ==
    ASSUME IInv, NEW p \in Procs, NEW n \in 0..MaxLoop, SessionReplace(p, n)
    PROVE  IInv' /\ Effect
<1>1. /\ Take(p, "replace", None, None, {}, n, FALSE)
      /\ UNCHANGED <<tasks, sessions, loop, clock, gone>>
  BY DEF SessionReplace
<1>2. job' \in Job /\ job'.op = "replace" /\ job'.sid = None /\ job'.proc = p
  BY <1>1 DEF Take, Job, Ops
<1>3. JobOK'
  BY <1>2 DEF JobOK
<1>. QED
  BY <1>1, <1>2, <1>3, JobTaken

-----------------------------------------------------------------------------
\* A session's file, and the loop of --task flags that may follow.

LEMMA SaveSession ==
    ASSUME IInv, NEW p \in Procs, NEW s \in SessionIds, NewSession(p, s)
    PROVE  /\ sessions' \in [SessionIds -> Session \cup {None}]
           /\ SessionsBut(s) /\ Opened(s)
           /\ \A z \in SessionIds : sessions[z] # None => sessions'[z] # None
           /\ s # None /\ sessions'[s] # None /\ IsOpen(sessions', s)
<1>. DEFINE r == [status |-> "open", conv |-> Conv[p]]
<1>1. sessions[s] = None /\ sessions' = [sessions EXCEPT ![s] = r]
  BY DEF NewSession
<1>2. r \in Session /\ r.status = "open"
  BY ConvAssumption DEF Session, Statuses
<1>. HIDE DEF r
<1>3. /\ sessions' \in [SessionIds -> Session \cup {None}]
      /\ sessions'[s] = r /\ \A z \in SessionIds \ {s} : sessions'[z] = sessions[z]
  BY <1>1, <1>2 DEF IInv, TypeOK
<1>. QED
  BY <1>1, <1>2, <1>3, NoneIsNoRecord, NoneAssumption DEF SessionsBut, Opened, IsOpen

LEMMA SaveClaim ==
    ASSUME IInv, NEW p \in Procs, NEW s \in SessionIds, IsOpen(sessions, s), Claim(p, s)
    PROVE  /\ sessions' \in [SessionIds -> Session \cup {None}]
           /\ SessionsBut(None)
           /\ s # None /\ \A z \in SessionIds : sessions[z] # None => sessions'[z] # None
<1>. DEFINE c == IF Conv[p] = None THEN sessions[s].conv ELSE Conv[p]
            r == [sessions[s] EXCEPT !.conv = c]
<1>1. sessions' = [sessions EXCEPT ![s] = r]
  BY DEF Claim
<1>2. sessions[s] \in Session /\ c \in Convs \cup {None}
  BY ConvAssumption DEF IsOpen, IInv, TypeOK, Session
<1>3. r \in Session /\ r.status = sessions[s].status
  BY <1>2 DEF Session
<1>. HIDE DEF r
<1>4. /\ sessions' \in [SessionIds -> Session \cup {None}]
      /\ sessions'[s] = r /\ \A z \in SessionIds \ {s} : sessions'[z] = sessions[z]
  BY <1>1, <1>3 DEF IInv, TypeOK
<1>. QED
  BY <1>3, <1>4, NoneIsNoRecord, NoneAssumption DEF SessionsBut, IsOpen

LEMMA AddsToMake ==
    ASSUME IInv, NEW p \in Procs, NEW s \in SessionIds, NEW n \in 0..MaxLoop,
           AddsFollow(p, s, n), sessions'[s] # None,
           \A z \in SessionIds : sessions[z] # None => sessions'[z] # None
    PROVE  loop' \in [Procs -> Loop] /\ LoopOK'
<1>. DEFINE l == IF n = 0 THEN NoLoop ELSE [sid |-> s, left |-> n, seen |-> FALSE]
<1>1. loop' = [loop EXCEPT ![p] = l]
  BY DEF AddsFollow
<1>2. l \in Loop
  BY BoundAssumption DEF NoLoop, Loop
<1>3. l # NoLoop => l.sid = s /\ l.left > 0
  BY BoundAssumption
<1>. HIDE DEF l
<1>4. /\ loop' \in [Procs -> Loop]
      /\ loop'[p] = l /\ \A q \in Procs \ {p} : loop'[q] = loop[q]
  BY <1>1, <1>2 DEF IInv, TypeOK
<1>5. \A q \in Procs : loop[q].sid \in SessionIds \cup {None}
  BY DEF IInv, TypeOK, Loop
<1>. QED
  BY <1>3, <1>4, <1>5, NoneAssumption DEF IInv, LoopOK

\* session start in its three forms.
LEMMA SessionStartStep ==
    ASSUME IInv, NEW p \in Procs, NEW s \in SessionIds, NEW n \in 0..MaxLoop,
           SessionStart(p, s, n) \/ SessionNew(p, s, n) \/ SessionResume(p, s, n)
    PROVE  IInv' /\ Effect
<1>1. /\ job = Idle /\ UNCHANGED <<tasks, job, clock, gone>> /\ AddsFollow(p, s, n)
      /\ NewSession(p, s) \/ (IsOpen(sessions, s) /\ Claim(p, s))
  BY DEF SessionStart, SessionNew, SessionResume, Runs, Owned, OpenSessions
<1>2. /\ sessions' \in [SessionIds -> Session \cup {None}]
      /\ (SessionsBut(s) /\ Opened(s)) \/ SessionsBut(None)
      /\ sessions'[s] # None
      /\ \A z \in SessionIds : sessions[z] # None => sessions'[z] # None
  BY <1>1, SaveSession, SaveClaim DEF IsOpen
<1>3. loop' \in [Procs -> Loop] /\ LoopOK'
  BY <1>1, <1>2, AddsToMake
<1>4. TypeOK' /\ JobOK'
  BY <1>1, <1>2, <1>3, IdleJob DEF IInv, TypeOK, JobOK
<1>5. Effect
  BY <1>1, <1>2 DEF Effect
<1>. QED
  BY <1>3, <1>4, <1>5 DEF IInv

-----------------------------------------------------------------------------
\* The saves of the jobs.

LEMMA StartSave ==
    ASSUME IInv, StartStep
    PROVE  IInv' /\ Effect
<1>1. job.op = "start" /\ UNCHANGED <<sessions, loop, clock, gone>>
  BY DEF StartStep
<1>2. PICK y \in Slugs : /\ y \in Exists(tasks) /\ tasks[y].state # "done"
                         /\ SetState(y, "wip")
                         /\ job' = job \/ job' = Idle
  <2>1. CASE \E y \in Slugs : NextPromoted(tasks, job.slug, y) /\ SetState(y, "wip") /\ UNCHANGED job
    BY <2>1 DEF NextPromoted, OpenAncestors
  <2>2. CASE SetState(job.slug, "wip") /\ job' = Idle
    BY <1>1, <2>2 DEF IInv, JobOK, Exists
  <2>. QED
    BY <2>1, <2>2 DEF StartStep
<1>3. Only(y) /\ Moved(y) /\ tasks'[y].state = "wip"
  <2>1. "wip" \in States /\ (tasks[y].state = "done" <=> "wip" = "open")
    BY <1>2 DEF States
  <2>. QED
    BY <1>2, <2>1, SaveState DEF IInv
<1>4. TypeOK' /\ LoopOK'
  BY <1>1, <1>2, <1>3, IdleJob DEF IInv, TypeOK, LoopOK, Only
<1>5. JobOK'
  <2>1. CASE job' = Idle
    BY <2>1, IdleJob DEF JobOK
  <2>2. CASE job' = job
    <3>1. job.slug \in Slugs /\ tasks[job.slug] # None /\ tasks[job.slug].state # "done"
      BY <1>1 DEF IInv, JobOK, Exists
    <3>2. tasks'[job.slug] # None /\ tasks'[job.slug].state # "done"
      BY <1>3, <3>1 DEF Only, Moved
    <3>. QED
      BY <1>1, <2>2, <3>1, <3>2 DEF JobOK, Exists
  <2>. QED
    BY <1>2, <2>1, <2>2
<1>6. SessionsBut(None)
  BY <1>1 DEF SessionsBut
<1>. QED
  BY <1>1, <1>3, <1>4, <1>5, <1>6 DEF IInv, Effect

\* A job over a set of tasks goes on with a smaller one.
LEMMA JobShrinks ==
    ASSUME IInv, NEW x \in job.pend, Handled(x)
    PROVE  /\ job' \in Job
           /\ job' = Idle \/ (job'.op = job.op /\ job'.pend = job.pend \ {x})
  BY IdleJob DEF Handled, IInv, TypeOK, Job

LEMMA ReopenSave ==
    ASSUME IInv, ReopenStep
    PROVE  IInv' /\ Effect
<1>1. PICK x \in job.pend : SetState(x, "open") /\ Handled(x)
  BY DEF ReopenStep
<1>2. job.op = "reopen" /\ UNCHANGED <<sessions, loop, clock, gone>>
  BY DEF ReopenStep
<1>3. \A y \in job.pend : y \in Exists(tasks) /\ tasks[y].state = "done"
  BY <1>2 DEF IInv, JobOK
<1>4. x \in Slugs /\ Only(x) /\ Moved(x)
  <2>1. "open" \in States /\ (tasks[x].state = "done" <=> "open" = "open")
    BY <1>3 DEF States
  <2>. QED
    BY <1>1, <1>3, <2>1, SaveState DEF IInv
<1>5. job' \in Job /\ (job' = Idle \/ (job'.op = job.op /\ job'.pend = job.pend \ {x}))
  BY <1>1, JobShrinks
<1>6. TypeOK' /\ LoopOK'
  BY <1>2, <1>4, <1>5 DEF IInv, TypeOK, LoopOK, Only
<1>7. JobOK'
  <2>1. CASE job' = Idle
    BY <2>1, IdleJob DEF JobOK
  <2>2. CASE job'.op = "reopen" /\ job'.pend = job.pend \ {x}
    BY <1>3, <1>4, <2>2 DEF JobOK, Exists, Only
  <2>. QED
    BY <1>2, <1>5, <2>1, <2>2
<1>8. SessionsBut(None)
  BY <1>2 DEF SessionsBut
<1>. QED
  BY <1>2, <1>4, <1>6, <1>7, <1>8 DEF IInv, Effect

LEMMA ClearSave ==
    ASSUME IInv, ClearStep
    PROVE  IInv' /\ Effect
<1>1. PICK x \in job.pend : /\ tasks' = [tasks EXCEPT ![x] = None]
                            /\ gone' = gone \cup {x}
                            /\ Handled(x)
  BY DEF ClearStep
<1>2. job.op = "clear" /\ UNCHANGED <<sessions, loop, clock>>
  BY DEF ClearStep
<1>3. job.pend \subseteq Exists(tasks) /\ x \in Slugs /\ tasks[x] # None
  BY <1>2 DEF IInv, JobOK, Exists
<1>4. Only(x) /\ tasks'[x] = None
  BY <1>1, <1>3 DEF Only, IInv, TypeOK
<1>5. job' \in Job /\ (job' = Idle \/ (job'.op = job.op /\ job'.pend = job.pend \ {x}))
  BY <1>1, JobShrinks
<1>6. TypeOK' /\ LoopOK'
  BY <1>1, <1>2, <1>3, <1>4, <1>5 DEF IInv, TypeOK, LoopOK, Only
<1>7. JobOK'
  <2>1. CASE job' = Idle
    BY <2>1, IdleJob DEF JobOK
  <2>2. CASE job'.op = "clear" /\ job'.pend = job.pend \ {x}
    BY <1>3, <1>4, <2>2 DEF JobOK, Exists, Only
  <2>. QED
    BY <1>2, <1>5, <2>1, <2>2
<1>8. SessionsBut(None)
  BY <1>2 DEF SessionsBut
<1>. QED
  BY <1>1, <1>3, <1>4, <1>6, <1>7, <1>8 DEF IInv, Effect

LEMMA ReplaceSave ==
    ASSUME IInv, ReplaceStep
    PROVE  IInv' /\ Effect
<1>1. job.op = "replace" /\ UNCHANGED <<tasks, clock, gone>> /\ job \in Job /\ job.proc \in Procs
  BY DEF ReplaceStep, IInv, TypeOK, JobOK
<1>2. CASE \E s \in OpenSessions(sessions) : job' = [job EXCEPT !.sid = s] /\ UNCHANGED <<sessions, loop>>
  <2>1. PICK s \in OpenSessions(sessions) : job' = [job EXCEPT !.sid = s]
    BY <1>2
  <2>2. s \in SessionIds /\ IsOpen(sessions, s)
    BY DEF OpenSessions
  <2>3. job' \in Job /\ job'.op = "replace" /\ job'.sid = s /\ job'.proc = job.proc
    BY <1>1, <2>1, <2>2 DEF Job
  <2>4. JobOK'
    BY <1>1, <1>2, <2>2, <2>3 DEF JobOK, IsOpen
  <2>. QED
    BY <1>1, <1>2, <2>3, <2>4, JobTaken
<1>3. CASE /\ \E s \in SessionIds : NewSession(job.proc, s) /\ AddsFollow(job.proc, s, job.adds)
           /\ job' = Idle
  <2>1. PICK s \in SessionIds : NewSession(job.proc, s) /\ AddsFollow(job.proc, s, job.adds)
    BY <1>3
  <2>2. job.adds \in 0..MaxLoop
    BY <1>1 DEF Job
  <2>3. /\ sessions' \in [SessionIds -> Session \cup {None}]
        /\ SessionsBut(s) /\ Opened(s)
        /\ \A z \in SessionIds : sessions[z] # None => sessions'[z] # None
        /\ s # None /\ sessions'[s] # None
    BY <1>1, <2>1, SaveSession
  <2>4. loop' \in [Procs -> Loop] /\ LoopOK'
    BY <1>1, <2>1, <2>2, <2>3, AddsToMake
  <2>5. TypeOK' /\ JobOK'
    BY <1>1, <1>3, <2>3, <2>4, IdleJob DEF IInv, TypeOK, JobOK
  <2>6. Effect
    BY <1>1, <2>3 DEF Effect
  <2>. QED
    BY <2>4, <2>5, <2>6 DEF IInv
<1>. QED
  BY <1>2, <1>3 DEF ReplaceStep

LEMMA CloseSave ==
    ASSUME IInv, CloseStep
    PROVE  IInv' /\ Effect
<1>. DEFINE s == job.sid
<1>1. /\ job.op \in {"finish", "replace"} /\ UNCHANGED <<loop, clock, gone>>
      /\ job \in Job /\ s \in SessionIds /\ IsOpen(sessions, s)
      /\ sessions[s] \in Session
  BY DEF CloseStep, IInv, TypeOK, JobOK, Job, IsOpen
<1>2. CASE /\ \E x \in Unfinished(tasks, s) : tasks' = [tasks EXCEPT ![x].session = None]
           /\ UNCHANGED <<sessions, job>>
  <2>1. PICK x \in Unfinished(tasks, s) : tasks' = [tasks EXCEPT ![x].session = None]
    BY <1>2
  <2>2. x \in Slugs /\ tasks[x] \in Task /\ tasks[x] # None /\ tasks[x].session = s /\ tasks[x].state # "done"
    BY DEF Unfinished, Exists, IInv, TypeOK
  <2>. DEFINE r == [tasks[x] EXCEPT !.session = None]
  <2>3. /\ tasks' = [tasks EXCEPT ![x] = r] /\ r \in Task
        /\ r.session = None /\ r.state = tasks[x].state /\ r.parent = tasks[x].parent
    BY <2>1, <2>2 DEF Task
  <2>. HIDE DEF r
  <2>4. Only(x) /\ tasks'[x] = r /\ tasks'[x] # None
    BY <2>2, <2>3, NoneIsNoRecord DEF Only, IInv, TypeOK
  <2>5. Freed(x)
    BY <1>1, <2>2, <2>3, <2>4 DEF Freed
  <2>6. TypeOK' /\ LoopOK'
    BY <1>1, <1>2, <2>4 DEF IInv, TypeOK, LoopOK, Only
  <2>7. JobOK'
    BY <1>1, <1>2 DEF IInv, JobOK, IsOpen
  <2>8. SessionsBut(None)
    BY <1>2 DEF SessionsBut
  <2>. QED
    BY <1>1, <2>2, <2>4, <2>5, <2>6, <2>7, <2>8 DEF IInv, Effect
<1>3. CASE /\ Unfinished(tasks, s) = {}
           /\ sessions' = [sessions EXCEPT ![s].status = IF job.op = "finish" THEN "finished" ELSE "abandoned"]
           /\ job' = IF job.op = "finish" THEN Idle ELSE [job EXCEPT !.sid = None]
           /\ UNCHANGED tasks
  <2>. DEFINE st == IF job.op = "finish" THEN "finished" ELSE "abandoned"
              r == [sessions[s] EXCEPT !.status = st]
  <2>1. /\ sessions' = [sessions EXCEPT ![s] = r] /\ r \in Session
        /\ r.status # "open"
    BY <1>1, <1>3 DEF Session, Statuses
  <2>. HIDE DEF r
  <2>2. /\ sessions' \in [SessionIds -> Session \cup {None}]
        /\ sessions'[s] = r /\ sessions'[s] # None
        /\ \A z \in SessionIds \ {s} : sessions'[z] = sessions[z]
    BY <1>1, <2>1, NoneIsNoRecord DEF IInv, TypeOK
  <2>3. SessionsBut(s) /\ Closed(s)
    BY <1>1, <1>3, <2>1, <2>2 DEF SessionsBut, Closed, IsOpen, Unfinished
  <2>4. /\ job' \in Job /\ job'.sid = None /\ job'.op \in {"idle", "replace"}
        /\ job'.op = "replace" => job'.proc \in Procs
    BY <1>1, <1>3, IdleJob DEF IInv, JobOK, Job
  <2>5. JobOK'
    BY <2>4 DEF JobOK
  <2>6. LoopOK'
    <3>1. \A z \in SessionIds : sessions[z] # None => sessions'[z] # None
      BY <2>2
    <3>2. \A q \in Procs : loop[q].sid \in SessionIds \cup {None}
      BY DEF IInv, TypeOK, Loop
    <3>. QED
      BY <1>1, <3>1, <3>2 DEF IInv, LoopOK
  <2>7. TypeOK'
    BY <1>1, <1>3, <2>2, <2>4 DEF IInv, TypeOK
  <2>. QED
    BY <1>1, <1>3, <2>3, <2>5, <2>6, <2>7 DEF IInv, Effect
<1>. QED
  BY <1>2, <1>3 DEF CloseStep

-----------------------------------------------------------------------------
\* Adds without links: --task flags and TaskCreate.

LEMMA SaveDetached ==
    ASSUME IInv, NEW x \in Slugs, NEW s \in SessionIds, NewTask(x, s, Detached, {}),
           sessions[s] # None,
           IsOpen(sessions, s) \/ \E p \in Procs : loop[p].sid = s /\ loop[p].seen
    PROVE  Only(x) /\ Posted(x) /\ clock' \in Nat
<1>1. /\ Detached.parent = None /\ Detached.relation = "queued" /\ Detached.parallel = FALSE
      /\ {} \in SUBSET Slugs
  BY DEF Detached
<1>2. /\ Only(x) /\ tasks[x] = None /\ tasks'[x] # None
      /\ tasks'[x].state = "open" /\ tasks'[x].session = s
      /\ tasks'[x].parent = None
      /\ clock' \in Nat
  BY <1>1, SaveNew DEF IInv, Relations
<1>. QED
  BY <1>2 DEF Posted

LEMMA TaskCreateSave ==
    ASSUME IInv, NEW x \in Slugs, TaskCreateStep(x)
    PROVE  IInv' /\ Effect
<1>1. /\ job.op = "add" /\ NewTask(x, job.sid, Detached, {})
      /\ job' = Idle /\ UNCHANGED <<sessions, loop, gone>>
  BY DEF TaskCreateStep
<1>2. job.sid \in SessionIds /\ IsOpen(sessions, job.sid)
  BY <1>1 DEF IInv, JobOK, TypeOK, Job
<1>3. Only(x) /\ Posted(x) /\ clock' \in Nat
  BY <1>1, <1>2, SaveDetached DEF IsOpen
<1>4. IInv' /\ SessionsBut(None)
  BY <1>1, <1>3, AtRest DEF Only, IInv, TypeOK
<1>. QED
  BY <1>1, <1>3, <1>4 DEF Effect

LEMMA TaskCreateCommand ==
    ASSUME IInv, NEW p \in Procs, NEW x \in Slugs, TaskCreate(p, x)
    PROVE  IInv' /\ Effect
<1>1. job = Idle /\ UNCHANGED <<loop, gone>>
  BY DEF TaskCreate, Runs
<1>2. CASE /\ \E s \in SessionIds : NewSession(p, s) /\ Take(p, "add", None, s, {}, 0, FALSE)
           /\ UNCHANGED <<tasks, clock>>
  <2>1. PICK s \in SessionIds : NewSession(p, s) /\ Take(p, "add", None, s, {}, 0, FALSE)
    BY <1>2
  <2>2. /\ sessions' \in [SessionIds -> Session \cup {None}]
        /\ SessionsBut(s) /\ Opened(s)
        /\ \A z \in SessionIds : sessions[z] # None => sessions'[z] # None
        /\ s # None /\ IsOpen(sessions', s)
    BY <2>1, SaveSession
  <2>3. job' \in Job /\ job'.op = "add" /\ job'.sid = s
    <3>1. /\ p \in Procs \cup {None} /\ None \in Slugs \cup {None} /\ s \in SessionIds \cup {None}
          /\ {} \in SUBSET Slugs /\ 0 \in 0..MaxLoop /\ "add" \in Ops
      BY BoundAssumption DEF Ops
    <3>. QED
      BY <2>1, <3>1 DEF Take, Job
  <2>4. TypeOK'
    BY <1>1, <1>2, <2>2, <2>3 DEF IInv, TypeOK
  <2>5. JobOK'
    BY <2>2, <2>3 DEF JobOK
  <2>6. LoopOK'
    <3>1. \A q \in Procs : loop[q].sid \in SessionIds \cup {None}
      BY DEF IInv, TypeOK, Loop
    <3>. QED
      BY <1>1, <2>2, <3>1 DEF IInv, LoopOK
  <2>. QED
    BY <1>1, <1>2, <2>2, <2>4, <2>5, <2>6 DEF IInv, Effect
<1>3. CASE Me(p) # None /\ NewTask(x, Me(p), Detached, {}) /\ UNCHANGED <<sessions, job>>
  <2>1. Me(p) \in SessionIds /\ IsOpen(sessions, Me(p))
    BY <1>3, CallerIsOpen
  <2>2. Only(x) /\ Posted(x) /\ clock' \in Nat
    BY <1>3, <2>1, SaveDetached DEF IsOpen
  <2>3. IInv' /\ SessionsBut(None)
    BY <1>1, <1>3, <2>2, AtRest DEF Only, IInv, TypeOK
  <2>. QED
    BY <1>1, <2>2, <2>3 DEF Effect
<1>. QED
  BY <1>2, <1>3 DEF TaskCreate

LEMMA LoopLookStep ==
    ASSUME IInv, NEW p \in Procs, LoopLook(p)
    PROVE  IInv' /\ Effect
<1>. DEFINE l == IF IsOpen(sessions, loop[p].sid) THEN [loop[p] EXCEPT !.seen = TRUE] ELSE NoLoop
<1>1. /\ UNCHANGED <<tasks, sessions, job, clock, gone>> /\ loop' = [loop EXCEPT ![p] = l]
      /\ loop[p] # NoLoop /\ loop[p] \in Loop
  BY DEF LoopLook, IInv, TypeOK, NoLoop
<1>2. l \in Loop /\ (l # NoLoop => l.sid = loop[p].sid /\ l.left = loop[p].left)
  <2>1. NoLoop \in Loop
    BY BoundAssumption DEF NoLoop, Loop
  <2>2. /\ [loop[p] EXCEPT !.seen = TRUE] \in Loop
        /\ [loop[p] EXCEPT !.seen = TRUE].sid = loop[p].sid
        /\ [loop[p] EXCEPT !.seen = TRUE].left = loop[p].left
    BY <1>1 DEF Loop
  <2>. QED
    BY <2>1, <2>2
<1>. HIDE DEF l
<1>3. TypeOK' /\ JobOK'
  BY <1>1, <1>2 DEF IInv, TypeOK, JobOK, Exists, IsOpen
<1>4. LoopOK'
  BY <1>1, <1>2 DEF IInv, TypeOK, LoopOK
<1>5. SessionsBut(None)
  BY <1>1 DEF SessionsBut
<1>. QED
  BY <1>1, <1>3, <1>4, <1>5 DEF IInv, Effect

LEMMA LoopAddStep ==
    ASSUME IInv, NEW p \in Procs, NEW x \in Slugs, LoopAdd(p, x)
    PROVE  IInv' /\ Effect
<1>. DEFINE s == loop[p].sid
<1>1. /\ loop[p].seen /\ job = Idle /\ NewTask(x, s, Detached, {})
      /\ AddsFollow(p, s, loop[p].left - 1) /\ UNCHANGED <<sessions, job, gone>>
  BY DEF LoopAdd
<1>2. loop[p] \in Loop /\ loop[p] # NoLoop
  BY <1>1 DEF IInv, TypeOK, NoLoop
<1>3. s \in SessionIds /\ sessions[s] # None /\ loop[p].left - 1 \in 0..MaxLoop
  BY <1>2, BoundAssumption DEF IInv, LoopOK, Loop
<1>4. Only(x) /\ Posted(x) /\ clock' \in Nat
  BY <1>1, <1>3, SaveDetached
<1>5. loop' \in [Procs -> Loop] /\ LoopOK'
  BY <1>1, <1>3, AddsToMake
<1>6. TypeOK' /\ JobOK'
  BY <1>1, <1>4, <1>5, IdleJob DEF IInv, TypeOK, JobOK, Only
<1>7. SessionsBut(None)
  BY <1>1 DEF SessionsBut
<1>. QED
  BY <1>1, <1>4, <1>5, <1>6, <1>7 DEF IInv, Effect

\* A process that dies leaves the files as they are.
LEMMA DieStep ==
    ASSUME IInv, NEW p \in Procs, Die(p)
    PROVE  IInv' /\ Effect
<1>1. /\ UNCHANGED <<tasks, sessions, clock, gone>> /\ (job' = Idle \/ job' = job)
      /\ loop' = [loop EXCEPT ![p] = NoLoop]
  BY DEF Die
<1>2. NoLoop \in Loop
  BY BoundAssumption DEF NoLoop, Loop
<1>3. TypeOK' /\ LoopOK'
  BY <1>1, <1>2, IdleJob DEF IInv, TypeOK, LoopOK
<1>4. JobOK'
  <2>1. CASE job' = Idle
    BY <2>1, IdleJob DEF JobOK
  <2>2. CASE job' = job
    BY <1>1, <2>2 DEF IInv, JobOK, Exists, IsOpen
  <2>. QED
    BY <1>1, <2>1, <2>2
<1>5. SessionsBut(None)
  BY <1>1 DEF SessionsBut
<1>. QED
  BY <1>1, <1>3, <1>4, <1>5 DEF IInv, Effect

-----------------------------------------------------------------------------
LEMMA FlagsAreBoolean == \A f : Flag(f) \subseteq BOOLEAN
  BY DEF Flag

LEMMA InitIInv == Init => IInv
<1>. SUFFICES ASSUME Init PROVE IInv
  OBVIOUS
<1>1. NoLoop \in Loop
  BY BoundAssumption DEF NoLoop, Loop
<1>. QED
  BY <1>1, IdleJob DEF Init, IInv, TypeOK, JobOK, LoopOK

LEMMA StepEffect ==
    ASSUME IInv, Next
    PROVE  IInv' /\ Effect
<1>1. CASE JobStep
  BY <1>1, StartSave, ReopenSave, ClearSave, ReplaceSave, CloseSave, TaskCreateSave DEF JobStep
<1>2. ASSUME NEW p \in Procs, TaskCommand(p)
      PROVE  IInv' /\ Effect
  <2>. DEFINE Links == {{}} \cup {{y} : y \in Blockable}
  <2>1. PICK x \in Slugs, over \in Flag("over") :
            \/ \E s \in SessionIds : Add(p, x, s, over)
            \/ \E force \in Flag("force"), reopen \in Flag("reopen") : Start(p, x, force, reopen, over)
            \/ \E force \in Flag("force") : Done(p, x, force, over)
            \/ Wait(p, x, over)
            \/ \E on \in Slugs : Block(p, x, on, over)
            \/ \E par \in Slugs \cup {None}, on, off \in Links : Edit(p, x, par, on, off, over)
    BY <1>2 DEF TaskCommand
  <2>2. over \in BOOLEAN /\ Flag("force") \subseteq BOOLEAN /\ Flag("reopen") \subseteq BOOLEAN
    BY FlagsAreBoolean
  <2>3. \A on \in Links : on \in SUBSET Slugs
    BY DEF Blockable
  <2>. HIDE DEF Links
  <2>. QED
    BY <2>1, <2>2, <2>3, AddStep, StartCommand, DoneStep, WaitStep, BlockStep, EditStep
<1>3. ASSUME NEW p \in Procs, SetCommand(p)
      PROVE  IInv' /\ Effect
  <2>1. PICK over \in BOOLEAN :
            \/ \E X \in SUBSET Slugs : Reopen(p, X, over) \/ ClearIds(p, X, over)
            \/ \E s \in SessionIds : ClearSession(p, s, over)
    BY <1>3, FlagsAreBoolean DEF SetCommand
  <2>. QED
    BY <2>1, ReopenCommand, ClearIdsCommand, ClearSessionCommand
<1>4. ASSUME NEW p \in Procs, SessionCommand(p)
      PROVE  IInv' /\ Effect
  <2>1. \/ \E s \in SessionIds, n \in 0..MaxLoop :
               SessionStart(p, s, n) \/ SessionNew(p, s, n) \/ SessionResume(p, s, n)
        \/ \E n \in 0..MaxLoop : SessionReplace(p, n)
        \/ \E s \in SessionIds, abandon_open \in BOOLEAN, over \in BOOLEAN :
               SessionFinish(p, s, abandon_open, over)
    BY <1>4, FlagsAreBoolean DEF SessionCommand
  <2>. QED
    BY <2>1, SessionStartStep, SessionReplaceCommand, SessionFinishCommand
<1>5. ASSUME NEW p \in Procs, NEW x \in Slugs, TaskUpdate(p, x)
      PROVE  IInv' /\ Effect
  <2>1. FALSE \in BOOLEAN /\ {x} \in SUBSET Slugs
    OBVIOUS
  <2>. QED
    BY <1>5, <2>1, StartCommand, DoneStep, ClearIdsCommand DEF TaskUpdate
<1>6. ASSUME NEW p \in Procs, LoopStep(p)
      PROVE  IInv' /\ Effect
  BY <1>6, LoopLookStep, LoopAddStep DEF LoopStep
<1>. QED
  BY <1>1, <1>2, <1>3, <1>4, <1>5, <1>6, TaskCreateCommand, DieStep DEF Next
=============================================================================
