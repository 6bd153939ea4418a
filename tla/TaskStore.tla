----------------------------- MODULE TaskStore -----------------------------
(***************************************************************************)
(* The task store as several llmenv processes use it: the files of tasks    *)
(* and sessions, and one action per command of `llmenv task`, of            *)
(* `llmenv task session` and of the TaskCreate and TaskUpdate hooks.        *)
(*                                                                          *)
(* A command holds the store lock (module StoreLock) from its checks to its *)
(* last save.  A command that saves one file is one step here.  A command   *)
(* that saves several is a job: its first step runs the checks, every later *)
(* step saves one file, and the process may die or meet a write error in    *)
(* between, which leaves the rest unsaved.  No other command runs while a   *)
(* job does; the lock is free when job = Idle.  The one command that lets   *)
(* go of the lock half way is `session start --task`: its adds are a loop,  *)
(* and each add looks its session up before it takes the lock.              *)
(*                                                                          *)
(* Left out: notes, the time stamps other than the creation order, and      *)
(* last_activity with the engine process id.  A bare `session start` that   *)
(* resumes by process id does what `session start --resume` does.           *)
(***************************************************************************)
EXTENDS TaskModel

CONSTANTS Procs,      \* llmenv processes
          Conv,       \* the conversation each process runs in, or None
          Commands,   \* the commands in use
          Flags,      \* the command-line flags in use
          MaxAdds,    \* bound: tasks created
          MaxLoop     \* bound: --task flags of one session start

ASSUME ConvAssumption == Conv \in [Procs -> Convs \cup {None}]
ASSUME BoundAssumption == MaxAdds \in Nat /\ MaxLoop \in Nat
ASSUME NoneIsNoProc == None \notin Procs

VARIABLES tasks,      \* the task files
          sessions,   \* the session files
          job,        \* the command that holds the lock, if any
          loop,       \* the adds each session start still has to make
          clock,      \* tasks created so far
          gone        \* slugs of deleted tasks (history)

vars == <<tasks, sessions, job, loop, clock, gone>>

Idle == [op |-> "idle", proc |-> None, slug |-> None, sid |-> None,
         pend |-> {}, adds |-> 0, free |-> FALSE]
NoLoop == [sid |-> None, left |-> 0, seen |-> FALSE]

Ops == {"idle", "start", "finish", "replace", "clear", "reopen", "add"}
Job == [op   : Ops,
        proc : Procs \cup {None},
        slug : Slugs \cup {None},
        sid  : SessionIds \cup {None},
        pend : SUBSET Slugs,
        adds : 0..MaxLoop,
        free : BOOLEAN]          \* --force or --other-session was given
Loop == [sid : SessionIds \cup {None}, left : 0..MaxLoop, seen : BOOLEAN]

Init == /\ tasks = [x \in Slugs |-> None]
        /\ sessions = [s \in SessionIds |-> None]
        /\ job = Idle
        /\ loop = [p \in Procs |-> NoLoop]
        /\ clock = 0
        /\ gone = {}

-----------------------------------------------------------------------------
\* Bounds: another task, another session can still be made.
TaskRoom == clock < MaxAdds /\ Exists(tasks) # Slugs
SessionRoom == \E s \in SessionIds : sessions[s] = None

Flag(f) == IF f \in Flags THEN BOOLEAN ELSE {FALSE}

\* Process p runs the command c: it takes the lock and has no add of its own left.
Runs(p, c) == c \in Commands /\ job = Idle /\ loop[p] = NoLoop

Me(p) == Caller(sessions, Conv[p])

\* Mutant: no ownership check.
MayActOnAny(p, x, over) == tasks[x] # None

\* ownership_note: a task without a session is anyone's, another task is its
\* session's.  over is an --other-session flag that names the owner.
MayAct(p, x, over) ==
    tasks[x] # None /\ (tasks[x].session \in {None, Me(p)} \/ over)

\* ensure_session_is_ours.
MayActOnSession(p, s, over) == s = Me(p) \/ over

SetState(x, st) == tasks' = [tasks EXCEPT ![x].state = st]
Take(p, op, x, s, pend, n, free) ==
    job' = [op |-> op, proc |-> p, slug |-> x, sid |-> s,
            pend |-> pend, adds |-> n, free |-> free]

-----------------------------------------------------------------------------
(* task add *)

\* add_task_for_session_with: the new task takes a slug that no file has.
NewTask(x, s, place, after) ==
    /\ tasks[x] = None
    /\ clock < MaxAdds
    /\ tasks' = [tasks EXCEPT ![x] =
           [state |-> "open", parent |-> place.parent, relation |-> place.relation,
            parallel |-> place.parallel, blocked |-> after, session |-> s,
            born |-> clock]]
    /\ clock' = clock + 1

Detached == [parent |-> None, relation |-> "queued", parallel |-> FALSE]

\* Mutant: the parent may be a task of any session.
PlacementsAnySession(s) ==
    [parent : {None} \cup Exists(tasks), relation : {"queued"}, parallel : Flag("parallel")]

\* Where a task of session s may go: the queue or beside it, under no parent or
\* under a task of the session; or below an unfinished task of the session.
Placements(s) ==
    LET own == {y \in Exists(tasks) : tasks[y].session = s}
    IN  [parent   : {None} \cup {y \in own : "parent" \in Flags},
         relation : {"queued"},
         parallel : Flag("parallel")]
        \cup
        [parent   : {y \in own : "child" \in Flags /\ tasks[y].state # "done"},
         relation : {"child"},
         parallel : {FALSE}]

Afters == {{}} \cup {{y} : y \in {z \in Exists(tasks) : "after" \in Flags}}

\* Mutant: the named session only has to exist.
AddToClosed(p, x, s, over) ==
    /\ Runs(p, "add")
    /\ sessions[s] # None
    /\ MayTake(sessions, s, Conv[p]) \/ over
    /\ \E place \in Placements(s), after \in Afters : NewTask(x, s, place, after)
    /\ UNCHANGED <<sessions, job, loop, gone>>

Add(p, x, s, over) ==
    /\ Runs(p, "add")
    /\ IsOpen(sessions, s)
    /\ MayTake(sessions, s, Conv[p]) \/ over
    /\ \E place \in Placements(s), after \in Afters : NewTask(x, s, place, after)
    /\ UNCHANGED <<sessions, job, loop, gone>>

-----------------------------------------------------------------------------
(* task start *)

\* The state that `--reopen` saves before the start is tried.
Reopened(x) == [tasks EXCEPT ![x].state = IF @ = "done" THEN "open" ELSE @]

Start(p, x, force, reopen, over) ==
    /\ Runs(p, "start")
    /\ MayAct(p, x, over)
    /\ tasks' = IF reopen THEN Reopened(x) ELSE tasks
    /\ IF StartOK(tasks', x, force)
       THEN Take(p, "start", x, None, {}, 0, force \/ over)
       ELSE UNCHANGED job
    /\ UNCHANGED <<sessions, loop, clock, gone>>

\* Mutant: the ancestors are left as they are.
StartStepTaskOnly ==
    /\ job.op = "start"
    /\ SetState(job.slug, "wip")
    /\ job' = Idle
    /\ UNCHANGED <<sessions, loop, clock, gone>>

\* The saves of start_task: the open ancestors, nearest first, then the task.
StartStep ==
    /\ job.op = "start"
    /\ \/ /\ \E y \in Slugs : NextPromoted(tasks, job.slug, y) /\ SetState(y, "wip")
          /\ UNCHANGED job
       \/ /\ OpenAncestors(tasks, job.slug) = {}
          /\ SetState(job.slug, "wip")
          /\ job' = Idle
    /\ UNCHANGED <<sessions, loop, clock, gone>>

-----------------------------------------------------------------------------
(* task done, wait, block, edit: one save each *)

Done(p, x, force, over) ==
    /\ Runs(p, "done")
    /\ MayAct(p, x, over)
    /\ DoneOK(tasks, x, force)
    /\ SetState(x, "done")
    /\ UNCHANGED <<sessions, job, loop, clock, gone>>

Wait(p, x, over) ==
    /\ Runs(p, "wait")
    /\ MayAct(p, x, over)
    /\ tasks[x].state # "done"
    /\ SetState(x, "waiting")
    /\ UNCHANGED <<sessions, job, loop, clock, gone>>

Block(p, x, on, over) ==
    /\ Runs(p, "block")
    /\ MayAct(p, x, over)
    /\ on \in Exists(tasks) \ {x}
    /\ tasks' = [tasks EXCEPT ![x].blocked = @ \cup {on}]
    /\ UNCHANGED <<sessions, job, loop, clock, gone>>

\* par is the new parent, None for --no-parent, or x itself for neither flag.
\* The parent changes; the relation does not.
Edit(p, x, par, on, off, over) ==
    /\ Runs(p, "edit")
    /\ MayAct(p, x, over)
    /\ par \in Slugs \ {x} => /\ par \in Exists(tasks)
                              /\ tasks[par].session # None
                              /\ tasks[par].session = tasks[x].session
                              /\ NoCycle(tasks, x, par)
    /\ on \subseteq Exists(tasks) \ {x}
    /\ off \subseteq Exists(tasks)
    /\ tasks' = [tasks EXCEPT ![x].parent = IF par = x THEN @ ELSE par,
                              ![x].blocked = (@ \cup on) \ off]
    /\ UNCHANGED <<sessions, job, loop, clock, gone>>

-----------------------------------------------------------------------------
(* task reopen *)

\* reopen_targets: every named task is done, and so is no parent of a named
\* sub-task, unless the parent is named too.
ReopenOK(X) ==
    \A x \in X :
        /\ tasks[x].state = "done"
        /\ LET y == tasks[x].parent
           IN  tasks[x].relation = "child" /\ y # None /\ y \notin X =>
                   y \in Exists(tasks) /\ tasks[y].state # "done"

Reopen(p, X, over) ==
    /\ Runs(p, "reopen")
    /\ X # {}
    /\ \A x \in X : MayAct(p, x, over)
    /\ ReopenOK(X)
    /\ Take(p, "reopen", None, None, X, 0, over)
    /\ UNCHANGED <<tasks, sessions, loop, clock, gone>>

\* Mutant: the task stays in the list.
HandledKeeps(x) == UNCHANGED job /\ x \in Slugs

\* A job over a set of tasks has handled x, and ends with the last one.
Handled(x) == job' = IF job.pend = {x} THEN Idle
                     ELSE [job EXCEPT !.pend = @ \ {x}]

ReopenStep ==
    /\ job.op = "reopen"
    /\ \E x \in job.pend : SetState(x, "open") /\ Handled(x)
    /\ UNCHANGED <<sessions, loop, clock, gone>>

-----------------------------------------------------------------------------
(* task clear *)

\* The delete of a task without a session needs a session to record it on.
ClearIds(p, X, over) ==
    /\ Runs(p, "clear")
    /\ X # {}
    /\ \A x \in X : MayAct(p, x, over) /\ (tasks[x].session = None => Me(p) # None)
    /\ Take(p, "clear", None, None, X, 0, over)
    /\ UNCHANGED <<tasks, sessions, loop, clock, gone>>

ClearSession(p, s, over) ==
    /\ Runs(p, "clear_session")
    /\ MayActOnSession(p, s, over)
    /\ LET X == {x \in Exists(tasks) : tasks[x].session = s}
       IN  X # {} /\ Take(p, "clear", None, None, X, 0, over)
    /\ UNCHANGED <<tasks, sessions, loop, clock, gone>>

\* Mutant: the file stays, with a new state.
ClearStepMarks ==
    /\ job.op = "clear"
    /\ \E x \in job.pend : /\ SetState(x, "deleted")
                           /\ gone' = gone \cup {x}
                           /\ Handled(x)
    /\ UNCHANGED <<sessions, loop, clock>>

\* delete_task: the file goes, the links to it stay.
ClearStep ==
    /\ job.op = "clear"
    /\ \E x \in job.pend : /\ tasks' = [tasks EXCEPT ![x] = None]
                           /\ gone' = gone \cup {x}
                           /\ Handled(x)
    /\ UNCHANGED <<sessions, loop, clock>>

-----------------------------------------------------------------------------
(* task session start *)

NewSession(p, s) ==
    /\ sessions[s] = None
    /\ sessions' = [sessions EXCEPT ![s] = [status |-> "open", conv |-> Conv[p]]]

\* claim: a caller without a conversation keeps the stored owner.
Claim(p, s) ==
    sessions' = [sessions EXCEPT ![s].conv = IF Conv[p] = None THEN @ ELSE Conv[p]]

\* The --task flags that follow once the session is there.
AddsFollow(p, s, n) ==
    loop' = [loop EXCEPT ![p] = IF n = 0 THEN NoLoop
                                ELSE [sid |-> s, left |-> n, seen |-> FALSE]]

Owned(p) == {s \in OpenSessions(sessions) : Conv[p] # None /\ sessions[s].conv = Conv[p]}

\* A bare start: the first session of the project, or the caller's only own one.
SessionStart(p, s, n) ==
    /\ Runs(p, "session_start")
    /\ \/ OpenSessions(sessions) = {} /\ NewSession(p, s)
       \/ Owned(p) = {s} /\ Claim(p, s)
    /\ AddsFollow(p, s, n)
    /\ UNCHANGED <<tasks, job, clock, gone>>

SessionNew(p, s, n) ==
    /\ Runs(p, "session_new")
    /\ NewSession(p, s)
    /\ AddsFollow(p, s, n)
    /\ UNCHANGED <<tasks, job, clock, gone>>

\* Any open session may be resumed, and changes owner.
SessionResume(p, s, n) ==
    /\ Runs(p, "session_resume")
    /\ IsOpen(sessions, s)
    /\ Claim(p, s)
    /\ AddsFollow(p, s, n)
    /\ UNCHANGED <<tasks, job, clock, gone>>

SessionReplace(p, n) ==
    /\ Runs(p, "session_replace") /\ SessionRoom
    /\ Take(p, "replace", None, None, {}, n, FALSE)
    /\ UNCHANGED <<tasks, sessions, loop, clock, gone>>

\* Once every session is abandoned the new one starts.
ReplaceStep ==
    /\ job.op = "replace" /\ job.sid = None
    /\ \/ /\ \E s \in OpenSessions(sessions) : job' = [job EXCEPT !.sid = s]
          /\ UNCHANGED <<sessions, loop>>
       \/ /\ OpenSessions(sessions) = {}
          /\ \E s \in SessionIds : NewSession(job.proc, s) /\ AddsFollow(job.proc, s, job.adds)
          /\ job' = Idle
    /\ UNCHANGED <<tasks, clock, gone>>

\* The unlocked look at the named session, before each add of the loop.
LoopLook(p) ==
    /\ loop[p].left > 0 /\ ~loop[p].seen
    /\ loop' = [loop EXCEPT ![p] = IF IsOpen(sessions, @.sid)
                                   THEN [@ EXCEPT !.seen = TRUE] ELSE NoLoop]
    /\ UNCHANGED <<tasks, sessions, job, clock, gone>>

\* The add itself, under the lock, into the session that was looked up.
LoopAdd(p, x) ==
    /\ loop[p].seen
    /\ job = Idle
    /\ NewTask(x, loop[p].sid, Detached, {})
    /\ AddsFollow(p, loop[p].sid, loop[p].left - 1)
    /\ UNCHANGED <<sessions, job, gone>>

-----------------------------------------------------------------------------
(* task session finish *)

SessionFinish(p, s, abandon_open, over) ==
    /\ Runs(p, "session_finish")
    /\ IsOpen(sessions, s)
    /\ MayActOnSession(p, s, over)
    /\ Unfinished(tasks, s) = {} \/ abandon_open
    /\ Take(p, "finish", None, s, {}, 0, over)
    /\ UNCHANGED <<tasks, sessions, loop, clock, gone>>

\* Mutant: the stamp comes first.
CloseStepStampFirst ==
    /\ job.op \in {"finish", "replace"} /\ job.sid # None
    /\ sessions' = [sessions EXCEPT ![job.sid].status =
                        IF job.op = "finish" THEN "finished" ELSE "abandoned"]
    /\ job' = IF job.op = "finish" THEN Idle ELSE [job EXCEPT !.sid = None]
    /\ UNCHANGED <<tasks, loop, clock, gone>>

\* untag_unfinished, then the stamp that closes the session.
CloseStep ==
    /\ job.op \in {"finish", "replace"} /\ job.sid # None
    /\ \/ /\ \E x \in Unfinished(tasks, job.sid) : tasks' = [tasks EXCEPT ![x].session = None]
          /\ UNCHANGED <<sessions, job>>
       \/ /\ Unfinished(tasks, job.sid) = {}
          /\ sessions' = [sessions EXCEPT ![job.sid].status =
                              IF job.op = "finish" THEN "finished" ELSE "abandoned"]
          /\ job' = IF job.op = "finish" THEN Idle ELSE [job EXCEPT !.sid = None]
          /\ UNCHANGED tasks
    /\ UNCHANGED <<loop, clock, gone>>

-----------------------------------------------------------------------------
(* The TaskCreate and TaskUpdate hooks *)

\* With no session open, TaskCreate starts one and then adds the task to it.
TaskCreate(p, x) ==
    /\ Runs(p, "task_create")
    /\ \/ /\ OpenSessions(sessions) = {} /\ TaskRoom
          /\ \E s \in SessionIds : NewSession(p, s) /\ Take(p, "add", None, s, {}, 0, FALSE)
          /\ UNCHANGED <<tasks, clock>>
       \/ /\ Me(p) # None
          /\ NewTask(x, Me(p), Detached, {})
          /\ UNCHANGED <<sessions, job>>
    /\ UNCHANGED <<loop, gone>>

TaskCreateStep(x) ==
    /\ job.op = "add"
    /\ NewTask(x, job.sid, Detached, {})
    /\ job' = Idle
    /\ UNCHANGED <<sessions, loop, gone>>

\* in_progress, completed and deleted: the commands, without their overrides.
TaskUpdate(p, x) ==
    /\ "task_update" \in Commands
    /\ \/ Start(p, x, FALSE, FALSE, FALSE)
       \/ Done(p, x, FALSE, FALSE)
       \/ ClearIds(p, {x}, FALSE)

-----------------------------------------------------------------------------
\* The process dies, or a write fails: the rest of its command is not done.
Die(p) ==
    /\ "die" \in Commands
    /\ job.proc = p \/ loop[p] # NoLoop
    /\ job' = IF job.proc = p THEN Idle ELSE job
    /\ loop' = [loop EXCEPT ![p] = NoLoop]
    /\ UNCHANGED <<tasks, sessions, clock, gone>>

Blockable == {y \in Slugs : "block" \in Flags}

TaskCommand(p) ==
    \E x \in Slugs, over \in Flag("over") :
        \/ \E s \in SessionIds : Add(p, x, s, over)
        \/ \E force \in Flag("force"), reopen \in Flag("reopen") : Start(p, x, force, reopen, over)
        \/ \E force \in Flag("force") : Done(p, x, force, over)
        \/ Wait(p, x, over)
        \/ \E on \in Slugs : Block(p, x, on, over)
        \/ \E par \in Slugs \cup {None}, on, off \in {{}} \cup {{y} : y \in Blockable} :
               Edit(p, x, par, on, off, over)

SetCommand(p) ==
    \E over \in Flag("over") :
        \/ \E X \in SUBSET Slugs : Reopen(p, X, over) \/ ClearIds(p, X, over)
        \/ \E s \in SessionIds : ClearSession(p, s, over)

SessionCommand(p) ==
    \/ \E s \in SessionIds, n \in 0..MaxLoop :
           SessionStart(p, s, n) \/ SessionNew(p, s, n) \/ SessionResume(p, s, n)
    \/ \E n \in 0..MaxLoop : SessionReplace(p, n)
    \/ \E s \in SessionIds, abandon_open \in Flag("abandon_open"), over \in Flag("over") :
           SessionFinish(p, s, abandon_open, over)

JobStep ==
    \/ StartStep \/ ReopenStep \/ ClearStep \/ ReplaceStep \/ CloseStep
    \/ \E x \in Slugs : TaskCreateStep(x)

LoopStep(p) == LoopLook(p) \/ \E x \in Slugs : LoopAdd(p, x)

Next ==
    \/ JobStep
    \/ \E p \in Procs :
        \/ TaskCommand(p) \/ SetCommand(p) \/ SessionCommand(p)
        \/ \E x \in Slugs : TaskCreate(p, x) \/ TaskUpdate(p, x)
        \/ LoopStep(p)
        \/ Die(p)

Spec == Init /\ [][Next]_vars

Fairness == WF_vars(JobStep)
FairSpec == Spec /\ Fairness

-----------------------------------------------------------------------------
(* Properties *)

\* Every file and every job has the shape the code gives it.
TypeOK ==
    /\ tasks \in [Slugs -> Task \cup {None}]
    /\ sessions \in [SessionIds -> Session \cup {None}]
    /\ job \in Job
    /\ loop \in [Procs -> Loop]
    /\ clock \in Nat
    /\ gone \subseteq Slugs

\* The parents of the tasks of C stay in C: C is a loop, or leads into one.
Cyclic(C) == C # {} /\ \A x \in C : tasks[x].parent \in C

\* Parent links loop only through the slug of a deleted task that a later task
\* took: reject_cycle guards `edit --parent`, and `add` links a new task to an
\* older one, so a dangling link is the only way for a loop to close.
CycleNeedsReuse ==
    \A C \in SUBSET Exists(tasks) : Cyclic(C) => C \cap gone # {}

\* Two linked tasks never belong to two sessions (ensure_parent_in_session),
\* whatever adds, edits, finishes and replaces do in between, as long as the
\* parent is not a later task under a deleted one's slug.
LinksStayInSession ==
    \A x, y \in Exists(tasks) :
        /\ tasks[x].parent = y /\ y \notin gone
        /\ tasks[x].session # None /\ tasks[y].session # None
        => tasks[x].session = tasks[y].session

\* A session that is finished or abandoned gets no more unfinished work, except
\* a task that is reopened in it, and the next --task of a session start that
\* saw it open.
ClosedTakesNoWork ==
    [][\A s \in SessionIds : sessions[s] # None /\ ~IsOpen(sessions, s) =>
        \A x \in Unfinished(tasks', s) \ Unfinished(tasks, s) :
            \/ tasks[x] # None /\ tasks[x].session = s
            \/ \E p \in Procs : loop[p].sid = s /\ loop[p].seen]_vars

\* A start without --force and --other-session changes no task of an open
\* session of somebody else, the ancestors it puts in progress included.
StartsOwnTasksOnly ==
    [][job.op = "start" /\ ~job.free =>
        \A y \in Slugs : tasks'[y] # tasks[y] =>
            \/ tasks[y].session \in {None, Me(job.proc)}
            \/ ~IsOpen(sessions, tasks[y].session)]_vars

\* Unless it is forced, at most one queued task of a session is in progress.
\* (`task wait` is not in use: a waiting task resumes past the queue.)
QueueSerial ==
    \A s \in SessionIds :
        \A x, y \in Queue(tasks, s) : tasks[x].state = "wip" /\ tasks[y].state = "wip" => x = y

\* Between commands, a sub-task in progress has a parent that was started too
\* (ancestors_to_start), unless the parent is a later task under its slug.
StartedUnderStarted ==
    job = Idle =>
        \A x, y \in Exists(tasks) :
            /\ tasks[x].parent = y /\ y \notin gone
            /\ tasks[x].relation = "child" /\ tasks[x].state = "wip"
            => tasks[y].state # "open"

\* Between commands, a done task has no unfinished sub-task (complete_task,
\* check_child_parent and refuse_done_parents keep it so without --force).
DoneCoversSubtasks ==
    job = Idle =>
        \A x, y \in Exists(tasks) :
            tasks[x].parent = y /\ tasks[x].relation = "child" /\ tasks[y].state = "done"
            => tasks[x].state = "done"

\* Tasks never hold each other up: while work is left, some task waits for a
\* person, or is open and can start, or is in progress and can be closed,
\* without --force.
SomeTaskCanMove ==
    job = Idle /\ (\E x \in Exists(tasks) : tasks[x].state # "done") =>
        \E x \in Exists(tasks) :
            \/ tasks[x].state = "waiting"
            \/ tasks[x].state = "open" /\ StartOK(tasks, x, FALSE)
            \/ tasks[x].state = "wip" /\ DoneOK(tasks, x, FALSE)

\* What TaskBoard sees of the files.
boardState == [x \in Slugs |-> IF tasks[x] = None THEN "absent" ELSE tasks[x].state]
boardTag == [x \in Slugs |-> IF tasks[x] = None THEN None ELSE tasks[x].session]
boardStatus == [s \in SessionIds |-> IF sessions[s] = None THEN "absent"
                                     ELSE IF IsOpen(sessions, s) THEN "open" ELSE "closed"]
Board == INSTANCE TaskBoard WITH state <- boardState, tag <- boardTag, status <- boardStatus

\* Every behaviour of the commands, deaths between two saves included, is one
\* that TaskBoard allows.
BoardSpec == Board!Spec

\* A command that has the lock ends: the saves of a replace, a finish, a clear,
\* a reopen or a start run out, so no other command waits for ever.
JobEnds == (job # Idle) ~> (job = Idle)

-----------------------------------------------------------------------------
(* What comments of the code say, and the code does not keep *)

\* "because a `done` parent cannot hold an open sub-task" is DoneCoversSubtasks,
\* here with `task start --reopen`.

\* `blocked_on` "is a hard-block": without --force no task is put in progress
\* while a task it is blocked on is not done.
HardBlock ==
    [][job.op = "start" /\ ~job.free =>
        \A y \in Exists(tasks) : tasks[y].state = "open" /\ tasks'[y].state = "wip" =>
            BlockersDone(tasks, y)]_vars

\* `task edit --no-parent` is the fix that the failed start names for a missing
\* parent: after it the parent link no longer keeps the task from starting.
NoParentFixesStart ==
    [][\A x \in Exists(tasks) :
        /\ tasks[x].parent \notin Exists(tasks) \cup {None}
        /\ tasks'[x] # None /\ tasks'[x].parent = None
        => AncestorsOK(tasks', x, FALSE)]_vars
=============================================================================
