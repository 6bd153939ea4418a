------------------------------- MODULE MCLive -------------------------------
(***************************************************************************)
(* What must happen in the end, for TLC: the store lock, the commands of   *)
(* the task store, the detached jobs, the proxy and the clones, put        *)
(* together as in MCHooks.                                                 *)
(***************************************************************************)
EXTENDS StoreLock, DetachedJobs, McpProxy, PluginClones

CONSTANTS Parts,
          None, Convs, Slugs, SessionIds, TaskProcs, Conv, Commands, Flags, MaxAdds, MaxLoop

VARIABLES tasks, sessions, job, loop, clock, deleted, part

Tasks == INSTANCE TaskStore WITH Procs <- TaskProcs, gone <- deleted

taskVars == <<tasks, sessions, job, loop, clock, deleted>>
liveVars == <<part, vars, jobVars, proxyVars, cloneVars, taskVars>>

MCCanon == [path \in Paths |-> "storeA"]
MCConv == [q \in TaskProcs |-> "c1"]
MCPlans == {{"r1"}, {"c1"}}
MCTeams == {{"y1", "x1"}}

OnLock(A) == part = "lock" /\ A /\ UNCHANGED <<part, jobVars, proxyVars, cloneVars, taskVars>>
OnJobs(A) == part = "jobs" /\ A /\ UNCHANGED <<part, vars, proxyVars, cloneVars, taskVars>>
OnProxy(A) == part = "proxy" /\ A /\ UNCHANGED <<part, vars, jobVars, cloneVars, taskVars>>
OnClones(A) == part = "clones" /\ A /\ UNCHANGED <<part, vars, jobVars, proxyVars, taskVars>>
OnTasks(A) == part = "tasks" /\ A /\ UNCHANGED <<part, vars, jobVars, proxyVars, cloneVars>>

LiveInit ==
  /\ part \in Parts
  /\ Init
  /\ JobInit /\ (part = "jobs" \/ due = {"c1"})
  /\ ProxyInit /\ (part = "proxy" \/ kills = 0)
  /\ CloneInit /\ (part = "clones" \/ (pinned /\ dest = NoClone))
  /\ Tasks!Init

LiveNext ==
  \/ OnLock(Next) \/ OnJobs(JobNext) \/ OnProxy(ProxyNext)
  \/ OnClones(CloneNext) \/ OnTasks(Tasks!Next)

\* The fairness of the components' own specifications. `part` never changes, so the
\* formula for a disjunction of steps of different components says what the
\* formulas for each of them say.
LiveFairness ==
  /\ WF_liveVars(\/ OnLock(Unlock("t1")) \/ OnJobs(ChildStep(1)) \/ OnProxy(ExportStep("e1"))
                 \/ OnClones(BeginSync("y1")) \/ OnTasks(Tasks!JobStep))
  /\ WF_liveVars(\/ OnLock(Unlock("t2")) \/ OnJobs(ChildStep(2)) \/ OnProxy(ExportStep("e2"))
                 \/ OnClones(CheckStep("y1")))
  /\ WF_liveVars(OnLock(Unlock("t3")) \/ OnJobs(ResumeStep) \/ OnClones(SyncStep("y1")))
  /\ WF_liveVars(OnJobs(StartSession) \/ OnClones(BeginSync("x1")))
  /\ WF_liveVars(OnClones(CheckStep("x1")))
  /\ SF_liveVars(\/ OnLock(ReturnAt("t1", 1)) \/ OnJobs(TickJobs) \/ OnProxy(HolderIsGone("e1"))
                 \/ OnClones(EndClone("y1")))
  /\ SF_liveVars(\/ OnLock(ReturnAt("t1", 2)) \/ OnProxy(HolderIsGone("e2"))
                 \/ OnJobs(GiveUp("r1") \/ DropEntry("r1") \/ RestartEntry("r1"))
                 \/ OnClones(CloneStaged("y1") /\ staged'["y1"] # NoClone))
  /\ SF_liveVars(\/ OnLock(ReturnAt("t2", 1))
                 \/ OnJobs(GiveUp("c1") \/ DropEntry("c1") \/ RestartEntry("c1"))
                 \/ OnClones(SwapIn("y1") /\ proc'["y1"].at = "drop"))
  /\ SF_liveVars(OnLock(ReturnAt("t2", 2)))
  /\ SF_liveVars(OnLock(ReturnAt("t3", 1)))
  /\ SF_liveVars(OnLock(ReturnAt("t3", 2)))

LiveSpec == LiveInit /\ [][LiveNext]_liveVars /\ LiveFairness

-----------------------------------------------------------------------------
\* A command that has the lock ends: the saves of a replace, a finish, a clear,
\* a reopen or a start run out, so no other command waits for ever.
CommandEnds == Tasks!JobEnds

\* A broken clone does not stay in place for ever, in the behaviours in which the
\* clones move.
ClonesHeal == part = "clones" => BrokenCloneHeals
=============================================================================
