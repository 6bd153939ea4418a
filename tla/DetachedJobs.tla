---------------------------- MODULE DetachedJobs ----------------------------
(***************************************************************************)
(* The detached jobs of the hooks: a job is written to a checkpoint file,  *)
(* then a child process does it, guarded by the set of request ids that    *)
(* were already done, and removes the file.  A later SessionStart runs     *)
(* again the jobs whose file is older than the deadline of their kind      *)
(* (src/src/hook_run/checkpoint.rs, idempotency.rs, detached_store.rs,     *)
(* src/src/session_log/detached.rs, src/src/consolidation/mod.rs).         *)
(*                                                                         *)
(* Time is kept as ages, which TickJobs advances: a child makes its local  *)
(* steps within a tick and ends a call within the call's timeout, which is *)
(* what the code calls a healthy job.                                      *)
(***************************************************************************)
EXTENDS Integers, Sequences, FiniteSets, SequencesExt

CONSTANTS StoreJobs,       \* jobs of kind IcmStore and SessionLogRecord
          DistillJobs,     \* jobs of kind Consolidation
          IndexJobs,       \* jobs of kind CbmIndex
          Plans,           \* the sets of jobs the hook events of a behaviour start
          MaxChildren,     \* room for live child processes
          MaxRules,        \* max_rules_per_session
          MaxAttempts,     \* MAX_ATTEMPTS
          MaxResumed,      \* MAX_RESUMED_PER_START
          MaxIds,          \* MAX_IDS of a seen-set
          StoreDeadline,   \* deadline_secs of the kinds, in ticks
          DistillDeadline,
          PruneAge,        \* PRUNE_DAYS, in ticks
          CallTime,        \* timeout of one ICM call
          LlmTime          \* timeout of the LLM call

ASSUME DetachedJobsAssumption ==
  /\ Plans \subseteq SUBSET (StoreJobs \cup DistillJobs \cup IndexJobs)
  /\ {MaxChildren, MaxRules, MaxAttempts, MaxResumed, MaxIds} \subseteq Nat \ {0}
  /\ {StoreDeadline, DistillDeadline, CallTime, LlmTime} \subseteq Nat \ {0}
  /\ PruneAge \in Nat
  /\ PruneAge > StoreDeadline
  /\ PruneAge > DistillDeadline
  /\ StoreDeadline >= CallTime              \* "its longest timeout plus a margin"
  /\ DistillDeadline >= CallTime + LlmTime  \* (deadline_secs)

VARIABLES due,       \* jobs that a hook event is still to start
          ckpt,      \* job -> its checkpoint file
          child,     \* slot -> a live child process
          doneIds,   \* the request ids done, oldest first
          copies,    \* item -> copies ICM holds: 0, 1 or 2 for more
          resumer,   \* the SessionStart that holds the resume lock
          gone,      \* jobs whose recorded working directory was removed
          begun,     \* history: jobs started with a checkpoint
          dropped,   \* history: jobs pruned or dropped as unrunnable
          blurred,   \* history: items whose id or reply was lost on the way
          spawned    \* history: job -> children started for it

jobVars == <<due, ckpt, child, doneIds, copies, resumer, gone, begun, dropped, blurred, spawned>>

Jobs == StoreJobs \cup DistillJobs \cup IndexJobs
Slots == 1 .. MaxChildren

\* What a job asks ICM to keep: one record, or the rules of a summary.
Items == (StoreJobs \X {0}) \cup (DistillJobs \X (1 .. MaxRules))

\* A request id names the item and the run tag, which a child may have lost.
RequestIds == Items \X BOOLEAN

\* No file, and a summary field that is not set.
NoCheckpoint == [age |-> -1]
NoSummary == -1

Checkpoint ==
  [age : 0 .. PruneAge + 1, idle : 0 .. PruneAge + 1, attempts : 1 .. MaxAttempts,
   summary : {NoSummary} \cup 0 .. MaxRules]

NoChild == [at |-> "none"]

\* Where a child stands; the first set are calls, which take time.
Calls == {"store", "recall", "ask", "match", "index"}
Locals == {"input", "seen", "record", "open", "note", "saveNote", "rules", "next", "finish"}

Child ==
  [at : Calls \cup Locals, job : Jobs, left : 0 .. LlmTime + CallTime, path : BOOLEAN,
   piped : BOOLEAN, rule : 0 .. MaxRules, rules : 0 .. MaxRules, tag : BOOLEAN,
   failed : BOOLEAN, snap : Checkpoint \cup {NoCheckpoint}]

NoResumer == [on |-> FALSE]

JobTypeOK ==
  /\ due \subseteq Jobs
  /\ ckpt \in [Jobs -> Checkpoint \cup {NoCheckpoint}]
  /\ child \in [Slots -> Child \cup {NoChild}]
  /\ doneIds \in Seq(RequestIds) /\ Len(doneIds) <= MaxIds
  /\ copies \in [Items -> 0 .. 2]
  /\ resumer = NoResumer \/
       /\ resumer.on
       /\ DOMAIN resumer.files \subseteq StoreJobs \cup DistillJobs
       /\ \A j \in DOMAIN resumer.files : resumer.files[j] \in Checkpoint
       /\ resumer.spawn \subseteq Jobs
       /\ resumer.count \in 0 .. MaxResumed
  /\ gone \subseteq Jobs
  /\ begun \subseteq Jobs
  /\ dropped \subseteq Jobs
  /\ blurred \subseteq Items
  /\ spawned \in [Jobs -> Nat]

JobInit ==
  /\ due \in Plans
  /\ ckpt = [j \in Jobs |-> NoCheckpoint]
  /\ child = [s \in Slots |-> NoChild]
  /\ doneIds = <<>>
  /\ copies = [i \in Items |-> 0]
  /\ resumer = NoResumer
  /\ gone = {}
  /\ begun = {}
  /\ dropped = {}
  /\ blurred = {}
  /\ spawned = [j \in Jobs |-> 0]

-----------------------------------------------------------------------------
(* Checkpoint files.                                                       *)

\* Checkpoint::new: first attempt, started now.
NewCheckpoint == [age |-> 0, idle |-> 0, attempts |-> 1, summary |-> NoSummary]

\* deadline_secs of the job's kind; an index is never resumed.
Deadline(j) == IF j \in StoreJobs THEN StoreDeadline ELSE DistillDeadline

\* Checkpoint::is_stale at the time `now` that the resumer read, which is this tick.
IsStale(j, c) == c.age > Deadline(j)

\* prune_stale_json_files on the checkpoint folder, by the age of the last write.
Prunable == {j \in Jobs : ckpt[j] # NoCheckpoint /\ ckpt[j].idle > PruneAge}

LiveChildren(j) == {s \in Slots : child[s] # NoChild /\ child[s].job = j}

ItemsOf(j) == {i \in Items : i[1] = j}

\* A child process of j: it starts with its input, its checkpoint or the indexer.
Started(j, hasPath, pipedAll) ==
  [at |-> IF j \in StoreJobs THEN "input" ELSE IF j \in DistillJobs THEN "open" ELSE "index",
   job |-> j, left |-> 0, path |-> hasPath, piped |-> pipedAll, rule |-> 0, rules |-> 0,
   tag |-> TRUE, failed |-> FALSE, snap |-> NoCheckpoint]

\* spawn_counted: the child takes a free slot.  The items of a job with two live
\* children are blurred: both may find the same id unseen.
Spawn(j, hasPath, pipedAll) ==
  /\ \E s \in Slots :
       /\ child[s] = NoChild
       /\ \A t \in Slots : t < s => child[t] # NoChild
       /\ child' = [child EXCEPT ![s] = Started(j, hasPath, pipedAll)]
  /\ spawned' = [spawned EXCEPT ![j] = IF j \in IndexJobs THEN @ ELSE @ + 1]
  /\ blurred' = IF LiveChildren(j) = {} THEN blurred ELSE blurred \cup ItemsOf(j)

\* checkpoint::begin: a new file, or for an index the earlier attempt count
\* plus one.  A file that is too large, or cannot be written, is left out.
Begin(j, saved) ==
  ckpt' = [ckpt EXCEPT ![j] =
             IF ~saved THEN @
             ELSE IF j \in IndexJobs /\ @ # NoCheckpoint
             THEN [NewCheckpoint EXCEPT !.attempts =
                     IF ckpt[j].attempts < MaxAttempts THEN ckpt[j].attempts + 1
                                                       ELSE MaxAttempts]
             ELSE NewCheckpoint]

\* A hook event starts the job: the file first, then the child, which may not
\* start, or get only a part of its input through the pipe. At most one start of
\* a job by its hook is under way: two events give two jobs, and an index that
\* still runs is not started again (a bound of the model for the index).
StartJob(j) ==
  /\ j \in due
  /\ LiveChildren(j) = {}
  /\ due' = IF j \in IndexJobs THEN due ELSE due \ {j}
  /\ \E saved \in BOOLEAN :
       /\ Begin(j, saved)
       /\ begun' = IF saved THEN begun \cup {j} ELSE begun
       /\ \/ \E pipedAll \in IF j \in StoreJobs THEN BOOLEAN ELSE {TRUE} :
               Spawn(j, saved, pipedAll)
          \/ UNCHANGED <<child, spawned, blurred>>
  /\ UNCHANGED <<doneIds, copies, resumer, gone, dropped>>

-----------------------------------------------------------------------------
(* The steps of a child in slot s.                                         *)

Moves(s, at, left) == child' = [child EXCEPT ![s].at = at, ![s].left = left]
Exits(s) == child' = [child EXCEPT ![s] = NoChild]

\* checkpoint::load of the child's own file, which may fail to be read.
Loadable(s) == child[s].path /\ ckpt[child[s].job] # NoCheckpoint

\* What the child has to store now, and the request id it stores it under.
TheItem(s) == <<child[s].job, child[s].rule>>
TheId(s) == <<TheItem(s), child[s].tag>>

\* inputs_or_checkpoint: the piped input, else the recorded one.  With neither
\* the job cannot run and its file goes; a file that cannot be read stays.
ReadInput(s) ==
  /\ child[s] # NoChild /\ child[s].at = "input"
  /\ \/ /\ child[s].piped \/ Loadable(s)
        /\ Moves(s, "seen", 0)
        /\ UNCHANGED ckpt
     \/ /\ ~child[s].piped /\ Loadable(s)
        /\ Exits(s)
        /\ UNCHANGED ckpt
     \/ /\ ~child[s].piped /\ ~Loadable(s)
        /\ Exits(s)
        /\ ckpt' = IF child[s].path THEN [ckpt EXCEPT ![child[s].job] = NoCheckpoint] ELSE ckpt
  /\ UNCHANGED <<due, doneIds, copies, resumer, gone, begun, dropped, blurred, spawned>>

\* Guard::already_done: a seen id skips the call.  A seen-set that is locked or
\* unreadable counts as not seen, and the item is blurred.
CheckSeen(s) ==
  /\ child[s] # NoChild /\ child[s].at = "seen"
  /\ \/ /\ Contains(doneIds, TheId(s))
        /\ Moves(s, IF child[s].job \in StoreJobs THEN "finish" ELSE "next", 0)
        /\ UNCHANGED blurred
     \/ /\ ~Contains(doneIds, TheId(s))
        /\ Moves(s, "store", CallTime)
        /\ UNCHANGED blurred
     \/ /\ Contains(doneIds, TheId(s))
        /\ Moves(s, "store", CallTime)
        /\ blurred' = blurred \cup {TheItem(s)}
  /\ UNCHANGED <<due, ckpt, doneIds, copies, resumer, gone, begun, dropped, spawned>>

\* ICM keeps one more copy of the item of s.
Kept(s) == [copies EXCEPT ![TheItem(s)] = IF @ = 2 THEN 2 ELSE @ + 1]

\* icm_memory_store answers.
StoreReply(s) ==
  /\ child[s] # NoChild /\ child[s].at = "store"
  /\ copies' = Kept(s)
  /\ Moves(s, "record", 0)
  /\ UNCHANGED <<due, ckpt, doneIds, resumer, gone, begun, dropped, blurred, spawned>>

\* Mutant: a record's job is settled by a failed call too.
StoreFailsSettles(s) ==
  /\ child[s] # NoChild /\ child[s].at = "store"
  /\ \E kept \in BOOLEAN :
       /\ copies' = IF kept THEN Kept(s) ELSE copies
       /\ blurred' = IF kept THEN blurred \cup {TheItem(s)} ELSE blurred
  /\ IF child[s].job \in StoreJobs
     THEN Moves(s, "finish", 0)
     ELSE child' = [child EXCEPT ![s].at = "next", ![s].left = 0, ![s].failed = TRUE]
  /\ UNCHANGED <<due, ckpt, doneIds, resumer, gone, begun, dropped, spawned>>

\* The call fails, or its answer is lost after ICM kept the item.  A record's
\* child ends with its file in place; a rule counts as failed.
StoreFails(s) ==
  /\ child[s] # NoChild /\ child[s].at = "store"
  /\ \E kept \in BOOLEAN :
       /\ copies' = IF kept THEN Kept(s) ELSE copies
       /\ blurred' = IF kept THEN blurred \cup {TheItem(s)} ELSE blurred
  /\ IF child[s].job \in StoreJobs
     THEN Exits(s)
     ELSE child' = [child EXCEPT ![s].at = "next", ![s].left = 0, ![s].failed = TRUE]
  /\ UNCHANGED <<due, ckpt, doneIds, resumer, gone, begun, dropped, spawned>>

\* Mutant: a full set keeps its oldest ids.
RecordedOldest(ids, id) ==
  IF Contains(ids, id) \/ Len(ids) >= MaxIds THEN ids ELSE Append(ids, id)

\* SeenStore::record keeps the newest MaxIds ids.
Recorded(ids, id) ==
  LET all == IF Contains(ids, id) THEN ids ELSE Append(ids, id)
      excess == IF Len(all) > MaxIds THEN Len(all) - MaxIds ELSE 0
  IN  SubSeq(all, excess + 1, Len(all))

\* Guard::done: the id is recorded, or lost with a busy lock or a failed write.
\* An id that falls off the end blurs its item.
RecordId(s) ==
  /\ child[s] # NoChild /\ child[s].at = "record"
  /\ \/ /\ doneIds' = Recorded(doneIds, TheId(s))
        /\ blurred' = blurred \cup {id[1] : id \in ToSet(doneIds) \ ToSet(doneIds')}
     \/ /\ ~Contains(doneIds, TheId(s))
        /\ blurred' = blurred \cup {TheItem(s)}
        /\ UNCHANGED doneIds
  /\ Moves(s, IF child[s].job \in StoreJobs THEN "finish" ELSE "next", 0)
  /\ UNCHANGED <<due, ckpt, copies, resumer, gone, begun, dropped, spawned>>

\* checkpoint::finish and settle: the file is removed, or the removal fails.
FinishJob(s) ==
  /\ child[s] # NoChild /\ child[s].at = "finish"
  /\ \E removed \in BOOLEAN :
       ckpt' = [ckpt EXCEPT ![child[s].job] = IF child[s].path /\ removed THEN NoCheckpoint ELSE @]
  /\ Exits(s)
  /\ UNCHANGED <<due, doneIds, copies, resumer, gone, begun, dropped, blurred, spawned>>

\* saved_summary: the rules of the summary that an earlier run left in the file.
SavedSummary(s) == IF Loadable(s) THEN ckpt[child[s].job].summary ELSE NoSummary

\* run_consolidation_at and run: consolidation may be off by now, the
\* project may have no name, the summary may be in the file, else it is made.
OpenDistill(s) ==
  /\ child[s] # NoChild /\ child[s].at = "open"
  /\ \/ Moves(s, "finish", 0)
     \/ Exits(s)
     \/ IF SavedSummary(s) = NoSummary
        THEN Moves(s, "recall", CallTime)
        ELSE child' = [child EXCEPT ![s].at = "rules", ![s].rules = SavedSummary(s)]
  /\ UNCHANGED <<due, ckpt, doneIds, copies, resumer, gone, begun, dropped, blurred, spawned>>

\* distill: the recall fails, finds too few records, or leads to the LLM call.
Recall(s) ==
  /\ child[s] # NoChild /\ child[s].at = "recall"
  /\ \/ Exits(s)
     \/ Moves(s, "finish", 0)
     \/ Moves(s, "ask", LlmTime)
  /\ UNCHANGED <<due, ckpt, doneIds, copies, resumer, gone, begun, dropped, blurred, spawned>>

\* The LLM call fails, or gives a summary with some rules or with none.
Ask(s) ==
  /\ child[s] # NoChild /\ child[s].at = "ask"
  /\ \/ Exits(s)
     \/ \E n \in {0, MaxRules} :
          child' = [child EXCEPT ![s].at = "note", ![s].left = 0, ![s].rules = n]
  /\ UNCHANGED <<due, ckpt, doneIds, copies, resumer, gone, begun, dropped, blurred, spawned>>

\* note_phase: update loads the file, changes it and saves it, with no lock.
LoadNote(s) ==
  /\ child[s] # NoChild /\ child[s].at = "note"
  /\ IF Loadable(s)
     THEN child' = [child EXCEPT ![s].at = "saveNote",
                      ![s].snap = [ckpt[child[s].job] EXCEPT !.summary = child[s].rules]]
     ELSE Moves(s, "rules", 0)
  /\ UNCHANGED <<due, ckpt, doneIds, copies, resumer, gone, begun, dropped, blurred, spawned>>

SaveNote(s) ==
  /\ child[s] # NoChild /\ child[s].at = "saveNote"
  /\ \/ ckpt' = [ckpt EXCEPT ![child[s].job] = [child[s].snap EXCEPT !.idle = 0]]
     \/ UNCHANGED ckpt \* the save fails
  /\ child' = [child EXCEPT ![s].at = "rules", ![s].snap = NoCheckpoint]
  /\ UNCHANGED <<due, doneIds, copies, resumer, gone, begun, dropped, blurred, spawned>>

\* run: no rules settle the job, else run_id is read from the file and each
\* rule is compared with what ICM holds.
OpenRules(s) ==
  /\ child[s] # NoChild /\ child[s].at = "rules"
  /\ IF child[s].rules = 0
     THEN Moves(s, "finish", 0) /\ UNCHANGED blurred
     ELSE /\ child' = [child EXCEPT ![s].at = "match", ![s].left = CallTime,
                                    ![s].rule = 1, ![s].tag = Loadable(s)]
          /\ blurred' = IF child[s].path /\ ~Loadable(s)
                        THEN blurred \cup ItemsOf(child[s].job) ELSE blurred
  /\ UNCHANGED <<due, ckpt, doneIds, copies, resumer, gone, begun, dropped, spawned>>

\* dedup::is_stored: a rule ICM holds may be found, a failed check skips it.
MatchRule(s) ==
  /\ child[s] # NoChild /\ child[s].at = "match"
  /\ \/ Moves(s, "seen", 0)
     \/ copies[TheItem(s)] > 0 /\ Moves(s, "next", 0)
     \/ child' = [child EXCEPT ![s].at = "next", ![s].left = 0, ![s].failed = TRUE]
  /\ UNCHANGED <<due, ckpt, doneIds, copies, resumer, gone, begun, dropped, blurred, spawned>>

\* store_new_rules goes on with the next rule; after the last one the job is
\* settled unless a rule failed.
NextRule(s) ==
  /\ child[s] # NoChild /\ child[s].at = "next"
  /\ IF child[s].rule < child[s].rules
     THEN child' = [child EXCEPT ![s].at = "match", ![s].left = CallTime, ![s].rule = @ + 1]
     ELSE IF child[s].failed THEN Exits(s) ELSE Moves(s, "finish", 0)
  /\ UNCHANGED <<due, ckpt, doneIds, copies, resumer, gone, begun, dropped, blurred, spawned>>

\* run_cbm_index: only an indexer that exits with success settles its file.
IndexEnds(s) ==
  /\ child[s] # NoChild /\ child[s].at = "index"
  /\ Moves(s, "finish", 0) \/ Exits(s)
  /\ UNCHANGED <<due, ckpt, doneIds, copies, resumer, gone, begun, dropped, blurred, spawned>>

\* The child is killed; a call in progress may still reach ICM.
KillChild(s) ==
  /\ child[s] # NoChild
  /\ Exits(s)
  /\ \/ /\ child[s].at = "record"
        /\ blurred' = blurred \cup {TheItem(s)}
        /\ UNCHANGED copies
     \/ /\ child[s].at = "store"
        /\ copies' = Kept(s)
        /\ blurred' = blurred \cup {TheItem(s)}
     \/ child[s].at # "record" /\ UNCHANGED <<copies, blurred>>
  /\ UNCHANGED <<due, ckpt, doneIds, resumer, gone, begun, dropped, spawned>>

ChildStep(s) ==
  \/ ReadInput(s) \/ CheckSeen(s) \/ StoreReply(s) \/ StoreFails(s) \/ RecordId(s)
  \/ FinishJob(s) \/ OpenDistill(s) \/ Recall(s) \/ Ask(s) \/ LoadNote(s) \/ SaveNote(s)
  \/ OpenRules(s) \/ MatchRule(s) \/ NextRule(s) \/ IndexEnds(s)

-----------------------------------------------------------------------------
(* resume_pending, at a SessionStart.                                      *)

\* Old files are pruned, the resume lock is taken and the files are listed; an
\* index and a young file are passed over.  A SessionStart that finds the lock
\* taken prunes nothing more and returns.
StartSession ==
  /\ resumer = NoResumer
  /\ ckpt' = [j \in Jobs |-> IF j \in Prunable THEN NoCheckpoint ELSE ckpt[j]]
  /\ dropped' = dropped \cup Prunable
  /\ LET listed == {j \in StoreJobs \cup DistillJobs : ckpt'[j] # NoCheckpoint /\ IsStale(j, ckpt'[j])}
     IN  resumer' = IF listed = {} THEN NoResumer
                    ELSE [on |-> TRUE, files |-> [j \in listed |-> ckpt'[j]],
                          spawn |-> {}, count |-> 0]
  /\ UNCHANGED <<due, child, doneIds, copies, gone, begun, blurred, spawned>>

\* The entry j is next, in an order the hash of its inputs decides.
Listed(j) == resumer.on /\ resumer.spawn = {} /\ j \in DOMAIN resumer.files
Without(j) == Restrict(resumer.files, DOMAIN resumer.files \ {j})

\* An entry that used up its attempts stays for doctor.
GiveUp(j) ==
  /\ Listed(j) /\ j \notin gone
  /\ resumer.files[j].attempts >= MaxAttempts
  /\ resumer' = [resumer EXCEPT !.files = Without(j)]
  /\ UNCHANGED <<due, ckpt, child, doneIds, copies, gone, begun, dropped, blurred, spawned>>

\* drop_unrunnable: the working directory of the first run is gone.
DropEntry(j) ==
  /\ Listed(j) /\ j \in gone
  /\ ckpt' = [ckpt EXCEPT ![j] = NoCheckpoint]
  /\ dropped' = dropped \cup {j}
  /\ resumer' = [resumer EXCEPT !.files = Without(j)]
  /\ UNCHANGED <<due, child, doneIds, copies, gone, begun, blurred, spawned>>

\* Mutant: the attempt is not counted.
RestartedUncounted(c) == [c EXCEPT !.age = 0, !.idle = 0]

\* restart: one more attempt and a new start time.
Restarted(c) == [c EXCEPT !.age = 0, !.idle = 0, !.attempts = @ + 1]

\* restart saves the listed entry; past MaxResumed the rest waits for the next
\* session. A save that fails starts nothing.
RestartEntry(j) ==
  /\ Listed(j) /\ j \notin gone
  /\ resumer.files[j].attempts < MaxAttempts
  /\ IF resumer.count >= MaxResumed
     THEN resumer' = NoResumer /\ UNCHANGED ckpt
     ELSE \/ /\ ckpt' = [ckpt EXCEPT ![j] = Restarted(resumer.files[j])]
             /\ resumer' = [resumer EXCEPT !.files = Without(j), !.spawn = {j}]
          \/ resumer' = [resumer EXCEPT !.files = Without(j)] /\ UNCHANGED ckpt
  /\ UNCHANGED <<due, child, doneIds, copies, gone, begun, dropped, blurred, spawned>>

\* respawn_job: the child starts with its whole input, or does not start.
Respawn(j) ==
  /\ resumer.on /\ j \in resumer.spawn
  /\ \/ /\ Spawn(j, TRUE, TRUE)
        /\ resumer' = [resumer EXCEPT !.spawn = {}, !.count = @ + 1]
     \/ /\ resumer' = [resumer EXCEPT !.spawn = {}]
        /\ UNCHANGED <<child, spawned, blurred>>
  /\ UNCHANGED <<due, ckpt, doneIds, copies, gone, begun, dropped>>

\* The loop is over, or the hook is killed: the lock is free again.
EndSession ==
  /\ resumer.on
  /\ resumer' = NoResumer
  /\ UNCHANGED <<due, ckpt, child, doneIds, copies, gone, begun, dropped, blurred, spawned>>

ResumeStep ==
  \/ \E j \in Jobs : GiveUp(j) \/ DropEntry(j) \/ RestartEntry(j) \/ Respawn(j)
  \/ resumer.on /\ DOMAIN resumer.files \cup resumer.spawn = {} /\ EndSession

-----------------------------------------------------------------------------
\* The user removes the directory a job was started in.
RemoveDir(j) ==
  /\ j \in begun \ gone
  /\ gone' = gone \cup {j}
  /\ UNCHANGED <<due, ckpt, child, doneIds, copies, resumer, begun, dropped, blurred, spawned>>

Older(age) == IF age > PruneAge THEN age ELSE age + 1

\* Time passes only when no local step is due and no call is out of time.
TickJobs ==
  /\ resumer = NoResumer
  /\ \A s \in Slots : child[s] # NoChild =>
       child[s].at \in Calls /\ (child[s].left > 0 \/ child[s].at = "index")
  /\ ckpt' = [j \in Jobs |-> IF ckpt[j] = NoCheckpoint THEN NoCheckpoint
                             ELSE [ckpt[j] EXCEPT !.age = Older(@), !.idle = Older(@)]]
  /\ child' = [s \in Slots |-> IF child[s] = NoChild \/ child[s].at = "index" THEN child[s]
                               ELSE [child[s] EXCEPT !.left = @ - 1]]
  /\ UNCHANGED <<due, doneIds, copies, resumer, gone, begun, dropped, blurred, spawned>>

JobNext ==
  \/ \E j \in Jobs : StartJob(j) \/ RemoveDir(j)
  \/ \E s \in Slots : ChildStep(s) \/ KillChild(s)
  \/ StartSession \/ ResumeStep \/ EndSession
  \/ TickJobs

\* Children and the resumer run, sessions keep starting, time passes, and not
\* every session is killed before it comes to the entry j.
JobFairness ==
  /\ \A s \in Slots : WF_jobVars(ChildStep(s))
  /\ WF_jobVars(ResumeStep)
  /\ \A j \in Jobs : SF_jobVars(GiveUp(j) \/ DropEntry(j) \/ RestartEntry(j))
  /\ WF_jobVars(StartSession)
  /\ SF_jobVars(TickJobs)

JobSpec == JobInit /\ [][JobNext]_jobVars /\ JobFairness

-----------------------------------------------------------------------------
\* is_stale: "the job has run past its deadline, so its child is not still
\* working" (checkpoint.rs), for the children that make one call.
StaleStoreIsIdle ==
  \A j \in StoreJobs : ckpt[j] # NoCheckpoint /\ IsStale(j, ckpt[j]) => LiveChildren(j) = {}

\* ICM holds a second copy only after an answer, an id or a run tag was lost, a
\* seen-set could not be read, or two children of one job ran at once.
CopyNeedsLoss == \A i \in Items : copies[i] > 1 => i \in blurred

\* The file of a record's job goes only when ICM holds the record, or when it
\* was pruned or its directory is gone: no crash or retry loses the record.
RecordNotLost ==
  \A j \in StoreJobs : j \in begun /\ ckpt[j] = NoCheckpoint => copies[<<j, 0>>] > 0 \/ j \in dropped

\* A consolidation that settles its file left every rule of its summary in ICM.
SettledRulesHeld ==
  \A s \in Slots : child[s] # NoChild /\ child[s].at = "finish" /\ child[s].job \in DistillJobs
    => \A r \in 1 .. child[s].rules : copies[<<child[s].job, r>>] > 0

\* No job is started more often than MaxAttempts, whatever the children and
\* the resumers write over each other.
AttemptsBounded == \A j \in Jobs : spawned[j] <= MaxAttempts

\* Every file of a resumable job goes, or uses up its attempts and stays for doctor.
JobSettles ==
  \A j \in StoreJobs \cup DistillJobs :
    ckpt[j] # NoCheckpoint ~> (ckpt[j] = NoCheckpoint \/ ckpt[j].attempts = MaxAttempts)

\* Work is done once: a restart finds no child that still works, restarts are bounded, and
\* a second copy in ICM needs a loss.
WorkDoneOnce == StaleStoreIsIdle /\ AttemptsBounded /\ CopyNeedsLoss

\* Work is not lost: a file goes only after what it stands for is in ICM.
WorkNotLost == RecordNotLost /\ SettledRulesHeld
=============================================================================
