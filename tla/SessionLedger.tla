---------------------------- MODULE SessionLedger ----------------------------
(***************************************************************************)
(* The recall ledger of a session: which memory records each context was   *)
(* sent, and which subagent tasks wait for their SubagentStart             *)
(* (src/src/hook_run/session_ledger.rs, adaptive/subagent.rs,              *)
(* adaptive/failure.rs, adaptive/local.rs, adaptive.rs).                   *)
(*                                                                         *)
(* A recall reads what a context was sent and asks the memory server, then *)
(* records what it keeps, and then prints it, with the ledger unlocked in  *)
(* between. Hooks run in parallel and can be killed.                       *)
(***************************************************************************)
EXTENDS Integers, Sequences, FiniteSets

CONSTANTS Subs,        \* subagents of the session
          MainAgent,
          Records,     \* memory records that a recall can return
          MaxAgents,   \* MAX_AGENTS
          PendingCap,  \* PENDING_CAP
          MaxResets,   \* bound on the context resets
          Crews        \* the sets of contexts that take part in a behaviour

Contexts == Subs \cup {MainAgent}

ASSUME SessionLedgerAssumption ==
  /\ MainAgent \notin Subs
  /\ MaxAgents \in Nat \ {0} /\ PendingCap \in Nat \ {0} /\ MaxResets \in Nat
  /\ Crews \subseteq SUBSET Contexts

VARIABLES known,     \* contexts with an entry in the ledger
          sent,      \* context -> records the ledger says it was sent
          pending,   \* queued subagent tasks, each with whether it is past its TTL
          recall,    \* context -> its running recall
          holds,     \* context -> records that are in it
          life,      \* subagent -> none, called, started
          tasked,    \* history: subagent -> subagents whose queued tasks it took
          lost,      \* history: context -> marked records that were never shown
          forgotten, \* history: subagents that started and then lost their entry
          crew,      \* the contexts that take part
          resets

ledgerVars == <<known, sent, pending, recall, holds, life, tasked, lost, forgotten, resets, crew>>

\* A queued task is named after the subagent that its Agent call is for.
Pendings == [for : Subs, expired : BOOLEAN]
NoRecall == [at |-> "none", kept |-> {}]
Recalls == [at : {"none", "taken", "kept", "marked"}, kept : SUBSET Records]

LedgerTypeOK ==
  /\ known \subseteq Contexts
  /\ sent \in [Contexts -> SUBSET Records]
  /\ pending \in Seq(Pendings) /\ Len(pending) <= PendingCap
  /\ recall \in [Contexts -> Recalls]
  /\ holds \in [Contexts -> SUBSET Records]
  /\ life \in [Subs -> {"none", "called", "started"}]
  /\ tasked \in [Subs -> SUBSET Subs]
  /\ lost \in [Contexts -> SUBSET Records]
  /\ forgotten \subseteq Subs
  /\ resets \in 0 .. MaxResets
  /\ crew \in Crews

LedgerInit ==
  /\ known = {}
  /\ sent = [a \in Contexts |-> {}]
  /\ pending = <<>>
  /\ recall = [a \in Contexts |-> NoRecall]
  /\ holds = [a \in Contexts |-> {}]
  /\ life = [s \in Subs |-> "none"]
  /\ tasked = [s \in Subs |-> {}]
  /\ lost = [a \in Contexts |-> {}]
  /\ forgotten = {}
  /\ resets = 0
  /\ crew \in Crews

-----------------------------------------------------------------------------
(* The queue of subagent tasks.                                            *)

IsLive(p) == ~p.expired
Live(queue) == SelectSeq(queue, IsLive)

\* Mutant: the ring has no cap.
PushUncapped(queue, entry, cap) == Append(queue, entry)

\* push_capped: the oldest entries leave a full ring.
PushCapped(queue, entry, cap) ==
  LET long == Append(queue, entry)
  IN SubSeq(long, IF Len(long) > cap THEN Len(long) - cap + 1 ELSE 1, Len(long))

\* The PreToolUse hook of an Agent call queues its task, or cannot save it.
QueueSubagent(s) ==
  /\ life[s] = "none"
  /\ life' = [life EXCEPT ![s] = "called"]
  /\ \/ pending' = PushCapped(Live(pending), [for |-> s, expired |-> FALSE], PendingCap)
     \/ UNCHANGED pending
  /\ UNCHANGED <<known, sent, recall, holds, tasked, lost, forgotten, resets, crew>>

\* PENDING_TTL_SECS pass for the tasks that are queued.
ExpirePending ==
  /\ \E i \in DOMAIN pending : ~pending[i].expired
  /\ pending' = [i \in DOMAIN pending |-> [pending[i] EXCEPT !.expired = TRUE]]
  /\ UNCHANGED <<known, sent, recall, holds, life, tasked, lost, forgotten, resets, crew>>

\* PostToolBatch drops the task of an Agent call that is over.
DropSubagent(s) ==
  /\ life[s] = "called"
  /\ \E i \in DOMAIN pending : pending[i].for = s
  /\ pending' = SelectSeq(pending, LAMBDA p : p.for # s)
  /\ life' = [life EXCEPT ![s] = "none"]
  /\ UNCHANGED <<known, sent, recall, holds, tasked, lost, forgotten, resets, crew>>

-----------------------------------------------------------------------------
(* The recalls: of SubagentStart, for a new or a resumed subagent, and of  *)
(* a failed tool call.                                                     *)

\* A hook that ends without mark_sent leaves a new context without an entry.
Unmarked(a) == forgotten' = IF a \in Subs \ known THEN forgotten \cup {a} ELSE forgotten

\* Mutant: a known context takes a task too.
StartSubagentAgain(s) ==
  /\ life[s] \in {"called", "started"}
  /\ recall[s].at = "none"
  /\ life' = [life EXCEPT ![s] = "started"]
  /\ recall' = [recall EXCEPT ![s].at = "taken"]
  /\ pending' = IF Live(pending) = <<>> THEN <<>> ELSE Tail(Live(pending))
  /\ tasked' = IF Live(pending) = <<>> THEN tasked
               ELSE [tasked EXCEPT ![s] = @ \cup {Head(Live(pending)).for}]
  /\ UNCHANGED <<known, sent, holds, lost, forgotten, resets, crew>>

\* take_subagent: a context without an entry takes the oldest task of its type.
\* A known context takes none, and so does an update that is not applied.
StartSubagent(s) ==
  /\ life[s] \in {"called", "started"}
  /\ recall[s].at = "none"
  /\ life' = [life EXCEPT ![s] = "started"]
  /\ recall' = [recall EXCEPT ![s].at = "taken"]
  /\ \/ /\ s \notin known
        /\ pending' = IF Live(pending) = <<>> THEN <<>> ELSE Tail(Live(pending))
        /\ tasked' = IF Live(pending) = <<>> THEN tasked
                     ELSE [tasked EXCEPT ![s] = @ \cup {Head(Live(pending)).for}]
     \/ UNCHANGED <<pending, tasked>>
  /\ UNCHANGED <<known, sent, holds, lost, forgotten, resets, crew>>

\* sent_for is read, the memory server answers, and the budget keeps records
\* that were not sent; without a readable ledger no recall runs.
Recalled(a) ==
  \/ /\ \E kept \in SUBSET (Records \ sent[a]) :
          recall' = [recall EXCEPT ![a] = [at |-> "kept", kept |-> kept]]
     /\ UNCHANGED forgotten
  \/ /\ recall' = [recall EXCEPT ![a] = NoRecall]
     /\ Unmarked(a)

\* The ledger is read again after the take.
SubagentRecall(s) ==
  /\ recall[s].at = "taken"
  /\ Recalled(s)
  /\ UNCHANGED <<known, sent, pending, holds, life, tasked, lost, resets, crew>>

\* A failed tool call of a running context.
ToolFailure(a) ==
  /\ recall[a].at = "none"
  /\ a \in Subs => life[a] = "started"
  /\ Recalled(a)
  /\ UNCHANGED <<known, sent, pending, holds, life, tasked, lost, resets, crew>>

\* agent_mut: a new entry past MAX_AGENTS evicts one subagent, never the main one.
Evictions(a) ==
  IF a \in known \/ Cardinality(known) < MaxAgents \/ known \subseteq {MainAgent}
  THEN {{}}
  ELSE {{v} : v \in known \ {MainAgent}}

\* mark_sent records what is kept, or the update is not applied.
MarkSent(a) ==
  /\ recall[a].at = "kept"
  /\ recall' = [recall EXCEPT ![a].at = "marked"]
  /\ \/ \E out \in Evictions(a) :
          /\ known' = (known \ out) \cup {a}
          /\ sent' = [b \in Contexts |->
                        IF b = a THEN sent[a] \cup recall[a].kept
                        ELSE IF b \in out THEN {} ELSE sent[b]]
          /\ forgotten' = (forgotten \cup out) \ {a}
     \/ Unmarked(a) /\ UNCHANGED <<known, sent>>
  /\ UNCHANGED <<pending, holds, life, tasked, lost, resets, crew>>

\* The hook prints the records into the context.
ShowRecords(a) ==
  /\ recall[a].at = "marked"
  /\ holds' = [holds EXCEPT ![a] = @ \cup recall[a].kept]
  /\ recall' = [recall EXCEPT ![a] = NoRecall]
  /\ UNCHANGED <<known, sent, pending, life, tasked, lost, forgotten, resets, crew>>

\* The engine kills the hook at its timeout.
KillHook(a) ==
  /\ recall[a].at # "none"
  /\ lost' = IF recall[a].at = "marked"
             THEN [lost EXCEPT ![a] = @ \cup (recall[a].kept \cap sent[a])] ELSE lost
  /\ Unmarked(a)
  /\ recall' = [recall EXCEPT ![a] = NoRecall]
  /\ UNCHANGED <<known, sent, pending, holds, life, tasked, resets, crew>>

\* Mutant: a new epoch keeps what was sent in the old one.
ResetLedgerKeepsSent ==
  /\ resets < MaxResets
  /\ resets' = resets + 1
  /\ recall[MainAgent].at = "none"
  /\ holds' = [holds EXCEPT ![MainAgent] = {}]
  /\ known' = {}
  /\ forgotten' = forgotten \cup (known \cap Subs)
  /\ UNCHANGED <<sent, lost, pending, recall, life, tasked, crew>>

\* SessionStart after a compaction or a clear: the main context is empty, and
\* the ledger starts a new epoch, for every context, or the update is not applied.
ResetLedger ==
  /\ resets < MaxResets
  /\ resets' = resets + 1
  /\ recall[MainAgent].at = "none"
  /\ holds' = [holds EXCEPT ![MainAgent] = {}]
  /\ \/ /\ known' = {}
        /\ sent' = [a \in Contexts |-> {}]
        /\ forgotten' = forgotten \cup (known \cap Subs)
        /\ lost' = [a \in Contexts |-> {}]
     \/ /\ lost' = [lost EXCEPT ![MainAgent] = sent[MainAgent]]
        /\ UNCHANGED <<known, sent, forgotten>>
  /\ UNCHANGED <<pending, recall, life, tasked, crew>>

LedgerNext ==
  \/ \E s \in Subs \cap crew :
       QueueSubagent(s) \/ DropSubagent(s) \/ StartSubagent(s) \/ SubagentRecall(s)
  \/ \E a \in crew : ToolFailure(a) \/ MarkSent(a) \/ ShowRecords(a) \/ KillHook(a)
  \/ ExpirePending \/ ResetLedger

LedgerSpec == LedgerInit /\ [][LedgerNext]_ledgerVars

-----------------------------------------------------------------------------
\* A record that recalls leave out as already sent is in the context or on its
\* way into it, unless its hook was killed before it printed or a reset was not
\* applied: no other way may hide a memory from an agent for good.
FilteredWasShown ==
  \A a \in Contexts :
    sent[a] \subseteq holds[a] \cup lost[a]
                      \cup (IF recall[a].at = "marked" THEN recall[a].kept ELSE {})

\* A queued task goes to one subagent at most.
TaskTakenOnce == \A s, t \in Subs : tasked[s] \cap tasked[t] # {} => s = t

\* "its task was taken at launch, and the queue now holds tasks for new siblings
\* only" (subagent.rs): a resumed subagent takes no second task, unless the
\* ledger lost its entry.
ResumedTakesNothing ==
  \A s \in Subs : tasked'[s] # tasked[s] /\ tasked[s] # {} => s \in forgotten

\* Tasks and subagents are matched one to one: no task goes to two, and none takes two.
TasksMatchSubagents == [][TaskTakenOnce' /\ ResumedTakesNothing]_ledgerVars
=============================================================================
