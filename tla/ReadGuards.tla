----------------------------- MODULE ReadGuards -----------------------------
(***************************************************************************)
(* The two PreToolUse guards that remember what an agent has read: the     *)
(* read-once cache, which denies the repeat of a Read                      *)
(* (src/src/hook_run/read_once.rs), and the read-before-write record,      *)
(* which denies a Write over a file that was not read                      *)
(* (src/src/hook_run/slippage.rs), with the reset after a compaction       *)
(* (src/src/hook_run/session_state.rs).                                    *)
(*                                                                         *)
(* context is what the model really has seen; the hooks cannot read it.    *)
(* Both guards record a Read before the tool runs.                         *)
(***************************************************************************)
EXTENDS Integers, FiniteSets

CONSTANTS ReadAgents, MainReader, ReadFiles,
          TtlSeconds,  \* read_once.ttl_seconds
          MaxSecond,   \* bound on the clock
          MaxVersion   \* bound on how often a file changes

ASSUME ReadGuardsAssumption ==
  /\ MainReader \in ReadAgents
  /\ TtlSeconds \in Nat /\ MaxSecond \in Nat /\ MaxVersion \in Nat \ {0}

Unseen == 0
NoEntry == [mtime |-> -1, at |-> -1]

VARIABLES second,   \* the clock, in whole seconds
          version,  \* file -> its content
          mtime,    \* file -> the second of its last change
          readOnce, \* agent -> file -> entry of the agent's read-once cache
          stats,    \* agent -> paths of the agent's slippage stats log
          context,  \* agent -> file -> the content the model holds
          unmade,   \* history: recorded reads whose tool call did not run
          undone    \* history: agents whose state a reset did not remove in full

readVars == <<second, version, mtime, readOnce, stats, context, unmade, undone>>

Entries == [mtime : 0 .. MaxSecond, at : 0 .. MaxSecond] \cup {NoEntry}

ReadTypeOK ==
  /\ second \in 0 .. MaxSecond
  /\ version \in [ReadFiles -> 1 .. MaxVersion]
  /\ mtime \in [ReadFiles -> 0 .. MaxSecond]
  /\ readOnce \in [ReadAgents -> [ReadFiles -> Entries]]
  /\ stats \in [ReadAgents -> SUBSET ReadFiles]
  /\ context \in [ReadAgents -> [ReadFiles -> Unseen .. MaxVersion]]
  /\ unmade \subseteq ReadAgents \X ReadFiles
  /\ undone \subseteq ReadAgents

ReadInit ==
  /\ second = 0
  /\ version = [f \in ReadFiles |-> 1]
  /\ mtime = [f \in ReadFiles |-> 0]
  /\ readOnce = [a \in ReadAgents |-> [f \in ReadFiles |-> NoEntry]]
  /\ stats = [a \in ReadAgents |-> {}]
  /\ context = [a \in ReadAgents |-> [f \in ReadFiles |-> Unseen]]
  /\ unmade = {}
  /\ undone = {}

\* agent_state_key: each agent of a session has state files of its own.
AgentStateKey(a) == a

WithinTtl(e) == second - e.at < TtlSeconds

\* SessionCache::load drops the expired entries.
Pruned(cache) == [f \in ReadFiles |-> IF WithinTtl(cache[f]) THEN cache[f] ELSE NoEntry]

\* A repeat of a Read: the same modified time, and within the TTL.
IsHit(a, f) ==
  LET e == readOnce[AgentStateKey(a)][f]
  IN e # NoEntry /\ WithinTtl(e) /\ e.mtime = mtime[f]

\* The stats log records the path, unless its lock, its read or its save fails.
RecordPath(a, f) ==
  stats' = [stats EXCEPT ![AgentStateKey(a)] = @ \cup {f}] \/ UNCHANGED stats

\* The cache gets the entry, unless its read or its save fails.
RecordEntry(a, f) ==
  \/ readOnce' = [readOnce EXCEPT ![AgentStateKey(a)] =
                    [Pruned(@) EXCEPT ![f] = [mtime |-> mtime[f], at |-> second]]]
  \/ UNCHANGED readOnce

\* The Read tool runs, or the user or another hook stops it.
ReadRuns(a, f) ==
  \/ /\ context' = [context EXCEPT ![a][f] = version[f]]
     /\ unmade' = unmade \ {<<a, f>>}
  \/ /\ unmade' = unmade \cup {<<a, f>>}
     /\ UNCHANGED context

\* A whole-file Read in deny mode: the write guard records it, then the cache
\* denies a repeat and records a miss.
ReadFile(a, f) ==
  /\ RecordPath(a, f)
  /\ IF IsHit(a, f)
     THEN UNCHANGED <<readOnce, context, unmade>>
     ELSE RecordEntry(a, f) /\ ReadRuns(a, f)
  /\ UNCHANGED <<second, version, mtime, undone>>

\* A Read with an offset or a limit never meets the cache, but counts as a read.
ReadPart(a, f) ==
  /\ RecordPath(a, f)
  /\ ReadRuns(a, f)
  /\ UNCHANGED <<second, version, mtime, readOnce, undone>>

\* A shell command that prints a file is recorded after it ran.
ShellRead(a, f) ==
  /\ RecordPath(a, f)
  /\ context' = [context EXCEPT ![a][f] = version[f]]
  /\ unmade' = unmade \ {<<a, f>>}
  /\ UNCHANGED <<second, version, mtime, readOnce, undone>>

WriteAllowed(a, f) == f \in stats[AgentStateKey(a)]

NewContent(f) ==
  /\ version[f] < MaxVersion
  /\ version' = [version EXCEPT ![f] = @ + 1]
  /\ mtime' = [mtime EXCEPT ![f] = second]

\* A Write over an existing file goes through only when the file was read.
WriteFile(a, f) ==
  /\ WriteAllowed(a, f)
  /\ NewContent(f)
  /\ context' = [context EXCEPT ![a][f] = version'[f]]
  /\ UNCHANGED <<second, readOnce, stats, unmade, undone>>

\* An editor, a build or another agent changes the file.
ChangeFile(f) == NewContent(f) /\ UNCHANGED <<second, readOnce, stats, context, unmade, undone>>

\* Mutant: the stats log outlives the context.
ResetReadCacheOnly(a) ==
  /\ readOnce' = [readOnce EXCEPT ![a] = [f \in ReadFiles |-> NoEntry]]
  /\ undone' = undone \ {a}
  /\ UNCHANGED stats

\* reset_read_state: the state files of the main agent go, each on its own.
ResetRead(a) ==
  \E cacheGone, statsGone \in BOOLEAN :
    /\ readOnce' = IF cacheGone
                   THEN [readOnce EXCEPT ![a] = [f \in ReadFiles |-> NoEntry]] ELSE readOnce
    /\ stats' = IF statsGone THEN [stats EXCEPT ![a] = {}] ELSE stats
    /\ undone' = IF cacheGone /\ statsGone THEN undone \ {a} ELSE undone \cup {a}

\* A compaction, a clear or a startup empties the context of the main agent.
LoseContext ==
  /\ context' = [context EXCEPT ![MainReader] = [f \in ReadFiles |-> Unseen]]
  /\ unmade' = {p \in unmade : p[1] # MainReader}
  /\ ResetRead(MainReader)
  /\ UNCHANGED <<second, version, mtime>>

TickSecond ==
  /\ second < MaxSecond
  /\ second' = second + 1
  /\ UNCHANGED <<version, mtime, readOnce, stats, context, unmade, undone>>

ReadNext ==
  \/ \E a \in ReadAgents, f \in ReadFiles :
       ReadFile(a, f) \/ ReadPart(a, f) \/ ShellRead(a, f) \/ WriteFile(a, f)
  \/ \E f \in ReadFiles : ChangeFile(f)
  \/ LoseContext \/ TickSecond

ReadSpec == ReadInit /\ [][ReadNext]_readVars

-----------------------------------------------------------------------------
\* "deny can never starve the agent of a file it lacks"
\* (docs/design/issue-318-read-once-hook.md): a Read that would be denied is of
\* a file the agent has seen, unless its recorded read never ran or a reset failed.
DeniedWasSeen ==
  \A a \in ReadAgents, f \in ReadFiles :
    IsHit(a, f) => \/ context[a][f] # Unseen
                   \/ <<a, f>> \in unmade
                   \/ a \in undone

\* A denied Read is of content the agent holds, unless the file changed again
\* within the second of the change that the cache recorded.
DeniedIsCurrent ==
  \A a \in ReadAgents, f \in ReadFiles :
    IsHit(a, f) => \/ context[a][f] = version[f]
                   \/ readOnce[AgentStateKey(a)][f].at = mtime[f]
                   \/ <<a, f>> \in unmade
                   \/ a \in undone

\* unread_write_deny: a Write that passes replaces a file the agent has seen in
\* this context, also when its last Read was denied as a repeat.
WriteWasSeen ==
  \A a \in ReadAgents, f \in ReadFiles :
    WriteAllowed(a, f) => \/ context[a][f] # Unseen
                          \/ <<a, f>> \in unmade
                          \/ a \in undone

\* What the guards recorded agrees with what the agent has: a denied Read is of content it
\* holds, and a Write that passes is over a file it has seen.
GuardsMatchContext == DeniedWasSeen /\ DeniedIsCurrent /\ WriteWasSeen
=============================================================================
