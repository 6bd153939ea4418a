-------------------------- MODULE ReadGuardsProofs --------------------------
(***************************************************************************)
(* What the two read guards deny and allow agrees with what each agent has *)
(* seen, for any set of agents and files and any TTL. The invariant is one *)
(* statement for each agent and file: PairInv.                             *)
(***************************************************************************)
EXTENDS ReadGuards, TLAPS

\* The agent has the file, or one of the two causes that excuse the guards.
Excused(a, f) == <<a, f>> \in unmade \/ a \in undone
Seen(a, f) == context[a][f] # Unseen \/ Excused(a, f)

\* The entry of one file in the cache of one agent, and its path in the log.
PairInv(a, f) ==
  LET e == readOnce[a][f] IN
  /\ f \in stats[a] => Seen(a, f)
  /\ e # NoEntry =>
       /\ Seen(a, f)
       /\ e.mtime <= e.at /\ e.at <= second
       /\ e.mtime = mtime[f] =>
            context[a][f] = version[f] \/ e.at = mtime[f] \/ Excused(a, f)

ReadInv ==
  /\ ReadTypeOK
  /\ \A f \in ReadFiles : mtime[f] <= second
  /\ \A a \in ReadAgents, f \in ReadFiles : PairInv(a, f)

\* A pair that a step leaves alone, but for an entry that may expire.
SamePair(a, f) ==
  /\ readOnce'[a][f] \in {readOnce[a][f], NoEntry}
  /\ f \in stats'[a] <=> f \in stats[a]
  /\ context'[a][f] = context[a][f]
  /\ <<a, f>> \in unmade' <=> <<a, f>> \in unmade
  /\ a \in undone' <=> a \in undone

LEMMA SamePairKeeps ==
  ASSUME NEW a \in ReadAgents, NEW f \in ReadFiles, PairInv(a, f), SamePair(a, f),
         second \in Nat, second' \in {second, second + 1}, readOnce[a][f] \in Entries,
         UNCHANGED <<version, mtime>>
  PROVE  PairInv(a, f)'
BY DEF PairInv, SamePair, Seen, Excused, Entries, NoEntry

-----------------------------------------------------------------------------
\* An update of one pair in a table of agents and files.
LEMMA UpdatePair ==
  ASSUME NEW R, NEW t \in [ReadAgents -> [ReadFiles -> R]],
         NEW a \in ReadAgents, NEW f \in ReadFiles, NEW v \in R, NEW u, u = [t EXCEPT ![a][f] = v]
  PROVE  /\ u \in [ReadAgents -> [ReadFiles -> R]]
         /\ u[a][f] = v
         /\ \A b \in ReadAgents, g \in ReadFiles : <<b, g>> # <<a, f>> => u[b][g] = t[b][g]
OBVIOUS

\* What a new record leaves in the read-once cache.
LEMMA RecordedEntry ==
  ASSUME ReadTypeOK, NEW a \in ReadAgents, NEW f \in ReadFiles,
         [mtime |-> mtime[f], at |-> second] \in Entries,
         RecordEntry(a, f) \/ UNCHANGED readOnce
  PROVE  /\ readOnce' \in [ReadAgents -> [ReadFiles -> Entries]]
         /\ \A b \in ReadAgents, g \in ReadFiles :
              \/ readOnce'[b][g] = readOnce[b][g]
              \/ readOnce'[b][g] = NoEntry
              \/ b = a /\ g = f /\ readOnce'[b][g] = [mtime |-> mtime[f], at |-> second]
<1> DEFINE new == [mtime |-> mtime[f], at |-> second]
           old == Pruned(readOnce[a])
<1>1. CASE UNCHANGED readOnce
  BY <1>1 DEF ReadTypeOK
<1>2. CASE RecordEntry(a, f) /\ readOnce' # readOnce
  <2>1. /\ old \in [ReadFiles -> Entries]
        /\ \A g \in ReadFiles : old[g] = readOnce[a][g] \/ old[g] = NoEntry
    BY DEF ReadTypeOK, Pruned, Entries
  <2>2. readOnce' = [readOnce EXCEPT ![a] = [old EXCEPT ![f] = new]]
    BY <1>2 DEF RecordEntry, AgentStateKey
  <2> HIDE DEF old, new
  <2>3. new \in Entries
    BY DEF new
  <2>4. /\ [old EXCEPT ![f] = new] \in [ReadFiles -> Entries]
        /\ [old EXCEPT ![f] = new][f] = new
        /\ \A g \in ReadFiles \ {f} : [old EXCEPT ![f] = new][g] = old[g]
    BY <2>1, <2>3
  <2>5. readOnce'[a] = [old EXCEPT ![f] = new] /\ \A b \in ReadAgents \ {a} : readOnce'[b] = readOnce[b]
    BY <2>2 DEF ReadTypeOK
  <2>6. readOnce' \in [ReadAgents -> [ReadFiles -> Entries]]
    BY <2>2, <2>4 DEF ReadTypeOK
  <2> QED
    BY <2>1, <2>4, <2>5, <2>6 DEF new
<1> QED
  BY <1>1, <1>2

\* A Read of any kind that runs or is stopped, with what the guards record of it.
LEMMA ReadStep ==
  ASSUME ReadInv, NEW a \in ReadAgents, NEW f \in ReadFiles,
         RecordPath(a, f),
         ReadRuns(a, f),
         RecordEntry(a, f) \/ UNCHANGED readOnce,
         UNCHANGED <<second, version, mtime, undone>>
  PROVE  ReadInv'
<1> DEFINE new == [mtime |-> mtime[f], at |-> second]
<1>0. /\ second \in Nat /\ mtime[f] \in 0 .. MaxSecond /\ version[f] \in 1 .. MaxVersion
      /\ second \in 0 .. MaxSecond /\ mtime[f] <= second
  BY ReadGuardsAssumption DEF ReadInv, ReadTypeOK
<1>1. new \in Entries /\ new # NoEntry /\ new.mtime = mtime[f] /\ new.at = second
  BY <1>0 DEF Entries, NoEntry
<1>2. /\ readOnce' \in [ReadAgents -> [ReadFiles -> Entries]]
      /\ \A b \in ReadAgents, g \in ReadFiles :
           \/ readOnce'[b][g] = readOnce[b][g]
           \/ readOnce'[b][g] = NoEntry
           \/ b = a /\ g = f /\ readOnce'[b][g] = new
  BY <1>1, RecordedEntry DEF ReadInv
<1>4. /\ stats' \in [ReadAgents -> SUBSET ReadFiles]
      /\ \A b \in ReadAgents, g \in ReadFiles : <<b, g>> # <<a, f>> => (g \in stats'[b] <=> g \in stats[b])
  BY DEF ReadInv, ReadTypeOK, RecordPath, AgentStateKey
<1>5. /\ context' \in [ReadAgents -> [ReadFiles -> Unseen .. MaxVersion]]
      /\ unmade' \subseteq ReadAgents \X ReadFiles
      /\ \A b \in ReadAgents, g \in ReadFiles :
           <<b, g>> # <<a, f>> => /\ context'[b][g] = context[b][g]
                                  /\ <<b, g>> \in unmade' <=> <<b, g>> \in unmade
  <2>1. context \in [ReadAgents -> [ReadFiles -> Unseen .. MaxVersion]] /\ version[f] \in Unseen .. MaxVersion
    BY <1>0 DEF ReadInv, ReadTypeOK, Unseen
  <2>2. CASE context' = [context EXCEPT ![a][f] = version[f]] /\ unmade' = unmade \ {<<a, f>>}
    BY <2>1, <2>2, UpdatePair DEF ReadInv, ReadTypeOK
  <2>3. CASE UNCHANGED context /\ unmade' = unmade \cup {<<a, f>>}
    BY <2>1, <2>3 DEF ReadInv, ReadTypeOK
  <2> QED
    BY <2>2, <2>3 DEF ReadRuns
<1>6. context'[a][f] = version[f] \/ <<a, f>> \in unmade'
  BY DEF ReadInv, ReadTypeOK, ReadRuns
<1>7. PairInv(a, f)'
  <2>1. Seen(a, f)' /\ (context'[a][f] = version'[f] \/ Excused(a, f)')
    BY <1>0, <1>6 DEF Seen, Excused, Unseen
  <2>2. CASE readOnce'[a][f] = new
    BY <1>0, <1>1, <2>1, <2>2 DEF PairInv
  <2>3. CASE readOnce'[a][f] = NoEntry
    BY <2>1, <2>3 DEF PairInv
  <2>4. CASE readOnce'[a][f] = readOnce[a][f]
    BY <2>1, <2>4 DEF PairInv, ReadInv
  <2> QED
    BY <1>2, <2>2, <2>3, <2>4
<1>8. ASSUME NEW b \in ReadAgents, NEW g \in ReadFiles, <<b, g>> # <<a, f>> PROVE PairInv(b, g)'
  <2>1. SamePair(b, g)
    BY <1>2, <1>4, <1>5, <1>8 DEF SamePair
  <2>2. readOnce[b][g] \in Entries /\ PairInv(b, g)
    BY DEF ReadInv, ReadTypeOK
  <2> QED
    BY <1>0, <2>1, <2>2, SamePairKeeps
<1>9. \A b \in ReadAgents, g \in ReadFiles : PairInv(b, g)'
  BY <1>7, <1>8
<1> QED
  BY <1>2, <1>4, <1>5, <1>9 DEF ReadInv, ReadTypeOK

\* A Read that is denied as a repeat counts as a read for the write guard.
LEMMA DeniedReadStep ==
  ASSUME ReadInv, NEW a \in ReadAgents, NEW f \in ReadFiles, IsHit(a, f), RecordPath(a, f),
         UNCHANGED <<second, version, mtime, readOnce, context, unmade, undone>>
  PROVE  ReadInv'
<1>1. stats' \in [ReadAgents -> SUBSET ReadFiles]
  BY DEF ReadInv, ReadTypeOK, RecordPath, AgentStateKey
<1>2. \A b \in ReadAgents, g \in ReadFiles : <<b, g>> # <<a, f>> => (g \in stats'[b] <=> g \in stats[b])
  BY DEF ReadInv, ReadTypeOK, RecordPath, AgentStateKey
<1>3. Seen(a, f)
  BY DEF ReadInv, PairInv, IsHit, AgentStateKey
<1>4. \A b \in ReadAgents, g \in ReadFiles : PairInv(b, g)'
  BY <1>2, <1>3 DEF ReadInv, PairInv, Seen, Excused
<1> QED
  BY <1>1, <1>4 DEF ReadInv, ReadTypeOK

\* A file gets new content, from an agent or from elsewhere.
LEMMA ContentStep ==
  ASSUME ReadInv, NEW f \in ReadFiles, NewContent(f),
         UNCHANGED <<second, readOnce, stats, unmade, undone>>,
         \/ UNCHANGED context
         \/ \E a \in ReadAgents : context' = [context EXCEPT ![a][f] = version'[f]]
  PROVE  ReadInv'
<1>0. /\ second \in Nat /\ second \in 0 .. MaxSecond
      /\ version[f] \in 1 .. MaxVersion /\ version'[f] = version[f] + 1 /\ version'[f] \in 1 .. MaxVersion
  BY ReadGuardsAssumption DEF ReadInv, ReadTypeOK, NewContent
<1>1. /\ version' \in [ReadFiles -> 1 .. MaxVersion] /\ mtime' \in [ReadFiles -> 0 .. MaxSecond]
      /\ mtime'[f] = second
      /\ \A g \in ReadFiles \ {f} : version'[g] = version[g] /\ mtime'[g] = mtime[g]
  BY <1>0 DEF ReadInv, ReadTypeOK, NewContent
<1>2. /\ context' \in [ReadAgents -> [ReadFiles -> Unseen .. MaxVersion]]
      /\ \A b \in ReadAgents, g \in ReadFiles :
           context'[b][g] = context[b][g] \/ (g = f /\ context'[b][g] = version'[f])
  <2>1. context \in [ReadAgents -> [ReadFiles -> Unseen .. MaxVersion]] /\ version'[f] \in Unseen .. MaxVersion
    BY <1>0 DEF ReadInv, ReadTypeOK, Unseen
  <2>2. ASSUME NEW a \in ReadAgents, context' = [context EXCEPT ![a][f] = version'[f]]
        PROVE  /\ context' \in [ReadAgents -> [ReadFiles -> Unseen .. MaxVersion]]
               /\ context'[a][f] = version'[f]
               /\ \A b \in ReadAgents, g \in ReadFiles :
                    <<b, g>> # <<a, f>> => context'[b][g] = context[b][g]
    BY <2>1, <2>2, UpdatePair
  <2> QED
    BY <2>1, <2>2
<1>3. ASSUME NEW b \in ReadAgents, NEW g \in ReadFiles PROVE PairInv(b, g)'
  <2>0. PairInv(b, g) /\ readOnce[b][g] \in Entries
    BY DEF ReadInv, ReadTypeOK
  <2>1. Seen(b, g) => Seen(b, g)'
    BY <1>0, <1>2 DEF Seen, Excused, Unseen
  <2>2. CASE g # f
    BY <1>1, <1>2, <2>0, <2>1, <2>2 DEF PairInv, Excused
  <2>3. CASE g = f
    BY <1>0, <1>1, <2>0, <2>1, <2>3 DEF PairInv, Entries
  <2> QED
    BY <2>2, <2>3
<1>4. \A g \in ReadFiles : mtime'[g] <= second'
  BY <1>0, <1>1 DEF ReadInv
<1> QED
  BY <1>1, <1>2, <1>3, <1>4 DEF ReadInv, ReadTypeOK

\* The main agent loses its context, and a reset removes its state, or part of it.
LEMMA LoseContextStep ==
  ASSUME ReadInv, LoseContext
  PROVE  ReadInv'
<1>0. MainReader \in ReadAgents /\ NoEntry \in Entries /\ second \in Nat
  BY ReadGuardsAssumption DEF Entries, ReadInv, ReadTypeOK
<1>1. /\ readOnce' \in [ReadAgents -> [ReadFiles -> Entries]]
      /\ stats' \in [ReadAgents -> SUBSET ReadFiles]
      /\ undone' \subseteq ReadAgents
  BY <1>0 DEF ReadInv, ReadTypeOK, LoseContext, ResetRead
<1>2. /\ context' \in [ReadAgents -> [ReadFiles -> Unseen .. MaxVersion]]
      /\ unmade' \subseteq ReadAgents \X ReadFiles
  BY <1>0, ReadGuardsAssumption DEF ReadInv, ReadTypeOK, LoseContext, Unseen
<1>3. ASSUME NEW f \in ReadFiles PROVE PairInv(MainReader, f)'
  <2>1. CASE MainReader \in undone'
    <3>1. readOnce'[MainReader][f] \in {readOnce[MainReader][f], NoEntry}
      BY <1>0 DEF ReadInv, ReadTypeOK, LoseContext, ResetRead
    <3>2. PairInv(MainReader, f) /\ second' = second
      BY <1>0 DEF ReadInv, LoseContext
    <3> QED
      BY <2>1, <3>1, <3>2 DEF PairInv, Seen, Excused
  <2>2. CASE MainReader \notin undone'
    <3>1. stats'[MainReader] = {} /\ readOnce'[MainReader][f] = NoEntry
      BY <1>0, <2>2 DEF ReadInv, ReadTypeOK, LoseContext, ResetRead
    <3> QED
      BY <3>1 DEF PairInv
  <2> QED
    BY <2>1, <2>2
<1>4. ASSUME NEW b \in ReadAgents \ {MainReader}, NEW f \in ReadFiles PROVE PairInv(b, f)'
  <2>1. SamePair(b, f)
    BY <1>0 DEF ReadInv, ReadTypeOK, LoseContext, ResetRead, SamePair
  <2> QED
    BY <1>0, <2>1, SamePairKeeps DEF ReadInv, ReadTypeOK, LoseContext
<1>5. \A b \in ReadAgents, f \in ReadFiles : PairInv(b, f)'
  BY <1>3, <1>4
<1> QED
  BY <1>1, <1>2, <1>5 DEF ReadInv, ReadTypeOK, LoseContext

\* Every step keeps the invariant.
LEMMA ReadInvStep ==
  ASSUME ReadInv, [ReadNext]_readVars
  PROVE  ReadInv'
<1>1. ASSUME NEW a \in ReadAgents, NEW f \in ReadFiles, ReadFile(a, f) PROVE ReadInv'
  <2>1. CASE IsHit(a, f)
    BY <1>1, <2>1, DeniedReadStep DEF ReadFile
  <2>2. CASE ~IsHit(a, f)
    BY <1>1, <2>2, ReadStep DEF ReadFile
  <2> QED
    BY <2>1, <2>2
<1>2. ASSUME NEW a \in ReadAgents, NEW f \in ReadFiles, ReadPart(a, f) PROVE ReadInv'
  BY <1>2, ReadStep DEF ReadPart
<1>3. ASSUME NEW a \in ReadAgents, NEW f \in ReadFiles, ShellRead(a, f) PROVE ReadInv'
  <2>1. ReadRuns(a, f)
    BY <1>3 DEF ShellRead, ReadRuns
  <2> QED
    BY <1>3, <2>1, ReadStep DEF ShellRead
<1>4. ASSUME NEW a \in ReadAgents, NEW f \in ReadFiles, WriteFile(a, f) PROVE ReadInv'
  BY <1>4, ContentStep DEF WriteFile
<1>5. ASSUME NEW f \in ReadFiles, ChangeFile(f) PROVE ReadInv'
  BY <1>5, ContentStep DEF ChangeFile
<1>6. CASE LoseContext
  BY <1>6, LoseContextStep
<1>7. CASE TickSecond \/ UNCHANGED readVars
  <2>1. second \in Nat /\ second' \in {second, second + 1} /\ second' \in 0 .. MaxSecond
    BY <1>7, ReadGuardsAssumption DEF TickSecond, readVars, ReadInv, ReadTypeOK
  <2>2. UNCHANGED <<version, mtime, readOnce, stats, context, unmade, undone>>
    BY <1>7 DEF TickSecond, readVars
  <2>3. ASSUME NEW b \in ReadAgents, NEW f \in ReadFiles PROVE PairInv(b, f)'
    BY <2>1, <2>2, SamePairKeeps DEF ReadInv, ReadTypeOK, SamePair
  <2>4. \A f \in ReadFiles : mtime'[f] <= second'
    BY <2>1, <2>2 DEF ReadInv, ReadTypeOK
  <2> QED
    BY <2>1, <2>2, <2>3, <2>4 DEF ReadInv, ReadTypeOK
<1> QED
  BY <1>1, <1>2, <1>3, <1>4, <1>5, <1>6, <1>7 DEF ReadNext

\* The invariant holds in every state of the guards.
THEOREM ReadInvariance == ReadSpec => []ReadInv
<1>1. ReadInit => ReadInv
  BY ReadGuardsAssumption
     DEF ReadInit, ReadInv, ReadTypeOK, PairInv, Seen, Excused, Entries, NoEntry, Unseen
<1>2. ReadInv /\ [ReadNext]_readVars => ReadInv'
  BY ReadInvStep
<1> QED
  BY <1>1, <1>2, PTL DEF ReadSpec

-----------------------------------------------------------------------------
\* The read-once deny never withholds a file that the agent has not seen.
THEOREM DeniedAlwaysSeen == ReadSpec => []DeniedWasSeen
<1>1. ReadInv => DeniedWasSeen
  BY DEF ReadInv, PairInv, Seen, Excused, DeniedWasSeen, IsHit, AgentStateKey
<1> QED
  BY <1>1, ReadInvariance, PTL

\* It withholds no newer content, but for a second change within one second.
THEOREM DeniedAlwaysCurrent == ReadSpec => []DeniedIsCurrent
<1>1. ReadInv => DeniedIsCurrent
  BY DEF ReadInv, PairInv, Excused, DeniedIsCurrent, IsHit, AgentStateKey
<1> QED
  BY <1>1, ReadInvariance, PTL

\* The write guard lets an agent replace only what it has seen in this context.
THEOREM WriteAlwaysSeen == ReadSpec => []WriteWasSeen
<1>1. ReadInv => WriteWasSeen
  BY DEF ReadInv, PairInv, Seen, Excused, WriteWasSeen, WriteAllowed, AgentStateKey
<1> QED
  BY <1>1, ReadInvariance, PTL

\* The recorded reads agree with the context, for any agents, files and times.
THEOREM GuardsAlwaysMatch == ReadSpec => []GuardsMatchContext
  BY DeniedAlwaysSeen, DeniedAlwaysCurrent, WriteAlwaysSeen, PTL DEF GuardsMatchContext
=============================================================================
