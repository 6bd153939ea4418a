--------------------------- MODULE TranscriptLink ---------------------------
(***************************************************************************)
(* The link from a session to its transcript in the memory server: the     *)
(* session map, the pending marker that guards a transcript start, and the *)
(* hooks that read, claim, record and clear it                             *)
(* (src/src/hook_run/transcript_link.rs, src/src/session_log/state.rs,     *)
(* state/link.rs, session_log/dispatch.rs).                                *)
(*                                                                         *)
(* Every write of the map is one read-modify-write under its lock, so it   *)
(* is one step; a write that cannot take the lock fails.                   *)
(***************************************************************************)
EXTENDS Integers, FiniteSets

CONSTANTS LinkHooks, Csids,
          MapCap,      \* MAX_CORRELATION_ENTRIES
          PendingTtl,  \* DEFAULT_PENDING_TTL_SECS
          MaxSeconds, MaxTranscripts, MaxFaults

ASSUME LinkAssumption == {MapCap, PendingTtl, MaxTranscripts} \subseteq Nat \ {0}
                         /\ {MaxSeconds, MaxFaults} \subseteq Nat

Ids == 1 .. MaxTranscripts
Missing == [is |-> "missing", of |-> 0]
Pending(t) == [is |-> "pending", of |-> t]
Linked(id) == [is |-> "linked", of |-> id]

VARIABLES sessionMap, \* session -> its entry, or Missing
          corrupt,    \* the map file does not parse
          icm,        \* transcripts that the server has
          nextId, linkClock,
          linker,     \* hook -> where it stands
          faults,     \* how many faults happened
          upsets      \* history: the kinds of faults that can cost a link

linkVars == <<sessionMap, corrupt, icm, nextId, linkClock, linker, faults, upsets>>

LinkIdle == [at |-> "idle", c |-> "none", seen |-> Missing, now |-> 0, id |-> 0]
LinkSteps == {"idle", "verify", "claim", "start", "record", "clear"}

LinkTypeOK ==
  /\ sessionMap \in [Csids -> [is : {"missing", "pending", "linked"}, of : 0 .. MaxSeconds + MaxTranscripts]]
  /\ corrupt \in BOOLEAN
  /\ icm \subseteq Ids
  /\ nextId \in 1 .. MaxTranscripts + 1
  /\ linkClock \in 0 .. MaxSeconds
  /\ \A h \in LinkHooks : linker[h].at \in LinkSteps
  /\ faults \in 0 .. MaxFaults
  /\ upsets \subseteq {"killed", "write failed", "reply lost", "expired", "evicted", "corrupt"}
  /\ Cardinality({c \in Csids : sessionMap[c] # Missing}) <= MapCap

LinkInit ==
  /\ sessionMap = [c \in Csids |-> Missing]
  /\ corrupt = FALSE
  /\ icm = {}
  /\ nextId = 1
  /\ linkClock = 0
  /\ linker = [h \in LinkHooks |-> LinkIdle]
  /\ faults = 0
  /\ upsets = {}

Fault(kind) == faults < MaxFaults /\ faults' = faults + 1 /\ upsets' = upsets \cup {kind}
NoFault == UNCHANGED <<faults, upsets>>

\* classify: an expired marker, and one dated in the future, is no entry.
Classify(v, now) == IF v.is = "pending" /\ now - v.of \notin 0 .. PendingTtl - 1 THEN Missing ELSE v

\* insert_capped: expired markers go, then the first other key when the map is full.
\* The keys are random session ids, so any may be the first.
InsertCapped(c, v, now) ==
  LET kept == [x \in Csids |-> IF x # c /\ Classify(sessionMap[x], now) = Missing
                               THEN Missing ELSE sessionMap[x]]
      full == kept[c] = Missing /\ Cardinality({x \in Csids : kept[x] # Missing}) >= MapCap
  IN IF corrupt THEN {[x \in Csids |-> IF x = c THEN v ELSE Missing]}
     ELSE IF ~full THEN {[kept EXCEPT ![c] = v]}
     ELSE {[kept EXCEPT ![c] = v, ![x] = Missing] : x \in {y \in Csids : kept[y] # Missing}}

\* A corrupt map is moved aside by the first write, and the map starts over.
PutEntry(c, v, now) ==
  /\ \E m \in InsertCapped(c, v, now) :
       /\ sessionMap' = m
       /\ upsets' = upsets \cup (IF corrupt THEN {"corrupt"} ELSE {})
                           \cup (IF ~corrupt /\ \E x \in Csids \ {c} :
                                      m[x] = Missing /\ Classify(sessionMap[x], now) # Missing
                                 THEN {"evicted"} ELSE {})
  /\ corrupt' = FALSE
  /\ UNCHANGED faults

-----------------------------------------------------------------------------
(* ensure_transcript_session of one hook.                                  *)

\* The link is read without the lock. Only SessionStart verifies a link.
ReadLink(h, c, verify) ==
  LET link == Classify(sessionMap[c], linkClock) IN
  /\ linker[h].at = "idle"
  /\ ~corrupt
  /\ \/ link.is = "linked" /\ verify /\ linker' = [linker EXCEPT ![h] = [LinkIdle EXCEPT
          !.at = "verify", !.c = c, !.seen = link, !.now = linkClock]]
     \/ link.is = "missing" /\ linker' = [linker EXCEPT ![h] = [LinkIdle EXCEPT
          !.at = "claim", !.c = c, !.now = linkClock]]
  /\ UNCHANGED <<sessionMap, corrupt, icm, nextId, linkClock>> /\ NoFault

\* Mutant: a server that cannot be reached counts as a lost transcript.
VerifyLinkUnreached(h) ==
  /\ linker[h].at = "verify"
  /\ linker' = [linker EXCEPT ![h].at = "claim"]
  /\ UNCHANGED <<sessionMap, corrupt, icm, nextId, linkClock>> /\ NoFault

\* cached_transcript_id: only an answer that the transcript is gone starts a new one;
\* a server that cannot be reached keeps the link.
VerifyLink(h) ==
  /\ linker[h].at = "verify"
  /\ \/ linker[h].seen.of \notin icm /\ linker' = [linker EXCEPT ![h].at = "claim"]
     \/ linker' = [linker EXCEPT ![h] = LinkIdle]
  /\ UNCHANGED <<sessionMap, corrupt, icm, nextId, linkClock>> /\ NoFault

\* Mutant: the entry is not read again under the lock.
ClaimPendingBlind(h) ==
  /\ linker[h].at = "claim"
  /\ linker' = [linker EXCEPT ![h].at = "start"]
  /\ PutEntry(linker[h].c, Pending(linker[h].now), linker[h].now)
  /\ UNCHANGED <<icm, nextId, linkClock>>

\* claim_pending_at: only when the entry is still what the hook read.
ClaimPending(h) ==
  LET r == linker[h]
      current == IF corrupt THEN Missing ELSE Classify(sessionMap[r.c], r.now)
  IN
  /\ r.at = "claim"
  /\ IF current # r.seen \/ current.is = "pending"
     THEN linker' = [linker EXCEPT ![h] = LinkIdle] /\ UNCHANGED <<sessionMap, corrupt>> /\ NoFault
     ELSE linker' = [linker EXCEPT ![h].at = "start"] /\ PutEntry(r.c, Pending(r.now), r.now)
  /\ UNCHANGED <<icm, nextId, linkClock>>

\* start_session: the server answers with a new id, or refuses.
StartTranscript(h) ==
  /\ linker[h].at = "start"
  /\ \/ /\ nextId <= MaxTranscripts
        /\ icm' = icm \cup {nextId}
        /\ nextId' = nextId + 1
        /\ linker' = [linker EXCEPT ![h].at = "record", ![h].id = nextId]
     \/ linker' = [linker EXCEPT ![h].at = "clear"] /\ UNCHANGED <<icm, nextId>>
  /\ UNCHANGED <<sessionMap, corrupt, linkClock>> /\ NoFault

\* The transcript starts, and the answer is lost.
LoseReply(h) ==
  /\ linker[h].at = "start" /\ nextId <= MaxTranscripts
  /\ icm' = icm \cup {nextId}
  /\ nextId' = nextId + 1
  /\ linker' = [linker EXCEPT ![h].at = "clear"]
  /\ Fault("reply lost")
  /\ UNCHANGED <<sessionMap, corrupt, linkClock>>

\* record_session_at.
RecordLink(h) ==
  /\ linker[h].at = "record"
  /\ PutEntry(linker[h].c, Linked(linker[h].id), linkClock)
  /\ linker' = [linker EXCEPT ![h] = LinkIdle]
  /\ UNCHANGED <<icm, nextId, linkClock>>

\* clear_pending_at: a marker goes, whoever wrote it; a link stays.
ClearPending(h) ==
  LET c == linker[h].c IN
  /\ linker[h].at = "clear"
  /\ sessionMap' = IF corrupt THEN [x \in Csids |-> Missing]
                   ELSE [sessionMap EXCEPT ![c] = IF @.is = "pending" THEN Missing ELSE @]
  /\ upsets' = upsets \cup (IF corrupt THEN {"corrupt"} ELSE {})
  /\ corrupt' = FALSE
  /\ linker' = [linker EXCEPT ![h] = LinkIdle]
  /\ UNCHANGED <<icm, nextId, linkClock, faults>>

\* A write that cannot take the lock or save the map: the hook gives up.
FailWrite(h) ==
  /\ linker[h].at \in {"claim", "record", "clear"}
  /\ Fault("write failed")
  /\ linker' = [linker EXCEPT ![h] = LinkIdle]
  /\ UNCHANGED <<sessionMap, corrupt, icm, nextId, linkClock>>

KillLinker(h) ==
  /\ linker[h].at \in {"start", "record", "clear"}
  /\ Fault("killed")
  /\ linker' = [linker EXCEPT ![h] = LinkIdle]
  /\ UNCHANGED <<sessionMap, corrupt, icm, nextId, linkClock>>

\* The server prunes a transcript.
PruneTranscript(id) ==
  /\ id \in icm /\ faults < MaxFaults /\ faults' = faults + 1
  /\ icm' = icm \ {id}
  /\ UNCHANGED <<sessionMap, corrupt, nextId, linkClock, linker, upsets>>

\* The map file is cut short or edited.
CorruptMap ==
  /\ ~corrupt /\ \E c \in Csids : sessionMap[c] # Missing
  /\ faults < MaxFaults /\ faults' = faults + 1
  /\ corrupt' = TRUE
  /\ UNCHANGED <<sessionMap, icm, nextId, linkClock, linker, upsets>>

\* A second passes; a marker may expire while its start still runs.
PassSecond ==
  /\ linkClock < MaxSeconds
  /\ linkClock' = linkClock + 1
  /\ upsets' = upsets \cup (IF \E h \in LinkHooks : linker[h].at # "idle"
                                  /\ linkClock + 1 - linker[h].now >= PendingTtl
                            THEN {"expired"} ELSE {})
  /\ UNCHANGED <<sessionMap, corrupt, icm, nextId, linker, faults>>

LinkNext ==
  \/ \E h \in LinkHooks :
       \/ \E c \in Csids, verify \in BOOLEAN : ReadLink(h, c, verify)
       \/ VerifyLink(h) \/ ClaimPending(h) \/ StartTranscript(h) \/ LoseReply(h) \/ RecordLink(h)
       \/ ClearPending(h) \/ FailWrite(h) \/ KillLinker(h)
  \/ \E id \in Ids : PruneTranscript(id)
  \/ CorruptMap \/ PassSecond

LinkSpec == LinkInit /\ [][LinkNext]_linkVars

-----------------------------------------------------------------------------
Starting(h) == linker[h].at \in {"start", "record", "clear"}

\* The pending marker: "Later events then see a start in progress and do not start a
\* second transcript" (state/link.rs). Two hooks start a transcript for one session
\* only after a marker expired during a start, was evicted, or went with a corrupt map.
OneStartPerSession ==
  (\E h, g \in LinkHooks : h # g /\ Starting(h) /\ Starting(g) /\ linker[h].c = linker[g].c)
    => upsets \cap {"expired", "evicted", "corrupt"} # {}

\* transcript_link.rs: "A transcript starts only when the map can record it, so no
\* transcript is left without a link." A transcript that the server has is named by the
\* map or by a hook about to record it, unless one of the faults happened.
OrphanNeedsFault ==
  upsets = {} /\ ~corrupt =>
    \A id \in icm : \/ \E c \in Csids : sessionMap[c] = Linked(id)
                    \/ \E h \in LinkHooks : linker[h].at = "record" /\ linker[h].id = id
=============================================================================
