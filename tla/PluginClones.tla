---------------------------- MODULE PluginClones ----------------------------
(***************************************************************************)
(* The shared clone of one git marketplace (src/src/plugins/cache.rs; the  *)
(* payload of an external plugin takes the same steps). `plugin sync`      *)
(* processes clone, pull or replace it, exports read it, and nothing locks *)
(* it. Git itself is outside the repository: a clone in progress is a      *)
(* folder with .git and no HEAD.                                           *)
(***************************************************************************)
EXTENDS Naturals

CONSTANTS Syncs,      \* processes that sync with refresh
          Readers,    \* exports, which use what is cloned
          Teams,      \* sets of processes that run beside each other
          Refs,       \* what the source can name: pins, or upstream heads
          MaxChanges, \* how often the source names another ref
          MaxDeaths   \* how often a process is killed

Procs == Syncs \cup Readers

ASSUME PluginClonesAssumption ==
  /\ Syncs \cap Readers = {} /\ Teams \subseteq SUBSET Procs
  /\ MaxChanges \in Nat /\ MaxDeaths \in Nat

NoRef == "none"
NoClone == [ref |-> NoRef, whole |-> FALSE, by |-> NoRef]
Whole(r) == [ref |-> r, whole |-> TRUE, by |-> NoRef]
Partial(r, p) == [ref |-> r, whole |-> FALSE, by |-> p]
Clones == {NoClone} \cup {Whole(r) : r \in Refs} \cup {Partial(r, p) : r \in Refs, p \in Syncs}

VARIABLES pinned,  \* whether the source has a pin
          named,   \* the ref that the source names now
          dest,    \* the clone at <cache_dir>/marketplaces/<name>
          staged,  \* sync -> <name>.<pid>.tmp
          backup,  \* sync -> <name>.<pid>.old
          team,    \* the processes that run
          proc,    \* process -> where it stands
          left,    \* a dead process left a whole clone under its own pid
          changes, deaths,
          had,     \* history: a whole clone was in place
          razed,   \* history: a whole clone was removed as a broken one
          adrift   \* history: a kill, a failed restore or a removal left no clone in place

cloneVars == <<pinned, named, dest, staged, backup, team, proc, left, changes, deaths, had, razed,
               adrift>>

ProcSteps == {"idle", "clone", "cloning", "staging", "aside", "swap", "drop", "pull",
              "check", "head", "nohead", "remove", "ok"}
IdleProc == [at |-> "idle", ref |-> NoRef, head |-> NoRef, alone |-> TRUE]

CloneTypeOK ==
  /\ pinned \in BOOLEAN
  /\ named \in Refs /\ team \in Teams
  /\ dest \in Clones
  /\ staged \in [Syncs -> Clones] /\ backup \in [Syncs -> Clones]
  /\ proc \in [Procs -> [at : ProcSteps, ref : Refs \cup {NoRef},
                         head : Refs \cup {NoRef}, alone : BOOLEAN]]
  /\ changes \in 0 .. MaxChanges /\ deaths \in 0 .. MaxDeaths
  /\ left \in BOOLEAN /\ had \in BOOLEAN /\ razed \in BOOLEAN /\ adrift \in BOOLEAN

CloneInit ==
  /\ pinned \in BOOLEAN
  /\ named \in Refs /\ team \in Teams
  /\ dest \in {NoClone} \cup {Whole(r) : r \in Refs}
  /\ staged = [p \in Syncs |-> NoClone]
  /\ backup = [p \in Syncs |-> NoClone]
  /\ proc = [p \in Procs |-> IdleProc]
  /\ left = FALSE /\ changes = 0 /\ deaths = 0
  /\ had = (dest # NoClone) /\ razed = FALSE /\ adrift = FALSE

-----------------------------------------------------------------------------
Busy(p) == proc[p].at \notin {"idle", "ok"}

\* A step of p that ends in `to`: the others that are running are not alone, and
\* a finished sync is forgotten.
GoTo(p, to) ==
  proc' = [q \in Procs |-> IF q = p THEN [to EXCEPT !.alone = @ /\ \A o \in Procs \ {p} : ~Busy(o)]
                           ELSE IF Busy(q) THEN [proc[q] EXCEPT !.alone = FALSE]
                           ELSE IdleProc]
Move(p, at) == GoTo(p, [proc[p] EXCEPT !.at = at])
Fail(p) == GoTo(p, IdleProc)

\* sync_git: .git says whether the marketplace is cloned. An export without a clone
\* ends with NotCloned. A new process has a new pid: what an earlier one left under
\* its own pid stays where it is.
BeginSync(p) ==
  /\ p \in team /\ ~Busy(p)
  /\ left' = (left \/ (p \in Syncs /\ (staged[p].whole \/ backup[p].whole)))
  /\ staged' = [q \in Syncs |-> IF q = p THEN NoClone ELSE staged[q]]
  /\ backup' = [q \in Syncs |-> IF q = p THEN NoClone ELSE backup[q]]
  /\ GoTo(p, [at |-> IF p \in Readers THEN (IF dest = NoClone THEN "idle" ELSE "check")
                     ELSE IF dest = NoClone THEN "clone"
                     ELSE IF pinned THEN "staging" ELSE "pull",
              ref |-> IF p \in Readers THEN NoRef ELSE named, head |-> NoRef, alone |-> TRUE])
  /\ UNCHANGED <<team, pinned, named, dest, changes, deaths, had, razed, adrift>>

\* git clone into place; it refuses a folder that is there.
StartClone(p) ==
  /\ proc[p].at = "clone"
  /\ IF dest = NoClone THEN dest' = Partial(proc[p].ref, p) /\ Move(p, "cloning")
                       ELSE Fail(p) /\ UNCHANGED dest
  /\ UNCHANGED <<team, left, pinned, named, staged, backup, changes, deaths, had, razed, adrift>>

EndClone(p) ==
  /\ proc[p].at = "cloning"
  /\ dest = Partial(proc[p].ref, p)
  /\ dest' = Whole(proc[p].ref)
  /\ had' = TRUE
  /\ adrift' = FALSE
  /\ Move(p, "check")
  /\ UNCHANGED <<team, left, pinned, named, staged, backup, changes, deaths, razed>>

\* git clone fails, and removes what it made.
FailClone(p) ==
  /\ proc[p].at = "cloning"
  /\ dest' = IF dest = Partial(proc[p].ref, p) THEN NoClone ELSE dest
  /\ Fail(p)
  /\ UNCHANGED <<team, left, pinned, named, staged, backup, changes, deaths, had, razed, adrift>>

\* git_pull: fetch and reset --hard. Without a whole clone it fails.
PullClone(p) ==
  /\ proc[p].at = "pull"
  /\ \/ dest.whole /\ dest' = Whole(named) /\ Move(p, "check")
     \/ Fail(p) /\ UNCHANGED dest
  /\ UNCHANGED <<team, left, pinned, named, staged, backup, changes, deaths, had, razed, adrift>>

\* reclone_staged: a clone beside the one in place, under the pid of the sync.
CloneStaged(p) ==
  /\ proc[p].at = "staging"
  /\ \/ staged' = [staged EXCEPT ![p] = Whole(proc[p].ref)] /\ Move(p, "aside")
     \/ staged' = [staged EXCEPT ![p] = NoClone] /\ Fail(p)
  /\ UNCHANGED <<team, left, pinned, named, dest, backup, changes, deaths, had, razed, adrift>>

\* Mutant: the clone in place is removed.
MoveAsideRemoves(p) ==
  /\ proc[p].at = "aside"
  /\ dest' = NoClone
  /\ IF dest = NoClone THEN staged' = [staged EXCEPT ![p] = NoClone] /\ Fail(p)
                       ELSE UNCHANGED staged /\ Move(p, "swap")
  /\ UNCHANGED <<team, left, pinned, named, backup, changes, deaths, had, razed, adrift>>

\* swap_in: the clone in place moves aside.
MoveAside(p) ==
  /\ proc[p].at = "aside"
  /\ backup' = [backup EXCEPT ![p] = dest]
  /\ dest' = NoClone
  /\ IF dest = NoClone THEN staged' = [staged EXCEPT ![p] = NoClone] /\ Fail(p)
                       ELSE UNCHANGED staged /\ Move(p, "swap")
  /\ UNCHANGED <<team, left, pinned, named, changes, deaths, had, razed, adrift>>

\* swap_in: the new clone moves in; else the old one is put back, when nothing
\* is in the way, and the new one is removed.
SwapIn(p) ==
  /\ proc[p].at = "swap"
  /\ staged' = [staged EXCEPT ![p] = NoClone]
  /\ \/ /\ dest = NoClone
        /\ dest' = staged[p]
        /\ Move(p, "drop")
        /\ had' = TRUE /\ adrift' = FALSE
        /\ UNCHANGED backup
     \/ /\ Fail(p)
        /\ dest' = IF dest = NoClone THEN backup[p] ELSE dest
        /\ backup' = [backup EXCEPT ![p] = IF dest = NoClone THEN NoClone ELSE @]
        /\ adrift' = (adrift \/ dest # NoClone \/ ~backup[p].whole)
        /\ UNCHANGED had
  /\ UNCHANGED <<team, left, pinned, named, changes, deaths, razed>>

DropBackup(p) ==
  /\ proc[p].at = "drop"
  /\ backup' = [backup EXCEPT ![p] = NoClone]
  /\ Move(p, "check")
  /\ UNCHANGED <<team, left, pinned, named, dest, staged, changes, deaths, had, razed, adrift>>

\* require_git_dir.
CheckGit(p) ==
  /\ proc[p].at = "check"
  /\ IF dest = NoClone THEN Fail(p) ELSE Move(p, "head")
  /\ UNCHANGED <<team, left, pinned, named, dest, staged, backup, changes, deaths, had, razed, adrift>>

\* git rev-parse HEAD.
ReadHead(p) ==
  /\ proc[p].at = "head"
  /\ IF dest.whole THEN GoTo(p, [proc[p] EXCEPT !.at = "ok", !.head = dest.ref])
                   ELSE Move(p, "nohead")
  /\ UNCHANGED <<team, left, pinned, named, dest, staged, backup, changes, deaths, had, razed, adrift>>

\* Without a HEAD, the clone is broken when .git is there; else the sync is fine.
CheckBroken(p) ==
  /\ proc[p].at = "nohead"
  /\ IF dest = NoClone THEN Move(p, "ok") ELSE Move(p, "remove")
  /\ UNCHANGED <<team, left, pinned, named, dest, staged, backup, changes, deaths, had, razed, adrift>>

\* Mutant: the broken clone stays in place.
RemoveBrokenKeeps(p) ==
  /\ proc[p].at = "remove"
  /\ Fail(p)
  /\ UNCHANGED <<team, left, pinned, named, dest, staged, backup, changes, deaths, had, razed, adrift>>

\* broken_clone_note removes whatever is in place by now.
RemoveBroken(p) ==
  /\ proc[p].at = "remove"
  /\ dest' = NoClone
  /\ razed' = (razed \/ dest.whole)
  /\ adrift' = TRUE
  /\ Fail(p)
  /\ UNCHANGED <<team, left, pinned, named, staged, backup, changes, deaths, had>>

\* The process is killed. A clone in progress, a staged one and a backup stay.
KillProc(p) ==
  /\ Busy(p)
  /\ deaths < MaxDeaths
  /\ deaths' = deaths + 1
  /\ adrift' = (adrift \/ proc[p].at = "swap")
  /\ Fail(p)
  /\ UNCHANGED <<team, left, pinned, named, dest, staged, backup, changes, had, razed>>

ChangeRef(r) ==
  /\ r # named
  /\ changes < MaxChanges
  /\ changes' = changes + 1
  /\ named' = r
  /\ proc' = [p \in Procs |-> IF Busy(p) THEN [proc[p] EXCEPT !.alone = FALSE] ELSE IdleProc]
  /\ UNCHANGED <<team, left, pinned, dest, staged, backup, deaths, had, razed, adrift>>

SyncStep(p) ==
  \/ StartClone(p) \/ EndClone(p) \/ FailClone(p) \/ PullClone(p) \/ CloneStaged(p)
  \/ MoveAside(p) \/ SwapIn(p) \/ DropBackup(p)

CheckStep(p) == CheckGit(p) \/ ReadHead(p) \/ CheckBroken(p) \/ RemoveBroken(p)

CloneNext ==
  \/ \E p \in Procs : BeginSync(p) \/ CheckStep(p) \/ KillProc(p)
  \/ \E p \in Syncs : SyncStep(p)
  \/ \E r \in Refs : ChangeRef(r)

CloneSpec == CloneInit /\ [][CloneNext]_cloneVars

\* Users run exports and syncs again and again, and a started process goes on;
\* git succeeds now and then.
FairCloneSpec ==
  /\ CloneSpec
  /\ \A p \in Procs : WF_cloneVars(BeginSync(p)) /\ WF_cloneVars(CheckStep(p))
  /\ \A p \in Syncs :
       /\ WF_cloneVars(SyncStep(p))
       /\ SF_cloneVars(EndClone(p))
       /\ SF_cloneVars(CloneStaged(p) /\ staged'[p] # NoClone)
       /\ SF_cloneVars(SwapIn(p) /\ proc'[p].at = "drop")

-----------------------------------------------------------------------------
\* A clone that was in place is not lost by syncs that replace it, in any
\* interleaving, with kills and failed renames: a whole copy stays in place, aside
\* or staged, also under the pid of a dead process, unless an export or a sync took
\* it for a broken clone.
SomeCloneKept ==
  had /\ ~razed => \/ dest.whole \/ left
                   \/ \E p \in Syncs : backup[p].whole \/ staged[p].whole

\* An export finds a clone that was in place, except during the two renames of a
\* swap, or after a kill between them, a failed restore or a removal.
DestStaysCloned ==
  had /\ ~dest.whole => adrift \/ \E p \in Syncs : proc[p].at = "swap"

\* "A refresh always converges to exactly what the pin specifies" (cache.rs): a
\* sync that had no other process beside it reports the ref of its source.
AloneSyncConverges ==
  \A p \in Syncs :
    proc[p].at = "ok" /\ proc[p].alone
      => proc[p].head = proc[p].ref /\ dest = Whole(proc[p].ref)

\* "Clean up on error so the next invocation retries the clone" (cache.rs): a
\* broken clone does not stay in place for ever.
BrokenCloneHeals == []<>(dest.whole)

\* Syncs keep the clone: a whole copy stays, it is in place but during a swap, and a sync
\* alone brings the ref it was given.
ClonesKept == SomeCloneKept /\ DestStaysCloned /\ AloneSyncConverges
=============================================================================
