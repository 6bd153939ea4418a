------------------------------ MODULE McpProxy ------------------------------
(***************************************************************************)
(* The start of the shared memory proxy by every `llmenv export` and every *)
(* session start (src/crates/llmenv-mcp/src/proxy.rs, proxy/lockfile.rs,   *)
(* proxy/state_files.rs), and the restart that stops it by its pidfile     *)
(* (proxy_ops.rs).                                                         *)
(*                                                                         *)
(* Liveness of the proxy is the port, the pidfile says whom to signal, and *)
(* the lock file, which holds the pid of its taker, picks one spawner. An  *)
(* export can be killed at every step, with its lock in place.             *)
(***************************************************************************)
EXTENDS Integers, FiniteSets

CONSTANTS Exports,     \* concurrent llmenv processes
          MaxSpawns,   \* bound on the proxies that are ever spawned
          MaxKills     \* bound on the exports that are killed

Spawns == 1 .. MaxSpawns
NoProxy == 0
NoTaker == "nobody"

ASSUME McpProxyAssumption == MaxSpawns \in Nat /\ MaxKills \in Nat /\ NoTaker \notin Exports

VARIABLES export,   \* export -> where it stands
          mine,     \* export -> the proxy it spawned
          epoch,    \* export -> how often its process was replaced after a kill
          lockFile, \* the taker the lock file names, with its epoch, or nobody
          proxyOf,  \* proxy -> unborn, starting, serving, dead
          pidFile,  \* the proxy that the pidfile names
          target,   \* the proxy that a restart read from the pidfile
          kills,
          astray,   \* history: proxies that their export left running
          double    \* history: a lock was removed while its taker was alive

proxyVars == <<export, mine, epoch, lockFile, proxyOf, pidFile, target, kills, astray, double>>

ExportSteps == {"idle", "unserved", "locked", "spawn", "spawned", "bound", "publish",
                "beaten", "adopt", "reclaim", "stale", "removed"}
NoLock == [by |-> NoTaker, epoch |-> 0]
Takers == [by : Exports, epoch : 0 .. MaxKills]

ProxyTypeOK ==
  /\ export \in [Exports -> ExportSteps]
  /\ mine \in [Exports -> Spawns \cup {NoProxy}]
  /\ epoch \in [Exports -> 0 .. MaxKills]
  /\ lockFile \in Takers \cup {NoLock}
  /\ proxyOf \in [Spawns -> {"unborn", "starting", "serving", "dead"}]
  /\ pidFile \in Spawns \cup {NoProxy}
  /\ target \in Spawns \cup {NoProxy}
  /\ kills \in 0 .. MaxKills
  /\ astray \subseteq Spawns
  /\ double \in BOOLEAN

\* An earlier export may have died with the lock.
ProxyInit ==
  /\ export = [e \in Exports |-> "idle"]
  /\ mine = [e \in Exports |-> NoProxy]
  /\ epoch \in [Exports -> {0, IF MaxKills > 0 THEN 1 ELSE 0}]
  /\ lockFile \in {NoLock} \cup {[by |-> e, epoch |-> 0] : e \in {x \in Exports : epoch[x] = 1}}
  /\ proxyOf = [p \in Spawns |-> "unborn"]
  /\ pidFile = NoProxy
  /\ target = NoProxy
  /\ astray = {}
  /\ kills = IF \E e \in Exports : epoch[e] = 1 THEN 1 ELSE 0
  /\ double = FALSE

Serving == \E p \in Spawns : proxyOf[p] = "serving"
Dead(p) == p = NoProxy \/ proxyOf[p] = "dead"

\* The lock names a process that no longer runs.
HolderGone == lockFile # NoLock /\ epoch[lockFile.by] # lockFile.epoch
HolderAlive == lockFile # NoLock /\ ~HolderGone

Goto(e, step) == export' = [export EXCEPT ![e] = step]

\* reconcile_pidfile: a pidfile that names a dead process is removed.
Reconcile == pidFile' = IF Dead(pidFile) THEN NoProxy ELSE pidFile

-----------------------------------------------------------------------------
(* ensure_running_within.                                                  *)

\* The fast path: a served port needs no more.
ProbePort(e) ==
  /\ export[e] = "idle"
  /\ ~Serving
  /\ Goto(e, "unserved")
  /\ UNCHANGED <<mine, epoch, lockFile, proxyOf, pidFile, target, kills, astray, double>>

\* Mutant: the lock file of another export is written over.
TryLockFileOver(e, next, beaten) ==
  /\ lockFile' = [by |-> e, epoch |-> epoch[e]]
  /\ Goto(e, next)
  /\ UNCHANGED <<mine, epoch, proxyOf, pidFile, target, kills, astray, double>>

\* try_lock links a file that already holds the pid: the lock is never empty.
TryLockFile(e, next, beaten) ==
  /\ IF lockFile = NoLock
     THEN lockFile' = [by |-> e, epoch |-> epoch[e]] /\ Goto(e, next)
     ELSE Goto(e, beaten) /\ UNCHANGED lockFile
  /\ UNCHANGED <<mine, epoch, proxyOf, pidFile, target, kills, astray, double>>

TryProxyLock(e) == export[e] = "unserved" /\ TryLockFile(e, "locked", "beaten")

\* release_lock removes whatever lock is there.
ReleaseProxyLock(e) ==
  /\ lockFile' = NoLock
  /\ double' = (double \/ (HolderAlive /\ lockFile.by # e))

EndSpawn(e) ==
  /\ ReleaseProxyLock(e)
  /\ Goto(e, "idle")
  /\ mine' = [mine EXCEPT ![e] = NoProxy]

\* spawn_and_publish: a port that is served by now is taken over.
ProbeUnderLock(e) ==
  /\ export[e] = "locked"
  /\ IF Serving
     THEN Reconcile /\ EndSpawn(e)
     ELSE Goto(e, "spawn") /\ UNCHANGED <<mine, lockFile, pidFile, double>>
  /\ UNCHANGED <<epoch, proxyOf, target, kills, astray>>

\* The spawn works, or fails.
SpawnProxy(e) ==
  /\ export[e] = "spawn"
  /\ \/ \E p \in Spawns :
          /\ proxyOf[p] = "unborn" /\ \A q \in 1 .. p - 1 : proxyOf[q] # "unborn"
          /\ proxyOf' = [proxyOf EXCEPT ![p] = "starting"]
          /\ mine' = [mine EXCEPT ![e] = p]
          /\ Goto(e, "spawned")
          /\ UNCHANGED <<lockFile, double>>
     \/ EndSpawn(e) /\ UNCHANGED proxyOf
  /\ UNCHANGED <<epoch, pidFile, target, kills, astray>>

\* wait_for_bind: something serves the port.
SeeBound(e) ==
  /\ export[e] = "spawned"
  /\ Serving
  /\ Goto(e, "bound")
  /\ UNCHANGED <<mine, epoch, lockFile, proxyOf, pidFile, target, kills, astray, double>>

\* The child exits before the port is served.
SeeExit(e) ==
  /\ export[e] = "spawned"
  /\ proxyOf[mine[e]] = "dead"
  /\ EndSpawn(e)
  /\ UNCHANGED <<epoch, proxyOf, pidFile, target, kills, astray>>

\* The budget runs out, or the child's status cannot be read. reap kills the
\* child, or reports that it cannot.
GiveUpChild(e) ==
  /\ export[e] \in {"spawned", "bound"}
  /\ \/ proxyOf' = [proxyOf EXCEPT ![mine[e]] = "dead"] /\ UNCHANGED astray
     \/ astray' = astray \cup {mine[e]} /\ UNCHANGED proxyOf
  /\ EndSpawn(e)
  /\ UNCHANGED <<epoch, pidFile, target, kills>>

\* A child that died into a served port is not published.
CheckChild(e) ==
  /\ export[e] = "bound"
  /\ IF proxyOf[mine[e]] = "dead"
     THEN Reconcile /\ EndSpawn(e)
     ELSE Goto(e, "publish") /\ UNCHANGED <<mine, lockFile, pidFile, double>>
  /\ UNCHANGED <<epoch, proxyOf, target, kills, astray>>

\* write_pidfile_atomic, which can fail, and the release.
Publish(e) ==
  /\ export[e] = "publish"
  /\ pidFile' \in {mine[e], pidFile}
  /\ EndSpawn(e)
  /\ UNCHANGED <<epoch, proxyOf, target, kills, astray>>

-----------------------------------------------------------------------------
(* adopt_or_reclaim.                                                       *)

\* A holder that is alive is waited for, and so is one whose pid another process
\* has by now or whose state cannot be told. A lock that cannot be read ends the
\* export.
HolderLives(e) ==
  /\ export[e] = "beaten"
  /\ lockFile # NoLock
  /\ \E step \in {"adopt", "idle"} : Goto(e, step)
  /\ UNCHANGED <<mine, epoch, lockFile, proxyOf, pidFile, target, kills, astray, double>>

\* Mutant: only a lock that is gone is reclaimed.
HolderIsGoneNoLock(e) ==
  /\ export[e] = "beaten"
  /\ lockFile = NoLock
  /\ Goto(e, "reclaim")
  /\ UNCHANGED <<mine, epoch, lockFile, proxyOf, pidFile, target, kills, astray, double>>

\* A lock that is gone, or that names a dead process, is not waited for.
HolderIsGone(e) ==
  /\ export[e] = "beaten"
  /\ ~HolderAlive
  /\ Goto(e, "reclaim")
  /\ UNCHANGED <<mine, epoch, lockFile, proxyOf, pidFile, target, kills, astray, double>>

\* wait_for_port: the port is served, or the wait ends with an error.
WaitForPort(e) ==
  /\ export[e] = "adopt"
  /\ IF Serving THEN Reconcile ELSE UNCHANGED pidFile
  /\ Goto(e, "idle")
  /\ UNCHANGED <<mine, epoch, lockFile, proxyOf, target, kills, astray, double>>

\* The proxy may have outlived the holder.
ProbeStale(e) ==
  /\ export[e] = "reclaim"
  /\ IF Serving THEN Reconcile /\ Goto(e, "idle") ELSE Goto(e, "stale") /\ UNCHANGED pidFile
  /\ UNCHANGED <<mine, epoch, lockFile, proxyOf, target, kills, astray, double>>

\* The lock file is removed by its name, whoever it names by now.
RemoveStale(e) ==
  /\ export[e] = "stale"
  /\ lockFile' = NoLock
  /\ double' = (double \/ HolderAlive)
  /\ Goto(e, "removed")
  /\ UNCHANGED <<mine, epoch, proxyOf, pidFile, target, kills, astray>>

\* One retry: the loser ends with an error.
RetryProxyLock(e) == export[e] = "removed" /\ TryLockFile(e, "locked", "idle")

-----------------------------------------------------------------------------
(* The proxies, the restart, and kills.                                    *)

\* A proxy opens the port, or exits when another serves it.
BindProxy(p) ==
  /\ proxyOf[p] = "starting"
  /\ proxyOf' = [proxyOf EXCEPT ![p] = IF Serving THEN "dead" ELSE "serving"]
  /\ UNCHANGED <<export, mine, epoch, lockFile, pidFile, target, kills, astray, double>>

\* A proxy exits by itself.
ProxyDies(p) ==
  /\ proxyOf[p] \in {"starting", "serving"}
  /\ proxyOf' = [proxyOf EXCEPT ![p] = "dead"]
  /\ UNCHANGED <<export, mine, epoch, lockFile, pidFile, target, kills, astray, double>>

\* stop_proxy reads the pidfile, and signals the process if it runs the proxy.
ReadPidfile ==
  /\ target = NoProxy
  /\ ~Dead(pidFile)
  /\ target' = pidFile
  /\ UNCHANGED <<export, mine, epoch, lockFile, proxyOf, pidFile, kills, astray, double>>

StopProxy ==
  /\ target # NoProxy
  /\ proxyOf' = [proxyOf EXCEPT ![target] = "dead"]
  /\ target' = NoProxy
  /\ UNCHANGED <<export, mine, epoch, lockFile, pidFile, kills, astray, double>>

\* An export is killed; the proxy it spawned runs on, and its lock stays.
KillExport(e) ==
  /\ export[e] # "idle"
  /\ kills < MaxKills
  /\ kills' = kills + 1
  /\ epoch' = [epoch EXCEPT ![e] = @ + 1]
  /\ Goto(e, "idle")
  /\ astray' = astray \cup ({mine[e]} \ {NoProxy})
  /\ mine' = [mine EXCEPT ![e] = NoProxy]
  /\ UNCHANGED <<lockFile, proxyOf, pidFile, target, double>>

Spawner(e) ==
  \/ ProbeUnderLock(e) \/ SpawnProxy(e) \/ SeeBound(e) \/ SeeExit(e)
  \/ GiveUpChild(e) \/ CheckChild(e) \/ Publish(e)

Adopter(e) ==
  \/ HolderLives(e) \/ HolderIsGone(e) \/ WaitForPort(e)
  \/ ProbeStale(e) \/ RemoveStale(e) \/ RetryProxyLock(e)

ExportStep(e) == ProbePort(e) \/ TryProxyLock(e) \/ Spawner(e) \/ Adopter(e)

ProxyNext ==
  \/ \E e \in Exports : ExportStep(e) \/ KillExport(e)
  \/ \E p \in Spawns : BindProxy(p) \/ ProxyDies(p)
  \/ ReadPidfile \/ StopProxy

ProxySpec == ProxyInit /\ [][ProxyNext]_proxyVars

\* Exports run at every prompt, and each of their waits has a budget. A pid that
\* another process took is free again some day.
ProxyFair ==
  \A e \in Exports : WF_proxyVars(ExportStep(e)) /\ SF_proxyVars(HolderIsGone(e))

FairProxySpec == ProxySpec /\ ProxyFair

-----------------------------------------------------------------------------
Spawning(e) == export[e] \in {"locked", "spawn", "spawned", "bound", "publish"}

\* "This prevents the TOCTOU window that would otherwise let two exports each
\* spawn their own proxy" (proxy.rs): at most one export is past the lock.
OneSpawner == \A e, f \in Exports : Spawning(e) /\ Spawning(f) => e = f

\* Two exports are past the lock only after a lock was removed by its name while
\* its taker was at work: adopt_or_reclaim's removal is the only way in.
TwoSpawnersNeedRemoval == double \/ OneSpawner

\* A proxy that runs and does not serve has an export that waits for it, unless
\* an export was killed, could not kill its proxy, or spawned beside another one:
\* a failed start leaves nothing behind at the next prompt.
NoStrayProxy ==
  \A p \in Spawns :
    proxyOf[p] = "starting" => (\E e \in Exports : mine[e] = p) \/ double \/ astray # {}

\* A live process that the pidfile names serves the port, unless another proxy
\* was there when its export saw the port open: one left behind by a killed
\* export, or one of a second spawner.
PidfileIsServer ==
  ~Dead(pidFile) => proxyOf[pidFile] = "serving" \/ double \/ astray # {}

\* "Without reclamation every later export failed forever": a lock whose taker
\* died does not stay, unless a proxy serves.
StaleLockEnds == HolderGone ~> (~HolderGone \/ Serving)

\* Every proxy is accounted for: one spawner, no proxy that nobody waits for, and a pidfile
\* that names the one that serves.
ProxyAccounted == TwoSpawnersNeedRemoval /\ NoStrayProxy /\ PidfileIsServer
=============================================================================
