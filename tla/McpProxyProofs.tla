--------------------------- MODULE McpProxyProofs ---------------------------
(***************************************************************************)
(* One spawner of the shared proxy, no stray child and a pidfile that      *)
(* names the server, for any number of exports, spawns and kills. The      *)
(* invariant ties the lock file to the export past it, and, as long as     *)
(* nothing was left astray, every proxy that runs to that export.          *)
(***************************************************************************)
EXTENDS McpProxy, TLAPS

USE DEF NoProxy

Owns(e) == export[e] \in {"spawned", "bound", "publish"}
LockOf(e) == [by |-> e, epoch |-> epoch[e]]
Quiet == ~double /\ astray = {}
Runs(p) == proxyOf[p] \in {"starting", "serving"}

BaseInv ==
  /\ ProxyTypeOK
  /\ \A e \in Exports : epoch[e] <= kills
  /\ \A e \in Exports : Owns(e) <=> mine[e] # NoProxy
  /\ \A e \in Exports : mine[e] # NoProxy => proxyOf[mine[e]] # "unborn"

\* The export past the lock is the one that the lock file names.
LockInv == double \/ \A e \in Exports : Spawning(e) => lockFile = LockOf(e)

\* What runs belongs to the export past the lock, or is the published server.
Tidy ==
  /\ \A p \in Spawns : proxyOf[p] = "starting" => \E e \in Exports : mine[e] = p
  /\ \A e \in Exports, p \in Spawns :
       Spawning(e) /\ export[e] # "locked" /\ Runs(p) => mine[e] = p
  /\ \A e \in Exports : export[e] \in {"bound", "publish"} => proxyOf[mine[e]] # "starting"
  /\ pidFile # NoProxy => proxyOf[pidFile] \in {"serving", "dead"}
RunInv == Quiet => Tidy

ProxyInv == BaseInv /\ LockInv /\ RunInv

LEMMA LockNamesOne ==
  ASSUME NEW e \in Exports
  PROVE  LockOf(e) # NoLock /\ LockOf(e).by = e /\ LockOf(e).epoch = epoch[e]
BY McpProxyAssumption DEF LockOf, NoLock

LEMMA OneOwner ==
  ASSUME LockInv, ~double, NEW e \in Exports, NEW f \in Exports, Spawning(e), Spawning(f)
  PROVE  e = f
BY LockNamesOne DEF LockInv

-----------------------------------------------------------------------------
(* The steps of an export, by what they do to the lock and the proxies.    *)

\* An export moves, and neither takes nor leaves the part past the lock.
Moves(e, steps) ==
  /\ \E s \in steps : Goto(e, s)
  /\ UNCHANGED <<mine, epoch, lockFile, proxyOf, target, kills, astray, double>>
  /\ pidFile' \in {pidFile, NoProxy}

Outside == {"idle", "unserved", "beaten", "adopt", "reclaim", "stale", "removed"}

LEMMA MoveOutside ==
  ASSUME ProxyInv, NEW e \in Exports, export[e] \in Outside, Moves(e, Outside)
  PROVE  ProxyInv'
<1>1. /\ export' \in [Exports -> ExportSteps] /\ export'[e] \in Outside
      /\ \A f \in Exports \ {e} : export'[f] = export[f]
  BY DEF Moves, Goto, Outside, ExportSteps, ProxyInv, BaseInv, ProxyTypeOK
<1>2. BaseInv'
  BY <1>1 DEF ProxyInv, BaseInv, ProxyTypeOK, Moves, Owns, Outside
<1>3. LockInv'
  BY <1>1 DEF ProxyInv, LockInv, Moves, Spawning, Outside, LockOf
<1>4. RunInv'
  BY <1>1 DEF ProxyInv, RunInv, Tidy, Quiet, Moves, Spawning, Outside, Runs
<1> QED
  BY <1>2, <1>3, <1>4 DEF ProxyInv

\* The lock is linked when no lock is there.
LEMMA TakeLock ==
  ASSUME ProxyInv, NEW e \in Exports, export[e] \in Outside, NEW beaten \in Outside,
         TryLockFile(e, "locked", beaten)
  PROVE  ProxyInv'
<1>1. CASE lockFile # NoLock
  <2>1. Moves(e, Outside)
    BY <1>1 DEF TryLockFile, Moves
  <2> QED
    BY <2>1, MoveOutside
<1>2. CASE lockFile = NoLock
  <2>1. /\ export' \in [Exports -> ExportSteps] /\ export'[e] = "locked"
        /\ \A f \in Exports \ {e} : export'[f] = export[f]
        /\ lockFile' = LockOf(e)
        /\ UNCHANGED <<mine, epoch, proxyOf, pidFile, target, kills, astray, double>>
    BY <1>2 DEF TryLockFile, Goto, LockOf, ExportSteps, ProxyInv, BaseInv, ProxyTypeOK
  <2>2. lockFile' \in Takers
    BY <2>1 DEF ProxyInv, BaseInv, ProxyTypeOK, Takers, LockOf
  <2>3. BaseInv'
    BY <2>1, <2>2 DEF ProxyInv, BaseInv, ProxyTypeOK, Owns, Outside
  <2>4. double \/ \A f \in Exports : ~Spawning(f)
    BY <1>2, LockNamesOne DEF ProxyInv, LockInv
  <2>5. LockInv'
    BY <2>1, <2>4 DEF LockInv, Spawning, LockOf
  <2>6. RunInv'
    BY <2>1 DEF ProxyInv, RunInv, Tidy, Quiet, Spawning, Runs
  <2> QED
    BY <2>3, <2>5, <2>6 DEF ProxyInv
<1> QED
  BY <1>1, <1>2

\* The lock of a dead export is removed by its name.
LEMMA RemoveLock ==
  ASSUME ProxyInv, NEW e \in Exports, RemoveStale(e)
  PROVE  ProxyInv'
<1>1. /\ export' \in [Exports -> ExportSteps] /\ export[e] = "stale" /\ export'[e] = "removed"
      /\ \A f \in Exports \ {e} : export'[f] = export[f]
      /\ lockFile' = NoLock /\ double' = (double \/ HolderAlive)
      /\ UNCHANGED <<mine, epoch, proxyOf, pidFile, target, kills, astray>>
  BY DEF RemoveStale, Goto, ExportSteps, ProxyInv, BaseInv, ProxyTypeOK
<1>2. BaseInv'
  BY <1>1 DEF ProxyInv, BaseInv, ProxyTypeOK, Owns
<1>3. ASSUME NEW f \in Exports, Spawning(f), ~double PROVE HolderAlive
  BY <1>3, LockNamesOne DEF ProxyInv, LockInv, HolderAlive, HolderGone
<1>4. LockInv'
  BY <1>1, <1>3 DEF LockInv, Spawning
<1>5. RunInv'
  BY <1>1 DEF ProxyInv, RunInv, Tidy, Quiet, Spawning, Runs
<1> QED
  BY <1>2, <1>4, <1>5 DEF ProxyInv

\* The export past the lock ends, and leaves no child that is still starting.
LEMMA EndPastLock ==
  ASSUME ProxyInv, NEW e \in Exports, Spawning(e), EndSpawn(e),
         UNCHANGED <<epoch, target, kills>>,
         proxyOf' \in [Spawns -> {"unborn", "starting", "serving", "dead"}],
         astray' \subseteq Spawns, astray \subseteq astray',
         pidFile' \in {pidFile, NoProxy, mine[e]},
         \A p \in Spawns : proxyOf'[p] \in {proxyOf[p], "dead"},
         Quiet' /\ mine[e] # NoProxy => proxyOf'[mine[e]] # "starting",
         pidFile' # NoProxy /\ Quiet' => proxyOf'[pidFile'] \in {"serving", "dead"}
  PROVE  ProxyInv'
<1>0. ProxyTypeOK
  BY DEF ProxyInv, BaseInv
<1>1. /\ export' \in [Exports -> ExportSteps] /\ export'[e] = "idle"
      /\ \A f \in Exports \ {e} : export'[f] = export[f]
      /\ mine' \in [Exports -> Spawns \cup {NoProxy}] /\ mine'[e] = NoProxy
      /\ \A f \in Exports \ {e} : mine'[f] = mine[f]
      /\ lockFile' = NoLock /\ double' = (double \/ (HolderAlive /\ lockFile.by # e))
  BY <1>0 DEF EndSpawn, ReleaseProxyLock, Goto, ExportSteps, ProxyTypeOK
<1>2. BaseInv'
  <2>1. pidFile' \in Spawns \cup {NoProxy} /\ double' \in BOOLEAN
    BY <1>0, <1>1 DEF ProxyTypeOK
  <2>2. ProxyTypeOK'
    BY <1>0, <1>1, <2>1 DEF ProxyTypeOK
  <2> QED
    BY <1>1, <2>2 DEF ProxyInv, BaseInv, Owns
<1>3. ~double' => \A f \in Exports : ~Spawning(f)'
  <2>1. ASSUME ~double', NEW f \in Exports \ {e} PROVE ~Spawning(f)
    BY <1>1, <2>1, OneOwner DEF ProxyInv
  <2> QED
    BY <1>1, <2>1 DEF Spawning
<1>4. LockInv'
  BY <1>3 DEF LockInv
<1>5. RunInv'
  <2> SUFFICES ASSUME Quiet' PROVE Tidy'
    BY DEF RunInv
  <2>0. Quiet
    BY <1>1 DEF Quiet
  <2>1. ASSUME NEW p \in Spawns, proxyOf'[p] = "starting" PROVE \E f \in Exports : mine'[f] = p
    <3>1. proxyOf[p] = "starting"
      BY <2>1
    <3>2. PICK f \in Exports : mine[f] = p
      BY <2>0, <3>1 DEF ProxyInv, RunInv, Tidy
    <3>3. f # e
      BY <2>1, <3>2 DEF Spawns
    <3> QED
      BY <1>1, <3>2, <3>3
  <2>2. \A f \in Exports : ~Spawning(f)'
    BY <1>3 DEF Quiet
  <2> QED
    BY <2>1, <2>2 DEF Tidy, Spawning
<1> QED
  BY <1>2, <1>4, <1>5 DEF ProxyInv

\* The export goes on past the lock, and the proxies stand.
LEMMA GoOn ==
  ASSUME ProxyInv, NEW e \in Exports, NEW step,
         \/ export[e] = "locked" /\ step = "spawn" /\ ~Serving
         \/ export[e] = "spawned" /\ step = "bound" /\ Serving
         \/ export[e] = "bound" /\ step = "publish",
         Goto(e, step),
         UNCHANGED <<mine, epoch, lockFile, proxyOf, pidFile, target, kills, astray, double>>
  PROVE  ProxyInv'
<1>0. ProxyTypeOK
  BY DEF ProxyInv, BaseInv
<1>1. /\ export' \in [Exports -> ExportSteps] /\ export'[e] = step
      /\ \A f \in Exports \ {e} : export'[f] = export[f]
  BY <1>0 DEF Goto, ExportSteps, ProxyTypeOK
<1>2. BaseInv'
  BY <1>0, <1>1 DEF ProxyInv, BaseInv, ProxyTypeOK, Owns
<1>3. LockInv'
  BY <1>1 DEF ProxyInv, LockInv, Spawning, LockOf
<1>4. RunInv'
  <2> SUFFICES ASSUME Quiet PROVE Tidy'
    BY DEF RunInv, Quiet
  <2>0. Tidy /\ ~double /\ Spawning(e)
    BY DEF ProxyInv, RunInv, Quiet, Spawning
  <2>1. ASSUME NEW p \in Spawns, Runs(p), step = "spawn" PROVE FALSE
    <3>1. proxyOf[p] = "starting" /\ export[e] = "locked"
      BY <2>1 DEF Runs, Serving
    <3>2. PICK f \in Exports : mine[f] = p
      BY <2>0, <3>1 DEF Tidy
    <3>3. Owns(f)
      BY <3>2 DEF ProxyInv, BaseInv, Spawns
    <3>4. f = e
      BY <2>0, <3>3, OneOwner DEF ProxyInv, Owns, Spawning
    <3> QED
      BY <3>1, <3>3, <3>4 DEF Owns
  <2>2. step = "bound" => proxyOf[mine[e]] # "starting"
    BY <2>0 DEF Tidy, Serving, Runs, Spawning
  <2>3. \A f \in Exports, p \in Spawns :
          Spawning(f)' /\ export'[f] # "locked" /\ Runs(p)' => mine'[f] = p
    BY <1>1, <2>0, <2>1 DEF Tidy, Spawning, Runs
  <2> QED
    BY <1>1, <2>0, <2>2, <2>3 DEF Tidy
<1> QED
  BY <1>2, <1>3, <1>4 DEF ProxyInv

\* The export spawns its child when nothing else runs.
LEMMA SpawnChild ==
  ASSUME ProxyInv, NEW e \in Exports, export[e] = "spawn", NEW p \in Spawns, proxyOf[p] = "unborn",
         proxyOf' = [proxyOf EXCEPT ![p] = "starting"],
         mine' = [mine EXCEPT ![e] = p],
         Goto(e, "spawned"),
         UNCHANGED <<lockFile, double, epoch, pidFile, target, kills, astray>>
  PROVE  ProxyInv'
<1>0. ProxyTypeOK /\ p # NoProxy
  BY DEF ProxyInv, BaseInv, Spawns
<1>1. /\ export' \in [Exports -> ExportSteps] /\ export'[e] = "spawned"
      /\ \A f \in Exports \ {e} : export'[f] = export[f]
      /\ mine' \in [Exports -> Spawns \cup {NoProxy}] /\ mine'[e] = p
      /\ \A f \in Exports \ {e} : mine'[f] = mine[f]
      /\ proxyOf' \in [Spawns -> {"unborn", "starting", "serving", "dead"}] /\ proxyOf'[p] = "starting"
      /\ \A q \in Spawns \ {p} : proxyOf'[q] = proxyOf[q]
  BY <1>0 DEF Goto, ExportSteps, ProxyTypeOK
<1>2. BaseInv'
  BY <1>0, <1>1 DEF ProxyInv, BaseInv, ProxyTypeOK, Owns
<1>3. LockInv'
  BY <1>1 DEF ProxyInv, LockInv, Spawning, LockOf
<1>4. RunInv'
  <2> SUFFICES ASSUME Quiet PROVE Tidy'
    BY DEF RunInv, Quiet
  <2>0. Tidy /\ ~double /\ Spawning(e)
    BY DEF ProxyInv, RunInv, Quiet, Spawning
  <2>1. \A f \in Exports \ {e} : ~Spawning(f)
    BY <2>0, OneOwner DEF ProxyInv
  <2>2. \A q \in Spawns : ~Runs(q)
    <3>1. mine[e] = NoProxy
      BY DEF ProxyInv, BaseInv, Owns
    <3> QED
      BY <2>0, <3>1 DEF Tidy, Spawns
  <2>3. pidFile # NoProxy => pidFile # p /\ pidFile \in Spawns
    BY <1>0, <2>0 DEF Tidy, ProxyTypeOK
  <2>4. \A f \in Exports, q \in Spawns :
          Spawning(f)' /\ export'[f] # "locked" /\ Runs(q)' => mine'[f] = q
    BY <1>1, <2>1, <2>2 DEF Spawning, Runs
  <2>5. \A q \in Spawns : proxyOf'[q] = "starting" => mine'[e] = q
    BY <1>1, <2>2 DEF Runs
  <2>6. \A f \in Exports : export'[f] \in {"bound", "publish"} => FALSE
    BY <1>1, <2>1 DEF Spawning
  <2>7. pidFile' # NoProxy => proxyOf'[pidFile'] \in {"serving", "dead"}
    BY <1>1, <2>0, <2>3 DEF Tidy
  <2> QED
    BY <2>4, <2>5, <2>6, <2>7 DEF Tidy
<1> QED
  BY <1>2, <1>3, <1>4 DEF ProxyInv

\* The steps of the export past the lock.
LEMMA SpawnerStep ==
  ASSUME ProxyInv, NEW e \in Exports, Spawner(e)
  PROVE  ProxyInv'
<1>0. ProxyTypeOK /\ (Owns(e) <=> mine[e] # NoProxy) /\ mine[e] \in Spawns \cup {NoProxy}
  BY DEF ProxyInv, BaseInv, ProxyTypeOK
<1>1. pidFile # NoProxy /\ Quiet => proxyOf[pidFile] \in {"serving", "dead"}
  BY DEF ProxyInv, RunInv, Tidy
<1>2. Quiet => \A p \in Spawns : proxyOf[p] = "starting" => \E f \in Exports : mine[f] = p
  BY DEF ProxyInv, RunInv, Tidy
<1>3. EndSpawn(e) => (Quiet' => ~double)
  BY DEF EndSpawn, ReleaseProxyLock, Quiet
<1>4. CASE ProbeUnderLock(e)
  <2>1. CASE Serving
    <3>1. /\ EndSpawn(e) /\ pidFile' \in {pidFile, NoProxy} /\ mine[e] = NoProxy
          /\ UNCHANGED <<epoch, proxyOf, target, kills, astray>>
      BY <1>0, <1>4, <2>1 DEF ProbeUnderLock, Reconcile, Owns
    <3> QED
      BY <1>0, <1>1, <1>3, <1>4, <3>1, EndPastLock DEF ProbeUnderLock, Spawning, Quiet, ProxyTypeOK
  <2>2. CASE ~Serving
    BY <1>4, <2>2, GoOn DEF ProbeUnderLock
  <2> QED
    BY <2>1, <2>2
<1>5. CASE SpawnProxy(e)
  <2>1. CASE EndSpawn(e) /\ UNCHANGED <<epoch, proxyOf, pidFile, target, kills, astray>>
    <3>1. mine[e] = NoProxy
      BY <1>0, <1>5 DEF SpawnProxy, Owns
    <3> QED
      BY <1>0, <1>1, <1>3, <1>5, <2>1, <3>1, EndPastLock DEF SpawnProxy, Spawning, Quiet, ProxyTypeOK
  <2> QED
    BY <1>5, <2>1, SpawnChild DEF SpawnProxy
<1>6. CASE SeeBound(e)
  BY <1>6, GoOn DEF SeeBound
<1>7. CASE SeeExit(e)
  BY <1>0, <1>1, <1>3, <1>7, EndPastLock DEF SeeExit, Spawning, Quiet, ProxyTypeOK
<1>8. CASE GiveUpChild(e)
  <2>1. mine[e] \in Spawns /\ Spawning(e) /\ EndSpawn(e) /\ UNCHANGED <<epoch, pidFile, target, kills>>
    BY <1>0, <1>8 DEF GiveUpChild, Owns, Spawning
  <2>2. CASE proxyOf' = [proxyOf EXCEPT ![mine[e]] = "dead"] /\ UNCHANGED astray
    <3>1. /\ proxyOf' \in [Spawns -> {"unborn", "starting", "serving", "dead"}]
          /\ \A p \in Spawns : proxyOf'[p] \in {proxyOf[p], "dead"}
          /\ proxyOf'[mine[e]] = "dead"
      BY <1>0, <2>1, <2>2 DEF ProxyTypeOK
    <3>2. pidFile' # NoProxy /\ Quiet' => proxyOf'[pidFile'] \in {"serving", "dead"}
      BY <1>0, <1>1, <1>3, <2>1, <2>2, <3>1 DEF Quiet, ProxyTypeOK
    <3> QED
      BY <1>0, <2>1, <2>2, <3>1, <3>2, EndPastLock DEF ProxyTypeOK
  <2>3. CASE astray' = astray \cup {mine[e]} /\ UNCHANGED proxyOf
    <3>1. ~Quiet'
      BY <2>3 DEF Quiet
    <3> QED
      BY <1>0, <2>1, <2>3, <3>1, EndPastLock DEF ProxyTypeOK
  <2> QED
    BY <1>8, <2>2, <2>3 DEF GiveUpChild
<1>9. CASE CheckChild(e)
  <2>1. CASE proxyOf[mine[e]] = "dead"
    <3>1. /\ EndSpawn(e) /\ pidFile' \in {pidFile, NoProxy} /\ Spawning(e)
          /\ UNCHANGED <<epoch, proxyOf, target, kills, astray>>
      BY <1>9, <2>1 DEF CheckChild, Reconcile, Spawning
    <3> QED
      BY <1>0, <1>1, <1>3, <2>1, <3>1, EndPastLock DEF Quiet, ProxyTypeOK
  <2>2. CASE proxyOf[mine[e]] # "dead"
    BY <1>9, <2>2, GoOn DEF CheckChild
  <2> QED
    BY <2>1, <2>2
<1>10. CASE Publish(e)
  <2>1. /\ EndSpawn(e) /\ pidFile' \in {pidFile, mine[e]} /\ Spawning(e) /\ mine[e] \in Spawns
        /\ UNCHANGED <<epoch, proxyOf, target, kills, astray>>
    BY <1>0, <1>10 DEF Publish, Spawning, Owns
  <2>2. Quiet' => proxyOf[mine[e]] \in {"serving", "dead"}
    <3>1. Quiet' => Quiet
      BY <1>3, <2>1 DEF Quiet
    <3>2. Quiet => proxyOf[mine[e]] # "starting"
      BY <1>10 DEF Publish, ProxyInv, RunInv, Tidy
    <3> QED
      BY <1>0, <2>1, <3>1, <3>2 DEF ProxyTypeOK, ProxyInv, BaseInv, Spawns
  <2> QED
    BY <1>0, <1>1, <1>3, <2>1, <2>2, EndPastLock DEF Quiet, ProxyTypeOK
<1> QED
  BY <1>4, <1>5, <1>6, <1>7, <1>8, <1>9, <1>10 DEF Spawner, SpawnProxy

\* The steps of an export that does not hold the lock.
LEMMA AdopterStep ==
  ASSUME ProxyInv, NEW e \in Exports, ProbePort(e) \/ TryProxyLock(e) \/ Adopter(e)
  PROVE  ProxyInv'
<1>1. CASE ProbePort(e) \/ HolderLives(e) \/ HolderIsGone(e)
  <2>1. export[e] \in Outside /\ Moves(e, Outside)
    BY <1>1 DEF ProbePort, HolderLives, HolderIsGone, Outside, Moves
  <2> QED
    BY <2>1, MoveOutside
<1>2. CASE WaitForPort(e) \/ ProbeStale(e)
  <2>1. export[e] \in Outside /\ Moves(e, Outside)
    BY <1>2 DEF WaitForPort, ProbeStale, Reconcile, Outside, Moves
  <2> QED
    BY <2>1, MoveOutside
<1>3. CASE TryProxyLock(e) \/ RetryProxyLock(e)
  BY <1>3, TakeLock DEF TryProxyLock, RetryProxyLock, Outside
<1>4. CASE RemoveStale(e)
  BY <1>4, RemoveLock
<1> QED
  BY <1>1, <1>2, <1>3, <1>4 DEF Adopter

\* A killed export leaves its lock, and its proxy astray.
LEMMA KillStep ==
  ASSUME ProxyInv, NEW e \in Exports, KillExport(e)
  PROVE  ProxyInv'
<1>0. ProxyTypeOK /\ (Owns(e) <=> mine[e] # NoProxy) /\ MaxKills \in Nat
  BY McpProxyAssumption DEF ProxyInv, BaseInv
<1>1. /\ export' \in [Exports -> ExportSteps] /\ export'[e] = "idle"
      /\ \A f \in Exports \ {e} : export'[f] = export[f]
      /\ mine' \in [Exports -> Spawns \cup {NoProxy}] /\ mine'[e] = NoProxy
      /\ \A f \in Exports \ {e} : mine'[f] = mine[f]
      /\ UNCHANGED <<lockFile, proxyOf, pidFile, target, double>>
      /\ astray' = astray \cup ({mine[e]} \ {NoProxy})
  BY <1>0 DEF KillExport, Goto, ExportSteps, ProxyTypeOK
<1>2. /\ kills' = kills + 1 /\ kills' \in 0 .. MaxKills
      /\ epoch'[e] = epoch[e] + 1 /\ \A f \in Exports \ {e} : epoch'[f] = epoch[f]
      /\ epoch' \in [Exports -> 0 .. MaxKills] /\ \A f \in Exports : epoch'[f] <= kills'
  <2>1. epoch[e] + 1 \in 0 .. MaxKills /\ epoch[e] <= kills /\ kills \in 0 .. MaxKills /\ kills < MaxKills
    BY <1>0 DEF ProxyInv, BaseInv, ProxyTypeOK, KillExport
  <2>2. epoch \in [Exports -> 0 .. MaxKills] /\ \A f \in Exports : epoch[f] <= kills
    BY DEF ProxyInv, BaseInv, ProxyTypeOK
  <2> QED
    BY <1>0, <2>1, <2>2 DEF KillExport
<1>3. BaseInv'
  <2>1. astray' \subseteq Spawns
    BY <1>0, <1>1 DEF ProxyTypeOK
  <2>2. ProxyTypeOK'
    BY <1>0, <1>1, <1>2, <2>1 DEF ProxyTypeOK
  <2>3. ASSUME NEW f \in Exports
        PROVE  (Owns(f)' <=> mine'[f] # NoProxy) /\ (mine'[f] # NoProxy => proxyOf'[mine'[f]] # "unborn")
    BY <1>1 DEF ProxyInv, BaseInv, Owns
  <2> QED
    BY <1>2, <2>2, <2>3 DEF BaseInv
<1>4. LockInv'
  BY <1>1, <1>2 DEF ProxyInv, LockInv, Spawning, LockOf
<1>5. RunInv'
  <2> SUFFICES ASSUME Quiet' PROVE Tidy'
    BY DEF RunInv
  <2>1. mine[e] = NoProxy /\ Quiet
    BY <1>1 DEF Quiet
  <2>2. \A f \in Exports : mine'[f] = mine[f]
    BY <1>1, <2>1
  <2> QED
    BY <1>1, <2>1, <2>2 DEF ProxyInv, RunInv, Tidy, Spawning, Runs
<1> QED
  BY <1>3, <1>4, <1>5 DEF ProxyInv

\* A proxy serves, or ends.
LEMMA ProxyStep ==
  ASSUME ProxyInv, NEW p \in Spawns, NEW s \in {"serving", "dead"},
         proxyOf[p] = "starting" \/ s = "dead",
         proxyOf' = [proxyOf EXCEPT ![p] = s], target' \in {target, NoProxy},
         UNCHANGED <<export, mine, epoch, lockFile, pidFile, kills, astray, double>>
  PROVE  ProxyInv'
<1>1. /\ proxyOf' \in [Spawns -> {"unborn", "starting", "serving", "dead"}] /\ proxyOf'[p] = s
      /\ \A q \in Spawns \ {p} : proxyOf'[q] = proxyOf[q]
  BY DEF ProxyInv, BaseInv, ProxyTypeOK
<1>2. BaseInv'
  BY <1>1 DEF ProxyInv, BaseInv, ProxyTypeOK, Owns
<1>3. LockInv'
  BY DEF ProxyInv, LockInv, Spawning, LockOf
<1>4. RunInv'
  <2> SUFFICES ASSUME Quiet PROVE Tidy'
    BY DEF RunInv, Quiet
  <2>0. Tidy /\ pidFile \in Spawns \cup {NoProxy} /\ mine \in [Exports -> Spawns \cup {NoProxy}]
    BY DEF ProxyInv, BaseInv, ProxyTypeOK, RunInv
  <2>1. \A q \in Spawns : Runs(q)' => Runs(q)
    BY <1>1 DEF Runs
  <2>2. \A f \in Exports : export[f] \in {"bound", "publish"} => mine[f] # NoProxy
    BY DEF ProxyInv, BaseInv, Owns
  <2> QED
    BY <1>1, <2>0, <2>1, <2>2 DEF Tidy, Spawning
<1> QED
  BY <1>2, <1>3, <1>4 DEF ProxyInv

LEMMA ProxyInvStep ==
  ASSUME ProxyInv, [ProxyNext]_proxyVars
  PROVE  ProxyInv'
<1>1. ASSUME NEW e \in Exports, ExportStep(e) \/ KillExport(e) PROVE ProxyInv'
  BY <1>1, AdopterStep, SpawnerStep, KillStep DEF ExportStep
<1>2. ASSUME NEW p \in Spawns, BindProxy(p) PROVE ProxyInv'
  <2>1. CASE Serving
    BY <1>2, <2>1, ProxyStep DEF BindProxy
  <2>2. CASE ~Serving
    BY <1>2, <2>2, ProxyStep DEF BindProxy
  <2> QED
    BY <2>1, <2>2
<1>3. ASSUME NEW p \in Spawns, ProxyDies(p) PROVE ProxyInv'
  BY <1>3, ProxyStep DEF ProxyDies
<1>4. CASE StopProxy
  <2>1. target \in Spawns
    BY <1>4 DEF StopProxy, ProxyInv, BaseInv, ProxyTypeOK
  <2> QED
    BY <1>4, <2>1, ProxyStep DEF StopProxy
<1>5. CASE ReadPidfile \/ UNCHANGED proxyVars
  <2>1. target' \in Spawns \cup {NoProxy}
        /\ UNCHANGED <<export, mine, epoch, lockFile, proxyOf, pidFile, kills, astray, double>>
    BY <1>5 DEF ReadPidfile, proxyVars, ProxyInv, BaseInv, ProxyTypeOK
  <2> QED
    BY <2>1 DEF ProxyInv, BaseInv, ProxyTypeOK, Owns, LockInv, Spawning, LockOf, RunInv, Tidy, Quiet, Runs
<1> QED
  BY <1>1, <1>2, <1>3, <1>4, <1>5 DEF ProxyNext

\* The invariant holds in every state.
THEOREM ProxyInvariance == ProxySpec => []ProxyInv
<1>1. ProxyInit => ProxyInv
  <2> SUFFICES ASSUME ProxyInit PROVE ProxyInv
    OBVIOUS
  <2>0. MaxKills \in Nat
    BY McpProxyAssumption
  <2>1. /\ epoch \in [Exports -> 0 .. MaxKills] /\ kills \in 0 .. MaxKills
        /\ \A e \in Exports : epoch[e] <= kills
    BY <2>0 DEF ProxyInit
  <2>2. lockFile \in Takers \cup {NoLock}
    BY <2>0 DEF ProxyInit, Takers
  <2>3. BaseInv
    BY <2>1, <2>2 DEF ProxyInit, BaseInv, ProxyTypeOK, ExportSteps, Owns
  <2>4. LockInv /\ RunInv
    BY DEF ProxyInit, LockInv, RunInv, Tidy, Spawning
  <2> QED
    BY <2>3, <2>4 DEF ProxyInv
<1>2. ProxyInv /\ [ProxyNext]_proxyVars => ProxyInv'
  BY ProxyInvStep
<1> QED
  BY <1>1, <1>2, PTL DEF ProxySpec

-----------------------------------------------------------------------------
\* Two exports spawn at once only after a live export's lock was removed.
THEOREM OneSpawnerUnlessRemoved == ProxySpec => []TwoSpawnersNeedRemoval
<1>1. ProxyInv => TwoSpawnersNeedRemoval
  BY OneOwner DEF ProxyInv, TwoSpawnersNeedRemoval, OneSpawner
<1> QED
  BY <1>1, ProxyInvariance, PTL

\* A start that fails leaves no proxy behind, short of a kill or a second spawner.
THEOREM NothingLeftStarting == ProxySpec => []NoStrayProxy
<1>1. ProxyInv => NoStrayProxy
  BY DEF ProxyInv, RunInv, Tidy, Quiet, NoStrayProxy
<1> QED
  BY <1>1, ProxyInvariance, PTL

\* The pidfile names the server, short of a kill or a second spawner.
THEOREM PidfileAlwaysServer == ProxySpec => []PidfileIsServer
<1>1. ProxyInv => PidfileIsServer
  BY DEF ProxyInv, RunInv, Tidy, Quiet, PidfileIsServer, Dead
<1> QED
  BY <1>1, ProxyInvariance, PTL

\* Every proxy is accounted for, for any number of exports and proxies.
THEOREM ProxyAlwaysAccounted == ProxySpec => []ProxyAccounted
  BY OneSpawnerUnlessRemoved, NothingLeftStarting, PidfileAlwaysServer, PTL DEF ProxyAccounted
=============================================================================
