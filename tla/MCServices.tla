---------------------------- MODULE MCServices ----------------------------
(***************************************************************************)
(* The lock, the proxy, the caches and the renderers for TLC, put together *)
(* as in MCHooks: they share no state, and the one that `part` names moves. *)
(***************************************************************************)
EXTENDS StoreLock, McpProxy, RenderCache, PluginClones, LoginCache, TranscriptFold,
        PatternMatch, BundleMerge, PermissionRender

CONSTANT Parts

VARIABLE part

serviceVars == <<part, vars, proxyVars, cacheVars, cloneVars, loginVars, foldVars, globVars, bundleVars, permVars>>

\* Three spellings of two store folders, one of them reached by its own path and by a link.
MCCanon == [path \in Paths |-> IF path = "other" THEN "storeB" ELSE "storeA"]

MCFilesOf == [c \in Configs |-> IF c = "A" THEN {"b1"} ELSE {"b1", "s"}]
\* Two syncs, and a sync and an export.
MCTeams == {{"y1", "y2"}, {"y1", "x1"}}

MCNormalize == [r \in Rules |-> IF r = "Write" THEN "Edit" ELSE r]
MCTierOf == [r \in TierTools |-> "destructive"]
NoOverride == [t \in Tiers |-> "default"]

\* The call of glob_matches, and the bundles, of a behaviour in which they stay.
StillGlob == pat = <<>> /\ text = <<>> /\ other = <<>> /\ answer = "running"
StillBundles ==
  /\ when = [b \in Bundles |-> {"x"}] /\ emits = [k \in KindsOfScope |-> {}]
  /\ enabled = {} /\ disabled = {}
  /\ sets = [c \in Contributors |-> Unset] /\ fragment = [c \in Contributors |-> Unset]

\* One of the cases that only the names of the bundles, the tags or the values tell apart.
UpToNames ==
  /\ declared = <<"b1", "b2">>
  /\ when \in {w \in [Bundles -> TagSets] : w["b1"] = {"x"}}
  /\ sets \in {s \in [Contributors -> Values \cup {Unset}] : s[TopLevel] # "w"}

ServicesInit ==
  /\ part \in Parts
  /\ Init
  /\ ProxyInit /\ (part = "proxy" \/ kills = 0)
  /\ CacheInit /\ source = "B" /\ (part = "cache" \/ strict)
  /\ CloneInit /\ (part = "clones" \/ (pinned /\ named = "a" /\ dest = NoClone /\ team = {"y1", "x1"}))
  /\ LoginInit /\ (part = "login" \/ \A f \in LoginFolders : home[f] = NoHome)
     /\ home["f2"] = NoHome /\ home["f1"].acct # "B"
  /\ FoldInit
  /\ PermInit /\ (part = "perm" \/ (~tiersOn /\ override = NoOverride))
  /\ IF part = "glob" THEN GlobInit ELSE StillGlob /\ GlobInit
  /\ UpToNames
  /\ IF part = "merge" THEN BundleInit ELSE StillBundles /\ BundleInit

ServicesNext ==
  \/ /\ part = "lock" /\ Next
     /\ UNCHANGED <<part, proxyVars, cacheVars, cloneVars, loginVars, foldVars, globVars, bundleVars, permVars>>
  \/ /\ part = "proxy" /\ ProxyNext
     /\ UNCHANGED <<part, vars, cacheVars, cloneVars, loginVars, foldVars, globVars, bundleVars, permVars>>
  \/ /\ part = "cache" /\ CacheNext
     /\ UNCHANGED <<part, vars, proxyVars, cloneVars, loginVars, foldVars, globVars, bundleVars, permVars>>
  \/ /\ part = "clones" /\ CloneNext
     /\ UNCHANGED <<part, vars, proxyVars, cacheVars, loginVars, foldVars, globVars, bundleVars, permVars>>
  \/ /\ part = "login" /\ LoginNext
     /\ UNCHANGED <<part, vars, proxyVars, cacheVars, cloneVars, foldVars, globVars, bundleVars, permVars>>
  \/ /\ part = "fold" /\ FoldNext
     /\ UNCHANGED <<part, vars, proxyVars, cacheVars, cloneVars, loginVars, globVars, bundleVars, permVars>>
  \/ /\ part = "glob" /\ GlobNext
     /\ UNCHANGED <<part, vars, proxyVars, cacheVars, cloneVars, loginVars, foldVars, bundleVars, permVars>>
  \/ /\ part = "merge" /\ BundleNext
     /\ UNCHANGED <<part, vars, proxyVars, cacheVars, cloneVars, loginVars, foldVars, globVars, permVars>>
  \/ /\ part = "perm" /\ PermNext
     /\ UNCHANGED <<part, vars, proxyVars, cacheVars, cloneVars, loginVars, foldVars, globVars, bundleVars>>

ServicesSpec == ServicesInit /\ [][ServicesNext]_serviceVars

-----------------------------------------------------------------------------
\* The lock, the proxy, the folders, the clones and the logins have their types.
ServicesTypeOK ==
  /\ TypeOK /\ ProxyTypeOK /\ CacheTypeOK /\ CloneTypeOK /\ LoginTypeOK /\ FoldTypeOK
=============================================================================
