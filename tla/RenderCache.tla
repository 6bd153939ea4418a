---------------------------- MODULE RenderCache -----------------------------
(***************************************************************************)
(* The rendered config folders of one adapter: renders that reuse one      *)
(* folder in place (loose and normal hashing) or stage a content-addressed *)
(* folder (strict hashing), the owned-set manifest they write last, and    *)
(* the cleanup that other processes run on the same cache                  *)
(* (src/src/materialize, src/src/cli/mod.rs, src/src/cli/clean.rs).        *)
(*                                                                         *)
(* No lock is held: renders, edits of the sources and a cleanup interleave *)
(* at every file. The content of a file is the config it was made from,    *)
(* and the content hash of a config is the config.                         *)
(***************************************************************************)
EXTENDS Naturals, FiniteSets

CONSTANTS Configs,    \* the configs that edits switch between
          CacheFiles, \* the files of a rendered folder
          Bundled,    \* the ones copied from a bundle; the adapter renders the others
          FilesOf,    \* config -> the files it has
          Renders,    \* processes that render
          MaxUpsets,  \* how many edits, stops and cleanups there are together
          MaxIdle

ASSUME RenderCacheAssumption ==
  /\ Bundled \subseteq CacheFiles
  /\ FilesOf \in [Configs -> SUBSET CacheFiles]
  /\ MaxUpsets \in Nat /\ MaxIdle \in Nat

Shape == "shape"    \* the one folder of the selection, in loose and normal hashing
Root == "root"      \* the folder of the adapter, with its durable state
Folders == Configs \cup {Shape}
Absent == "absent"
NoDir == [f \in {} |-> Absent]
EmptyDir == [f \in CacheFiles |-> Absent]
NoManifest == [hash |-> Absent, owned |-> {}]
NoClean == [at |-> "idle", dir |-> Root]

VARIABLES strict,    \* the hashing mode
          source,    \* the config as it is now
          folder,    \* folder -> its files
          manifest,  \* folder -> its .llmenv-manifest.json
          render,    \* render -> where it stands
          staging,   \* render -> its .tmp folder
          clean,     \* the cleanup, and the folder it works on
          old,       \* folders, staging folders, and Root for the durable state, that
                     \* nobody wrote for the retention
          agentState,\* the durable state of the agent
          edits, stops, cleans, agings,
          upset      \* history: folders that an interruption or an overlap may have mixed

cacheVars == <<strict, source, folder, manifest, render, staging, clean, old, agentState,
               edits, stops, cleans, agings, upset>>

Dirs == {NoDir} \cup [CacheFiles -> Configs \cup {Absent}]
RenderSteps == {"idle", "copy", "read", "adapt", "ghosts", "done"}

CacheTypeOK ==
  /\ strict \in BOOLEAN
  /\ source \in Configs
  /\ folder \in [Folders -> Dirs]
  /\ manifest \in [Folders -> [hash : Configs \cup {Absent}, owned : SUBSET CacheFiles]]
  /\ render \in [Renders -> [at : RenderSteps, hash : Configs \cup {Absent},
                             todo : SUBSET CacheFiles, quiet : BOOLEAN]]
  /\ staging \in [Renders -> Dirs]
  /\ clean \in [at : {"idle", "staging", "aged"}, dir : Renders \cup Folders \cup {Root}]
  /\ old \subseteq Folders \cup Renders \cup {Root}
  /\ agentState \in {"none", "kept", "lost"}
  /\ {edits, stops, cleans} \subseteq 0 .. MaxUpsets /\ agings \in 0 .. MaxIdle
  /\ upset \subseteq Folders

NoRender == [at |-> "idle", hash |-> Absent, todo |-> {}, quiet |-> TRUE]

CacheInit ==
  /\ strict \in BOOLEAN
  /\ source \in Configs
  /\ folder = [d \in Folders |-> NoDir]
  /\ manifest = [d \in Folders |-> NoManifest]
  /\ render = [r \in Renders |-> NoRender]
  /\ staging = [r \in Renders |-> NoDir]
  /\ clean = NoClean
  /\ old = {}
  /\ agentState = "none"
  /\ edits = 0 /\ stops = 0 /\ cleans = 0 /\ agings = 0
  /\ upset = {}

-----------------------------------------------------------------------------
(* materialize_with_mode and materialize_from_manifest.                    *)

MayUpset == edits + stops + cleans < MaxUpsets

Rendering(r) == render[r].at \notin {"idle", "done"}

\* folder_name: the selection in loose and normal hashing, the hash in strict.
FolderName(hash) == IF strict THEN hash ELSE Shape

FolderOf(r) == FolderName(render[r].hash)

\* Another actor touches the cache: no running render is alone any more, and the
\* folders being rendered may be mixed. A render that is done is forgotten.
Disturb(but) == [r \in Renders |-> IF r \in but THEN render[r]
                                   ELSE IF Rendering(r) THEN [render[r] EXCEPT !.quiet = FALSE]
                                   ELSE NoRender]
Touched(but) == {FolderOf(r) : r \in {q \in Renders \ but : Rendering(q)}}

\* A step of render r, which puts r in the state `to`.
Step(r, to) ==
  /\ render' = [Disturb({r}) EXCEPT ![r] = to]
  /\ upset' = upset \cup (IF \E q \in Renders \ {r} : Rendering(q)
                          THEN Touched({}) \cup {FolderName(to.hash)} ELSE {})

\* The manifest is built and hashed, and the folder is chosen. A strict folder
\* that is there is reused untouched.
StartRender(r) ==
  /\ ~Rendering(r)
  /\ staging[r] = NoDir
  /\ LET reuse == strict /\ folder[source] # NoDir
     IN /\ Step(r, [at |-> IF reuse THEN "read" ELSE "copy", hash |-> source,
                    todo |-> IF reuse THEN {} ELSE FilesOf[source] \cap Bundled,
                    quiet |-> \A q \in Renders \ {r} : ~Rendering(q)])
        /\ staging' = [staging EXCEPT ![r] = IF strict /\ ~reuse THEN EmptyDir ELSE NoDir]
        /\ old' = old \ {r}
  /\ UNCHANGED <<strict, source, folder, manifest, clean, agentState,
                 edits, stops, cleans, agings>>

Put(dir, f, c) == [g \in CacheFiles |-> IF g = f THEN c
                                        ELSE IF dir = NoDir THEN Absent ELSE dir[g]]

\* write_bundle_file: the source is read again, as it is by now.
CopyFile(r, f) ==
  /\ render[r].at = "copy"
  /\ f \in render[r].todo
  /\ f \in FilesOf[source]
  /\ strict => staging[r] # NoDir
  /\ Step(r, [render[r] EXCEPT !.todo = @ \ {f}])
  /\ IF strict THEN /\ staging' = [staging EXCEPT ![r] = Put(@, f, source)]
                    /\ UNCHANGED <<folder, old>>
               ELSE /\ folder' = [folder EXCEPT ![Shape] = Put(@, f, source)]
                    /\ old' = old \ {Shape}
                    /\ UNCHANGED staging
  /\ UNCHANGED <<strict, source, manifest, clean, agentState, edits, stops, cleans, agings>>

\* A strict staging folder is renamed into place, unless a full folder is there;
\* then the staging folder is dropped, and the folder there is used.
RenameStaging(r) ==
  /\ render[r].at = "copy" /\ render[r].todo = {} /\ strict
  /\ LET d == render[r].hash
         free == folder[d] \in {NoDir, EmptyDir} /\ manifest[d] = NoManifest
     IN /\ staging[r] # NoDir \/ folder[d] # NoDir
        /\ folder' = [folder EXCEPT ![d] = IF staging[r] # NoDir /\ free THEN staging[r] ELSE @]
        /\ clean' = IF clean.at = "staging" /\ clean.dir = r
                    THEN IF free THEN [clean EXCEPT !.dir = d] ELSE NoClean
                    ELSE clean
        /\ old' = old \ {d}
        /\ Step(r, [render[r] EXCEPT !.at = "read"])
  /\ staging' = [staging EXCEPT ![r] = NoDir]
  /\ UNCHANGED <<strict, source, manifest, agentState, edits, stops, cleans, agings>>

\* The last copy in place is followed by the read of the previous manifest.
ReadManifest(r) ==
  /\ \/ render[r].at = "copy" /\ render[r].todo = {} /\ ~strict
     \/ render[r].at = "read"
  /\ Step(r, [render[r] EXCEPT !.at = "adapt", !.todo = manifest[FolderOf(r)].owned])
  /\ UNCHANGED <<strict, source, folder, manifest, staging, clean, old, agentState,
                 edits, stops, cleans, agings>>

\* adapter.materialize writes the rendered files, from the manifest that was built,
\* and the recorded files that this render does not own become the ghosts to
\* remove. A strict folder has none.
WriteRendered(r) ==
  /\ render[r].at = "adapt"
  /\ LET d == FolderOf(r)
         mine == FilesOf[render[r].hash]
     IN /\ folder' = [folder EXCEPT ![d] =
                        [f \in CacheFiles |-> IF f \in mine \ Bundled THEN render[r].hash
                                              ELSE IF @ = NoDir THEN Absent ELSE @[f]]]
        /\ old' = old \ {d}
        /\ Step(r, [render[r] EXCEPT !.at = "ghosts",
                                     !.todo = IF strict THEN {} ELSE @ \ mine])
  /\ UNCHANGED <<strict, source, manifest, staging, clean, agentState,
                 edits, stops, cleans, agings>>

\* Mutant: a recorded file that the render does not own stays.
RemoveGhostKeeps(r, f) ==
  /\ render[r].at = "ghosts" /\ f \in render[r].todo
  /\ Step(r, [render[r] EXCEPT !.todo = @ \ {f}])
  /\ UNCHANGED <<strict, source, folder, manifest, staging, clean, old, agentState,
                 edits, stops, cleans, agings>>

\* write_cache_manifest removes one recorded file that the render does not own.
RemoveGhost(r, f) ==
  /\ render[r].at = "ghosts" /\ f \in render[r].todo
  /\ folder' = IF folder[Shape] = NoDir THEN folder
               ELSE [folder EXCEPT ![Shape][f] = Absent]
  /\ Step(r, [render[r] EXCEPT !.todo = @ \ {f}])
  /\ UNCHANGED <<strict, source, manifest, staging, clean, old, agentState,
                 edits, stops, cleans, agings>>

\* The manifest is written last, into a new folder when a cleanup removed it.
WriteManifest(r) ==
  /\ render[r].at = "ghosts" /\ render[r].todo = {}
  /\ LET d == FolderOf(r)
     IN /\ folder' = [folder EXCEPT ![d] = IF @ = NoDir THEN EmptyDir ELSE @]
        /\ manifest' = [manifest EXCEPT ![d] = [hash |-> render[r].hash,
                                                owned |-> FilesOf[render[r].hash]]]
        /\ old' = old \ {d}
        /\ Step(r, [render[r] EXCEPT !.at = "done"])
  /\ UNCHANGED <<strict, source, staging, clean, agentState,
                 edits, stops, cleans, agings>>

\* The render is killed, or a step of it fails: a source or its folder is gone.
\* A staging folder stays behind.
StopRender(r) ==
  /\ Rendering(r)
  /\ MayUpset
  /\ stops' = stops + 1
  /\ render' = [Disturb({r}) EXCEPT ![r] = NoRender]
  /\ upset' = upset \cup {FolderOf(r)} \cup Touched({r})
  /\ UNCHANGED <<strict, source, folder, manifest, staging, clean, old, agentState,
                 edits, cleans, agings>>

-----------------------------------------------------------------------------
(* Edits of the sources, the agent, and `llmenv clean`.                    *)

EditSource(c) ==
  /\ c # source
  /\ MayUpset
  /\ edits' = edits + 1
  /\ source' = c
  /\ render' = Disturb({})
  /\ upset' = upset \cup {FolderOf(r) : r \in {q \in Renders : render[q].at = "copy"}}
  /\ UNCHANGED <<strict, folder, manifest, staging, clean, old, agentState,
                 stops, cleans, agings>>

\* The agent writes its durable state.
UseState ==
  /\ agentState = "none" \/ Root \in old
  /\ agentState' = "kept"
  /\ old' = old \ {Root}
  /\ UNCHANGED <<strict, source, folder, manifest, render, staging, clean,
                 edits, stops, cleans, agings, upset>>

\* The retention passes, and nothing runs.
AgeCache ==
  /\ agings < MaxIdle
  /\ \A r \in Renders : ~Rendering(r)
  /\ agings' = agings + 1
  /\ old' = Folders \cup Renders \cup {Root}
  /\ UNCHANGED <<strict, source, folder, manifest, render, staging, clean, agentState,
                 edits, stops, cleans, upset>>

StartClean(at, d) ==
  /\ clean = NoClean
  /\ MayUpset
  /\ cleans' = cleans + 1
  /\ clean' = [at |-> at, dir |-> d]
  /\ UNCHANGED <<strict, source, folder, manifest, render, staging, old, agentState,
                 edits, stops, agings, upset>>

\* A .tmp folder is removed at any age, also the one of a running render.
CleanStaging(r) == staging[r] # NoDir /\ StartClean("staging", r)

\* remove_dir_all removes the entries of the open folder one by one, and goes on
\* when the folder is renamed meanwhile.
RemoveStaged(f) ==
  /\ clean.at = "staging"
  /\ IF clean.dir \in Renders
     THEN /\ staging[clean.dir] # NoDir
          /\ staging' = [staging EXCEPT ![clean.dir][f] = Absent]
          /\ UNCHANGED folder
     ELSE /\ folder[clean.dir] # NoDir
          /\ folder' = [folder EXCEPT ![clean.dir][f] = Absent]
          /\ UNCHANGED staging
  /\ render' = Disturb({})
  /\ upset' = upset \cup Touched({}) \cup (IF clean.dir \in Renders THEN {} ELSE {clean.dir})
  /\ UNCHANGED <<strict, source, manifest, clean, old, agentState,
                 edits, stops, cleans, agings>>

\* The .tmp folder itself goes when it is empty; else, or under a new name, it stays.
RemoveStagingDir ==
  /\ clean.at = "staging"
  /\ staging' = IF clean.dir \in Renders /\ staging[clean.dir] = EmptyDir
                THEN [staging EXCEPT ![clean.dir] = NoDir] ELSE staging
  /\ clean' = NoClean
  /\ render' = Disturb({})
  /\ upset' = upset \cup Touched({})
  /\ UNCHANGED <<strict, source, folder, manifest, old, agentState,
                 edits, stops, cleans, agings>>

\* prune with --older-than, and with --all, which asks for no age: the durable
\* state is never a candidate.
CleanFolder(d) == folder[d] # NoDir /\ StartClean("aged", d)

\* gc of the cache root: the folder of an adapter is judged as one unit, by the
\* newest file in it.
CleanRoot ==
  LET there == {d \in Folders : folder[d] # NoDir} \cup {r \in Renders : staging[r] # NoDir}
                 \cup (IF agentState = "kept" THEN {Root} ELSE {})
  IN there # {} /\ there \subseteq old /\ StartClean("aged", Root)

RemoveFolder ==
  /\ clean.at = "aged"
  /\ LET gone == IF clean.dir = Root THEN Folders ELSE {clean.dir}
     IN /\ folder' = [d \in Folders |-> IF d \in gone THEN NoDir ELSE folder[d]]
        /\ manifest' = [d \in Folders |-> IF d \in gone THEN NoManifest ELSE manifest[d]]
        /\ upset' = (upset \ gone) \cup Touched({})
  /\ staging' = IF clean.dir = Root THEN [r \in Renders |-> NoDir] ELSE staging
  /\ agentState' = IF clean.dir = Root /\ agentState = "kept" THEN "lost" ELSE agentState
  /\ clean' = NoClean
  /\ render' = Disturb({})
  /\ UNCHANGED <<strict, source, old, edits, stops, cleans, agings>>

CacheNext ==
  \/ \E r \in Renders :
       \/ StartRender(r) \/ RenameStaging(r) \/ ReadManifest(r) \/ WriteRendered(r)
       \/ WriteManifest(r) \/ StopRender(r) \/ CleanStaging(r)
       \/ \E f \in CacheFiles : CopyFile(r, f) \/ RemoveGhost(r, f)
  \/ \E c \in Configs : EditSource(c)
  \/ \E f \in CacheFiles : RemoveStaged(f)
  \/ \E d \in Folders : CleanFolder(d)
  \/ UseState \/ AgeCache \/ RemoveStagingDir \/ CleanRoot \/ RemoveFolder

CacheSpec == CacheInit /\ [][CacheNext]_cacheVars

-----------------------------------------------------------------------------
Exact(d, c) == \A f \in CacheFiles : folder[d][f] = IF f \in FilesOf[c] THEN c ELSE Absent

\* check-stale compares hashes only: when the manifest of a folder names a config,
\* the folder holds the files of that config and no file of another one, unless
\* a render of it was interrupted or overlapped with another actor.
FreshIsExact ==
  \A d \in Folders :
    folder[d] # NoDir /\ manifest[d].hash # Absent /\ d \notin upset
      /\ (\A r \in Renders : Rendering(r) => FolderOf(r) # d)
    => Exact(d, manifest[d].hash)

\* A render in place that ran with nobody else leaves every file of its config as
\* the config has it, and its own manifest, whatever earlier renders, edits and
\* cleanups left behind.
QuietRenderHeals ==
  \A r \in Renders :
    render[r].at = "done" /\ render[r].quiet /\ ~strict =>
      /\ \A f \in FilesOf[render[r].hash] : folder[Shape][f] = render[r].hash
      /\ manifest[Shape].hash = render[r].hash

\* Without an idle retention, no cleanup removes the durable state, not even --all.
StateLostNeedsAge == agentState = "lost" => agings > 0

\* A folder is what its manifest says, a quiet render repairs it, and cleanups keep the
\* durable state.
FoldersKept == FreshIsExact /\ QuietRenderHeals /\ StateLostNeedsAge
=============================================================================
