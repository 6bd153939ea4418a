----------------------------- MODULE BundleMerge -----------------------------
(***************************************************************************)
(* Which bundles fire, at which rank, and what their merge is              *)
(* (src/src/bundle_select.rs, src/src/merge): one scalar capability, where *)
(* the highest rank wins and a tie is an error, and one key of a native    *)
(* fragment, which is overlaid in the order of the ranks.                  *)
(***************************************************************************)
EXTENDS Integers, Sequences, FiniteSets, SequencesExt

CONSTANTS Bundles, Tags, Values,
          TagSets,         \* the `when` lists of bundles
          ScopesInUse,     \* kinds of scope that emit tags, by their place in Precedence
          MaxScopes        \* how many of them are active at once

ASSUME BundleAssumption ==
  MaxScopes \in Nat /\ ScopesInUse \subseteq 1 .. 5 /\ \A w \in TagSets : w \subseteq Tags

Unset == "unset"
Conflict == "conflict"
TopLevel == "config.yaml"
Contributors == Bundles \cup {TopLevel}
Orders == {o \in [1 .. Cardinality(Bundles) -> Bundles] : \A b \in Bundles : \E k \in DOMAIN o : o[k] = b}

VARIABLES when, emits,     \* bundle -> its tags; kind of scope -> the tags it emits
          enabled, disabled, \* bundles of the project marker
          hasDir,          \* bundles with a content folder
          declared,        \* the bundles in the order of config.yaml
          sets, fragment,  \* contributor -> the scalar and the native key it sets
          refs,            \* the contributors that the merge reads
          merged           \* the result

bundleVars == <<when, emits, enabled, disabled, hasDir, declared, sets, fragment, refs, merged>>

\* PRECEDENCE: a kind of scope is its place in this list.
Precedence == <<"network", "host", "user", "content", "project">>
KindsOfScope == 1 .. Len(Precedence)
NotPlaced == Len(Precedence) + 1

ActiveKinds == {k \in KindsOfScope : emits[k] # {}}
ActiveTags == UNION {emits[k] : k \in KindsOfScope}

BundleInit ==
  /\ when \in [Bundles -> TagSets]
  /\ emits \in [KindsOfScope -> {{}} \cup {{t} : t \in Tags}]
  /\ ActiveKinds \subseteq ScopesInUse /\ Cardinality(ActiveKinds) <= MaxScopes
  /\ enabled \in {{}} \cup {{b} : b \in Bundles}
  /\ disabled \in {{}, enabled} \cup {{b} : b \in Bundles}
  /\ hasDir \in {Bundles} \cup {Bundles \ {b} : b \in enabled}
  /\ declared \in Orders
  /\ sets \in [Contributors -> Values \cup {Unset}]
  /\ fragment \in [Contributors -> Values \cup {Unset}]
  /\ fragment[TopLevel] = Unset
  /\ refs = <<>>
  /\ merged = [scalar |-> Unset, native |-> Unset]

-----------------------------------------------------------------------------
(* bundle_select.rs                                                        *)

TagOrMarkerSelected(b) == when[b] \cap ActiveTags # {} \/ b \in enabled

\* disable_bundles wins over tags and over enable_bundles.
FiringBundles(order) == SelectSeq(order, LAMBDA b : b \notin disabled /\ TagOrMarkerSelected(b))

\* The first kind in PRECEDENCE whose tags select the bundle places it.
PlacedBy(b) ==
  LET kinds == {k \in KindsOfScope : when[b] \cap emits[k] # {}}
  IN IF kinds = {} THEN NotPlaced ELSE CHOOSE k \in kinds : \A j \in kinds : k <= j

\* build_bundle_refs: by kind, then in declared order; a bundle without a folder is dropped.
BuildBundleRefs(firing) ==
  FlattenSeq([k \in 1 .. NotPlaced |->
    LET placed == SelectSeq(firing, LAMBDA b : b \in hasDir /\ PlacedBy(b) = k)
    IN [n \in DOMAIN placed |-> [who |-> placed[n], rank |-> NotPlaced - k]]])

\* merge: the top level outranks every bundle.
TopRank == 255
ContributorsOf(order) ==
  <<[who |-> TopLevel, rank |-> TopRank]>> \o BuildBundleRefs(FiringBundles(order))

-----------------------------------------------------------------------------
(* merge/precedence.rs                                                     *)

EntriesOf(cs, value) == SelectSeq(cs, LAMBDA c : value[c.who] # Unset)

\* check_same_precedence_ties: two values at one rank, at any rank.
HasTie(es, value) ==
  \E j, k \in DOMAIN es : es[j].rank = es[k].rank /\ value[es[j].who] # value[es[k].who]

\* The last entry of the highest rank.
LastOfHighest(es, value) ==
  LET top == {k \in DOMAIN es : \A j \in DOMAIN es : es[j].rank <= es[k].rank}
  IN IF es = <<>> THEN Unset ELSE value[es[CHOOSE k \in top : \A j \in top : j <= k].who]

\* Mutant: ties are not looked for.
HighestPrecedenceLastSeen(cs, value) == LastOfHighest(EntriesOf(cs, value), value)

\* max_by_key returns the last of the highest, but a tie fails before it.
HighestPrecedence(cs, value) ==
  IF HasTie(EntriesOf(cs, value), value) THEN Conflict ELSE LastOfHighest(EntriesOf(cs, value), value)

\* merge_native_feature: overlaid by rank with a stable sort and no look for ties, so the last
\* of the highest stays.
MergeNative(cs, value) == LastOfHighest(EntriesOf(cs, value), value)

\* A conflict fails the whole merge.
MergeOf(cs) ==
  LET scalar == HighestPrecedence(cs, sets)
  IN [scalar |-> scalar,
      native |-> IF scalar = Conflict THEN Conflict ELSE MergeNative(cs, fragment)]

MergeBundles ==
  /\ refs = <<>>
  /\ refs' = ContributorsOf(declared)
  /\ merged' = MergeOf(refs')
  /\ UNCHANGED <<when, emits, enabled, disabled, hasDir, declared, sets, fragment>>

BundleNext == MergeBundles
BundleSpec == BundleInit /\ [][BundleNext]_bundleVars

-----------------------------------------------------------------------------
IsMerged == refs # <<>>
ActiveBundles == {refs[k].who : k \in DOMAIN refs} \ {TopLevel}

\* "Contributors may be supplied in any order": the scalar, or the conflict, is the
\* same whatever the order of the bundles in config.yaml and of the contributors.
MergeIsOrderFree ==
  IsMerged => /\ \A o \in Orders : MergeOf(ContributorsOf(o)).scalar = merged.scalar
              /\ HighestPrecedence(Reverse(refs), sets) = merged.scalar

\* The native key depends on the order in config.yaml only when two bundles of one rank
\* set it to different values.
NativeOrderNeedsTie ==
  IsMerged /\ (\E o \in Orders : MergeOf(ContributorsOf(o)) # merged) =>
    \E b, c \in ActiveBundles : PlacedBy(b) = PlacedBy(c) /\ fragment[b] # fragment[c]

\* "disable always wins": what a disabled bundle sets changes nothing, however many
\* scopes or markers select it.
DisabledHasNoSay ==
  IsMerged => /\ ActiveBundles \cap disabled = {}
              /\ \A k \in DOMAIN refs : refs[k].who # TopLevel => TagOrMarkerSelected(refs[k].who)

\* "the more specific scope wins": of two bundles that one kind of scope each selects, the
\* one of the later kind (project last) decides the scalar, unless config.yaml sets it.
SpecificScopeWins ==
  IsMerged /\ sets[TopLevel] = Unset /\ Cardinality(Bundles) = 2 =>
    \A b, c \in ActiveBundles :
      /\ PlacedBy(b) < PlacedBy(c) /\ PlacedBy(c) # NotPlaced
      /\ \A k \in KindsOfScope \ {PlacedBy(b)} : when[b] \cap emits[k] = {}
      /\ Unset \notin {sets[b], sets[c]}
      => merged.scalar = sets[c]

\* The merge is determined by scopes and markers: order counts only in a tie of a native
\* key, and a disabled bundle has no say.
MergeIsDetermined == MergeIsOrderFree /\ NativeOrderNeedsTie /\ DisabledHasNoSay
=============================================================================
