-------------------------- MODULE PermissionRender --------------------------
(***************************************************************************)
(* How permission rules become the settings of an engine. For Claude Code  *)
(* (src/src/adapter/claude_code/mod.rs): neutral and native rules, the     *)
(* tiers of MCP tools, the authority pass, and the `native` fragment. For  *)
(* opencode (src/src/adapter/opencode/permissions.rs): one map that is     *)
(* filled action by action. A rule is the string that the engine reads.    *)
(***************************************************************************)
EXTENDS Integers, FiniteSets

CONSTANTS Rules,
          Normalize,       \* rule -> the rule under the tool's current name
          TierTools,       \* rules for the tools of an MCP server with tiers
          TierOf,          \* tool -> its tier
          MaxAuthored      \* rules that the user wrote

Actions == {"allow", "ask", "deny"}
Sources == {"neutral", "native", "fragment"}
Tiers == {"read_only", "mutation", "destructive"}

ASSUME PermissionAssumption ==
  /\ Normalize \in [Rules -> Rules]
  /\ TierTools \subseteq Rules
  /\ TierOf \in [TierTools -> Tiers]
  /\ MaxAuthored \in Nat

VARIABLES written,         \* source -> action -> rules
          authored,        \* how many rules were written
          tiersOn,         \* the MCP server is in the manifest
          override,        \* tier -> the action of mcp_permissions, or "default"
          buckets,         \* Claude Code: action -> rules in settings.json
          effect,          \* opencode: rule -> action, or "none"
          stage

permVars == <<written, authored, tiersOn, override, buckets, effect, stage>>

PermInit ==
  /\ written = [s \in Sources |-> [a \in Actions |-> {}]]
  /\ authored = 0
  /\ tiersOn \in BOOLEAN
  /\ override \in [Tiers -> Actions \cup {"default"}]
  /\ \A t \in Tiers : (\A r \in TierTools : TierOf[r] # t) => override[t] = "default"
  /\ buckets = [a \in Actions |-> {}]
  /\ effect = [r \in Rules |-> "none"]
  /\ stage = "authoring"

\* The user, or a bundle, writes a rule.
WriteRule(s, a, r) ==
  /\ stage = "authoring" /\ authored < MaxAuthored
  /\ r \notin written[s][a]
  /\ written' = [written EXCEPT ![s][a] = @ \cup {r}]
  /\ authored' = authored + 1
  /\ UNCHANGED <<tiersOn, override, buckets, effect, stage>>

\* normalize_deprecated_tool, for every source.
RulesOf(s, a) == {Normalize[r] : r \in written[s][a]}

Stricter(a) == IF a = "allow" THEN {"ask", "deny"} ELSE IF a = "ask" THEN {"deny"} ELSE {}

-----------------------------------------------------------------------------
(* Claude Code                                                             *)

\* A native rule of a stricter action outranks a rule.
Outranked(r, a) == \E b \in Stricter(a) : r \in RulesOf("native", b)

\* render_action: an outranked neutral rule goes, unless a native rule of its own action says it.
RenderAction(a) ==
  {r \in RulesOf("neutral", a) : ~Outranked(r, a) \/ r \in RulesOf("native", a)}
    \cup RulesOf("native", a)

\* tier_action: the override, else allow, and ask for destructive tools.
TierAction(t) ==
  IF override[t] # "default" THEN override[t]
  ELSE IF t = "destructive" THEN "ask" ELSE "allow"

\* apply_mcp_tier_permissions: one action per tool, unless a native rule outranks it.
TierRules(a) ==
  {r \in TierTools : tiersOn /\ TierAction(TierOf[r]) = a /\ ~Outranked(r, a)}

\* Mutant: ask is not taken out of allow.
AuthorityDenyOnly(b) ==
  [b EXCEPT !["ask"] = @ \ b["deny"], !["allow"] = @ \ b["deny"]]

\* apply_permission_authority: a rule stays in its strictest bucket only.
Authority(b) ==
  [a \in Actions |-> b[a] \ UNION {b[c] : c \in Stricter(a)}]

RenderRules ==
  /\ stage = "authoring"
  /\ buckets' = [a \in Actions |-> RenderAction(a)]
  /\ stage' = "rules"
  /\ UNCHANGED <<written, authored, tiersOn, override, effect>>

ApplyTiers ==
  /\ stage = "rules"
  /\ buckets' = [a \in Actions |-> buckets[a] \cup TierRules(a)]
  /\ stage' = "tiers"
  /\ UNCHANGED <<written, authored, tiersOn, override, effect>>

\* The last pass of generate_settings_json.
SettleBuckets ==
  /\ stage = "tiers"
  /\ buckets' = Authority(buckets)
  /\ stage' = "settings"
  /\ UNCHANGED <<written, authored, tiersOn, override, effect>>

\* merge_native_permissions: the fragment's rules are added, and the authority holds again.
OverlayFragment ==
  /\ stage = "settings"
  /\ buckets' = Authority([a \in Actions |-> buckets[a] \cup RulesOf("fragment", a)])
  /\ stage' = "overlaid"
  /\ UNCHANGED <<written, authored, tiersOn, override, effect>>

-----------------------------------------------------------------------------
(* opencode: the tiers of actions in turn, neutral before native; the last *)
(* insert of a key stays.                                                  *)

InsertPatterns(a) ==
  [r \in Rules |-> IF r \in RulesOf("neutral", a) \cup RulesOf("native", a) THEN a ELSE effect[r]]

OpencodeNext(from, to, a) ==
  /\ stage = from
  /\ effect' = InsertPatterns(a)
  /\ stage' = to
  /\ UNCHANGED <<written, authored, tiersOn, override, buckets>>

OpencodeAllow == OpencodeNext("authoring", "oc_allow", "allow")
OpencodeAsk == OpencodeNext("oc_allow", "oc_ask", "ask")
OpencodeDeny == OpencodeNext("oc_ask", "oc_deny", "deny")

PermNext ==
  \/ \E s \in Sources, a \in Actions, r \in Rules : WriteRule(s, a, r)
  \/ RenderRules \/ ApplyTiers \/ SettleBuckets \/ OverlayFragment
  \/ OpencodeAllow \/ OpencodeAsk \/ OpencodeDeny

PermSpec == PermInit /\ [][PermNext]_permVars

-----------------------------------------------------------------------------
\* Whether a source of the settings says the action for the rule; the sources are named.
SaidIn(from, r, a) ==
  \/ \E s \in from : \E w \in written[s][a] : Normalize[w] = r
  \/ tiersOn /\ r \in TierTools /\ TierAction(TierOf[r]) = a

\* Deny > ask > allow over all the sources: in the finished settings a rule is in the bucket of
\* the strictest action that any source says for it under the tool's current name, and in no
\* other bucket, although each source is filtered and added on its own.
StrictestWins ==
  stage = "overlaid" =>
    \A r \in Rules, a \in Actions :
      r \in buckets[a] <=> /\ SaidIn(Sources, r, a)
                           /\ \A b \in Stricter(a) : ~SaidIn(Sources, r, b)

\* The buckets never overlap once the authority pass ran, before the fragment and after it.
BucketsDisjoint ==
  stage \in {"settings", "overlaid"} =>
    \A a, b \in Actions : a # b => buckets[a] \cap buckets[b] = {}

\* opencode has one effect per rule, and it is the strictest that a source says.
OpencodeStrictest ==
  stage = "oc_deny" =>
    \A r \in Rules, a \in Actions :
      effect[r] = a <=>
        /\ r \in RulesOf("neutral", a) \cup RulesOf("native", a)
        /\ \A b \in Stricter(a) : r \notin RulesOf("neutral", b) \cup RulesOf("native", b)

\* Both engines get the strictest action that a source says for a rule, and no other.
StrictestRendered == BucketsDisjoint /\ StrictestWins /\ OpencodeStrictest
=============================================================================
