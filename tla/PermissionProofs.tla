-------------------------- MODULE PermissionProofs --------------------------
(***************************************************************************)
(* Deny wins over ask and ask over allow in the settings of both engines,  *)
(* for every set of rules, tools and tiers. The invariant says what the    *)
(* buckets, or the one map of opencode, hold after each pass.              *)
(***************************************************************************)
EXTENDS PermissionRender, TLAPS

Rendered == [a \in Actions |-> RenderAction(a)]
Tiered == [a \in Actions |-> RenderAction(a) \cup TierRules(a)]
Settled == Authority(Tiered)
Overlaid == Authority([a \in Actions |-> Settled[a] \cup RulesOf("fragment", a)])

\* The rules that opencode reads for an action.
OcRules(a) == RulesOf("neutral", a) \cup RulesOf("native", a)

PermInv ==
  /\ stage = "rules" => buckets = Rendered
  /\ stage = "tiers" => buckets = Tiered
  /\ stage = "settings" => buckets = Settled
  /\ stage = "overlaid" => buckets = Overlaid
  /\ stage = "authoring" => effect = [r \in Rules |-> "none"]
  /\ stage = "oc_allow" => effect = [r \in Rules |-> IF r \in OcRules("allow") THEN "allow" ELSE "none"]
  /\ stage = "oc_ask" => effect = [r \in Rules |-> IF r \in OcRules("ask") THEN "ask"
                                                   ELSE IF r \in OcRules("allow") THEN "allow" ELSE "none"]
  /\ stage = "oc_deny" => effect = [r \in Rules |-> IF r \in OcRules("deny") THEN "deny"
                                                    ELSE IF r \in OcRules("ask") THEN "ask"
                                                    ELSE IF r \in OcRules("allow") THEN "allow" ELSE "none"]

\* What the passes compute reads only what the user wrote.
LEMMA SameInputs ==
  ASSUME UNCHANGED <<written, tiersOn, override>>
  PROVE  /\ Rendered' = Rendered /\ Tiered' = Tiered /\ Settled' = Settled /\ Overlaid' = Overlaid
         /\ \A a \in Actions : /\ RenderAction(a)' = RenderAction(a) /\ TierRules(a)' = TierRules(a)
                               /\ OcRules(a)' = OcRules(a) /\ RulesOf("fragment", a)' = RulesOf("fragment", a)
<1>1. \A x \in Sources, a \in Actions : RulesOf(x, a)' = RulesOf(x, a)
  BY DEF RulesOf
<1>2. \A a \in Actions : RenderAction(a)' = RenderAction(a)
  BY <1>1 DEF RenderAction, Outranked, Stricter, RulesOf
<1>3. \A a \in Actions : TierRules(a)' = TierRules(a)
  BY <1>1 DEF TierRules, TierAction, Outranked, Stricter, RulesOf
<1>4. \A a \in Actions : OcRules(a)' = OcRules(a) /\ RulesOf("fragment", a)' = RulesOf("fragment", a)
  BY <1>1 DEF OcRules, Sources, RulesOf
<1>5. Rendered' = Rendered /\ Tiered' = Tiered
  BY <1>2, <1>3 DEF Rendered, Tiered
<1>6. Settled' = Settled
  BY <1>5 DEF Settled, Authority
<1>7. Overlaid' = Overlaid
  BY <1>4, <1>6 DEF Overlaid, Authority
<1> QED
  BY <1>2, <1>3, <1>4, <1>5, <1>6, <1>7

\* Every step keeps the invariant.
LEMMA PermStep ==
  ASSUME PermInv, [PermNext]_permVars
  PROVE  PermInv'
<1> USE DEF Actions
<1>1. ASSUME NEW s \in Sources, NEW a \in Actions, NEW r \in Rules, WriteRule(s, a, r) PROVE PermInv'
  BY <1>1 DEF WriteRule, PermInv
<1>2. CASE RenderRules
  BY <1>2, SameInputs DEF RenderRules, PermInv, Rendered
<1>3. CASE ApplyTiers
  BY <1>3, SameInputs DEF ApplyTiers, PermInv, Rendered, Tiered
<1>4. CASE SettleBuckets
  <2>1. buckets' = Settled /\ stage' = "settings" /\ Settled' = Settled
    BY <1>4, SameInputs DEF SettleBuckets, PermInv, Settled
  <2> QED
    BY <2>1 DEF PermInv
<1>5. CASE OverlayFragment
  <2>1. buckets' = Overlaid /\ stage' = "overlaid" /\ Overlaid' = Overlaid
    BY <1>5, SameInputs DEF OverlayFragment, PermInv, Overlaid
  <2> QED
    BY <2>1 DEF PermInv
<1>6. CASE OpencodeAllow
  BY <1>6, SameInputs DEF OpencodeAllow, OpencodeNext, InsertPatterns, PermInv, OcRules
<1>7. CASE OpencodeAsk
  BY <1>7, SameInputs DEF OpencodeAsk, OpencodeNext, InsertPatterns, PermInv, OcRules
<1>8. CASE OpencodeDeny
  BY <1>8, SameInputs DEF OpencodeDeny, OpencodeNext, InsertPatterns, PermInv, OcRules
<1>9. CASE UNCHANGED permVars
  BY <1>9, SameInputs DEF permVars, PermInv
<1> QED
  BY <1>1, <1>2, <1>3, <1>4, <1>5, <1>6, <1>7, <1>8, <1>9 DEF PermNext

\* The invariant holds in every state of the two renderers.
THEOREM PermInvariance == PermSpec => []PermInv
<1>1. PermInit => PermInv
  BY DEF PermInit, PermInv
<1>2. PermInv /\ [PermNext]_permVars => PermInv'
  BY PermStep
<1> QED
  BY <1>1, <1>2, PTL DEF PermSpec

-----------------------------------------------------------------------------
\* The authority pass, bucket by bucket.
LEMMA AuthorityBuckets ==
  ASSUME NEW b
  PROVE  /\ Authority(b)["deny"] = b["deny"]
         /\ Authority(b)["ask"] = b["ask"] \ b["deny"]
         /\ Authority(b)["allow"] = b["allow"] \ (b["ask"] \cup b["deny"])
BY DEF Authority, Actions, Stricter

\* apply_permission_authority leaves buckets that do not overlap.
THEOREM BucketsStayDisjoint == PermSpec => []BucketsDisjoint
<1>1. PermInv => BucketsDisjoint
  <2> SUFFICES ASSUME PermInv, stage \in {"settings", "overlaid"},
                      NEW a \in Actions, NEW b \in Actions, a # b
               PROVE  buckets[a] \cap buckets[b] = {}
    BY DEF BucketsDisjoint
  <2>1. PICK t : buckets = Authority(t)
    BY DEF PermInv, Settled, Overlaid
  <2> QED
    BY <2>1, AuthorityBuckets DEF Actions
<1> QED
  BY <1>1, PermInvariance, PTL

\* What the sources say of a rule, for the rule strings of the passes.
TierSays(a) == {r \in TierTools : tiersOn /\ TierAction(TierOf[r]) = a}
SaidRules(a) == RulesOf("neutral", a) \cup RulesOf("native", a) \cup RulesOf("fragment", a) \cup TierSays(a)

LEMMA SaidIsInRules ==
  ASSUME NEW r, NEW a
  PROVE  SaidIn(Sources, r, a) <=> r \in SaidRules(a)
BY DEF SaidIn, Sources, SaidRules, RulesOf, TierSays

\* The finished buckets, from what the sources say.
LEMMA OverlaidBuckets ==
  /\ Overlaid["deny"] = SaidRules("deny")
  /\ Overlaid["ask"] = SaidRules("ask") \ SaidRules("deny")
  /\ Overlaid["allow"] = SaidRules("allow") \ (SaidRules("ask") \cup SaidRules("deny"))
<1> DEFINE N(a) == RulesOf("neutral", a)
           V(a) == RulesOf("native", a)
           F(a) == RulesOf("fragment", a)
           T(a) == TierSays(a)
<1>1. Tiered["deny"] = N("deny") \cup V("deny") \cup T("deny")
  BY DEF Tiered, Actions, RenderAction, TierRules, TierSays, Outranked, Stricter
<1>2. Tiered["ask"] = {r \in N("ask") \cup T("ask") : r \notin V("deny")} \cup V("ask")
                        \cup {r \in N("ask") : r \in V("ask")}
  BY DEF Tiered, Actions, RenderAction, TierRules, TierSays, Outranked, Stricter
<1>3. Tiered["allow"] = {r \in N("allow") \cup T("allow") : r \notin V("ask") \cup V("deny")} \cup V("allow")
  BY DEF Tiered, Actions, RenderAction, TierRules, TierSays, Outranked, Stricter
<1>4. /\ Settled["deny"] = Tiered["deny"]
      /\ Settled["ask"] = Tiered["ask"] \ Tiered["deny"]
      /\ Settled["allow"] = Tiered["allow"] \ (Tiered["ask"] \cup Tiered["deny"])
  BY AuthorityBuckets DEF Settled
<1>5. /\ Overlaid["deny"] = Settled["deny"] \cup F("deny")
      /\ Overlaid["ask"] = (Settled["ask"] \cup F("ask")) \ (Settled["deny"] \cup F("deny"))
      /\ Overlaid["allow"] = (Settled["allow"] \cup F("allow"))
                               \ (Settled["ask"] \cup F("ask") \cup Settled["deny"] \cup F("deny"))
  BY AuthorityBuckets DEF Overlaid, Actions
<1> HIDE DEF N, V, F, T
<1>6. \A a \in Actions : SaidRules(a) = N(a) \cup V(a) \cup F(a) \cup T(a)
  BY DEF SaidRules, N, V, F, T
<1> QED
  BY <1>1, <1>2, <1>3, <1>4, <1>5, <1>6 DEF Actions

\* Deny > ask > allow over every source in the finished settings of Claude Code.
THEOREM StrictestAlwaysWins == PermSpec => []StrictestWins
<1>1. PermInv => StrictestWins
  <2> SUFFICES ASSUME PermInv, stage = "overlaid", NEW r \in Rules, NEW a \in Actions
               PROVE  r \in buckets[a] <=> /\ SaidIn(Sources, r, a)
                                           /\ \A b \in Stricter(a) : ~SaidIn(Sources, r, b)
    BY DEF StrictestWins
  <2>1. buckets = Overlaid
    BY DEF PermInv
  <2>2. CASE a = "deny"
    BY <2>1, <2>2, OverlaidBuckets, SaidIsInRules DEF Stricter
  <2>3. CASE a = "ask"
    BY <2>1, <2>3, OverlaidBuckets, SaidIsInRules DEF Stricter
  <2>4. CASE a = "allow"
    BY <2>1, <2>4, OverlaidBuckets, SaidIsInRules DEF Stricter
  <2> QED
    BY <2>2, <2>3, <2>4 DEF Actions
<1> QED
  BY <1>1, PermInvariance, PTL

\* The one effect that opencode has for a rule is the strictest of its rules.
THEOREM OpencodeAlwaysStrictest == PermSpec => []OpencodeStrictest
<1>1. PermInv => OpencodeStrictest
  <2> SUFFICES ASSUME PermInv, stage = "oc_deny", NEW r \in Rules, NEW a \in Actions
               PROVE  effect[r] = a <=> r \in OcRules(a) /\ \A b \in Stricter(a) : r \notin OcRules(b)
    BY DEF OpencodeStrictest, OcRules
  <2> QED
    BY DEF PermInv, Actions, Stricter
<1> QED
  BY <1>1, PermInvariance, PTL

\* Both engines get the strictest action, for any rules, renamings, tiers and overrides.
THEOREM StrictestAlwaysRendered == PermSpec => []StrictestRendered
  BY BucketsStayDisjoint, StrictestAlwaysWins, OpencodeAlwaysStrictest, PTL DEF StrictestRendered
=============================================================================
