------------------------- MODULE FilterRulesProofs -------------------------
(***************************************************************************)
(* What Compile and Allow make of the rules of an app is what the rules    *)
(* say, and the reason in the event is true of them: for all rules, ids,   *)
(* patterns and texts.                                                     *)
(***************************************************************************)
EXTENDS FilterRules, TLAPS

Unset == {"", "default"}

-----------------------------------------------------------------------------
(***************************************************************************)
(* The operators.                                                          *)
(***************************************************************************)
\* The deciding level of two is the first unless it is unset, then the second unless it
\* is unset too, and else there is none.
LEMMA TwoLevels ==
    ASSUME NEW a, NEW b
    PROVE  Deciding(<<a, b>>) = IF a.mode \notin Unset THEN {a}
                                ELSE IF b.mode \notin Unset THEN {b} ELSE {}
<1> DEFINE levels == <<a, b>>
           own(k)  == levels[k].mode \notin {"", "default"}
           At      == {j \in DOMAIN levels : \A k \in 1..j : own(k) <=> k = j}
<1>1. DOMAIN levels = {1, 2} /\ levels[1] = a /\ levels[2] = b
  OBVIOUS
<1>2. 1..1 = {1} /\ 1..2 = {1, 2}
  OBVIOUS
<1>3. At = IF own(1) THEN {1} ELSE IF own(2) THEN {2} ELSE {}
  <2> HIDE DEF own
  <2>1. 1 \in At <=> own(1)
    BY <1>1, <1>2
  <2>2. 2 \in At <=> ~own(1) /\ own(2)
    BY <1>1, <1>2
  <2>3. At \subseteq {1, 2}
    BY <1>1
  <2> QED  BY <2>1, <2>2, <2>3
<1>4. Deciding(levels) = {levels[i] : i \in At}
  BY DEF Deciding
<1>5. {levels[i] : i \in {1}} = {a} /\ {levels[i] : i \in {2}} = {b}
  BY <1>1
<1>6. own(1) <=> a.mode \notin Unset
  BY <1>1 DEF Unset
<1>7. own(2) <=> b.mode \notin Unset
  BY <1>1 DEF Unset
<1> HIDE DEF own, At
<1>8. CASE own(1)
  BY <1>3, <1>4, <1>5, <1>6, <1>8
<1>9. CASE ~own(1) /\ own(2)
  BY <1>3, <1>4, <1>5, <1>6, <1>7, <1>9
<1>10. CASE ~own(1) /\ ~own(2)
  BY <1>3, <1>4, <1>6, <1>7, <1>10
<1> QED  BY <1>8, <1>9, <1>10

\* An inherited rule is that of the first level with a mode, and of the second if none has.
LEMMA Inherited ==
    ASSUME NEW a, NEW b
    PROVE  /\ Inherit(a, b) = IF a.mode \notin Unset THEN a ELSE b
           /\ Inherit(a, b).mode \notin Unset => Deciding(<<a, b>>) = {Inherit(a, b)}
           /\ Inherit(a, b).mode \in Unset => Deciding(<<a, b>>) = {} /\ Inherit(a, b) = b
  BY TwoLevels DEF Inherit, Unset

\* The id filter that Compile makes of two levels admits what the levels are open to.
LEMMA IdsAsMeant ==
    ASSUME NEW a \in IDRule, NEW b \in IDRule, NEW id
    PROVE  Admits(Inherit(a, b), id) <=> OpenTo(<<a, b>>, id)
<1> DEFINE r == Inherit(a, b)
<1>1. r \in IDRule
  BY Inherited
<1>2. CASE r.mode \in Unset
  <2>1. Deciding(<<a, b>>) = {}
    BY <1>2, Inherited
  <2> QED  BY <1>2, <2>1 DEF Admits, OpenTo, Unset
<1>3. CASE r.mode \notin Unset
  <2>1. Deciding(<<a, b>>) = {r}
    BY <1>3, Inherited
  <2> HIDE DEF r
  <2>2. OpenTo(<<a, b>>, id) <=>
            \/ id = 0
            \/ /\ r.mode # "off"
               /\ r.mode = "whitelist" => id \in r.ids
               /\ r.mode = "blacklist" => id \notin r.ids
    BY <2>1 DEF OpenTo
  <2>3. r.mode \in Modes
    BY <1>1 DEF IDRule
  <2>4. Admits(r, id) <=> OpenTo(<<a, b>>, id)
    BY <2>2, <2>3 DEF Admits, Modes
  <2> QED  BY <2>4 DEF r
<1> QED  BY <1>2, <1>3

\* compileMessage keeps the mode and the prefixes; of the patterns the valid ones matter.
LEMMA MessageCompiled ==
    ASSUME NEW rule \in MessageRule, NEW msg
    PROVE  /\ CompileMessage(rule).mode = rule.mode
           /\ Matched(CompileMessage(rule), msg) <=> Hit(rule, msg)
           /\ PrefixHits(CompileMessage(rule), msg) # {} <=> Called(rule, msg)
<1> DEFINE c == CompileMessage(rule)
<1>1. /\ c.mode = rule.mode /\ c.prefix = rule.prefix
      /\ c.filters = rule.filters \cap Valid
  BY DEF CompileMessage, MessageRule
<1> HIDE DEF c
<1>2. Matched(c, msg) <=> Hit(rule, msg)
  BY <1>1 DEF Matched, MatchesText, Hit
<1>3. rule.prefix \in Seq(Seq(Word))
  BY DEF MessageRule
<1>4. ASSUME NEW i \in DOMAIN rule.prefix, IsPrefix(rule.prefix[i], Lead(msg)),
             rule.prefix[i] # <<>>
      PROVE  Lead(msg) # <<>>
  <2> DEFINE p == rule.prefix[i]
  <2>1. p \in Seq(Word)
    BY <1>3
  <2>2. Len(p) <= Len(Lead(msg))
    BY <1>4 DEF IsPrefix
  <2>3. Len(p) # 0
    BY <1>4, <2>1
  <2>4. Len(p) \in Nat
    BY <2>1
  <2>5. Lead(msg) = <<>> => Len(Lead(msg)) = 0
    OBVIOUS
  <2> QED  BY <2>2, <2>3, <2>4, <2>5
<1>5. PrefixHits(c, msg) # {} <=> Called(rule, msg)
  BY <1>1, <1>4 DEF PrefixHits, Called, ToSet
<1> QED  BY <1>1, <1>2, <1>5 DEF c

-----------------------------------------------------------------------------
(***************************************************************************)
(* What Allow says, in the terms of the configured rules.                  *)
(***************************************************************************)
\* The rule that decides over the text of a message, and its default.
TextRule(c, msg) ==
    Inherit(IF msg.kind = "group" THEN c.groupMessage ELSE c.privateMessage, c.message)

\* It is a rule.
LEMMA TextRuleIsRule ==
    ASSUME NEW c \in CompiledRules, NEW msg PROVE TextRule(c, msg) \in MessageRule
<1> DEFINE own == IF msg.kind = "group" THEN c.groupMessage ELSE c.privateMessage
<1>1. own \in MessageRule /\ c.message \in MessageRule
  BY DEF CompiledRules
<1> HIDE DEF own
<1>2. Inherit(own, c.message) \in {own, c.message}
  BY DEF Inherit
<1> QED  BY <1>1, <1>2 DEF TextRule, own

\* What JudgeText says of a message under a rule, by the mode of the rule.
TextVerdict(rule, msg, v) ==
    /\ rule.mode \in {"", "on"} => v.pass = TRUE /\ v.reason = "on"
    /\ rule.mode = "off" => v.pass = FALSE /\ v.reason = "off"
    /\ rule.mode \notin {"", "on", "off"} /\ Called(rule, msg) =>
           \/ v.pass = TRUE /\ v.reason = "prefix"
           \/ v.pass = FALSE /\ v.reason = "panic" /\ ~msg.intact
    /\ rule.mode \in {"default", "unknown"} /\ ~Called(rule, msg) => v.pass = FALSE /\ v.reason = "none"
    /\ rule.mode = "whitelist" /\ ~Called(rule, msg) =>
           \/ Hit(rule, msg) /\ v.pass = TRUE /\ v.reason = "whitelist_hit"
           \/ ~Hit(rule, msg) /\ v.pass = FALSE /\ v.reason = "whitelist_miss"
    /\ rule.mode = "blacklist" /\ ~Called(rule, msg) =>
           \/ Hit(rule, msg) /\ v.pass = FALSE /\ v.reason = "blacklist_hit"
           \/ ~Hit(rule, msg) /\ v.pass = TRUE /\ v.reason = "blacklist_miss"

\* JudgeText says of a message what the mode of the rule calls for.
LEMMA TextJudged ==
    ASSUME NEW rule \in MessageRule, NEW msg
    PROVE  TextVerdict(rule, msg, JudgeText(CompileMessage(rule), msg))
<1> DEFINE c == CompileMessage(rule)
           v == JudgeText(c, msg)
<1>1. /\ c.mode = rule.mode
      /\ Matched(c, msg) <=> Hit(rule, msg)
      /\ PrefixHits(c, msg) # {} <=> Called(rule, msg)
  BY MessageCompiled
<1> SUFFICES TextVerdict(rule, msg, v)
  OBVIOUS
<1> HIDE DEF c
<1>2. rule.mode \in Modes
  BY DEF MessageRule
<1>3. CASE rule.mode \in {"", "on"}
  BY <1>1, <1>3 DEF JudgeText, Says, TextVerdict
<1>4. CASE rule.mode = "off"
  BY <1>1, <1>4 DEF JudgeText, Says, TextVerdict
<1>5. CASE rule.mode \notin {"", "on", "off"} /\ Called(rule, msg)
  <2>1. v = IF msg.intact THEN Says(TRUE, "prefix", Rewrite(c, msg)) ELSE Says(FALSE, "panic", msg)
    BY <1>1, <1>5 DEF JudgeText
  <2> HIDE DEF v
  <2>2. CASE msg.intact
    BY <1>5, <2>1, <2>2 DEF Says, TextVerdict
  <2>3. CASE ~msg.intact
    BY <1>5, <2>1, <2>3 DEF Says, TextVerdict
  <2> QED  BY <2>2, <2>3
<1>6. CASE rule.mode \in {"default", "unknown"} /\ ~Called(rule, msg)
  BY <1>1, <1>6 DEF JudgeText, Says, TextVerdict
<1>7. CASE rule.mode = "whitelist" /\ ~Called(rule, msg)
  BY <1>1, <1>7 DEF JudgeText, Says, TextVerdict
<1>8. CASE rule.mode = "blacklist" /\ ~Called(rule, msg)
  BY <1>1, <1>8 DEF JudgeText, Says, TextVerdict
<1> QED  BY <1>2, <1>3, <1>4, <1>5, <1>6, <1>7, <1>8 DEF Modes

GroupIn(c, msg) == msg.kind = "group" => OpenTo(<<c.groupID, c.defaultGroupID>>, msg.group)
UserIn(c, msg)  == OpenTo(<<c.userID, c.defaultUserID>>, msg.user)

\* Allow asks the group, then the sender, then the text, each as it is configured.
Verdict(c, msg, v) ==
    /\ ~GroupIn(c, msg) => v.pass = FALSE /\ v.reason = "group_id"
    /\ GroupIn(c, msg) /\ ~UserIn(c, msg) => v.pass = FALSE /\ v.reason = "user_id"
    /\ GroupIn(c, msg) /\ UserIn(c, msg) => TextVerdict(TextRule(c, msg), msg, v)

\* Allow under the compiled rules gives the verdict of the configured ones.
LEMMA Allowed ==
    ASSUME NEW c \in CompiledRules, NEW msg, msg.kind \in {"group", "private"}
    PROVE  Verdict(c, msg, Allow(Compiled(c), msg))
<1> DEFINE f == Compiled(c)
           v == Allow(f, msg)
<1>1. /\ f.userID = Inherit(c.userID, c.defaultUserID)
      /\ f.groupID = Inherit(c.groupID, c.defaultGroupID)
      /\ f.privateMessage = CompileMessage(Inherit(c.privateMessage, c.message))
      /\ f.groupMessage = CompileMessage(Inherit(c.groupMessage, c.message))
  BY DEF Compiled
<1>2. Admits(f.groupID, msg.group) <=> OpenTo(<<c.groupID, c.defaultGroupID>>, msg.group)
  BY <1>1, IdsAsMeant DEF CompiledRules
<1>3. Admits(f.userID, msg.user) <=> UserIn(c, msg)
  BY <1>1, IdsAsMeant DEF CompiledRules, UserIn
<1>4. (IF msg.kind = "group" THEN f.groupMessage ELSE f.privateMessage)
          = CompileMessage(TextRule(c, msg))
  BY <1>1 DEF TextRule
<1>5. TextRule(c, msg) \in MessageRule
  BY TextRuleIsRule
<1> SUFFICES Verdict(c, msg, v)
  OBVIOUS
<1> HIDE DEF f
<1>6. CASE ~GroupIn(c, msg)
  <2>1. msg.kind = "group" /\ ~Admits(f.groupID, msg.group)
    BY <1>2, <1>6 DEF GroupIn
  <2>2. v = Says(FALSE, "group_id", msg)
    BY <2>1 DEF Allow
  <2> HIDE DEF v
  <2> QED  BY <1>6, <2>2 DEF Says, Verdict
<1>7. CASE GroupIn(c, msg) /\ ~UserIn(c, msg)
  BY <1>2, <1>3, <1>7 DEF Allow, Says, GroupIn, Verdict
<1>8. CASE GroupIn(c, msg) /\ UserIn(c, msg)
  <2>1. v = JudgeText(CompileMessage(TextRule(c, msg)), msg)
    BY <1>2, <1>3, <1>4, <1>8 DEF Allow, GroupIn
  <2> QED  BY <1>5, <1>8, <2>1, TextJudged DEF Verdict
<1> QED  BY <1>6, <1>7, <1>8

-----------------------------------------------------------------------------
(***************************************************************************)
(* The machine: the filter is always what Compile makes of the rules, so   *)
(* that each judgement under a filter is a verdict on the rules.           *)
(***************************************************************************)
FilterInv == rules \in CompiledRules /\ filter \in {NoFilter, Compiled(rules)}

VerdictInv == WasJudged => Verdict(rules, outcome.input, outcome)

Inv == FilterInv /\ VerdictInv

\* A verdict depends on the pass and the reason only.
LEMMA SameVerdict ==
    ASSUME NEW c, NEW msg, NEW v, NEW w, v.pass = w.pass, v.reason = w.reason,
           Verdict(c, msg, v)
    PROVE  Verdict(c, msg, w)
  BY DEF Verdict, TextVerdict

\* A judged message, its verdict and its outcome.
LEMMA JudgedFields ==
    ASSUME NEW msg, NEW v, Judged(msg, v)
    PROVE  outcome'.input = msg /\ outcome'.pass = v.pass /\ outcome'.reason = v.reason
  BY DEF Judged

\* A reload, a frame and a probe keep the invariant: each judgement is such a verdict.
LEMMA InvStep == Inv /\ [Next]_vars => Inv'
<1> SUFFICES ASSUME Inv, [Next]_vars PROVE Inv'
  OBVIOUS
<1>1. CASE Compile
  <2>1. FilterInv'
    BY <1>1 DEF Inv, FilterInv, Compile
  <2>2. ~WasJudged'
    BY <1>1 DEF Compile, WasJudged
  <2> QED  BY <2>1, <2>2 DEF Inv, VerdictInv
<1>2. ASSUME NEW msg \in Frames, Deliver(msg) PROVE Inv'
  <2>1. FilterInv' /\ rules' = rules /\ filter = Compiled(rules)
    BY <1>2 DEF Inv, FilterInv, Deliver
  <2>2. outcome'.input = msg
    BY <1>2, JudgedFields DEF Deliver
  <2>3. ASSUME WasJudged' PROVE Verdict(rules, msg, outcome')
    <3>1. msg.kind \in {"group", "private"} /\ Parses(msg) /\ msg.raw # <<>>
      BY <2>2, <2>3 DEF WasJudged, Parses
    <3>2. Judged(msg, Allow(filter, msg))
      BY <1>2, <3>1 DEF Deliver
    <3>3. Verdict(rules, msg, Allow(filter, msg))
      BY <2>1, <3>1, Allowed DEF Inv, FilterInv
    <3> QED  BY <3>2, <3>3, JudgedFields, SameVerdict
  <2> QED  BY <2>1, <2>2, <2>3 DEF Inv, VerdictInv
<1>3. ASSUME NEW msg \in Frames, Probe(msg) PROVE Inv'
  <2> DEFINE asked == Asked(msg)
  <2>1. FilterInv' /\ rules' = rules /\ filter' = filter
    BY <1>3 DEF Inv, FilterInv, Probe
  <2>2. outcome'.input = asked
    BY <1>3, JudgedFields DEF Probe
  <2> HIDE DEF asked
  <2>3. ASSUME WasJudged' PROVE Verdict(rules, asked, outcome')
    <3>1. asked.kind \in {"group", "private"} /\ filter # NoFilter
      BY <2>1, <2>2, <2>3 DEF WasJudged
    <3>2. Judged(asked, Allow(filter, asked))
      BY <1>3, <3>1 DEF Probe, asked
    <3>3. Verdict(rules, asked, Allow(filter, asked))
      BY <3>1, Allowed DEF Inv, FilterInv
    <3> QED  BY <3>2, <3>3, JudgedFields, SameVerdict
  <2> QED  BY <2>1, <2>2, <2>3 DEF Inv, VerdictInv
<1>4. CASE UNCHANGED vars
  BY <1>4 DEF Inv, FilterInv, VerdictInv, WasJudged, vars
<1> QED  BY <1>1, <1>2, <1>3, <1>4 DEF Next

\* Every judgement under a filter is the verdict that the configured rules call for: the
\* inductive invariant, with the filter being what Compile made of the rules.
THEOREM Judgements == Spec => []Inv
<1>1. Init => Inv
  BY RulesAssumption DEF Init, Inv, FilterInv, VerdictInv, WasJudged
<1> QED  BY <1>1, InvStep, PTL DEF Spec

-----------------------------------------------------------------------------
\* The deciding rules of a message are its text rule, if that has a mode of its own.
LEMMA Levels ==
    ASSUME NEW msg
    PROVE  /\ TextRule(rules, msg).mode \notin Unset =>
                  Deciding(MessageLevels(msg)) = {TextRule(rules, msg)}
           /\ TextRule(rules, msg).mode \in Unset =>
                  Deciding(MessageLevels(msg)) = {} /\ TextRule(rules, msg) = rules.message
  BY Inherited DEF TextRule, MessageLevels

\* A text rule with a mode of its own welcomes a message where its verdict is to pass.
LEMMA WelcomeByMode ==
    ASSUME NEW rule \in MessageRule, NEW msg, NEW v,
           rule.mode \notin Unset, TextVerdict(rule, msg, v)
    PROVE  /\ v.reason # "panic" => (v.pass <=> Welcome(rule, msg))
           /\ v.reason = "panic" => Welcome(rule, msg) /\ ~msg.intact
<1>1. rule.mode \in {"on", "off", "whitelist", "blacklist", "unknown"}
  BY DEF MessageRule, Modes, Unset
<1>2. CASE rule.mode = "on"
  BY <1>2 DEF TextVerdict, Welcome
<1>3. CASE rule.mode = "off"
  BY <1>3 DEF TextVerdict, Welcome
<1>4. CASE rule.mode = "whitelist"
  BY <1>4 DEF TextVerdict, Welcome
<1>5. CASE rule.mode = "blacklist"
  BY <1>5 DEF TextVerdict, Welcome
<1>6. CASE rule.mode = "unknown"
  BY <1>6 DEF TextVerdict, Welcome
<1> QED  BY <1>1, <1>2, <1>3, <1>4, <1>5, <1>6

\* Where a level has a mode of its own, a message passes exactly when the configured
\* rules let its group, its sender and its text in, whatever the rules are: Compile and
\* Allow lose and add nothing.
THEOREM VerdictCorrect == Spec => []VerdictAsMeant
<1>1. Inv => VerdictAsMeant
  <2> SUFFICES ASSUME Inv, WasJudged PROVE VerdictAsMeant
    BY DEF VerdictAsMeant
  <2> DEFINE msg  == outcome.input
             rule == TextRule(rules, msg)
             ids  == GroupOpen(msg) /\ UserOpen(msg)
             none == Deciding(MessageLevels(msg)) = {}
             text == \A r \in Deciding(MessageLevels(msg)) : Welcome(r, msg)
  <2>1. /\ rule \in MessageRule
        /\ Verdict(rules, msg, outcome)
        /\ GroupOpen(msg) <=> GroupIn(rules, msg)
        /\ UserOpen(msg) <=> UserIn(rules, msg)
    BY TextRuleIsRule DEF Inv, FilterInv, VerdictInv, GroupOpen, UserOpen, GroupIn, UserIn
  <2>2. /\ rule.mode \notin Unset => Deciding(MessageLevels(msg)) = {rule}
        /\ rule.mode \in Unset => none
    BY Levels
  <2>3. /\ rule.mode \notin Unset => ~none /\ (text <=> Welcome(rule, msg))
        /\ rule.mode \in Unset => text
    BY <2>2
  <2> SUFFICES /\ outcome.reason = "panic" => ids /\ text /\ ~msg.intact
               /\ outcome.reason # "panic" /\ none => (outcome.pass => ids)
               /\ outcome.reason # "panic" /\ ~none => (outcome.pass <=> ids /\ text)
    BY DEF VerdictAsMeant
  <2> HIDE DEF msg, rule, text, none
  <2>4. CASE ~GroupOpen(msg) \/ ~UserOpen(msg)
    BY <2>1, <2>4 DEF Verdict
  <2>5. CASE GroupOpen(msg) /\ UserOpen(msg)
    <3>1. TextVerdict(rule, msg, outcome)
      BY <2>1, <2>5 DEF Verdict, rule
    <3>2. CASE rule.mode \notin Unset
      BY <2>1, <2>3, <2>5, <3>1, <3>2, WelcomeByMode
    <3>3. CASE rule.mode \in Unset
      BY <2>2, <2>3, <2>5, <3>1, <3>3 DEF TextVerdict, Unset
    <3> QED  BY <3>2, <3>3
  <2> QED  BY <2>4, <2>5
<1> QED  BY <1>1, Judgements, PTL

\* The reason of every event is true of the configured rules, and the sender is blamed
\* only where the group let the message in.
THEOREM ReasonCorrect == Spec => []EventsTellWhy
<1>1. Inv => EventsTellWhy
  <2> SUFFICES ASSUME Inv, WasJudged PROVE EventsTellWhy
    BY DEF EventsTellWhy
  <2> DEFINE msg  == outcome.input
             rule == TextRule(rules, msg)
  <2>1. /\ rule \in MessageRule
        /\ Verdict(rules, msg, outcome)
        /\ GroupOpen(msg) <=> GroupIn(rules, msg)
        /\ UserOpen(msg) <=> UserIn(rules, msg)
    BY TextRuleIsRule DEF Inv, FilterInv, VerdictInv, GroupOpen, UserOpen, GroupIn, UserIn
  <2>2. /\ rule.mode \notin Unset => Deciding(MessageLevels(msg)) = {rule}
        /\ rule.mode \in Unset => Deciding(MessageLevels(msg)) = {} /\ rule = rules.message
    BY Levels
  <2> HIDE DEF rule
  <2>3. CASE ~GroupOpen(msg) \/ ~UserOpen(msg)
    BY <2>1, <2>3 DEF Verdict, EventsTellWhy
  <2>4. CASE GroupOpen(msg) /\ UserOpen(msg)
    <3>1. TextVerdict(rule, msg, outcome)
      BY <2>1, <2>4 DEF Verdict, rule
    <3>2. rule.mode \in Modes
      BY <2>1 DEF MessageRule
    <3>3. CASE rule.mode \in Unset
      BY <2>2, <3>1, <3>3 DEF TextVerdict, EventsTellWhy, Unset
    <3>4. CASE rule.mode = "on"
      BY <2>2, <3>1, <3>4 DEF TextVerdict, EventsTellWhy, Unset
    <3> DEFINE told(r) == <<outcome.reason, r.mode, Hit(r, msg)>> \in
                              {<<"off", "off", TRUE>>, <<"off", "off", FALSE>>,
                               <<"whitelist_hit", "whitelist", TRUE>>,
                               <<"whitelist_miss", "whitelist", FALSE>>,
                               <<"blacklist_hit", "blacklist", TRUE>>,
                               <<"blacklist_miss", "blacklist", FALSE>>}
    <3>5. CASE rule.mode = "off"
      <4>1. outcome.reason = "off"
        BY <3>1, <3>5 DEF TextVerdict
      <4>2. told(rule)
        <5>1. Hit(rule, msg) \in BOOLEAN
          BY DEF Hit
        <5> HIDE DEF msg
        <5> QED  BY <3>5, <4>1, <5>1
      <4>3. Deciding(MessageLevels(msg)) = {rule}
        BY <2>2, <3>5 DEF Unset
      <4> QED  BY <4>1, <4>2, <4>3 DEF EventsTellWhy
    <3>6. CASE rule.mode \in {"whitelist", "blacklist"}
      <4>1. Deciding(MessageLevels(msg)) = {rule}
        BY <2>2, <3>6 DEF Unset
      <4>2. CASE Called(rule, msg)
        <5>1. outcome.reason \in {"prefix", "panic"}
          BY <3>1, <3>6, <4>2 DEF TextVerdict
        <5> QED  BY <4>1, <4>2, <5>1 DEF EventsTellWhy
      <4>3. CASE ~Called(rule, msg)
        <5>1. \/ /\ outcome.reason = "whitelist_hit" \/ outcome.reason = "blacklist_hit"
                 /\ Hit(rule, msg)
              \/ /\ outcome.reason = "whitelist_miss" \/ outcome.reason = "blacklist_miss"
                 /\ ~Hit(rule, msg)
          BY <3>1, <3>6, <4>3 DEF TextVerdict
        <5>2. told(rule)
          <6>1. CASE Hit(rule, msg)
            <7>1. \/ outcome.reason = "whitelist_hit" /\ rule.mode = "whitelist"
                  \/ outcome.reason = "blacklist_hit" /\ rule.mode = "blacklist"
              BY <3>1, <3>6, <4>3, <6>1 DEF TextVerdict
            <7>2. Hit(rule, msg) = TRUE
              BY <6>1 DEF Hit
            <7> HIDE DEF msg
            <7> QED  BY <7>1, <7>2
          <6>2. CASE ~Hit(rule, msg)
            <7>1. \/ outcome.reason = "whitelist_miss" /\ rule.mode = "whitelist"
                  \/ outcome.reason = "blacklist_miss" /\ rule.mode = "blacklist"
              BY <3>1, <3>6, <4>3, <6>2 DEF TextVerdict
            <7>2. Hit(rule, msg) = FALSE
              BY <6>2 DEF Hit
            <7> HIDE DEF msg
            <7> QED  BY <7>1, <7>2
          <6> QED  BY <6>1, <6>2
        <5> QED  BY <4>1, <5>1, <5>2 DEF EventsTellWhy
      <4> QED  BY <4>2, <4>3
    <3>7. CASE rule.mode = "unknown"
      <4>1. Deciding(MessageLevels(msg)) = {rule}
        BY <2>2, <3>7 DEF Unset
      <4> QED  BY <3>1, <3>7, <4>1 DEF TextVerdict, EventsTellWhy
    <3> QED  BY <3>2, <3>3, <3>4, <3>5, <3>6, <3>7 DEF Modes, Unset
  <2> QED  BY <2>3, <2>4
<1> QED  BY <1>1, Judgements, PTL
=============================================================================
