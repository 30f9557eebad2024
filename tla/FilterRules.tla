---------------------------- MODULE FilterRules ----------------------------
(***************************************************************************)
(* The rules of one downstream app: how Filter.Compile resolves them, how  *)
(* Filter.Allow judges a message and how prefixPass rewrites it, and the   *)
(* two ways in: handleWrite for a frame, Manager.AllowMessage for a probe. *)
(*                                                                         *)
(* A text is a sequence of words, one of which is Blank (what TrimSpace    *)
(* removes at both ends).  A pattern is a model value: Match is the        *)
(* regular expression library, Valid the patterns that it compiles, the    *)
(* empty one excluded.  The patterns of a rule are a set, as one match is  *)
(* enough.  A string message is an array of one text segment.              *)
(***************************************************************************)
EXTENDS Integers, SequencesExt

CONSTANTS
    Word,           \* what texts are made of
    Blank,          \* white space
    Pattern,
    Valid,          \* the patterns that compile
    Match(_, _),    \* whether a valid pattern matches a text
    RuleSets,       \* the CompiledRules an app can be configured with
    Frames,         \* the messages
    NoFilter,       \* the app is disabled or missing
    NoOutcome

\* No mode is refused when it is stored: the last one stands for every other string.
Modes == {"", "default", "on", "off", "whitelist", "blacklist", "unknown"}

IDRule == [mode : Modes, ids : SUBSET Int]

MessageRule ==
    [mode : Modes, filters : SUBSET Pattern, prefix : Seq(Seq(Word)), replace : Seq(Word)]

CompiledRules ==
    [userID : IDRule, groupID : IDRule, defaultUserID : IDRule, defaultGroupID : IDRule,
     message : MessageRule, privateMessage : MessageRule, groupMessage : MessageRule]

Filter ==
    [userID : IDRule, groupID : IDRule, privateMessage : MessageRule, groupMessage : MessageRule]

Message ==
    [kind : STRING, format : STRING, group : Int, user : Int,
     body : Seq([kind : STRING, text : Seq(Word)]), raw : Seq(Word), intact : BOOLEAN]

\* A frame keeps the JSON it was parsed from.
ASSUME RulesAssumption ==
    /\ Valid \subseteq Pattern
    /\ RuleSets \subseteq CompiledRules
    /\ \A msg \in Frames : msg \in Message /\ msg.intact
    /\ NoFilter \notin Filter

VARIABLES
    rules,      \* the rules of the app, as startClientsLocked reads them
    filter,     \* m.filters[name]: what Compile made of them
    outcome     \* of the last judgement: input, pass, reason of the event, message

vars == <<rules, filter, outcome>>

-----------------------------------------------------------------------------
(***************************************************************************)
(* Texts.                                                                  *)
(***************************************************************************)
Solid(text) == {i \in DOMAIN text : text[i] # Blank}

Trim(text) ==
    IF Solid(text) = {} THEN <<>> ELSE SubSeq(text, Min(Solid(text)), Max(Solid(text)))

TextAt(msg) == {i \in DOMAIN msg.body : msg.body[i].kind = "text"}

\* The trimmed text of the first text segment, the only one prefixPass looks at.
Lead(msg) == IF TextAt(msg) = {} THEN <<>> ELSE Trim(msg.body[Min(TextAt(msg))].text)

-----------------------------------------------------------------------------
(***************************************************************************)
(* Compile.  A rule without a mode, or of mode default, takes that of the  *)
(* next level: the default template for ids, the common rule for messages. *)
(* Nothing resolves the common rule itself.                                *)
(***************************************************************************)
\* Mutant: mode default is taken for a mode of its own.
InheritIfUnset(rule, next) == IF rule.mode = "" THEN next ELSE rule

Inherit(rule, next) == IF rule.mode \in {"", "default"} THEN next ELSE rule

CompileMessage(rule) ==
    [rule EXCEPT !.filters = @ \cap Valid]

Compiled(c) ==
    [userID         |-> Inherit(c.userID, c.defaultUserID),
     groupID        |-> Inherit(c.groupID, c.defaultGroupID),
     privateMessage |-> CompileMessage(Inherit(c.privateMessage, c.message)),
     groupMessage   |-> CompileMessage(Inherit(c.groupMessage, c.message))]

-----------------------------------------------------------------------------
(***************************************************************************)
(* Allow.                                                                  *)
(***************************************************************************)
Admits(rule, id) ==
    \/ id = 0
    \/ rule.mode = "whitelist" /\ id \in rule.ids
    \/ rule.mode = "blacklist" /\ id \notin rule.ids
    \/ rule.mode \notin {"off", "whitelist", "blacklist"}

MatchesText(rule, text) == \E p \in rule.filters : Match(p, text)

Matched(rule, msg) == \E i \in TextAt(msg) : MatchesText(rule, Trim(msg.body[i].text))

\* The prefixes, by position, that the message begins with.  The first one counts.
PrefixHits(rule, msg) ==
    {i \in DOMAIN rule.prefix :
        /\ rule.prefix[i] # <<>>
        /\ Lead(msg) # <<>>
        /\ IsPrefix(rule.prefix[i], Lead(msg))}

\* Mutant: takes the first segment for the first text segment when it removes it.
RewriteFirst(rule, msg) ==
    LET old  == Lead(msg)
        cut  == Len(rule.prefix[Min(PrefixHits(rule, msg))])
        text == rule.replace \o SubSeq(old, cut + 1, Len(old))
    IN  [msg EXCEPT
            !.body = IF Trim(text) = <<>> THEN Tail(@)
                     ELSE [@ EXCEPT ![Min(TextAt(msg))].text = text],
            !.raw  = ReplaceFirstSubSeq(text, old, @)]

\* The message with its prefix replaced: in the segment, which an array loses when
\* nothing but blanks is left of it, and at its first occurrence in raw_message.
Rewrite(rule, msg) ==
    LET at   == Min(TextAt(msg))
        old  == Lead(msg)
        cut  == Len(rule.prefix[Min(PrefixHits(rule, msg))])
        text == rule.replace \o SubSeq(old, cut + 1, Len(old))
    IN  [msg EXCEPT
            !.body = IF Trim(text) = <<>> /\ msg.format = "array"
                     THEN RemoveAt(@, at)
                     ELSE [@ EXCEPT ![at].text = text],
            !.raw  = ReplaceFirstSubSeq(text, old, @)]

Says(pass, reason, msg) == [pass |-> pass, reason |-> reason, msg |-> msg]

\* The rule of the message's kind decides once the ids are admitted.  An unknown mode
\* blocks without an event.  prefixPass writes into msg.Intact, which a probe lacks.
JudgeText(rule, msg) ==
    CASE rule.mode \in {"", "on"} -> Says(TRUE, "on", msg)
      [] rule.mode = "off"        -> Says(FALSE, "off", msg)
      [] OTHER ->
            IF PrefixHits(rule, msg) # {}
            THEN IF msg.intact THEN Says(TRUE, "prefix", Rewrite(rule, msg))
                               ELSE Says(FALSE, "panic", msg)
            ELSE CASE rule.mode = "whitelist" ->
                        IF Matched(rule, msg) THEN Says(TRUE, "whitelist_hit", msg)
                                              ELSE Says(FALSE, "whitelist_miss", msg)
                   [] rule.mode = "blacklist" ->
                        IF Matched(rule, msg) THEN Says(FALSE, "blacklist_hit", msg)
                                              ELSE Says(TRUE, "blacklist_miss", msg)
                   [] OTHER -> Says(FALSE, "none", msg)

\* Mutant: the sender is looked at before the group.
AllowUserFirst(f, msg) ==
    IF msg.kind \notin {"group", "private"} THEN Says(TRUE, "none", msg)
    ELSE IF ~Admits(f.userID, msg.user) THEN Says(FALSE, "user_id", msg)
    ELSE IF msg.kind = "group" /\ ~Admits(f.groupID, msg.group) THEN Says(FALSE, "group_id", msg)
    ELSE JudgeText(IF msg.kind = "group" THEN f.groupMessage ELSE f.privateMessage, msg)

Allow(f, msg) ==
    IF msg.kind \notin {"group", "private"} THEN Says(TRUE, "none", msg)
    ELSE IF msg.kind = "group" /\ ~Admits(f.groupID, msg.group) THEN Says(FALSE, "group_id", msg)
    ELSE IF ~Admits(f.userID, msg.user) THEN Says(FALSE, "user_id", msg)
    ELSE JudgeText(IF msg.kind = "group" THEN f.groupMessage ELSE f.privateMessage, msg)

-----------------------------------------------------------------------------
Init ==
    /\ rules \in RuleSets
    /\ filter = NoFilter
    /\ outcome = NoOutcome

Judged(input, verdict) ==
    outcome' = [input  |-> input,          pass |-> verdict.pass,
                reason |-> verdict.reason, msg  |-> verdict.msg]

\* A reload finds the app enabled.
Compile ==
    /\ filter = NoFilter
    /\ filter' = Compiled(rules)
    /\ outcome' = NoOutcome
    /\ UNCHANGED rules

\* ParseOneBotMessage takes what says in message_format how its message is written.
Parses(msg) == msg.format \in {"array", "string"}

\* handleWrite: what does not parse, or has no raw_message, goes to the bot as it came.
Deliver(msg) ==
    /\ filter # NoFilter
    /\ IF Parses(msg) /\ msg.raw # <<>>
       THEN Judged(msg, Allow(filter, msg))
       ELSE Judged(msg, Says(TRUE, "none", msg))
    /\ UNCHANGED <<rules, filter>>

\* AllowMessage: a string message with no JSON behind it; no filter, no objection.
Asked(msg) ==
    [msg EXCEPT !.kind   = IF @ = "private" THEN @ ELSE "group",
                !.format = "string",
                !.body   = <<[kind |-> "text", text |-> msg.raw]>>,
                !.intact = FALSE]

Probe(msg) ==
    /\ Judged(Asked(msg), IF filter = NoFilter THEN Says(TRUE, "none", Asked(msg))
                                               ELSE Allow(filter, Asked(msg)))
    /\ UNCHANGED <<rules, filter>>

Next ==
    \/ Compile
    \/ \E msg \in Frames : Deliver(msg) \/ Probe(msg)

Spec == Init /\ [][Next]_vars

-----------------------------------------------------------------------------
(***************************************************************************)
(* What the rules mean, stated on the rules as configured.                 *)
(***************************************************************************)
\* The levels that decide: the first one with a mode of its own, if there is one.
Deciding(levels) ==
    {levels[i] : i \in {j \in DOMAIN levels :
        \A k \in 1..j : levels[k].mode \notin {"", "default"} <=> k = j}}

OpenTo(levels, id) ==
    id = 0 \/ \A rule \in Deciding(levels) :
        /\ rule.mode # "off"
        /\ rule.mode = "whitelist" => id \in rule.ids
        /\ rule.mode = "blacklist" => id \notin rule.ids

MessageLevels(msg) ==
    <<IF msg.kind = "group" THEN rules.groupMessage ELSE rules.privateMessage, rules.message>>

\* Some text of the message matches one of the patterns that compile.
Hit(rule, msg) ==
    \E i \in TextAt(msg), p \in rule.filters \cap Valid : Match(p, Trim(msg.body[i].text))

Called(rule, msg) == \E p \in ToSet(rule.prefix) \ {<<>>} : IsPrefix(p, Lead(msg))

Welcome(rule, msg) ==
    \/ rule.mode = "on"
    \/ rule.mode # "off" /\ Called(rule, msg)
    \/ rule.mode = "whitelist" /\ Hit(rule, msg)
    \/ rule.mode = "blacklist" /\ ~Hit(rule, msg)

GroupOpen(msg) == msg.kind = "group" => OpenTo(<<rules.groupID, rules.defaultGroupID>>, msg.group)
UserOpen(msg)  == OpenTo(<<rules.userID, rules.defaultUserID>>, msg.user)

WasJudged ==
    /\ outcome # NoOutcome
    /\ filter # NoFilter
    /\ outcome.input.kind \in {"group", "private"}
    /\ outcome.input.format \in {"array", "string"}
    /\ outcome.input.raw # <<>>

\* A message passes exactly when the rules, over all their levels, let its group, its
\* sender and its text in: Compile followed by Allow is what is configured.  A mode
\* that is none of the known ones admits every id, and of texts what its prefixes call
\* for.  Where no level has a mode of its own nothing is claimed of the text: the code
\* then lets all in under a common rule left empty, and what its prefixes call for under
\* one of mode default.  A probe that would pass by its prefix panics, and no frame ever
\* does.
VerdictAsMeant ==
    WasJudged =>
        LET msg  == outcome.input
            ids  == GroupOpen(msg) /\ UserOpen(msg)
            text == \A rule \in Deciding(MessageLevels(msg)) : Welcome(rule, msg)
        IN  CASE outcome.reason = "panic"            -> ids /\ text /\ ~msg.intact
              [] Deciding(MessageLevels(msg)) = {} -> outcome.pass => ids
              [] OTHER                             -> outcome.pass <=> ids /\ text

\* The event page is told why: the reason of each event is true of the configured
\* rules, an id rule is blamed only if the ones before it let the message in, and a
\* message is blocked without an event only where no level has a mode of its own, or
\* one that is none of the known ones.
EventsTellWhy ==
    WasJudged =>
        LET msg    == outcome.input
            levels == MessageLevels(msg)
        IN  CASE outcome.reason = "group_id" -> ~GroupOpen(msg)
              [] outcome.reason = "user_id"  -> GroupOpen(msg) /\ ~UserOpen(msg)
              [] outcome.reason = "none"     -> \A rule \in Deciding(levels) : rule.mode = "unknown"
              [] outcome.reason = "on"       -> \A rule \in Deciding(levels) : rule.mode = "on"
              [] outcome.reason \in {"prefix", "panic"} ->
                    \A rule \in Deciding(levels) : Called(rule, msg)
              [] OTHER -> \E rule \in Deciding(levels) :
                    <<outcome.reason, rule.mode, Hit(rule, msg)>> \in
                        {<<"off", "off", TRUE>>, <<"off", "off", FALSE>>,
                         <<"whitelist_hit", "whitelist", TRUE>>,
                         <<"whitelist_miss", "whitelist", FALSE>>,
                         <<"blacklist_hit", "blacklist", TRUE>>,
                         <<"blacklist_miss", "blacklist", FALSE>>}

\* What is left of a text without its blanks, and all that a body says.
Words(text) ==
    LET words[n \in 0..Len(text)] ==
          IF n = 0 THEN <<>>
          ELSE IF text[n] = Blank THEN words[n - 1] ELSE Append(words[n - 1], text[n])
    IN  words[Len(text)]

Render(body) == FlattenSeq([i \in DOMAIN body |-> body[i].text])

\* The rule that judges the text of a message, as configured: the common rule where no
\* level has a mode of its own.
Judging(msg) ==
    IF Deciding(MessageLevels(msg)) = {} THEN {rules.message} ELSE Deciding(MessageLevels(msg))

\* What a rule may leave of a text: the replacement and what follows one of its prefixes.
Left(rule, text) ==
    {rule.replace \o rest :
        rest \in {t \in Suffixes(text) : \E p \in ToSet(rule.prefix) \ {<<>>} : p \o t = text}}

\* A message says what the other does but for the prefix of its first text, which is gone
\* from an array if nothing but blanks is left of it.
PrefixReplaced(before, after) ==
    LET at == Min(TextAt(before))
    IN  \E rule \in Judging(before) : \E text \in Left(rule, Lead(before)) :
            IF Solid(text) = {} /\ before.format = "array"
            THEN after.body = RemoveAt(before.body, at)
            ELSE after.body = [before.body EXCEPT ![at].text = text]

\* The lead of a message occurs in its raw_message before its own place.
LeadOccursEarlier(msg) ==
    LET at    == Min(TextAt(msg))
        text  == msg.body[at].text
        until == Render(SubSeq(msg.body, 1, at - 1)) \o SubSeq(text, 1, Max(Solid(text)))
    IN  Lead(msg) \in SubSeqs(Front(until))

\* A message that passes by its prefix loses that and nothing else: its first text is the
\* replacement and what followed a prefix of the rule that judged it, the other segments
\* stay, in order, and a raw_message that said what the segments say still does, up to
\* blanks, unless the text it replaces there occurs in it before its own place.  Every
\* other message stays as it is.
RewriteKeepsRest ==
    WasJudged =>
        LET before == outcome.input
            after  == outcome.msg
        IN  IF outcome.reason # "prefix" THEN after = before
            ELSE /\ PrefixReplaced(before, after)
                 /\ before.raw = Render(before.body) =>
                       \/ Words(Render(after.body)) = Words(after.raw)
                       \/ LeadOccursEarlier(before)
=============================================================================
