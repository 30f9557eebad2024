--------------------------- MODULE MCFilterRules ---------------------------
(***************************************************************************)
(* FilterRules for TLC: every mode at every level of the id rules (with    *)
(* one message rule), and every mode, with and without prefixes, at both   *)
(* levels of the message rules (with open id rules).                       *)
(***************************************************************************)
EXTENDS FilterRules

CONSTANTS hash, slash, word, bad, pat

MCWord       == {Blank, hash, slash, word}
MCPattern    == {bad, pat}
MCValid      == {pat}
MCMatch(p, text) == word \in ToSet(text)

IDs(mode) == [mode |-> mode, ids |-> {1}]

\* A pattern that does not compile stands before one that does; an empty prefix and a
\* longer one after a shorter one.
MessageRules ==
    {[mode |-> m, filters |-> {bad, pat}, prefix |-> p, replace |-> r] :
        m \in Modes, p \in {<<>>, <<<<>>, <<hash>>, <<hash, word>>>>}, r \in {<<>>, <<slash>>}}

Rules(user, group, dUser, dGroup, common, private, grouped) ==
    [userID |-> IDs(user), groupID |-> IDs(group), defaultUserID |-> IDs(dUser),
     defaultGroupID |-> IDs(dGroup), message |-> common, privateMessage |-> private,
     groupMessage |-> grouped]

Plain == CHOOSE r \in MessageRules : r.mode = "on"
Unset == CHOOSE r \in MessageRules : r.mode = ""

MCRuleSets ==
    {Rules(u, g, du, dg, Plain, Unset, Unset) :
        u \in Modes, du \in Modes, g \in {"default", "blacklist"}, dg \in {"whitelist", "on"}}
    \cup
    {Rules(u, g, du, dg, Plain, Unset, Unset) :
        g \in Modes, dg \in Modes, u \in {"", "whitelist"}, du \in {"off", "blacklist"}}
    \cup
    {Rules("", "", "", "on", common, own, Unset) : common, own \in MessageRules}
    \cup
    {Rules("", "", "", "on", common, Unset, own) : common, own \in MessageRules}

Text(t) == [kind |-> "text", text |-> t]
At(t)   == [kind |-> "at", text |-> t]

\* Among them: a text that is the prefix alone, a prefix after a blank text or in a
\* later one, and a text that occurs in the code of the segment before it, or in what
\* that code and the text's own blanks and first words make.
Bodies ==
    {<<>>, <<At(<<word>>)>>,
     <<Text(<<Blank, hash, word>>)>>, <<Text(<<hash>>)>>, <<Text(<<slash, word>>)>>,
     <<At(<<slash>>), Text(<<hash>>), Text(<<Blank, word>>)>>,
     <<At(<<hash, slash>>), Text(<<hash, slash>>)>>,
     <<At(<<hash>>), Text(<<Blank, hash, Blank, hash>>)>>,
     <<Text(<<Blank>>), Text(<<hash, slash>>)>>,
     <<Text(<<slash>>), At(<<slash>>), Text(<<hash, word, Blank>>)>>}

Frame(kind, format, group, user, body) ==
    [kind |-> kind, format |-> format, group |-> group, user |-> user, body |-> body,
     raw |-> Render(body), intact |-> TRUE]

MCFrames ==
    {Frame(k, "array", 1, 1, b) : k \in {"group", "private"}, b \in Bodies}
    \cup {Frame("private", "string", 0, 1, b) : b \in {c \in Bodies : Len(c) = 1 /\ TextAt([body |-> c]) = {1}}}
    \cup {Frame(k, "string", g, u, <<Text(<<word>>)>>) :
             k \in {"group", "private"}, g \in 0..2, u \in 0..2}
    \cup {Frame("notice", "", 1, 1, <<>>), Frame("notice", "array", 1, 1, <<At(<<word>>)>>)}
=============================================================================
