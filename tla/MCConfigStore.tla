--------------------------- MODULE MCConfigStore ---------------------------
(***************************************************************************)
(* ConfigStore for TLC: three requests, each any of the console's; an app  *)
(* with a template and one that the import and a post both create; a save  *)
(* that disables the gateway; two files, each with a part of the columns.  *)
(***************************************************************************)
EXTENDS ConfigStore, TLC

CONSTANTS q1, q2, q3, on, off, here, there, i1, i2, i3, t1, t2, host, port

MCRequests == {q1, q2, q3}

App(name, enabled, template, ids, text) ==
    [name |-> name, enabled |-> enabled, template |-> template, ids |-> ids, text |-> text]
Tpl(name, builtin, ids, text) == [name |-> name, builtin |-> builtin, ids |-> ids, text |-> text]

Net(h, p) == [f \in Fields |-> IF f = host THEN h ELSE p]
Gw(enabled, h, p, debug, dedup) ==
    [enabled |-> enabled, net |-> Net(h, p), debug |-> debug, dedup |-> dedup]

MCStores ==
    {[gateway   |-> Gw(TRUE, here, here, FALSE, on),
      apps      |-> <<App("x", TRUE, 2, i1, t1), Gone, Gone>>,
      templates |-> <<Tpl("default", TRUE, i1, t1), Tpl("quiet", FALSE, Inherit, t2), Gone, Gone>>,
      issued    |-> [app |-> 1, tpl |-> 2]]}

On(id, kind, body) == [kind |-> kind, id |-> id, body |-> body]

MCOps ==
    {On(0, "putGateway", Gw(FALSE, there, there, TRUE, off)),
     On(0, "postApp", App("y", FALSE, 2, Inherit, t1)),
     On(1, "putApp", App("x", FALSE, NoTemplate, Inherit, t2)),
     On(1, "putApp", App("x", TRUE, 3, Inherit, t2)),
     On(1, "deleteApp", 0),
     On(0, "postTemplate", Tpl("loud", FALSE, Inherit, t1)),
     On(1, "putTemplate", Tpl("default", TRUE, i2, t2)),
     On(1, "putTemplate", Tpl("mine", FALSE, i2, t2)),
     On(2, "putTemplate", Tpl("quiet", FALSE, i2, t1)),
     On(1, "deleteTemplate", 0),
     On(2, "deleteTemplate", 0),
     On(0, "import", [net |-> Net(there, Absent), debug |-> TRUE, ids |-> i3,
                      apps |-> <<[name |-> "x", ids |-> Inherit, text |-> t1],
                                 [name |-> "y", ids |-> i2, text |-> t1]>>]),
     \* A file without a default section, that says of the server only where it listens.
     On(0, "import", [net |-> Net(Absent, here), debug |-> FALSE, ids |-> Inherit, apps |-> <<>>]),
     On(0, "export", 0),
     On(0, "reload", 0)}

MCNames == {"default", "quiet", "loud", "mine", "x", "y"}
MCNets == {here, there, Absent}
MCDedups == {on, off}
MCIdRules == {Inherit, i1, i2, i3}
MCTexts == {t1, t2}

MCSymmetry == Permutations(MCRequests)
=============================================================================
