---------------------------- MODULE ConfigStore ----------------------------
(***************************************************************************)
(* The rows of the configuration store and the console's requests on them: *)
(* the handlers of api.go with each call of store.go as a step, the merge  *)
(* of a YAML import (yaml.go), and Manager.Reload with its four reads.     *)
(* Requests run concurrently; only the reloads exclude each other, by      *)
(* m.mu.  Any call of the store may fail, and the process may die at any   *)
(* moment and be started again.                                            *)
(*                                                                         *)
(* Of a gateway row a YAML file carries the columns in Fields (net) and    *)
(* debug; dedup stands for what it does not carry, besides enabled.  A     *)
(* rule bundle is its id rules, which may be left to the default template  *)
(* (Inherit; those on users and those on groups go the same way, and one   *)
(* stands for either), and the rest (text).                                *)
(***************************************************************************)
EXTENDS Naturals, Sequences, FiniteSets

CONSTANTS
    Requests,
    Ops,            \* what a request can be: its kind and its body
    Stores,         \* the rows at the beginning
    AppIds,         \* ids for apps, 1 to the number the bound allows
    TplIds,         \* ids for templates, likewise; 1 is the seeded one
    Fields,         \* the gateway's columns that an import keeps if the file leaves them out
    Names, Nets, Dedups, IdRules, Texts,   \* what the columns hold
    Inherit,        \* id rules of mode default, or none
    SeedIds,        \* the id rules and the rest of a newly seeded default template
    SeedText,
    NoTemplate,     \* template_id is null
    Absent,         \* a zero value, in a YAML file also what the file leaves out
    Gone,           \* no row
    Idle            \* m.mu is free; a request not yet made

Gateways == [enabled : BOOLEAN, net : [Fields -> Nets], debug : BOOLEAN, dedup : Dedups]

AppRows == [name : Names, enabled : BOOLEAN, template : TplIds \cup {NoTemplate},
            ids : IdRules, text : Texts]

TemplateRows == [name : Names, builtin : BOOLEAN, ids : IdRules, text : Texts]

\* The id rules of a file without a default section are Inherit, its debug is FALSE if it
\* does not say.
FileApps == [name : Names, ids : IdRules, text : Texts]
Files == [net : [Fields -> Nets], debug : BOOLEAN, ids : IdRules, apps : Seq(FileApps)]

Kinds == {"putGateway", "postApp", "putApp", "deleteApp", "postTemplate", "putTemplate",
          "deleteTemplate", "import", "export", "reload"}

\* The id in the path of a request and the rows or the file in its body.
WellFormed(o) ==
    /\ o.kind \in Kinds
    /\ o.kind = "putGateway" => o.body \in Gateways
    /\ o.kind \in {"postApp", "putApp"} => o.body \in AppRows
    /\ o.kind \in {"postTemplate", "putTemplate"} => o.body \in TemplateRows
    /\ o.kind \in {"putApp", "deleteApp"} => o.id \in AppIds
    /\ o.kind \in {"putTemplate", "deleteTemplate"} => o.id \in TplIds
    /\ o.kind = "import" => o.body \in Files

\* The unique index on the column name.
NamesUnique(table) ==
    \A a, b \in DOMAIN table :
        table[a] # Gone /\ table[b] # Gone /\ table[a].name = table[b].name => a = b

\* A store as Open leaves it: no row has an id that is yet to be issued, no two rows of a
\* table have the same name, and the seeded template is in its place.
Opened(s) ==
    /\ s.gateway \in Gateways
    /\ s.apps \in [AppIds -> AppRows \cup {Gone}]
    /\ s.templates \in [TplIds -> TemplateRows \cup {Gone}]
    /\ s.issued \in [app : AppIds \cup {0}, tpl : TplIds]
    /\ \A id \in TplIds : s.templates[id] # Gone => id <= s.issued.tpl
    /\ NamesUnique(s.apps) /\ NamesUnique(s.templates)
    /\ s.templates[1] # Gone /\ s.templates[1].name = "default" /\ s.templates[1].builtin

ASSUME StoreAssumption ==
    /\ \A o \in Ops : WellFormed(o)
    /\ \A s \in Stores : Opened(s)
    /\ AppIds \subseteq Nat \ {0} /\ TplIds \subseteq Nat \ {0} /\ 1 \in TplIds
    /\ "default" \in Names /\ Inherit \in IdRules /\ SeedIds \in IdRules /\ SeedText \in Texts
    /\ Absent \in Nets
    /\ NoTemplate \notin TplIds
    /\ Gone \notin AppRows \cup TemplateRows
    /\ Idle \notin Requests \cup Gateways \cup TemplateRows
                \cup [TplIds -> TemplateRows \cup {Gone}]

VARIABLES
    gateway,    \* the gateway row
    apps,       \* the app rows by id
    templates,  \* the template rows by id
    issued,     \* the last id SQLite has given out, of each table
    op,         \* what each request is
    pc,         \* where its handler is
    mine,       \* what an import or an export has read, the loop of the one, the file of the other
    mu,         \* the request that holds m.mu, or Idle
    reading,    \* what the reload in progress has read
    live,       \* what runs: m.running, m.gateway, and the rules by app name
    late,       \* history: requests, with what they have read and others have written since
    unapplied,  \* history: a change of the rows that no later reload covers
    exposed     \* history: a save took builtin or the name off the seeded template

rowVars     == <<gateway, apps, templates, issued>>
runVars     == <<mu, reading, live>>
historyVars == <<late, unapplied, exposed>>
vars == <<rowVars, op, pc, mine, runVars, historyVars>>

NoCopy == [gw |-> Idle, id |-> 0, def |-> Idle, templates |-> Idle, file |-> Idle,
           next |-> 1, found |-> 0]
NoRead == [apps |-> Idle, templates |-> Idle]

-----------------------------------------------------------------------------
(***************************************************************************)
(* The tables.  Names are unique.  Save writes every column and inserts    *)
(* where there is no row; an insert takes the default of the column for a  *)
(* zero value, so that enabled=false is stored as true.                    *)
(***************************************************************************)
Rows(table) == {id \in DOMAIN table : table[id] # Gone}

NameFree(table, name, id) == \A other \in Rows(table) \ {id} : table[other].name # name

Inserted(row) == IF "enabled" \in DOMAIN row THEN [row EXCEPT !.enabled = TRUE] ELSE row

Save(table, id, row) ==
    [table EXCEPT ![id] = IF @ = Gone THEN Inserted(row) ELSE row]

Named(table, name) == {id \in Rows(table) : table[id].name = name}

Seed == [name |-> "default", builtin |-> TRUE, ids |-> SeedIds, text |-> SeedText]

\* An insert with an id of its own takes that id out of those to be issued.
Issue(table, id) == issued' = [issued EXCEPT ![table] = IF id > @ THEN id ELSE @]

\* A new row is the one that a dangling template_id means.
Awaited(id) == \E a \in Rows(apps) : apps[a].template = id

\* GetDefaultFilterTemplate: the id of the row of that name, which it makes if need be.
DefaultId(table) ==
    IF Named(table, "default") = {} THEN issued.tpl + 1
    ELSE CHOOSE id \in Named(table, "default") : TRUE

GetDefaultFilterTemplate ==
    IF Named(templates, "default") # {} THEN UNCHANGED <<templates, issued>>
    ELSE /\ issued.tpl + 1 \in TplIds
         /\ templates' = [templates EXCEPT ![issued.tpl + 1] = Seed]
         /\ issued' = [issued EXCEPT !.tpl = @ + 1]

-----------------------------------------------------------------------------
(***************************************************************************)
(* What the gateway makes of the rows: appOrTemplateRules, with the id     *)
(* rules of the default template behind it.  A template_id whose row is    *)
(* gone falls back to the app's own rules.                                 *)
(***************************************************************************)
Bundle(app, table) ==
    IF app.template # NoTemplate /\ table[app.template] # Gone THEN table[app.template] ELSE app

RulesOf(app, table, def) ==
    LET b == Bundle(app, table)
    IN  [ids |-> IF b.ids = Inherit THEN def.ids ELSE b.ids, text |-> b.text]

\* The apps that run, with their rules.
Started(rows, table, def) ==
    {[name |-> rows[id].name, rules |-> RulesOf(rows[id], table, def)] :
        id \in {i \in Rows(rows) : rows[i].enabled}}

\* What Start makes of the rows; a disabled gateway does not start.
Launched(gw, rows, table, def) ==
    [running |-> gw.enabled, gateway |-> gw,
     apps |-> IF gw.enabled THEN Started(rows, table, def) ELSE {}]

\* The merge of ApplyYAMLToModels, for the gateway, the default template and one app:
\* debug and the id rules are overwritten whether or not the file says anything of them.
MergedGateway(gw, yaml) ==
    [gw EXCEPT !.net = [f \in Fields |-> IF yaml.net[f] = Absent THEN gw.net[f] ELSE yaml.net[f]],
               !.debug = yaml.debug]

MergedDefault(def, yaml) == [def EXCEPT !.ids = yaml.ids]

ImportedApp(a) ==
    [name |-> a.name, enabled |-> TRUE, template |-> NoTemplate, ids |-> a.ids, text |-> a.text]

\* Mutant: the template of an app is not looked up.
ExportedOwnRules(app, table) == [name |-> app.name, ids |-> app.ids, text |-> app.text]

\* ExportYAML writes the rules of an app's template, if it is there, in place of its own.
ExportedApp(app, table) ==
    LET b == Bundle(app, table) IN [name |-> app.name, ids |-> b.ids, text |-> b.text]

Exported(gw, table, rows, def) ==
    [net |-> gw.net, debug |-> gw.debug, ids |-> def.ids,
     apps |-> {ExportedApp(rows[id], table) : id \in Rows(rows)}]

-----------------------------------------------------------------------------
Init ==
    /\ \E s \in Stores :
           /\ gateway = s.gateway /\ apps = s.apps
           /\ templates = s.templates /\ issued = s.issued
    /\ op = [q \in Requests |-> Idle]
    /\ pc = [q \in Requests |-> "new"]
    /\ mine = [q \in Requests |-> NoCopy]
    /\ mu = Idle
    /\ reading = NoRead
    /\ live = Launched(gateway, apps, templates, templates[DefaultId(templates)])
    /\ late = {} /\ unapplied = FALSE /\ exposed = FALSE

Goto(q, place) == pc' = [pc EXCEPT ![q] = place]
Body(q) == op[q].body

\* What requests other than q have read of a row that q writes is out of date.
GatewayWritten(q) ==
    late' = late \cup ({p \in Requests \ {q} : mine[p].gw # Idle} \X {"gateway"})
TemplateWritten(q, id) ==
    late' = late
            \cup ({p \in Requests \ {q} : mine[p].def # Idle /\ mine[p].id = id} \X {"default"})
            \cup ({p \in Requests \ {q} : mine[p].templates # Idle} \X {"templates"})

\* The row that GetDefaultFilterTemplate makes is a new one to those who have read the
\* templates, and may be one that an app was waiting for; no reload follows.
MadeUnapplied == Named(templates, "default") = {} /\ Awaited(issued.tpl + 1)

Made(q) ==
    /\ unapplied' = (unapplied \/ MadeUnapplied)
    /\ IF Named(templates, "default") # {} THEN UNCHANGED late
       ELSE TemplateWritten(q, issued.tpl + 1)

Arrive(q) ==
    /\ pc[q] = "new"
    /\ \E o \in Ops : op' = [op EXCEPT ![q] = o] /\ Goto(q, o.kind)
    /\ UNCHANGED <<rowVars, mine, runVars, historyVars>>

-----------------------------------------------------------------------------
(***************************************************************************)
(* The handlers that make one change, up to their reload.                  *)
(***************************************************************************)
PutGateway(q) ==
    /\ pc[q] = "putGateway"
    /\ gateway' = Body(q)
    /\ GatewayWritten(q)
    /\ Goto(q, "reload")
    /\ UNCHANGED <<apps, templates, issued, op, mine, runVars, unapplied, exposed>>

PostApp(q) ==
    /\ pc[q] = "postApp"
    /\ issued.app + 1 \in AppIds
    /\ NameFree(apps, Body(q).name, 0)
    /\ apps' = [apps EXCEPT ![issued.app + 1] = Inserted(Body(q))]
    /\ issued' = [issued EXCEPT !.app = @ + 1]
    /\ Goto(q, "reload")
    /\ UNCHANGED <<gateway, templates, op, mine, runVars, historyVars>>

PutApp(q) ==
    /\ pc[q] = "putApp"
    /\ NameFree(apps, Body(q).name, op[q].id)
    /\ apps' = Save(apps, op[q].id, Body(q))
    /\ Issue("app", op[q].id)
    /\ Goto(q, "reload")
    /\ UNCHANGED <<gateway, templates, op, mine, runVars, historyVars>>

DeleteApp(q) ==
    /\ pc[q] = "deleteApp"
    /\ apps' = [apps EXCEPT ![op[q].id] = Gone]
    /\ Goto(q, "reload")
    /\ UNCHANGED <<gateway, templates, issued, op, mine, runVars, historyVars>>

\* A new template does not reload: no app should name it yet.
PostTemplate(q) ==
    /\ pc[q] = "postTemplate"
    /\ issued.tpl + 1 \in TplIds
    /\ NameFree(templates, Body(q).name, 0)
    /\ templates' = [templates EXCEPT ![issued.tpl + 1] = Inserted(Body(q))]
    /\ issued' = [issued EXCEPT !.tpl = @ + 1]
    /\ unapplied' = (unapplied \/ Awaited(issued.tpl + 1))
    /\ TemplateWritten(q, issued.tpl + 1)
    /\ Goto(q, "done")
    /\ UNCHANGED <<gateway, apps, op, mine, runVars, exposed>>

\* Mutant: no reload follows, as after a new template.
PutTemplateQuietly(q) ==
    /\ pc[q] = "putTemplate"
    /\ NameFree(templates, Body(q).name, op[q].id)
    /\ templates' = Save(templates, op[q].id, Body(q))
    /\ Issue("tpl", op[q].id)
    /\ TemplateWritten(q, op[q].id)
    /\ exposed' = TRUE
    /\ Goto(q, "done")
    /\ UNCHANGED <<gateway, apps, op, mine, runVars, unapplied>>

\* Every column, so also builtin and the name.
PutTemplate(q) ==
    /\ pc[q] = "putTemplate"
    /\ NameFree(templates, Body(q).name, op[q].id)
    /\ templates' = Save(templates, op[q].id, Body(q))
    /\ Issue("tpl", op[q].id)
    /\ TemplateWritten(q, op[q].id)
    /\ exposed' =
           \/ exposed
           \/ op[q].id = 1 /\ ~(Body(q).builtin /\ Body(q).name = "default")
    /\ Goto(q, "reload")
    /\ UNCHANGED <<gateway, apps, op, mine, runVars, unapplied>>

\* Mutant: builtin is not looked at.
CheckExists(q) ==
    /\ pc[q] = "deleteTemplate"
    /\ templates[op[q].id] # Gone
    /\ Goto(q, "delete")
    /\ UNCHANGED <<rowVars, op, mine, runVars, historyVars>>

\* DeleteFilterTemplate looks at the row, and deletes it in a second statement.
CheckTemplate(q) ==
    /\ pc[q] = "deleteTemplate"
    /\ templates[op[q].id] # Gone
    /\ Goto(q, IF templates[op[q].id].builtin THEN "done" ELSE "delete")
    /\ UNCHANGED <<rowVars, op, mine, runVars, historyVars>>

\* There is no reload after it.
DeleteTemplate(q) ==
    /\ pc[q] = "delete"
    /\ templates' = [templates EXCEPT ![op[q].id] = Gone]
    /\ TemplateWritten(q, op[q].id)
    /\ unapplied' = TRUE
    /\ Goto(q, "done")
    /\ UNCHANGED <<gateway, apps, issued, op, mine, runVars, exposed>>

-----------------------------------------------------------------------------
(***************************************************************************)
(* yamlImport and yamlExport: both read the gateway row and then the       *)
(* default template, which may have to be made.                            *)
(***************************************************************************)
ReadGateway(q) ==
    /\ pc[q] \in {"import", "export"}
    /\ mine' = [mine EXCEPT ![q].gw = gateway]
    /\ Goto(q, "readDefault")
    /\ UNCHANGED <<rowVars, op, runVars, historyVars>>

AfterDefault(q) == IF op[q].kind = "import" THEN "saveGateway" ELSE "exportTemplates"

\* Mutant: the copy is that of the seeded rules.
ReadSeed(q) ==
    /\ pc[q] = "readDefault"
    /\ GetDefaultFilterTemplate
    /\ mine' = [mine EXCEPT ![q].id = DefaultId(templates), ![q].def = Seed]
    /\ Made(q)
    /\ Goto(q, AfterDefault(q))
    /\ UNCHANGED <<gateway, apps, op, runVars, exposed>>

ReadDefault(q) ==
    /\ pc[q] = "readDefault"
    /\ GetDefaultFilterTemplate
    /\ LET id == DefaultId(templates)
       IN  mine' = [mine EXCEPT ![q].id = id, ![q].def = templates'[id]]
    /\ Made(q)
    /\ Goto(q, AfterDefault(q))
    /\ UNCHANGED <<gateway, apps, op, runVars, exposed>>

\* The file is merged into the copies, and the copies are saved.
SaveGateway(q) ==
    /\ pc[q] = "saveGateway"
    /\ gateway' = MergedGateway(mine[q].gw, Body(q))
    /\ GatewayWritten(q)
    /\ mine' = [mine EXCEPT ![q].gw = Idle]
    /\ Goto(q, "saveDefault")
    /\ UNCHANGED <<apps, templates, issued, op, runVars, unapplied, exposed>>

SaveDefault(q) ==
    /\ pc[q] = "saveDefault"
    /\ NameFree(templates, mine[q].def.name, mine[q].id)
    /\ templates' = Save(templates, mine[q].id, MergedDefault(mine[q].def, Body(q)))
    /\ TemplateWritten(q, mine[q].id)
    /\ mine' = [mine EXCEPT ![q] = NoCopy]
    /\ Goto(q, "apps")
    /\ UNCHANGED <<gateway, apps, issued, op, runVars, unapplied, exposed>>

\* The loop over the apps of the file: look the name up (an error counts as not found),
\* then update or create.  What fails there is logged and passed over.
FindApp(q) ==
    /\ pc[q] = "apps"
    /\ IF mine[q].next > Len(Body(q).apps)
       THEN Goto(q, "reload") /\ mine' = [mine EXCEPT ![q] = NoCopy]
       ELSE /\ \E id \in {0} \cup Named(apps, Body(q).apps[mine[q].next].name) :
                  mine' = [mine EXCEPT ![q].found = id]
            /\ Goto(q, "app")
    /\ UNCHANGED <<rowVars, op, runVars, historyVars>>

ImportApp(q) ==
    LET id  == mine[q].found
        row == ImportedApp(Body(q).apps[mine[q].next])
    IN  /\ pc[q] = "app"
        /\ \/ /\ id # 0 /\ NameFree(apps, row.name, id)
              /\ apps' = Save(apps, id, row) /\ UNCHANGED issued
           \/ /\ id = 0 /\ NameFree(apps, row.name, 0) /\ issued.app + 1 \in AppIds
              /\ apps' = [apps EXCEPT ![issued.app + 1] = row]
              /\ issued' = [issued EXCEPT !.app = @ + 1]
           \/ UNCHANGED <<apps, issued>>
        /\ mine' = [mine EXCEPT ![q].next = @ + 1, ![q].found = 0]
        /\ Goto(q, "apps")
        /\ UNCHANGED <<gateway, templates, op, runVars, historyVars>>

ExportTemplates(q) ==
    /\ pc[q] = "exportTemplates"
    /\ mine' = [mine EXCEPT ![q].templates = templates]
    /\ Goto(q, "exportApps")
    /\ UNCHANGED <<rowVars, op, runVars, historyVars>>

\* The apps are read last, and the file is made of the four answers.
ExportApps(q) ==
    /\ pc[q] = "exportApps"
    /\ mine' = [mine EXCEPT ![q] = [NoCopy EXCEPT !.file =
                   Exported(mine[q].gw, mine[q].templates, apps, mine[q].def)]]
    /\ Goto(q, "answer")
    /\ UNCHANGED <<rowVars, op, runVars, historyVars>>

Answer(q) ==
    /\ pc[q] = "answer"
    /\ mine' = [mine EXCEPT ![q] = NoCopy]
    /\ Goto(q, "done")
    /\ UNCHANGED <<rowVars, op, runVars, historyVars>>

-----------------------------------------------------------------------------
(***************************************************************************)
(* Reload and startClientsLocked, under m.mu.                              *)
(***************************************************************************)
\* A manager that does not run is left alone: a gateway that is enabled in the console
\* starts with the process.
ReloadIgnored(q) ==
    /\ pc[q] = "reload" /\ mu = Idle
    /\ ~live.running
    /\ Goto(q, "done")
    /\ UNCHANGED <<rowVars, op, mine, runVars, historyVars>>

\* The settings are taken over, all clients are stopped.  That the row may now say
\* disabled is not looked at.
Reload(q) ==
    /\ pc[q] = "reload" /\ mu = Idle
    /\ live.running
    /\ mu' = q
    /\ live' = [running |-> TRUE, gateway |-> gateway, apps |-> {}]
    /\ unapplied' = FALSE
    /\ Goto(q, "listApps")
    /\ UNCHANGED <<rowVars, op, mine, reading, late, exposed>>

ListApps(q) ==
    /\ pc[q] = "listApps"
    /\ reading' = [reading EXCEPT !.apps = apps]
    /\ Goto(q, "listTemplates")
    /\ UNCHANGED <<rowVars, op, mine, mu, live, historyVars>>

ListTemplates(q) ==
    /\ pc[q] = "listTemplates"
    /\ reading' = [reading EXCEPT !.templates = templates]
    /\ Goto(q, "start")
    /\ UNCHANGED <<rowVars, op, mine, mu, live, historyVars>>

StartClients(q) ==
    /\ pc[q] = "start"
    /\ GetDefaultFilterTemplate
    /\ live' = [live EXCEPT !.apps =
                   Started(reading.apps, reading.templates, templates'[DefaultId(templates)])]
    /\ reading' = NoRead
    /\ mu' = Idle
    /\ Made(q)
    /\ Goto(q, "done")
    /\ UNCHANGED <<gateway, apps, op, mine, exposed>>

\* A call of the store fails, because of the database or of a name that is taken, and
\* the handler returns.  What it has changed before is not undone, nor reloaded.
Changed(q) ==
    \/ pc[q] \in {"saveDefault", "apps", "app", "listApps", "listTemplates", "start"}
    \/ pc[q] = "reload" /\ op[q].kind # "reload"

Fail(q) ==
    /\ pc[q] \notin {"new", "apps", "app", "done"}
    /\ pc[q] = "reload" => mu = Idle
    /\ Goto(q, "done")
    /\ mine' = [mine EXCEPT ![q] = NoCopy]
    /\ unapplied' = (unapplied \/ Changed(q))
    /\ IF mu = q THEN mu' = Idle /\ reading' = NoRead ELSE UNCHANGED <<mu, reading>>
    /\ UNCHANGED <<rowVars, op, live, late, exposed>>

\* The process dies in the middle of a request and is started again: the rows are all
\* that is left.  Open makes a default template if there is none; Start reads the rows
\* before the console is served, which is taken to succeed.
Crash ==
    /\ \E q \in Requests : pc[q] \notin {"new", "done"}
    /\ GetDefaultFilterTemplate
    /\ pc' = [q \in Requests |-> IF pc[q] = "new" THEN "new" ELSE "done"]
    /\ mine' = [q \in Requests |-> NoCopy]
    /\ mu' = Idle /\ reading' = NoRead
    /\ live' = Launched(gateway, apps, templates', templates'[DefaultId(templates)])
    /\ unapplied' = FALSE
    /\ UNCHANGED <<gateway, apps, op, late, exposed>>

Edit(q) ==
    \/ PutGateway(q) \/ PostApp(q) \/ PutApp(q) \/ DeleteApp(q)
    \/ PostTemplate(q) \/ PutTemplate(q) \/ CheckTemplate(q) \/ DeleteTemplate(q)

Import(q) ==
    \/ ReadGateway(q) \/ ReadDefault(q) \/ SaveGateway(q) \/ SaveDefault(q)
    \/ FindApp(q) \/ ImportApp(q)

Export(q) == ExportTemplates(q) \/ ExportApps(q) \/ Answer(q)

Start(q) == Reload(q) \/ ReloadIgnored(q) \/ ListApps(q) \/ ListTemplates(q) \/ StartClients(q)

Next ==
    \/ \E q \in Requests : Arrive(q) \/ Edit(q) \/ Import(q) \/ Export(q) \/ Start(q) \/ Fail(q)
    \/ Crash

Spec == Init /\ [][Next]_vars

-----------------------------------------------------------------------------
\* Behind a gateway that was enabled when the process started, what runs is what is stored:
\* when no request is under way, m.gateway and the rules of each app that runs, through
\* template and default, are those of the rows, however the reads of the reloads and the
\* writes of the requests overlapped.  Excused are the changes that no reload follows: the
\* delete of a template, a failed request, and a new template whose id some app was left
\* with.  A restart after a crash, in the middle of an import or of a reload, makes up for
\* both.  Behind a gateway that was disabled no app runs, whatever is reloaded.
LiveIsStored ==
    /\ ~live.running => live.apps = {}
    /\ live.running /\ (\A q \in Requests : pc[q] \in {"new", "done"}) /\ ~unapplied =>
        /\ live.gateway = gateway
        /\ Named(templates, "default") # {}
        /\ live.apps = Started(apps, templates, templates[DefaultId(templates)])

\* What an import may change of the gateway row and of the default template: debug and the
\* id rules, which it overwrites in any case, and the columns its file says something of.
\* All else is as it was, although whole rows are saved from copies, unless another save
\* came between the read of the copy and its save (that save is undone).
ImportKeepsRest ==
    [][\A q \in Requests :
        /\ pc[q] = "saveGateway" /\ pc'[q] = "saveDefault" /\ <<q, "gateway">> \notin late =>
               /\ \A field \in DOMAIN gateway \ {"net", "debug"} : gateway'[field] = gateway[field]
               /\ \A f \in Fields : Body(q).net[f] = Absent => gateway'.net[f] = gateway.net[f]
        /\ pc[q] = "saveDefault" /\ pc'[q] = "apps" /\ <<q, "default">> \notin late =>
               LET id == mine[q].id
               IN  \A field \in DOMAIN templates[id] \ {"ids"} :
                       templates'[id][field] = templates[id][field]]_vars

\* A file is a faithful backup of what it carries: of any rows the console can bring about,
\* dangling template_ids included, a file exported and imported again leaves the gateway
\* and the default template as they were, and gives every app, now without its template,
\* the rules it had with it.  (It also enables every app.)  The four reads of an export are
\* not one transaction: what another request has written since its own part was read is
\* excused, part by part; an app, which is read last, never is.
ExportKeepsRules ==
    [][\A q \in Requests : pc[q] = "exportApps" /\ pc'[q] = "answer" =>
        LET def   == templates[mine[q].id]
            file  == mine'[q].file
            stale == {part \in {"gateway", "default", "templates"} : <<q, part>> \in late}
        IN  /\ "gateway" \notin stale => MergedGateway(gateway, file) = gateway
            /\ "default" \notin stale => MergedDefault(def, file) = def
            /\ {"default", "templates"} \cap stale = {} =>
                   \A id \in Rows(apps) : \E a \in file.apps :
                       /\ a.name = apps[id].name
                       /\ RulesOf(ImportedApp(a), templates, MergedDefault(def, file))
                            = RulesOf(apps[id], templates, def)]_vars

\* The seeded default template cannot get lost, through deletes, imports that hold a copy
\* of it and failures, as long as no save has taken its name or builtin away.
DefaultProtected ==
    exposed \/ (templates[1] # Gone /\ templates[1].builtin /\ templates[1].name = "default")
=============================================================================
