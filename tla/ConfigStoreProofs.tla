-------------------------- MODULE ConfigStoreProofs --------------------------
(***************************************************************************)
(* The safety of ConfigStore, for any rows at the beginning and any number *)
(* of concurrent requests of any kind.  TypeOK and PlaceInv say what the   *)
(* variables hold at each place of a handler; on them rest ProtectInv (the *)
(* default template), LateInv (the copies of imports and exports), LiveInv *)
(* (what a reload in progress has read) and NamesInv (names are keys).     *)
(***************************************************************************)
EXTENDS ConfigStore, TLAPS

AppTables == [AppIds -> AppRows \cup {Gone}]

TemplateTables == [TplIds -> TemplateRows \cup {Gone}]

Exports == [net : [Fields -> Nets], debug : BOOLEAN, ids : IdRules, apps : SUBSET FileApps]

Copies == [gw : Gateways \cup {Idle}, id : TplIds \cup {0}, def : TemplateRows \cup {Idle},
           templates : TemplateTables \cup {Idle}, file : Exports \cup {Idle},
           next : Nat \ {0}, found : AppIds \cup {0}]

Readings == [apps : AppTables \cup {Idle}, templates : TemplateTables \cup {Idle}]

Importing == {"saveGateway", "saveDefault", "apps", "app"}

Exporting == {"exportTemplates", "exportApps", "answer"}

\* The places where an import or an export holds a copy of the gateway row, and one of the
\* default template.
WithGateway == {"readDefault", "saveGateway", "exportTemplates", "exportApps"}

WithDefault == {"saveGateway", "saveDefault", "exportTemplates", "exportApps"}

Reloading == {"listApps", "listTemplates", "start"}

Places == Kinds \cup Importing \cup Exporting \cup Reloading
              \cup {"new", "readDefault", "delete", "done"}

TypeOK ==
    /\ gateway \in Gateways
    /\ apps \in AppTables
    /\ templates \in TemplateTables
    /\ issued \in [app : Nat, tpl : Nat]
    /\ op \in [Requests -> Ops \cup {Idle}]
    /\ pc \in [Requests -> Places]
    /\ mine \in [Requests -> Copies]
    /\ mu \in Requests \cup {Idle}
    /\ reading \in Readings
    /\ unapplied \in BOOLEAN
    /\ exposed \in BOOLEAN

\* A handler is where its kind of request goes, and has the copies it is to use.
PlaceOf(q) ==
    /\ pc[q] # "new" => op[q] \in Ops
    /\ pc[q] \in Kinds \ {"reload"} => op[q].kind = pc[q]
    /\ pc[q] = "delete" => op[q].kind = "deleteTemplate"
    /\ pc[q] \in Importing => op[q].kind = "import"
    /\ pc[q] = "readDefault" => op[q].kind \in {"import", "export"}
    /\ pc[q] \in WithGateway => mine[q].gw \in Gateways
    /\ pc[q] \in WithDefault => mine[q].def \in TemplateRows /\ mine[q].id \in TplIds
    /\ pc[q] = "exportApps" => mine[q].templates \in TemplateTables
    /\ pc[q] = "app" => mine[q].next \in 1 .. Len(op[q].body.apps)

PlaceInv == \A q \in Requests : PlaceOf(q)

-----------------------------------------------------------------------------
(* Rows and tables *)

\* A row stays a row when it is inserted; that of a template is stored as it is.
LEMMA RowFacts ==
    /\ \A r \in AppRows : Inserted(r) \in AppRows /\ r # Gone
    /\ \A r \in TemplateRows : Inserted(r) = r /\ r # Gone /\ r # Idle
    /\ Seed \in TemplateRows /\ Seed.name = "default" /\ Seed.builtin
    /\ \A g \in Gateways : g # Idle
<1>1. ASSUME NEW r \in AppRows PROVE Inserted(r) \in AppRows /\ r # Gone
  BY StoreAssumption DEF AppRows, Inserted
<1>2. ASSUME NEW r \in TemplateRows PROVE Inserted(r) = r /\ r # Gone /\ r # Idle
  <2>1. "enabled" \notin DOMAIN r
    BY DEF TemplateRows
  <2> QED BY <2>1, StoreAssumption DEF Inserted
<1>3. Seed \in TemplateRows /\ Seed.name = "default" /\ Seed.builtin
  BY StoreAssumption DEF Seed, TemplateRows
<1> QED BY <1>1, <1>2, <1>3, StoreAssumption

\* Save and delete keep a table a table and touch one row.
LEMMA AppTableFacts ==
    ASSUME NEW t \in AppTables, NEW id \in AppIds
    PROVE  /\ [t EXCEPT ![id] = Gone] \in AppTables
           /\ \A r \in AppRows : Save(t, id, r) \in AppTables /\ [t EXCEPT ![id] = r] \in AppTables
BY RowFacts DEF Save, AppTables

\* Writing a row, inserting it or deleting one keeps a table of templates one.
LEMMA TableFacts ==
    ASSUME NEW t \in TemplateTables, NEW id \in TplIds
    PROVE  /\ [t EXCEPT ![id] = Gone] \in TemplateTables
           /\ \A r \in TemplateRows : /\ [t EXCEPT ![id] = r] \in TemplateTables
                                      /\ Save(t, id, r) = [t EXCEPT ![id] = r]
                                      /\ Save(t, id, r) \in TemplateTables
<1>1. [t EXCEPT ![id] = Gone] \in TemplateTables
  BY DEF TemplateTables
<1>2. ASSUME NEW r \in TemplateRows
      PROVE  /\ [t EXCEPT ![id] = r] \in TemplateTables
             /\ Save(t, id, r) = [t EXCEPT ![id] = r]
  BY RowFacts DEF Save, TemplateTables
<1> QED BY <1>1, <1>2

\* What a merge makes and what it keeps.
LEMMA MergeFacts ==
    ASSUME NEW f \in Files
    PROVE  /\ \A g \in Gateways :
                 /\ MergedGateway(g, f) \in Gateways
                 /\ MergedGateway(g, f).enabled = g.enabled
                 /\ MergedGateway(g, f).dedup = g.dedup
                 /\ \A c \in Fields : f.net[c] = Absent => MergedGateway(g, f).net[c] = g.net[c]
           /\ \A d \in TemplateRows :
                 /\ MergedDefault(d, f) \in TemplateRows
                 /\ MergedDefault(d, f).name = d.name
                 /\ MergedDefault(d, f).builtin = d.builtin
                 /\ MergedDefault(d, f).text = d.text
           /\ \A i \in 1 .. Len(f.apps) : ImportedApp(f.apps[i]) \in AppRows
<1>1. ASSUME NEW g \in Gateways
      PROVE  /\ MergedGateway(g, f) \in Gateways
             /\ MergedGateway(g, f).enabled = g.enabled
             /\ MergedGateway(g, f).dedup = g.dedup
             /\ \A c \in Fields : f.net[c] = Absent => MergedGateway(g, f).net[c] = g.net[c]
  <2> DEFINE net == [c \in Fields |-> IF f.net[c] = Absent THEN g.net[c] ELSE f.net[c]]
  <2>1. f.net \in [Fields -> Nets] /\ f.debug \in BOOLEAN /\ g.net \in [Fields -> Nets]
    BY DEF Files, Gateways
  <2>2. net \in [Fields -> Nets] /\ \A c \in Fields : f.net[c] = Absent => net[c] = g.net[c]
    BY <2>1
  <2>3. MergedGateway(g, f) = [g EXCEPT !.net = net, !.debug = f.debug]
    BY DEF MergedGateway
  <2> HIDE DEF net
  <2> QED BY <2>1, <2>2, <2>3 DEF Gateways
<1>2. ASSUME NEW d \in TemplateRows
      PROVE  /\ MergedDefault(d, f) \in TemplateRows
             /\ MergedDefault(d, f).name = d.name
             /\ MergedDefault(d, f).builtin = d.builtin
             /\ MergedDefault(d, f).text = d.text
  BY DEF Files, TemplateRows, MergedDefault
<1>3. ASSUME NEW i \in 1 .. Len(f.apps) PROVE ImportedApp(f.apps[i]) \in AppRows
  <2>1. f.apps \in Seq(FileApps)
    BY DEF Files
  <2>2. f.apps[i] \in FileApps
    BY <2>1
  <2> QED BY <2>2 DEF FileApps, AppRows, ImportedApp
<1> QED BY <1>1, <1>2, <1>3

\* A file that is made of rows holds what a file can.
LEMMA ExportFacts ==
    ASSUME NEW gw \in Gateways, NEW table \in TemplateTables, NEW rows \in AppTables,
           NEW def \in TemplateRows
    PROVE  Exported(gw, table, rows, def) \in Exports
<1>1. ASSUME NEW id \in Rows(rows) PROVE ExportedApp(rows[id], table) \in FileApps
  <2>1. rows[id] \in AppRows
    BY DEF Rows, AppTables
  <2>2. Bundle(rows[id], table) \in TemplateRows \cup AppRows
    BY <2>1 DEF Bundle, TemplateTables, AppRows
  <2>3. Bundle(rows[id], table).ids \in IdRules /\ Bundle(rows[id], table).text \in Texts
    BY <2>2 DEF TemplateRows, AppRows
  <2>4. rows[id].name \in Names
    BY <2>1 DEF AppRows
  <2> QED BY <2>3, <2>4 DEF ExportedApp, FileApps
<1>2. {ExportedApp(rows[id], table) : id \in Rows(rows)} \in SUBSET FileApps
  BY <1>1
<1> QED BY <1>2 DEF Exported, Exports, Gateways, TemplateRows

\* GetDefaultFilterTemplate returns a row of that name, and makes at most one new row.
LEMMA DefaultFacts ==
    ASSUME TypeOK, GetDefaultFilterTemplate
    PROVE  LET id == DefaultId(templates)
           IN  /\ id \in TplIds /\ templates'[id] \in TemplateRows /\ templates'[id].name = "default"
               /\ templates' \in TemplateTables /\ issued' \in [app : Nat, tpl : Nat]
               /\ \/ /\ Named(templates, "default") # {} /\ id \in Named(templates, "default")
                     /\ templates' = templates /\ issued' = issued
                  \/ /\ Named(templates, "default") = {} /\ id = issued.tpl + 1
                     /\ templates' = [templates EXCEPT ![id] = Seed]
                     /\ issued' = [issued EXCEPT !.tpl = id]
<1> DEFINE id == DefaultId(templates)
<1>1. CASE Named(templates, "default") # {}
  <2>1. id \in Named(templates, "default")
    BY <1>1 DEF DefaultId
  <2>2. id \in TplIds /\ templates[id] \in TemplateRows /\ templates[id].name = "default"
    BY <2>1 DEF Named, Rows, TypeOK, TemplateTables
  <2>3. templates' = templates /\ issued' = issued
    BY <1>1 DEF GetDefaultFilterTemplate
  <2> QED BY <1>1, <2>1, <2>2, <2>3 DEF TypeOK
<1>2. CASE Named(templates, "default") = {}
  <2>1. /\ id = issued.tpl + 1 /\ id \in TplIds
        /\ templates' = [templates EXCEPT ![id] = Seed]
        /\ issued' = [issued EXCEPT !.tpl = id]
    BY <1>2 DEF DefaultId, GetDefaultFilterTemplate
  <2>2. templates' \in TemplateTables /\ templates'[id] = Seed
    BY <2>1, RowFacts, TableFacts DEF TypeOK, TemplateTables
  <2>3. issued' \in [app : Nat, tpl : Nat]
    BY <2>1 DEF TypeOK
  <2> QED BY <1>2, <2>1, <2>2, <2>3, RowFacts
<1> QED BY <1>1, <1>2

-----------------------------------------------------------------------------
(* Types and places *)

\* Each kind of request has the id and the body that its handler reads.
LEMMA OpFacts ==
    ASSUME TypeOK, PlaceInv, NEW q \in Requests, pc[q] # "new"
    PROVE  /\ op[q].kind = "putGateway" => Body(q) \in Gateways
           /\ op[q].kind \in {"postApp", "putApp"} => Body(q) \in AppRows
           /\ op[q].kind \in {"postTemplate", "putTemplate"} => Body(q) \in TemplateRows
           /\ op[q].kind \in {"putApp", "deleteApp"} => op[q].id \in AppIds
           /\ op[q].kind \in {"putTemplate", "deleteTemplate"} => op[q].id \in TplIds
           /\ op[q].kind = "import" => Body(q) \in Files
BY StoreAssumption DEF PlaceInv, PlaceOf, WellFormed, Body

\* A step of one request leaves the others where they are.
LEMMA PlaceMoves ==
    ASSUME TypeOK, PlaceInv, NEW q \in Requests,
           op' = [op EXCEPT ![q] = op'[q]], pc' = [pc EXCEPT ![q] = pc'[q]],
           mine' = [mine EXCEPT ![q] = mine'[q]],
           PlaceOf(q)'
    PROVE  PlaceInv'
<1>1. ASSUME NEW r \in Requests, r # q PROVE PlaceOf(r)'
  <2>1. op'[r] = op[r] /\ pc'[r] = pc[r] /\ mine'[r] = mine[r]
    BY <1>1 DEF TypeOK
  <2> QED BY <2>1 DEF PlaceInv, PlaceOf
<1> QED BY <1>1 DEF PlaceInv

\* The handlers that make one change keep the types and the places.
LEMMA EditTypes ==
    ASSUME TypeOK, PlaceInv, NEW q \in Requests, Edit(q)
    PROVE  TypeOK' /\ PlaceInv'
<1> USE DEF rowVars, runVars, historyVars, Goto, Kinds, Importing, Exporting, Reloading,
            WithGateway, WithDefault
<1>t. /\ pc \in [Requests -> Places] /\ mine \in [Requests -> Copies]
      /\ op \in [Requests -> Ops \cup {Idle}]
      /\ gateway \in Gateways /\ apps \in AppTables /\ templates \in TemplateTables
      /\ issued \in [app : Nat, tpl : Nat] /\ unapplied \in BOOLEAN /\ exposed \in BOOLEAN
      /\ "reload" \in Places /\ "delete" \in Places /\ "done" \in Places
  BY DEF TypeOK, Places
<1>1. CASE PutGateway(q)
  <2>1. /\ pc[q] = "putGateway" /\ gateway' = Body(q) /\ pc' = [pc EXCEPT ![q] = "reload"]
        /\ UNCHANGED <<apps, templates, issued, op, mine, runVars, unapplied, exposed>>
    BY <1>1 DEF PutGateway
  <2>2. op[q] \in Ops /\ Body(q) \in Gateways
    BY <2>1, OpFacts DEF PlaceInv, PlaceOf
  <2> QED BY <2>1, <2>2, <1>t, PlaceMoves DEF TypeOK, PlaceOf
<1>2. CASE PostApp(q)
  <2>1. /\ pc[q] = "postApp" /\ issued.app + 1 \in AppIds
        /\ apps' = [apps EXCEPT ![issued.app + 1] = Inserted(Body(q))]
        /\ issued' = [issued EXCEPT !.app = @ + 1]
        /\ pc' = [pc EXCEPT ![q] = "reload"]
        /\ UNCHANGED <<gateway, templates, op, mine, runVars, historyVars>>
    BY <1>2 DEF PostApp
  <2>2. op[q] \in Ops /\ Body(q) \in AppRows
    BY <2>1, OpFacts DEF PlaceInv, PlaceOf
  <2>3. apps' \in AppTables /\ issued' \in [app : Nat, tpl : Nat]
    <3>1. Inserted(Body(q)) \in AppRows
      BY <2>2, RowFacts
    <3>2. apps' \in AppTables
      BY <2>1, <3>1, <1>t, TableFacts, AppTableFacts
    <3> QED BY <2>1, <3>2, <1>t
  <2> QED BY <2>1, <2>2, <2>3, <1>t, PlaceMoves DEF TypeOK, PlaceOf
<1>3. CASE PutApp(q)
  <2>1. /\ pc[q] = "putApp" /\ apps' = Save(apps, op[q].id, Body(q))
        /\ issued' = [issued EXCEPT !["app"] = IF op[q].id > @ THEN op[q].id ELSE @]
        /\ pc' = [pc EXCEPT ![q] = "reload"]
        /\ UNCHANGED <<gateway, templates, op, mine, runVars, historyVars>>
    BY <1>3 DEF PutApp, Issue
  <2>2. op[q] \in Ops /\ Body(q) \in AppRows /\ op[q].id \in AppIds /\ op[q].id \in Nat
    BY <2>1, OpFacts, StoreAssumption DEF PlaceInv, PlaceOf
  <2>3. apps' \in AppTables /\ issued' \in [app : Nat, tpl : Nat]
    BY <2>1, <2>2, <1>t, TableFacts, AppTableFacts
  <2> QED BY <2>1, <2>2, <2>3, <1>t, PlaceMoves DEF TypeOK, PlaceOf
<1>4. CASE DeleteApp(q)
  <2>1. /\ pc[q] = "deleteApp" /\ apps' = [apps EXCEPT ![op[q].id] = Gone]
        /\ pc' = [pc EXCEPT ![q] = "reload"]
        /\ UNCHANGED <<gateway, templates, issued, op, mine, runVars, historyVars>>
    BY <1>4 DEF DeleteApp
  <2>2. op[q] \in Ops /\ op[q].id \in AppIds
    BY <2>1, OpFacts DEF PlaceInv, PlaceOf
  <2>3. apps' \in AppTables
    BY <2>1, <2>2, <1>t, TableFacts, AppTableFacts
  <2> QED BY <2>1, <2>2, <2>3, <1>t, PlaceMoves DEF TypeOK, PlaceOf
<1>5. CASE PostTemplate(q)
  <2>1. /\ pc[q] = "postTemplate" /\ issued.tpl + 1 \in TplIds
        /\ templates' = [templates EXCEPT ![issued.tpl + 1] = Inserted(Body(q))]
        /\ issued' = [issued EXCEPT !.tpl = @ + 1]
        /\ unapplied' \in BOOLEAN
        /\ pc' = [pc EXCEPT ![q] = "done"]
        /\ UNCHANGED <<gateway, apps, op, mine, runVars, exposed>>
    BY <1>5 DEF PostTemplate
  <2>2. op[q] \in Ops /\ Body(q) \in TemplateRows
    BY <2>1, OpFacts DEF PlaceInv, PlaceOf
  <2>3. templates' \in TemplateTables /\ issued' \in [app : Nat, tpl : Nat]
    <3>1. Inserted(Body(q)) \in TemplateRows
      BY <2>2, RowFacts
    <3>2. templates' \in TemplateTables
      BY <2>1, <3>1, <1>t, TableFacts, AppTableFacts
    <3> QED BY <2>1, <3>2, <1>t
  <2> QED BY <2>1, <2>2, <2>3, <1>t, PlaceMoves DEF TypeOK, PlaceOf
<1>6. CASE PutTemplate(q)
  <2>1. /\ pc[q] = "putTemplate" /\ templates' = Save(templates, op[q].id, Body(q))
        /\ issued' = [issued EXCEPT !["tpl"] = IF op[q].id > @ THEN op[q].id ELSE @]
        /\ exposed' \in BOOLEAN
        /\ pc' = [pc EXCEPT ![q] = "reload"]
        /\ UNCHANGED <<gateway, apps, op, mine, runVars, unapplied>>
    BY <1>6 DEF PutTemplate, Issue
  <2>2. op[q] \in Ops /\ Body(q) \in TemplateRows /\ op[q].id \in TplIds /\ op[q].id \in Nat
    BY <2>1, OpFacts, StoreAssumption DEF PlaceInv, PlaceOf
  <2>3. templates' \in TemplateTables /\ issued' \in [app : Nat, tpl : Nat]
    <3>1. templates' \in TemplateTables
      BY <2>1, <2>2, <1>t, TableFacts, AppTableFacts
    <3> QED BY <2>1, <2>2, <3>1, <1>t
  <2>4. TypeOK'
    BY <2>1, <2>3, <1>t DEF TypeOK
  <2>5. PlaceOf(q)'
    BY <2>1, <2>2, <1>t DEF PlaceOf
  <2> QED BY <2>1, <2>4, <2>5, <1>t, PlaceMoves
<1>7. CASE CheckTemplate(q)
  <2>1. /\ pc[q] = "deleteTemplate"
        /\ \E place \in {"done", "delete"} : pc' = [pc EXCEPT ![q] = place]
        /\ UNCHANGED <<rowVars, op, mine, runVars, historyVars>>
    BY <1>7 DEF CheckTemplate
  <2>2. op[q] \in Ops /\ op[q].kind = "deleteTemplate"
    BY <2>1 DEF PlaceInv, PlaceOf
  <2>3. TypeOK'
    BY <2>1, <1>t DEF TypeOK
  <2>4. PlaceOf(q)'
    BY <2>1, <2>2, <1>t DEF PlaceOf
  <2> QED BY <2>1, <2>3, <2>4, <1>t, PlaceMoves
<1>8. CASE DeleteTemplate(q)
  <2>1. /\ pc[q] = "delete" /\ templates' = [templates EXCEPT ![op[q].id] = Gone]
        /\ unapplied' = TRUE
        /\ pc' = [pc EXCEPT ![q] = "done"]
        /\ UNCHANGED <<gateway, apps, issued, op, mine, runVars, exposed>>
    BY <1>8 DEF DeleteTemplate
  <2>2. op[q] \in Ops /\ op[q].id \in TplIds
    BY <2>1, OpFacts DEF PlaceInv, PlaceOf
  <2>3. templates' \in TemplateTables
    BY <2>1, <2>2, <1>t, TableFacts, AppTableFacts
  <2> QED BY <2>1, <2>2, <2>3, <1>t, PlaceMoves DEF TypeOK, PlaceOf
<1> QED BY <1>1, <1>2, <1>3, <1>4, <1>5, <1>6, <1>7, <1>8 DEF Edit

\* The steps of an import, and the reads it shares with an export, keep the types and the
\* places.
LEMMA ImportTypes ==
    ASSUME TypeOK, PlaceInv, NEW q \in Requests, Import(q)
    PROVE  TypeOK' /\ PlaceInv'
<1> USE DEF rowVars, runVars, historyVars, Goto, Kinds, Importing, Exporting, Reloading,
            WithGateway, WithDefault
<1>t. /\ pc \in [Requests -> Places] /\ mine \in [Requests -> Copies]
      /\ op \in [Requests -> Ops \cup {Idle}]
      /\ gateway \in Gateways /\ apps \in AppTables /\ templates \in TemplateTables
      /\ issued \in [app : Nat, tpl : Nat] /\ unapplied \in BOOLEAN /\ exposed \in BOOLEAN
      /\ \A place \in Importing \cup Exporting \cup {"readDefault", "reload", "done"} : place \in Places
      /\ NoCopy \in Copies
  BY DEF TypeOK, Places, NoCopy, Copies
<1>o. pc[q] \in Importing \cup {"import"} =>
          op[q] \in Ops /\ op[q].kind = "import" /\ Body(q) \in Files
  BY OpFacts DEF PlaceInv, PlaceOf
<1>1. CASE ReadGateway(q)
  <2>1. /\ pc[q] \in {"import", "export"}
        /\ mine' = [mine EXCEPT ![q].gw = gateway]
        /\ pc' = [pc EXCEPT ![q] = "readDefault"]
        /\ UNCHANGED <<rowVars, op, runVars, historyVars>>
    BY <1>1 DEF ReadGateway
  <2>2. /\ mine' = [mine EXCEPT ![q] = [mine[q] EXCEPT !.gw = gateway]]
        /\ mine' \in [Requests -> Copies] /\ mine'[q].gw \in Gateways
    BY <2>1, <1>t DEF Copies
  <2>3. op[q] \in Ops /\ op[q].kind \in {"import", "export"}
    BY <2>1 DEF PlaceInv, PlaceOf
  <2> QED BY <2>1, <2>2, <2>3, <1>t, PlaceMoves DEF TypeOK, PlaceOf
<1>2. CASE ReadDefault(q)
  <2> DEFINE id == DefaultId(templates)
             place == AfterDefault(q)
  <2>1. /\ pc[q] = "readDefault" /\ GetDefaultFilterTemplate
        /\ mine' = [mine EXCEPT ![q].id = id, ![q].def = templates'[id]]
        /\ unapplied' \in BOOLEAN
        /\ pc' = [pc EXCEPT ![q] = place]
        /\ UNCHANGED <<gateway, apps, op, runVars, exposed>>
    BY <1>2 DEF ReadDefault, Made
  <2>2. id \in TplIds /\ templates'[id] \in TemplateRows
        /\ templates' \in TemplateTables /\ issued' \in [app : Nat, tpl : Nat]
    BY <2>1, DefaultFacts
  <2>3. /\ mine[q].gw \in Gateways /\ op[q] \in Ops
        /\ \/ op[q].kind = "import" /\ place = "saveGateway"
           \/ place = "exportTemplates"
    BY <2>1 DEF PlaceInv, PlaceOf, AfterDefault
  <2> HIDE DEF id, place
  <2>4. /\ mine' = [mine EXCEPT ![q] = [mine[q] EXCEPT !.id = id, !.def = templates'[id]]]
        /\ mine' \in [Requests -> Copies] /\ mine'[q].gw = mine[q].gw
        /\ mine'[q].def \in TemplateRows /\ mine'[q].id \in TplIds
    BY <2>1, <2>2, <1>t DEF Copies
  <2>5. TypeOK'
    BY <2>1, <2>2, <2>3, <2>4, <1>t DEF TypeOK
  <2>6. PlaceOf(q)'
    BY <2>1, <2>3, <2>4, <1>t DEF PlaceOf
  <2>7. mine' = [mine EXCEPT ![q] = mine'[q]]
    BY <2>4, <1>t
  <2> QED BY <2>1, <2>5, <2>6, <2>7, <1>t, PlaceMoves
<1>3. CASE SaveGateway(q)
  <2>1. /\ pc[q] = "saveGateway" /\ gateway' = MergedGateway(mine[q].gw, Body(q))
        /\ mine' = [mine EXCEPT ![q].gw = Idle]
        /\ pc' = [pc EXCEPT ![q] = "saveDefault"]
        /\ UNCHANGED <<apps, templates, issued, op, runVars, unapplied, exposed>>
    BY <1>3 DEF SaveGateway
  <2>2. mine[q].gw \in Gateways /\ mine[q].def \in TemplateRows /\ mine[q].id \in TplIds
    BY <2>1 DEF PlaceInv, PlaceOf
  <2>3. gateway' \in Gateways
    BY <2>1, <2>2, <1>o, MergeFacts
  <2>4. /\ mine' = [mine EXCEPT ![q] = [mine[q] EXCEPT !.gw = Idle]]
        /\ mine' \in [Requests -> Copies] /\ mine'[q].def = mine[q].def /\ mine'[q].id = mine[q].id
    BY <2>1, <1>t DEF Copies
  <2>5. TypeOK'
    BY <2>1, <2>3, <2>4, <1>t DEF TypeOK
  <2>6. PlaceOf(q)'
    BY <2>1, <2>2, <2>4, <1>o, <1>t DEF PlaceOf
  <2>7. mine' = [mine EXCEPT ![q] = mine'[q]]
    BY <2>4, <1>t
  <2> QED BY <2>1, <2>5, <2>6, <2>7, <1>t, PlaceMoves
<1>4. CASE SaveDefault(q)
  <2> DEFINE row == MergedDefault(mine[q].def, Body(q))
  <2>1. /\ pc[q] = "saveDefault" /\ templates' = Save(templates, mine[q].id, row)
        /\ mine' = [mine EXCEPT ![q] = NoCopy] /\ pc' = [pc EXCEPT ![q] = "apps"]
        /\ UNCHANGED <<gateway, apps, issued, op, runVars, unapplied, exposed>>
    BY <1>4 DEF SaveDefault
  <2>2. mine[q].def \in TemplateRows /\ mine[q].id \in TplIds
    BY <2>1 DEF PlaceInv, PlaceOf
  <2>3. row \in TemplateRows
    BY <2>1, <2>2, <1>o, MergeFacts
  <2> HIDE DEF row
  <2>4. templates' \in TemplateTables
    BY <2>1, <2>2, <2>3, <1>t, TableFacts, AppTableFacts
  <2> QED BY <2>1, <2>4, <1>o, <1>t, PlaceMoves DEF TypeOK, PlaceOf
<1>5. CASE FindApp(q)
  <2>1. pc[q] = "apps" /\ UNCHANGED <<rowVars, op, runVars, historyVars>>
    BY <1>5 DEF FindApp
  <2>2. CASE mine[q].next > Len(Body(q).apps)
    <3>1. pc' = [pc EXCEPT ![q] = "reload"] /\ mine' = [mine EXCEPT ![q] = NoCopy]
      BY <1>5, <2>2 DEF FindApp
    <3> QED BY <2>1, <3>1, <1>o, <1>t, PlaceMoves DEF TypeOK, PlaceOf
  <2>3. CASE ~(mine[q].next > Len(Body(q).apps))
    <3>1. PICK id \in {0} \cup Named(apps, Body(q).apps[mine[q].next].name) :
             mine' = [mine EXCEPT ![q].found = id] /\ pc' = [pc EXCEPT ![q] = "app"]
      BY <1>5, <2>3 DEF FindApp
    <3>2. id \in AppIds \cup {0}
      BY <3>1, <1>t DEF Named, Rows, AppTables
    <3>3. /\ mine' = [mine EXCEPT ![q] = [mine[q] EXCEPT !.found = id]]
          /\ mine' \in [Requests -> Copies] /\ mine'[q].next = mine[q].next
          /\ mine[q].next \in Nat \ {0}
      BY <3>1, <3>2, <1>t DEF Copies
    <3>4. Len(Body(q).apps) \in Nat
      BY <2>1, <1>o DEF Files
    <3>5. mine'[q].next \in 1 .. Len(op[q].body.apps)
      BY <2>3, <3>3, <3>4 DEF Body
    <3> QED BY <2>1, <3>1, <3>3, <3>5, <1>o, <1>t, PlaceMoves DEF TypeOK, PlaceOf
  <2> QED BY <2>2, <2>3
<1>6. CASE ImportApp(q)
  <2> DEFINE row == ImportedApp(Body(q).apps[mine[q].next])
  <2>1. /\ pc[q] = "app"
        /\ \/ /\ mine[q].found # 0 /\ apps' = Save(apps, mine[q].found, row) /\ UNCHANGED issued
           \/ /\ issued.app + 1 \in AppIds
              /\ apps' = [apps EXCEPT ![issued.app + 1] = row]
              /\ issued' = [issued EXCEPT !.app = @ + 1]
           \/ UNCHANGED <<apps, issued>>
        /\ mine' = [mine EXCEPT ![q].next = @ + 1, ![q].found = 0]
        /\ pc' = [pc EXCEPT ![q] = "apps"]
        /\ UNCHANGED <<gateway, templates, op, runVars, historyVars>>
    BY <1>6 DEF ImportApp
  <2>2. row \in AppRows
    BY <2>1, <1>o, MergeFacts DEF PlaceInv, PlaceOf, Body
  <2>3. mine[q].found \in AppIds \cup {0} /\ mine[q].next \in Nat \ {0}
    BY <1>t DEF Copies
  <2>4. mine[q].next + 1 \in Nat \ {0}
    BY <2>3
  <2>5. mine' \in [Requests -> Copies] /\ mine' = [mine EXCEPT ![q] = mine'[q]]
    BY <2>1, <2>4, <1>t DEF Copies
  <2> HIDE DEF row
  <2>6. apps' \in AppTables
    <3>1. CASE mine[q].found # 0 /\ apps' = Save(apps, mine[q].found, row)
      <4>1. mine[q].found \in AppIds
        BY <2>3, <3>1
      <4> QED BY <2>2, <3>1, <4>1, <1>t, AppTableFacts
    <3>2. CASE issued.app + 1 \in AppIds /\ apps' = [apps EXCEPT ![issued.app + 1] = row]
      BY <2>2, <3>2, <1>t, AppTableFacts
    <3>3. CASE apps' = apps
      BY <3>3, <1>t
    <3> QED BY <2>1, <3>1, <3>2, <3>3
  <2>7. issued' \in [app : Nat, tpl : Nat]
    BY <2>1, <1>t
  <2> QED BY <2>1, <2>5, <2>6, <2>7, <1>o, <1>t, PlaceMoves DEF TypeOK, PlaceOf
<1> QED BY <1>1, <1>2, <1>3, <1>4, <1>5, <1>6 DEF Import

\* The rest of an export keeps the types and the places.
LEMMA ExportTypes ==
    ASSUME TypeOK, PlaceInv, NEW q \in Requests, Export(q)
    PROVE  TypeOK' /\ PlaceInv'
<1> USE DEF rowVars, runVars, historyVars, Goto, Kinds, Importing, Exporting, Reloading,
            WithGateway, WithDefault
<1>t. /\ pc \in [Requests -> Places] /\ mine \in [Requests -> Copies]
      /\ op \in [Requests -> Ops \cup {Idle}]
      /\ apps \in AppTables /\ templates \in TemplateTables
      /\ \A place \in Exporting \cup {"done"} : place \in Places
      /\ NoCopy \in Copies
  BY DEF TypeOK, Places, NoCopy, Copies
<1>1. ASSUME NEW copy \in Copies, NEW place \in Exporting \cup {"done"}, pc[q] \in Exporting,
             mine' = [mine EXCEPT ![q] = copy], pc' = [pc EXCEPT ![q] = place],
             UNCHANGED <<rowVars, op, runVars, historyVars>>,
             place = "exportApps" =>
                /\ copy.gw \in Gateways /\ copy.def \in TemplateRows /\ copy.id \in TplIds
                /\ copy.templates \in TemplateTables,
             place # "exportTemplates"
      PROVE  TypeOK' /\ PlaceInv'
  <2>1. TypeOK'
    BY <1>1, <1>t DEF TypeOK
  <2>2. op[q] \in Ops
    BY <1>1 DEF PlaceInv, PlaceOf
  <2>3. PlaceOf(q)'
    BY <1>1, <2>2, <1>t DEF PlaceOf
  <2> QED BY <1>1, <2>1, <2>3, <1>t, PlaceMoves
<1>2. CASE ExportTemplates(q)
  <2> DEFINE copy == [mine[q] EXCEPT !.templates = templates]
  <2>1. /\ pc[q] = "exportTemplates" /\ mine' = [mine EXCEPT ![q] = copy]
        /\ pc' = [pc EXCEPT ![q] = "exportApps"] /\ UNCHANGED <<rowVars, op, runVars, historyVars>>
    BY <1>2 DEF ExportTemplates
  <2>2. mine[q].gw \in Gateways /\ mine[q].def \in TemplateRows /\ mine[q].id \in TplIds
    BY <2>1 DEF PlaceInv, PlaceOf
  <2>3. /\ copy \in Copies /\ copy.gw = mine[q].gw /\ copy.def = mine[q].def /\ copy.id = mine[q].id
        /\ copy.templates = templates
    BY <1>t DEF Copies
  <2> HIDE DEF copy
  <2> QED BY <2>1, <2>2, <2>3, <1>1, <1>t
<1>3. CASE ExportApps(q)
  <2> DEFINE file == Exported(mine[q].gw, mine[q].templates, apps, mine[q].def)
             copy == [NoCopy EXCEPT !.file = file]
  <2>1. /\ pc[q] = "exportApps" /\ mine' = [mine EXCEPT ![q] = copy]
        /\ pc' = [pc EXCEPT ![q] = "answer"] /\ UNCHANGED <<rowVars, op, runVars, historyVars>>
    BY <1>3 DEF ExportApps
  <2>2. file \in Exports
    BY <2>1, <1>t, ExportFacts DEF PlaceInv, PlaceOf
  <2> HIDE DEF file
  <2>3. copy \in Copies
    BY <2>2, <1>t DEF Copies
  <2> HIDE DEF copy
  <2> QED BY <2>1, <2>3, <1>1
<1>4. CASE Answer(q)
  BY <1>1, <1>4, <1>t DEF Answer
<1> QED BY <1>2, <1>3, <1>4 DEF Export

\* So do the arrival of a request, the steps of a reload and a failure.
LEMMA OtherTypes ==
    ASSUME TypeOK, PlaceInv, NEW q \in Requests, Arrive(q) \/ Start(q) \/ Fail(q)
    PROVE  TypeOK' /\ PlaceInv'
<1> USE DEF rowVars, runVars, historyVars, Goto, Kinds, Importing, Exporting, Reloading,
            WithGateway, WithDefault
<1>t. /\ pc \in [Requests -> Places] /\ mine \in [Requests -> Copies]
      /\ op \in [Requests -> Ops \cup {Idle}]
      /\ gateway \in Gateways /\ apps \in AppTables /\ templates \in TemplateTables
      /\ issued \in [app : Nat, tpl : Nat] /\ unapplied \in BOOLEAN /\ exposed \in BOOLEAN
      /\ reading \in Readings /\ mu \in Requests \cup {Idle}
      /\ \A place \in Kinds \cup Reloading \cup {"done"} : place \in Places
      /\ NoCopy \in Copies /\ NoRead \in Readings
  BY DEF TypeOK, Places, NoCopy, Copies, NoRead, Readings
<1>r. pc[q] \in Reloading \cup {"reload"} => op[q] \in Ops
  BY DEF PlaceInv, PlaceOf
<1>1. CASE Arrive(q)
  <2>1. PICK o \in Ops : op' = [op EXCEPT ![q] = o] /\ pc' = [pc EXCEPT ![q] = o.kind]
    BY <1>1 DEF Arrive
  <2>2. UNCHANGED <<rowVars, mine, runVars, historyVars>>
    BY <1>1 DEF Arrive
  <2>3. o.kind \in Kinds
    BY StoreAssumption DEF WellFormed
  <2> QED BY <2>1, <2>2, <2>3, <1>t, PlaceMoves DEF TypeOK, PlaceOf
<1>2. CASE Reload(q)
  <2>1. /\ pc[q] = "reload" /\ mu' = q /\ unapplied' = FALSE
        /\ pc' = [pc EXCEPT ![q] = "listApps"]
        /\ UNCHANGED <<rowVars, op, mine, reading, late, exposed>>
    BY <1>2 DEF Reload
  <2> QED BY <2>1, <1>t, <1>r, PlaceMoves DEF TypeOK, PlaceOf
<1>3. CASE ListApps(q)
  <2>1. /\ pc[q] = "listApps" /\ reading' = [reading EXCEPT !.apps = apps]
        /\ pc' = [pc EXCEPT ![q] = "listTemplates"]
        /\ UNCHANGED <<rowVars, op, mine, mu, live, historyVars>>
    BY <1>3 DEF ListApps
  <2>2. reading' \in Readings
    BY <2>1, <1>t DEF Readings
  <2> QED BY <2>1, <2>2, <1>t, <1>r, PlaceMoves DEF TypeOK, PlaceOf
<1>4. CASE ListTemplates(q)
  <2>1. /\ pc[q] = "listTemplates" /\ reading' = [reading EXCEPT !.templates = templates]
        /\ pc' = [pc EXCEPT ![q] = "start"]
        /\ UNCHANGED <<rowVars, op, mine, mu, live, historyVars>>
    BY <1>4 DEF ListTemplates
  <2>2. reading' \in Readings
    BY <2>1, <1>t DEF Readings
  <2> QED BY <2>1, <2>2, <1>t, <1>r, PlaceMoves DEF TypeOK, PlaceOf
<1>5. CASE StartClients(q)
  <2>1. /\ pc[q] = "start" /\ GetDefaultFilterTemplate
        /\ reading' = NoRead /\ mu' = Idle /\ unapplied' \in BOOLEAN
        /\ pc' = [pc EXCEPT ![q] = "done"]
        /\ UNCHANGED <<gateway, apps, op, mine, exposed>>
    BY <1>5 DEF StartClients, Made
  <2>2. templates' \in TemplateTables /\ issued' \in [app : Nat, tpl : Nat]
    BY <2>1, DefaultFacts
  <2> QED BY <2>1, <2>2, <1>t, <1>r, PlaceMoves DEF TypeOK, PlaceOf
<1>6. CASE Fail(q)
  <2>1. /\ pc[q] # "new" /\ pc' = [pc EXCEPT ![q] = "done"] /\ mine' = [mine EXCEPT ![q] = NoCopy]
        /\ unapplied' \in BOOLEAN /\ mu' \in Requests \cup {Idle} /\ reading' \in Readings
        /\ UNCHANGED <<rowVars, op, live, late, exposed>>
    BY <1>6, <1>t DEF Fail
  <2>2. op[q] \in Ops
    BY <2>1 DEF PlaceInv, PlaceOf
  <2> QED BY <2>1, <2>2, <1>t, PlaceMoves DEF TypeOK, PlaceOf
<1>7. CASE ReloadIgnored(q)
  <2>1. /\ pc[q] = "reload" /\ pc' = [pc EXCEPT ![q] = "done"]
        /\ UNCHANGED <<rowVars, op, mine, runVars, historyVars>>
    BY <1>7 DEF ReloadIgnored
  <2> QED BY <2>1, <1>t, <1>r, PlaceMoves DEF TypeOK, PlaceOf
<1> QED BY <1>1, <1>2, <1>3, <1>4, <1>5, <1>6, <1>7 DEF Start

\* So does a crash, which starts the program on what is stored.
LEMMA CrashTypes ==
    ASSUME TypeOK, PlaceInv, Crash
    PROVE  TypeOK' /\ PlaceInv'
<1>1. /\ GetDefaultFilterTemplate
      /\ pc' = [q \in Requests |-> IF pc[q] = "new" THEN "new" ELSE "done"]
      /\ mine' = [q \in Requests |-> NoCopy]
      /\ mu' = Idle /\ reading' = NoRead /\ unapplied' = FALSE
      /\ UNCHANGED <<gateway, apps, op, late, exposed>>
  BY DEF Crash
<1>2. templates' \in TemplateTables /\ issued' \in [app : Nat, tpl : Nat]
  BY <1>1, DefaultFacts
<1>3. "new" \in Places /\ "done" \in Places /\ NoCopy \in Copies /\ NoRead \in Readings
  BY DEF Places, NoCopy, Copies, NoRead, Readings
<1>4. TypeOK'
  BY <1>1, <1>2, <1>3 DEF TypeOK
<1>5. PlaceInv'
  BY <1>1 DEF PlaceInv, PlaceOf, Kinds, Importing, WithGateway, WithDefault
<1> QED BY <1>4, <1>5

\* What Open leaves has the types, and no request is anywhere yet.
LEMMA TypeInit == Init => TypeOK /\ PlaceInv
<1> SUFFICES ASSUME Init PROVE TypeOK /\ PlaceInv
    OBVIOUS
<1>1. PICK s \in Stores : /\ gateway = s.gateway /\ apps = s.apps
                         /\ templates = s.templates /\ issued = s.issued
  BY DEF Init
<1>2. Opened(s)
  BY StoreAssumption
<1>3. issued \in [app : Nat, tpl : Nat]
  <2>1. AppIds \cup {0} \subseteq Nat /\ TplIds \subseteq Nat
    BY StoreAssumption
  <2>2. issued \in [app : AppIds \cup {0}, tpl : TplIds]
    BY <1>1, <1>2 DEF Opened
  <2> QED BY <2>1, <2>2
<1>4. "new" \in Places /\ NoCopy \in Copies /\ NoRead \in Readings
  BY DEF Places, NoCopy, Copies, NoRead, Readings
<1>5. /\ op = [q \in Requests |-> Idle] /\ pc = [q \in Requests |-> "new"]
      /\ mine = [q \in Requests |-> NoCopy]
      /\ mu = Idle /\ reading = NoRead /\ ~unapplied /\ ~exposed
      /\ unapplied \in BOOLEAN /\ exposed \in BOOLEAN
  BY DEF Init
<1>6. TypeOK
  BY <1>1, <1>2, <1>3, <1>4, <1>5 DEF TypeOK, Opened, AppTables, TemplateTables
<1>7. PlaceInv
  BY <1>5 DEF PlaceInv, PlaceOf, Kinds, Importing, WithGateway, WithDefault
<1> QED BY <1>6, <1>7

\* Every step keeps the types and the places.
LEMMA TypeStep == TypeOK /\ PlaceInv /\ [Next]_vars => TypeOK' /\ PlaceInv'
<1> SUFFICES ASSUME TypeOK, PlaceInv, [Next]_vars PROVE TypeOK' /\ PlaceInv'
    OBVIOUS
<1>1. CASE UNCHANGED vars
  BY <1>1 DEF vars, rowVars, runVars, historyVars, TypeOK, PlaceInv, PlaceOf
<1>2. CASE Next
  BY <1>2, EditTypes, ImportTypes, ExportTypes, OtherTypes, CrashTypes DEF Next
<1> QED BY <1>1, <1>2

\* The rows are rows and each handler is where its request goes, for any requests.
THEOREM TypeCorrect == Spec => [](TypeOK /\ PlaceInv)
BY TypeInit, TypeStep, PTL DEF Spec

-----------------------------------------------------------------------------
(* The default template *)

Seeded == templates[1] # Gone /\ templates[1].builtin /\ templates[1].name = "default"

\* The only deletes and copies of the seeded template that are under way when no save has
\* exposed it are copies that still have its name and builtin; new rows get other ids.
ProtectInv ==
    /\ issued.tpl >= 1
    /\ exposed \/ Seeded
    /\ \A q \in Requests :
          /\ pc[q] = "delete" /\ op[q].id = 1 => exposed
          /\ pc[q] \in {"saveGateway", "saveDefault"} /\ mine[q].id = 1 =>
                 exposed \/ (mine[q].def.builtin /\ mine[q].def.name = "default")

\* Every step keeps the seeded template safe, unless a save exposes it.
LEMMA ProtectStep ==
    TypeOK /\ PlaceInv /\ ProtectInv /\ [Next]_vars => ProtectInv'
<1> SUFFICES ASSUME TypeOK, PlaceInv, ProtectInv, [Next]_vars PROVE ProtectInv'
    OBVIOUS
<1> USE DEF rowVars, runVars, historyVars, Goto
<1>t. /\ pc \in [Requests -> Places] /\ mine \in [Requests -> Copies]
      /\ op \in [Requests -> Ops \cup {Idle}]
      /\ templates \in TemplateTables /\ issued \in [app : Nat, tpl : Nat] /\ exposed \in BOOLEAN
  BY DEF TypeOK
<1>d. ASSUME GetDefaultFilterTemplate
      PROVE  issued'.tpl >= 1 /\ (Seeded => Seeded')
  <2>1. CASE UNCHANGED <<templates, issued>>
    BY <2>1 DEF Seeded, ProtectInv
  <2>2. CASE /\ templates' = [templates EXCEPT ![issued.tpl + 1] = Seed]
             /\ issued' = [issued EXCEPT !.tpl = @ + 1]
    BY <2>2, <1>t DEF Seeded, ProtectInv, TemplateTables
  <2> QED BY <1>d, <2>1, <2>2 DEF GetDefaultFilterTemplate
\* What a step of one request that touches neither the table nor a copy keeps.
<1>k. ASSUME NEW q \in Requests, UNCHANGED exposed, op' = [op EXCEPT ![q] = op'[q]],
             pc' = [pc EXCEPT ![q] = pc'[q]], mine' = [mine EXCEPT ![q] = mine'[q]],
             issued'.tpl >= 1, Seeded => Seeded',
             pc'[q] \notin {"delete", "saveGateway", "saveDefault"}
      PROVE  ProtectInv'
  <2>1. \A r \in Requests : r # q => pc'[r] = pc[r] /\ mine'[r] = mine[r] /\ op'[r] = op[r]
    BY <1>k, <1>t
  <2> QED BY <1>k, <2>1 DEF ProtectInv
<1>1. ASSUME NEW q \in Requests, Arrive(q) PROVE ProtectInv'
  <2>1. PICK o \in Ops : op' = [op EXCEPT ![q] = o] /\ pc' = [pc EXCEPT ![q] = o.kind]
    BY <1>1 DEF Arrive
  <2>2. UNCHANGED <<templates, issued, mine, exposed>>
    BY <1>1 DEF Arrive
  <2>3. o.kind \notin {"delete", "saveGateway", "saveDefault"}
    BY StoreAssumption DEF WellFormed, Kinds
  <2> QED BY <2>1, <2>2, <2>3, <1>k, <1>t DEF Seeded, ProtectInv
<1>2. ASSUME NEW q \in Requests, PutGateway(q) \/ PostApp(q) \/ PutApp(q) \/ DeleteApp(q)
      PROVE  ProtectInv'
  <2>1. /\ UNCHANGED <<templates, op, mine, exposed>>
        /\ pc' = [pc EXCEPT ![q] = "reload"] /\ issued'.tpl = issued.tpl
    BY <1>2, <1>t DEF PutGateway, PostApp, PutApp, DeleteApp, Issue
  <2> QED BY <2>1, <1>k, <1>t DEF Seeded, ProtectInv
<1>3. ASSUME NEW q \in Requests, PostTemplate(q) PROVE ProtectInv'
  <2>1. /\ templates' = [templates EXCEPT ![issued.tpl + 1] = Inserted(Body(q))]
        /\ issued' = [issued EXCEPT !.tpl = @ + 1]
        /\ UNCHANGED <<op, mine, exposed>> /\ pc' = [pc EXCEPT ![q] = "done"]
    BY <1>3 DEF PostTemplate
  <2>2. issued'.tpl >= 1 /\ (Seeded => Seeded')
    BY <2>1, <1>t DEF Seeded, ProtectInv, TemplateTables
  <2> QED BY <2>1, <2>2, <1>k, <1>t
<1>4. ASSUME NEW q \in Requests, PutTemplate(q) PROVE ProtectInv'
  <2>1. /\ pc[q] = "putTemplate" /\ templates' = Save(templates, op[q].id, Body(q))
        /\ issued' = [issued EXCEPT !["tpl"] = IF op[q].id > @ THEN op[q].id ELSE @]
        /\ exposed' = (exposed \/ (op[q].id = 1 /\ ~(Body(q).builtin /\ Body(q).name = "default")))
        /\ UNCHANGED <<op, mine>> /\ pc' = [pc EXCEPT ![q] = "reload"]
    BY <1>4 DEF PutTemplate, Issue
  <2>2. Body(q) \in TemplateRows /\ op[q].id \in TplIds /\ op[q].id \in Nat
    <3>1. TplIds \subseteq Nat
      BY StoreAssumption
    <3> QED BY <2>1, <3>1, OpFacts DEF PlaceInv, PlaceOf, Kinds
  <2>3. templates' = [templates EXCEPT ![op[q].id] = Body(q)] /\ Body(q) # Gone
    BY <2>1, <2>2, <1>t, TableFacts, RowFacts
  <2>4. issued'.tpl >= 1
    BY <2>1, <2>2, <1>t DEF ProtectInv
  <2>5. exposed' \/ Seeded'
    <3>1. CASE op[q].id = 1
      <4>1. templates'[1] = Body(q)
        BY <2>2, <2>3, <3>1, <1>t DEF TemplateTables
      <4> QED BY <2>1, <2>3, <3>1, <4>1 DEF Seeded
    <3>2. CASE op[q].id # 1
      <4>1. templates'[1] = templates[1]
        BY <2>3, <3>2, <1>t DEF TemplateTables
      <4> QED BY <2>1, <4>1 DEF ProtectInv, Seeded
    <3> QED BY <3>1, <3>2
  <2>6. \A r \in Requests : pc'[r] = pc[r] \/ pc'[r] = "reload"
    BY <2>1, <1>t
  <2> QED BY <2>1, <2>4, <2>5, <2>6 DEF ProtectInv
<1>5. ASSUME NEW q \in Requests, CheckTemplate(q) PROVE ProtectInv'
  <2>1. /\ pc' = [pc EXCEPT ![q] = IF templates[op[q].id].builtin THEN "done" ELSE "delete"]
        /\ UNCHANGED <<templates, issued, op, mine, exposed>>
    BY <1>5 DEF CheckTemplate
  <2>2. pc'[q] = "delete" /\ op[q].id = 1 => exposed
    BY <2>1, <1>t DEF ProtectInv, Seeded
  <2>3. pc'[q] \notin {"saveGateway", "saveDefault"} /\ \A r \in Requests : r # q => pc'[r] = pc[r]
    BY <2>1, <1>t
  <2> QED BY <2>1, <2>2, <2>3 DEF ProtectInv, Seeded
<1>6. ASSUME NEW q \in Requests, DeleteTemplate(q) PROVE ProtectInv'
  <2>1. /\ pc[q] = "delete" /\ templates' = [templates EXCEPT ![op[q].id] = Gone]
        /\ pc' = [pc EXCEPT ![q] = "done"]
        /\ UNCHANGED <<issued, op, mine, exposed>>
    BY <1>6 DEF DeleteTemplate
  <2>2. exposed' \/ Seeded'
    BY <2>1, <1>t DEF ProtectInv, Seeded, TemplateTables
  <2>3. \A r \in Requests : pc'[r] = pc[r] \/ pc'[r] = "done"
    BY <2>1, <1>t
  <2> QED BY <2>1, <2>2, <2>3 DEF ProtectInv
<1>7. ASSUME NEW q \in Requests, ReadGateway(q) PROVE ProtectInv'
  <2>1. /\ UNCHANGED <<templates, issued, op, exposed>> /\ pc' = [pc EXCEPT ![q] = "readDefault"]
        /\ mine' = [mine EXCEPT ![q] = mine'[q]]
    BY <1>7, <1>t DEF ReadGateway
  <2> QED BY <2>1, <1>k, <1>t DEF Seeded, ProtectInv
<1>8. ASSUME NEW q \in Requests, ReadDefault(q) PROVE ProtectInv'
  <2> DEFINE id == DefaultId(templates)
             place == AfterDefault(q)
  <2>1. /\ GetDefaultFilterTemplate
        /\ mine' = [mine EXCEPT ![q].id = id, ![q].def = templates'[id]]
        /\ pc' = [pc EXCEPT ![q] = place] /\ UNCHANGED <<op, exposed>>
    BY <1>8 DEF ReadDefault
  <2>2. place \in {"saveGateway", "exportTemplates"}
    BY DEF AfterDefault
  <2> HIDE DEF id, place
  <2>4. /\ mine'[q].id = id /\ mine'[q].def = templates'[id]
        /\ \A r \in Requests : r # q => mine'[r] = mine[r] /\ pc'[r] = pc[r]
        /\ pc'[q] = place
    BY <2>1, <1>t DEF Copies
  <2>6. issued'.tpl >= 1 /\ (Seeded => Seeded')
    BY <2>1, <1>d
  <2>7. mine'[q].id = 1 => exposed \/ (mine'[q].def.builtin /\ mine'[q].def.name = "default")
    BY <2>4, <2>6 DEF Seeded, ProtectInv
  <2>8. exposed' \/ Seeded'
    BY <2>1, <2>6 DEF ProtectInv
  <2>9. ASSUME NEW r \in Requests
        PROVE  /\ pc'[r] = "delete" /\ op'[r].id = 1 => exposed'
               /\ pc'[r] \in {"saveGateway", "saveDefault"} /\ mine'[r].id = 1 =>
                      exposed' \/ (mine'[r].def.builtin /\ mine'[r].def.name = "default")
    <3>1. CASE r = q
      BY <2>1, <2>2, <2>4, <2>7, <3>1
    <3>2. CASE r # q
      BY <2>1, <2>4, <3>2 DEF ProtectInv
    <3> QED BY <3>1, <3>2
  <2> QED BY <2>6, <2>8, <2>9 DEF ProtectInv
<1>9. ASSUME NEW q \in Requests, SaveGateway(q) PROVE ProtectInv'
  <2>1. /\ pc[q] = "saveGateway" /\ pc' = [pc EXCEPT ![q] = "saveDefault"]
        /\ mine' = [mine EXCEPT ![q].gw = Idle]
        /\ UNCHANGED <<templates, issued, op, exposed>>
    BY <1>9 DEF SaveGateway
  <2>2. /\ pc'[q] = "saveDefault" /\ mine'[q].id = mine[q].id /\ mine'[q].def = mine[q].def
        /\ \A r \in Requests : r # q => pc'[r] = pc[r] /\ mine'[r] = mine[r]
    BY <2>1, <1>t DEF Copies
  <2> QED BY <2>1, <2>2 DEF ProtectInv, Seeded
<1>10. ASSUME NEW q \in Requests, SaveDefault(q) PROVE ProtectInv'
  <2> DEFINE row == MergedDefault(mine[q].def, Body(q))
  <2>1. /\ pc[q] = "saveDefault" /\ templates' = Save(templates, mine[q].id, row)
        /\ mine' = [mine EXCEPT ![q] = NoCopy] /\ pc' = [pc EXCEPT ![q] = "apps"]
        /\ UNCHANGED <<issued, op, exposed>>
    BY <1>10 DEF SaveDefault
  <2>2. mine[q].def \in TemplateRows /\ mine[q].id \in TplIds /\ Body(q) \in Files
    BY <2>1, OpFacts DEF PlaceInv, PlaceOf, WithDefault, Importing
  <2>3. row \in TemplateRows /\ row.name = mine[q].def.name /\ row.builtin = mine[q].def.builtin
    BY <2>2, MergeFacts
  <2> HIDE DEF row
  <2>6. templates' = [templates EXCEPT ![mine[q].id] = row] /\ row # Gone
    BY <2>1, <2>2, <2>3, <1>t, TableFacts, RowFacts
  <2>4. exposed' \/ Seeded'
    BY <2>1, <2>3, <2>6, <1>t DEF ProtectInv, Seeded, TemplateTables
  <2>5. /\ pc'[q] = "apps"
        /\ \A r \in Requests : r # q => mine'[r] = mine[r] /\ pc'[r] = pc[r]
    BY <2>1, <1>t
  <2> QED BY <2>1, <2>4, <2>5 DEF ProtectInv
<1>11. ASSUME NEW q \in Requests, FindApp(q) PROVE ProtectInv'
  <2>1. /\ UNCHANGED <<templates, issued, op, exposed>> /\ mine' = [mine EXCEPT ![q] = mine'[q]]
        /\ pc' = [pc EXCEPT ![q] = pc'[q]] /\ pc'[q] \in {"reload", "app"}
    BY <1>11, <1>t DEF FindApp
  <2> QED BY <2>1, <1>k, <1>t DEF Seeded, ProtectInv
<1>12. ASSUME NEW q \in Requests, ImportApp(q) PROVE ProtectInv'
  <2>1. /\ UNCHANGED <<templates, op, exposed>> /\ mine' = [mine EXCEPT ![q] = mine'[q]]
        /\ pc' = [pc EXCEPT ![q] = "apps"] /\ issued'.tpl = issued.tpl
    BY <1>12, <1>t DEF ImportApp
  <2> QED BY <2>1, <1>k, <1>t DEF Seeded, ProtectInv
<1>13. ASSUME NEW q \in Requests, StartClients(q) PROVE ProtectInv'
  <2>1. /\ GetDefaultFilterTemplate /\ UNCHANGED <<op, mine, exposed>>
        /\ pc' = [pc EXCEPT ![q] = "done"]
    BY <1>13 DEF StartClients
  <2> QED BY <2>1, <1>d, <1>k, <1>t
<1>14. ASSUME NEW q \in Requests,
              \/ Export(q) \/ Fail(q)
              \/ Reload(q) \/ ReloadIgnored(q) \/ ListApps(q) \/ ListTemplates(q)
       PROVE  ProtectInv'
  <2>1. /\ UNCHANGED <<templates, issued, op, exposed>> /\ mine' = [mine EXCEPT ![q] = mine'[q]]
        /\ pc' = [pc EXCEPT ![q] = pc'[q]]
        /\ pc'[q] \in {"listApps", "listTemplates", "start", "exportApps", "answer", "done"}
    BY <1>14, <1>t DEF Export, ExportTemplates, ExportApps, Answer, Fail,
                       Reload, ReloadIgnored, ListApps, ListTemplates
  <2> QED BY <2>1, <1>k, <1>t DEF Seeded, ProtectInv
<1>15. CASE Crash
  <2>1. /\ GetDefaultFilterTemplate /\ UNCHANGED <<op, exposed>>
        /\ \A r \in Requests : pc'[r] \in {"new", "done"}
    BY <1>15 DEF Crash
  <2> QED BY <2>1, <1>d DEF ProtectInv
<1>16. CASE UNCHANGED vars
  BY <1>16 DEF vars, ProtectInv, Seeded
<1> QED BY <1>1, <1>2, <1>3, <1>4, <1>5, <1>6, <1>7, <1>8, <1>9, <1>10, <1>11, <1>12, <1>13, <1>14,
           <1>15, <1>16 DEF Next, Edit, Import, Start

\* Open has put the seeded template in its place.
LEMMA ProtectInit == Init => ProtectInv
<1> SUFFICES ASSUME Init PROVE ProtectInv
    OBVIOUS
<1>1. PICK s \in Stores : templates = s.templates /\ issued = s.issued
  BY DEF Init
<1>2. Opened(s) /\ TplIds \subseteq Nat \ {0}
  BY StoreAssumption
<1>3. pc = [q \in Requests |-> "new"]
  BY DEF Init
<1>4. templates[1] # Gone /\ templates[1].builtin /\ templates[1].name = "default"
  BY <1>1, <1>2 DEF Opened
<1>5. issued.tpl >= 1
  <2>1. issued.tpl \in TplIds
    BY <1>1, <1>2 DEF Opened
  <2>2. \A i \in Nat \ {0} : i >= 1
    OBVIOUS
  <2> QED BY <2>1, <2>2, <1>2
<1> QED BY <1>3, <1>4, <1>5 DEF ProtectInv, Seeded

\* The seeded template stays, with its name and builtin, until a save takes one of them.
THEOREM DefaultIsProtected == Spec => []DefaultProtected
<1>1. ProtectInv => DefaultProtected
  BY DEF ProtectInv, DefaultProtected, Seeded
<1> QED BY <1>1, TypeInit, TypeStep, ProtectInit, ProtectStep, PTL DEF Spec

-----------------------------------------------------------------------------
(* The copies of imports and exports *)

LateOf(q) ==
    /\ pc[q] \in WithDefault => mine[q].id <= issued.tpl
    /\ pc[q] \in WithGateway /\ <<q, "gateway">> \notin late => mine[q].gw = gateway
    /\ pc[q] \in WithDefault /\ <<q, "default">> \notin late =>
          mine[q].def = templates[mine[q].id]
    /\ pc[q] = "exportApps" /\ <<q, "templates">> \notin late => mine[q].templates = templates

\* A new row has an id that no row and no copy has, and a copy that nobody has outdated
\* is what is stored.
LateInv ==
    /\ \A id \in Rows(templates) : id <= issued.tpl
    /\ \A q \in Requests : LateOf(q)

\* What a step of q must do to the copies of others and to its own.
LEMMA LateMoves ==
    ASSUME TypeOK, LateInv, NEW q \in Requests,
           pc' = [pc EXCEPT ![q] = pc'[q]], mine' = [mine EXCEPT ![q] = mine'[q]],
           late \subseteq late', issued'.tpl \in Nat, issued.tpl <= issued'.tpl,
           \A id \in Rows(templates') : id <= issued'.tpl,
           \A r \in Requests \ {q} :
              /\ pc[r] \in WithGateway => gateway' = gateway \/ <<r, "gateway">> \in late'
              /\ pc[r] \in WithDefault =>
                    templates'[mine[r].id] = templates[mine[r].id] \/ <<r, "default">> \in late'
              /\ pc[r] = "exportApps" => templates' = templates \/ <<r, "templates">> \in late',
           LateOf(q)'
    PROVE  LateInv'
<1>1. ASSUME NEW r \in Requests, r # q PROVE LateOf(r)'
  <2>1. mine'[r] = mine[r] /\ pc'[r] = pc[r] /\ mine[r].id \in TplIds \cup {0} /\ issued.tpl \in Nat
    BY <1>1 DEF TypeOK, Copies
  <2>2. mine[r].id \in Nat
    <3>1. TplIds \cup {0} \subseteq Nat
      BY StoreAssumption
    <3> QED BY <2>1, <3>1
  <2>3. LateOf(r)
    BY DEF LateInv
  <2>4. pc[r] \in WithDefault => mine[r].id <= issued'.tpl
    BY <2>1, <2>2, <2>3 DEF LateOf
  <2> QED BY <1>1, <2>1, <2>3, <2>4 DEF LateOf
<1>2. Rows(templates)' = Rows(templates')
  BY DEF Rows
<1> QED BY <1>1, <1>2 DEF LateInv

\* A row that a new id or an old one is written to.
LEMMA RowsFacts ==
    ASSUME TypeOK, LateInv, NEW id \in TplIds, NEW x, NEW n \in Nat,
           id <= n, issued.tpl <= n
    PROVE  \A i \in Rows([templates EXCEPT ![id] = x]) : i <= n
<1> DEFINE t == [templates EXCEPT ![id] = x]
<1> SUFFICES ASSUME NEW i \in Rows(t) PROVE i <= n
    OBVIOUS
<1>1. i \in TplIds /\ TplIds \subseteq Nat /\ issued.tpl \in Nat
  <2>1. DOMAIN t = TplIds /\ issued.tpl \in Nat
    BY DEF TypeOK, TemplateTables
  <2> HIDE DEF t
  <2> QED BY <2>1, StoreAssumption DEF Rows
<1>2. CASE i = id
  BY <1>2
<1>3. CASE i # id
  <2>1. t[i] = templates[i] /\ DOMAIN t = TplIds /\ DOMAIN templates = TplIds
    BY <1>3, <1>1 DEF TypeOK, TemplateTables
  <2> HIDE DEF t
  <2>2. i \in Rows(templates)
    BY <2>1 DEF Rows
  <2> QED BY <1>1, <2>2 DEF LateInv
<1> QED BY <1>2, <1>3

\* Every step keeps the copies of the imports true, or marks them as late.
LEMMA LateStep ==
    TypeOK /\ PlaceInv /\ LateInv /\ [Next]_vars => LateInv'
<1> SUFFICES ASSUME TypeOK, PlaceInv, LateInv, [Next]_vars PROVE LateInv'
    OBVIOUS
<1> USE DEF rowVars, runVars, historyVars, Goto, WithGateway, WithDefault
<1>t. /\ pc \in [Requests -> Places] /\ mine \in [Requests -> Copies]
      /\ op \in [Requests -> Ops \cup {Idle}]
      /\ templates \in TemplateTables /\ issued \in [app : Nat, tpl : Nat] /\ gateway \in Gateways
  BY DEF TypeOK
<1>n. TplIds \subseteq Nat
  BY StoreAssumption
<1>r. \A id \in Rows(templates) : id <= issued.tpl
  BY DEF LateInv
<1>c. \A r \in Requests :
         /\ pc[r] \in WithGateway => mine[r].gw # Idle
         /\ pc[r] \in WithDefault =>
               mine[r].def # Idle /\ mine[r].id \in TplIds /\ mine[r].id <= issued.tpl
         /\ pc[r] = "exportApps" => mine[r].templates # Idle
  <2>1. \A t \in TemplateTables : t # Idle
    BY StoreAssumption DEF TemplateTables
  <2> QED BY <2>1, RowFacts DEF PlaceInv, PlaceOf, LateInv, LateOf
\* A row that is made gets an id that no copy has.
<1>d. ASSUME GetDefaultFilterTemplate
      PROVE  /\ issued'.tpl \in Nat /\ issued.tpl <= issued'.tpl
             /\ \A id \in Rows(templates') : id <= issued'.tpl
             /\ \A id \in TplIds : id <= issued.tpl => templates'[id] = templates[id]
             /\ DefaultId(templates) \in TplIds /\ DefaultId(templates) <= issued'.tpl
             /\ templates'[DefaultId(templates)] \in TemplateRows
  <2> DEFINE id == DefaultId(templates)
  <2>1. id \in TplIds /\ templates'[id] \in TemplateRows
    BY <1>d, DefaultFacts
  <2>2. CASE id \in Named(templates, "default") /\ templates' = templates /\ issued' = issued
    <3>1. id \in Rows(templates)
      BY <2>2 DEF Named
    <3> QED BY <2>1, <2>2, <3>1, <1>r, <1>t
  <2>3. CASE /\ id = issued.tpl + 1 /\ templates' = [templates EXCEPT ![id] = Seed]
             /\ issued' = [issued EXCEPT !.tpl = id]
    <3> HIDE DEF id
    <3>1. issued'.tpl = id /\ id = issued.tpl + 1 /\ id \in Nat /\ issued.tpl \in Nat
      BY <2>3, <1>t
    <3>2. \A i \in Rows(templates') : i <= id
      <4>1. id \in TplIds /\ id \in Nat /\ id <= id /\ issued.tpl <= id
        BY <2>1, <3>1
      <4>2. \A i \in Rows([templates EXCEPT ![id] = Seed]) : i <= id
        BY <4>1, RowsFacts
      <4> QED BY <2>3, <4>2
    <3>3. \A i \in TplIds : i <= issued.tpl => templates'[i] = templates[i]
      BY <2>3, <3>1, <1>n, <1>t DEF TemplateTables
    <3> QED BY <2>1, <3>1, <3>2, <3>3 DEF id
  <2> QED BY <1>d, <2>1, <2>2, <2>3, DefaultFacts
\* So a copy of that row is not outdated, and the copies of the tables get late.
<1>m. ASSUME NEW q \in Requests, GetDefaultFilterTemplate, Made(q)
      PROVE  /\ late \subseteq late'
             /\ \/ UNCHANGED templates
                \/ \A r \in Requests \ {q} : pc[r] = "exportApps" => <<r, "templates">> \in late'
  <2>1. CASE Named(templates, "default") # {}
    BY <1>m, <2>1 DEF Made, GetDefaultFilterTemplate
  <2>2. CASE Named(templates, "default") = {}
    BY <1>c, <1>m, <2>2 DEF Made, TemplateWritten
  <2> QED BY <2>1, <2>2
\* What a step keeps that makes no copy of a row and writes none that others have copied.
<1>k. ASSUME NEW q \in Requests, UNCHANGED gateway, late \subseteq late',
             pc' = [pc EXCEPT ![q] = pc'[q]],
             mine' = [mine EXCEPT ![q] = mine'[q]],
             issued'.tpl \in Nat, issued.tpl <= issued'.tpl,
             \A id \in Rows(templates') : id <= issued'.tpl,
             \A id \in TplIds : id <= issued.tpl => templates'[id] = templates[id],
             \/ UNCHANGED templates
             \/ \A r \in Requests \ {q} : pc[r] = "exportApps" => <<r, "templates">> \in late',
             pc'[q] \notin WithGateway \cup WithDefault
      PROVE  LateInv'
  <2>1. LateOf(q)'
    BY <1>k DEF LateOf
  <2>2. ASSUME NEW r \in Requests \ {q}
        PROVE  /\ pc[r] \in WithDefault =>
                      templates'[mine[r].id] = templates[mine[r].id] \/ <<r, "default">> \in late'
               /\ pc[r] = "exportApps" => templates' = templates \/ <<r, "templates">> \in late'
    BY <1>k, <1>c
  <2> QED BY <1>k, <2>1, <2>2, LateMoves
<1>s. issued.tpl \in Nat /\ issued.tpl <= issued.tpl
  BY <1>t
<1>1. ASSUME NEW q \in Requests, Arrive(q) PROVE LateInv'
  <2>1. PICK o \in Ops : op' = [op EXCEPT ![q] = o] /\ pc' = [pc EXCEPT ![q] = o.kind]
    BY <1>1 DEF Arrive
  <2>2. UNCHANGED <<gateway, templates, issued, mine, late>>
    BY <1>1 DEF Arrive
  <2>3. o.kind \notin WithGateway \cup WithDefault
    BY StoreAssumption DEF WellFormed, Kinds
  <2> QED BY <2>1, <2>2, <2>3, <1>k, <1>r, <1>s, <1>t
<1>2. ASSUME NEW q \in Requests, PostApp(q) \/ PutApp(q) \/ DeleteApp(q) \/ CheckTemplate(q)
      PROVE  LateInv'
  <2>1. /\ UNCHANGED <<gateway, templates, mine, late>> /\ issued'.tpl = issued.tpl
        /\ pc' = [pc EXCEPT ![q] = pc'[q]] /\ pc'[q] \in {"reload", "done", "delete"}
    BY <1>2, <1>t DEF PostApp, PutApp, DeleteApp, CheckTemplate, Issue
  <2> QED BY <2>1, <1>k, <1>r, <1>s, <1>t
<1>3. ASSUME NEW q \in Requests, PutGateway(q) PROVE LateInv'
  <2>1. /\ late' = late \cup ({p \in Requests \ {q} : mine[p].gw # Idle} \X {"gateway"})
        /\ UNCHANGED <<templates, issued, mine>> /\ pc' = [pc EXCEPT ![q] = "reload"]
    BY <1>3 DEF PutGateway, GatewayWritten
  <2>2. LateOf(q)'
    BY <2>1, <1>t DEF LateOf
  <2>3. \A r \in Requests \ {q} : pc[r] \in WithGateway => <<r, "gateway">> \in late'
    BY <2>1, <1>c
  <2> QED BY <2>1, <2>2, <2>3, <1>r, <1>s, <1>t, LateMoves
\* The write of a row: who has read it, or the table, gets late.
<1>v. ASSUME NEW q \in Requests, NEW id, TemplateWritten(q, id)
      PROVE  /\ late \subseteq late'
             /\ \A r \in Requests \ {q} :
                   /\ pc[r] \in WithDefault /\ mine[r].id = id => <<r, "default">> \in late'
                   /\ pc[r] = "exportApps" => <<r, "templates">> \in late'
  BY <1>v, <1>c DEF TemplateWritten
<1>4. ASSUME NEW q \in Requests, PostTemplate(q) PROVE LateInv'
  <2>1. /\ issued.tpl + 1 \in TplIds
        /\ templates' = [templates EXCEPT ![issued.tpl + 1] = Inserted(Body(q))]
        /\ issued' = [issued EXCEPT !.tpl = @ + 1]
        /\ TemplateWritten(q, issued.tpl + 1)
        /\ UNCHANGED <<gateway, mine>> /\ pc' = [pc EXCEPT ![q] = "done"]
    BY <1>4 DEF PostTemplate
  <2>2. issued'.tpl = issued.tpl + 1 /\ issued'.tpl \in Nat /\ issued.tpl <= issued'.tpl
    BY <2>1, <1>t
  <2>3. \A id \in Rows(templates') : id <= issued'.tpl
    <3> DEFINE m == issued.tpl + 1
               x == Inserted(Body(q))
    <3>1. m \in TplIds /\ m \in Nat /\ m <= m /\ issued.tpl <= m
      BY <2>1, <1>s
    <3> HIDE DEF m, x
    <3>2. \A i \in Rows([templates EXCEPT ![m] = x]) : i <= m
      BY <3>1, RowsFacts
    <3> QED BY <2>1, <2>2, <3>2 DEF m, x
  <2>4. \A id \in TplIds : id <= issued.tpl => templates'[id] = templates[id]
    BY <2>1, <1>n, <1>t DEF TemplateTables
  <2>5. /\ late \subseteq late'
        /\ \A r \in Requests \ {q} : pc[r] = "exportApps" => <<r, "templates">> \in late'
    BY <2>1, <1>v
  <2> QED BY <2>1, <2>2, <2>3, <2>4, <2>5, <1>k, <1>t
\* A write to one row of the table.
<1>w. ASSUME NEW q \in Requests, NEW id \in TplIds, NEW x,
             templates' = [templates EXCEPT ![id] = x],
             TemplateWritten(q, id),
             UNCHANGED gateway, mine' = [mine EXCEPT ![q] = mine'[q]],
             pc' = [pc EXCEPT ![q] = pc'[q]],
             issued'.tpl \in Nat, issued.tpl <= issued'.tpl, id <= issued'.tpl,
             pc'[q] \notin WithGateway \cup WithDefault
      PROVE  LateInv'
  <2>1. LateOf(q)'
    BY <1>w DEF LateOf
  <2>2. \A i \in Rows(templates') : i <= issued'.tpl
    BY <1>w, RowsFacts
  <2>3. ASSUME NEW r \in Requests \ {q}
        PROVE  /\ pc[r] \in WithDefault =>
                      templates'[mine[r].id] = templates[mine[r].id] \/ <<r, "default">> \in late'
               /\ pc[r] = "exportApps" => <<r, "templates">> \in late'
    BY <1>w, <1>v, <1>c, <1>t DEF TemplateTables
  <2>4. late \subseteq late'
    BY <1>w, <1>v
  <2> QED BY <1>w, <2>1, <2>2, <2>3, <2>4, LateMoves
<1>5. ASSUME NEW q \in Requests, PutTemplate(q) PROVE LateInv'
  <2>1. /\ pc[q] = "putTemplate" /\ templates' = Save(templates, op[q].id, Body(q))
        /\ issued' = [issued EXCEPT !["tpl"] = IF op[q].id > @ THEN op[q].id ELSE @]
        /\ TemplateWritten(q, op[q].id)
        /\ UNCHANGED <<gateway, mine>> /\ pc' = [pc EXCEPT ![q] = "reload"]
    BY <1>5 DEF PutTemplate, Issue
  <2>2. Body(q) \in TemplateRows /\ op[q].id \in TplIds /\ op[q].id \in Nat
    BY <2>1, <1>n, OpFacts DEF PlaceInv, PlaceOf, Kinds
  <2>3. templates' = [templates EXCEPT ![op[q].id] = Body(q)]
    BY <2>1, <2>2, <1>t, TableFacts
  <2>4. issued'.tpl \in Nat /\ issued.tpl <= issued'.tpl /\ op[q].id <= issued'.tpl
    BY <2>1, <2>2, <1>t
  <2> QED BY <2>1, <2>2, <2>3, <2>4, <1>w, <1>t
<1>6. ASSUME NEW q \in Requests, DeleteTemplate(q) PROVE LateInv'
  <2>1. /\ pc[q] = "delete" /\ templates' = [templates EXCEPT ![op[q].id] = Gone]
        /\ TemplateWritten(q, op[q].id)
        /\ UNCHANGED <<gateway, issued, mine>> /\ pc' = [pc EXCEPT ![q] = "done"]
    BY <1>6 DEF DeleteTemplate
  <2>2. op[q].id \in TplIds
    BY <2>1, OpFacts DEF PlaceInv, PlaceOf
  <2>3. CASE op[q].id <= issued.tpl
    BY <2>1, <2>2, <2>3, <1>s, <1>w, <1>t
  <2>4. CASE ~(op[q].id <= issued.tpl)
    <3>1. \A id \in Rows(templates') : id <= issued.tpl
      BY <2>1, <1>r, <1>t DEF Rows, TemplateTables
    <3>2. \A id \in TplIds : id <= issued.tpl => templates'[id] = templates[id]
      BY <2>1, <2>4, <1>t DEF TemplateTables
    <3>3. /\ late \subseteq late'
          /\ \A r \in Requests \ {q} : pc[r] = "exportApps" => <<r, "templates">> \in late'
      BY <2>1, <1>v
    <3> QED BY <2>1, <3>1, <3>2, <3>3, <1>k, <1>s, <1>t
  <2> QED BY <2>3, <2>4
<1>7. ASSUME NEW q \in Requests, ReadGateway(q) PROVE LateInv'
  <2>1. /\ UNCHANGED <<gateway, templates, issued, late>>
        /\ mine' = [mine EXCEPT ![q].gw = gateway]
        /\ pc' = [pc EXCEPT ![q] = "readDefault"]
    BY <1>7 DEF ReadGateway
  <2>2. mine'[q].gw = gateway /\ mine' = [mine EXCEPT ![q] = mine'[q]]
    BY <2>1, <1>t DEF Copies
  <2>3. LateOf(q)'
    BY <2>1, <2>2, <1>t DEF LateOf
  <2> QED BY <2>1, <2>2, <2>3, <1>r, <1>s, <1>t, LateMoves
<1>8. ASSUME NEW q \in Requests, ReadDefault(q) PROVE LateInv'
  <2> DEFINE id == DefaultId(templates)
             place == AfterDefault(q)
  <2>1. /\ pc[q] = "readDefault" /\ GetDefaultFilterTemplate /\ Made(q)
        /\ mine' = [mine EXCEPT ![q].id = id, ![q].def = templates'[id]]
        /\ pc' = [pc EXCEPT ![q] = place] /\ UNCHANGED gateway
    BY <1>8 DEF ReadDefault
  <2>2. place \in {"saveGateway", "exportTemplates"}
    BY DEF AfterDefault
  <2>d. /\ issued'.tpl \in Nat /\ issued.tpl <= issued'.tpl
        /\ \A i \in Rows(templates') : i <= issued'.tpl
        /\ \A i \in TplIds : i <= issued.tpl => templates'[i] = templates[i]
        /\ id \in TplIds /\ id <= issued'.tpl
    BY <2>1, <1>d
  <2> HIDE DEF id, place
  <2>3. /\ mine'[q].id = id /\ mine'[q].def = templates'[id]
        /\ mine'[q].gw = mine[q].gw /\ mine' = [mine EXCEPT ![q] = mine'[q]]
    BY <2>1, <1>t DEF Copies
  <2>4. /\ late \subseteq late'
        /\ \A r \in Requests \ {q} :
              pc[r] = "exportApps" => templates' = templates \/ <<r, "templates">> \in late'
    BY <2>1, <1>m
  <2>5. <<q, "gateway">> \notin late => mine[q].gw = gateway
    BY <2>1 DEF LateInv, LateOf
  <2>6. LateOf(q)'
    BY <2>1, <2>2, <2>3, <2>4, <2>5, <2>d, <1>t DEF LateOf
  <2>7. \A r \in Requests \ {q} : pc[r] \in WithDefault => templates'[mine[r].id] = templates[mine[r].id]
    BY <2>d, <1>c
  <2> QED BY <2>1, <2>3, <2>4, <2>6, <2>7, <2>d, <1>t, LateMoves
<1>9. ASSUME NEW q \in Requests, SaveGateway(q) PROVE LateInv'
  <2>1. /\ pc[q] = "saveGateway"
        /\ late' = late \cup ({p \in Requests \ {q} : mine[p].gw # Idle} \X {"gateway"})
        /\ mine' = [mine EXCEPT ![q].gw = Idle]
        /\ UNCHANGED <<templates, issued>> /\ pc' = [pc EXCEPT ![q] = "saveDefault"]
    BY <1>9 DEF SaveGateway, GatewayWritten
  <2>4. /\ mine' = [mine EXCEPT ![q] = mine'[q]]
        /\ mine'[q].id = mine[q].id /\ mine'[q].def = mine[q].def
    BY <2>1, <1>t DEF Copies
  <2>2. LateOf(q)'
    BY <2>1, <2>4, <1>t DEF LateOf, LateInv
  <2>3. \A r \in Requests \ {q} : pc[r] \in WithGateway => <<r, "gateway">> \in late'
    BY <2>1, <1>c
  <2> QED BY <2>1, <2>2, <2>3, <2>4, <1>r, <1>s, <1>t, LateMoves
<1>10. ASSUME NEW q \in Requests, SaveDefault(q) PROVE LateInv'
  <2> DEFINE row == MergedDefault(mine[q].def, Body(q))
  <2>1. /\ pc[q] = "saveDefault" /\ templates' = Save(templates, mine[q].id, row)
        /\ TemplateWritten(q, mine[q].id)
        /\ mine' = [mine EXCEPT ![q] = NoCopy] /\ pc' = [pc EXCEPT ![q] = "apps"]
        /\ UNCHANGED <<gateway, issued>>
    BY <1>10 DEF SaveDefault
  <2>2. /\ mine[q].def \in TemplateRows /\ mine[q].id \in TplIds /\ mine[q].id <= issued.tpl
        /\ Body(q) \in Files
    BY <2>1, <1>c, OpFacts DEF PlaceInv, PlaceOf, Importing
  <2>3. row \in TemplateRows
    BY <2>2, MergeFacts
  <2> HIDE DEF row
  <2>4. templates' = [templates EXCEPT ![mine[q].id] = row]
    BY <2>1, <2>2, <2>3, <1>t, TableFacts
  <2> QED BY <2>1, <2>2, <2>4, <1>s, <1>w, <1>t
<1>11. ASSUME NEW q \in Requests, FindApp(q) \/ ImportApp(q) PROVE LateInv'
  <2>1. /\ UNCHANGED <<gateway, templates, late>> /\ mine' = [mine EXCEPT ![q] = mine'[q]]
        /\ pc' = [pc EXCEPT ![q] = pc'[q]] /\ pc'[q] \in {"reload", "app", "apps"}
        /\ issued'.tpl = issued.tpl
    BY <1>11, <1>t DEF FindApp, ImportApp
  <2> QED BY <2>1, <1>k, <1>r, <1>s, <1>t
<1>12. ASSUME NEW q \in Requests, StartClients(q) PROVE LateInv'
  <2>1. /\ GetDefaultFilterTemplate /\ Made(q) /\ UNCHANGED <<gateway, mine>>
        /\ pc' = [pc EXCEPT ![q] = "done"]
    BY <1>12 DEF StartClients
  <2> QED BY <2>1, <1>d, <1>m, <1>k, <1>t
<1>13. ASSUME NEW q \in Requests,
              \/ Reload(q) \/ ReloadIgnored(q) \/ ListApps(q) \/ ListTemplates(q)
              \/ Fail(q) \/ ExportApps(q) \/ Answer(q)
       PROVE  LateInv'
  <2>1. /\ UNCHANGED <<gateway, templates, issued, late>> /\ mine' = [mine EXCEPT ![q] = mine'[q]]
        /\ pc' = [pc EXCEPT ![q] = pc'[q]]
        /\ pc'[q] \in {"listApps", "listTemplates", "start", "answer", "done"}
    BY <1>13, <1>t DEF Reload, ReloadIgnored, ListApps, ListTemplates, Fail, ExportApps, Answer
  <2> QED BY <2>1, <1>k, <1>r, <1>s, <1>t
<1>16. ASSUME NEW q \in Requests, ExportTemplates(q) PROVE LateInv'
  <2>1. /\ pc[q] = "exportTemplates" /\ mine' = [mine EXCEPT ![q].templates = templates]
        /\ pc' = [pc EXCEPT ![q] = "exportApps"] /\ UNCHANGED <<gateway, templates, issued, late>>
    BY <1>16 DEF ExportTemplates
  <2>2. /\ mine' = [mine EXCEPT ![q] = mine'[q]] /\ mine'[q].templates = templates
        /\ mine'[q].gw = mine[q].gw /\ mine'[q].id = mine[q].id /\ mine'[q].def = mine[q].def
    BY <2>1, <1>t DEF Copies
  <2>3. LateOf(q)'
    BY <2>1, <2>2, <1>t DEF LateOf, LateInv
  <2> QED BY <2>1, <2>2, <2>3, <1>r, <1>s, <1>t, LateMoves
<1>14. CASE Crash
  <2>1. GetDefaultFilterTemplate /\ \A r \in Requests : pc'[r] \in {"new", "done"}
    BY <1>14 DEF Crash
  <2>2. Rows(templates)' = Rows(templates')
    BY DEF Rows
  <2> QED BY <2>1, <2>2, <1>d DEF LateInv, LateOf
<1>15. CASE UNCHANGED vars
  BY <1>15 DEF vars, LateInv, LateOf, Rows
<1> QED BY <1>1, <1>2, <1>3, <1>4, <1>5, <1>6, <1>7, <1>8, <1>9, <1>10, <1>11, <1>12, <1>13, <1>14,
           <1>15, <1>16 DEF Next, Edit, Import, Export, Start

\* There are no copies at first, and no row has an id yet to be issued.
LEMMA LateInit == Init => LateInv
<1> SUFFICES ASSUME Init PROVE LateInv
    OBVIOUS
<1>1. PICK s \in Stores : templates = s.templates /\ issued = s.issued
  BY DEF Init
<1>2. Opened(s)
  BY StoreAssumption
<1>3. \A id \in Rows(templates) : id <= issued.tpl
  BY <1>1, <1>2 DEF Opened, Rows
<1>4. pc = [q \in Requests |-> "new"]
  BY DEF Init
<1> QED BY <1>3, <1>4 DEF LateInv, LateOf, WithGateway, WithDefault

\* Only its own steps take an import past its saves and an export past its last read.
LEMMA WhoseStep ==
    ASSUME TypeOK, Next, NEW q \in Requests
    PROVE  /\ pc[q] = "saveGateway" /\ pc'[q] = "saveDefault" => SaveGateway(q)
           /\ pc[q] = "saveDefault" /\ pc'[q] = "apps" => SaveDefault(q)
           /\ pc[q] = "exportApps" /\ pc'[q] = "answer" => ExportApps(q)
<1> USE DEF Goto, Arrive, Edit, Import, Export, Start, Fail, PutGateway, PostApp, PutApp, DeleteApp,
            PostTemplate, PutTemplate, CheckTemplate, DeleteTemplate, ReadGateway, ReadDefault,
            FindApp, ImportApp, ExportTemplates, Answer, Reload, ReloadIgnored, ListApps,
            ListTemplates, StartClients
<1> SUFFICES ASSUME \/ pc[q] = "saveGateway" /\ pc'[q] = "saveDefault"
                    \/ pc[q] = "saveDefault" /\ pc'[q] = "apps"
                    \/ pc[q] = "exportApps" /\ pc'[q] = "answer"
             PROVE  \/ pc[q] = "saveGateway" /\ SaveGateway(q)
                    \/ pc[q] = "saveDefault" /\ SaveDefault(q)
                    \/ pc[q] = "exportApps" /\ ExportApps(q)
    OBVIOUS
<1>1. PICK r \in Requests : Arrive(r) \/ Edit(r) \/ Import(r) \/ Export(r) \/ Start(r) \/ Fail(r)
  BY DEF Next, Crash
<1>2. \E place : pc' = [pc EXCEPT ![r] = place]
  BY <1>1 DEF SaveGateway, SaveDefault, ExportApps
<1>3. r = q
  BY <1>2 DEF TypeOK
<1>4. SaveGateway(q) \/ SaveDefault(q) \/ ExportApps(q)
  BY <1>1, <1>3 DEF TypeOK
<1> QED BY <1>4 DEF SaveGateway, SaveDefault, ExportApps

\* The saves of an import change only debug, the id rules of the default template and the
\* columns its file says something of, unless the row was written after it was read.
THEOREM ImportKeeps == Spec => ImportKeepsRest
<1>1. ASSUME TypeOK, PlaceInv, LateInv, Next, NEW q \in Requests,
             pc[q] = "saveGateway", pc'[q] = "saveDefault", <<q, "gateway">> \notin late
      PROVE  /\ \A field \in DOMAIN gateway \ {"net", "debug"} : gateway'[field] = gateway[field]
             /\ \A f \in Fields : Body(q).net[f] = Absent => gateway'.net[f] = gateway.net[f]
  <2>1. SaveGateway(q)
    BY <1>1, WhoseStep
  <2>2. gateway' = MergedGateway(gateway, Body(q))
    BY <1>1, <2>1 DEF SaveGateway, LateInv, LateOf, WithGateway
  <2>3. Body(q) \in Files
    BY <1>1, OpFacts DEF PlaceInv, PlaceOf, Importing
  <2>4. DOMAIN gateway = {"enabled", "net", "debug", "dedup"} /\ gateway \in Gateways
    BY <1>1 DEF TypeOK, Gateways
  <2> QED BY <2>2, <2>3, <2>4, MergeFacts
<1>2. ASSUME TypeOK, PlaceInv, LateInv, Next, NEW q \in Requests,
             pc[q] = "saveDefault", pc'[q] = "apps", <<q, "default">> \notin late
      PROVE  LET id == mine[q].id
             IN  \A field \in DOMAIN templates[id] \ {"ids"} :
                    templates'[id][field] = templates[id][field]
  <2> DEFINE id == mine[q].id
             row == MergedDefault(mine[q].def, Body(q))
  <2>1. SaveDefault(q)
    BY <1>2, WhoseStep
  <2>2. /\ mine[q].def \in TemplateRows /\ id \in TplIds /\ mine[q].def = templates[id]
        /\ Body(q) \in Files
    BY <1>2, OpFacts DEF LateInv, LateOf, PlaceInv, PlaceOf, WithDefault, Importing
  <2>3. row \in TemplateRows /\ row.name = mine[q].def.name /\ row.builtin = mine[q].def.builtin
        /\ row.text = mine[q].def.text
    BY <2>2, MergeFacts
  <2>4. templates' = Save(templates, id, row)
    BY <2>1 DEF SaveDefault
  <2>5. DOMAIN templates[id] = {"name", "builtin", "ids", "text"}
    BY <2>2 DEF TemplateRows
  <2> HIDE DEF id, row
  <2>6. templates'[id] = row
    BY <1>2, <2>2, <2>3, <2>4, TableFacts DEF TypeOK, TemplateTables
  <2>7. \A field \in DOMAIN templates[id] \ {"ids"} : templates'[id][field] = templates[id][field]
    BY <2>2, <2>3, <2>5, <2>6
  <2> QED BY <2>7 DEF id
<1>3. TypeOK /\ PlaceInv /\ LateInv /\ [Next]_vars =>
        [\A q \in Requests :
          /\ pc[q] = "saveGateway" /\ pc'[q] = "saveDefault" /\ <<q, "gateway">> \notin late =>
                 /\ \A field \in DOMAIN gateway \ {"net", "debug"} : gateway'[field] = gateway[field]
                 /\ \A f \in Fields : Body(q).net[f] = Absent => gateway'.net[f] = gateway.net[f]
          /\ pc[q] = "saveDefault" /\ pc'[q] = "apps" /\ <<q, "default">> \notin late =>
                 LET id == mine[q].id
                 IN  \A field \in DOMAIN templates[id] \ {"ids"} :
                         templates'[id][field] = templates[id][field]]_vars
  BY <1>1, <1>2
<1> QED BY <1>3, TypeInit, TypeStep, LateInit, LateStep, PTL DEF Spec, ImportKeepsRest

\* A file made of rows says of each app, without its template, the rules it has with it,
\* and of the gateway and the default template what they are.
LEMMA FileFaithful ==
    ASSUME NEW gw \in Gateways, NEW table, NEW rows, NEW def \in TemplateRows
    PROVE  LET file == Exported(gw, table, rows, def)
           IN  /\ MergedGateway(gw, file) = gw
               /\ MergedDefault(def, file) = def
               /\ \A id \in Rows(rows) : \E a \in file.apps :
                     /\ a.name = rows[id].name
                     /\ RulesOf(ImportedApp(a), table, def) = RulesOf(rows[id], table, def)
<1> DEFINE file == Exported(gw, table, rows, def)
<1>1. /\ file.net = gw.net /\ file.debug = gw.debug /\ file.ids = def.ids
      /\ file.apps = {ExportedApp(rows[id], table) : id \in Rows(rows)}
  BY DEF Exported
<1> HIDE DEF file
<1>2. MergedGateway(gw, file) = gw
  <2>1. gw.net = [f \in Fields |-> IF file.net[f] = Absent THEN gw.net[f] ELSE file.net[f]]
    BY <1>1 DEF Gateways
  <2> QED BY <1>1, <2>1 DEF MergedGateway, Gateways
<1>3. MergedDefault(def, file) = def
  BY <1>1 DEF MergedDefault, TemplateRows
<1>4. ASSUME NEW id \in Rows(rows)
      PROVE  \E a \in file.apps :
                /\ a.name = rows[id].name
                /\ RulesOf(ImportedApp(a), table, def) = RulesOf(rows[id], table, def)
  <2> DEFINE a == ExportedApp(rows[id], table)
             b == Bundle(rows[id], table)
  <2>1. a \in file.apps
    BY <1>1
  <2>2. a.name = rows[id].name /\ a.ids = b.ids /\ a.text = b.text
    BY DEF ExportedApp
  <2>3. Bundle(ImportedApp(a), table) = ImportedApp(a)
    BY DEF Bundle, ImportedApp
  <2>4. RulesOf(ImportedApp(a), table, def) = RulesOf(rows[id], table, def)
    <3>1. ImportedApp(a).ids = a.ids /\ ImportedApp(a).text = a.text
      BY DEF ImportedApp
    <3> HIDE DEF a
    <3> QED BY <2>2, <2>3, <3>1 DEF RulesOf
  <2> QED BY <2>1, <2>2, <2>4
<1> QED BY <1>2, <1>3, <1>4 DEF file

\* An exported file is a backup of what is stored when it is made, but for the parts that
\* other requests have written since they were read.
THEOREM ExportCorrect == Spec => ExportKeepsRules
<1>1. ASSUME TypeOK, PlaceInv, LateInv, Next, NEW q \in Requests,
             pc[q] = "exportApps", pc'[q] = "answer"
      PROVE  LET def   == templates[mine[q].id]
                 file  == mine'[q].file
                 stale == {part \in {"gateway", "default", "templates"} : <<q, part>> \in late}
             IN  /\ "gateway" \notin stale => MergedGateway(gateway, file) = gateway
                 /\ "default" \notin stale => MergedDefault(def, file) = def
                 /\ {"default", "templates"} \cap stale = {} =>
                        \A id \in Rows(apps) : \E a \in file.apps :
                            /\ a.name = apps[id].name
                            /\ RulesOf(ImportedApp(a), templates, MergedDefault(def, file))
                                 = RulesOf(apps[id], templates, def)
  <2> DEFINE def  == templates[mine[q].id]
             file == Exported(mine[q].gw, mine[q].templates, apps, mine[q].def)
  <2>1. mine' = [mine EXCEPT ![q] = [NoCopy EXCEPT !.file = file]]
    BY <1>1, WhoseStep DEF ExportApps
  <2>2. mine'[q].file = file
    <3> HIDE DEF file
    <3> QED BY <1>1, <2>1 DEF TypeOK, NoCopy
  <2>3. mine[q].gw \in Gateways /\ mine[q].def \in TemplateRows
    BY <1>1 DEF PlaceInv, PlaceOf, WithGateway, WithDefault
  <2>4. /\ <<q, "gateway">> \notin late => mine[q].gw = gateway
        /\ <<q, "default">> \notin late => mine[q].def = def
        /\ <<q, "templates">> \notin late => mine[q].templates = templates
    BY <1>1 DEF LateInv, LateOf, WithGateway, WithDefault
  <2>5. <<q, "gateway">> \notin late => MergedGateway(gateway, file) = gateway
    BY <2>3, <2>4, FileFaithful
  <2>6. <<q, "default">> \notin late => MergedDefault(def, file) = def
    BY <2>3, <2>4, FileFaithful
  <2>7. ASSUME <<q, "default">> \notin late, <<q, "templates">> \notin late, NEW id \in Rows(apps)
        PROVE  \E a \in file.apps :
                  /\ a.name = apps[id].name
                  /\ RulesOf(ImportedApp(a), templates, MergedDefault(def, file))
                       = RulesOf(apps[id], templates, def)
    <3>1. file = Exported(mine[q].gw, templates, apps, def) /\ def \in TemplateRows
      BY <2>3, <2>4, <2>7
    <3>2. MergedDefault(def, file) = def
      BY <2>6, <2>7
    <3> HIDE DEF file, def
    <3> QED BY <2>3, <3>1, <3>2, FileFaithful
  <2> HIDE DEF file, def
  <2> QED BY <2>2, <2>5, <2>6, <2>7 DEF def
<1>2. TypeOK /\ PlaceInv /\ LateInv /\ [Next]_vars =>
        [\A q \in Requests : pc[q] = "exportApps" /\ pc'[q] = "answer" =>
          LET def   == templates[mine[q].id]
              file  == mine'[q].file
              stale == {part \in {"gateway", "default", "templates"} : <<q, part>> \in late}
          IN  /\ "gateway" \notin stale => MergedGateway(gateway, file) = gateway
              /\ "default" \notin stale => MergedDefault(def, file) = def
              /\ {"default", "templates"} \cap stale = {} =>
                     \A id \in Rows(apps) : \E a \in file.apps :
                         /\ a.name = apps[id].name
                         /\ RulesOf(ImportedApp(a), templates, MergedDefault(def, file))
                              = RulesOf(apps[id], templates, def)]_vars
  BY <1>1
<1> QED BY <1>2, TypeInit, TypeStep, LateInit, LateStep, PTL DEF Spec, ExportKeepsRules

-----------------------------------------------------------------------------
(* What runs and what is stored *)

\* The two tables have the same templates for these apps.
SameBundles(rows, t1, t2) ==
    \A id \in Rows(rows) :
        rows[id].template # NoTemplate => t1[rows[id].template] = t2[rows[id].template]

\* A request that has changed rows and will reload.
Owed(q) ==
    pc[q] \in {"saveDefault", "apps", "app"} \/ (pc[q] = "reload" /\ op[q].kind # "reload")

Settled == ~unapplied /\ \A q \in Requests : ~Owed(q)

StoredApps == Started(apps, templates, templates[DefaultId(templates)])

\* When no change is waiting for a reload, what a reload in progress has read is still
\* so, and what runs without one is what is stored.  A manager that does not run has no
\* client and no reload.
LiveInv ==
    /\ live = [running |-> live.running, gateway |-> live.gateway, apps |-> live.apps]
    /\ live.running \in BOOLEAN
    /\ ~live.running => live.apps = {} /\ mu = Idle
    /\ \A q \in Requests : pc[q] \in Reloading <=> mu = q
    /\ Settled /\ live.running =>
          /\ live.gateway = gateway
          /\ mu = Idle => Named(templates, "default") # {} /\ live.apps = StoredApps
          /\ \A q \in Requests :
                /\ pc[q] \in {"listTemplates", "start"} => reading.apps = apps
                /\ pc[q] = "start" => SameBundles(apps, reading.templates, templates)

\* Two tables of templates that give each app the same bundle start the same apps.
LEMMA StartedSame ==
    ASSUME NEW rows, NEW t1, NEW t2, NEW d, SameBundles(rows, t1, t2)
    PROVE  Started(rows, t1, d) = Started(rows, t2, d)
<1>1. ASSUME NEW id \in Rows(rows) PROVE RulesOf(rows[id], t1, d) = RulesOf(rows[id], t2, d)
  BY DEF SameBundles, RulesOf, Bundle
<1> QED BY <1>1 DEF Started

\* A row with a new id that no app waits for changes nothing for the apps.
LEMMA NewRow ==
    ASSUME TypeOK, LateInv, NEW n \in TplIds, n = issued.tpl + 1, ~Awaited(n), NEW x
    PROVE  /\ templates[n] = Gone
           /\ SameBundles(apps, templates, [templates EXCEPT ![n] = x])
           /\ \A t : SameBundles(apps, t, templates)
                        => SameBundles(apps, t, [templates EXCEPT ![n] = x])
<1>1. templates \in TemplateTables /\ apps \in AppTables /\ issued.tpl \in Nat
  BY DEF TypeOK
<1>2. templates[n] = Gone
  <2>1. ~(n <= issued.tpl)
    BY <1>1
  <2> QED BY <2>1, <1>1 DEF LateInv, Rows, TemplateTables
<1>3. ASSUME NEW id \in Rows(apps), apps[id].template # NoTemplate
      PROVE  [templates EXCEPT ![n] = x][apps[id].template] = templates[apps[id].template]
  <2>1. apps[id].template # n
    BY DEF Awaited
  <2>2. apps[id].template \in TplIds
    BY <1>1, <1>3 DEF Rows, AppTables, AppRows
  <2> QED BY <2>1, <2>2, <1>1 DEF TemplateTables
<1> QED BY <1>2, <1>3 DEF SameBundles

\* After GetDefaultFilterTemplate there is a default template, the one it returned.
LEMMA DefaultStays ==
    ASSUME TypeOK, GetDefaultFilterTemplate
    PROVE  /\ Named(templates', "default") # {}
           /\ DefaultId(templates)' = DefaultId(templates)
<1> DEFINE n == DefaultId(templates)
<1>1. CASE Named(templates, "default") # {}
  <2>1. templates' = templates
    BY <1>1 DEF GetDefaultFilterTemplate
  <2> QED BY <1>1, <2>1 DEF DefaultId, Named, Rows
<1>2. CASE Named(templates, "default") = {}
  <2>1. n \in TplIds /\ templates' = [templates EXCEPT ![n] = Seed]
    BY <1>2, DefaultFacts
  <2>2. templates \in TemplateTables
    BY DEF TypeOK
  <2> HIDE DEF n
  <2>3. Named(templates', "default") = {n}
    BY <1>2, <2>1, <2>2, RowFacts DEF Named, Rows, TemplateTables
  <2>4. Named(templates, "default")' = Named(templates', "default")
    BY DEF Named, Rows
  <2>5. DefaultId(templates)' = n
    BY <2>3, <2>4 DEF DefaultId
  <2> QED BY <2>3, <2>5 DEF n
<1> QED BY <1>1, <1>2

\* Every step keeps what runs, or is about to run, true to the rows.
LEMMA LiveStep ==
    TypeOK /\ PlaceInv /\ LateInv /\ LiveInv /\ [Next]_vars => LiveInv'
<1> SUFFICES ASSUME TypeOK, PlaceInv, LateInv, LiveInv, [Next]_vars PROVE LiveInv'
    OBVIOUS
<1> USE DEF rowVars, runVars, historyVars, Goto
<1>t. /\ pc \in [Requests -> Places] /\ op \in [Requests -> Ops \cup {Idle}]
      /\ templates \in TemplateTables /\ issued \in [app : Nat, tpl : Nat]
      /\ unapplied \in BOOLEAN /\ mu \in Requests \cup {Idle} /\ Idle \notin Requests
  BY StoreAssumption DEF TypeOK
<1>l. /\ live = [running |-> live.running, gateway |-> live.gateway, apps |-> live.apps]
      /\ live.running \in BOOLEAN /\ (~live.running => live.apps = {} /\ mu = Idle)
      /\ \A q \in Requests : pc[q] \in Reloading <=> mu = q
  BY DEF LiveInv
\* A step whose reload is yet to come.
<1>o. ASSUME NEW q \in Requests, UNCHANGED <<mu, live>>, pc' = [pc EXCEPT ![q] = pc'[q]],
             pc[q] \notin Reloading, pc'[q] \notin Reloading, unapplied' \/ Owed(q)'
      PROVE  LiveInv'
  <2>1. ~Settled'
    BY <1>o DEF Settled
  <2> QED BY <1>o, <1>l, <1>t, <2>1 DEF LiveInv
\* A step outside of reloads that changes nothing a reload reads.
<1>k. ASSUME NEW q \in Requests, UNCHANGED <<gateway, apps, mu, live, reading>>,
             pc' = [pc EXCEPT ![q] = pc'[q]], op' = [op EXCEPT ![q] = op'[q]],
             pc[q] \notin Reloading, pc'[q] \notin Reloading,
             Settled' => Settled,
             Settled /\ Settled' /\ mu = Idle /\ Named(templates, "default") # {} =>
                 Named(templates, "default")' # {} /\ StoredApps' = StoredApps,
             Settled' => \A t : SameBundles(apps, t, templates) => SameBundles(apps, t, templates')
      PROVE  LiveInv'
  <2>1. \A r \in Requests : r # q => pc'[r] = pc[r]
    BY <1>k, <1>t
  <2>2. \A r \in Requests : pc'[r] \in Reloading <=> mu' = r
    BY <1>k, <1>l, <2>1
  <2>3. ASSUME Settled', live'.running
        PROVE  /\ live'.gateway = gateway'
               /\ mu' = Idle => Named(templates, "default")' # {} /\ live'.apps = StoredApps'
               /\ \A r \in Requests :
                     /\ pc'[r] \in {"listTemplates", "start"} => reading'.apps = apps'
                     /\ pc'[r] = "start" => SameBundles(apps', reading'.templates, templates')
    BY <1>k, <2>1, <2>3 DEF LiveInv, Reloading
  <2> QED BY <1>k, <1>l, <2>2, <2>3 DEF LiveInv
<1>s. \A t : SameBundles(apps, t, templates) => SameBundles(apps, t, templates)
  OBVIOUS
<1>1. ASSUME NEW q \in Requests, Arrive(q) PROVE LiveInv'
  <2>1. PICK o \in Ops : op' = [op EXCEPT ![q] = o] /\ pc' = [pc EXCEPT ![q] = o.kind]
    BY <1>1 DEF Arrive
  <2>2. pc[q] = "new" /\ UNCHANGED <<gateway, apps, templates, issued, mu, live, reading, unapplied>>
    BY <1>1 DEF Arrive
  <2>3. o.kind \in Kinds
    BY StoreAssumption DEF WellFormed
  <2>4. Settled' => Settled
    <3>1. \A r \in Requests : r # q => pc'[r] = pc[r] /\ op'[r] = op[r]
      BY <2>1, <1>t
    <3> QED BY <2>2, <3>1 DEF Settled, Owed
  <2>5. UNCHANGED <<StoredApps, Named(templates, "default")>>
    BY <2>2 DEF StoredApps, DefaultId, Named, Rows
  <2> QED BY <2>1, <2>2, <2>3, <2>4, <2>5, <1>k, <1>t DEF Reloading, Kinds
<1>2. ASSUME NEW q \in Requests,
             PutGateway(q) \/ PostApp(q) \/ PutApp(q) \/ DeleteApp(q) \/ PutTemplate(q)
      PROVE  LiveInv'
  <2>1. /\ UNCHANGED <<op, mu, live>> /\ pc' = [pc EXCEPT ![q] = "reload"]
        /\ pc[q] \in {"putGateway", "postApp", "putApp", "deleteApp", "putTemplate"}
    BY <1>2 DEF PutGateway, PostApp, PutApp, DeleteApp, PutTemplate
  <2>2. op[q].kind # "reload"
    BY <2>1 DEF PlaceInv, PlaceOf, Kinds
  <2> QED BY <2>1, <2>2, <1>o, <1>t DEF Owed, Reloading
<1>3. ASSUME NEW q \in Requests, SaveGateway(q) \/ SaveDefault(q) \/ FindApp(q) \/ ImportApp(q)
      PROVE  LiveInv'
  <2>1. /\ UNCHANGED <<op, mu, live>> /\ pc[q] \in {"saveGateway", "saveDefault", "apps", "app"}
        /\ pc' = [pc EXCEPT ![q] = pc'[q]] /\ pc'[q] \in {"saveDefault", "apps", "app", "reload"}
    BY <1>3, <1>t DEF SaveGateway, SaveDefault, FindApp, ImportApp
  <2>2. op[q].kind = "import"
    BY <2>1 DEF PlaceInv, PlaceOf, Importing
  <2> QED BY <2>1, <2>2, <1>o, <1>t DEF Owed, Reloading
<1>4. ASSUME NEW q \in Requests, DeleteTemplate(q) PROVE LiveInv'
  <2>1. /\ pc[q] = "delete" /\ pc' = [pc EXCEPT ![q] = "done"]
        /\ unapplied' /\ UNCHANGED <<mu, live>>
    BY <1>4 DEF DeleteTemplate
  <2> QED BY <2>1, <1>o, <1>t DEF Reloading
<1>5. ASSUME NEW q \in Requests, CheckTemplate(q) \/ ReadGateway(q) \/ Export(q) PROVE LiveInv'
  <2>1. /\ UNCHANGED <<gateway, apps, templates, issued, op, mu, live, reading, unapplied>>
        /\ pc' = [pc EXCEPT ![q] = pc'[q]]
        /\ pc[q] \in {"deleteTemplate", "import", "export"} \cup Exporting
        /\ pc'[q] \in {"done", "delete", "readDefault"} \cup Exporting
    BY <1>5, <1>t DEF CheckTemplate, ReadGateway, Export, ExportTemplates, ExportApps,
                     Answer, Exporting
  <2>2. Settled' => Settled
    <3>1. \A r \in Requests : r # q => pc'[r] = pc[r]
      BY <2>1, <1>t
    <3> QED BY <2>1, <3>1 DEF Settled, Owed, Exporting
  <2>3. UNCHANGED <<StoredApps, Named(templates, "default")>>
    BY <2>1 DEF StoredApps, DefaultId, Named, Rows
  <2> QED BY <2>1, <2>2, <2>3, <1>k, <1>t DEF Reloading, Exporting
<1>6. ASSUME NEW q \in Requests, PostTemplate(q) PROVE LiveInv'
  <2> DEFINE n == issued.tpl + 1
             x == Inserted(Body(q))
  <2>1. /\ pc[q] = "postTemplate" /\ n \in TplIds /\ NameFree(templates, Body(q).name, 0)
        /\ templates' = [templates EXCEPT ![n] = x]
        /\ unapplied' = (unapplied \/ Awaited(n))
        /\ UNCHANGED <<gateway, apps, op, mu, live, reading>>
        /\ pc' = [pc EXCEPT ![q] = "done"]
    BY <1>6 DEF PostTemplate
  <2>2. Body(q) \in TemplateRows /\ x = Body(q)
    <3>1. Body(q) \in TemplateRows
      BY <2>1, OpFacts DEF PlaceInv, PlaceOf, Kinds
    <3> QED BY <3>1, RowFacts
  <2>3. Settled' => Settled /\ ~Awaited(n)
    <3>1. \A r \in Requests : r # q => pc'[r] = pc[r]
      BY <2>1, <1>t
    <3> QED BY <2>1, <3>1 DEF Settled, Owed
  <2>4. ASSUME ~Awaited(n)
        PROVE  /\ templates[n] = Gone
               /\ SameBundles(apps, templates, templates')
               /\ \A t : SameBundles(apps, t, templates) => SameBundles(apps, t, templates')
    BY <2>1, <2>4, NewRow
  <2> HIDE DEF n, x
  <2>5. ASSUME ~Awaited(n), Named(templates, "default") # {}
        PROVE  Named(templates, "default")' # {} /\ StoredApps' = StoredApps
    <3>1. Body(q).name # "default"
      <4>1. PICK id \in Named(templates, "default") : TRUE
        BY <2>5
      <4>2. id \in Rows(templates) /\ id # 0 /\ templates[id].name = "default"
        BY <4>1, <1>t, StoreAssumption DEF Named, Rows, TemplateTables
      <4> QED BY <2>1, <4>2 DEF NameFree
    <3>2. Named(templates, "default")' = Named(templates, "default")
      BY <2>1, <2>2, <2>4, <2>5, <3>1, <1>t DEF Named, Rows, TemplateTables
    <3>3. DefaultId(templates)' = DefaultId(templates) /\ DefaultId(templates) \in Named(templates, "default")
      <4>1. DefaultId(templates) = CHOOSE id \in Named(templates, "default") : TRUE
        BY <2>5 DEF DefaultId
      <4>2. DefaultId(templates)' = CHOOSE id \in Named(templates, "default")' : TRUE
        BY <2>5, <3>2 DEF DefaultId
      <4>3. DefaultId(templates) \in Named(templates, "default")
        BY <2>5, <4>1
      <4> QED BY <3>2, <4>1, <4>2, <4>3
    <3>4. templates'[DefaultId(templates)] = templates[DefaultId(templates)]
      BY <2>1, <2>4, <2>5, <3>3, <1>t DEF Named, Rows, TemplateTables
    <3>5. Started(apps, templates, templates[DefaultId(templates)])
            = Started(apps, templates', templates[DefaultId(templates)])
      BY <2>4, <2>5, StartedSame
    <3> QED BY <2>1, <2>5, <3>2, <3>3, <3>4, <3>5 DEF StoredApps
  <2> QED BY <2>1, <2>3, <2>4, <2>5, <1>k, <1>t DEF Reloading
\* The row that GetDefaultFilterTemplate makes.
<1>d. ASSUME GetDefaultFilterTemplate, ~MadeUnapplied
      PROVE  /\ SameBundles(apps, templates, templates')
             /\ \A t : SameBundles(apps, t, templates) => SameBundles(apps, t, templates')
             /\ Named(templates, "default") # {} => UNCHANGED templates
             /\ Named(templates, "default")' # {} /\ DefaultId(templates)' = DefaultId(templates)
  <2>1. Named(templates, "default")' # {} /\ DefaultId(templates)' = DefaultId(templates)
    <3>1. Named(templates, "default")' = Named(templates', "default")
      BY DEF Named, Rows
    <3> QED BY <1>d, <3>1, DefaultStays
  <2>2. CASE Named(templates, "default") # {}
    <3>1. UNCHANGED templates
      BY <1>d, <2>2 DEF GetDefaultFilterTemplate
    <3> QED BY <2>1, <3>1 DEF SameBundles
  <2>3. CASE Named(templates, "default") = {}
    <3> DEFINE n == issued.tpl + 1
    <3>1. n \in TplIds /\ templates' = [templates EXCEPT ![n] = Seed] /\ ~Awaited(n)
      BY <1>d, <2>3 DEF GetDefaultFilterTemplate, MadeUnapplied
    <3> QED BY <2>1, <2>3, <3>1, NewRow
  <2> QED BY <2>2, <2>3
<1>7. ASSUME NEW q \in Requests, ReadDefault(q) PROVE LiveInv'
  <2>1. /\ GetDefaultFilterTemplate /\ unapplied' = (unapplied \/ MadeUnapplied)
        /\ UNCHANGED <<gateway, apps, op, mu, live, reading>>
        /\ pc[q] = "readDefault"
        /\ pc' = [pc EXCEPT ![q] = pc'[q]] /\ pc'[q] \in {"saveGateway", "exportTemplates"}
    BY <1>7, <1>t DEF ReadDefault, Made, AfterDefault
  <2>2. Settled' => Settled /\ ~MadeUnapplied
    <3>1. \A r \in Requests : r # q => pc'[r] = pc[r]
      BY <2>1, <1>t
    <3> QED BY <2>1, <3>1 DEF Settled, Owed
  <2>3. ASSUME ~MadeUnapplied, Named(templates, "default") # {}
        PROVE  Named(templates, "default")' # {} /\ StoredApps' = StoredApps
    BY <2>1, <2>3, <1>d DEF StoredApps
  <2> QED BY <2>1, <2>2, <2>3, <1>d, <1>k, <1>t DEF Reloading
<1>8. ASSUME NEW q \in Requests, Reload(q) PROVE LiveInv'
  <2>1. /\ pc[q] = "reload" /\ mu = Idle /\ mu' = q
        /\ live' = [running |-> TRUE, gateway |-> gateway, apps |-> {}]
        /\ UNCHANGED <<gateway, apps, templates>>
        /\ pc' = [pc EXCEPT ![q] = "listApps"]
    BY <1>8 DEF Reload
  <2>2. \A r \in Requests : r # q => pc'[r] = pc[r] /\ pc[r] \notin Reloading
    BY <2>1, <1>l, <1>t
  <2>3. pc'[q] = "listApps" /\ mu' # Idle
    BY <2>1, <1>t
  <2>4. \A r \in Requests : pc'[r] \in Reloading <=> mu' = r
    BY <2>1, <2>2, <2>3 DEF Reloading
  <2>5. \A r \in Requests : pc'[r] \notin {"listTemplates", "start"}
    BY <2>2, <2>3 DEF Reloading
  <2> QED BY <2>1, <2>3, <2>4, <2>5 DEF LiveInv
\* A reload of a manager that does not run.
<1>16. ASSUME NEW q \in Requests, ReloadIgnored(q) PROVE LiveInv'
  <2>1. /\ ~live.running /\ pc[q] = "reload" /\ pc' = [pc EXCEPT ![q] = "done"]
        /\ UNCHANGED <<mu, live>>
    BY <1>16 DEF ReloadIgnored
  <2>2. \A r \in Requests : pc'[r] \in Reloading <=> mu' = r
    BY <2>1, <1>l, <1>t DEF Reloading
  <2> QED BY <2>1, <2>2, <1>l DEF LiveInv
\* The steps of a reload before the last leave it to be completed.
<1>m. ASSUME NEW q \in Requests, pc[q] \in Reloading, pc'[q] \in Reloading,
             pc' = [pc EXCEPT ![q] = pc'[q]],
             UNCHANGED <<op, mu, live, unapplied>>
      PROVE  /\ Settled' => Settled
             /\ mu' = q /\ mu' # Idle
             /\ \A r \in Requests : pc'[r] \in Reloading <=> mu' = r
             /\ \A r \in Requests : pc'[r] \in Reloading => r = q
  <2>1. \A r \in Requests : r # q => pc'[r] = pc[r]
    BY <1>m, <1>t
  <2>2. Settled' => Settled
    BY <1>m, <2>1 DEF Settled, Owed, Reloading
  <2> QED BY <1>m, <1>l, <1>t, <2>1, <2>2
<1>9. ASSUME NEW q \in Requests, ListApps(q) PROVE LiveInv'
  <2>1. /\ pc[q] = "listApps" /\ reading' = [reading EXCEPT !.apps = apps]
        /\ pc' = [pc EXCEPT ![q] = "listTemplates"]
        /\ UNCHANGED <<gateway, apps, templates, op, mu, live, unapplied>>
    BY <1>9 DEF ListApps
  <2>2. reading'.apps = apps
    BY <2>1 DEF TypeOK, Readings
  <2>3. pc'[q] = "listTemplates"
    BY <2>1, <1>t
  <2>4. /\ Settled' => Settled
        /\ mu' = q /\ mu' # Idle
        /\ \A r \in Requests : pc'[r] \in Reloading <=> mu' = r
        /\ \A r \in Requests : pc'[r] \in Reloading => r = q
    BY <2>1, <2>3, <1>m DEF Reloading
  <2> QED BY <2>1, <2>2, <2>3, <2>4 DEF LiveInv, Reloading
<1>10. ASSUME NEW q \in Requests, ListTemplates(q) PROVE LiveInv'
  <2>1. /\ pc[q] = "listTemplates" /\ reading' = [reading EXCEPT !.templates = templates]
        /\ pc' = [pc EXCEPT ![q] = "start"]
        /\ UNCHANGED <<gateway, apps, templates, op, mu, live, unapplied>>
    BY <1>10 DEF ListTemplates
  <2>2. reading'.apps = reading.apps /\ reading'.templates = templates
    BY <2>1 DEF TypeOK, Readings
  <2>3. pc'[q] = "start"
    BY <2>1, <1>t
  <2>4. /\ Settled' => Settled
        /\ mu' = q /\ mu' # Idle
        /\ \A r \in Requests : pc'[r] \in Reloading <=> mu' = r
        /\ \A r \in Requests : pc'[r] \in Reloading => r = q
    BY <2>1, <2>3, <1>m DEF Reloading
  <2>5. Settled => reading.apps = apps
    BY <2>1, <1>l, <1>t DEF LiveInv, Reloading
  <2>6. SameBundles(apps', reading'.templates, templates')
    BY <2>1, <2>2 DEF SameBundles
  <2> QED BY <2>1, <2>2, <2>3, <2>4, <2>5, <2>6 DEF LiveInv, Reloading
<1>11. ASSUME NEW q \in Requests, StartClients(q) PROVE LiveInv'
  <2>1. /\ pc[q] = "start" /\ GetDefaultFilterTemplate
        /\ live' = [live EXCEPT !.apps =
                       Started(reading.apps, reading.templates, templates'[DefaultId(templates)])]
        /\ mu' = Idle /\ unapplied' = (unapplied \/ MadeUnapplied)
        /\ pc' = [pc EXCEPT ![q] = "done"]
        /\ UNCHANGED <<gateway, apps, op>>
    BY <1>11 DEF StartClients, Made
  <2>2. mu = q /\ mu' # q /\ live.running
    BY <2>1, <1>l, <1>t DEF Reloading
  <2>3. /\ live'.gateway = live.gateway /\ live'.running = live.running
        /\ live' = [running |-> live'.running, gateway |-> live'.gateway, apps |-> live'.apps]
        /\ live'.apps = Started(reading.apps, reading.templates, templates'[DefaultId(templates)])
    BY <2>1, <1>l
  <2>4. /\ pc'[q] = "done" /\ \A r \in Requests : r # q => pc'[r] = pc[r] /\ pc[r] \notin Reloading
    BY <2>1, <2>2, <1>l, <1>t
  <2>5. \A r \in Requests : pc'[r] \notin Reloading /\ mu' # r
    BY <2>1, <2>4, <1>t DEF Reloading
  <2>6. Settled' => Settled /\ ~MadeUnapplied
    BY <2>1, <2>4 DEF Settled, Owed
  <2>7. ASSUME Settled, ~MadeUnapplied
        PROVE  live'.apps = StoredApps' /\ Named(templates, "default")' # {}
    <3>1. reading.apps = apps /\ SameBundles(apps, reading.templates, templates)
      BY <2>1, <2>2, <2>7 DEF LiveInv
    <3>2. SameBundles(apps, reading.templates, templates')
      BY <2>1, <2>7, <3>1, <1>d
    <3> DEFINE d == templates'[DefaultId(templates)]
    <3>3. Started(apps, reading.templates, d) = Started(apps, templates', d)
      BY <3>2, StartedSame
    <3>4. DefaultId(templates)' = DefaultId(templates) /\ Named(templates, "default")' # {}
      BY <2>1, <2>7, <1>d
    <3> QED BY <2>1, <2>3, <3>1, <3>3, <3>4 DEF StoredApps
  <2> QED BY <2>1, <2>2, <2>3, <2>5, <2>6, <2>7, <1>l DEF LiveInv, Reloading
<1>12. ASSUME NEW q \in Requests, Fail(q) PROVE LiveInv'
  <2>1. /\ pc' = [pc EXCEPT ![q] = "done"] /\ unapplied' = (unapplied \/ Changed(q))
        /\ IF mu = q THEN mu' = Idle ELSE UNCHANGED <<mu, reading>>
        /\ UNCHANGED <<gateway, apps, templates, issued, op, live>>
    BY <1>12 DEF Fail
  <2>2. pc'[q] = "done" /\ \A r \in Requests : r # q => pc'[r] = pc[r]
    BY <2>1, <1>t
  <2>3. CASE mu = q
    <3>1. pc[q] \in Reloading
      BY <2>3, <1>l
    <3>2. ~Settled'
      BY <2>1, <3>1 DEF Settled, Changed, Reloading
    <3>3. \A r \in Requests : pc'[r] \notin Reloading /\ mu' # r
      BY <2>1, <2>2, <2>3, <1>l, <1>t DEF Reloading
    <3> QED BY <2>1, <1>l, <3>2, <3>3 DEF LiveInv
  <2>4. CASE mu # q
    <3>1. pc[q] \notin Reloading
      BY <2>4, <1>l
    <3>2. Settled' => Settled
      BY <2>1, <2>2 DEF Settled, Owed, Changed
    <3>3. UNCHANGED <<StoredApps, Named(templates, "default")>>
      BY <2>1 DEF StoredApps, DefaultId, Named, Rows
    <3> QED BY <2>1, <2>2, <2>4, <3>1, <3>2, <3>3, <1>k, <1>t DEF Reloading
  <2> QED BY <2>3, <2>4
<1>13. CASE Crash
  <2>1. /\ GetDefaultFilterTemplate
        /\ pc' = [q \in Requests |-> IF pc[q] = "new" THEN "new" ELSE "done"]
        /\ mu' = Idle
        /\ live' = Launched(gateway, apps, templates', templates'[DefaultId(templates)])
        /\ UNCHANGED <<gateway, apps>>
    BY <1>13 DEF Crash
  <2>2. \A r \in Requests : pc'[r] \notin Reloading /\ mu' # r
    BY <2>1, <1>t DEF Reloading
  <2>3. Named(templates, "default")' # {} /\ DefaultId(templates)' = DefaultId(templates)
    <3>1. Named(templates, "default")' = Named(templates', "default")
      BY DEF Named, Rows
    <3> QED BY <2>1, <3>1, DefaultStays
  <2>4. /\ live'.running = gateway.enabled /\ live'.running \in BOOLEAN /\ live'.gateway = gateway'
        /\ live' = [running |-> live'.running, gateway |-> live'.gateway, apps |-> live'.apps]
        /\ live'.apps = IF gateway.enabled THEN StoredApps' ELSE {}
    BY <2>1, <2>3 DEF Launched, StoredApps, TypeOK, Gateways
  <2> QED BY <2>1, <2>2, <2>3, <2>4 DEF LiveInv, Reloading
<1>14. CASE UNCHANGED vars
  BY <1>14 DEF vars, LiveInv, Settled, Owed, StoredApps, DefaultId, Named, Rows
<1> QED BY <1>1, <1>2, <1>3, <1>4, <1>5, <1>6, <1>7, <1>8, <1>9, <1>10, <1>11, <1>12, <1>13, <1>14,
           <1>16 DEF Next, Edit, Import, Start

\* At first what runs is what is stored.
LEMMA LiveInit == Init => LiveInv
<1> SUFFICES ASSUME Init PROVE LiveInv
    OBVIOUS
<1>1. PICK s \in Stores : templates = s.templates
  BY DEF Init
<1>2. Opened(s) /\ 1 \in TplIds /\ Idle \notin Requests
  BY StoreAssumption
<1>3. 1 \in Named(templates, "default")
  BY <1>1, <1>2 DEF Opened, Named, Rows
<1>4. /\ pc = [q \in Requests |-> "new"] /\ mu = Idle
      /\ live = [running |-> gateway.enabled, gateway |-> gateway,
                 apps |-> IF gateway.enabled THEN StoredApps ELSE {}]
  BY DEF Init, StoredApps, Launched
<1>5. gateway.enabled \in BOOLEAN
  BY TypeInit DEF TypeOK, Gateways
<1> QED BY <1>2, <1>3, <1>4, <1>5 DEF LiveInv, Reloading

\* Behind an enabled gateway what runs is what is stored when no request is under way, for
\* any number of concurrent requests, but for the changes that no reload follows.
THEOREM LiveIsCorrect == Spec => []LiveIsStored
<1>1. ASSUME TypeOK, LiveInv, live.running, \A q \in Requests : pc[q] \in {"new", "done"}, ~unapplied
      PROVE  /\ live.gateway = gateway
             /\ Named(templates, "default") # {}
             /\ live.apps = Started(apps, templates, templates[DefaultId(templates)])
  <2>1. Settled /\ mu = Idle
    BY <1>1 DEF Settled, Owed, LiveInv, Reloading, TypeOK
  <2> QED BY <1>1, <2>1 DEF LiveInv, StoredApps
<1>2. LiveInv => (~live.running => live.apps = {})
  BY DEF LiveInv
<1>3. TypeOK /\ LiveInv => LiveIsStored
  BY <1>1, <1>2 DEF LiveIsStored
<1> QED BY <1>3, TypeInit, TypeStep, LateInit, LateStep, LiveInit, LiveStep, PTL DEF Spec
-----------------------------------------------------------------------------
(* Names *)

\* startClientsLocked keeps its clients and filters by name: two apps of one name would
\* leave a client behind that nobody can stop.
OneClientPerName == \A x, y \in live.apps : x.name = y.name => x = y

\* The rows have names of their own, also those a reload has read.
NamesInv ==
    /\ NamesUnique(apps)
    /\ NamesUnique(templates)
    /\ \A q \in Requests : pc[q] \in {"listTemplates", "start"} => NamesUnique(reading.apps)
    /\ OneClientPerName

\* Deletes keep the names unique, and so do writes of rows whose name is free.
LEMMA NamesKept ==
    ASSUME NEW t, NEW id \in DOMAIN t, NamesUnique(t)
    PROVE  /\ NamesUnique([t EXCEPT ![id] = Gone])
           /\ \A r : NameFree(t, r.name, id) => NamesUnique([t EXCEPT ![id] = r])
<1>1. NamesUnique([t EXCEPT ![id] = Gone])
  BY DEF NamesUnique
<1>2. ASSUME NEW r, NameFree(t, r.name, id) PROVE NamesUnique([t EXCEPT ![id] = r])
  <2> DEFINE u == [t EXCEPT ![id] = r]
  <2>1. ASSUME NEW a \in DOMAIN u, NEW b \in DOMAIN u, u[a] # Gone, u[b] # Gone,
               u[a].name = u[b].name
        PROVE  a = b
    BY <1>2, <2>1 DEF NamesUnique, NameFree, Rows
  <2> HIDE DEF u
  <2>2. NamesUnique(u)
    BY <2>1 DEF NamesUnique
  <2> QED BY <2>2 DEF u
<1> QED BY <1>1, <1>2

\* A name that no row has is free for every id.
LEMMA FreeForAll ==
    ASSUME NEW t, NEW name, 0 \notin DOMAIN t, NameFree(t, name, 0)
    PROVE  \A id : NameFree(t, name, id)
BY DEF NameFree, Rows

\* An insert does not change the name of an app.
LEMMA InsertedName == \A r \in AppRows : Inserted(r).name = r.name
BY DEF AppRows, Inserted

\* Apps with names of their own start with names of their own.
LEMMA StartedNames ==
    ASSUME NEW rows, NEW t, NEW d, NamesUnique(rows)
    PROVE  \A x, y \in Started(rows, t, d) : x.name = y.name => x = y
<1>1. ASSUME NEW x \in Started(rows, t, d), NEW y \in Started(rows, t, d), x.name = y.name
      PROVE  x = y
  <2>1. PICK i \in Rows(rows) : x = [name |-> rows[i].name, rules |-> RulesOf(rows[i], t, d)]
    BY DEF Started
  <2>2. PICK j \in Rows(rows) : y = [name |-> rows[j].name, rules |-> RulesOf(rows[j], t, d)]
    BY DEF Started
  <2>3. i = j
    BY <1>1, <2>1, <2>2 DEF NamesUnique, Rows
  <2> QED BY <2>1, <2>2, <2>3
<1> QED BY <1>1

\* GetDefaultFilterTemplate makes a row only if there is none of its name.
LEMMA DefaultNames ==
    ASSUME TypeOK, NamesUnique(templates), GetDefaultFilterTemplate
    PROVE  NamesUnique(templates')
<1> DEFINE n == DefaultId(templates)
<1>1. CASE templates' = templates
  BY <1>1
<1>2. CASE /\ Named(templates, "default") = {} /\ n \in TplIds
           /\ templates' = [templates EXCEPT ![n] = Seed]
  <2>1. NameFree(templates, Seed.name, n)
    BY <1>2, RowFacts DEF NameFree, Named
  <2>2. n \in DOMAIN templates
    BY <1>2 DEF TypeOK, TemplateTables
  <2> HIDE DEF n
  <2> QED BY <1>2, <2>1, <2>2, NamesKept
<1> QED BY <1>1, <1>2, DefaultFacts

\* Every step keeps the names unique.
LEMMA NamesStep ==
    TypeOK /\ PlaceInv /\ LiveInv /\ NamesInv /\ [Next]_vars => NamesInv'
<1> SUFFICES ASSUME TypeOK, PlaceInv, LiveInv, NamesInv, [Next]_vars PROVE NamesInv'
    OBVIOUS
<1> USE DEF rowVars, runVars, historyVars, Goto
<1>t. /\ pc \in [Requests -> Places] /\ op \in [Requests -> Ops \cup {Idle}]
      /\ mine \in [Requests -> Copies] /\ issued \in [app : Nat, tpl : Nat]
      /\ DOMAIN apps = AppIds /\ DOMAIN templates = TplIds
      /\ 0 \notin AppIds /\ 0 \notin TplIds
  BY StoreAssumption DEF TypeOK, AppTables, TemplateTables
<1>n. NamesUnique(apps) /\ NamesUnique(templates) /\ OneClientPerName
  BY DEF NamesInv
\* A step outside of reloads.
<1>k. ASSUME NEW q \in Requests, UNCHANGED <<live, reading>>, pc' = [pc EXCEPT ![q] = pc'[q]],
             pc'[q] \notin {"listTemplates", "start"},
             NamesUnique(apps'), NamesUnique(templates')
      PROVE  NamesInv'
  <2>1. \A r \in Requests : pc'[r] \in {"listTemplates", "start"} => pc[r] = pc'[r]
    BY <1>k, <1>t
  <2>2. NamesUnique(apps)' /\ NamesUnique(templates)'
    BY <1>k DEF NamesUnique
  <2> QED BY <1>k, <1>n, <2>1, <2>2 DEF NamesInv, OneClientPerName
<1>1. ASSUME NEW q \in Requests, Arrive(q) PROVE NamesInv'
  <2>1. PICK o \in Ops : pc' = [pc EXCEPT ![q] = o.kind]
    BY <1>1 DEF Arrive
  <2>2. o.kind \notin {"listTemplates", "start"}
    BY StoreAssumption DEF WellFormed, Kinds
  <2>3. UNCHANGED <<apps, templates, live, reading>>
    BY <1>1 DEF Arrive
  <2> QED BY <1>k, <1>n, <1>t, <2>1, <2>2, <2>3
<1>2. ASSUME NEW q \in Requests, PostApp(q) \/ PutApp(q) PROVE NamesInv'
  <2>1. Body(q) \in AppRows
    BY <1>2, OpFacts DEF PostApp, PutApp, PlaceInv, PlaceOf, Kinds
  <2>2. Inserted(Body(q)).name = Body(q).name
    BY <2>1, InsertedName
  <2>3. CASE PostApp(q)
    <3>1. NameFree(apps, Inserted(Body(q)).name, issued.app + 1)
      BY <1>t, <2>2, <2>3, FreeForAll DEF PostApp
    <3>2. NamesUnique(apps')
      BY <1>n, <1>t, <2>3, <3>1, NamesKept DEF PostApp
    <3> QED BY <1>k, <1>n, <1>t, <2>3, <3>2 DEF PostApp
  <2>4. CASE PutApp(q)
    <3>1. op[q].id \in AppIds
      BY <2>4, OpFacts DEF PutApp, PlaceInv, PlaceOf, Kinds
    <3>2. PICK r : r.name = Body(q).name /\ apps' = [apps EXCEPT ![op[q].id] = r]
      BY <2>2, <2>4 DEF PutApp, Save
    <3>3. NameFree(apps, r.name, op[q].id)
      BY <2>4, <3>2 DEF PutApp
    <3>4. NamesUnique(apps')
      BY <1>n, <1>t, <3>1, <3>2, <3>3, NamesKept
    <3> QED BY <1>k, <1>n, <1>t, <2>4, <3>4 DEF PutApp
  <2> QED BY <1>2, <2>3, <2>4
<1>3. ASSUME NEW q \in Requests, PostTemplate(q) \/ PutTemplate(q) \/ SaveDefault(q)
      PROVE  NamesInv'
  <2>1. CASE PostTemplate(q)
    <3>1. Inserted(Body(q)) = Body(q)
      BY <2>1, OpFacts, RowFacts DEF PostTemplate, PlaceInv, PlaceOf, Kinds
    <3>2. NameFree(templates, Body(q).name, issued.tpl + 1)
      BY <1>t, <2>1, FreeForAll DEF PostTemplate
    <3>3. NamesUnique(templates')
      BY <1>n, <1>t, <2>1, <3>1, <3>2, NamesKept DEF PostTemplate
    <3> QED BY <1>k, <1>n, <1>t, <2>1, <3>3 DEF PostTemplate
  <2>2. CASE PutTemplate(q)
    <3>1. op[q].id \in TplIds /\ Body(q) \in TemplateRows
      BY <2>2, OpFacts DEF PutTemplate, PlaceInv, PlaceOf, Kinds
    <3>2. templates' = [templates EXCEPT ![op[q].id] = Body(q)]
      BY <2>2, <3>1, TableFacts DEF PutTemplate, TypeOK
    <3>3. NameFree(templates, Body(q).name, op[q].id)
      BY <2>2 DEF PutTemplate
    <3>4. NamesUnique(templates')
      BY <1>n, <1>t, <3>1, <3>2, <3>3, NamesKept
    <3> QED BY <1>k, <1>n, <1>t, <2>2, <3>4 DEF PutTemplate
  <2>3. CASE SaveDefault(q)
    <3> DEFINE row == MergedDefault(mine[q].def, Body(q))
    <3>1. mine[q].id \in TplIds /\ mine[q].def \in TemplateRows /\ Body(q) \in Files
      BY <2>3, OpFacts DEF SaveDefault, PlaceInv, PlaceOf, WithDefault, Importing
    <3>5. row \in TemplateRows /\ row.name = mine[q].def.name
      BY <3>1, MergeFacts
    <3>6. templates' = Save(templates, mine[q].id, row)
      BY <2>3 DEF SaveDefault
    <3> HIDE DEF row
    <3>2. templates' = [templates EXCEPT ![mine[q].id] = row]
      BY <3>1, <3>5, <3>6, TableFacts DEF TypeOK
    <3>3. NameFree(templates, row.name, mine[q].id)
      BY <2>3, <3>5 DEF SaveDefault
    <3>4. NamesUnique(templates')
      BY <1>n, <1>t, <3>1, <3>2, <3>3, NamesKept
    <3> QED BY <1>k, <1>n, <1>t, <2>3, <3>4 DEF SaveDefault
  <2> QED BY <1>3, <2>1, <2>2, <2>3
<1>4. ASSUME NEW q \in Requests, DeleteApp(q) \/ DeleteTemplate(q) PROVE NamesInv'
  <2>1. CASE DeleteApp(q)
    <3>1. op[q].id \in AppIds
      BY <2>1, OpFacts DEF DeleteApp, PlaceInv, PlaceOf, Kinds
    <3>2. NamesUnique(apps')
      BY <1>n, <1>t, <2>1, <3>1, NamesKept DEF DeleteApp
    <3> QED BY <1>k, <1>n, <1>t, <2>1, <3>2 DEF DeleteApp
  <2>2. CASE DeleteTemplate(q)
    <3>1. op[q].id \in TplIds
      BY <2>2, OpFacts DEF DeleteTemplate, PlaceInv, PlaceOf, Kinds
    <3>2. NamesUnique(templates')
      BY <1>n, <1>t, <2>2, <3>1, NamesKept DEF DeleteTemplate
    <3> QED BY <1>k, <1>n, <1>t, <2>2, <3>2 DEF DeleteTemplate
  <2> QED BY <1>4, <2>1, <2>2
<1>5. ASSUME NEW q \in Requests, ImportApp(q) PROVE NamesInv'
  <2> DEFINE id  == mine[q].found
             row == ImportedApp(Body(q).apps[mine[q].next])
  <2>1. /\ pc[q] = "app" /\ pc' = [pc EXCEPT ![q] = "apps"]
        /\ UNCHANGED <<templates, live, reading>>
        /\ \/ id # 0 /\ NameFree(apps, row.name, id) /\ apps' = Save(apps, id, row)
           \/ NameFree(apps, row.name, 0) /\ issued.app + 1 \in AppIds
              /\ apps' = [apps EXCEPT ![issued.app + 1] = row]
           \/ UNCHANGED apps
    BY <1>5 DEF ImportApp
  <2>2. row \in AppRows
    <3>1. Body(q) \in Files /\ mine[q].next \in 1 .. Len(Body(q).apps)
      BY <2>1, OpFacts DEF PlaceInv, PlaceOf, Importing, Body
    <3> QED BY <3>1, MergeFacts
  <2>3. Inserted(row).name = row.name
    BY <2>2, InsertedName
  <2>4. id \in AppIds \cup {0}
    BY <1>t DEF Copies
  <2> HIDE DEF id, row
  <2>5. CASE id # 0 /\ NameFree(apps, row.name, id) /\ apps' = Save(apps, id, row)
    <3>1. PICK r : r.name = row.name /\ apps' = [apps EXCEPT ![id] = r]
      BY <2>3, <2>5 DEF Save
    <3>2. NameFree(apps, r.name, id) /\ id \in DOMAIN apps
      BY <1>t, <2>4, <2>5, <3>1
    <3>3. NamesUnique(apps')
      BY <1>n, <3>1, <3>2, NamesKept
    <3> QED BY <1>n, <1>t, <1>k, <2>1, <3>3
  <2>6. CASE NameFree(apps, row.name, 0) /\ issued.app + 1 \in AppIds
             /\ apps' = [apps EXCEPT ![issued.app + 1] = row]
    <3>1. NameFree(apps, row.name, issued.app + 1)
      BY <1>t, <2>6, FreeForAll
    <3> QED BY <1>n, <1>t, <1>k, <2>1, <2>6, <3>1, NamesKept
  <2>7. CASE UNCHANGED apps
    BY <1>n, <1>t, <1>k, <2>1, <2>7
  <2> QED BY <2>1, <2>5, <2>6, <2>7
<1>6. ASSUME NEW q \in Requests, PutGateway(q) \/ CheckTemplate(q) \/ ReadGateway(q)
                                 \/ SaveGateway(q) \/ FindApp(q) \/ Export(q) \/ ReloadIgnored(q)
      PROVE  NamesInv'
  <2>1. /\ UNCHANGED <<apps, templates, live, reading>> /\ pc' = [pc EXCEPT ![q] = pc'[q]]
        /\ pc'[q] \notin {"listTemplates", "start"}
    BY <1>6, <1>t DEF PutGateway, CheckTemplate, ReadGateway, SaveGateway, FindApp,
                      Export, ExportTemplates, ExportApps, Answer, ReloadIgnored
  <2> QED BY <1>k, <1>n, <2>1
<1>7. ASSUME NEW q \in Requests, ReadDefault(q) PROVE NamesInv'
  <2>1. /\ GetDefaultFilterTemplate /\ UNCHANGED <<apps, live, reading>>
        /\ pc' = [pc EXCEPT ![q] = pc'[q]] /\ pc'[q] \notin {"listTemplates", "start"}
    BY <1>7, <1>t DEF ReadDefault, AfterDefault
  <2> QED BY <1>k, <1>n, <2>1, DefaultNames
<1>8. ASSUME NEW q \in Requests, Reload(q) PROVE NamesInv'
  <2>1. /\ UNCHANGED <<apps, templates, reading>> /\ live'.apps = {}
        /\ pc' = [pc EXCEPT ![q] = "listApps"]
    BY <1>8 DEF Reload
  <2> QED BY <1>t, <2>1 DEF NamesInv, OneClientPerName, NamesUnique
<1>9. ASSUME NEW q \in Requests, ListApps(q) \/ ListTemplates(q) PROVE NamesInv'
  <2>1. UNCHANGED <<apps, templates, live>> /\ NamesUnique(reading'.apps)
    <3>1. reading \in Readings
      BY DEF TypeOK
    <3> QED BY <1>9, <1>n, <3>1 DEF ListApps, ListTemplates, NamesInv, Readings
  <2> QED BY <2>1, <1>n DEF NamesInv, OneClientPerName, NamesUnique
<1>10. ASSUME NEW q \in Requests, StartClients(q) PROVE NamesInv'
  <2> DEFINE def == templates'[DefaultId(templates)]
  <2>1. /\ GetDefaultFilterTemplate /\ UNCHANGED apps /\ mu' = Idle /\ pc[q] = "start"
        /\ live' = [live EXCEPT !.apps = Started(reading.apps, reading.templates, def)]
        /\ pc' = [pc EXCEPT ![q] = "done"]
    BY <1>10 DEF StartClients
  <2>2. live'.apps = Started(reading.apps, reading.templates, def)
    BY <2>1 DEF LiveInv
  <2>3. NamesUnique(reading.apps)
    BY <2>1 DEF NamesInv
  <2> HIDE DEF def
  <2>4. OneClientPerName'
    BY <2>2, <2>3, StartedNames DEF OneClientPerName
  <2>5. \A r \in Requests : pc'[r] \notin {"listTemplates", "start"}
    BY <1>t, <2>1 DEF LiveInv, Reloading
  <2>6. NamesUnique(templates)' /\ NamesUnique(apps)'
    BY <1>n, <2>1, DefaultNames DEF NamesUnique
  <2> QED BY <2>4, <2>5, <2>6 DEF NamesInv
<1>11. ASSUME NEW q \in Requests, Fail(q) PROVE NamesInv'
  <2>1. /\ UNCHANGED <<apps, templates, live>> /\ pc' = [pc EXCEPT ![q] = "done"]
        /\ \/ UNCHANGED reading
           \/ mu = q
    BY <1>11 DEF Fail
  <2>2. CASE UNCHANGED reading
    BY <1>k, <1>n, <1>t, <2>1, <2>2
  <2>3. CASE mu = q
    <3>1. \A r \in Requests : pc'[r] \notin {"listTemplates", "start"}
      BY <1>t, <2>1, <2>3 DEF LiveInv, Reloading
    <3> QED BY <1>n, <2>1, <3>1 DEF NamesInv, OneClientPerName, NamesUnique
  <2> QED BY <2>1, <2>2, <2>3
<1>12. CASE Crash
  <2> DEFINE def == templates'[DefaultId(templates)]
  <2>1. /\ GetDefaultFilterTemplate /\ UNCHANGED apps
        /\ \A r \in Requests : pc'[r] \in {"new", "done"}
        /\ live'.apps \in {Started(apps, templates', def), {}}
    BY <1>12 DEF Crash, Launched
  <2> HIDE DEF def
  <2>2. OneClientPerName'
    BY <1>n, <2>1, StartedNames DEF OneClientPerName
  <2>3. NamesUnique(templates)' /\ NamesUnique(apps)'
    BY <1>n, <2>1, DefaultNames DEF NamesUnique
  <2> QED BY <2>1, <2>2, <2>3 DEF NamesInv
<1>13. CASE UNCHANGED vars
  BY <1>13 DEF vars, NamesInv, OneClientPerName, NamesUnique
<1> QED BY <1>1, <1>2, <1>3, <1>4, <1>5, <1>6, <1>7, <1>8, <1>9, <1>10, <1>11, <1>12, <1>13
        DEF Next, Edit, Import, Start

\* At first the names are those of a store that Open has made.
LEMMA NamesInit == Init => NamesInv
<1> SUFFICES ASSUME Init PROVE NamesInv
    OBVIOUS
<1>1. PICK s \in Stores : apps = s.apps /\ templates = s.templates
  BY DEF Init
<1>2. NamesUnique(s.apps) /\ NamesUnique(s.templates)
  BY StoreAssumption DEF Opened
<1>3. NamesUnique(apps) /\ NamesUnique(templates)
  BY <1>1, <1>2
<1>4. OneClientPerName
  <2>1. live.apps \in {Started(apps, templates, templates[DefaultId(templates)]), {}}
    BY DEF Init, Launched
  <2> QED BY <1>3, <2>1, StartedNames DEF OneClientPerName
<1>5. \A q \in Requests : pc[q] = "new"
  BY DEF Init
<1> QED BY <1>3, <1>4, <1>5 DEF NamesInv

\* Each running app has a name of its own, however edits, imports, reloads and failures
\* overlap, so that m.clients and m.filters, which are keyed by it, lose none.
THEOREM NamesAreKeys == Spec => [](NamesUnique(apps) /\ NamesUnique(templates) /\ OneClientPerName)
<1>1. NamesInv => NamesUnique(apps) /\ NamesUnique(templates) /\ OneClientPerName
  BY DEF NamesInv
<1> QED BY <1>1, TypeInit, TypeStep, LateInit, LateStep, LiveInit, LiveStep,
           NamesInit, NamesStep, PTL
        DEF Spec
=============================================================================
