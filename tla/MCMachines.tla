------------------------------ MODULE MCMachines ------------------------------
(* The values of the constants of Machines, and two machines more that have  *)
(* no constants: the schema and the routes.                                  *)
EXTENDS Machines, TLC

\* A site whose home page redirects to c, as does a; a sitemap that lists a and d,
\* which robots.txt disallows; and b, to which c alone links.
SomeUrls  == {"home", "a", "b", "c", "d"}
LoadedAt  == "home" :> "c" @@ "a" :> "c" @@ "b" :> "b" @@ "c" :> "c" @@ "d" :> "d"
LinksOf   == "c" :> {"a", "b", "d"} @@ "b" :> {"home"} @@ [u \in {"home", "a", "d"} |-> {}]
InSitemap == <<"d", "a">>

\* Tools that a new release brings, one of them off by default.
NewTools    == {"list_organization_activity", "cloud_stop_app"}
SomeMissing == {{}, NewTools}
Switches ==
  {<< <<k, on>> >> : k \in NewTools, on \in BOOLEAN} \cup
  {<< <<"list_organization_activity", FALSE>>, <<"cloud_stop_app", TRUE>> >>}

\* What a server may give: a page in order, a poor one, one that asks not to be
\* indexed, one of an old audit, one that could not be fetched and an error page.
Gives(answer, heading, text, h1, canonical, words, noindex, tags) ==
  [status |-> answer, title |-> heading, description |-> text, h1 |-> h1,
   canonical |-> canonical, words |-> words, noindex |-> noindex, ogOk |-> tags,
   jsonldOk |-> tags]
SomeLooks ==
  { Gives("ok", "one", "text", "one", "same host", "enough", "no", TRUE),
    Gives("ok", "short", "", "none", "missing", "few", "no", FALSE),
    Gives("ok", "", "long", "several", "other host", "few", "yes", FALSE),
    Gives("ok", "another", "text", "unknown", "unknown", "unknown", "unknown", TRUE),
    Gives("failed", "", "", "unknown", "unknown", "unknown", "unknown", FALSE),
    Gives("error", "one", "long", "one", "unparseable", "few", "no", FALSE) }
SomeProbes == { [llms |-> "missing", variants |-> "http bad"] }
SomeLabs   == { [speed |-> "slow", a11y |-> "medium"] }

\* Rights, an address or projects are given, or the address taken and a project given.
SomeBodies ==
  { [admin |-> <<TRUE>>,  mail |-> << >>,         projects |-> << >>],
    [admin |-> <<FALSE>>, mail |-> << >>,         projects |-> << >>],
    [admin |-> << >>,     mail |-> <<"mail">>,    projects |-> << >>],
    [admin |-> << >>,     mail |-> <<Nil>>, projects |-> <<{"p"}>>],
    [admin |-> << >>,     mail |-> << >>,         projects |-> <<{"q"}>>] }
Organization == "p" :> "o" @@ "q" :> "other"

\* Times are half days, and 411 is in a Saturday. The four days to this one, and
\* eight weeks until two days ago.
CustomRanges == { <<-3, 0>>, <<-58, -2>> }

\* Call and Session are pairs of things that are alike.
Symmetry == Permutations(Call) \cup Permutations(Session)
-----------------------------------------------------------------------------
VARIABLES db, applied, work, schemaAt, mode, refused

Tables == INSTANCE Schema WITH
  Release <- 0 .. 50,
  at <- schemaAt
Api == INSTANCE Routes

schemaVars == <<db, applied, work, schemaAt, mode, refused>>

NoTables == db = 0 /\ applied = 0 /\ work = 0 /\ schemaAt = 0 /\ mode = 0 /\ refused = 0

MCInit ==
  /\ MachinesInit
  /\ IF focus = "schema" THEN Tables!Init ELSE NoTables

MCNext ==
  /\ MachinesNext
  /\ IF focus = "schema" THEN Tables!Next ELSE UNCHANGED schemaVars

MCSpec == MCInit /\ [][MCNext]_<<machineVars, schemaVars>>
-----------------------------------------------------------------------------
(* Properties                                                              *)

\* src/migrations, src/**/*.entity.ts: no statement of a migration is refused
\* because of the schema, the tables serve the entities, and the schema does not
\* depend on the way that led to it.
SchemaHolds ==
  focus = "schema" => Tables!MigrationsWork /\ Tables!SchemaServes /\ Tables!PathIndependent

\* The decorators of the controllers: no method is hidden behind another.
OneHandlerEach == focus = "routes" => Api!OneHandler
=============================================================================
