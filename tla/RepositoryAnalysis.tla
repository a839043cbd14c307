--------------------------- MODULE RepositoryAnalysis ---------------------------
(***************************************************************************)
(* What the company knows of a repository: the facts the analyzer reads    *)
(* off a checkout (repository-analyzer.ts), the difference between the     *)
(* facts of two snapshots (repository-snapshot-comparison.ts) and the      *)
(* impact it is given (repository-impact-analysis.ts).                     *)
(*                                                                         *)
(* A checkout is a function from its files to their contents: of the       *)
(* manifest a record, of the database schema the set of its models, of any *)
(* other file a number.  What the code reads off a path with patterns is   *)
(* given for each path by About; the wording of the findings is left out.  *)
(***************************************************************************)
EXTENDS Integers, FiniteSets, Sequences

CONSTANTS
    Paths,           (* the files a checkout may have                       *)
    About,           (* what the name, place and size of each of them say   *)
    AuthDeps,        (* AUTH_DEPS                                           *)
    MaxWalk,         (* ANALYZER_MAX_FILES: entries the walk takes (2000)   *)
    MaxDepth,        (* ANALYZER_MAX_DEPTH: directories it descends (6)     *)
    SourcesPerTest   (* more source files than this per test file: a risk   *)

Kind(p) == About[p].kind

---------------------------------------------------------------------------
(* The walk.                                                               *)

Categories == {"source", "config", "style", "doc", "test", "asset"}

(* A test by its name, anything else by its extension.                     *)
Category(p) ==
    LET ext == About[p].ext IN
    IF Kind(p) = "test" THEN "test"
    ELSE CASE ext = "ts"               -> "source"
           [] ext \in {"json", "yaml"} -> "config"
           [] ext = "css"              -> "style"
           [] ext = "md"               -> "doc"
           [] OTHER                    -> "asset"

(* Neither in an ignored directory, nor a secret, nor too deep.            *)
Visible(tree) ==
    {p \in DOMAIN tree : ~About[p].ignored /\ About[p].depth <= MaxDepth}

(* All of it, or depth first in the order of the names until the limit is  *)
(* reached; that directories count too is left out.                        *)
Walk(tree) ==
    LET visible == Visible(tree)
    IN  IF Cardinality(visible) <= MaxWalk THEN visible
        ELSE {p \in visible :
                 Cardinality({q \in visible : About[q].rank < About[p].rank}) < MaxWalk}

(* contentHash: of text files that are small enough.                       *)
Hashed(tree) ==
    {p \in Walk(tree) : ~About[p].large /\ Category(p) # "asset"}

Fingerprints(tree) == [p \in Hashed(tree) |-> tree[p]]

Tests(tree) == {p \in Walk(tree) : Category(p) = "test"}

ByCategory(tree) ==
    LET walked == Walk(tree)
    IN  [c \in Categories |-> Cardinality({p \in walked : Category(p) = c})]

---------------------------------------------------------------------------
(* The manifest.                                                           *)

NoManifest == [readable |-> FALSE, manager |-> "none", deps |-> {}, devDeps |-> {},
               scripts |-> <<>>]

(* What is looked up by its name is found whether or not the walk got there.*)
Has(tree, kind) == \E p \in DOMAIN tree : Kind(p) = kind

Manifest(tree) ==
    IF Has(tree, "manifest")
    THEN LET m == tree[CHOOSE p \in DOMAIN tree : Kind(p) = "manifest"]
         IN  IF m.readable THEN m ELSE NoManifest
    ELSE NoManifest

(* The first of these script names the manifest has; 0 stands for null.    *)
FirstScript(scripts, names) ==
    LET found == {i \in DOMAIN names : names[i] \in DOMAIN scripts}
    IN  IF found = {} THEN 0
        ELSE scripts[names[CHOOSE i \in found : \A j \in found : i <= j]]

ScriptNames == {"dev", "build", "test", "lint", "typecheck"}

Scripts(tree) ==
    LET first(names) == FirstScript(Manifest(tree).scripts, names) IN
    [dev       |-> first(<<"dev", "start">>),
     build     |-> first(<<"build">>),
     test      |-> first(<<"test", "test:unit">>),
     lint      |-> first(<<"lint">>),
     typecheck |-> first(<<"typecheck", "type-check", "check">>)]

(* The lockfiles in their precedence, then the manifest's own word.        *)
Lockfiles == <<"bun", "pnpm", "yarn", "npm">>

Locked(tree) ==
    {i \in DOMAIN Lockfiles :
        \E p \in DOMAIN tree : Kind(p) = "lockfile" /\ About[p].url = Lockfiles[i]}

PackageManager(tree) ==
    IF Locked(tree) # {}
    THEN Lockfiles[CHOOSE i \in Locked(tree) : \A j \in Locked(tree) : i <= j]
    ELSE IF Manifest(tree).manager # "none" THEN Manifest(tree).manager
    ELSE IF Has(tree, "manifest") THEN "npm" ELSE "unknown"

AllDeps(tree) == Manifest(tree).deps \cup Manifest(tree).devDeps

(* Next.js and React exclude each other; the rest stand side by side.      *)
Frameworks(tree) ==
    LET deps == AllDeps(tree) IN
    {f \in {"next", "vue", "svelte", "express", "fastify"} : f \in deps}
    \cup (IF "react" \in deps /\ "next" \notin deps THEN {"react"} ELSE {})

StackDeps ==
    {"prisma", "drizzle-orm", "typeorm", "mongoose", "next-auth", "tailwindcss",
     "zod", "vitest", "jest", "playwright", "cypress"}

TechStack(tree) == Frameworks(tree) \cup (AllDeps(tree) \cap StackDeps)

PrimaryLanguage(tree) ==
    IF ~Manifest(tree).readable THEN "none"
    ELSE IF AllDeps(tree) \cap {"typescript", "@types/node", "@types/react"} # {}
    THEN "TypeScript" ELSE "JavaScript"

---------------------------------------------------------------------------
(* The application.                                                        *)

RouteKinds == {"page", "layout", "api", "middleware"}

Routes(tree) ==
    {[path |-> p, type |-> Kind(p)] : p \in {q \in Walk(tree) : Kind(q) \in RouteKinds}}

(* Route groups drop out of a URL, so that two files may share one.        *)
ApiRoutes(tree) == {About[p].url : p \in {q \in Walk(tree) : Kind(q) = "api"}}

(* Modules with a "use server" directive, which must be read to be seen.   *)
ServerActions(tree) ==
    {p \in Walk(tree) : Kind(p) = "action" /\ ~About[p].large}

(* The schema is looked up, not walked.                                    *)
Models(tree) ==
    UNION {tree[p] : p \in {q \in DOMAIN tree : Kind(q) = "schema" /\ ~About[q].large}}

(* Configuration in its known place, the schema if it has models, and the  *)
(* layouts near the root of the application.                               *)
ImportantFiles(tree) ==
    {p \in DOMAIN tree : About[p].known}
    \cup {p \in DOMAIN tree : Kind(p) = "schema" /\ Models(tree) # {}}
    \cup {p \in Walk(tree) : Kind(p) = "layout" /\ About[p].depth \in 2 .. 3}

Risk(severity, category, what) ==
    [severity |-> severity, category |-> category, what |-> what]

Risks(tree) ==
    LET tests   == Cardinality(Tests(tree))
        sources == ByCategory(tree)["source"]
        when(condition, risk) == IF condition THEN {risk} ELSE {}
    IN  when(~Has(tree, "manifest"), Risk("high", "dependencies", "no manifest"))
        \cup when(Cardinality(Locked(tree)) > 1,
                  Risk("medium", "dependencies", "several lockfiles"))
        \cup when(PackageManager(tree) = "unknown" /\ Has(tree, "manifest"),
                  Risk("medium", "dependencies", "no package manager"))
        \cup when(tests = 0, Risk("high", "testing", "no tests"))
        \cup when(tests > 0 /\ SourcesPerTest * tests < sources,
                  Risk("medium", "testing", "few tests"))
        \cup when(Models(tree) # {} /\ ~Has(tree, "migration"),
                  Risk("medium", "database", "no migrations"))
        \cup when(Models(tree) # {} /\ ~Has(tree, "seed"),
                  Risk("low", "database", "no seed"))
        \cup when(~Has(tree, "readme"), Risk("low", "documentation", "no readme"))
        \cup when(AllDeps(tree) \cap {"vitest", "jest", "mocha"} = {},
                  Risk("medium", "testing", "no runner"))

(* The columns of a snapshot.                                              *)
Analysis(tree) ==
    [total      |-> Cardinality(Walk(tree)),
     byCategory |-> ByCategory(tree),
     important  |-> ImportantFiles(tree),
     prints     |-> Fingerprints(tree),
     routes     |-> Routes(tree),
     apiRoutes  |-> ApiRoutes(tree),
     actions    |-> ServerActions(tree),
     models     |-> Models(tree),
     deps       |-> Manifest(tree).deps,
     devDeps    |-> Manifest(tree).devDeps,
     scripts    |-> Scripts(tree),
     tests      |-> Tests(tree),
     risks      |-> Risks(tree)]

---------------------------------------------------------------------------
(* The comparison of two analyses.                                         *)

Diff(before, after) == [added |-> after \ before, removed |-> before \ after]

Differs(d) == d.added # {} \/ d.removed # {}

(* Mutated form: a file only one of the snapshots hashed is a change too.  *)
ChangedOrUnknown(before, after) ==
    {p \in DOMAIN after : p \notin DOMAIN before \/ before[p] # after[p]}

(* compareFileFingerprints: known to both, with another hash.              *)
Changed(before, after) ==
    {p \in DOMAIN before \cap DOMAIN after : before[p] # after[p]}

(* compareRoutes: by path; a route at the same path may change its type.   *)
RouteChanges(before, after) ==
    LET paths(routes) == {r.path : r \in routes}
    IN  [added   |-> {r \in after : r.path \notin paths(before)},
         removed |-> {r \in before : r.path \notin paths(after)},
         changed |-> {r \in after : \E q \in before : q.path = r.path /\ q.type # r.type}]

(* compareScripts: 0 stands for a script there is not.                     *)
ScriptChanges(before, after) ==
    [added   |-> {n \in ScriptNames : before[n] = 0 /\ after[n] # 0},
     removed |-> {n \in ScriptNames : before[n] # 0 /\ after[n] = 0},
     changed |-> {n \in ScriptNames : before[n] # 0 /\ after[n] # 0 /\ before[n] # after[n]}]

CategoryChanges(before, after) ==
    {c \in Categories : before.byCategory[c] # after.byCategory[c]}

Comparison(before, after) ==
    [files      |-> Diff(before.important, after.important),
     changed    |-> Changed(before.prints, after.prints),
     delta      |-> after.total - before.total,
     categories |-> CategoryChanges(before, after),
     routes     |-> RouteChanges(before.routes, after.routes),
     apiRoutes  |-> Diff(before.apiRoutes, after.apiRoutes),
     actions    |-> Diff(before.actions, after.actions),
     models     |-> Diff(before.models, after.models),
     deps       |-> Diff(before.deps, after.deps),
     devDeps    |-> Diff(before.devDeps, after.devDeps),
     scripts    |-> ScriptChanges(before.scripts, after.scripts),
     tests      |-> Diff(before.tests, after.tests),
     risks      |-> Diff(before.risks, after.risks)]

(* buildAffectedAreas; a comparison without one has no changes.            *)
AffectedAreas(c) ==
    LET area(name, condition) == IF condition THEN {name} ELSE {}
    IN  area("files", \/ Differs(c.files) \/ c.changed # {}
                      \/ c.delta # 0 \/ c.categories # {})
        \cup area("routes", Differs(c.routes) \/ c.routes.changed # {})
        \cup area("apiRoutes", Differs(c.apiRoutes))
        \cup area("serverActions", Differs(c.actions))
        \cup area("prismaModels", Differs(c.models))
        \cup area("dependencies", Differs(c.deps) \/ Differs(c.devDeps))
        \cup area("scripts", Differs(c.scripts) \/ c.scripts.changed # {})
        \cup area("tests", Differs(c.tests))
        \cup area("risks", Differs(c.risks))

---------------------------------------------------------------------------
(* The impact of a comparison: items, each with the names that are its     *)
(* evidence.                                                               *)

Levels == <<"none", "low", "medium", "high", "critical">>

Item(area, level, roles, evidence) ==
    [area |-> area, level |-> level, roles |-> roles, evidence |-> evidence]

(* The two sides of a difference.                                          *)
Both(d) == d.added \cup d.removed

SecurityReview == {"CTO", "Security Engineer", "Backend Engineer", "QA Engineer"}

AuthUrl(url) == \E p \in Paths : About[p].url = url /\ "route" \in About[p].auth
AuthPath(p) == About[p].auth \cap {"route", "admin"} # {}
AuthAction(p) == "action" \in About[p].auth

SchemaItems(c) ==
    LET owners == {"CTO", "Backend Engineer", "QA Engineer", "Release Manager"} IN
    {Item("database", "high", owners, c.models.added),
     Item("database", "critical", owners, c.models.removed)}

ApiItems(c) ==
    LET owners == {"Backend Engineer", "QA Engineer", "Release Manager"}
        plain(urls) == {u \in urls : ~AuthUrl(u)}
    IN  {Item("auth", "critical", SecurityReview, {u \in Both(c.apiRoutes) : AuthUrl(u)}),
         Item("api", "high", owners, plain(c.apiRoutes.added)),
         Item("api", "high", owners, plain(c.apiRoutes.removed))}

ActionItems(c) ==
    LET owners == {"Backend Engineer", "QA Engineer"}
        plain(paths) == {p \in paths : ~AuthAction(p)}
    IN  {Item("auth", "critical", SecurityReview, {p \in Both(c.actions) : AuthAction(p)}),
         Item("serverActions", "high", owners, plain(c.actions.added)),
         Item("serverActions", "high", owners, plain(c.actions.removed))}

RouteItems(c) ==
    LET owners == {"QA Engineer", "Release Manager"}
        paths(routes) == {r.path : r \in routes}
        plain(routes) == {p \in paths(routes) : ~AuthPath(p)}
    IN  {Item("auth", "critical", SecurityReview,
              {p \in paths(Both(c.routes)) : AuthPath(p)}),
         Item("routing", "medium", owners, plain(c.routes.added)),
         Item("routing", "medium", owners, plain(c.routes.removed)),
         Item("routing", "medium", {"Backend Engineer", "QA Engineer"}, paths(c.routes.changed))}

DependencyItems(c) ==
    LET dev == {"Backend Engineer", "DevOps"}
    IN  {Item("auth", "critical", SecurityReview, Both(c.deps) \cap AuthDeps),
         Item("dependencies", "medium", {"Security Engineer", "DevOps", "Backend Engineer"},
              c.deps.added \ AuthDeps),
         Item("dependencies", "medium", {"Backend Engineer", "QA Engineer"},
              c.deps.removed \ AuthDeps),
         Item("dependencies", "low", dev, c.devDeps.added),
         Item("dependencies", "low", dev, c.devDeps.removed)}

(* Every script that is compared is one of CI; an added one is no item.    *)
ScriptItems(c) ==
    LET critical == {"build", "dev"} IN
    {Item("build", "high", {"DevOps", "Release Manager", "Backend Engineer"},
          c.scripts.changed \cap critical),
     Item("build", "medium", {"DevOps", "QA Engineer"}, c.scripts.changed \ critical),
     Item("build", "high", {"DevOps", "Release Manager"}, c.scripts.removed)}

TestItems(c) ==
    {Item("tests", "high", {"QA Engineer", "Engineering Manager"}, c.tests.removed),
     Item("tests", "low", {"QA Engineer"}, c.tests.added)}

RiskItems(c) ==
    LET security == {r \in c.risks.added : r.category = "security"}
        high     == {r \in c.risks.added \ security : r.severity = "high"}
        titles(risks) == {r.what : r \in risks}
    IN  {Item("security", "critical", {"CTO", "Security Engineer", "Backend Engineer"},
              titles(security)),
         Item("risks", "high", {"CTO", "Backend Engineer", "QA Engineer"}, titles(high)),
         Item("risks", "medium", {"QA Engineer", "Backend Engineer"},
              titles(c.risks.added \ (security \cup high))),
         Item("risks", "low", {"QA Engineer"}, titles(c.risks.removed))}

(* What a file of each class is to those who look after it.                *)
FileClasses ==
    [middleware |-> Item("auth", "critical", {"CTO", "Security Engineer", "Backend Engineer"}, {}),
     package    |-> Item("dependencies", "high",
                         {"Backend Engineer", "DevOps", "Security Engineer", "Release Manager"}, {}),
     typescript |-> Item("build", "medium", {"Backend Engineer", "DevOps"}, {}),
     next       |-> Item("build", "high",
                         {"Backend Engineer", "DevOps", "Release Manager", "QA Engineer"}, {}),
     lint       |-> Item("build", "medium", {"Backend Engineer", "DevOps"}, {}),
     test       |-> Item("tests", "medium", {"QA Engineer", "Backend Engineer", "DevOps"}, {}),
     deployment |-> Item("deployment", "high", {"DevOps", "Release Manager", "Backend Engineer"}, {}),
     layout     |-> Item("routing", "high",
                         {"Backend Engineer", "QA Engineer", "Release Manager"}, {})]

Class(p) == About[p].class
IsDoc(p) == Class(p) # "middleware" /\ About[p].ext = "md"

FileItems(c) ==
    LET touched == c.files.added \cup c.files.removed \cup c.changed IN
    {[FileClasses[k] EXCEPT !.evidence = {p \in touched : Class(p) = k}] :
        k \in DOMAIN FileClasses}
    \cup {Item("documentation", "low", {}, {p \in touched : IsDoc(p)}),
          Item("files", "medium", {"Engineering Manager", "QA Engineer"},
               {p \in c.changed : Class(p) = "none" /\ ~IsDoc(p)})}

Items(c) ==
    {i \in UNION {SchemaItems(c), ApiItems(c), ActionItems(c), RouteItems(c),
                  DependencyItems(c), ScriptItems(c), TestItems(c), RiskItems(c),
                  FileItems(c)} : i.evidence # {}}

(* No functional area, no important file come or gone, and of all the      *)
(* categories only the number of documents has changed.                    *)
DocumentationOnly(c) ==
    /\ AffectedAreas(c) = {"files"}
    /\ ~Differs(c.files)
    /\ c.categories = {"doc"}

(* The highest level among the items.                                      *)
Overall(items) ==
    LET found == {n \in DOMAIN Levels : \E i \in items : i.level = Levels[n]}
    IN  IF found = {} THEN "none" ELSE Levels[CHOOSE n \in found : \A k \in found : k <= n]

Rated(level, items) ==
    LET serious == {i \in items : i.level \in {"high", "critical"}} IN
    [level    |-> level,
     areas    |-> {i.area : i \in items},
     roles    |-> UNION {i.roles : i \in items},
     qaFocus  |-> {i.area : i \in serious \cup {j \in items : "QA Engineer" \in j.roles}},
     risks    |-> serious,
     blocking |-> {i \in items : i.level = "critical"}]

Impact(c) ==
    IF AffectedAreas(c) = {} THEN Rated("none", {})
    ELSE IF DocumentationOnly(c)
    THEN [Rated("low", {}) EXCEPT !.areas = {"documentation"}]
    ELSE Rated(Overall(Items(c)), Items(c))
============================================================================
