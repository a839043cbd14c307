----------------------------- MODULE Repositories -----------------------------
(***************************************************************************)
(* A connected repository and the analyses of it                           *)
(* (repository-analysis-runner.ts, repository-snapshot-service.ts).  An    *)
(* analysis clones the repository, marks its row as being analyzed, stores *)
(* a snapshot of what it found, and then writes the outcome into the row.  *)
(* Nothing keeps two of them apart: the one started when the repository    *)
(* was connected runs beside the one of the button.  What is shown is the  *)
(* comparison of the last two snapshots and its impact.                    *)
(***************************************************************************)
EXTENDS RepositoryAnalysis

CONSTANTS
    FirstTree,      (* the checkout the repository starts as                *)
    Contents,       (* what each of its files may hold                      *)
    Runs,           (* analyses that may be under way at once               *)
    MaxCommits,     (* bound: changes of the repository                     *)
    MaxSnapshots,   (* bound: snapshots stored                              *)
    MaxUpsets       (* bound: clones, writes and processes that fail        *)

VARIABLES
    tree,           (* the repository on its host                           *)
    row,            (* analysisStatus of the repository's row               *)
    runs,           (* the analyses: how far each is, and what it cloned    *)
    snapshots,      (* the snapshots in the order of createdAt              *)
    commits, upsets

vars == <<tree, row, runs, snapshots, commits, upsets>>

Idle == [stage |-> "idle", tree |-> FirstTree]

Snapshots == Len(snapshots)

Init ==
    /\ tree = FirstTree
    /\ row = "pending"
    /\ runs = [r \in Runs |-> Idle]
    /\ snapshots = <<>>
    /\ commits = 0 /\ upsets = 0

---------------------------------------------------------------------------
(* A checkout with one file more, less or rewritten.                       *)
Edits(t) ==
    {[q \in DOMAIN t \ {p} |-> t[q]] : p \in DOMAIN t}
    \cup UNION {{[q \in DOMAIN t \cup {p} |-> IF q = p THEN c ELSE t[q]] :
                    c \in Contents[p]} : p \in Paths}

(* A commit touches one file or two.                                       *)
Commit ==
    /\ commits < MaxCommits /\ Snapshots < MaxSnapshots
    /\ tree' \in UNION {Edits(t) : t \in Edits(tree)} \ {tree}
    /\ commits' = commits + 1
    /\ UNCHANGED <<row, runs, snapshots, upsets>>

Room ==
    Snapshots + Cardinality({r \in Runs : runs[r].stage \in {"cloned", "analyzing"}})
        < MaxSnapshots

(* runRepositoryAnalysis, from the connection or the button.               *)
Clone(r) ==
    /\ runs[r].stage = "idle" /\ Room
    /\ runs' = [runs EXCEPT ![r] = [stage |-> "cloned", tree |-> tree]]
    /\ UNCHANGED <<tree, row, snapshots, commits, upsets>>

(* A clone that fails leaves no snapshot.                                  *)
CloneFails(r) ==
    /\ runs[r].stage = "idle" /\ upsets < MaxUpsets
    /\ row' = "failed"
    /\ upsets' = upsets + 1
    /\ UNCHANGED <<tree, runs, snapshots, commits>>

(* createRepositoryAnalysisSnapshot, step by step.                         *)
MarkAnalyzing(r) ==
    /\ runs[r].stage = "cloned"
    /\ row' = "analyzing"
    /\ runs' = [runs EXCEPT ![r].stage = "analyzing"]
    /\ UNCHANGED <<tree, snapshots, commits, upsets>>

StoreSnapshot(r) ==
    /\ runs[r].stage = "analyzing"
    /\ snapshots' = Append(snapshots, [status |-> "completed", tree |-> runs[r].tree])
    /\ runs' = [runs EXCEPT ![r].stage = "stored"]
    /\ UNCHANGED <<tree, row, commits, upsets>>

(* The checkout is not there any more.                                     *)
StoreFailure(r) ==
    /\ runs[r].stage = "analyzing" /\ upsets < MaxUpsets
    /\ snapshots' = Append(snapshots, [status |-> "failed", tree |-> runs[r].tree])
    /\ runs' = [runs EXCEPT ![r].stage = "refused"]
    /\ upsets' = upsets + 1
    /\ UNCHANGED <<tree, row, commits>>

Conclude(r) ==
    /\ runs[r].stage \in {"stored", "refused"}
    /\ row' = IF runs[r].stage = "stored" THEN "complete" ELSE "failed"
    /\ runs' = [runs EXCEPT ![r] = Idle]
    /\ UNCHANGED <<tree, snapshots, commits, upsets>>

(* Any of these writes may throw: the runner's catch marks the row, and a  *)
(* snapshot that is already stored stays.                                  *)
WriteFails(r) ==
    /\ runs[r].stage # "idle" /\ upsets < MaxUpsets
    /\ row' = "failed"
    /\ runs' = [runs EXCEPT ![r] = Idle]
    /\ upsets' = upsets + 1
    /\ UNCHANGED <<tree, snapshots, commits>>

(* The analyses run in the web server: with it they are gone, and the row  *)
(* keeps what they left in it.                                             *)
Restart ==
    /\ upsets < MaxUpsets
    /\ \E r \in Runs : runs[r].stage # "idle"
    /\ runs' = [r \in Runs |-> Idle]
    /\ upsets' = upsets + 1
    /\ UNCHANGED <<tree, row, snapshots, commits>>

Next ==
    \/ Commit
    \/ Restart
    \/ \E r \in Runs :
          \/ Clone(r) \/ CloneFails(r) \/ MarkAnalyzing(r) \/ StoreSnapshot(r)
          \/ StoreFailure(r) \/ Conclude(r) \/ WriteFails(r)

Spec == Init /\ [][Next]_vars

---------------------------------------------------------------------------
(* compareLatestRepositoryAnalysisSnapshots                                *)

Comparable ==
    /\ Snapshots >= 2
    /\ \A n \in {Snapshots - 1, Snapshots} : snapshots[n].status = "completed"

Before == snapshots[Snapshots - 1].tree
After == snapshots[Snapshots].tree

Report == Comparison(Analysis(Before), Analysis(After))

---------------------------------------------------------------------------
TypeOK ==
    /\ DOMAIN tree \subseteq Paths
    /\ row \in {"pending", "analyzing", "complete", "failed"}
    /\ \A r \in Runs :
          runs[r].stage \in {"idle", "cloned", "analyzing", "stored", "refused"}
    /\ \A n \in DOMAIN snapshots : snapshots[n].status \in {"completed", "failed"}
    /\ Snapshots <= MaxSnapshots

(* The files that have come, gone or been rewritten between the two        *)
(* checkouts.                                                              *)
Moved == (DOMAIN Before \ DOMAIN After) \cup (DOMAIN After \ DOMAIN Before)
Rewritten == {p \in DOMAIN Before \cap DOMAIN After : Before[p] # After[p]}

(* Everything of a checkout that is not ignored has been walked.           *)
WalkedWhole == \A t \in {Before, After} : Walk(t) = Visible(t)

(* What a reviewer relies on: each of these says that something that did   *)
(* change between two checkouts is in the report, or that what the report  *)
(* names did change.                                                       *)
ReportIsTrue(report) ==
    /\ report.changed \subseteq Rewritten
    /\ Before = After => AffectedAreas(report) = {}
    /\ WalkedWhole =>
          /\ \A p \in Rewritten :
                (~About[p].ignored /\ ~About[p].large /\ Category(p) # "asset")
                    => p \in report.changed
          /\ \A p \in Moved :
                ~About[p].ignored => "files" \in AffectedAreas(report) \/ report.delta = 0
          /\ report.routes.added \cup report.routes.removed
                = {[path |-> p, type |-> Kind(p)] :
                       p \in {q \in Moved : Kind(q) \in RouteKinds}}

(* An access rule rewritten, where files are hashed, or one the analysis   *)
(* looks for by name (middleware.ts and proxy.ts, at the root or in src/)  *)
(* come or gone.  Any other, such as lib/auth.ts, comes and goes as a file *)
(* like all the rest.                                                      *)
RuleChanged ==
    \E p \in Paths :
        /\ Class(p) = "middleware" /\ ~About[p].ignored
        /\ \/ p \in Rewritten /\ ~About[p].large
           \/ p \in Moved /\ About[p].known

(* The changes the report must not play down: such an access rule, or a    *)
(* model of the database dropped.                                          *)
Grave ==
    \/ RuleChanged
    \/ \E p \in Paths :
          /\ Kind(p) = "schema" /\ p \in DOMAIN Before
          /\ (p \in DOMAIN After => Before[p] \ After[p] # {})
          /\ Before[p] # {}

(* A report on such a change blocks, and calls in the CTO.                 *)
Raised(report) ==
    LET impact == Impact(report)
    IN  /\ impact.level = "critical" /\ impact.blocking # {}
        /\ "CTO" \in impact.roles

(* Beside a new or a removed document the report says                      *)
(* "documentation-only" whatever else was rewritten: NothingHidden.        *)
NothingPlayedDown(report) ==
    Grave /\ WalkedWhole /\ ~DocumentationOnly(report) => Raised(report)

(* Whatever the analyses and their failures did to the snapshots, the      *)
(* comparison of the last two tells what has changed between the checkouts *)
(* they were taken of, no more and no less, and a grave change is given    *)
(* the highest impact, whichever of the two checkouts is the older one     *)
(* (repository-snapshot-comparison.ts, repository-impact-analysis.ts).     *)
ChangesReported ==
    Comparable =>
        LET report == Report IN ReportIsTrue(report) /\ NothingPlayedDown(report)

(* docs/architecture/REPOSITORY_IMPACT_ANALYSIS.md:287: "Mixed changes are *)
(* classified functionally", so that a grave change is raised also when a  *)
(* document came with it.  isDocumentationOnlyChange does not look at the  *)
(* changed files.                                                          *)
NothingHidden == Comparable /\ Grave /\ WalkedWhole => Raised(Report)
============================================================================
