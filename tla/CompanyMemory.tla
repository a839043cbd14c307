--------------------------- MODULE CompanyMemory ---------------------------
(***************************************************************************)
(* What the company learns: at the end of its tick the driver distils the  *)
(* decided reviews, the finished QA and the shipped releases into lessons, *)
(* and makes a standard of a finding that recurs (lib/memory).  The CEO    *)
(* adds records by hand (app/actions/memory.ts) and decides reviews and QA *)
(* meanwhile; what has shipped has shipped before.  Planner and briefs     *)
(* recall the lessons.  The driver may crash between any two of its        *)
(* queries, and any may fail.                                              *)
(***************************************************************************)
EXTENDS BagsExt, Bags, FiniteSetsExt, FiniteSets, Naturals

CONSTANTS
    Reviews, QaResults, Shipments,  (* the rows that something is learned from *)
    Remarks,     (* what a review may find, after normalizeKey              *)
    Slug,        (* what sanitizeKey leaves of a remark                     *)
    Blocking,    (* the remarks of severity "blocker"                       *)
    Decisions,   (* what may be decided: a verdict, notes, and what was found *)
    Outcomes,    (* how QA may end: a status, and whether anything was checked *)
    ByHand,      (* the records the CEO may write down herself: their       *)
                 (* source is hers to name, also like one of the driver's   *)
    Threshold,   (* the reviews a remark must recur in, 3 in the code       *)
    MaxNotes,    (* bound: records the CEO adds                             *)
    MaxFaults    (* bound: failed queries and crashes                       *)

VARIABLES
    reviews,     (* the Review rows                                         *)
    qa,          (* the QAResult rows                                       *)
    shipped,     (* the releases that are out, from the beginning           *)
    banks,       (* the categories whose bank of the driver exists          *)
    records,     (* the MemoryRecord rows, a bag                            *)
    tick,        (* the driver                                              *)
    faults       (* failures and crashes so far                             *)

vars == <<reviews, qa, shipped, banks, records, tick, faults>>

---------------------------------------------------------------------------
Idle == [at |-> "idle"]

Undecided == [verdict |-> "none", notes |-> FALSE, found |-> [k \in Remarks |-> 0]]

Found(r) == {k \in Remarks : reviews[r].found[k] > 0}

(* A clean approval without a note teaches nothing; QA without checks and  *)
(* without a note neither.                                                 *)
ReviewTeaches(r) ==
    reviews[r].verdict # "approved" \/ reviews[r].notes \/ Found(r) # {}

QaTeaches(q) == qa[q].checked \/ qa[q].notes

(* A lesson, with its confidence in per cent; who wrote it is not in the   *)
(* row, and is looked at by the properties alone.                          *)
Lesson(category, source, confidence) ==
    [category |-> category, source |-> source, confidence |-> confidence, by |-> "driver"]

ReviewLesson(r) ==
    Lesson("review", <<"review", r>>, IF Found(r) \cap Blocking # {} THEN 80 ELSE 65)

QaLesson(q) == Lesson("qa", <<"qa", q>>, IF qa[q].status = "failed" THEN 80 ELSE 60)

ReleaseLesson(l) == Lesson("release", <<"release", l>>, 60)

(* Every occurrence counts, also a second one in the same review.          *)
Count(k) == MapThenSumSet(LAMBDA r : reviews[r].found[k], Reviews)

Standard(k) == Lesson("standards", <<"learning", Slug[k]>>, 90)

(* What is read at once, and is then written one by one.                   *)
Lessons(stage) ==
    CASE stage = "reviews"  ->
            {ReviewLesson(r) : r \in {x \in Reviews :
                reviews[x].verdict # "none" /\ ReviewTeaches(x)}}
      [] stage = "qa"       ->
            {QaLesson(q) : q \in {x \in QaResults :
                qa[x].status \in {"passed", "failed"} /\ QaTeaches(x)}}
      [] stage = "releases" -> {ReleaseLesson(l) : l \in shipped}
      [] stage = "learning" ->
            {Standard(k) : k \in {x \in Remarks : Count(x) >= Threshold}}

After == [reviews |-> "qa", qa |-> "releases", releases |-> "learning",
          learning |-> "idle"]

(* How many records of a lesson there are.                                 *)
Copies(lesson) == IF BagIn(lesson, records) THEN records[lesson] ELSE 0

(* Mutated form: a record of the same bank is looked for.                  *)
KnownInBank(lesson) ==
    \E record \in BagToSet(records) : record.category = lesson.category

(* recordCompanyMemory looks for a record of the same source, whoever      *)
(* wrote it.                                                               *)
Known(lesson) == \E record \in BagToSet(records) : record.source = lesson.source

Init ==
    /\ reviews = [r \in Reviews |-> Undecided]
    /\ qa = [q \in QaResults |->
               [status |-> "pending", checked |-> FALSE, notes |-> FALSE]]
    /\ shipped \in SUBSET Shipments
    /\ banks = {}
    /\ records = EmptyBag
    /\ tick = Idle
    /\ faults = 0

---------------------------------------------------------------------------
(* What there is to learn from.                                            *)

(* An approval is final; a request for changes may be decided again.       *)
DecideReview(r, decision) ==
    /\ reviews[r].verdict # "approved"
    /\ reviews' = [reviews EXCEPT ![r] = decision]
    /\ UNCHANGED <<qa, shipped, banks, records, tick, faults>>

RecordQaResult(q, outcome) ==
    /\ qa[q].status = "pending"
    /\ qa' = [qa EXCEPT ![q] = outcome]
    /\ UNCHANGED <<reviews, shipped, banks, records, tick, faults>>

Notes == MapThenSumSet(Copies, BagToSet(records) \cap ByHand)

(* The CEO's own record, in a bank of the driver's or in one of her own,   *)
(* which the planner does not look at.                                     *)
AddMemoryRecord(lesson) ==
    /\ lesson.category \in banks \cup {"company"}
    /\ Notes < MaxNotes
    /\ records' = BagAdd(records, lesson)
    /\ UNCHANGED <<reviews, qa, shipped, banks, tick, faults>>

---------------------------------------------------------------------------
(* The driver's tick: ingestCompanyMemory, then promoteRecurringLessons.   *)

NoLesson == {}

(* The rows of a stage are read at once, and looked at one by one.         *)
Begin(stage, due, whole) ==
    [at |-> stage, todo |-> Lessons(stage), hand |-> NoLesson, step |-> "find",
     due |-> due \cup {lesson.source : lesson \in Lessons(stage)}, whole |-> whole]

Ended(whole) == [at |-> "done", due |-> tick.due, whole |-> whole]

StartTick ==
    /\ tick.at \in {"idle", "done"}
    /\ tick' = Begin("reviews", {}, TRUE)
    /\ UNCHANGED <<reviews, qa, shipped, banks, records, faults>>

Ingesting == tick.at \in DOMAIN After

NextStage ==
    /\ Ingesting /\ tick.todo = {} /\ tick.hand = NoLesson
    /\ tick' = IF After[tick.at] = "idle" THEN Ended(tick.whole)
               ELSE Begin(After[tick.at], tick.due, tick.whole)
    /\ UNCHANGED <<reviews, qa, shipped, banks, records, faults>>

FindRecord(lesson) ==
    /\ Ingesting /\ tick.hand = NoLesson /\ lesson \in tick.todo
    /\ tick' = [tick EXCEPT !.todo = @ \ {lesson}, !.step = "bank",
                            !.hand = IF Known(lesson) THEN NoLesson ELSE {lesson}]
    /\ UNCHANGED <<reviews, qa, shipped, banks, records, faults>>

InHand(step) == Ingesting /\ tick.hand # NoLesson /\ tick.step = step

TheLesson == CHOOSE lesson \in tick.hand : TRUE

FindBank ==
    /\ InHand("bank")
    /\ tick' = [tick EXCEPT !.step = IF TheLesson.category \in banks
                                     THEN "record" ELSE "create"]
    /\ UNCHANGED <<reviews, qa, shipped, banks, records, faults>>

CreateBank ==
    /\ InHand("create")
    /\ banks' = banks \cup {TheLesson.category}
    /\ tick' = [tick EXCEPT !.step = "record"]
    /\ UNCHANGED <<reviews, qa, shipped, records, faults>>

CreateRecord ==
    /\ InHand("record")
    /\ records' = BagAdd(records, TheLesson)
    /\ tick' = [tick EXCEPT !.hand = NoLesson]
    /\ UNCHANGED <<reviews, qa, shipped, banks, faults>>

(* A query fails: of a lesson, which is left out, unless it is a standard; *)
(* then, as when the rows cannot be read, the tick learns no more.         *)
Fail ==
    /\ Ingesting /\ faults < MaxFaults
    /\ faults' = faults + 1
    /\ \/ tick' = Ended(FALSE)
       \/ /\ tick.hand # NoLesson /\ tick.at # "learning"
          /\ tick' = [tick EXCEPT !.hand = NoLesson, !.whole = FALSE]
    /\ UNCHANGED <<reviews, qa, shipped, banks, records>>

Crash ==
    /\ Ingesting /\ faults < MaxFaults
    /\ faults' = faults + 1
    /\ tick' = Idle
    /\ UNCHANGED <<reviews, qa, shipped, banks, records>>

---------------------------------------------------------------------------
PlanningCategories == {"standards", "review", "qa", "release"}

(* The rows behind some lessons, each as often as it was recorded.         *)
Rows(lessons) == UNION {{x} \X (1 .. Copies(x)) : x \in lessons}

(* getRelevantCompanyMemory without a query takes the n of most confidence *)
(* (of equals the latest, which is not told apart here).                   *)
Recalled(n) ==
    LET known == {x \in BagToSet(records) : x.category \in PlanningCategories}
        Ahead(lesson) == {x \in known : x.confidence > lesson.confidence} IN
    {lesson \in known : Cardinality(Rows(Ahead(lesson))) < n}

Next ==
    \/ \E r \in Reviews, d \in Decisions : DecideReview(r, d)
    \/ \E q \in QaResults, o \in Outcomes : RecordQaResult(q, o)
    \/ \E lesson \in ByHand : AddMemoryRecord(lesson)
    \/ StartTick
    \/ NextStage
    \/ \E lesson \in UNION {Lessons(s) : s \in DOMAIN After} : FindRecord(lesson)
    \/ FindBank
    \/ CreateBank
    \/ CreateRecord
    \/ Fail
    \/ Crash

Spec == Init /\ [][Next]_vars

---------------------------------------------------------------------------
(* The rows have their types, and the driver is at one of its steps.       *)
TypeOK ==
    /\ \A r \in Reviews : reviews[r].verdict \in {"none", "approved", "changes_requested"}
    /\ \A q \in QaResults : qa[q].status \in {"pending", "passed", "failed"}
    /\ shipped \subseteq Shipments
    /\ banks \subseteq PlanningCategories
    /\ tick.at \in {"idle", "done"} \cup DOMAIN After
    /\ faults \in 0 .. MaxFaults

Own(lesson) == lesson.by = "driver"

(* The driver learns nothing twice, whatever fails in between.             *)
LearnedOnce ==
    \A x, y \in BagToSet(records) : Own(x) =>
        /\ Copies(x) = 1
        /\ Own(y) /\ x.source = y.source => x = y

(* What a tick without a failure has found due has a record of its source: *)
(* the lesson, or one of the CEO's, which the driver takes for it.         *)
NothingForgotten ==
    tick.at = "done" /\ tick.whole =>
        \A source \in tick.due :
            \E record \in BagToSet(records) : record.source = source

(* Where the driver's lessons compete for a place in a brief, its          *)
(* standards come first.                                                   *)
StandardsFirst ==
    \A n \in 1 .. BagCardinality(records) : \A x \in Recalled(n), y \in BagToSet(records) :
        Own(x) /\ Own(y) /\ x.category # "standards" /\ y.category = "standards"
        => y \in Recalled(n)

(* Every tick learns what has no record of its source yet, once, and the   *)
(* standards weigh most (memory-ingestion-service.ts,                      *)
(* memory-learning-service.ts).                                            *)
LessonsKept == LearnedOnce /\ NothingForgotten /\ StandardsFirst
============================================================================
