----------------------------- MODULE WorkProofs -----------------------------
(***************************************************************************)
(* Proofs about what the services record of the work itself (MCRecords),   *)
(* for any number of attempts, reviews, pages, lessons and commits: what   *)
(* the pages of a task show and take is so, however old they are           *)
(* (DeskStaysTruthful); what the company cannot go on with by itself shows *)
(* on the home page (HomeSeesStandstill); the driver learns what is new,   *)
(* once (LessonsStayKept); the comparison of two snapshots says what has   *)
(* changed (ChangesAreReported); and the generator's plans are worked off  *)
(* in the order of their dependencies, to their end (PlansRunThrough).     *)
(***************************************************************************)
EXTENDS MCRecords, FiniteSetTheorems, SequenceTheorems, WellFoundedInduction, TLAPS

---------------------------------------------------------------------------
(* The task desk.  What the page sums up is a recursive function over the  *)
(* attempts; that it has the values its equations say is shown by the      *)
(* least place where it has not.                                           *)

(* The sums of the first spans, up to the k-th.                            *)
AddsTo(g, spans, k) ==
    /\ g = [n \in 0 .. k |-> g[n]]
    /\ g[0] = 0
    /\ \A n \in 1 .. k : g[n] = g[n - 1] + spans[n]

(* The sums of the first spans, as the page's reduce goes on for ever.     *)
Adds(f, spans) ==
    f = [n \in Nat |-> IF n = 0 THEN 0 ELSE f[n - 1] + spans[n]]

LEMMA LeastOf ==
  ASSUME NEW S \in SUBSET Nat, S # {}
  PROVE  \E least \in S : \A n \in S : least <= n
<1>1. PICK least \in S : \A n \in S : ~(<<n, least>> \in OpToRel(<, Nat))
  BY WFMin, NatLessThanWellFounded
<1>2. \A n \in S : ~(n < least)
  BY <1>1 DEF OpToRel
<1> QED
  BY <1>2

LEMMA SumsExist ==
  ASSUME NEW spans
  PROVE  \A k \in Nat : \E g : AddsTo(g, spans, k)
<1> DEFINE bad == {k \in Nat : ~ \E g : AddsTo(g, spans, k)}
<1>1. SUFFICES ASSUME bad # {}
               PROVE  FALSE
  OBVIOUS
<1>2. PICK k \in bad : \A n \in bad : k <= n
  BY <1>1, LeastOf
<1>3. CASE k = 0
  <2>1. PICK g : g = [n \in 0 .. 0 |-> 0]
    OBVIOUS
  <2>2. AddsTo(g, spans, 0)
    BY <2>1 DEF AddsTo
  <2> QED
    BY <1>3, <2>2
<1>4. CASE k # 0
  <2>1. k \in Nat /\ k - 1 \in Nat /\ k - 1 \notin bad
    BY <1>2, <1>4
  <2>2. PICK g : AddsTo(g, spans, k - 1)
    BY <2>1
  <2>3. PICK h : h = [n \in 0 .. k |-> IF n = k THEN g[k - 1] + spans[k] ELSE g[n]]
    OBVIOUS
  <2>4. AddsTo(h, spans, k)
    <3>1. \A n \in 0 .. k : h[n] = IF n = k THEN g[k - 1] + spans[k] ELSE g[n]
      BY <2>3
    <3>2. h = [n \in 0 .. k |-> h[n]]
      BY <2>3
    <3>3. h[0] = 0
      <4>1. k \in Nat /\ 0 \in 0 .. k /\ 0 # k
        BY <1>4, <2>1
      <4> QED
        BY <2>2, <3>1, <4>1 DEF AddsTo
    <3>4. ASSUME NEW n \in 1 .. k
          PROVE  h[n] = h[n - 1] + spans[n]
      <4>1. n - 1 \in 0 .. k /\ n \in 0 .. k /\ n - 1 # k
        BY <2>1
      <4>2. CASE n = k
        BY <3>1, <4>1, <4>2
      <4>3. CASE n # k
        <5>1. n \in 1 .. (k - 1)
          BY <2>1, <4>3
        <5> QED
          BY <2>2, <3>1, <4>1, <4>3, <5>1 DEF AddsTo
      <4> QED
        BY <4>2, <4>3
    <3> QED
      BY <3>2, <3>3, <3>4 DEF AddsTo
  <2> QED
    BY <1>2, <2>4
<1> QED
  BY <1>3, <1>4

(* Two rows of spans with the same beginning.                              *)
Alike(a, b, k) == \A n \in 1 .. k : a[n] = b[n]

LEMMA SumsAgree ==
  ASSUME NEW a, NEW b, NEW f, NEW g, NEW k \in Nat, NEW m \in Nat, k <= m,
         AddsTo(f, a, k), AddsTo(g, b, m), Alike(a, b, k)
  PROVE  f[k] = g[k]
<1> DEFINE bad == {n \in 0 .. k : f[n] # g[n]}
<1>1. SUFFICES ASSUME bad # {}
               PROVE  FALSE
  BY DEF AddsTo
<1>2. PICK n \in bad : \A i \in bad : n <= i
  <2>1. bad \in SUBSET Nat
    OBVIOUS
  <2> QED
    BY <1>1, <2>1, LeastOf
<1>3. n # 0
  BY <1>2 DEF AddsTo
<1>4. n \in Nat /\ n \in 1 .. k /\ n \in 1 .. m /\ n - 1 \in 0 .. k /\ n - 1 \notin bad
  BY <1>2, <1>3
<1>5. f[n - 1] = g[n - 1]
  BY <1>4
<1>6. f[n] = f[n - 1] + a[n] /\ g[n] = g[n - 1] + b[n]
  BY <1>4 DEF AddsTo
<1>7. a[n] = b[n]
  BY <1>4 DEF Alike
<1> QED
  BY <1>2, <1>4, <1>5, <1>6, <1>7

LEMMA SumIsThere ==
  ASSUME NEW spans
  PROVE  \E f : Adds(f, spans)
<1>1. PICK f : f = [n \in Nat |-> (CHOOSE g : AddsTo(g, spans, n))[n]]
  OBVIOUS
<1>2. \A n \in Nat : \E g : AddsTo(g, spans, n) /\ f[n] = g[n]
  <2>1. ASSUME NEW n \in Nat
        PROVE  \E g : AddsTo(g, spans, n) /\ f[n] = g[n]
    <3>1. PICK g : g = CHOOSE h : AddsTo(h, spans, n)
      OBVIOUS
    <3>2. AddsTo(g, spans, n)
      BY <3>1, SumsExist
    <3> QED
      BY <1>1, <3>1, <3>2
  <2> QED
    BY <2>1
<1>3. f[0] = 0
  BY <1>2 DEF AddsTo
<1>4. ASSUME NEW n \in Nat \ {0}
      PROVE  f[n] = f[n - 1] + spans[n]
  <2>1. n - 1 \in Nat /\ n - 1 <= n /\ n \in 1 .. n
    OBVIOUS
  <2>2. PICK g : AddsTo(g, spans, n) /\ f[n] = g[n]
    BY <1>2
  <2>3. PICK h : AddsTo(h, spans, n - 1) /\ f[n - 1] = h[n - 1]
    BY <1>2, <2>1
  <2>4. h[n - 1] = g[n - 1]
    <3>1. Alike(spans, spans, n - 1)
      BY DEF Alike
    <3> QED
      BY <2>1, <2>2, <2>3, <3>1, SumsAgree
  <2>5. g[n] = g[n - 1] + spans[n]
    BY <2>1, <2>2 DEF AddsTo
  <2> QED
    BY <2>2, <2>3, <2>4, <2>5
<1>5. \A n \in Nat : f[n] = IF n = 0 THEN 0 ELSE f[n - 1] + spans[n]
  BY <1>3, <1>4
<1>6. f = [n \in Nat |-> f[n]]
  BY <1>1
<1> QED
  BY <1>5, <1>6 DEF Adds

LEMMA SumIs ==
  ASSUME NEW spans, Len(spans) \in Nat
  PROVE  \E g : AddsTo(g, spans, Len(spans)) /\ Desk!SumOf(spans) = g[Len(spans)]
<1>1. PICK f : f = CHOOSE h : Adds(h, spans)
  OBVIOUS
<1>2. Adds(f, spans)
  BY <1>1, SumIsThere
<1>3. Desk!SumOf(spans) = f[Len(spans)]
  BY <1>1 DEF Desk!SumOf, Adds
<1>4. \A n \in Nat : f[n] = IF n = 0 THEN 0 ELSE f[n - 1] + spans[n]
  BY <1>2 DEF Adds
<1>5. PICK g : g = [n \in 0 .. Len(spans) |-> f[n]]
  OBVIOUS
<1>6. AddsTo(g, spans, Len(spans))
  <2>1. PICK k \in Nat : k = Len(spans)
    OBVIOUS
  <2>2. g = [n \in 0 .. k |-> g[n]] /\ \A n \in 0 .. k : g[n] = f[n]
    BY <1>5, <2>1
  <2>3. \A n \in 1 .. k : n \in Nat /\ n # 0 /\ n \in 0 .. k /\ n - 1 \in 0 .. k
    OBVIOUS
  <2>4. AddsTo(g, spans, k)
    BY <1>4, <2>2, <2>3 DEF AddsTo
  <2> QED
    BY <2>1, <2>4
<1> QED
  BY <1>3, <1>5, <1>6

(* The first sums of n spans are numbers when the spans are.               *)
LEMMA SumsAreNumbers ==
  ASSUME NEW g, NEW spans, NEW k \in Nat, AddsTo(g, spans, k),
         \A n \in 1 .. k : spans[n] \in Nat
  PROVE  \A n \in 0 .. k : g[n] \in Nat
<1> DEFINE bad == {n \in 0 .. k : g[n] \notin Nat}
<1>1. SUFFICES ASSUME bad # {}
               PROVE  FALSE
  OBVIOUS
<1>2. PICK n \in bad : \A i \in bad : n <= i
  <2>1. bad \in SUBSET Nat
    OBVIOUS
  <2> QED
    BY <1>1, <2>1, LeastOf
<1>3. n # 0
  BY <1>2 DEF AddsTo
<1>4. n \in Nat /\ n \in 1 .. k /\ n - 1 \in 0 .. k /\ n - 1 \notin bad
  BY <1>2, <1>3
<1>5. g[n - 1] \in Nat
  BY <1>4
<1>6. g[n] = g[n - 1] + spans[n] /\ spans[n] \in Nat
  BY <1>4 DEF AddsTo
<1> QED
  BY <1>2, <1>5, <1>6

LEMMA SumOfNone ==
  ASSUME NEW spans, Len(spans) = 0
  PROVE  Desk!SumOf(spans) = 0
<1>1. PICK g : AddsTo(g, spans, Len(spans)) /\ Desk!SumOf(spans) = g[Len(spans)]
  BY SumIs
<1> QED
  BY <1>1 DEF AddsTo

LEMMA SumIsNumber ==
  ASSUME NEW spans, Len(spans) \in Nat, \A i \in 1 .. Len(spans) : spans[i] \in Nat
  PROVE  Desk!SumOf(spans) \in Nat
<1>1. PICK g : AddsTo(g, spans, Len(spans)) /\ Desk!SumOf(spans) = g[Len(spans)]
  BY SumIs
<1>2. \A n \in 0 .. Len(spans) : g[n] \in Nat
  BY <1>1, SumsAreNumbers
<1> QED
  BY <1>1, <1>2

LEMMA SameSum ==
  ASSUME NEW a, NEW b, Len(a) \in Nat, Len(b) = Len(a),
         \A i \in 1 .. Len(a) : a[i] = b[i]
  PROVE  Desk!SumOf(a) = Desk!SumOf(b)
<1>1. PICK k \in Nat : k = Len(a) /\ k = Len(b)
  OBVIOUS
<1>2. PICK f : AddsTo(f, a, k) /\ Desk!SumOf(a) = f[k]
  BY <1>1, SumIs
<1>3. PICK g : AddsTo(g, b, k) /\ Desk!SumOf(b) = g[k]
  BY <1>1, SumIs
<1>4. k <= k /\ Alike(a, b, k)
  BY <1>1 DEF Alike
<1>5. f[k] = g[k]
  BY <1>2, <1>3, <1>4, SumsAgree
<1> QED
  BY <1>2, <1>3, <1>5

(* A sum with one span more.                                               *)
LEMMA SumOfOneMore ==
  ASSUME NEW a, NEW b, Len(a) \in Nat, Len(b) = Len(a) + 1,
         \A i \in 1 .. Len(a) : a[i] = b[i]
  PROVE  Desk!SumOf(b) = Desk!SumOf(a) + b[Len(b)]
<1>1. PICK k \in Nat : k = Len(a)
  OBVIOUS
<1>2. PICK f : AddsTo(f, a, k) /\ Desk!SumOf(a) = f[k]
  BY <1>1, SumIs
<1>3. PICK g : AddsTo(g, b, k + 1) /\ Desk!SumOf(b) = g[k + 1]
  BY <1>1, SumIs
<1>4. f[k] = g[k]
  <2>1. PICK m \in Nat : m = k + 1
    OBVIOUS
  <2>2. k <= m /\ AddsTo(g, b, m) /\ Alike(a, b, k)
    BY <1>1, <1>3, <2>1 DEF Alike
  <2> QED
    BY <1>2, <2>2, SumsAgree
<1>5. g[k + 1] = g[(k + 1) - 1] + b[k + 1]
  <2>1. k + 1 \in 1 .. (k + 1)
    OBVIOUS
  <2> QED
    BY <1>3, <2>1 DEF AddsTo
<1>6. (k + 1) - 1 = k
  OBVIOUS
<1> QED
  BY <1>1, <1>2, <1>3, <1>4, <1>5, <1>6

(* Two sums that differ in the last span.                                  *)
LEMMA SumsDiffer ==
  ASSUME NEW a, NEW b, NEW n \in Nat \ {0}, Len(a) = n, Len(b) = n,
         \A i \in 1 .. n : a[i] \in Nat /\ b[i] \in Nat,
         \A i \in 1 .. n : i # n => a[i] = b[i]
  PROVE  /\ Desk!SumOf(a) \in Nat /\ Desk!SumOf(b) \in Nat
         /\ Desk!SumOf(a) + b[n] = Desk!SumOf(b) + a[n]
<1>1. PICK f : AddsTo(f, a, n) /\ Desk!SumOf(a) = f[n]
  BY SumIs
<1>2. PICK g : AddsTo(g, b, n) /\ Desk!SumOf(b) = g[n]
  BY SumIs
<1>3. PICK k \in Nat : k = n - 1
  OBVIOUS
<1>4. AddsTo([i \in 0 .. k |-> f[i]], a, k)
  <2>1. PICK e : e = [i \in 0 .. k |-> f[i]]
    OBVIOUS
  <2>2. \A i \in 1 .. k : i \in 1 .. n /\ i - 1 \in 0 .. k /\ i \in 0 .. k
    BY <1>3
  <2>3. AddsTo(e, a, k)
    BY <1>1, <2>1, <2>2 DEF AddsTo
  <2> QED
    BY <2>1, <2>3
<1>5. f[k] = g[k]
  <2>1. PICK e : e = [i \in 0 .. k |-> f[i]]
    OBVIOUS
  <2>2. k <= n /\ k \in 0 .. k /\ \A i \in 1 .. k : i \in 1 .. n /\ i # n
    BY <1>3
  <2>3. AddsTo(e, a, k) /\ e[k] = f[k]
    BY <1>4, <2>1, <2>2
  <2>4. Alike(a, b, k)
    BY <2>2 DEF Alike
  <2>5. e[k] = g[k]
    BY <1>2, <2>2, <2>3, <2>4, SumsAgree
  <2> QED
    BY <2>3, <2>5
<1>6. f[n] = f[k] + a[n] /\ g[n] = g[k] + b[n]
  <2>1. n \in 1 .. n
    OBVIOUS
  <2> QED
    BY <1>1, <1>2, <1>3, <2>1 DEF AddsTo
<1>7. f[k] \in Nat /\ f[n] \in Nat /\ g[n] \in Nat
  <2>1. k \in 0 .. n /\ n \in 0 .. n
    BY <1>3
  <2> QED
    BY <1>1, <1>2, <2>1, SumsAreNumbers
<1>8. a[n] \in Nat /\ b[n] \in Nat
  OBVIOUS
<1> QED
  BY <1>1, <1>2, <1>5, <1>6, <1>7, <1>8

LEMMA LengthIs ==
  ASSUME NEW n \in Nat, NEW f, f = [i \in 1 .. n |-> f[i]]
  PROVE  Len(f) = n
<1>1. f \in [1 .. n -> {f[i] : i \in 1 .. n}]
  OBVIOUS
<1>2. f \in Seq({f[i] : i \in 1 .. n})
  BY <1>1, SeqDef
<1>3. Len(f) \in Nat /\ DOMAIN f = 1 .. Len(f) /\ DOMAIN f = 1 .. n
  BY <1>1, <1>2
<1> QED
  BY <1>3

---------------------------------------------------------------------------
(* The desk's rows, and what holds of them.  All attempts but the last     *)
(* have ended, which is what makes the live clock right, and no moment     *)
(* worked is taken back, which is why a page stays true.                   *)

DeskSections ==
    [repository : Repositories, warnings : SUBSET {"no repository", "not analysed"}]

DeskBriefs ==
    [context : DeskSections, criteria : {"criteria of the plan", "description", "none specified"},
     objective : BOOLEAN, rework : BOOLEAN, prior : Repositories \cup {Nowhere}]

DeskRow ==
    [status : Desk!LiveStatuses \cup Desk!Results, repository : Repositories,
     started : Nat, completed : Nat, pr : Repositories \cup {Nowhere},
     merged : BOOLEAN, brief : DeskBriefs]

(* What an attempt's times are.                                            *)
Timed(s, now) ==
    /\ s.status = "prepared" => s.started = 0
    /\ s.status = "running" => s.started # 0 /\ s.started <= now
    /\ s.status \in Desk!Results => s.started <= s.completed

DeskTimes == [i \in DOMAIN deskSessions |-> Desk!SpanOf(deskSessions[i])]

DeskAttempts ==
    \A i \in DOMAIN deskSessions :
        /\ Timed(deskSessions[i], deskClock)
        /\ i # Len(deskSessions) => deskSessions[i].status \in Desk!Results

DeskWork ==
    /\ deskLink \in Repositories \cup {Nowhere} /\ deskRecent \in Repositories
    /\ deskClock \in Nat \ {0} /\ deskAsked \in BOOLEAN
    /\ deskSessions \in Seq(DeskRow)
    /\ DeskAttempts
    /\ deskWorked = Desk!TotalActive

(* A task page all of which is read.                                       *)
DeskShown ==
    deskPage.kind = "task" =>
        /\ {"kind", "read", "time"} \subseteq DOMAIN deskPage
        /\ deskPage.read = "all" => deskPage.time \in Nat /\ deskPage.time <= deskWorked

DeskInv == DeskWork /\ DeskShown

LEMMA SpansAreNumbers ==
  ASSUME deskClock \in Nat, NEW s \in DeskRow, Timed(s, deskClock)
  PROVE  /\ Desk!SpanOf(s) \in Nat
         /\ s.status # "running" =>
              Desk!SpanOf(s) = IF s.started = 0 THEN 0 ELSE s.completed - s.started
<1>1. s.started \in Nat /\ s.completed \in Nat
  BY DEF DeskRow
<1>2. s.status \in {"prepared", "running"} \cup Desk!Results
  BY DEF DeskRow, Desk!LiveStatuses
<1> QED
  BY <1>1, <1>2 DEF Timed, Desk!SpanOf

LEMMA TimesAre ==
  ASSUME NEW s \in Seq(DeskRow), NEW t, t = [i \in DOMAIN s |-> t[i]]
  PROVE  Len(s) \in Nat /\ DOMAIN s = 1 .. Len(s) /\ Len(t) = Len(s)
<1>1. PICK n \in Nat : n = Len(s) /\ DOMAIN s = 1 .. n
  OBVIOUS
<1>2. t = [i \in 1 .. n |-> t[i]]
  BY <1>1
<1>3. Len(t) = n
  BY <1>2, LengthIs
<1> QED
  BY <1>1, <1>3

(* Attempts written, none added, that take as long as they did.            *)
LEMMA AttemptsWritten ==
  ASSUME DeskWork, deskSessions' \in Seq(DeskRow),
         DOMAIN deskSessions' = DOMAIN deskSessions,
         deskClock' = deskClock, deskWorked' = deskWorked, deskLink' = deskLink,
         deskRecent' \in Repositories, deskAsked' \in BOOLEAN,
         \A i \in DOMAIN deskSessions :
            /\ Timed(deskSessions'[i], deskClock)
            /\ deskSessions[i].status \in Desk!Results =>
                  deskSessions'[i].status \in Desk!Results
            /\ Desk!SpanOf(deskSessions'[i]) = Desk!SpanOf(deskSessions[i])
  PROVE  DeskWork'
<1>1. PICK t : t = DeskTimes
  OBVIOUS
<1>2. PICK u : u = DeskTimes'
  OBVIOUS
<1>3. t = [i \in DOMAIN deskSessions |-> t[i]] /\ u = [i \in DOMAIN deskSessions' |-> u[i]]
  BY <1>1, <1>2 DEF DeskTimes
<1>4. /\ Len(deskSessions) \in Nat /\ DOMAIN deskSessions = 1 .. Len(deskSessions)
      /\ Len(t) = Len(deskSessions)
  BY <1>3, TimesAre DEF DeskWork
<1>5. Len(deskSessions') = Len(deskSessions) /\ Len(u) = Len(t)
  <2>1. PICK new \in Seq(DeskRow) : new = deskSessions'
    OBVIOUS
  <2>2. Len(new) \in Nat /\ DOMAIN new = 1 .. Len(new) /\ Len(u) = Len(new)
    BY <1>3, <2>1, TimesAre
  <2> QED
    BY <1>4, <2>1, <2>2
<1>6. \A i \in 1 .. Len(t) : t[i] = u[i]
  <2>1. ASSUME NEW i \in DOMAIN deskSessions
        PROVE  t[i] = u[i]
    <3>1. t[i] = Desk!SpanOf(deskSessions[i])
      BY <1>1 DEF DeskTimes
    <3>2. u[i] = Desk!SpanOf(deskSessions'[i])
      BY <1>2 DEF DeskTimes, Desk!SpanOf
    <3> QED
      BY <3>1, <3>2
  <2> QED
    BY <1>4, <2>1
<1>7. Desk!SumOf(t) = Desk!SumOf(u)
  BY <1>4, <1>5, <1>6, SameSum
<1>8. deskWorked' = Desk!TotalActive'
  <2>1. Desk!TotalActive = Desk!SumOf(t) /\ Desk!TotalActive' = Desk!SumOf(u)
    BY <1>1, <1>2 DEF Desk!TotalActive, DeskTimes
  <2> QED
    BY <1>7, <2>1 DEF DeskWork
<1>9. DeskAttempts'
  BY <1>5 DEF DeskWork, DeskAttempts
<1> QED
  BY <1>8, <1>9 DEF DeskWork

(* Nothing is done on an attempt.                                          *)
LEMMA AttemptsStay ==
  ASSUME DeskWork,
         UNCHANGED <<deskLink, deskClock, deskSessions, deskWorked>>,
         deskRecent' \in Repositories, deskAsked' \in BOOLEAN
  PROVE  DeskWork'
<1>1. \A i \in DOMAIN deskSessions : Timed(deskSessions'[i], deskClock)
  BY DEF DeskWork, DeskAttempts
<1> QED
  BY <1>1, AttemptsWritten DEF DeskWork

LEMMA RunsInRepository ==
  ASSUME DeskWork
  PROVE  Desk!TaskRepository \in Repositories
  BY DEF DeskWork, Desk!TaskRepository

LEMMA DeskRowAdded ==
  ASSUME DeskWork,
         NEW row, row = [status |-> "prepared", repository |-> Desk!TaskRepository,
                         started |-> 0, completed |-> 0, pr |-> Nowhere, merged |-> FALSE,
                         brief |-> Desk!ImplementationBrief(Desk!TaskRepository)]
  PROVE  row \in DeskRow /\ Timed(row, deskClock) /\ Desk!SpanOf(row) = 0
<1>1. PICK r \in Repositories : r = Desk!TaskRepository
  BY RunsInRepository
<1>2. Desk!RepositorySection(r) \in DeskSections
  <2>1. Desk!RepositoryWarnings(r) \in SUBSET {"no repository", "not analysed"}
    BY DEF Desk!RepositoryWarnings
  <2> QED
    BY <2>1 DEF Desk!RepositorySection, DeskSections
<1>3. Desk!PriorPullRequest \in Repositories \cup {Nowhere}
  <2>1. CASE deskAsked /\ deskSessions # <<>>
    <3>1. Len(deskSessions) \in DOMAIN deskSessions
      BY <2>1 DEF DeskWork
    <3>2. deskSessions[Len(deskSessions)].pr \in Repositories \cup {Nowhere}
      <4>1. deskSessions[Len(deskSessions)] \in DeskRow
        BY <3>1 DEF DeskWork
      <4> QED
        BY <4>1 DEF DeskRow
    <3> QED
      BY <2>1, <3>2 DEF Desk!PriorPullRequest, Desk!Latest
  <2>2. CASE ~(deskAsked /\ deskSessions # <<>>)
    BY <2>2 DEF Desk!PriorPullRequest
  <2> QED
    BY <2>1, <2>2
<1>4. Desk!AcceptanceCriteria \in {"criteria of the plan", "description", "none specified"}
  BY DEF Desk!AcceptanceCriteria
<1>5. Desk!ImplementationBrief(r) \in DeskBriefs
  BY <1>2, <1>3, <1>4 DEF Desk!ImplementationBrief, DeskBriefs, DeskWork
<1>6. row \in DeskRow
  BY <1>1, <1>5 DEF DeskRow, Desk!LiveStatuses
<1>7. Timed(row, deskClock) /\ Desk!SpanOf(row) = 0
  BY DEF Timed, Desk!Results, Desk!SpanOf
<1> QED
  BY <1>6, <1>7

(* A new attempt, when none is live.                                       *)
LEMMA AttemptAdded ==
  ASSUME DeskWork, Desk!LiveSessions = {}, Desk!CreateSession(Desk!TaskRepository),
         UNCHANGED <<deskLink, deskRecent, deskClock, deskWorked, deskAsked>>
  PROVE  DeskWork'
<1>1. PICK row : row = [status |-> "prepared", repository |-> Desk!TaskRepository,
                        started |-> 0, completed |-> 0, pr |-> Nowhere, merged |-> FALSE,
                        brief |-> Desk!ImplementationBrief(Desk!TaskRepository)]
  OBVIOUS
<1>2. row \in DeskRow /\ Timed(row, deskClock) /\ Desk!SpanOf(row) = 0
  BY <1>1, DeskRowAdded
<1>3. deskSessions' = Append(deskSessions, row)
  BY <1>1 DEF Desk!CreateSession
<1>4. PICK new \in Seq(DeskRow) : new = deskSessions'
  BY <1>2, <1>3 DEF DeskWork
<1>5. PICK n \in Nat : n = Len(deskSessions) /\ DOMAIN deskSessions = 1 .. n
  BY DEF DeskWork
<1>6. /\ Len(new) = n + 1 /\ DOMAIN new = 1 .. (n + 1) /\ new[n + 1] = row
      /\ \A i \in 1 .. n : new[i] = deskSessions[i]
  BY <1>2, <1>3, <1>4, <1>5 DEF DeskWork
<1>7. PICK t : t = DeskTimes
  OBVIOUS
<1>8. PICK u : u = DeskTimes'
  OBVIOUS
<1>9. t = [i \in DOMAIN deskSessions |-> t[i]] /\ u = [i \in DOMAIN new |-> u[i]]
  BY <1>4, <1>7, <1>8 DEF DeskTimes
<1>10. Len(t) = n /\ Len(u) = n + 1
  BY <1>4, <1>5, <1>6, <1>9, TimesAre DEF DeskWork
<1>11. \A i \in 1 .. (n + 1) : u[i] = Desk!SpanOf(new[i])
  BY <1>4, <1>6, <1>8 DEF DeskTimes, Desk!SpanOf
<1>12. \A i \in 1 .. n : t[i] = u[i]
  <2>1. ASSUME NEW i \in 1 .. n
        PROVE  t[i] = u[i]
    <3>1. t[i] = Desk!SpanOf(deskSessions[i])
      BY <1>5, <1>7 DEF DeskTimes
    <3>2. i \in 1 .. (n + 1)
      OBVIOUS
    <3> QED
      BY <1>6, <1>11, <3>1, <3>2
  <2> QED
    BY <2>1
<1>13. u[n + 1] = 0
  BY <1>2, <1>6, <1>11
<1>14. Desk!SumOf(u) = Desk!SumOf(t) + 0
  BY <1>10, <1>12, <1>13, SumOfOneMore
<1>15. Desk!SumOf(t) \in Nat
  <2>1. \A i \in 1 .. n : t[i] \in Nat
    <3>1. ASSUME NEW i \in 1 .. n
          PROVE  t[i] \in Nat
      <4>1. t[i] = Desk!SpanOf(deskSessions[i]) /\ deskSessions[i] \in DeskRow
        BY <1>5, <1>7 DEF DeskTimes, DeskWork
      <4>2. Timed(deskSessions[i], deskClock) /\ deskClock \in Nat
        BY <1>5 DEF DeskWork, DeskAttempts
      <4> QED
        BY <4>1, <4>2, SpansAreNumbers
    <3> QED
      BY <3>1
  <2> QED
    BY <1>10, <2>1, SumIsNumber
<1>16. deskWorked' = Desk!TotalActive'
  <2>1. Desk!TotalActive = Desk!SumOf(t) /\ Desk!TotalActive' = Desk!SumOf(u)
    BY <1>7, <1>8 DEF Desk!TotalActive, DeskTimes
  <2> QED
    BY <1>14, <1>15, <2>1 DEF DeskWork
<1>17. DeskAttempts'
  <2>1. ASSUME NEW i \in 1 .. n
        PROVE  /\ Timed(new[i], deskClock) /\ new[i].status \in Desk!Results
    <3>1. deskSessions[i].status \in Desk!Results
      <4>1. deskSessions[i] \in DeskRow
        BY <1>5 DEF DeskWork
      <4>2. deskSessions[i].status \notin Desk!LiveStatuses
        BY <1>5 DEF Desk!LiveSessions
      <4> QED
        BY <4>1, <4>2 DEF DeskRow
    <3> QED
      BY <1>5, <1>6, <3>1 DEF DeskWork, DeskAttempts
  <2>2. \A i \in 1 .. (n + 1) : i = n + 1 \/ i \in 1 .. n
    OBVIOUS
  <2>3. \A i \in DOMAIN new :
           /\ Timed(new[i], deskClock)
           /\ i # Len(new) => new[i].status \in Desk!Results
    BY <1>2, <1>6, <2>1, <2>2
  <2> QED
    BY <1>4, <2>3 DEF DeskAttempts
<1> QED
  BY <1>4, <1>16, <1>17 DEF DeskWork

(* One attempt is written.                                                 *)
LEMMA AttemptWritten ==
  ASSUME DeskWork, NEW k \in DOMAIN deskSessions, NEW row \in DeskRow,
         deskSessions' = [deskSessions EXCEPT ![k] = row],
         UNCHANGED <<deskLink, deskRecent, deskClock, deskWorked, deskAsked>>,
         Timed(row, deskClock),
         deskSessions[k].status \in Desk!Results => row.status \in Desk!Results,
         Desk!SpanOf(row) = Desk!SpanOf(deskSessions[k])
  PROVE  DeskWork'
<1>1. deskSessions \in Seq(DeskRow)
  BY DEF DeskWork
<1>2. deskSessions' \in Seq(DeskRow) /\ DOMAIN deskSessions' = DOMAIN deskSessions
  BY <1>1
<1>3. ASSUME NEW i \in DOMAIN deskSessions
      PROVE  /\ Timed(deskSessions'[i], deskClock)
             /\ deskSessions[i].status \in Desk!Results =>
                   deskSessions'[i].status \in Desk!Results
             /\ Desk!SpanOf(deskSessions'[i]) = Desk!SpanOf(deskSessions[i])
  <2>1. CASE i = k
    <3>1. deskSessions'[i] = row
      BY <1>1, <2>1
    <3> QED
      BY <2>1, <3>1
  <2>2. CASE i # k
    <3>1. deskSessions'[i] = deskSessions[i]
      BY <1>1, <2>2
    <3>2. Timed(deskSessions[i], deskClock)
      BY DEF DeskWork, DeskAttempts
    <3> QED
      BY <3>1, <3>2
  <2> QED
    BY <2>1, <2>2
<1>4. deskRecent' \in Repositories /\ deskAsked' \in BOOLEAN
  BY DEF DeskWork
<1> QED
  BY <1>2, <1>3, <1>4, AttemptsWritten

(* A live attempt gets a result.                                           *)
LEMMA AttemptEnds ==
  ASSUME DeskWork, NEW k \in DOMAIN deskSessions, NEW result \in Desk!Results,
         NEW opened \in BOOLEAN, deskSessions[k].status \in Desk!LiveStatuses,
         Desk!EndSession(k, result, opened),
         UNCHANGED <<deskLink, deskRecent, deskClock, deskWorked, deskAsked>>
  PROVE  DeskWork'
<1>1. PICK old \in DeskRow : old = deskSessions[k]
  BY DEF DeskWork
<1>2. Timed(old, deskClock) /\ deskClock \in Nat \ {0}
  BY <1>1 DEF DeskWork, DeskAttempts
<1>3. PICK row : row = [old EXCEPT
                          !.status = result,
                          !.started = IF old.status = "prepared" THEN deskClock ELSE @,
                          !.completed = deskClock,
                          !.pr = IF opened THEN old.repository ELSE @]
  OBVIOUS
<1>4. deskSessions' = [deskSessions EXCEPT ![k] = row]
  BY <1>1, <1>3 DEF Desk!EndSession
<1>5. row \in DeskRow
  BY <1>2, <1>3 DEF DeskRow
<1>6. /\ row.status = result /\ row.completed = deskClock
      /\ row.started = IF old.status = "prepared" THEN deskClock ELSE old.started
  BY <1>3 DEF DeskRow
<1>7. old.started \in Nat /\ old.status \in {"prepared", "running"}
  BY <1>1 DEF DeskRow, Desk!LiveStatuses
<1>8. Timed(row, deskClock)
  BY <1>2, <1>6, <1>7 DEF Timed, Desk!Results
<1>9. Desk!SpanOf(row) = Desk!SpanOf(old)
  BY <1>2, <1>6, <1>7 DEF Timed, Desk!Results, Desk!SpanOf
<1> QED
  BY <1>1, <1>4, <1>5, <1>6, <1>8, <1>9, AttemptWritten

LEMMA AttemptStarts ==
  ASSUME DeskWork, Desk!Start
  PROVE  DeskWork'
<1>1. PICK k \in DOMAIN deskSessions :
         /\ deskSessions[k].status = "prepared"
         /\ deskSessions' = [deskSessions EXCEPT ![k].status = "running",
                                                 ![k].started = deskClock]
  BY DEF Desk!Start
<1>2. PICK old \in DeskRow : old = deskSessions[k]
  BY DEF DeskWork
<1>3. Timed(old, deskClock) /\ deskClock \in Nat \ {0}
  BY <1>2 DEF DeskWork, DeskAttempts
<1>4. PICK row : row = [old EXCEPT !.status = "running", !.started = deskClock]
  OBVIOUS
<1>5. deskSessions' = [deskSessions EXCEPT ![k] = row]
  BY <1>1, <1>2, <1>4
<1>6. row \in DeskRow
  BY <1>3, <1>4 DEF DeskRow, Desk!LiveStatuses
<1>7. row.status = "running" /\ row.started = deskClock
  BY <1>4 DEF DeskRow
<1>8. Timed(row, deskClock)
  BY <1>3, <1>7 DEF Timed, Desk!Results
<1>9. Desk!SpanOf(row) = Desk!SpanOf(old)
  BY <1>1, <1>2, <1>3, <1>7 DEF Timed, Desk!SpanOf
<1>10. old.status \notin Desk!Results
  BY <1>1, <1>2 DEF Desk!Results
<1> QED
  BY <1>2, <1>5, <1>6, <1>7, <1>8, <1>9, <1>10, AttemptWritten DEF Desk!Start

LEMMA AttemptMerged ==
  ASSUME DeskWork, Desk!SeeMerged
  PROVE  DeskWork'
<1>1. PICK k \in DOMAIN deskSessions :
         deskSessions' = [deskSessions EXCEPT ![k].merged = TRUE]
  BY DEF Desk!SeeMerged
<1>2. PICK old \in DeskRow : old = deskSessions[k]
  BY DEF DeskWork
<1>3. PICK row : row = [old EXCEPT !.merged = TRUE]
  OBVIOUS
<1>4. deskSessions' = [deskSessions EXCEPT ![k] = row]
  BY <1>1, <1>2, <1>3
<1>5. row \in DeskRow
  BY <1>3 DEF DeskRow
<1>6. /\ row.status = old.status /\ row.started = old.started
      /\ row.completed = old.completed
  BY <1>3 DEF DeskRow
<1>7. Timed(old, deskClock)
  BY <1>2 DEF DeskWork, DeskAttempts
<1>8. Timed(row, deskClock) /\ Desk!SpanOf(row) = Desk!SpanOf(old)
  BY <1>6, <1>7 DEF Timed, Desk!SpanOf
<1> QED
  BY <1>2, <1>4, <1>5, <1>6, <1>8, AttemptWritten DEF Desk!SeeMerged

LEMMA DeskCounts == \A S : Desk!Cardinality(S) = Cardinality(S)
  BY DEF Desk!Cardinality, Desk!IsFiniteSet, Cardinality, IsFiniteSet

(* The time attempts take, at the present moment and one later: only that  *)
(* of a running attempt has grown.                                         *)
LEMMA TimesGrow ==
  ASSUME DeskWork, deskClock' = deskClock + 1, UNCHANGED deskSessions,
         NEW i \in DOMAIN deskSessions
  PROVE  /\ DeskTimes[i] \in Nat
         /\ DeskTimes'[i] = IF deskSessions[i].status = "running"
                            THEN DeskTimes[i] + 1 ELSE DeskTimes[i]
         /\ Timed(deskSessions[i], deskClock')
<1>1. PICK s \in DeskRow : s = deskSessions[i]
  BY DEF DeskWork
<1>2. Timed(s, deskClock) /\ deskClock \in Nat \ {0}
  BY <1>1 DEF DeskWork, DeskAttempts
<1>3. s.started \in Nat /\ s.completed \in Nat
  BY DEF DeskRow
<1>4. DeskTimes[i] = Desk!SpanOf(s)
  BY <1>1 DEF DeskTimes
<1>5. DeskTimes'[i] = IF s.started = 0 THEN 0
                      ELSE IF s.status = "running" THEN deskClock' - s.started
                      ELSE s.completed - s.started
  BY <1>1 DEF DeskTimes, Desk!SpanOf
<1>6. Desk!SpanOf(s) \in Nat
  BY <1>2, SpansAreNumbers
<1>7. CASE s.status = "running"
  <2>1. s.started # 0 /\ s.started <= deskClock
    BY <1>2, <1>7 DEF Timed
  <2>2. DeskTimes[i] = deskClock - s.started
    BY <1>4, <1>7, <2>1 DEF Desk!SpanOf
  <2>3. DeskTimes'[i] = (deskClock + 1) - s.started
    BY <1>5, <1>7, <2>1
  <2>4. Timed(s, deskClock')
    BY <1>2, <1>3, <1>7 DEF Timed
  <2> QED
    BY <1>1, <1>2, <1>3, <1>4, <1>6, <1>7, <2>2, <2>3, <2>4
<1>8. CASE s.status # "running"
  <2>1. DeskTimes'[i] = DeskTimes[i]
    BY <1>4, <1>5, <1>8 DEF Desk!SpanOf
  <2>2. Timed(s, deskClock')
    BY <1>2, <1>8 DEF Timed
  <2> QED
    BY <1>1, <1>4, <1>6, <1>8, <2>1, <2>2
<1> QED
  BY <1>7, <1>8

(* What is running is the last attempt, if any.                            *)
LEMMA LastRuns ==
  ASSUME DeskWork, NEW i \in DOMAIN deskSessions, deskSessions[i].status = "running"
  PROVE  i = Len(deskSessions)
  BY DEF DeskWork, DeskAttempts, Desk!Results

LEMMA AttemptsTick ==
  ASSUME DeskWork, Desk!Tick
  PROVE  DeskWork'
<1> DEFINE running == {i \in DOMAIN deskSessions : deskSessions[i].status = "running"}
<1>1. /\ deskClock' = deskClock + 1
      /\ deskWorked' = deskWorked + Cardinality(running)
      /\ deskRecent' \in Repositories
      /\ UNCHANGED <<deskLink, deskAsked, deskSessions>>
  BY DeskCounts DEF Desk!Tick
<1>2. PICK n \in Nat : n = Len(deskSessions) /\ DOMAIN deskSessions = 1 .. n
  BY DEF DeskWork
<1>3. PICK t : t = DeskTimes
  OBVIOUS
<1>4. PICK u : u = DeskTimes'
  OBVIOUS
<1>5. Len(t) = n /\ Len(u) = n
  <2>1. t = [i \in DOMAIN deskSessions |-> t[i]] /\ u = [i \in DOMAIN deskSessions |-> u[i]]
    BY <1>1, <1>3, <1>4 DEF DeskTimes
  <2> QED
    BY <1>2, <2>1, TimesAre DEF DeskWork
<1>6. \A i \in 1 .. n :
         /\ t[i] \in Nat
         /\ u[i] = IF deskSessions[i].status = "running" THEN t[i] + 1 ELSE t[i]
         /\ Timed(deskSessions[i], deskClock')
  BY <1>1, <1>2, <1>3, <1>4, TimesGrow
<1>7. Desk!TotalActive = Desk!SumOf(t) /\ Desk!TotalActive' = Desk!SumOf(u)
  BY <1>3, <1>4 DEF Desk!TotalActive, DeskTimes
<1>8. Desk!SumOf(t) \in Nat
  BY <1>5, <1>6, SumIsNumber
<1>9. deskWorked' = Desk!TotalActive'
  <2>1. CASE running = {}
    <3>1. Cardinality(running) = 0
      BY <2>1, FS_EmptySet
    <3>2. \A i \in 1 .. n : t[i] = u[i]
      BY <1>2, <1>6, <2>1
    <3>3. Desk!SumOf(t) = Desk!SumOf(u)
      BY <1>5, <3>2, SameSum
    <3> QED
      BY <1>1, <1>7, <1>8, <3>1, <3>3 DEF DeskWork
  <2>2. CASE running # {}
    <3>1. running = {n}
      BY <1>2, <2>2, LastRuns
    <3>2. Cardinality(running) = 1
      BY <3>1, FS_Singleton
    <3>3. n \in 1 .. n /\ n # 0 /\ deskSessions[n].status = "running"
      BY <1>2, <3>1
    <3>4. \A i \in 1 .. n : i # n => deskSessions[i].status # "running"
      BY <1>2, <3>1
    <3>5. u[n] = t[n] + 1 /\ t[n] \in Nat
      BY <1>6, <3>3
    <3>6. \A i \in 1 .. n : t[i] \in Nat /\ u[i] \in Nat
      BY <1>6
    <3>7. \A i \in 1 .. n : i # n => t[i] = u[i]
      BY <1>6, <3>4
    <3>8. Desk!SumOf(u) \in Nat /\ Desk!SumOf(t) + u[n] = Desk!SumOf(u) + t[n]
      BY <1>5, <3>3, <3>6, <3>7, SumsDiffer
    <3>9. Desk!SumOf(u) = Desk!SumOf(t) + 1
      BY <1>8, <3>5, <3>8
    <3> QED
      BY <1>1, <1>7, <3>2, <3>9 DEF DeskWork
  <2> QED
    BY <2>1, <2>2
<1>10. DeskAttempts'
  BY <1>1, <1>2, <1>6 DEF DeskWork, DeskAttempts
<1> QED
  BY <1>1, <1>9, <1>10 DEF DeskWork

LEMMA AskedStays ==
  ASSUME deskAsked \in BOOLEAN
  PROVE  /\ \A caller : Desk!RecordReview(caller) => deskAsked' \in BOOLEAN
         /\ \A i, verdict, found : Desk!RecordQa(i, verdict, found) => deskAsked' \in BOOLEAN
  BY DEF Desk!RecordReview, Desk!RecordQa

LEMMA DeskWorks ==
  ASSUME DeskWork, Desk!Next
  PROVE  DeskWork'
<1>1. deskRecent \in Repositories /\ deskAsked \in BOOLEAN
  BY DEF DeskWork
<1>2. CASE Desk!Prepare
  BY <1>2, AttemptAdded DEF Desk!Prepare
<1>3. CASE Desk!Finish
  <2>1. PICK k \in DOMAIN deskSessions, completed \in BOOLEAN :
           /\ deskSessions[k].status = "running"
           /\ Desk!EndSession(k, IF completed THEN "completed" ELSE "failed", completed)
    BY <1>3 DEF Desk!Finish
  <2>2. PICK result \in Desk!Results : result = IF completed THEN "completed" ELSE "failed"
    BY DEF Desk!Results
  <2>3. Desk!EndSession(k, result, completed) /\ deskSessions[k].status \in Desk!LiveStatuses
    BY <2>1, <2>2 DEF Desk!LiveStatuses
  <2> QED
    BY <1>3, <2>3, AttemptEnds DEF Desk!Finish
<1>4. CASE Desk!GenerateBrief
  <2>1. CASE Desk!LiveSessions # {}
    BY <1>1, <1>4, <2>1, AttemptsStay DEF Desk!GenerateBrief
  <2>2. CASE Desk!LiveSessions = {}
    BY <1>4, <2>2, AttemptAdded DEF Desk!GenerateBrief
  <2> QED
    BY <2>1, <2>2
<1>5. CASE Desk!RecordResult
  <2>1. CASE deskPage.form \in Desk!LiveSessions
    <3>1. PICK k : k = deskPage.form
      OBVIOUS
    <3>2. k \in DOMAIN deskSessions /\ deskSessions[k].status \in Desk!LiveStatuses
      BY <2>1, <3>1 DEF Desk!LiveSessions
    <3>3. PICK result \in Desk!Results, opened \in BOOLEAN : Desk!EndSession(k, result, opened)
      BY <1>5, <2>1, <3>1 DEF Desk!RecordResult
    <3> QED
      BY <1>5, <3>2, <3>3, AttemptEnds DEF Desk!RecordResult
  <2>2. CASE deskPage.form \notin Desk!LiveSessions
    <3>1. deskSessions' = deskSessions
      BY <1>5, <2>2 DEF Desk!RecordResult
    <3> QED
      BY <1>1, <1>5, <3>1, AttemptsStay DEF Desk!RecordResult
  <2> QED
    BY <2>1, <2>2
<1>6. CASE Desk!OpenReview \/ Desk!Approve \/ Desk!BreakOff \/ Desk!SubmitReview
  BY <1>1, <1>6, AttemptsStay
     DEF Desk!OpenReview, Desk!Approve, Desk!BreakOff, Desk!SubmitReview
<1>7. CASE Desk!GoOn \/ Desk!GateQa \/ Desk!SubmitQa
  <2>1. deskAsked' \in BOOLEAN
    BY <1>1, <1>7, AskedStays DEF Desk!GoOn, Desk!GateQa, Desk!SubmitQa
  <2> QED
    BY <1>1, <1>7, <2>1, AttemptsStay DEF Desk!GoOn, Desk!GateQa, Desk!SubmitQa
<1>8. CASE \/ Desk!OpenTask \/ Desk!ReadSessions \/ Desk!ReadQuality \/ Desk!ReadTimes
           \/ Desk!OpenReviewPage \/ Desk!OpenQaPage \/ Desk!LeavePage \/ Desk!ChooseStatus
  BY <1>1, <1>8, AttemptsStay
     DEF Desk!OpenTask, Desk!ReadSessions, Desk!ReadQuality, Desk!ReadTimes, Desk!Reads,
         Desk!OpenReviewPage, Desk!OpenQaPage, Desk!Opens, Desk!LeavePage, Desk!ChooseStatus
<1> QED
  BY <1>2, <1>3, <1>4, <1>5, <1>6, <1>7, <1>8, AttemptsTick, AttemptStarts, AttemptMerged
     DEF Desk!Next, Desk!World, Desk!Desk

(* The time worked is a number, and only the clock adds to it.             *)
LEMMA WorkedIsNumber ==
  ASSUME DeskWork
  PROVE  deskWorked \in Nat
<1>1. PICK n \in Nat : n = Len(deskSessions) /\ DOMAIN deskSessions = 1 .. n
  BY DEF DeskWork
<1>2. PICK t : t = DeskTimes
  OBVIOUS
<1>3. t = [i \in DOMAIN deskSessions |-> t[i]]
  BY <1>2 DEF DeskTimes
<1>4. Len(t) = n
  BY <1>1, <1>3, TimesAre DEF DeskWork
<1>5. ASSUME NEW i \in 1 .. n
      PROVE  t[i] \in Nat
  <2>1. t[i] = Desk!SpanOf(deskSessions[i]) /\ deskSessions[i] \in DeskRow
    BY <1>1, <1>2 DEF DeskTimes, DeskWork
  <2>2. Timed(deskSessions[i], deskClock) /\ deskClock \in Nat
    BY <1>1 DEF DeskWork, DeskAttempts
  <2> QED
    BY <2>1, <2>2, SpansAreNumbers
<1>6. Desk!SumOf(t) \in Nat
  BY <1>4, <1>5, SumIsNumber
<1>7. deskWorked = Desk!SumOf(t)
  BY <1>2 DEF DeskWork, Desk!TotalActive, DeskTimes
<1> QED
  BY <1>6, <1>7

LEMMA WorkedGrows ==
  ASSUME DeskWork, Desk!Next
  PROVE  deskWorked \in Nat /\ deskWorked' \in Nat /\ deskWorked <= deskWorked'
<1>1. deskWorked \in Nat
  BY WorkedIsNumber
<1>2. CASE Desk!Tick
  <2> DEFINE running == {i \in DOMAIN deskSessions : deskSessions[i].status = "running"}
  <2>1. deskWorked' = deskWorked + Cardinality(running)
    BY <1>2, DeskCounts DEF Desk!Tick
  <2>2. IsFiniteSet(running)
    <3>1. PICK n \in Nat : DOMAIN deskSessions = 1 .. n
      BY DEF DeskWork
    <3>2. IsFiniteSet(1 .. n) /\ running \subseteq 1 .. n
      BY <3>1, FS_Interval
    <3> QED
      BY <3>2, FS_Subset
  <2>3. Cardinality(running) \in Nat
    BY <2>2, FS_CardinalityType
  <2> QED
    BY <1>1, <2>1, <2>3
<1>3. CASE ~Desk!Tick
  <2>1. deskWorked' = deskWorked
    BY <1>3 DEF Desk!Next, Desk!World, Desk!Desk, Desk!Prepare, Desk!Start,
         Desk!Finish, Desk!SeeMerged, Desk!OpenReview, Desk!Approve, Desk!GoOn,
         Desk!BreakOff, Desk!GateQa, Desk!OpenTask, Desk!ReadSessions, Desk!ReadQuality,
         Desk!ReadTimes, Desk!Reads, Desk!OpenReviewPage, Desk!OpenQaPage, Desk!Opens,
         Desk!LeavePage, Desk!ChooseStatus, Desk!GenerateBrief, Desk!RecordResult,
         Desk!SubmitReview, Desk!SubmitQa
  <2> QED
    BY <1>1, <2>1
<1> QED
  BY <1>2, <1>3

(* The live clock shows the time worked: what is banked and what the one   *)
(* attempt that runs has taken is what all have taken.                     *)
LEMMA DeskShowsTime ==
  ASSUME DeskWork
  PROVE  Desk!TimeAdds
<1>1. Desk!TotalActive = deskWorked
  BY DEF DeskWork
<1> DEFINE running == {i \in DOMAIN deskSessions : deskSessions[i].status = "running"}
<1>2. CASE running = {}
  BY <1>1, <1>2 DEF Desk!TimeAdds, Desk!TimeShown, Desk!RunningSession
<1>3. CASE running # {}
  <2>1. PICK n \in Nat : n = Len(deskSessions) /\ DOMAIN deskSessions = 1 .. n
    BY DEF DeskWork
  <2>2. running = {n}
    BY <1>3, <2>1, LastRuns
  <2>3. n \in 1 .. n /\ n # 0 /\ deskSessions[n].status = "running"
    BY <2>1, <2>2
  <2>4. Desk!RunningSession = n
    <3>1. Desk!RunningSession = CHOOSE i \in running : \A j \in running : i <= j
      BY <1>3 DEF Desk!RunningSession
    <3> QED
      BY <2>2, <3>1
  <2>5. PICK t : t = DeskTimes
    OBVIOUS
  <2>6. PICK b : b = [i \in DOMAIN deskSessions |->
                        IF deskSessions[i].status = "running" THEN 0
                        ELSE Desk!SpanOf(deskSessions[i])]
    OBVIOUS
  <2>7. Len(t) = n /\ Len(b) = n
    <3>1. t = [i \in DOMAIN deskSessions |-> t[i]] /\ b = [i \in DOMAIN deskSessions |-> b[i]]
      BY <2>5, <2>6 DEF DeskTimes
    <3> QED
      BY <2>1, <3>1, TimesAre DEF DeskWork
  <2>8. ASSUME NEW i \in 1 .. n
        PROVE  t[i] = Desk!SpanOf(deskSessions[i]) /\ t[i] \in Nat
    <3>1. t[i] = Desk!SpanOf(deskSessions[i]) /\ deskSessions[i] \in DeskRow
      BY <2>1, <2>5 DEF DeskTimes, DeskWork
    <3>2. Timed(deskSessions[i], deskClock) /\ deskClock \in Nat
      BY <2>1 DEF DeskWork, DeskAttempts
    <3> QED
      BY <3>1, <3>2, SpansAreNumbers
  <2>9. \A i \in 1 .. n : b[i] = IF i = n THEN 0 ELSE t[i]
    BY <2>1, <2>2, <2>6, <2>8
  <2>10. b[n] = 0
    BY <2>3, <2>9
  <2>11. /\ Desk!SumOf(b) \in Nat /\ Desk!SumOf(t) \in Nat
         /\ Desk!SumOf(b) + t[n] = Desk!SumOf(t) + b[n]
    <3>1. \A i \in 1 .. n : b[i] \in Nat /\ t[i] \in Nat
      BY <2>8, <2>9
    <3>2. \A i \in 1 .. n : i # n => b[i] = t[i]
      BY <2>9
    <3> QED
      BY <2>3, <2>7, <3>1, <3>2, SumsDiffer
  <2>12. Desk!Banked = Desk!SumOf(b) /\ Desk!TotalActive = Desk!SumOf(t)
    BY <2>5, <2>6 DEF Desk!Banked, Desk!TotalActive, DeskTimes
  <2>13. Desk!TimeShown = Desk!Banked + Desk!SpanOf(deskSessions[n])
    BY <2>3, <2>4 DEF Desk!TimeShown
  <2>14. t[n] = Desk!SpanOf(deskSessions[n])
    BY <2>3, <2>8
  <2> QED
    BY <1>1, <2>10, <2>11, <2>12, <2>13, <2>14 DEF Desk!TimeAdds
<1> QED
  BY <1>2, <1>3

(* The pages.                                                              *)
LEMMA DeskPages ==
  ASSUME DeskInv, Desk!Next
  PROVE  DeskShown'
<1>1. deskWorked \in Nat /\ deskWorked' \in Nat /\ deskWorked <= deskWorked'
  BY WorkedGrows DEF DeskInv
<1>2. CASE UNCHANGED deskPage
  BY <1>1, <1>2 DEF DeskInv, DeskShown
<1>3. CASE Desk!ReadSessions \/ Desk!ReadQuality
  <2>1. /\ {"kind", "read", "time"} \subseteq DOMAIN deskPage
        /\ DOMAIN deskPage' = DOMAIN deskPage
    BY <1>3 DEF DeskInv, DeskShown, Desk!ReadSessions, Desk!ReadQuality, Desk!Reads
  <2>2. deskPage'.read \in {"sessions", "quality"}
    BY <1>3, <2>1 DEF Desk!ReadSessions, Desk!ReadQuality
  <2> QED
    BY <2>1, <2>2 DEF DeskShown
<1>4. CASE Desk!ReadTimes
  <2>1. {"kind", "read", "time"} \subseteq DOMAIN deskPage
    BY <1>4 DEF DeskInv, DeskShown, Desk!ReadTimes, Desk!Reads
  <2>2. DOMAIN deskPage' = DOMAIN deskPage /\ deskPage'.time = Desk!TimeShown
    BY <1>4, <2>1 DEF Desk!ReadTimes
  <2>3. deskPage'.time = deskWorked
    BY <2>2, DeskShowsTime DEF DeskInv, Desk!TimeAdds
  <2> QED
    BY <1>1, <2>1, <2>2, <2>3 DEF DeskShown
<1>5. CASE Desk!OpenTask
  BY <1>5 DEF Desk!OpenTask, DeskShown
<1>6. CASE Desk!OpenReviewPage \/ Desk!OpenQaPage
  BY <1>6 DEF Desk!OpenReviewPage, Desk!OpenQaPage, DeskShown
<1>7. CASE deskPage' = Desk!NoPage
  BY <1>7 DEF DeskShown, Desk!NoPage
<1> QED
  BY <1>2, <1>3, <1>4, <1>5, <1>6, <1>7
     DEF Desk!Next, Desk!World, Desk!Desk, Desk!Tick, Desk!Prepare, Desk!Start,
         Desk!Finish, Desk!SeeMerged, Desk!OpenReview, Desk!Approve, Desk!GoOn, Desk!BreakOff,
         Desk!GateQa, Desk!LeavePage, Desk!ChooseStatus, Desk!GenerateBrief,
         Desk!RecordResult, Desk!SubmitReview, Desk!SubmitQa

LEMMA DeskInit == Desk!Init => DeskInv
<1> SUFFICES ASSUME Desk!Init
             PROVE  DeskInv
  OBVIOUS
<1>1. deskSessions = <<>> /\ deskClock = 1 /\ deskWorked = 0
  BY DEF Desk!Init
<1>2. deskLink \in Repositories \cup {Nowhere} /\ deskRecent \in Repositories
  BY DEF Desk!Init
<1>3. Desk!TotalActive = 0
  <2>1. PICK t : t = DeskTimes
    OBVIOUS
  <2>2. deskSessions \in Seq(DeskRow) /\ Len(deskSessions) = 0
    BY <1>1
  <2>3. t = [i \in DOMAIN deskSessions |-> t[i]]
    BY <2>1 DEF DeskTimes
  <2>4. Len(t) = 0
    BY <2>2, <2>3, TimesAre
  <2>5. Desk!TotalActive = Desk!SumOf(t)
    BY <2>1 DEF Desk!TotalActive, DeskTimes
  <2> QED
    BY <2>4, <2>5, SumOfNone
<1>4. DeskWork
  <2>1. DOMAIN deskSessions = {} /\ deskSessions \in Seq(DeskRow)
    BY <1>1
  <2>2. DeskAttempts
    BY <2>1 DEF DeskAttempts
  <2>3. deskClock \in Nat \ {0} /\ deskAsked \in BOOLEAN
    <3>1. deskClock \in Nat \ {0}
      BY <1>1
    <3>2. deskAsked \in BOOLEAN
      BY Zenon DEF Desk!Init
    <3> QED
      BY <3>1, <3>2
  <2> QED
    BY <1>1, <1>2, <1>3, <2>1, <2>2, <2>3 DEF DeskWork
<1>5. DeskShown
  BY DEF Desk!Init, DeskShown, Desk!NoPage
<1> QED
  BY <1>4, <1>5 DEF DeskInv

(* However many attempts a task has, and however they are started and      *)
(* ended: the time on task is the time an attempt was running, whichever   *)
(* way the page adds it up, and no page shows more, however old it is      *)
(* (app/(app)/work/tasks/[id]/page.tsx, createExecutionSession).           *)
THEOREM DeskStaysTruthful == Spec => []DeskTruthful
<1> DEFINE I == part = "desk" => DeskInv
<1>1. Init => I
  BY DeskInit DEF Init
<1>2. I /\ [Next]_vars => I'
  <2>1. ASSUME I, part' = "desk", Next
        PROVE  DeskInv'
    <3>1. DeskInv /\ Desk!Next
      BY <2>1 DEF Next
    <3>2. DeskWork'
      BY <3>1, DeskWorks DEF DeskInv
    <3> QED
      BY <3>1, <3>2, DeskPages DEF DeskInv
  <2>2. ASSUME I, UNCHANGED vars
        PROVE  I'
    <3>1. part = "desk" => DeskInv'
      BY <2>2 DEF vars, deskVars, DeskInv, DeskWork, DeskAttempts, DeskShown,
                  Desk!TotalActive, Desk!SpanOf
    <3> QED
      BY <2>2, <3>1 DEF vars
  <2> QED
    BY <2>1, <2>2
<1>3. I => DeskTruthful
  <2>1. ASSUME DeskInv
        PROVE  Desk!TimeStands
    BY <2>1 DEF DeskInv, DeskShown, Desk!TimeStands
  <2> QED
    BY <2>1, DeskShowsTime DEF DeskInv, DeskTruthful, Desk!DeskTruthful
<1> HIDE DEF I
<1> QED
  BY <1>1, <1>2, <1>3, PTL DEF Spec
---------------------------------------------------------------------------
(* The home page.  Nothing is newer than the last step of anybody, the     *)
(* request has a task once its plan is applied, and work is in progress    *)
(* without a session only after a verdict that shows on its card.          *)

HomeRows ==
    /\ homeDay \in Nat /\ homeMoved \in Nat /\ homeMoved <= homeDay
    /\ homePlan \in Home!PlanStatuses
    /\ homeTask \in [status : Home!TaskStatuses, at : Nat]
    /\ homeSession \in [status : Home!SessionStatuses, at : Nat, evidence : BOOLEAN,
                        preparing : BOOLEAN]
    /\ homeTask.at <= homeMoved /\ homeSession.at <= homeMoved

HomeCourse ==
    /\ homePlan = "applied" <=> homeTask.status # "none"
    /\ homeTask.status = "none" => homeSession.status = "none"
    /\ homeTask.status = "in-progress" => homeReview = "changes_requested" \/ homeQa = "failed"

HomeInv == HomeRows /\ HomeCourse

(* The initial states.                                                     *)
LEMMA HomeInit == Home!Init => HomeInv
  BY DEF Home!Init, Home!NoSession, HomeInv, HomeRows, HomeCourse, Home!PlanStatuses,
         Home!TaskStatuses, Home!SessionStatuses

(* A row that is written stays one, and is no older than what was.         *)
HomeTaskIs(ts) ==
    /\ homeTask' \in [status : Home!TaskStatuses, at : Nat]
    /\ homeTask'.status = ts /\ homeTask'.at <= homeDay

HomeSessionIs(ss) ==
    /\ homeSession' \in [status : Home!SessionStatuses, at : Nat, evidence : BOOLEAN,
                         preparing : BOOLEAN]
    /\ homeSession'.status = ss /\ homeSession'.at <= homeDay

LEMMA HomeTaskStays ==
  ASSUME HomeRows, homeTask' = homeTask
  PROVE  HomeTaskIs(homeTask.status)
  BY DEF HomeRows, HomeTaskIs

LEMMA HomeTaskSet ==
  ASSUME HomeRows, NEW s \in Home!TaskStatuses, homeTask' = Home!Set(homeTask, s)
  PROVE  HomeTaskIs(s)
<1>1. homeTask \in [status : Home!TaskStatuses, at : Nat] /\ homeDay \in Nat
  BY DEF HomeRows
<1>2. homeTask' = [status |-> s, at |-> homeDay]
  BY <1>1 DEF Home!Set
<1> QED
  BY <1>1, <1>2 DEF HomeTaskIs

LEMMA HomeAges ==
  ASSUME HomeRows
  PROVE  /\ homeDay \in Nat /\ homeSession.at \in Nat /\ homeTask.at \in Nat
         /\ homeSession.at <= homeDay /\ homeTask.at <= homeDay
<1>1. homeSession.at \in Nat /\ homeTask.at \in Nat
  BY DEF HomeRows
<1>2. /\ homeDay \in Nat /\ homeMoved \in Nat /\ homeMoved <= homeDay
      /\ homeTask.at <= homeMoved /\ homeSession.at <= homeMoved
  BY DEF HomeRows
<1> QED
  BY <1>1, <1>2

LEMMA HomeSessionStays ==
  ASSUME HomeRows, homeSession' = homeSession
  PROVE  HomeSessionIs(homeSession.status)
  BY DEF HomeRows, HomeSessionIs

LEMMA HomeSessionSet ==
  ASSUME HomeRows, NEW s \in Home!SessionStatuses,
         \/ homeSession' = [homeSession EXCEPT !.status = s]
         \/ homeSession' = [homeSession EXCEPT !.status = s, !.preparing = FALSE]
         \/ \E e \in BOOLEAN : homeSession' = [homeSession EXCEPT !.status = s, !.evidence = e]
  PROVE  HomeSessionIs(s)
<1>1. homeSession \in [status : Home!SessionStatuses, at : Nat, evidence : BOOLEAN,
                       preparing : BOOLEAN]
      /\ homeSession.at <= homeDay
  BY HomeAges DEF HomeRows
<1>2. CASE homeSession' = [homeSession EXCEPT !.status = s]
  BY <1>1, <1>2 DEF HomeSessionIs
<1>3. CASE homeSession' = [homeSession EXCEPT !.status = s, !.preparing = FALSE]
  BY <1>1, <1>3 DEF HomeSessionIs
<1>4. ASSUME NEW e \in BOOLEAN, homeSession' = [homeSession EXCEPT !.status = s, !.evidence = e]
      PROVE  HomeSessionIs(s)
  BY <1>1, <1>4 DEF HomeSessionIs
<1> QED
  BY <1>2, <1>3, <1>4

(* What a step has to keep, of the plan, the task and the session.         *)
HomeFits(ts, ss) ==
    /\ homePlan' \in Home!PlanStatuses
    /\ homePlan' = "applied" <=> ts # "none"
    /\ ts = "none" => ss = "none"
    /\ ts = "in-progress" => homeReview' = "changes_requested" \/ homeQa' = "failed"

LEMMA HomeKept ==
  ASSUME HomeInv, homeMoved' = homeDay, homeDay' = homeDay, NEW ts, NEW ss,
         HomeTaskIs(ts), HomeSessionIs(ss), HomeFits(ts, ss)
  PROVE  HomeInv'
  BY DEF HomeInv, HomeRows, HomeCourse, HomeTaskIs, HomeSessionIs, HomeFits

(* What holds of the rows before any step.                                 *)
LEMMA HomeIs ==
  ASSUME HomeInv
  PROVE  /\ HomeRows /\ homePlan \in Home!PlanStatuses
         /\ homeTask.status \in Home!TaskStatuses
         /\ homeSession.status \in Home!SessionStatuses
         /\ homePlan = "applied" <=> homeTask.status # "none"
         /\ homeTask.status = "none" => homeSession.status = "none"
         /\ homeTask.status = "in-progress" =>
               homeReview = "changes_requested" \/ homeQa = "failed"
  BY DEF HomeInv, HomeRows, HomeCourse

(* A step that writes neither task nor session, and no verdict.            *)
LEMMA HomeUntouched ==
  ASSUME HomeInv, homeMoved' = homeDay, homeDay' = homeDay,
         homeTask' = homeTask, homeSession' = homeSession, homePlan' = homePlan,
         homeTask.status = "in-progress" => UNCHANGED <<homeReview, homeQa>>
  PROVE  HomeInv'
  BY HomeIs, HomeKept, HomeTaskStays, HomeSessionStays DEF HomeFits

(* A step that writes the task's status alone, and maybe a verdict.        *)
LEMMA HomeTaskMoves ==
  ASSUME HomeInv, homeMoved' = homeDay, homeDay' = homeDay,
         NEW s \in Home!TaskStatuses \ {"none"}, homeTask' = Home!Set(homeTask, s),
         homeSession' = homeSession, homePlan' = "applied",
         s = "in-progress" => homeReview' = "changes_requested" \/ homeQa' = "failed"
  PROVE  HomeInv'
<1>1. HomeTaskIs(s) /\ HomeSessionIs(homeSession.status)
  BY HomeIs, HomeTaskSet, HomeSessionStays
<1>2. HomeFits(s, homeSession.status)
  BY DEF HomeFits, Home!PlanStatuses
<1> QED
  BY <1>1, <1>2, HomeKept

(* A step that writes the session's status, and maybe the task's.          *)
LEMMA HomeSessionMoves ==
  ASSUME HomeInv, homeMoved' = homeDay, homeDay' = homeDay,
         NEW s \in Home!SessionStatuses, HomeSessionIs(s),
         homeSession.status # "none", UNCHANGED <<homePlan, homeReview, homeQa>>,
         \/ homeTask' = homeTask
         \/ \E ts \in {"todo", "in-review"} : homeTask' = Home!Set(homeTask, ts)
  PROVE  HomeInv'
<1>1. homePlan = "applied" /\ homeTask.status # "none"
  BY HomeIs
<1>2. CASE homeTask' = homeTask
  <2>1. HomeTaskIs(homeTask.status)
    BY <1>2, HomeIs, HomeTaskStays
  <2>2. HomeFits(homeTask.status, s)
    BY <1>1, HomeIs DEF HomeFits
  <2> QED
    BY <2>1, <2>2, HomeKept
<1>3. ASSUME NEW ts \in {"todo", "in-review"}, homeTask' = Home!Set(homeTask, ts)
      PROVE  HomeInv'
  <2>1. HomeTaskIs(ts)
    BY <1>3, HomeIs, HomeTaskSet DEF Home!TaskStatuses
  <2>2. HomeFits(ts, s)
    BY <1>1, HomeIs DEF HomeFits
  <2> QED
    BY <2>1, <2>2, HomeKept
<1> QED
  BY <1>2, <1>3

(* The driver's steps but those of its gates.                              *)
LEMMA HomeDriven ==
  ASSUME HomeInv, homeMoved' = homeDay, homeDay' = homeDay,
         Home!ApplyPlan \/ Home!CreateSession \/ Home!WriteBrief \/ Home!Block
         \/ Home!NotifyRepositoryBlockedOnce \/ Home!Reap \/ Home!OpenReview \/ Home!OpenQa
  PROVE  HomeInv'
<1> USE HomeIs
<1>1. CASE Home!ApplyPlan
  BY <1>1, HomeTaskMoves DEF Home!ApplyPlan, Home!TaskStatuses
<1>2. CASE Home!CreateSession
  <2>1. homeSession' = [status |-> "queued", at |-> homeDay, evidence |-> FALSE,
                        preparing |-> TRUE]
        /\ homeTask.status # "none" /\ UNCHANGED <<homePlan, homeTask, homeReview, homeQa>>
    BY <1>2 DEF Home!CreateSession, Home!Selected
  <2>2. HomeSessionIs("queued")
    BY <2>1 DEF HomeSessionIs, HomeRows, Home!SessionStatuses
  <2>3. HomeTaskIs(homeTask.status) /\ HomeFits(homeTask.status, "queued")
    BY <2>1, HomeTaskStays DEF HomeFits
  <2> QED
    BY <2>2, <2>3, HomeKept
<1>3. CASE Home!WriteBrief
  <2>1. HomeSessionIs("prepared")
    BY <1>3, HomeSessionSet DEF Home!WriteBrief, Home!SessionStatuses
  <2> QED
    BY <1>3, <2>1, HomeSessionMoves DEF Home!WriteBrief, Home!BriefDue, Home!SessionStatuses
<1>4. CASE Home!Block
  BY <1>4, HomeTaskMoves DEF Home!Block, Home!Selected, Home!TaskStatuses
<1>5. CASE Home!NotifyRepositoryBlockedOnce
  BY <1>5, HomeUntouched DEF Home!NotifyRepositoryBlockedOnce
<1>6. CASE Home!Reap
  <2>1. HomeSessionIs("failed")
    BY <1>6, HomeSessionSet DEF Home!Reap, Home!SessionFails, Home!SessionStatuses
  <2> QED
    BY <1>6, <2>1, HomeSessionMoves DEF Home!Reap, Home!Abandoned, Home!SessionStatuses
<1>7. CASE Home!OpenReview
  BY <1>7, HomeUntouched DEF Home!OpenReview, Home!ReviewDue
<1>8. CASE Home!OpenQa
  BY <1>8, HomeUntouched DEF Home!OpenQa, Home!QaDue
<1> QED
  BY <1>1, <1>2, <1>3, <1>4, <1>5, <1>6, <1>7, <1>8

(* Verdicts, whoever gives them, and what somebody asks for on GitHub.     *)
LEMMA HomeJudged ==
  ASSUME HomeInv, homeMoved' = homeDay, homeDay' = homeDay,
         \/ \E c \in BOOLEAN, v \in Home!ReviewVerdicts : Home!ReviewVerdict(v, c)
         \/ \E c \in BOOLEAN, v \in Home!QaVerdicts : Home!QaVerdict(v, c)
         \/ Home!FeedbackArrives
  PROVE  HomeInv'
<1> USE HomeIs
<1>1. ASSUME NEW c \in BOOLEAN, NEW v \in Home!ReviewVerdicts, Home!ReviewVerdict(v, c)
      PROVE  HomeInv'
  <2>1. /\ homeTask.status = "in-review" /\ homeReview' = v
        /\ UNCHANGED <<homePlan, homeSession>>
        /\ homeTask' = CASE v = "changes_requested" -> Home!Set(homeTask, "in-progress")
                         [] v = "blocked"           -> Home!Set(homeTask, "blocked")
                         [] OTHER                   -> homeTask
    BY <1>1 DEF Home!ReviewVerdict, Home!ReviewPending
  <2>2. CASE v = "changes_requested"
    BY <2>1, <2>2, HomeTaskMoves DEF Home!TaskStatuses
  <2>3. CASE v = "blocked"
    BY <2>1, <2>3, HomeTaskMoves DEF Home!TaskStatuses
  <2>4. CASE v \notin {"changes_requested", "blocked"}
    BY <2>1, <2>4, HomeUntouched
  <2> QED
    BY <2>2, <2>3, <2>4
<1>2. ASSUME NEW c \in BOOLEAN, NEW v \in Home!QaVerdicts, Home!QaVerdict(v, c)
      PROVE  HomeInv'
  <2>1. /\ homeTask.status = "in-review" /\ homeQa' = v
        /\ UNCHANGED <<homePlan, homeSession>>
        /\ homeTask' = Home!Set(homeTask, CASE v = "passed" -> "done"
                                            [] v = "failed" -> "in-progress"
                                            [] OTHER        -> "blocked")
    BY <1>2 DEF Home!QaVerdict, Home!QaPending
  <2>2. PICK s \in {"done", "in-progress", "blocked"} :
            homeTask' = Home!Set(homeTask, s) /\ (s = "in-progress" => v = "failed")
    BY <2>1
  <2> QED
    BY <2>1, <2>2, HomeTaskMoves DEF Home!TaskStatuses
<1>3. CASE Home!FeedbackArrives
  BY <1>3, HomeTaskMoves DEF Home!FeedbackArrives, Home!TaskStatuses
<1> QED
  BY <1>1, <1>2, <1>3

(* The worker, what the CEO decides by hand, and what happens to the       *)
(* machine.                                                                *)
LEMMA HomeLives ==
  ASSUME HomeInv, homeMoved' = homeDay, homeDay' = homeDay,
         Home!Claim \/ Home!Finish \/ Home!DecidePlan \/ Home!AskByHand
         \/ Home!SetTaskStatus \/ Home!ReadNotice \/ Home!RepositoryChanges
         \/ Home!WorkerChanges \/ Home!PreparerDies
  PROVE  HomeInv'
<1> USE HomeIs
<1>1. CASE Home!Claim
  <2>1. HomeSessionIs("running")
    BY <1>1, HomeSessionSet DEF Home!Claim, Home!SessionStatuses
  <2> QED
    BY <1>1, <2>1, HomeSessionMoves DEF Home!Claim, Home!SessionStatuses
<1>2. CASE Home!Finish
  <2>1. /\ homeSession.status = "running" /\ UNCHANGED <<homePlan, homeReview, homeQa>>
        /\ \/ homeTask' = homeTask
           \/ \E ts \in {"todo", "in-review"} : homeTask' = Home!Set(homeTask, ts)
    BY <1>2 DEF Home!Finish
  <2>2. \/ \E e \in BOOLEAN :
              homeSession' = [homeSession EXCEPT !.status = "completed", !.evidence = e]
        \/ homeSession' = [homeSession EXCEPT !.status = "failed"]
    BY <1>2 DEF Home!Finish, Home!SessionFails
  <2>3. HomeSessionIs("completed") \/ HomeSessionIs("failed")
    BY <2>2, HomeSessionSet DEF Home!SessionStatuses
  <2> QED
    BY <2>1, <2>3, HomeSessionMoves DEF Home!SessionStatuses
<1>3. CASE Home!DecidePlan
  <2>1. homeTask.status = "none" /\ homePlan' \in {"approved", "rejected"}
        /\ UNCHANGED <<homeTask, homeSession>>
    BY <1>3 DEF Home!DecidePlan
  <2>2. HomeFits(homeTask.status, homeSession.status)
    BY <2>1 DEF HomeFits, Home!PlanStatuses
  <2> QED
    BY <2>1, <2>2, HomeTaskStays, HomeSessionStays, HomeKept
<1>4. CASE Home!AskByHand
  <2>1. HomeSessionIs("needs_clarification")
    BY <1>4, HomeSessionSet DEF Home!AskByHand, Home!SessionStatuses
  <2> QED
    BY <1>4, <2>1, HomeSessionMoves DEF Home!AskByHand, Home!SessionStatuses
<1>5. CASE Home!SetTaskStatus
  <2>1. /\ homeTask.status # "none" /\ UNCHANGED <<homePlan, homeSession>>
        /\ \E s \in {"todo", "cancelled"} : homeTask' = Home!Set(homeTask, s)
    BY <1>5 DEF Home!SetTaskStatus
  <2> QED
    BY <2>1, HomeTaskMoves DEF Home!TaskStatuses
<1>6. CASE Home!ReadNotice \/ Home!RepositoryChanges \/ Home!WorkerChanges
  BY <1>6, HomeUntouched DEF Home!ReadNotice, Home!RepositoryChanges, Home!WorkerChanges
<1>7. CASE Home!PreparerDies
  <2>1. /\ homeSession' = [homeSession EXCEPT !.preparing = FALSE]
        /\ UNCHANGED <<homePlan, homeTask, homeReview, homeQa>>
    BY <1>7 DEF Home!PreparerDies
  <2>2. homeSession \in [status : Home!SessionStatuses, at : Nat, evidence : BOOLEAN,
                         preparing : BOOLEAN] /\ homeSession.at <= homeDay
    BY HomeAges DEF HomeRows
  <2>3. HomeSessionIs(homeSession.status)
    BY <2>1, <2>2 DEF HomeSessionIs
  <2> QED
    BY <2>1, <2>3, HomeTaskStays, HomeKept DEF HomeFits
<1> QED
  BY <1>1, <1>2, <1>3, <1>4, <1>5, <1>6, <1>7

(* All steps.                                                              *)
LEMMA HomeGoesOn ==
  ASSUME HomeInv, Home!Next
  PROVE  HomeInv'
<1>1. CASE Home!DayPasses
  BY <1>1 DEF Home!DayPasses, HomeInv, HomeRows, HomeCourse
<1>2. CASE Home!OthersMove
  BY <1>2 DEF Home!OthersMove, HomeInv, HomeRows, HomeCourse
<1>3. CASE Home!Step
  <2>1. homeMoved' = homeDay /\ homeDay' = homeDay
    BY <1>3 DEF Home!Step
  <2>2. CASE Home!DriverStep
    <3>1. CASE Home!GateStep
      <4>1. "approved" \in Home!ReviewVerdicts /\ {"passed", "failed"} \subseteq Home!QaVerdicts
        BY DEF Home!ReviewVerdicts, Home!QaVerdicts
      <4> QED
        BY <2>1, <3>1, <4>1, HomeJudged DEF Home!GateStep
    <3> QED
      BY <2>1, <2>2, <3>1, HomeDriven DEF Home!DriverStep
  <2>3. CASE Home!WorkerStep
    BY <2>1, <2>3, HomeLives DEF Home!WorkerStep
  <2>4. CASE Home!CeoStep
    BY <2>1, <2>4, HomeLives, HomeJudged DEF Home!CeoStep
  <2>5. CASE Home!Upset
    BY <2>1, <2>5, HomeLives, HomeJudged DEF Home!Upset
  <2> QED
    BY <1>3, <2>2, <2>3, <2>4, <2>5 DEF Home!Step
<1> QED
  BY <1>1, <1>2, <1>3 DEF Home!Next

(* What has stood still for the longer of the two thresholds has stood     *)
(* still for each.                                                         *)
LEMMA StillSince ==
  ASSUME HomeInv, Home!Standstill
  PROVE  /\ Home!Since(homeTask.at, ReviewDays)
         /\ Home!Since(homeSession.at, ExecutionDays)
<1>1. homeTask.at \in Nat /\ homeSession.at \in Nat
  BY DEF HomeInv, HomeRows
<1> QED
  BY <1>1, OverviewAssumption
     DEF HomeInv, HomeRows, Home!Standstill, Home!Since, Home!Longest

(* A request at a standstill shows.                                        *)
LEMMA HomeShows ==
  ASSUME HomeInv, Home!Standstill
  PROVE  \/ Home!Attention # {}
         \/ Home!NeedsAttention
         \/ homeSession.status = "prepared" /\ ~homeWorker
         \/ homePlan = "failed" /\ ~homeListed
<1>1. ~Home!Over /\ ~Home!DriverMay /\ ~Home!WorkerMay
  BY DEF Home!Standstill
<1>2. homePlan # "rejected" /\ homePlan # "approved"
  BY <1>1 DEF Home!Over, Home!DriverMay
<1>3. CASE homePlan = "draft"
  BY <1>3 DEF Home!NeedsAttention
<1>4. CASE homePlan = "failed"
  BY <1>4 DEF Home!Attention, Home!RequestBlocked
<1>5. CASE homePlan = "applied"
  <2>1. homeTask.status \in {"todo", "in-progress", "in-review", "blocked"}
    BY <1>1, <1>5 DEF HomeInv, HomeRows, HomeCourse, Home!Over, Home!TaskStatuses
  <2>2. CASE homeTask.status \in {"in-progress", "blocked"}
    BY <2>2 DEF HomeInv, HomeCourse, Home!NeedsAttention, Home!IsWorkItemBlocked
  <2>3. CASE homeTask.status = "in-review"
    <3>1. "review" \in Home!StuckWork
      BY <2>3, StillSince DEF Home!StuckWork
    <3> QED
      BY <3>1 DEF Home!Attention
  <2>4. CASE homeTask.status = "todo" /\ ~Home!Live
    <3>1. "repository" \in Home!StuckWork
      BY <1>1, <2>4 DEF Home!DriverMay, Home!Selected, Home!Surfaced, Home!StuckWork
    <3> QED
      BY <3>1 DEF Home!Attention
  <2>5. CASE Home!Live
    <3>1. CASE homeSession.status = "queued"
      <4>1. "execution" \in Home!StuckWork
        BY <3>1, StillSince DEF Home!StuckWork, Home!StuckSessions
      <4> QED
        BY <4>1 DEF Home!Attention
    <3>2. CASE homeSession.status = "prepared"
      BY <1>1, <3>2 DEF Home!WorkerMay
    <3>3. CASE homeSession.status = "running"
      BY <1>1, <3>3 DEF Home!WorkerMay, Home!DriverMay, Home!Abandoned
    <3> QED
      BY <2>5, <3>1, <3>2, <3>3 DEF Home!Live
  <2> QED
    BY <2>1, <2>2, <2>3, <2>4, <2>5
<1> QED
  BY <1>2, <1>3, <1>4, <1>5 DEF HomeInv, HomeRows, Home!PlanStatuses

(* When neither the driver nor a worker can do anything more for a request *)
(* that is not over, the home page shows that it needs the CEO, in what is *)
(* stuck, or the board does, on its card, whatever the thresholds are;     *)
(* but for a prepared session no worker takes, and for planning that       *)
(* failed once ten other requests were updated (stuck-work-detector.ts,    *)
(* detectStuckWork; work-lifecycle.ts, isWorkItemBlocked).                 *)
THEOREM HomeSeesStandstill == Spec => []StandstillSeen
<1> DEFINE I == part = "home" => HomeInv
<1>1. Init => I
  BY HomeInit DEF Init
<1>2. I /\ [Next]_vars => I'
  <2>1. ASSUME I, part' = "home", Next
        PROVE  HomeInv'
    <3>1. HomeInv /\ Home!Next
      BY <2>1 DEF Next
    <3> QED
      BY <3>1, HomeGoesOn
  <2>2. ASSUME I, UNCHANGED vars
        PROVE  I'
    BY <2>2 DEF vars, homeVars, HomeInv, HomeRows, HomeCourse
  <2> QED
    BY <2>1, <2>2
<1>3. I => StandstillSeen
  BY HomeShows DEF StandstillSeen, Home!StandstillSeen
<1> HIDE DEF I
<1> QED
  BY <1>1, <1>2, <1>3, PTL DEF Spec
---------------------------------------------------------------------------
(* The company's memory.  A lesson of the driver's is looked for before it *)
(* is written, and no other driver writes one of its source meanwhile:     *)
(* what it has in hand it has not written yet.  What a tick has found due  *)
(* has a record already, or is still in its hands, until something fails.  *)

MemSources ==
    {<<"review", r>> : r \in Reviews} \cup {<<"qa", q>> : q \in QaResults}
    \cup {<<"release", l>> : l \in Shipments} \cup {<<"learning", "fix-it">>}

MemOwn ==
    [category : {"review", "qa", "release"}, source : MemSources, confidence : 0 .. 80,
     by : {"driver"}]
    \cup [category : {"standards"}, source : MemSources, confidence : {90}, by : {"driver"}]

MemStages == {"reviews", "qa", "releases", "learning"}

MemTicks ==
    {Mem!Idle}
    \cup [at : {"done"}, due : SUBSET MemSources, whole : BOOLEAN]
    \cup [at : MemStages, todo : SUBSET MemOwn, hand : SUBSET MemOwn,
          step : {"find", "bank", "create", "record"}, due : SUBSET MemSources,
          whole : BOOLEAN]

MemLearned(source) == \E x \in DOMAIN memRecords : x.source = source

(* By the driver, and not by the CEO.                                      *)
MemWritten(source) == \E x \in DOMAIN memRecords : Mem!Own(x) /\ x.source = source

MemRecords ==
    /\ IsFiniteSet(DOMAIN memRecords)
    /\ DOMAIN memRecords \subseteq MemOwn \cup MemByHand
    /\ memRecords \in [DOMAIN memRecords -> Nat]
    /\ \A x \in DOMAIN memRecords : Mem!Own(x) => memRecords[x] = 1
    /\ \A x, y \in DOMAIN memRecords :
          Mem!Own(x) /\ Mem!Own(y) /\ x.source = y.source => x = y

MemHeld ==
    memTick.at \in MemStages =>
        /\ memTick.hand = {} \/ \E x \in memTick.hand : memTick.hand = {x}
        /\ \A x \in memTick.hand : ~MemWritten(x.source)
        /\ memTick.whole =>
              \A source \in memTick.due :
                  \/ MemLearned(source)
                  \/ \E x \in memTick.todo \cup memTick.hand : x.source = source

MemForgot ==
    memTick.at = "done" /\ memTick.whole =>
        \A source \in memTick.due : MemLearned(source)

MemInv ==
    /\ memShipped \subseteq Shipments /\ MemRecords
    /\ memTick \in MemTicks /\ MemHeld /\ MemForgot

(* The stages of a tick, and where the driver is in one.                   *)
LEMMA MemAfter ==
  /\ DOMAIN Mem!After = MemStages
  /\ Mem!After["reviews"] = "qa" /\ Mem!After["qa"] = "releases"
  /\ Mem!After["releases"] = "learning" /\ Mem!After["learning"] = "idle"
  BY DEF Mem!After, MemStages

(* The driver's lessons are not the CEO's.                                 *)
LEMMA MemApart ==
  /\ \A x \in MemOwn : Mem!Own(x) /\ x.source \in MemSources
  /\ \A x \in MemByHand : ~Mem!Own(x)
<1>1. \A x \in MemOwn : x.by = "driver" /\ x.source \in MemSources
  BY DEF MemOwn
<1>2. \A x \in MemByHand : x.by = "hand"
  BY DEF MemByHand
<1> QED
  BY <1>1, <1>2 DEF Mem!Own

(* What is read of a stage are lessons.                                    *)
LEMMA MemLessons ==
  ASSUME memShipped \subseteq Shipments, NEW stage \in MemStages
  PROVE  Mem!Lessons(stage) \subseteq MemOwn
<1>1. CASE stage = "reviews"
  <2>1. ASSUME NEW r \in Reviews
        PROVE  Mem!ReviewLesson(r) \in MemOwn
    <3>1. <<"review", r>> \in MemSources
      BY DEF MemSources
    <3> QED
      BY <3>1 DEF Mem!ReviewLesson, Mem!Lesson, MemOwn
  <2> QED
    BY <1>1, <2>1 DEF Mem!Lessons
<1>2. CASE stage = "qa"
  <2>1. ASSUME NEW q \in QaResults
        PROVE  Mem!QaLesson(q) \in MemOwn
    <3>1. <<"qa", q>> \in MemSources
      BY DEF MemSources
    <3> QED
      BY <3>1 DEF Mem!QaLesson, Mem!Lesson, MemOwn
  <2> QED
    BY <1>2, <2>1 DEF Mem!Lessons
<1>3. CASE stage = "releases"
  <2>1. ASSUME NEW l \in memShipped
        PROVE  Mem!ReleaseLesson(l) \in MemOwn
    <3>1. <<"release", l>> \in MemSources
      BY DEF MemSources
    <3> QED
      BY <3>1 DEF Mem!ReleaseLesson, Mem!Lesson, MemOwn
  <2> QED
    BY <1>3, <2>1 DEF Mem!Lessons
<1>4. CASE stage = "learning"
  <2>1. ASSUME NEW k \in MemRemarks
        PROVE  Mem!Standard(k) \in MemOwn
    <3>1. <<"learning", "fix-it">> \in MemSources
      BY DEF MemSources
    <3> QED
      BY <3>1 DEF Mem!Standard, Mem!Lesson, MemOwn
  <2> QED
    BY <1>4, <2>1 DEF Mem!Lessons
<1> QED
  BY <1>1, <1>2, <1>3, <1>4 DEF MemStages

(* What a record more makes of the bag.                                    *)
LEMMA MemBag ==
  ASSUME NEW x, IsFiniteSet(DOMAIN memRecords),
         memRecords \in [DOMAIN memRecords -> Nat],
         memRecords' = Mem!BagAdd(memRecords, x)
  PROVE  /\ DOMAIN memRecords' = DOMAIN memRecords \cup {x}
         /\ IsFiniteSet(DOMAIN memRecords')
         /\ memRecords' \in [DOMAIN memRecords' -> Nat]
         /\ \A y \in DOMAIN memRecords : y # x => memRecords'[y] = memRecords[y]
         /\ x \notin DOMAIN memRecords => memRecords'[x] = 1
<1>1. CASE x \in DOMAIN memRecords
  <2>1. memRecords' = [y \in DOMAIN memRecords |->
                         IF y = x THEN memRecords[y] + 1 ELSE memRecords[y]]
    BY <1>1 DEF Mem!BagAdd
  <2>2. DOMAIN memRecords' = DOMAIN memRecords /\ DOMAIN memRecords = DOMAIN memRecords \cup {x}
    BY <1>1, <2>1
  <2> QED
    BY <1>1, <2>1, <2>2
<1>2. CASE x \notin DOMAIN memRecords
  <2>1. memRecords' = [y \in DOMAIN memRecords \cup {x} |->
                         IF y = x THEN 1 ELSE memRecords[y]]
    BY <1>2 DEF Mem!BagAdd
  <2>2. IsFiniteSet(DOMAIN memRecords \cup {x})
    BY FS_AddElement
  <2> QED
    BY <1>2, <2>1, <2>2
<1> QED
  BY <1>1, <1>2

(* The CEO's records are no lessons of the driver's.                       *)
LEMMA MemAddsByHand ==
  ASSUME MemRecords, NEW x \in MemByHand, memRecords' = Mem!BagAdd(memRecords, x)
  PROVE  /\ MemRecords'
         /\ \A source : MemLearned(source) => MemLearned(source)'
         /\ \A source : MemWritten(source)' => MemWritten(source)
<1>1. /\ DOMAIN memRecords' = DOMAIN memRecords \cup {x}
      /\ IsFiniteSet(DOMAIN memRecords')
      /\ memRecords' \in [DOMAIN memRecords' -> Nat]
      /\ \A y \in DOMAIN memRecords : y # x => memRecords'[y] = memRecords[y]
  BY MemBag DEF MemRecords
<1>2. ~Mem!Own(x)
  BY MemApart
<1>3. \A y \in DOMAIN memRecords' : Mem!Own(y) => y \in DOMAIN memRecords
  BY <1>1, <1>2
<1>4. \A y \in DOMAIN memRecords' : Mem!Own(y) => memRecords'[y] = 1
  BY <1>1, <1>2 DEF MemRecords
<1>5. \A y, z \in DOMAIN memRecords' :
         Mem!Own(y) /\ Mem!Own(z) /\ y.source = z.source => y = z
  BY <1>3 DEF MemRecords
<1>6. DOMAIN memRecords' \subseteq MemOwn \cup MemByHand
  BY <1>1 DEF MemRecords
<1>7. MemRecords'
  BY <1>1, <1>4, <1>5, <1>6 DEF MemRecords
<1> QED
  BY <1>1, <1>3, <1>7 DEF MemLearned, MemWritten

(* A lesson the driver has not written is there once when it has.          *)
LEMMA MemAddsOwn ==
  ASSUME MemRecords, NEW x \in MemOwn, ~MemWritten(x.source),
         memRecords' = Mem!BagAdd(memRecords, x)
  PROVE  /\ MemRecords'
         /\ \A source : MemLearned(source)' <=> MemLearned(source) \/ source = x.source
<1>1. x \notin DOMAIN memRecords
  BY MemApart DEF MemWritten
<1>2. /\ DOMAIN memRecords' = DOMAIN memRecords \cup {x}
      /\ IsFiniteSet(DOMAIN memRecords')
      /\ memRecords' \in [DOMAIN memRecords' -> Nat]
      /\ \A y \in DOMAIN memRecords : y # x => memRecords'[y] = memRecords[y]
      /\ memRecords'[x] = 1
  BY <1>1, MemBag DEF MemRecords
<1>3. \A y \in DOMAIN memRecords' : Mem!Own(y) => memRecords'[y] = 1
  BY <1>1, <1>2 DEF MemRecords
<1>4. \A y, z \in DOMAIN memRecords' :
         Mem!Own(y) /\ Mem!Own(z) /\ y.source = z.source => y = z
  BY <1>2 DEF MemRecords, MemWritten
<1>5. DOMAIN memRecords' \subseteq MemOwn \cup MemByHand
  BY <1>2 DEF MemRecords
<1>6. MemRecords'
  BY <1>2, <1>3, <1>4, <1>5 DEF MemRecords
<1> QED
  BY <1>2, <1>6 DEF MemLearned

(* What the driver's tick is while it ingests.                             *)
LEMMA MemAt ==
  ASSUME memTick \in MemTicks
  PROVE  /\ Mem!Ingesting <=> memTick.at \in MemStages
         /\ memTick.at \in MemStages =>
              memTick \in [at : MemStages, todo : SUBSET MemOwn, hand : SUBSET MemOwn,
                           step : {"find", "bank", "create", "record"},
                           due : SUBSET MemSources, whole : BOOLEAN]
  BY MemAfter DEF MemTicks, Mem!Idle, Mem!Ingesting, MemStages

LEMMA MemKnown ==
  \A x : /\ Mem!Known(x) <=> MemLearned(x.source)
         /\ MemWritten(x.source) => Mem!Known(x)
  BY DEF Mem!Known, Mem!BagToSet, MemLearned, MemWritten

(* The rows of a stage are read.                                           *)
LEMMA MemBegins ==
  ASSUME MemInv, NEW stage \in MemStages, NEW due \in SUBSET MemSources,
         NEW whole \in BOOLEAN, whole => \A source \in due : MemLearned(source),
         memTick' = Mem!Begin(stage, due, whole),
         UNCHANGED <<memRecords, memShipped>>
  PROVE  MemInv'
<1>1. PICK todo \in SUBSET MemOwn : todo = Mem!Lessons(stage)
  BY MemLessons DEF MemInv
<1>2. memTick' = [at |-> stage, todo |-> todo, hand |-> {}, step |-> "find",
                  due |-> due \cup {x.source : x \in todo}, whole |-> whole]
  BY <1>1 DEF Mem!Begin, Mem!NoLesson
<1>3. \A x \in todo : x.source \in MemSources
  BY MemApart
<1>4. memTick' \in MemTicks
  BY <1>2, <1>3 DEF MemTicks
<1>5. MemHeld'
  BY <1>2 DEF MemHeld, MemLearned
<1>6. MemForgot'
  BY <1>2 DEF MemForgot, MemStages
<1>7. MemRecords'
  BY DEF MemInv, MemRecords
<1> QED
  BY <1>4, <1>5, <1>6, <1>7 DEF MemInv

(* The tick ends.                                                          *)
LEMMA MemEnds ==
  ASSUME MemInv, memTick.at \in MemStages, NEW whole \in BOOLEAN,
         whole => \A source \in memTick.due : MemLearned(source),
         memTick' = Mem!Ended(whole),
         UNCHANGED <<memRecords, memShipped>>
  PROVE  MemInv'
<1>1. memTick' = [at |-> "done", due |-> memTick.due, whole |-> whole]
  BY DEF Mem!Ended
<1>2. memTick.due \in SUBSET MemSources
  BY MemAt DEF MemInv
<1>3. memTick' \in MemTicks
  BY <1>1, <1>2 DEF MemTicks
<1>4. MemHeld' /\ MemForgot'
  BY <1>1 DEF MemHeld, MemForgot, MemStages, MemLearned
<1>5. MemRecords'
  BY DEF MemInv, MemRecords
<1> QED
  BY <1>3, <1>4, <1>5 DEF MemInv

(* Nothing but the tick's own fields changes, and its stage goes on.       *)
LEMMA MemTicks1 ==
  ASSUME MemInv, memTick.at \in MemStages,
         NEW todo \in SUBSET MemOwn, NEW hand \in SUBSET MemOwn,
         NEW step \in {"find", "bank", "create", "record"}, NEW whole \in BOOLEAN,
         memTick' = [at |-> memTick.at, todo |-> todo, hand |-> hand, step |-> step,
                     due |-> memTick.due, whole |-> whole],
         memShipped' = memShipped, MemRecords',
         hand = {} \/ \E x \in hand : hand = {x},
         \A x \in hand : ~MemWritten(x.source)',
         whole => \A source \in memTick.due :
                     MemLearned(source)' \/ \E x \in todo \cup hand : x.source = source
  PROVE  MemInv'
<1>1. memTick.due \in SUBSET MemSources
  BY MemAt DEF MemInv
<1>2. memTick' \in MemTicks
  BY <1>1 DEF MemTicks
<1>3. MemHeld' /\ MemForgot'
  BY DEF MemHeld, MemForgot, MemStages
<1> QED
  BY <1>2, <1>3 DEF MemInv

(* The driver's steps within a stage.                                      *)
LEMMA MemFinds ==
  ASSUME MemInv, NEW x, Mem!FindRecord(x)
  PROVE  MemInv'
<1>1. /\ memTick.at \in MemStages /\ memTick.hand = {} /\ x \in memTick.todo
      /\ UNCHANGED <<memRecords, memShipped>>
  BY MemAt DEF MemInv, Mem!FindRecord, Mem!NoLesson
<1>2. memTick \in [at : MemStages, todo : SUBSET MemOwn, hand : SUBSET MemOwn,
                   step : {"find", "bank", "create", "record"},
                   due : SUBSET MemSources, whole : BOOLEAN]
  BY <1>1, MemAt DEF MemInv
<1>3. PICK hand \in SUBSET MemOwn : hand = IF Mem!Known(x) THEN {} ELSE {x}
  BY <1>1, <1>2
<1>4. memTick' = [memTick EXCEPT !.todo = memTick.todo \ {x}, !.step = "bank", !.hand = hand]
  BY <1>3 DEF Mem!FindRecord, Mem!NoLesson
<1>5. memTick' = [at |-> memTick.at, todo |-> memTick.todo \ {x}, hand |-> hand,
                  step |-> "bank", due |-> memTick.due, whole |-> memTick.whole]
  BY <1>2, <1>4
<1>6. memTick.todo \ {x} \in SUBSET MemOwn /\ memTick.whole \in BOOLEAN
  BY <1>2
<1>7. /\ MemRecords'
      /\ \A source : MemLearned(source)' <=> MemLearned(source)
      /\ \A source : MemWritten(source)' <=> MemWritten(source)
  BY <1>1 DEF MemInv, MemRecords, MemLearned, MemWritten
<1>8. \A y \in hand : ~MemWritten(y.source)'
  BY <1>3, <1>7, MemKnown
<1>9. ASSUME memTick.whole, NEW source \in memTick.due
      PROVE  MemLearned(source)'
             \/ \E y \in (memTick.todo \ {x}) \cup hand : y.source = source
  <2>1. MemLearned(source) \/ \E y \in memTick.todo : y.source = source
    BY <1>1, <1>9 DEF MemInv, MemHeld
  <2>2. x.source = source => MemLearned(source) \/ x \in hand
    BY <1>3, MemKnown
  <2> QED
    BY <1>7, <2>1, <2>2
<1>10. hand = {} \/ \E y \in hand : hand = {y}
  BY <1>3
<1>11. MemRecords' /\ memShipped' = memShipped /\ "bank" \in {"find", "bank", "create", "record"}
  BY <1>1, <1>7
<1> HIDE DEF Mem!Known
<1> QED
  BY <1>1, <1>5, <1>6, <1>8, <1>9, <1>10, <1>11, MemTicks1

(* The step of a lesson in hand.                                           *)
LEMMA MemSteps ==
  ASSUME MemInv, Mem!FindBank \/ Mem!CreateBank
  PROVE  MemInv'
<1>1. /\ memTick.at \in MemStages /\ memRecords' = memRecords /\ memShipped' = memShipped
      /\ \E step \in {"create", "record"} : memTick' = [memTick EXCEPT !.step = step]
  BY MemAt DEF MemInv, Mem!FindBank, Mem!CreateBank, Mem!InHand
<1>2. memTick \in [at : MemStages, todo : SUBSET MemOwn, hand : SUBSET MemOwn,
                   step : {"find", "bank", "create", "record"},
                   due : SUBSET MemSources, whole : BOOLEAN]
  BY <1>1, MemAt DEF MemInv
<1>3. PICK step \in {"create", "record"} :
          memTick' = [at |-> memTick.at, todo |-> memTick.todo, hand |-> memTick.hand,
                      step |-> step, due |-> memTick.due, whole |-> memTick.whole]
  <2>1. PICK step \in {"create", "record"} : memTick' = [memTick EXCEPT !.step = step]
    BY <1>1
  <2> QED
    BY <1>2, <2>1
<1>4. /\ MemRecords'
      /\ \A source : MemLearned(source)' <=> MemLearned(source)
      /\ \A source : MemWritten(source)' <=> MemWritten(source)
  BY <1>1 DEF MemInv, MemRecords, MemLearned, MemWritten
<1>5. MemHeld
  BY DEF MemInv
<1>6. /\ memTick.todo \in SUBSET MemOwn /\ memTick.hand \in SUBSET MemOwn
      /\ memTick.whole \in BOOLEAN
  BY <1>2
<1>7. /\ memTick.hand = {} \/ \E x \in memTick.hand : memTick.hand = {x}
      /\ \A x \in memTick.hand : ~MemWritten(x.source)'
      /\ memTick.whole => \A source \in memTick.due :
            MemLearned(source)' \/ \E x \in memTick.todo \cup memTick.hand : x.source = source
  BY <1>1, <1>4, <1>5 DEF MemHeld
<1> QED
  BY <1>1, <1>3, <1>4, <1>6, <1>7, MemTicks1

LEMMA MemWrites ==
  ASSUME MemInv, Mem!CreateRecord
  PROVE  MemInv'
<1>1. /\ memTick.at \in MemStages /\ memTick.hand # {} /\ memShipped' = memShipped
      /\ memTick' = [memTick EXCEPT !.hand = {}]
      /\ memRecords' = Mem!BagAdd(memRecords, Mem!TheLesson)
  BY MemAt DEF MemInv, Mem!CreateRecord, Mem!InHand, Mem!NoLesson
<1>2. memTick \in [at : MemStages, todo : SUBSET MemOwn, hand : SUBSET MemOwn,
                   step : {"find", "bank", "create", "record"},
                   due : SUBSET MemSources, whole : BOOLEAN]
  BY <1>1, MemAt DEF MemInv
<1>3. MemHeld /\ MemRecords
  BY DEF MemInv
<1>4. PICK x \in MemOwn : memTick.hand = {x} /\ Mem!TheLesson = x
  <2>1. PICK x \in memTick.hand : memTick.hand = {x}
    BY <1>1, <1>3 DEF MemHeld
  <2>2. Mem!TheLesson = x
    BY <2>1 DEF Mem!TheLesson
  <2> QED
    BY <1>2, <2>1, <2>2
<1>5. ~MemWritten(x.source)
  BY <1>1, <1>3, <1>4 DEF MemHeld
<1>6. /\ MemRecords'
      /\ \A source : MemLearned(source)' <=> MemLearned(source) \/ source = x.source
  BY <1>1, <1>3, <1>4, <1>5, MemAddsOwn
<1>7. memTick' = [at |-> memTick.at, todo |-> memTick.todo, hand |-> {},
                  step |-> memTick.step, due |-> memTick.due, whole |-> memTick.whole]
  BY <1>1, <1>2
<1>8. /\ memTick.todo \in SUBSET MemOwn /\ memTick.whole \in BOOLEAN
      /\ memTick.step \in {"find", "bank", "create", "record"} /\ {} \in SUBSET MemOwn
  BY <1>2
<1>9. memTick.whole => \A source \in memTick.due :
         MemLearned(source)' \/ \E y \in memTick.todo \cup {} : y.source = source
  BY <1>1, <1>3, <1>4, <1>6 DEF MemHeld
<1>10. MemRecords' /\ \A y \in {} : ~MemWritten(y.source)'
  BY <1>6
<1> QED
  BY <1>1, <1>7, <1>8, <1>9, <1>10, MemTicks1

(* What fails.                                                             *)
LEMMA MemFails ==
  ASSUME MemInv, Mem!Fail \/ Mem!Crash
  PROVE  MemInv'
<1>1. memTick.at \in MemStages /\ memRecords' = memRecords /\ memShipped' = memShipped
  BY MemAt DEF MemInv, Mem!Fail, Mem!Crash
<1>2. memTick \in [at : MemStages, todo : SUBSET MemOwn, hand : SUBSET MemOwn,
                   step : {"find", "bank", "create", "record"},
                   due : SUBSET MemSources, whole : BOOLEAN]
  BY <1>1, MemAt DEF MemInv
<1>3. CASE memTick' = Mem!Ended(FALSE)
  BY <1>1, <1>3, MemEnds
<1>4. CASE memTick' = Mem!Idle
  BY <1>1, <1>4 DEF MemInv, MemRecords, MemTicks, MemHeld, MemForgot, MemStages, Mem!Idle
<1>5. CASE memTick' = [memTick EXCEPT !.hand = {}, !.whole = FALSE]
  <2>1. memTick' = [at |-> memTick.at, todo |-> memTick.todo, hand |-> {},
                    step |-> memTick.step, due |-> memTick.due, whole |-> FALSE]
    BY <1>2, <1>5
  <2>2. /\ memTick.todo \in SUBSET MemOwn /\ {} \in SUBSET MemOwn /\ FALSE \in BOOLEAN
        /\ memTick.step \in {"find", "bank", "create", "record"}
    BY <1>2
  <2>3. MemRecords'
    BY <1>1 DEF MemInv, MemRecords
  <2> QED
    BY <1>1, <2>1, <2>2, <2>3, MemTicks1
<1> QED
  BY <1>3, <1>4, <1>5 DEF Mem!Fail, Mem!Crash, Mem!NoLesson

(* The CEO's own record, which none of the driver's waits for.             *)
LEMMA MemByCeo ==
  ASSUME MemInv, NEW x \in MemByHand, Mem!AddMemoryRecord(x)
  PROVE  MemInv'
<1>1. /\ memRecords' = Mem!BagAdd(memRecords, x)
      /\ memTick' = memTick /\ memShipped' = memShipped
  BY DEF Mem!AddMemoryRecord
<1>2. /\ MemRecords'
      /\ \A source : MemLearned(source) => MemLearned(source)'
      /\ \A source : MemWritten(source)' => MemWritten(source)
  BY <1>1, MemAddsByHand DEF MemInv
<1>3. MemHeld' /\ MemForgot'
  BY <1>1, <1>2 DEF MemInv, MemHeld, MemForgot
<1> QED
  BY <1>1, <1>2, <1>3 DEF MemInv

(* All steps.                                                              *)
LEMMA MemGoesOn ==
  ASSUME MemInv, Mem!Next
  PROVE  MemInv'
<1>1. CASE UNCHANGED <<memRecords, memShipped, memTick>>
  BY <1>1 DEF MemInv, MemRecords, MemHeld, MemForgot, MemLearned, MemWritten
<1>2. CASE Mem!StartTick
  <2>1. "reviews" \in MemStages /\ {} \in SUBSET MemSources /\ TRUE \in BOOLEAN
    BY DEF MemStages
  <2>2. memTick' = Mem!Begin("reviews", {}, TRUE) /\ UNCHANGED <<memRecords, memShipped>>
    BY <1>2 DEF Mem!StartTick
  <2> QED
    BY <2>1, <2>2, MemBegins
<1>3. CASE Mem!NextStage
  <2>1. /\ memTick.at \in MemStages /\ memTick.todo = {} /\ memTick.hand = {}
        /\ UNCHANGED <<memRecords, memShipped>>
    BY <1>3, MemAt DEF MemInv, Mem!NextStage, Mem!NoLesson
  <2>2. memTick.due \in SUBSET MemSources /\ memTick.whole \in BOOLEAN
    BY <2>1, MemAt DEF MemInv
  <2>3. memTick.whole => \A source \in memTick.due : MemLearned(source)
    BY <2>1 DEF MemInv, MemHeld
  <2>4. CASE memTick.at = "learning"
    <3>1. memTick' = Mem!Ended(memTick.whole)
      BY <1>3, <2>4, MemAfter DEF Mem!NextStage
    <3> QED
      BY <2>1, <2>2, <2>3, <3>1, MemEnds
  <2>5. CASE memTick.at # "learning"
    <3>1. PICK stage \in MemStages : stage = Mem!After[memTick.at] /\ stage # "idle"
      BY <2>1, <2>5, MemAfter DEF MemStages
    <3>2. memTick' = Mem!Begin(stage, memTick.due, memTick.whole)
      BY <1>3, <3>1 DEF Mem!NextStage
    <3> QED
      BY <2>1, <2>2, <2>3, <3>2, MemBegins
  <2> QED
    BY <2>4, <2>5
<1>4. ASSUME NEW r \in Reviews, NEW d \in MemDecisions, Mem!DecideReview(r, d)
      PROVE  MemInv'
  BY <1>1, <1>4 DEF Mem!DecideReview
<1>5. ASSUME NEW q \in QaResults, NEW o \in MemOutcomes, Mem!RecordQaResult(q, o)
      PROVE  MemInv'
  BY <1>1, <1>5 DEF Mem!RecordQaResult
<1> QED
  BY <1>2, <1>3, <1>4, <1>5, MemByCeo, MemFinds, MemSteps, MemWrites, MemFails DEF Mem!Next

(* The initial states.                                                     *)
LEMMA MemInit == Mem!Init => MemInv
<1> SUFFICES ASSUME Mem!Init
             PROVE  MemInv
  OBVIOUS
<1>1. DOMAIN memRecords = {} /\ memRecords = [x \in {} |-> 1]
  BY DEF Mem!Init, Mem!EmptyBag, Mem!SetToBag
<1>2. MemRecords
  BY <1>1, FS_EmptySet DEF MemRecords
<1>3. memTick = Mem!Idle /\ memShipped \subseteq Shipments
  BY DEF Mem!Init
<1> QED
  BY <1>2, <1>3 DEF MemInv, MemTicks, MemHeld, MemForgot, Mem!Idle, MemStages

(* Of two sets of lessons the larger one has no fewer rows.                *)
LEMMA MemCounts == \A S : Mem!Cardinality(S) = Cardinality(S)
  BY DEF Mem!Cardinality, Mem!IsFiniteSet, Cardinality, IsFiniteSet

LEMMA MemRowsFinite ==
  ASSUME MemRecords, NEW S \in SUBSET DOMAIN memRecords
  PROVE  IsFiniteSet(Mem!Rows(S))
<1> DEFINE of(x) == {x} \X (1 .. Mem!Copies(x))
<1>1. IsFiniteSet(S)
  BY FS_Subset DEF MemRecords
<1>2. ASSUME NEW x \in S
      PROVE  IsFiniteSet(of(x))
  <2>1. Mem!Copies(x) = memRecords[x] /\ memRecords[x] \in Nat
    BY DEF MemRecords, Mem!Copies, Mem!BagIn, Mem!BagToSet
  <2>2. IsFiniteSet(1 .. Mem!Copies(x))
    BY <2>1, FS_Interval
  <2>3. IsFiniteSet({x})
    BY FS_Singleton
  <2> QED
    BY <2>2, <2>3, FS_Product
<1>3. PICK images : images = {of(x) : x \in S}
  OBVIOUS
<1>4. IsFiniteSet(images)
  <2>1. PICK f : f = [x \in S |-> of(x)]
    OBVIOUS
  <2>2. f \in Surjection(S, images)
    BY <1>3, <2>1 DEF Surjection
  <2> QED
    BY <1>1, <2>2, FS_Surjection
<1>5. \A T \in images : IsFiniteSet(T)
  BY <1>2, <1>3
<1>6. IsFiniteSet(UNION images)
  BY <1>4, <1>5, FS_UNION
<1> QED
  BY <1>3, <1>6 DEF Mem!Rows

LEMMA MemRowsGrow ==
  ASSUME MemRecords, NEW S \in SUBSET DOMAIN memRecords, NEW T \in SUBSET S
  PROVE  /\ Mem!Cardinality(Mem!Rows(T)) \in Nat /\ Mem!Cardinality(Mem!Rows(S)) \in Nat
         /\ Mem!Cardinality(Mem!Rows(T)) <= Mem!Cardinality(Mem!Rows(S))
<1>1. IsFiniteSet(Mem!Rows(S))
  BY MemRowsFinite
<1>2. Mem!Rows(T) \subseteq Mem!Rows(S)
  BY DEF Mem!Rows
<1>3. /\ IsFiniteSet(Mem!Rows(T))
      /\ Cardinality(Mem!Rows(T)) <= Cardinality(Mem!Rows(S))
  BY <1>1, <1>2, FS_Subset
<1> QED
  BY <1>1, <1>3, FS_CardinalityType, MemCounts

(* The driver's standards come before its other lessons.                   *)
LEMMA MemStandardsFirst ==
  ASSUME MemRecords
  PROVE  Mem!StandardsFirst
<1> DEFINE known == {z \in DOMAIN memRecords : z.category \in Mem!PlanningCategories}
           ahead(x) == {z \in known : z.confidence > x.confidence}
           recalled(n) == {x \in known : Mem!Cardinality(Mem!Rows(ahead(x))) < n}
<1>1. \A n : Mem!Recalled(n) = recalled(n)
  BY DEF Mem!Recalled, Mem!BagToSet
<1>2. ASSUME NEW n \in Int, NEW x \in recalled(n), NEW y \in DOMAIN memRecords,
             Mem!Own(x), Mem!Own(y), x.category # "standards", y.category = "standards"
      PROVE  y \in recalled(n)
  <2>1. x \in MemOwn /\ y \in MemOwn
    BY <1>2, MemApart DEF MemRecords
  <2>2. x.confidence \in 0 .. 80 /\ y.confidence = 90
    BY <1>2, <2>1 DEF MemOwn
  <2>3. \A z \in DOMAIN memRecords : z.confidence \in Nat
    <3>1. \A z \in MemByHand : z.confidence \in Nat
      BY DEF MemByHand
    <3>2. \A z \in MemOwn : z.confidence \in Nat
      BY DEF MemOwn
    <3> QED
      BY <3>1, <3>2 DEF MemRecords
  <2>4. ahead(y) \in SUBSET ahead(x) /\ ahead(x) \in SUBSET DOMAIN memRecords
    BY <2>2, <2>3
  <2>5. y \in known
    BY <1>2 DEF Mem!PlanningCategories
  <2> HIDE DEF known, ahead
  <2>6. /\ Mem!Cardinality(Mem!Rows(ahead(y))) \in Nat
        /\ Mem!Cardinality(Mem!Rows(ahead(x))) \in Nat
        /\ Mem!Cardinality(Mem!Rows(ahead(y))) <= Mem!Cardinality(Mem!Rows(ahead(x)))
    BY <2>4, MemRowsGrow
  <2> QED
    BY <2>5, <2>6
<1> HIDE DEF recalled
<1>3. ASSUME NEW n \in 1 .. Mem!BagCardinality(memRecords),
             NEW x \in Mem!Recalled(n), NEW y \in Mem!BagToSet(memRecords),
             Mem!Own(x), Mem!Own(y), x.category # "standards", y.category = "standards"
      PROVE  y \in Mem!Recalled(n)
  BY <1>1, <1>2, <1>3 DEF Mem!BagToSet
<1> QED
  BY <1>3 DEF Mem!StandardsFirst

(* What the driver learns it learns once: no two records of its own are of *)
(* one source, whatever fails or crashes in between and whatever the CEO   *)
(* writes down and decides meanwhile; what a tick without a failure has    *)
(* found due has a record of its source, the lesson's or one of the CEO's  *)
(* that names it; and where its lessons compete for a place in a brief,    *)
(* its standards come first, for any number of reviews, QA results and     *)
(* releases and any threshold (memory-ingestion-service.ts,                *)
(* memory-learning-service.ts).                                            *)
THEOREM LessonsStayKept == Spec => []LessonsKept
<1> DEFINE I == part = "memory" => MemInv
<1>1. Init => I
  BY MemInit DEF Init
<1>2. I /\ [Next]_vars => I'
  <2>1. ASSUME I, part' = "memory", Next
        PROVE  MemInv'
    <3>1. MemInv /\ Mem!Next
      BY <2>1 DEF Next
    <3> QED
      BY <3>1, MemGoesOn
  <2>2. ASSUME I, UNCHANGED vars
        PROVE  I'
    BY <2>2 DEF vars, memVars, MemInv, MemRecords, MemHeld, MemForgot, MemLearned,
                MemWritten
  <2> QED
    BY <2>1, <2>2
<1>3. I => LessonsKept
  <2>1. ASSUME MemInv
        PROVE  Mem!LearnedOnce /\ Mem!NothingForgotten
    <3>1. Mem!LearnedOnce
      BY <2>1 DEF MemInv, MemRecords, Mem!LearnedOnce, Mem!Copies, Mem!BagIn, Mem!BagToSet
    <3>2. Mem!NothingForgotten
      BY <2>1 DEF MemInv, MemForgot, MemLearned, Mem!NothingForgotten, Mem!BagToSet
    <3> QED
      BY <3>1, <3>2
  <2> QED
    BY <2>1, MemStandardsFirst DEF MemInv, LessonsKept, Mem!LessonsKept
<1> HIDE DEF I
<1> QED
  BY <1>1, <1>2, <1>3, PTL DEF Spec
---------------------------------------------------------------------------
(* Repositories.  Whatever the analyses did to them, the snapshots are of  *)
(* checkouts the repository has had; the rest is about any two of these.   *)

RepoPaths ==
    {"action", "admin", "grouped", "moved", "guide", "library", "source", "check",
     "middleware", "manifest", "schema", "authfile"}

RepoWritten == UNION {RepoContents[p] : p \in RepoPaths}

RepoGiven == {RepoTree[p] : p \in DOMAIN RepoTree}

RepoValues == RepoWritten \cup RepoGiven

RepoTrees == UNION {[D -> RepoValues] : D \in SUBSET RepoPaths}

RepoInv ==
    /\ repoTree \in RepoTrees
    /\ repoRuns \in [RepoRuns -> [stage : {"idle", "cloned", "analyzing", "stored", "refused"},
                                  tree : RepoTrees]]
    /\ repoSnapshots \in Seq([status : {"completed", "failed"}, tree : RepoTrees])

(* What is known of the paths.                                             *)
LEMMA RepoPathsAre == DOMAIN RepoAbout = RepoPaths
  BY DEF RepoAbout, RepoPaths

LEMMA RepoPathsFinite == IsFiniteSet(RepoPaths)
<1>1. IsFiniteSet({"action", "admin", "grouped", "moved"})
  <2>1. IsFiniteSet({"action"} \cup {"admin"})
    BY FS_Singleton, FS_AddElement
  <2>2. IsFiniteSet(({"action"} \cup {"admin"}) \cup {"grouped"})
    BY <2>1, FS_AddElement
  <2>3. IsFiniteSet((({"action"} \cup {"admin"}) \cup {"grouped"}) \cup {"moved"})
    BY <2>2, FS_AddElement
  <2>4. {"action", "admin", "grouped", "moved"}
          = (({"action"} \cup {"admin"}) \cup {"grouped"}) \cup {"moved"}
    OBVIOUS
  <2> QED
    BY <2>3, <2>4
<1>2. IsFiniteSet({"guide", "library", "source", "check"})
  <2>1. IsFiniteSet({"guide"} \cup {"library"})
    BY FS_Singleton, FS_AddElement
  <2>2. IsFiniteSet(({"guide"} \cup {"library"}) \cup {"source"})
    BY <2>1, FS_AddElement
  <2>3. IsFiniteSet((({"guide"} \cup {"library"}) \cup {"source"}) \cup {"check"})
    BY <2>2, FS_AddElement
  <2>4. {"guide", "library", "source", "check"}
          = (({"guide"} \cup {"library"}) \cup {"source"}) \cup {"check"}
    OBVIOUS
  <2> QED
    BY <2>3, <2>4
<1>3. IsFiniteSet({"middleware", "manifest", "schema", "authfile"})
  <2>1. IsFiniteSet({"middleware"} \cup {"manifest"})
    BY FS_Singleton, FS_AddElement
  <2>2. IsFiniteSet(({"middleware"} \cup {"manifest"}) \cup {"schema"})
    BY <2>1, FS_AddElement
  <2>3. IsFiniteSet((({"middleware"} \cup {"manifest"}) \cup {"schema"}) \cup {"authfile"})
    BY <2>2, FS_AddElement
  <2>4. {"middleware", "manifest", "schema", "authfile"}
          = (({"middleware"} \cup {"manifest"}) \cup {"schema"}) \cup {"authfile"}
    OBVIOUS
  <2> QED
    BY <2>3, <2>4
<1>4. IsFiniteSet(({"action", "admin", "grouped", "moved"}
                   \cup {"guide", "library", "source", "check"})
                  \cup {"middleware", "manifest", "schema", "authfile"})
  BY <1>1, <1>2, <1>3, FS_Union
<1>5. RepoPaths = ({"action", "admin", "grouped", "moved"}
                   \cup {"guide", "library", "source", "check"})
                  \cup {"middleware", "manifest", "schema", "authfile"}
  BY DEF RepoPaths
<1> QED
  BY <1>4, <1>5

RepoPathSays(p) ==
    /\ RepoAbout[p].depth \in {0, 1}
    /\ RepoAbout[p].kind \in Repo!RouteKinds => ~RepoAbout[p].ignored
    /\ RepoAbout[p].kind = "schema" => p = "schema"
    /\ RepoAbout[p].class = "middleware" => p \in {"middleware", "authfile"}

LEMMA RepoPathsSay ==
  ASSUME NEW p \in RepoPaths
  PROVE  RepoPathSays(p)
<1>1. RepoPathSays("action") /\ RepoPathSays("admin")
  BY DEF RepoPathSays, RepoAbout, AFile, Repo!RouteKinds
<1>2. RepoPathSays("grouped") /\ RepoPathSays("moved")
  BY DEF RepoPathSays, RepoAbout, AFile, Repo!RouteKinds
<1>3. RepoPathSays("guide") /\ RepoPathSays("library")
  BY DEF RepoPathSays, RepoAbout, AFile, Repo!RouteKinds
<1>4. RepoPathSays("source") /\ RepoPathSays("check")
  BY DEF RepoPathSays, RepoAbout, AFile, Repo!RouteKinds
<1>5. RepoPathSays("middleware") /\ RepoPathSays("manifest")
  BY DEF RepoPathSays, RepoAbout, AFile, Repo!RouteKinds
<1>6. RepoPathSays("schema") /\ RepoPathSays("authfile")
  BY DEF RepoPathSays, RepoAbout, AFile, Repo!RouteKinds
<1> QED
  BY <1>1, <1>2, <1>3, <1>4, <1>5, <1>6 DEF RepoPaths

LEMMA RepoSchema ==
  /\ RepoAbout["schema"].kind = "schema" /\ ~RepoAbout["schema"].large
  /\ RepoAbout["middleware"].known /\ ~RepoAbout["middleware"].ignored
  /\ ~RepoAbout["middleware"].large /\ RepoAbout["middleware"].ext = "ts"
  /\ RepoAbout["middleware"].kind = "middleware"
  /\ ~RepoAbout["authfile"].ignored /\ ~RepoAbout["authfile"].large
  /\ RepoAbout["authfile"].ext = "ts" /\ RepoAbout["authfile"].kind = "other"
  BY DEF RepoAbout, AFile

(* The steps of the analyses.                                              *)
LEMMA RepoTreeIs ==
  ASSUME NEW t \in RepoTrees
  PROVE  DOMAIN t \subseteq RepoPaths /\ t \in [DOMAIN t -> RepoValues]
  BY DEF RepoTrees

LEMMA RepoEdits ==
  ASSUME NEW t \in RepoTrees, NEW u \in Repo!Edits(t)
  PROVE  u \in RepoTrees
<1>1. DOMAIN t \in SUBSET RepoPaths /\ t \in [DOMAIN t -> RepoValues]
  BY RepoTreeIs
<1>2. ASSUME NEW p \in DOMAIN t, u = [q \in DOMAIN t \ {p} |-> t[q]]
      PROVE  u \in RepoTrees
  <2>1. u \in [DOMAIN t \ {p} -> RepoValues] /\ DOMAIN t \ {p} \in SUBSET RepoPaths
    BY <1>1, <1>2
  <2> QED
    BY <2>1 DEF RepoTrees
<1>3. ASSUME NEW p \in RepoPaths, NEW c \in RepoContents[p],
             u = [q \in DOMAIN t \cup {p} |-> IF q = p THEN c ELSE t[q]]
      PROVE  u \in RepoTrees
  <2>1. c \in RepoValues
    BY DEF RepoValues, RepoWritten
  <2>2. u \in [DOMAIN t \cup {p} -> RepoValues] /\ DOMAIN t \cup {p} \in SUBSET RepoPaths
    BY <1>1, <1>3, <2>1
  <2> QED
    BY <2>2 DEF RepoTrees
<1> QED
  BY <1>2, <1>3, RepoPathsAre DEF Repo!Edits

LEMMA RepoFirst == RepoTree \in RepoTrees
<1>1. RepoTree = [p \in DOMAIN RepoTree |-> RepoTree[p]] /\ DOMAIN RepoTree \in SUBSET RepoPaths
  BY RepoPathsAre DEF RepoTree
<1>2. RepoTree \in [DOMAIN RepoTree -> RepoValues]
  <2>1. ASSUME NEW p \in DOMAIN RepoTree
        PROVE  RepoTree[p] \in RepoValues
    <3>1. RepoTree[p] \in RepoGiven
      BY DEF RepoGiven
    <3> QED
      BY <3>1 DEF RepoValues
  <2> QED
    BY <1>1, <2>1
<1> QED
  BY <1>1, <1>2 DEF RepoTrees

LEMMA RepoInit == Repo!Init => RepoInv
  BY RepoFirst DEF Repo!Init, Repo!Idle, RepoInv

LEMMA RepoGoesOn ==
  ASSUME RepoInv, Repo!Next
  PROVE  RepoInv'
<1> DEFINE rows == [stage : {"idle", "cloned", "analyzing", "stored", "refused"},
                    tree : RepoTrees]
<1>0. /\ repoTree \in RepoTrees /\ repoRuns \in [RepoRuns -> rows]
      /\ repoSnapshots \in Seq([status : {"completed", "failed"}, tree : RepoTrees])
  BY DEF RepoInv
<1>1. CASE Repo!Commit
  <2>1. PICK t \in Repo!Edits(repoTree) : repoTree' \in Repo!Edits(t)
    BY <1>1 DEF Repo!Commit
  <2>2. repoTree' \in RepoTrees
    BY <1>0, <2>1, RepoEdits
  <2> QED
    BY <1>0, <1>1, <2>2 DEF Repo!Commit, RepoInv
<1>2. Repo!Idle \in rows
  BY RepoFirst DEF Repo!Idle
<1>3. CASE Repo!Restart
  BY <1>0, <1>2, <1>3 DEF Repo!Restart, RepoInv
<1>4. ASSUME NEW r \in RepoRuns,
             Repo!Clone(r) \/ Repo!CloneFails(r) \/ Repo!Conclude(r) \/ Repo!WriteFails(r)
      PROVE  RepoInv'
  <2>1. [stage |-> "cloned", tree |-> repoTree] \in rows
    BY <1>0
  <2> QED
    BY <1>0, <1>2, <1>4, <2>1
       DEF Repo!Clone, Repo!CloneFails, Repo!Conclude, Repo!WriteFails, RepoInv
<1>5. ASSUME NEW r \in RepoRuns,
             Repo!MarkAnalyzing(r) \/ Repo!StoreSnapshot(r) \/ Repo!StoreFailure(r)
      PROVE  RepoInv'
  <2>1. PICK s \in {"analyzing", "stored", "refused"} :
            repoRuns' = [repoRuns EXCEPT ![r].stage = s] /\ repoTree' = repoTree
    BY <1>5 DEF Repo!MarkAnalyzing, Repo!StoreSnapshot, Repo!StoreFailure
  <2>2. repoRuns' \in [RepoRuns -> rows]
    BY <1>0, <2>1
  <2>3. repoRuns[r].tree \in RepoTrees
    BY <1>0
  <2>4. repoSnapshots' \in Seq([status : {"completed", "failed"}, tree : RepoTrees])
    <3>1. \/ repoSnapshots' = repoSnapshots
          \/ \E status \in {"completed", "failed"} :
                repoSnapshots' = Append(repoSnapshots, [status |-> status,
                                                        tree |-> repoRuns[r].tree])
      BY <1>5 DEF Repo!MarkAnalyzing, Repo!StoreSnapshot, Repo!StoreFailure
    <3>2. ASSUME NEW status \in {"completed", "failed"},
                 repoSnapshots' = Append(repoSnapshots, [status |-> status,
                                                         tree |-> repoRuns[r].tree])
          PROVE  repoSnapshots' \in Seq([status : {"completed", "failed"}, tree : RepoTrees])
      <4>1. [status |-> status, tree |-> repoRuns[r].tree]
              \in [status : {"completed", "failed"}, tree : RepoTrees]
        BY <2>3
      <4> QED
        BY <1>0, <3>2, <4>1, AppendProperties
    <3> QED
      BY <1>0, <3>1, <3>2
  <2> QED
    BY <1>0, <2>1, <2>2, <2>4 DEF RepoInv
<1> QED
  BY <1>1, <1>3, <1>4, <1>5 DEF Repo!Next

---------------------------------------------------------------------------
(* What the analysis of a checkout holds, and the comparison of two.       *)
LEMMA RepoWalked ==
  ASSUME NEW t \in RepoTrees
  PROVE  /\ Repo!Walk(t) \subseteq DOMAIN t /\ DOMAIN t \subseteq RepoPaths
         /\ IsFiniteSet(Repo!Walk(t))
<1>1. Repo!Walk(t) \subseteq DOMAIN t
  BY DEF Repo!Walk, Repo!Visible
<1>2. DOMAIN t \subseteq RepoPaths
  BY RepoTreeIs
<1> QED
  BY <1>1, <1>2, RepoPathsFinite, FS_Subset

LEMMA RepoCounts == \A S : Repo!Cardinality(S) = Cardinality(S)
  BY DEF Repo!Cardinality, Repo!IsFiniteSet, Cardinality, IsFiniteSet

(* A checkout all of which was walked.                                     *)
LEMMA RepoSeen ==
  ASSUME NEW t \in RepoTrees, Repo!Walk(t) = Repo!Visible(t)
  PROVE  Repo!Walk(t) = {p \in DOMAIN t : ~RepoAbout[p].ignored}
<1>1. \A p \in DOMAIN t : RepoAbout[p].depth <= 6
  <2>1. ASSUME NEW p \in DOMAIN t
        PROVE  RepoAbout[p].depth <= 6
    <3>1. RepoAbout[p].depth \in {0, 1}
      BY RepoTreeIs, RepoPathsSay DEF RepoPathSays
    <3> QED
      BY <3>1
  <2> QED
    BY <2>1
<1> QED
  BY <1>1 DEF Repo!Visible

(* The differences a report consists of.                                   *)
RepoReport(b, a) == Repo!Comparison(Repo!Analysis(b), Repo!Analysis(a))

LEMMA RepoAnalysed ==
  ASSUME NEW t
  PROVE  /\ Repo!Analysis(t).total = Repo!Cardinality(Repo!Walk(t))
         /\ Repo!Analysis(t).important = Repo!ImportantFiles(t)
         /\ Repo!Analysis(t).prints = Repo!Fingerprints(t)
         /\ Repo!Analysis(t).routes = Repo!Routes(t)
         /\ Repo!Analysis(t).models = Repo!Models(t)
  BY DEF Repo!Analysis

LEMMA RepoReported ==
  ASSUME NEW b, NEW a
  PROVE  /\ RepoReport(b, a).files =
              Repo!Diff(Repo!ImportantFiles(b), Repo!ImportantFiles(a))
         /\ RepoReport(b, a).changed =
              Repo!Changed(Repo!Fingerprints(b), Repo!Fingerprints(a))
         /\ RepoReport(b, a).routes = Repo!RouteChanges(Repo!Routes(b), Repo!Routes(a))
         /\ RepoReport(b, a).models = Repo!Diff(Repo!Models(b), Repo!Models(a))
  BY RepoAnalysed DEF RepoReport, Repo!Comparison

LEMMA RepoDiff ==
  ASSUME NEW S, NEW T
  PROVE  /\ Repo!Diff(S, T).added = T \ S /\ Repo!Diff(S, T).removed = S \ T
  BY DEF Repo!Diff

(* Nothing has changed between a checkout and itself.                      *)
LEMMA RepoDiffSelf ==
  ASSUME NEW S
  PROVE  ~Repo!Differs(Repo!Diff(S, S))
  BY DEF Repo!Differs, Repo!Diff

LEMMA RepoUnchanged ==
  ASSUME NEW t \in RepoTrees
  PROVE  Repo!AffectedAreas(RepoReport(t, t)) = {}
<1>1. PICK f : f = Repo!Analysis(t)
  OBVIOUS
<1>2. PICK c : c = RepoReport(t, t)
  OBVIOUS
<1>3. c = Repo!Comparison(f, f)
  BY <1>1, <1>2 DEF RepoReport
<1>4. f.total \in Int
  BY <1>1, RepoAnalysed, RepoWalked, RepoCounts, FS_CardinalityType
<1>5. /\ ~Repo!Differs(c.files) /\ ~Repo!Differs(c.apiRoutes) /\ ~Repo!Differs(c.actions)
      /\ ~Repo!Differs(c.models) /\ ~Repo!Differs(c.deps) /\ ~Repo!Differs(c.devDeps)
      /\ ~Repo!Differs(c.tests) /\ ~Repo!Differs(c.risks)
  BY <1>3, RepoDiffSelf DEF Repo!Comparison
<1>6. c.delta = 0
  BY <1>3, <1>4 DEF Repo!Comparison
<1>7. c.changed = {} /\ c.categories = {}
  BY <1>3 DEF Repo!Comparison, Repo!Changed, Repo!CategoryChanges
<1>8. ~Repo!Differs(c.routes) /\ c.routes.changed = {}
  <2>1. c.routes = Repo!RouteChanges(Repo!Routes(t), Repo!Routes(t))
    BY <1>2, RepoReported
  <2>2. \A r \in Repo!Routes(t) : r.type = Repo!Kind(r.path)
    BY DEF Repo!Routes
  <2> QED
    BY <2>1, <2>2 DEF Repo!RouteChanges, Repo!Differs
<1>9. ~Repo!Differs(c.scripts) /\ c.scripts.changed = {}
  BY <1>3 DEF Repo!Comparison, Repo!ScriptChanges, Repo!Differs
<1>10. Repo!AffectedAreas(c) = {}
  BY <1>5, <1>6, <1>7, <1>8, <1>9 DEF Repo!AffectedAreas
<1> QED
  BY <1>2, <1>10

(* What is named as changed has been rewritten, and what has been          *)
(* rewritten is named, if its hash was taken.                              *)
LEMMA RepoChanged ==
  ASSUME NEW b \in RepoTrees, NEW a \in RepoTrees
  PROVE  RepoReport(b, a).changed =
           {p \in Repo!Hashed(b) \cap Repo!Hashed(a) : b[p] # a[p]}
<1>1. \A t : DOMAIN Repo!Fingerprints(t) = Repo!Hashed(t)
             /\ \A p \in Repo!Hashed(t) : Repo!Fingerprints(t)[p] = t[p]
  BY DEF Repo!Fingerprints
<1> QED
  BY <1>1, RepoReported DEF Repo!Changed

(* The routes that have come or gone are those of files that have.         *)
LEMMA RepoRoutes ==
  ASSUME NEW b \in RepoTrees, NEW a \in RepoTrees,
         Repo!Walk(b) = Repo!Visible(b), Repo!Walk(a) = Repo!Visible(a)
  PROVE  RepoReport(b, a).routes.added \cup RepoReport(b, a).routes.removed
           = {[path |-> p, type |-> Repo!Kind(p)] :
                p \in {q \in (DOMAIN b \ DOMAIN a) \cup (DOMAIN a \ DOMAIN b) :
                         Repo!Kind(q) \in Repo!RouteKinds}}
<1> DEFINE route(p) == [path |-> p, type |-> Repo!Kind(p)]
           served(t) == {q \in DOMAIN t : Repo!Kind(q) \in Repo!RouteKinds}
           paths(routes) == {r.path : r \in routes}
<1>1. ASSUME NEW t \in RepoTrees, Repo!Walk(t) = Repo!Visible(t)
      PROVE  Repo!Routes(t) = {route(p) : p \in served(t)}
  <2>1. \A p \in DOMAIN t : Repo!Kind(p) \in Repo!RouteKinds => ~RepoAbout[p].ignored
    BY RepoTreeIs, RepoPathsSay DEF RepoPathSays, Repo!Kind
  <2>2. {q \in Repo!Walk(t) : Repo!Kind(q) \in Repo!RouteKinds} = served(t)
    BY <1>1, <2>1, RepoSeen
  <2> HIDE DEF served
  <2> QED
    BY <2>2 DEF Repo!Routes
<1>2. PICK B, A : B = served(b) /\ A = served(a)
  OBVIOUS
<1>3. Repo!Routes(b) = {route(p) : p \in B} /\ Repo!Routes(a) = {route(p) : p \in A}
  BY <1>1, <1>2
<1>4. paths(Repo!Routes(b)) = B /\ paths(Repo!Routes(a)) = A
  <2>1. ASSUME NEW S
        PROVE  paths({route(p) : p \in S}) = S
    <3>1. \A p : route(p).path = p
      OBVIOUS
    <3> QED
      BY <3>1
  <2> QED
    BY <1>3, <2>1
<1>5. /\ RepoReport(b, a).routes.added = {r \in Repo!Routes(a) : r.path \notin B}
      /\ RepoReport(b, a).routes.removed = {r \in Repo!Routes(b) : r.path \notin A}
  <2>1. ASSUME NEW X, NEW Y
        PROVE  /\ Repo!RouteChanges(X, Y).added = {r \in Y : r.path \notin paths(X)}
               /\ Repo!RouteChanges(X, Y).removed = {r \in X : r.path \notin paths(Y)}
    BY DEF Repo!RouteChanges
  <2> HIDE DEF paths
  <2> QED
    BY <1>4, <2>1, RepoReported
<1>6. /\ RepoReport(b, a).routes.added = {route(p) : p \in A \ B}
      /\ RepoReport(b, a).routes.removed = {route(p) : p \in B \ A}
  BY <1>3, <1>5
<1>7. {q \in (DOMAIN b \ DOMAIN a) \cup (DOMAIN a \ DOMAIN b) :
         Repo!Kind(q) \in Repo!RouteKinds} = (A \ B) \cup (B \ A)
  BY <1>2
<1> QED
  BY <1>6, <1>7

(* Files come or gone are reported, unless as many have come as gone.      *)
LEMMA RepoFilesAffected ==
  ASSUME NEW c, c.delta # 0
  PROVE  "files" \in Repo!AffectedAreas(c)
  BY DEF Repo!AffectedAreas

(* A file that was rewritten is among the files the report names, and so   *)
(* is one the analysis knows by name that has come or gone.                *)
LEMMA RepoTouched ==
  ASSUME NEW b \in RepoTrees, NEW a \in RepoTrees, NEW p \in RepoPaths,
         Repo!Walk(b) = Repo!Visible(b), Repo!Walk(a) = Repo!Visible(a),
         ~RepoAbout[p].ignored, ~RepoAbout[p].large,
         Repo!Category(p) # "asset",
         \/ p \in DOMAIN b \cap DOMAIN a /\ b[p] # a[p]
         \/ /\ p \in (DOMAIN b \ DOMAIN a) \cup (DOMAIN a \ DOMAIN b)
            /\ RepoAbout[p].known
  PROVE  \/ p \in RepoReport(b, a).files.added \cup RepoReport(b, a).files.removed
         \/ p \in RepoReport(b, a).changed
<1>1. CASE p \in DOMAIN b \cap DOMAIN a /\ b[p] # a[p]
  <2>1. p \in Repo!Hashed(b) /\ p \in Repo!Hashed(a)
    BY <1>1, RepoSeen DEF Repo!Hashed
  <2> QED
    BY <1>1, <2>1, RepoChanged
<1>2. CASE /\ p \in (DOMAIN b \ DOMAIN a) \cup (DOMAIN a \ DOMAIN b)
           /\ RepoAbout[p].known
  <2>1. ASSUME NEW t \in RepoTrees
        PROVE  p \in Repo!ImportantFiles(t) <=> p \in DOMAIN t
    <3>1. Repo!Walk(t) \subseteq DOMAIN t
      BY RepoWalked
    <3> QED
      BY <1>2, <3>1 DEF Repo!ImportantFiles
  <2> QED
    BY <1>2, <2>1, RepoReported, RepoDiff
<1> QED
  BY <1>1, <1>2

LEMMA RepoRated ==
  ASSUME NEW level, NEW items
  PROVE  /\ Repo!Rated(level, items).level = level
         /\ Repo!Rated(level, items).blocking = {i \in items : i.level = "critical"}
         /\ Repo!Rated(level, items).roles = UNION {i.roles : i \in items}
  BY DEF Repo!Rated

(* An item of the highest level makes the impact critical.                 *)
LEMMA RepoRaises ==
  ASSUME NEW c, NEW item, item \in Repo!Items(c), item.level = "critical",
         "CTO" \in item.roles, Repo!AffectedAreas(c) # {}, ~Repo!DocumentationOnly(c)
  PROVE  Repo!Raised(c)
<1>1. PICK items : items = Repo!Items(c)
  OBVIOUS
<1>2. Repo!Impact(c) = Repo!Rated(Repo!Overall(items), items)
  BY <1>1 DEF Repo!Impact
<1>3. Repo!Overall(items) = "critical"
  <2> DEFINE found == {n \in DOMAIN Repo!Levels : \E i \in items : i.level = Repo!Levels[n]}
  <2>1. DOMAIN Repo!Levels = 1 .. 5 /\ Repo!Levels[5] = "critical"
    BY DEF Repo!Levels
  <2>2. 5 \in found /\ \A n \in found : n \in 1 .. 5
    BY <1>1, <2>1
  <2>3. Repo!Overall(items) = Repo!Levels[CHOOSE n \in found : \A k \in found : k <= n]
    BY <2>2 DEF Repo!Overall
  <2> HIDE DEF found
  <2>4. (CHOOSE n \in found : \A k \in found : k <= n) = 5
    BY <2>2
  <2> QED
    BY <2>1, <2>3, <2>4
<1>4. /\ Repo!Impact(c).level = "critical"
      /\ Repo!Impact(c).blocking = {i \in items : i.level = "critical"}
      /\ Repo!Impact(c).roles = UNION {i.roles : i \in items}
  BY <1>2, <1>3, RepoRated
<1>5. item \in Repo!Impact(c).blocking /\ "CTO" \in Repo!Impact(c).roles
  BY <1>1, <1>4
<1> QED
  BY <1>4, <1>5 DEF Repo!Raised

(* A model of the database that is gone is such an item.                   *)
LEMMA RepoModelGone ==
  ASSUME NEW c, NEW m \in c.models.removed, ~Repo!DocumentationOnly(c)
  PROVE  Repo!Raised(c)
<1>1. PICK item : item = Repo!Item("database", "critical",
                            {"CTO", "Backend Engineer", "QA Engineer", "Release Manager"},
                            c.models.removed)
  OBVIOUS
<1>2. /\ item.level = "critical" /\ "CTO" \in item.roles /\ item.evidence # {}
  BY <1>1 DEF Repo!Item
<1>3. item \in Repo!SchemaItems(c)
  BY <1>1 DEF Repo!SchemaItems
<1>4. item \in Repo!Items(c)
  BY <1>2, <1>3 DEF Repo!Items
<1>5. "prismaModels" \in Repo!AffectedAreas(c)
  BY DEF Repo!AffectedAreas, Repo!Differs
<1> QED
  BY <1>2, <1>4, <1>5, RepoRaises

(* So is an access rule the report names.                                  *)
LEMMA RepoRuleTouched ==
  ASSUME NEW c, NEW p, Repo!Class(p) = "middleware", ~Repo!DocumentationOnly(c),
         p \in c.files.added \cup c.files.removed \cup c.changed
  PROVE  Repo!Raised(c)
<1> DEFINE touched == c.files.added \cup c.files.removed \cup c.changed
           rule == Repo!FileClasses["middleware"]
<1>1. PICK item : item = [rule EXCEPT !.evidence = {q \in touched :
                                                     Repo!Class(q) = "middleware"}]
  OBVIOUS
<1>2. /\ "middleware" \in DOMAIN Repo!FileClasses
      /\ rule = Repo!Item("auth", "critical",
                          {"CTO", "Security Engineer", "Backend Engineer"}, {})
  BY DEF Repo!FileClasses
<1>3. item.level = "critical" /\ "CTO" \in item.roles /\ item.evidence # {}
  <2>1. PICK names : names = {q \in touched : Repo!Class(q) = "middleware"}
    OBVIOUS
  <2>2. names # {}
    BY <2>1
  <2>3. item = [area |-> "auth", level |-> "critical",
                roles |-> {"CTO", "Security Engineer", "Backend Engineer"},
                evidence |-> names]
    <3>1. PICK r : r = rule
      OBVIOUS
    <3>2. r = [area |-> "auth", level |-> "critical",
               roles |-> {"CTO", "Security Engineer", "Backend Engineer"}, evidence |-> {}]
      BY <1>2, <3>1 DEF Repo!Item
    <3>3. item = [r EXCEPT !.evidence = names]
      BY <1>1, <2>1, <3>1
    <3> HIDE DEF rule
    <3> QED
      BY <3>2, <3>3
  <2> QED
    BY <2>2, <2>3
<1>4. item \in Repo!FileItems(c)
  BY <1>1, <1>2 DEF Repo!FileItems
<1>5. item \in Repo!Items(c)
  BY <1>3, <1>4 DEF Repo!Items
<1>6. "files" \in Repo!AffectedAreas(c)
  BY DEF Repo!AffectedAreas, Repo!Differs
<1> QED
  BY <1>3, <1>5, <1>6, RepoRaises

(* The models of a checkout are those of its schema.                       *)
LEMMA RepoModels ==
  ASSUME NEW t \in RepoTrees
  PROVE  /\ "schema" \in DOMAIN t => Repo!Models(t) = t["schema"]
         /\ "schema" \notin DOMAIN t => Repo!Models(t) = {}
<1>1. {q \in DOMAIN t : Repo!Kind(q) = "schema" /\ ~RepoAbout[q].large}
        = DOMAIN t \cap {"schema"}
  BY RepoTreeIs, RepoPathsSay, RepoSchema DEF RepoPathSays, Repo!Kind
<1>2. Repo!Models(t) = UNION {t[p] : p \in DOMAIN t \cap {"schema"}}
  BY <1>1 DEF Repo!Models
<1> QED
  BY <1>2

(* What is shown of the last two snapshots.                                *)
LEMMA RepoShows ==
  ASSUME RepoInv, Repo!Comparable
  PROVE  Repo!ReportIsTrue(Repo!Report) /\ Repo!NothingPlayedDown(Repo!Report)
<1>1. PICK b \in RepoTrees, a \in RepoTrees : b = Repo!Before /\ a = Repo!After
  <2>1. /\ repoSnapshots \in Seq([status : {"completed", "failed"}, tree : RepoTrees])
        /\ Len(repoSnapshots) \in Nat /\ Len(repoSnapshots) >= 2
    BY DEF RepoInv, Repo!Comparable, Repo!Snapshots
  <2>2. PICK n \in Nat : n = Len(repoSnapshots)
    BY <2>1
  <2>3. n - 1 \in 1 .. n /\ n \in 1 .. n
    BY <2>1, <2>2
  <2>4. \A i \in 1 .. n : repoSnapshots[i] \in [status : {"completed", "failed"},
                                               tree : RepoTrees]
    BY <2>1, <2>2, ElementOfSeq
  <2>5. /\ repoSnapshots[Len(repoSnapshots) - 1] \in [status : {"completed", "failed"},
                                                      tree : RepoTrees]
        /\ repoSnapshots[Len(repoSnapshots)] \in [status : {"completed", "failed"},
                                                  tree : RepoTrees]
    BY <2>2, <2>3, <2>4
  <2> QED
    BY <2>5 DEF Repo!Before, Repo!After, Repo!Snapshots
<1>2. PICK c : c = Repo!Report
  OBVIOUS
<1>3. c = RepoReport(b, a)
  BY <1>1, <1>2 DEF Repo!Report, RepoReport
<1>4. /\ Repo!Moved = (DOMAIN b \ DOMAIN a) \cup (DOMAIN a \ DOMAIN b)
      /\ Repo!Rewritten = {p \in DOMAIN b \cap DOMAIN a : b[p] # a[p]}
  BY <1>1 DEF Repo!Moved, Repo!Rewritten
<1>5. Repo!WalkedWhole <=> Repo!Walk(b) = Repo!Visible(b) /\ Repo!Walk(a) = Repo!Visible(a)
  BY <1>1 DEF Repo!WalkedWhole
<1>6. c.changed \subseteq Repo!Rewritten
  <2>1. Repo!Hashed(b) \subseteq DOMAIN b /\ Repo!Hashed(a) \subseteq DOMAIN a
    BY RepoWalked DEF Repo!Hashed
  <2> QED
    BY <1>3, <1>4, <2>1, RepoChanged
<1>7. Repo!Before = Repo!After => Repo!AffectedAreas(c) = {}
  BY <1>1, <1>3, RepoUnchanged
<1>8. ASSUME Repo!WalkedWhole, NEW p \in Repo!Rewritten,
             ~RepoAbout[p].ignored, ~RepoAbout[p].large, Repo!Category(p) # "asset"
      PROVE  p \in c.changed
  <2>1. p \in Repo!Hashed(b) /\ p \in Repo!Hashed(a)
    BY <1>4, <1>5, <1>8, RepoSeen DEF Repo!Hashed
  <2> QED
    BY <1>3, <1>4, <1>8, <2>1, RepoChanged
<1>9. ASSUME Repo!WalkedWhole
      PROVE  c.routes.added \cup c.routes.removed
               = {[path |-> p, type |-> Repo!Kind(p)] :
                    p \in {q \in Repo!Moved : Repo!Kind(q) \in Repo!RouteKinds}}
  BY <1>3, <1>4, <1>5, <1>9, RepoRoutes
<1>10. Repo!ReportIsTrue(c)
  BY <1>6, <1>7, <1>8, <1>9, RepoFilesAffected DEF Repo!ReportIsTrue
<1>11. ASSUME Repo!Grave, Repo!WalkedWhole, ~Repo!DocumentationOnly(c)
       PROVE  Repo!Raised(c)
  <2>1. ASSUME NEW p \in RepoPaths, Repo!Class(p) = "middleware",
               p \in Repo!Rewritten \/ (p \in Repo!Moved /\ RepoAbout[p].known)
        PROVE  Repo!Raised(c)
    <3>1. p \in Repo!Rewritten => p \in DOMAIN b \cap DOMAIN a /\ b[p] # a[p]
      BY <1>4
    <3>2. p \in {"middleware", "authfile"}
      BY <2>1, RepoPathsSay DEF RepoPathSays, Repo!Class
    <3>3. Repo!Category(p) # "asset"
      BY <3>2, RepoSchema DEF Repo!Category, Repo!Kind
    <3>4. p \in c.files.added \cup c.files.removed \cup c.changed
      BY <1>3, <1>4, <1>5, <1>11, <2>1, <3>1, <3>2, <3>3, RepoSchema, RepoTouched
    <3> QED
      BY <1>11, <2>1, <3>4, RepoRuleTouched
  <2>2. ASSUME NEW p \in RepoPaths, Repo!Kind(p) = "schema", p \in DOMAIN b,
               p \in DOMAIN a => b[p] \ a[p] # {}, b[p] # {}
        PROVE  Repo!Raised(c)
    <3>1. p = "schema"
      BY <2>2, RepoPathsSay DEF RepoPathSays, Repo!Kind
    <3>2. \E m : m \in Repo!Models(b) \ Repo!Models(a)
      BY <2>2, <3>1, RepoModels
    <3>3. \E m : m \in c.models.removed
      BY <1>3, <3>2, RepoReported, RepoDiff
    <3> QED
      BY <1>11, <3>3, RepoModelGone
  <2> QED
    BY <1>1, <1>11, <2>1, <2>2, RepoPathsAre DEF Repo!Grave, Repo!RuleChanged
<1> QED
  BY <1>2, <1>10, <1>11 DEF Repo!NothingPlayedDown

(* Whatever analyses run beside one another, fail or are cut off: the      *)
(* comparison of the last two snapshots names what was rewritten between   *)
(* the checkouts they were taken of and nothing else, and a rewritten      *)
(* access rule, one known by name that came or went, or a dropped model    *)
(* gets the highest impact, for any number of analyses, commits and        *)
(* snapshots (repository-snapshot-comparison.ts,                           *)
(* repository-impact-analysis.ts).                                         *)
THEOREM ChangesAreReported == Spec => []ChangesReported
<1> DEFINE I == part = "repos" => RepoInv
<1>1. Init => I
  BY RepoInit DEF Init
<1>2. I /\ [Next]_vars => I'
  <2>1. ASSUME I, part' = "repos", Next
        PROVE  RepoInv'
    <3>1. RepoInv /\ Repo!Next
      BY <2>1 DEF Next
    <3> QED
      BY <3>1, RepoGoesOn
  <2>2. ASSUME I, UNCHANGED vars
        PROVE  I'
    BY <2>2 DEF vars, repoVars, RepoInv
  <2> QED
    BY <2>1, <2>2
<1>3. I => ChangesReported
  BY RepoShows DEF ChangesReported, Repo!ChangesReported
<1> HIDE DEF I
<1> QED
  BY <1>1, <1>2, <1>3, PTL DEF Spec

---------------------------------------------------------------------------
(* Plans.  The tasks of a plan of the generator are where its blueprints   *)
(* place them.                                                             *)

PlanHas(b, i, id, deps, kind) ==
    /\ i \in DOMAIN b.order /\ b.order[i] = id
    /\ b.tasks[id].deps = deps /\ b.tasks[id].kind = kind

PlanName(bs, p) == bs[p[1]].order[p[2]]
PlanDeps(bs, p) == bs[p[1]].tasks[PlanName(bs, p)].deps
PlanKind(bs, p) == bs[p[1]].tasks[PlanName(bs, p)].kind

PlanListed(bs, f, i, id, deps, kind) ==
    /\ <<f, i>> \in Plan!Positions(bs)
    /\ PlanName(bs, <<f, i>>) = id
    /\ PlanDeps(bs, <<f, i>>) = deps /\ PlanKind(bs, <<f, i>>) = kind

PlanOrder(p) == Plan!OrderOfTask(p[1], p[2])

(* An entry that p may wait for.                                           *)
PlanEarlier(bs, dep, p) ==
    \E q \in Plan!Positions(bs) : PlanName(bs, q) = dep /\ PlanOrder(q) < PlanOrder(p)

(* What the numbers of the tasks and their dependencies rest on.           *)
PlanLaidOut(bs) ==
    /\ DOMAIN bs = 1 .. 3
    /\ \A p, q \in Plan!Positions(bs) : PlanName(bs, p) = PlanName(bs, q) => p = q
    /\ \A p \in Plan!Positions(bs) : \A dep \in PlanDeps(bs, p) : PlanEarlier(bs, dep, p)
    /\ \A p \in Plan!Positions(bs) : PlanKind(bs, p) \in {"implementation", "analysis"}
    /\ \E p \in Plan!Positions(bs) : PlanKind(bs, p) = "implementation"

(* One entry of the table, from the blueprint of its feature.              *)
LEMMA PlanEntry ==
  ASSUME NEW bs, DOMAIN bs = 1 .. 3, NEW f \in 1 .. 3, NEW i \in 1 .. 9,
         NEW id, NEW deps, NEW kind, PlanHas(bs[f], i, id, deps, kind)
  PROVE  PlanListed(bs, f, i, id, deps, kind)
<1>1. <<f, i>> \in (DOMAIN bs) \X (1 .. 9)
  OBVIOUS
<1>2. <<f, i>>[1] = f /\ <<f, i>>[2] = i
  OBVIOUS
<1>3. <<f, i>> \in Plan!Positions(bs)
  BY <1>1, <1>2 DEF Plan!Positions, PlanHas
<1> QED
  BY <1>2, <1>3 DEF PlanListed, PlanHas, PlanName, PlanDeps, PlanKind

(* The blueprints of the repository plan.                                  *)
LEMMA PlanSourceModel ==
  ASSUME NEW b, b = Plan!SourceModel
  PROVE  /\ DOMAIN b.order = 1 .. 5
         /\ PlanHas(b, 1, "inspect", {}, "implementation")
         /\ PlanHas(b, 2, "manager", {"inspect"}, "implementation")
         /\ PlanHas(b, 3, "manifests", {"manager"}, "implementation")
         /\ PlanHas(b, 4, "routing", {"manifests"}, "implementation")
         /\ PlanHas(b, 5, "database", {"manifests"}, "implementation")
<1>1. PICK o : o = <<"inspect", "manager", "manifests", "routing", "database">>
  OBVIOUS
<1>2. b.order = o
  BY <1>1 DEF Plan!SourceModel
<1>3. DOMAIN o = 1 .. 5
  BY <1>1
<1>4. /\ o[1] = "inspect"
      /\ o[2] = "manager"
      /\ o[3] = "manifests"
      /\ o[4] = "routing"
      /\ o[5] = "database"
  BY <1>1
<1>5. /\ b.tasks["inspect"] = Plan!Build("Backend Engineer", {}, 3)
      /\ b.tasks["manager"] = Plan!Build("Backend Engineer", {"inspect"}, 2)
      /\ b.tasks["manifests"] = Plan!Build("Backend Engineer", {"manager"}, 3)
      /\ b.tasks["routing"] = Plan!Build("Tech Lead", {"manifests"}, 3)
      /\ b.tasks["database"] = Plan!Build("Backend Engineer", {"manifests"}, 3)
  BY DEF Plan!SourceModel
<1>6. PlanHas(b, 1, "inspect", {}, "implementation")
  <2>1. PICK t : t = Plan!Build("Backend Engineer", {}, 3)
    OBVIOUS
  <2>2. t.deps = {} /\ t.kind = "implementation"
    BY <2>1 DEF Plan!Build, Plan!Blueprint
  <2>3. b.tasks["inspect"] = t
    BY <1>5, <2>1
  <2> QED
    BY <1>2, <1>3, <1>4, <2>2, <2>3 DEF PlanHas
<1>7. PlanHas(b, 2, "manager", {"inspect"}, "implementation")
  <2>1. PICK t : t = Plan!Build("Backend Engineer", {"inspect"}, 2)
    OBVIOUS
  <2>2. t.deps = {"inspect"} /\ t.kind = "implementation"
    BY <2>1 DEF Plan!Build, Plan!Blueprint
  <2>3. b.tasks["manager"] = t
    BY <1>5, <2>1
  <2> QED
    BY <1>2, <1>3, <1>4, <2>2, <2>3 DEF PlanHas
<1>8. PlanHas(b, 3, "manifests", {"manager"}, "implementation")
  <2>1. PICK t : t = Plan!Build("Backend Engineer", {"manager"}, 3)
    OBVIOUS
  <2>2. t.deps = {"manager"} /\ t.kind = "implementation"
    BY <2>1 DEF Plan!Build, Plan!Blueprint
  <2>3. b.tasks["manifests"] = t
    BY <1>5, <2>1
  <2> QED
    BY <1>2, <1>3, <1>4, <2>2, <2>3 DEF PlanHas
<1>9. PlanHas(b, 4, "routing", {"manifests"}, "implementation")
  <2>1. PICK t : t = Plan!Build("Tech Lead", {"manifests"}, 3)
    OBVIOUS
  <2>2. t.deps = {"manifests"} /\ t.kind = "implementation"
    BY <2>1 DEF Plan!Build, Plan!Blueprint
  <2>3. b.tasks["routing"] = t
    BY <1>5, <2>1
  <2> QED
    BY <1>2, <1>3, <1>4, <2>2, <2>3 DEF PlanHas
<1>10. PlanHas(b, 5, "database", {"manifests"}, "implementation")
  <2>1. PICK t : t = Plan!Build("Backend Engineer", {"manifests"}, 3)
    OBVIOUS
  <2>2. t.deps = {"manifests"} /\ t.kind = "implementation"
    BY <2>1 DEF Plan!Build, Plan!Blueprint
  <2>3. b.tasks["database"] = t
    BY <1>5, <2>1
  <2> QED
    BY <1>2, <1>3, <1>4, <2>2, <2>3 DEF PlanHas
<1> QED
  BY <1>2, <1>3, <1>6, <1>7, <1>8, <1>9, <1>10

LEMMA PlanApiRiskSummary ==
  ASSUME NEW b, b = Plan!ApiRiskSummary
  PROVE  /\ DOMAIN b.order = 1 .. 2
         /\ PlanHas(b, 1, "api", {"routing"}, "implementation")
         /\ PlanHas(b, 2, "risks", {"api", "database"}, "implementation")
<1>1. PICK o : o = <<"api", "risks">>
  OBVIOUS
<1>2. b.order = o
  BY <1>1 DEF Plan!ApiRiskSummary
<1>3. DOMAIN o = 1 .. 2
  BY <1>1
<1>4. /\ o[1] = "api"
      /\ o[2] = "risks"
  BY <1>1
<1>5. /\ b.tasks["api"] = Plan!Build("Backend Engineer", {"routing"}, 3)
      /\ b.tasks["risks"] = Plan!Build("Reviewer", {"api", "database"}, 3)
  BY DEF Plan!ApiRiskSummary
<1>6. PlanHas(b, 1, "api", {"routing"}, "implementation")
  <2>1. PICK t : t = Plan!Build("Backend Engineer", {"routing"}, 3)
    OBVIOUS
  <2>2. t.deps = {"routing"} /\ t.kind = "implementation"
    BY <2>1 DEF Plan!Build, Plan!Blueprint
  <2>3. b.tasks["api"] = t
    BY <1>5, <2>1
  <2> QED
    BY <1>2, <1>3, <1>4, <2>2, <2>3 DEF PlanHas
<1>7. PlanHas(b, 2, "risks", {"api", "database"}, "implementation")
  <2>1. PICK t : t = Plan!Build("Reviewer", {"api", "database"}, 3)
    OBVIOUS
  <2>2. t.deps = {"api", "database"} /\ t.kind = "implementation"
    BY <2>1 DEF Plan!Build, Plan!Blueprint
  <2>3. b.tasks["risks"] = t
    BY <1>5, <2>1
  <2> QED
    BY <1>2, <1>3, <1>4, <2>2, <2>3 DEF PlanHas
<1> QED
  BY <1>2, <1>3, <1>6, <1>7

LEMMA PlanIntelligenceUi ==
  ASSUME NEW b, b = Plan!IntelligenceUi
  PROVE  /\ DOMAIN b.order = 1 .. 2
         /\ PlanHas(b, 1, "ui", {"risks"}, "implementation")
         /\ PlanHas(b, 2, "coverage", {"ui"}, "implementation")
<1>1. PICK o : o = <<"ui", "coverage">>
  OBVIOUS
<1>2. b.order = o
  BY <1>1 DEF Plan!IntelligenceUi
<1>3. DOMAIN o = 1 .. 2
  BY <1>1
<1>4. /\ o[1] = "ui"
      /\ o[2] = "coverage"
  BY <1>1
<1>5. /\ b.tasks["ui"] = Plan!Build("Frontend Engineer", {"risks"}, 3)
      /\ b.tasks["coverage"] = Plan!Build("QA Engineer", {"ui"}, 2)
  BY DEF Plan!IntelligenceUi
<1>6. PlanHas(b, 1, "ui", {"risks"}, "implementation")
  <2>1. PICK t : t = Plan!Build("Frontend Engineer", {"risks"}, 3)
    OBVIOUS
  <2>2. t.deps = {"risks"} /\ t.kind = "implementation"
    BY <2>1 DEF Plan!Build, Plan!Blueprint
  <2>3. b.tasks["ui"] = t
    BY <1>5, <2>1
  <2> QED
    BY <1>2, <1>3, <1>4, <2>2, <2>3 DEF PlanHas
<1>7. PlanHas(b, 2, "coverage", {"ui"}, "implementation")
  <2>1. PICK t : t = Plan!Build("QA Engineer", {"ui"}, 2)
    OBVIOUS
  <2>2. t.deps = {"ui"} /\ t.kind = "implementation"
    BY <2>1 DEF Plan!Build, Plan!Blueprint
  <2>3. b.tasks["coverage"] = t
    BY <1>5, <2>1
  <2> QED
    BY <1>2, <1>3, <1>4, <2>2, <2>3 DEF PlanHas
<1> QED
  BY <1>2, <1>3, <1>6, <1>7

(* Those of every other plan.                                              *)
LEMMA PlanOutcomeDefinition ==
  ASSUME NEW b, b = Plan!OutcomeDefinition
  PROVE  /\ DOMAIN b.order = 1 .. 1
         /\ PlanHas(b, 1, "brief", {}, "analysis")
<1>1. PICK o : o = <<"brief">>
  OBVIOUS
<1>2. b.order = o
  BY <1>1 DEF Plan!OutcomeDefinition
<1>3. DOMAIN o = 1 .. 1
  BY <1>1
<1>4. /\ o[1] = "brief"
  BY <1>1
<1>5. /\ b.tasks["brief"] = Plan!Study("Product Manager", {}, 2)
  BY DEF Plan!OutcomeDefinition
<1>6. PlanHas(b, 1, "brief", {}, "analysis")
  <2>1. PICK t : t = Plan!Study("Product Manager", {}, 2)
    OBVIOUS
  <2>2. t.deps = {} /\ t.kind = "analysis"
    BY <2>1 DEF Plan!Study, Plan!Blueprint
  <2>3. b.tasks["brief"] = t
    BY <1>5, <2>1
  <2> QED
    BY <1>2, <1>3, <1>4, <2>2, <2>3 DEF PlanHas
<1> QED
  BY <1>2, <1>3, <1>6

LEMMA PlanTechnicalDesign ==
  ASSUME NEW b, b = Plan!TechnicalDesign
  PROVE  /\ DOMAIN b.order = 1 .. 4
         /\ PlanHas(b, 1, "touchpoints", {"brief"}, "analysis")
         /\ PlanHas(b, 2, "contracts", {"touchpoints"}, "analysis")
         /\ PlanHas(b, 3, "workflow", {"contracts"}, "analysis")
         /\ PlanHas(b, 4, "implement", {"workflow"}, "implementation")
<1>1. PICK o : o = <<"touchpoints", "contracts", "workflow", "implement">>
  OBVIOUS
<1>2. b.order = o
  BY <1>1 DEF Plan!TechnicalDesign
<1>3. DOMAIN o = 1 .. 4
  BY <1>1
<1>4. /\ o[1] = "touchpoints"
      /\ o[2] = "contracts"
      /\ o[3] = "workflow"
      /\ o[4] = "implement"
  BY <1>1
<1>5. /\ b.tasks["touchpoints"] = Plan!Study("Tech Lead", {"brief"}, 3)
      /\ b.tasks["contracts"] = Plan!Study("Backend Engineer", {"touchpoints"}, 3)
      /\ b.tasks["workflow"] = Plan!Study("Frontend Engineer", {"contracts"}, 3)
      /\ b.tasks["implement"] = Plan!Build("Backend Engineer", {"workflow"}, 5)
  BY DEF Plan!TechnicalDesign
<1>6. PlanHas(b, 1, "touchpoints", {"brief"}, "analysis")
  <2>1. PICK t : t = Plan!Study("Tech Lead", {"brief"}, 3)
    OBVIOUS
  <2>2. t.deps = {"brief"} /\ t.kind = "analysis"
    BY <2>1 DEF Plan!Study, Plan!Blueprint
  <2>3. b.tasks["touchpoints"] = t
    BY <1>5, <2>1
  <2> QED
    BY <1>2, <1>3, <1>4, <2>2, <2>3 DEF PlanHas
<1>7. PlanHas(b, 2, "contracts", {"touchpoints"}, "analysis")
  <2>1. PICK t : t = Plan!Study("Backend Engineer", {"touchpoints"}, 3)
    OBVIOUS
  <2>2. t.deps = {"touchpoints"} /\ t.kind = "analysis"
    BY <2>1 DEF Plan!Study, Plan!Blueprint
  <2>3. b.tasks["contracts"] = t
    BY <1>5, <2>1
  <2> QED
    BY <1>2, <1>3, <1>4, <2>2, <2>3 DEF PlanHas
<1>8. PlanHas(b, 3, "workflow", {"contracts"}, "analysis")
  <2>1. PICK t : t = Plan!Study("Frontend Engineer", {"contracts"}, 3)
    OBVIOUS
  <2>2. t.deps = {"contracts"} /\ t.kind = "analysis"
    BY <2>1 DEF Plan!Study, Plan!Blueprint
  <2>3. b.tasks["workflow"] = t
    BY <1>5, <2>1
  <2> QED
    BY <1>2, <1>3, <1>4, <2>2, <2>3 DEF PlanHas
<1>9. PlanHas(b, 4, "implement", {"workflow"}, "implementation")
  <2>1. PICK t : t = Plan!Build("Backend Engineer", {"workflow"}, 5)
    OBVIOUS
  <2>2. t.deps = {"workflow"} /\ t.kind = "implementation"
    BY <2>1 DEF Plan!Build, Plan!Blueprint
  <2>3. b.tasks["implement"] = t
    BY <1>5, <2>1
  <2> QED
    BY <1>2, <1>3, <1>4, <2>2, <2>3 DEF PlanHas
<1> QED
  BY <1>2, <1>3, <1>6, <1>7, <1>8, <1>9

LEMMA PlanQualityRelease ==
  ASSUME NEW b, b = Plan!QualityRelease
  PROVE  /\ DOMAIN b.order = 1 .. 2
         /\ PlanHas(b, 1, "checklist", {"implement"}, "analysis")
         /\ PlanHas(b, 2, "release", {"checklist"}, "analysis")
<1>1. PICK o : o = <<"checklist", "release">>
  OBVIOUS
<1>2. b.order = o
  BY <1>1 DEF Plan!QualityRelease
<1>3. DOMAIN o = 1 .. 2
  BY <1>1
<1>4. /\ o[1] = "checklist"
      /\ o[2] = "release"
  BY <1>1
<1>5. /\ b.tasks["checklist"] = Plan!Study("Reviewer", {"implement"}, 2)
      /\ b.tasks["release"] = Plan!Study("QA Engineer", {"checklist"}, 2)
  BY DEF Plan!QualityRelease
<1>6. PlanHas(b, 1, "checklist", {"implement"}, "analysis")
  <2>1. PICK t : t = Plan!Study("Reviewer", {"implement"}, 2)
    OBVIOUS
  <2>2. t.deps = {"implement"} /\ t.kind = "analysis"
    BY <2>1 DEF Plan!Study, Plan!Blueprint
  <2>3. b.tasks["checklist"] = t
    BY <1>5, <2>1
  <2> QED
    BY <1>2, <1>3, <1>4, <2>2, <2>3 DEF PlanHas
<1>7. PlanHas(b, 2, "release", {"checklist"}, "analysis")
  <2>1. PICK t : t = Plan!Study("QA Engineer", {"checklist"}, 2)
    OBVIOUS
  <2>2. t.deps = {"checklist"} /\ t.kind = "analysis"
    BY <2>1 DEF Plan!Study, Plan!Blueprint
  <2>3. b.tasks["release"] = t
    BY <1>5, <2>1
  <2> QED
    BY <1>2, <1>3, <1>4, <2>2, <2>3 DEF PlanHas
<1> QED
  BY <1>2, <1>3, <1>6, <1>7

(* A position is that of an entry of one feature's list.                   *)
LEMMA PlanPlaces ==
  ASSUME NEW bs, DOMAIN bs = 1 .. 3, NEW p \in Plan!Positions(bs)
  PROVE  \E f \in 1 .. 3, i \in 1 .. 9 : p = <<f, i>> /\ i \in DOMAIN bs[f].order
  BY DEF Plan!Positions

LEMMA PlanRepositoryLaidOut ==
  ASSUME NEW bs, bs = Plan!FeatureBlueprints("repository-intelligence")
  PROVE  PlanLaidOut(bs)
<1>1. /\ DOMAIN bs = 1 .. 3 /\ bs[1] = Plan!SourceModel
      /\ bs[2] = Plan!ApiRiskSummary /\ bs[3] = Plan!IntelligenceUi
  BY DEF Plan!FeatureBlueprints
<1>2. /\ PlanListed(bs, 1, 1, "inspect", {}, "implementation")
      /\ PlanListed(bs, 1, 2, "manager", {"inspect"}, "implementation")
      /\ PlanListed(bs, 1, 3, "manifests", {"manager"}, "implementation")
      /\ PlanListed(bs, 1, 4, "routing", {"manifests"}, "implementation")
      /\ PlanListed(bs, 1, 5, "database", {"manifests"}, "implementation")
  <2>1. PICK b : b = Plan!SourceModel
    OBVIOUS
  <2>2. b = bs[1] /\ 1 \in 1 .. 3
    BY <1>1, <2>1
  <2>3. PlanListed(bs, 1, 1, "inspect", {}, "implementation")
    BY <1>1, <2>1, <2>2, PlanSourceModel, PlanEntry
  <2>4. PlanListed(bs, 1, 2, "manager", {"inspect"}, "implementation")
    BY <1>1, <2>1, <2>2, PlanSourceModel, PlanEntry
  <2>5. PlanListed(bs, 1, 3, "manifests", {"manager"}, "implementation")
    BY <1>1, <2>1, <2>2, PlanSourceModel, PlanEntry
  <2>6. PlanListed(bs, 1, 4, "routing", {"manifests"}, "implementation")
    BY <1>1, <2>1, <2>2, PlanSourceModel, PlanEntry
  <2>7. PlanListed(bs, 1, 5, "database", {"manifests"}, "implementation")
    BY <1>1, <2>1, <2>2, PlanSourceModel, PlanEntry
  <2> QED
    BY <2>3, <2>4, <2>5, <2>6, <2>7
<1>3. /\ PlanListed(bs, 2, 1, "api", {"routing"}, "implementation")
      /\ PlanListed(bs, 2, 2, "risks", {"api", "database"}, "implementation")
  <2>1. PICK b : b = Plan!ApiRiskSummary
    OBVIOUS
  <2>2. b = bs[2] /\ 2 \in 1 .. 3
    BY <1>1, <2>1
  <2>3. PlanListed(bs, 2, 1, "api", {"routing"}, "implementation")
    BY <1>1, <2>1, <2>2, PlanApiRiskSummary, PlanEntry
  <2>4. PlanListed(bs, 2, 2, "risks", {"api", "database"}, "implementation")
    BY <1>1, <2>1, <2>2, PlanApiRiskSummary, PlanEntry
  <2> QED
    BY <2>3, <2>4
<1>4. /\ PlanListed(bs, 3, 1, "ui", {"risks"}, "implementation")
      /\ PlanListed(bs, 3, 2, "coverage", {"ui"}, "implementation")
  <2>1. PICK b : b = Plan!IntelligenceUi
    OBVIOUS
  <2>2. b = bs[3] /\ 3 \in 1 .. 3
    BY <1>1, <2>1
  <2>3. PlanListed(bs, 3, 1, "ui", {"risks"}, "implementation")
    BY <1>1, <2>1, <2>2, PlanIntelligenceUi, PlanEntry
  <2>4. PlanListed(bs, 3, 2, "coverage", {"ui"}, "implementation")
    BY <1>1, <2>1, <2>2, PlanIntelligenceUi, PlanEntry
  <2> QED
    BY <2>3, <2>4
<1>5. ASSUME NEW p \in Plan!Positions(bs)
      PROVE  p \in {<<1, 1>>, <<1, 2>>, <<1, 3>>, <<1, 4>>, <<1, 5>>,
                    <<2, 1>>, <<2, 2>>, <<3, 1>>, <<3, 2>>}
  <2>1. DOMAIN bs[1].order = 1 .. 5
    BY <1>1, PlanSourceModel
  <2>2. DOMAIN bs[2].order = 1 .. 2
    BY <1>1, PlanApiRiskSummary
  <2>3. DOMAIN bs[3].order = 1 .. 2
    BY <1>1, PlanIntelligenceUi
  <2>4. PICK f \in 1 .. 3, i \in 1 .. 9 : p = <<f, i>> /\ i \in DOMAIN bs[f].order
    BY <1>1, <1>5, PlanPlaces
  <2>5. CASE f = 1
    <3>1. i = 1 \/ i = 2 \/ i = 3 \/ i = 4 \/ i = 5
      BY <2>1, <2>4, <2>5
    <3> QED
      BY <2>4, <2>5, <3>1
  <2>6. CASE f = 2
    <3>1. i = 1 \/ i = 2
      BY <2>2, <2>4, <2>6
    <3> QED
      BY <2>4, <2>6, <3>1
  <2>7. CASE f = 3
    <3>1. i = 1 \/ i = 2
      BY <2>3, <2>4, <2>7
    <3> QED
      BY <2>4, <2>7, <3>1
  <2> QED
    BY <2>4, <2>5, <2>6, <2>7
<1>6. /\ PlanName(bs, <<1, 1>>) = "inspect"
      /\ PlanName(bs, <<1, 2>>) = "manager"
      /\ PlanName(bs, <<1, 3>>) = "manifests"
      /\ PlanName(bs, <<1, 4>>) = "routing"
      /\ PlanName(bs, <<1, 5>>) = "database"
      /\ PlanName(bs, <<2, 1>>) = "api"
      /\ PlanName(bs, <<2, 2>>) = "risks"
      /\ PlanName(bs, <<3, 1>>) = "ui"
      /\ PlanName(bs, <<3, 2>>) = "coverage"
  BY <1>2, <1>3, <1>4 DEF PlanListed
<1>7. ASSUME NEW p \in Plan!Positions(bs), NEW q \in Plan!Positions(bs),
             PlanName(bs, p) = PlanName(bs, q)
      PROVE  p = q
  <2>1. CASE p = <<1, 1>>
    BY <1>5, <1>6, <1>7, <2>1
  <2>2. CASE p = <<1, 2>>
    BY <1>5, <1>6, <1>7, <2>2
  <2>3. CASE p = <<1, 3>>
    BY <1>5, <1>6, <1>7, <2>3
  <2>4. CASE p = <<1, 4>>
    BY <1>5, <1>6, <1>7, <2>4
  <2>5. CASE p = <<1, 5>>
    BY <1>5, <1>6, <1>7, <2>5
  <2>6. CASE p = <<2, 1>>
    BY <1>5, <1>6, <1>7, <2>6
  <2>7. CASE p = <<2, 2>>
    BY <1>5, <1>6, <1>7, <2>7
  <2>8. CASE p = <<3, 1>>
    BY <1>5, <1>6, <1>7, <2>8
  <2>9. CASE p = <<3, 2>>
    BY <1>5, <1>6, <1>7, <2>9
  <2> QED
    BY <1>5, <2>1, <2>2, <2>3, <2>4, <2>5, <2>6, <2>7, <2>8, <2>9
<1>8. ASSUME NEW p \in Plan!Positions(bs)
      PROVE  PlanKind(bs, p) \in {"implementation", "analysis"}
  BY <1>2, <1>3, <1>4, <1>5, <1>8 DEF PlanListed
<1>9. /\ PlanOrder(<<1, 1>>) = 1
      /\ PlanOrder(<<1, 2>>) = 2
      /\ PlanOrder(<<1, 3>>) = 3
      /\ PlanOrder(<<1, 4>>) = 4
      /\ PlanOrder(<<1, 5>>) = 5
      /\ PlanOrder(<<2, 1>>) = 11
      /\ PlanOrder(<<2, 2>>) = 12
      /\ PlanOrder(<<3, 1>>) = 21
      /\ PlanOrder(<<3, 2>>) = 22
  BY DEF PlanOrder, Plan!OrderOfTask
<1>10. ASSUME NEW p \in Plan!Positions(bs), NEW dep \in PlanDeps(bs, p)
       PROVE  PlanEarlier(bs, dep, p)
  <2>1. CASE p = <<1, 1>>
    BY <1>2, <1>10, <2>1 DEF PlanListed
  <2>2. CASE p = <<1, 2>>
    <3>1. dep = "inspect"
      BY <1>2, <1>10, <2>2 DEF PlanListed
    <3> QED
      BY <1>2, <1>9, <2>2, <3>1 DEF PlanListed, PlanEarlier
  <2>3. CASE p = <<1, 3>>
    <3>1. dep = "manager"
      BY <1>2, <1>10, <2>3 DEF PlanListed
    <3> QED
      BY <1>2, <1>9, <2>3, <3>1 DEF PlanListed, PlanEarlier
  <2>4. CASE p = <<1, 4>>
    <3>1. dep = "manifests"
      BY <1>2, <1>10, <2>4 DEF PlanListed
    <3> QED
      BY <1>2, <1>9, <2>4, <3>1 DEF PlanListed, PlanEarlier
  <2>5. CASE p = <<1, 5>>
    <3>1. dep = "manifests"
      BY <1>2, <1>10, <2>5 DEF PlanListed
    <3> QED
      BY <1>2, <1>9, <2>5, <3>1 DEF PlanListed, PlanEarlier
  <2>6. CASE p = <<2, 1>>
    <3>1. dep = "routing"
      BY <1>3, <1>10, <2>6 DEF PlanListed
    <3> QED
      BY <1>2, <1>3, <1>9, <2>6, <3>1 DEF PlanListed, PlanEarlier
  <2>7. CASE p = <<2, 2>>
    <3>1. dep = "api" \/ dep = "database"
      BY <1>3, <1>10, <2>7 DEF PlanListed
    <3> QED
      BY <1>2, <1>3, <1>9, <2>7, <3>1 DEF PlanListed, PlanEarlier
  <2>8. CASE p = <<3, 1>>
    <3>1. dep = "risks"
      BY <1>4, <1>10, <2>8 DEF PlanListed
    <3> QED
      BY <1>3, <1>4, <1>9, <2>8, <3>1 DEF PlanListed, PlanEarlier
  <2>9. CASE p = <<3, 2>>
    <3>1. dep = "ui"
      BY <1>4, <1>10, <2>9 DEF PlanListed
    <3> QED
      BY <1>4, <1>9, <2>9, <3>1 DEF PlanListed, PlanEarlier
  <2> QED
    BY <1>5, <2>1, <2>2, <2>3, <2>4, <2>5, <2>6, <2>7, <2>8, <2>9
<1>11. \E p \in Plan!Positions(bs) : PlanKind(bs, p) = "implementation"
  <2>1. <<1, 1>> \in Plan!Positions(bs) /\ PlanKind(bs, <<1, 1>>) = "implementation"
    BY <1>2 DEF PlanListed
  <2> QED
    BY <2>1
<1> QED
  BY <1>1, <1>7, <1>8, <1>10, <1>11 DEF PlanLaidOut

LEMMA PlanGeneralLaidOut ==
  ASSUME NEW bs, bs = Plan!FeatureBlueprints("general-engineering")
  PROVE  PlanLaidOut(bs)
<1>1. /\ DOMAIN bs = 1 .. 3 /\ bs[1] = Plan!OutcomeDefinition
      /\ bs[2] = Plan!TechnicalDesign /\ bs[3] = Plan!QualityRelease
  BY DEF Plan!FeatureBlueprints
<1>2. /\ PlanListed(bs, 1, 1, "brief", {}, "analysis")
  <2>1. PICK b : b = Plan!OutcomeDefinition
    OBVIOUS
  <2>2. b = bs[1] /\ 1 \in 1 .. 3
    BY <1>1, <2>1
  <2>3. PlanListed(bs, 1, 1, "brief", {}, "analysis")
    BY <1>1, <2>1, <2>2, PlanOutcomeDefinition, PlanEntry
  <2> QED
    BY <2>3
<1>3. /\ PlanListed(bs, 2, 1, "touchpoints", {"brief"}, "analysis")
      /\ PlanListed(bs, 2, 2, "contracts", {"touchpoints"}, "analysis")
      /\ PlanListed(bs, 2, 3, "workflow", {"contracts"}, "analysis")
      /\ PlanListed(bs, 2, 4, "implement", {"workflow"}, "implementation")
  <2>1. PICK b : b = Plan!TechnicalDesign
    OBVIOUS
  <2>2. b = bs[2] /\ 2 \in 1 .. 3
    BY <1>1, <2>1
  <2>3. PlanListed(bs, 2, 1, "touchpoints", {"brief"}, "analysis")
    BY <1>1, <2>1, <2>2, PlanTechnicalDesign, PlanEntry
  <2>4. PlanListed(bs, 2, 2, "contracts", {"touchpoints"}, "analysis")
    BY <1>1, <2>1, <2>2, PlanTechnicalDesign, PlanEntry
  <2>5. PlanListed(bs, 2, 3, "workflow", {"contracts"}, "analysis")
    BY <1>1, <2>1, <2>2, PlanTechnicalDesign, PlanEntry
  <2>6. PlanListed(bs, 2, 4, "implement", {"workflow"}, "implementation")
    BY <1>1, <2>1, <2>2, PlanTechnicalDesign, PlanEntry
  <2> QED
    BY <2>3, <2>4, <2>5, <2>6
<1>4. /\ PlanListed(bs, 3, 1, "checklist", {"implement"}, "analysis")
      /\ PlanListed(bs, 3, 2, "release", {"checklist"}, "analysis")
  <2>1. PICK b : b = Plan!QualityRelease
    OBVIOUS
  <2>2. b = bs[3] /\ 3 \in 1 .. 3
    BY <1>1, <2>1
  <2>3. PlanListed(bs, 3, 1, "checklist", {"implement"}, "analysis")
    BY <1>1, <2>1, <2>2, PlanQualityRelease, PlanEntry
  <2>4. PlanListed(bs, 3, 2, "release", {"checklist"}, "analysis")
    BY <1>1, <2>1, <2>2, PlanQualityRelease, PlanEntry
  <2> QED
    BY <2>3, <2>4
<1>5. ASSUME NEW p \in Plan!Positions(bs)
      PROVE  p \in {<<1, 1>>, <<2, 1>>, <<2, 2>>, <<2, 3>>, <<2, 4>>,
                    <<3, 1>>, <<3, 2>>}
  <2>1. DOMAIN bs[1].order = 1 .. 1
    BY <1>1, PlanOutcomeDefinition
  <2>2. DOMAIN bs[2].order = 1 .. 4
    BY <1>1, PlanTechnicalDesign
  <2>3. DOMAIN bs[3].order = 1 .. 2
    BY <1>1, PlanQualityRelease
  <2>4. PICK f \in 1 .. 3, i \in 1 .. 9 : p = <<f, i>> /\ i \in DOMAIN bs[f].order
    BY <1>1, <1>5, PlanPlaces
  <2>5. CASE f = 1
    <3>1. i = 1
      BY <2>1, <2>4, <2>5
    <3> QED
      BY <2>4, <2>5, <3>1
  <2>6. CASE f = 2
    <3>1. i = 1 \/ i = 2 \/ i = 3 \/ i = 4
      BY <2>2, <2>4, <2>6
    <3> QED
      BY <2>4, <2>6, <3>1
  <2>7. CASE f = 3
    <3>1. i = 1 \/ i = 2
      BY <2>3, <2>4, <2>7
    <3> QED
      BY <2>4, <2>7, <3>1
  <2> QED
    BY <2>4, <2>5, <2>6, <2>7
<1>6. /\ PlanName(bs, <<1, 1>>) = "brief"
      /\ PlanName(bs, <<2, 1>>) = "touchpoints"
      /\ PlanName(bs, <<2, 2>>) = "contracts"
      /\ PlanName(bs, <<2, 3>>) = "workflow"
      /\ PlanName(bs, <<2, 4>>) = "implement"
      /\ PlanName(bs, <<3, 1>>) = "checklist"
      /\ PlanName(bs, <<3, 2>>) = "release"
  BY <1>2, <1>3, <1>4 DEF PlanListed
<1>7. ASSUME NEW p \in Plan!Positions(bs), NEW q \in Plan!Positions(bs),
             PlanName(bs, p) = PlanName(bs, q)
      PROVE  p = q
  <2>1. CASE p = <<1, 1>>
    BY <1>5, <1>6, <1>7, <2>1
  <2>2. CASE p = <<2, 1>>
    BY <1>5, <1>6, <1>7, <2>2
  <2>3. CASE p = <<2, 2>>
    BY <1>5, <1>6, <1>7, <2>3
  <2>4. CASE p = <<2, 3>>
    BY <1>5, <1>6, <1>7, <2>4
  <2>5. CASE p = <<2, 4>>
    BY <1>5, <1>6, <1>7, <2>5
  <2>6. CASE p = <<3, 1>>
    BY <1>5, <1>6, <1>7, <2>6
  <2>7. CASE p = <<3, 2>>
    BY <1>5, <1>6, <1>7, <2>7
  <2> QED
    BY <1>5, <2>1, <2>2, <2>3, <2>4, <2>5, <2>6, <2>7
<1>8. ASSUME NEW p \in Plan!Positions(bs)
      PROVE  PlanKind(bs, p) \in {"implementation", "analysis"}
  BY <1>2, <1>3, <1>4, <1>5, <1>8 DEF PlanListed
<1>9. /\ PlanOrder(<<1, 1>>) = 1
      /\ PlanOrder(<<2, 1>>) = 11
      /\ PlanOrder(<<2, 2>>) = 12
      /\ PlanOrder(<<2, 3>>) = 13
      /\ PlanOrder(<<2, 4>>) = 14
      /\ PlanOrder(<<3, 1>>) = 21
      /\ PlanOrder(<<3, 2>>) = 22
  BY DEF PlanOrder, Plan!OrderOfTask
<1>10. ASSUME NEW p \in Plan!Positions(bs), NEW dep \in PlanDeps(bs, p)
       PROVE  PlanEarlier(bs, dep, p)
  <2>1. CASE p = <<1, 1>>
    BY <1>2, <1>10, <2>1 DEF PlanListed
  <2>2. CASE p = <<2, 1>>
    <3>1. dep = "brief"
      BY <1>3, <1>10, <2>2 DEF PlanListed
    <3> QED
      BY <1>2, <1>3, <1>9, <2>2, <3>1 DEF PlanListed, PlanEarlier
  <2>3. CASE p = <<2, 2>>
    <3>1. dep = "touchpoints"
      BY <1>3, <1>10, <2>3 DEF PlanListed
    <3> QED
      BY <1>3, <1>9, <2>3, <3>1 DEF PlanListed, PlanEarlier
  <2>4. CASE p = <<2, 3>>
    <3>1. dep = "contracts"
      BY <1>3, <1>10, <2>4 DEF PlanListed
    <3> QED
      BY <1>3, <1>9, <2>4, <3>1 DEF PlanListed, PlanEarlier
  <2>5. CASE p = <<2, 4>>
    <3>1. dep = "workflow"
      BY <1>3, <1>10, <2>5 DEF PlanListed
    <3> QED
      BY <1>3, <1>9, <2>5, <3>1 DEF PlanListed, PlanEarlier
  <2>6. CASE p = <<3, 1>>
    <3>1. dep = "implement"
      BY <1>4, <1>10, <2>6 DEF PlanListed
    <3> QED
      BY <1>3, <1>4, <1>9, <2>6, <3>1 DEF PlanListed, PlanEarlier
  <2>7. CASE p = <<3, 2>>
    <3>1. dep = "checklist"
      BY <1>4, <1>10, <2>7 DEF PlanListed
    <3> QED
      BY <1>4, <1>9, <2>7, <3>1 DEF PlanListed, PlanEarlier
  <2> QED
    BY <1>5, <2>1, <2>2, <2>3, <2>4, <2>5, <2>6, <2>7
<1>11. \E p \in Plan!Positions(bs) : PlanKind(bs, p) = "implementation"
  <2>1. <<2, 4>> \in Plan!Positions(bs) /\ PlanKind(bs, <<2, 4>>) = "implementation"
    BY <1>3 DEF PlanListed
  <2> QED
    BY <2>1
<1> QED
  BY <1>1, <1>7, <1>8, <1>10, <1>11 DEF PlanLaidOut

LEMMA PlanBlueprints ==
  ASSUME NEW r
  PROVE  PlanLaidOut(Plan!FeatureBlueprints(Plan!Template(r)))
  BY PlanRepositoryLaidOut, PlanGeneralLaidOut DEF Plan!Template

(* The tasks of a plan that can be worked off: numbered apart, and none    *)
(* waits for a later one.                                                  *)
PlanWorkable(tasks) ==
    /\ IsFiniteSet(DOMAIN tasks) /\ NoItem \notin DOMAIN tasks
    /\ \A t \in DOMAIN tasks :
          tasks[t].order \in Nat /\ tasks[t].kind \in {"implementation", "analysis"}
    /\ \A t, u \in DOMAIN tasks : tasks[t].order = tasks[u].order => t = u
    /\ \A t \in DOMAIN tasks : \A dep \in tasks[t].deps :
          dep \in DOMAIN tasks /\ tasks[dep].order < tasks[t].order
    /\ \E t \in DOMAIN tasks : tasks[t].kind = "implementation"

(* The hints of a repository leave alone what is said here.                *)
LEMMA PlanTask ==
  ASSUME NEW feature, NEW id, NEW order, NEW r, NEW t, t = Plan!Task(feature, id, order, r)
  PROVE  /\ t.order = order /\ t.deps = feature.tasks[id].deps
         /\ t.kind = feature.tasks[id].kind
<1>1. PICK b : b = feature.tasks[id]
  OBVIOUS
<1>2. PICK u : u = [feature |-> feature.id, role |-> b.role, kind |-> b.kind,
                    employee |-> Plan!EmployeeFor(b.role, r), deps |-> b.deps,
                    criteria |-> b.criteria, definitionOfDone |-> 3,
                    context |-> 3, order |-> order, points |-> b.points,
                    described |-> TRUE]
  OBVIOUS
<1>3. t = Plan!Enriched(id, u, r)
  BY <1>1, <1>2 DEF Plan!Task
<1>4. /\ u.order = order /\ u.deps = b.deps /\ u.kind = b.kind
      /\ DOMAIN u = {"feature", "role", "kind", "employee", "deps", "criteria",
                     "definitionOfDone", "context", "order", "points", "described"}
  BY <1>2
<1>5. CASE t = u
  BY <1>1, <1>4, <1>5
<1>6. CASE t # u
  <2>1. PICK more, hinted, longer :
          t = [u EXCEPT !.context = more, !.criteria = hinted, !.definitionOfDone = longer]
    BY <1>3, <1>6 DEF Plan!Enriched
  <2> QED
    BY <1>1, <1>4, <2>1
<1> QED
  BY <1>5, <1>6

LEMMA PlanPositionsFinite ==
  ASSUME NEW bs, DOMAIN bs = 1 .. 3
  PROVE  IsFiniteSet(Plan!Positions(bs))
<1>1. IsFiniteSet(1 .. 3) /\ IsFiniteSet(1 .. 9)
  <2>1. \A k \in Nat : IsFiniteSet(1 .. k)
    BY FS_Interval
  <2> QED
    BY <2>1
<1>2. IsFiniteSet((1 .. 3) \X (1 .. 9))
  BY <1>1, FS_Product
<1>3. Plan!Positions(bs) \subseteq (1 .. 3) \X (1 .. 9)
  BY DEF Plan!Positions
<1> QED
  BY <1>2, <1>3, FS_Subset

LEMMA PlanTasks ==
  ASSUME NEW r \in PlanRequests, NEW tasks, tasks = Plan!Tasks(r)
  PROVE  PlanWorkable(tasks)
<1>1. PICK bs : bs = Plan!FeatureBlueprints(Plan!Template(r))
  OBVIOUS
<1>2. PlanLaidOut(bs)
  BY <1>1, PlanBlueprints
<1> DEFINE positions == Plan!Positions(bs)
           names == {PlanName(bs, p) : p \in positions}
           at(id) == CHOOSE p \in positions : PlanName(bs, p) = id
<1>3. tasks = [id \in names |-> Plan!Task(bs[at(id)[1]], id, PlanOrder(at(id)), r)]
  BY <1>1 DEF Plan!Tasks, PlanName, PlanOrder
<1>4. ASSUME NEW p \in positions
      PROVE  at(PlanName(bs, p)) = p
  BY <1>2 DEF PlanLaidOut
<1>5. ASSUME NEW p \in positions
      PROVE  /\ tasks[PlanName(bs, p)].order = PlanOrder(p)
             /\ tasks[PlanName(bs, p)].deps = PlanDeps(bs, p)
             /\ tasks[PlanName(bs, p)].kind = PlanKind(bs, p)
  <2>1. tasks[PlanName(bs, p)] = Plan!Task(bs[p[1]], PlanName(bs, p), PlanOrder(p), r)
    BY <1>3, <1>4, <1>5
  <2> QED
    BY <2>1, PlanTask DEF PlanDeps, PlanKind
<1>6. DOMAIN tasks = names
  BY <1>3
<1>7. \A p \in positions : PlanOrder(p) \in Nat
  BY <1>2 DEF Plan!Positions, PlanLaidOut, PlanOrder, Plan!OrderOfTask
<1>8. \A p, q \in positions : PlanOrder(p) = PlanOrder(q) => p = q
  <2>1. ASSUME NEW p \in positions, NEW q \in positions, PlanOrder(p) = PlanOrder(q)
        PROVE  p = q
    <3>1. PICK f \in 1 .. 3, i \in 1 .. 9 : p = <<f, i>>
      BY <1>2 DEF Plan!Positions, PlanLaidOut
    <3>2. PICK g \in 1 .. 3, j \in 1 .. 9 : q = <<g, j>>
      BY <1>2 DEF Plan!Positions, PlanLaidOut
    <3>3. (f - 1) * 10 + i = (g - 1) * 10 + j
      BY <2>1, <3>1, <3>2 DEF PlanOrder, Plan!OrderOfTask
    <3> QED
      BY <3>1, <3>2, <3>3
  <2> QED
    BY <2>1
<1>9. IsFiniteSet(DOMAIN tasks)
  <2>1. IsFiniteSet(positions)
    BY <1>2, PlanPositionsFinite DEF PlanLaidOut
  <2>2. PICK f : f = [p \in positions |-> PlanName(bs, p)]
    OBVIOUS
  <2>3. f \in Surjection(positions, names)
    BY <2>2 DEF Surjection
  <2> QED
    BY <1>6, <2>1, <2>3, FS_Surjection
<1>10. NoItem \notin DOMAIN tasks
  BY PlanAssumption
<1>11. \A t \in DOMAIN tasks :
          tasks[t].order \in Nat /\ tasks[t].kind \in {"implementation", "analysis"}
  BY <1>2, <1>5, <1>6, <1>7 DEF PlanLaidOut
<1>12. \A t, u \in DOMAIN tasks : tasks[t].order = tasks[u].order => t = u
  BY <1>5, <1>6, <1>8
<1>13. ASSUME NEW t \in DOMAIN tasks, NEW dep \in tasks[t].deps
       PROVE  dep \in DOMAIN tasks /\ tasks[dep].order < tasks[t].order
  <2>1. PICK p \in positions : t = PlanName(bs, p)
    BY <1>6
  <2>2. dep \in PlanDeps(bs, p)
    BY <1>5, <1>13, <2>1
  <2>3. PICK q \in positions : PlanName(bs, q) = dep /\ PlanOrder(q) < PlanOrder(p)
    BY <1>2, <2>2 DEF PlanLaidOut, PlanEarlier
  <2> QED
    BY <1>5, <1>6, <2>1, <2>3
<1>14. \E t \in DOMAIN tasks : tasks[t].kind = "implementation"
  BY <1>2, <1>5, <1>6 DEF PlanLaidOut
<1> QED
  BY <1>9, <1>10, <1>11, <1>12, <1>13, <1>14 DEF PlanWorkable

(* The rows of a plan's tasks: one for every implementation, and whatever  *)
(* is no longer to do had its dependencies done.                           *)
PlanRow(tasks) ==
    [id : Nat, status : {"todo", "done", "blocked"}, plan : {1}, item : DOMAIN tasks,
     rework : {FALSE}, priority : {"high", "medium", "low"}]

PlanRowsSound(all, tasks) ==
    /\ all \subseteq PlanRow(tasks)
    /\ \A x \in all : tasks[x.item].kind = "implementation"
    /\ \A x, y \in all : x.id = y.id \/ x.item = y.item => x = y
    /\ \A t \in DOMAIN tasks :
          tasks[t].kind = "implementation" => \E x \in all : x.item = t
    /\ \A x, y \in all :
          x.status # "todo" /\ y.item \in tasks[x.item].deps => y.status = "done"

(* What is to do and waits for nothing.                                    *)
PlanReady(all, tasks) ==
    {x \in all : /\ x.status = "todo"
                 /\ \A dep \in tasks[x.item].deps :
                       \/ tasks[dep].kind = "analysis"
                       \/ \E y \in all : y.item = dep /\ y.status = "done"}

(* The one draft of a company gives the metadata.                          *)
LEMMA PlanMetadata ==
  ASSUME NEW items, items = [i \in DOMAIN items |-> items[i]],
         NEW drafts, drafts = <<[status |-> "applied", items |-> items]>>
  PROVE  Plan!Metadata(drafts) = items
<1>1. PICK d : d = [status |-> "applied", items |-> items]
  OBVIOUS
<1>2. DOMAIN drafts = {1} /\ drafts[1] = d
  BY <1>1
<1>3. d.status = "applied" /\ d.items = items
  BY <1>1
<1> DEFINE having(i) == {k \in DOMAIN drafts :
               Plan!IsApprovedOrApplied(drafts[k].status) /\ i \in DOMAIN drafts[k].items}
           last(i) == CHOOSE k \in having(i) : \A j \in having(i) : j <= k
           named == {i \in UNION {DOMAIN drafts[k].items : k \in DOMAIN drafts} :
                        having(i) # {}}
<1>4. \A i \in DOMAIN items : having(i) = {1}
  BY <1>2, <1>3 DEF Plan!IsApprovedOrApplied
<1>5. named = DOMAIN items
  <2>1. UNION {DOMAIN drafts[k].items : k \in DOMAIN drafts} = DOMAIN items
    BY <1>2, <1>3
  <2> HIDE DEF having
  <2> QED
    BY <1>4, <2>1
<1>6. \A i \in DOMAIN items : last(i) = 1
  <2> HIDE DEF having
  <2>1. \A j \in {1} : j <= 1
    OBVIOUS
  <2> QED
    BY <1>4, <2>1
<1>7. Plan!Metadata(drafts) = [i \in named |-> drafts[last(i)].items[i]]
  BY DEF Plan!Metadata
<1> HIDE DEF named, last
<1>8. \A i \in DOMAIN items : drafts[last(i)].items[i] = items[i]
  BY <1>2, <1>3, <1>6
<1> QED
  BY <1>5, <1>7, <1>8

(* Of rows whose numbers differ, one precedes all the others.              *)
LEMMA PlanFirst ==
  ASSUME NEW ready, ready # {}, NEW meta,
         \A c \in ready : Plan!PriorityRank(c.priority) \in Nat /\ Plan!OrderOf(c, meta) \in Nat,
         \A c, d \in ready : Plan!OrderOf(c, meta) = Plan!OrderOf(d, meta) => c = d
  PROVE  \E c \in ready : \A d \in ready \ {c} : Plan!Precedes(c, d, meta)
<1>1. PICK ranks : ranks = {Plan!PriorityRank(c.priority) : c \in ready}
  OBVIOUS
<1>2. ranks \in SUBSET Nat /\ ranks # {}
  BY <1>1
<1>3. PICK rank \in ranks : \A n \in ranks : rank <= n
  BY <1>2, LeastOf
<1>4. PICK urgent : urgent = {c \in ready : Plan!PriorityRank(c.priority) = rank}
  OBVIOUS
<1>5. PICK orders : orders = {Plan!OrderOf(c, meta) : c \in urgent}
  OBVIOUS
<1>6. orders \in SUBSET Nat /\ orders # {}
  BY <1>1, <1>3, <1>4, <1>5
<1>7. PICK order \in orders : \A n \in orders : order <= n
  BY <1>6, LeastOf
<1>8. PICK c \in urgent : Plan!OrderOf(c, meta) = order
  BY <1>5, <1>7
<1>9. c \in ready /\ Plan!PriorityRank(c.priority) = rank
  BY <1>4, <1>8
<1>10. ASSUME NEW d \in ready, d # c
       PROVE  Plan!Precedes(c, d, meta)
  <2>1. rank <= Plan!PriorityRank(d.priority) /\ Plan!PriorityRank(d.priority) \in Nat /\ rank \in Nat
    BY <1>1, <1>2, <1>3
  <2>2. CASE Plan!PriorityRank(d.priority) = rank
    <3>1. Plan!OrderOf(d, meta) \in orders
      BY <1>4, <1>5, <2>2
    <3>2. /\ Plan!OrderOf(c, meta) <= Plan!OrderOf(d, meta)
          /\ Plan!OrderOf(c, meta) # Plan!OrderOf(d, meta)
      BY <1>7, <1>8, <1>9, <1>10, <3>1
    <3>3. Plan!OrderOf(c, meta) < Plan!OrderOf(d, meta)
      BY <1>9, <3>2
    <3> QED
      BY <1>9, <2>2, <3>3 DEF Plan!Precedes
  <2>3. CASE Plan!PriorityRank(d.priority) # rank
    <3>1. Plan!PriorityRank(c.priority) < Plan!PriorityRank(d.priority)
      BY <1>9, <2>1, <2>3
    <3> QED
      BY <3>1 DEF Plan!Precedes
  <2> QED
    BY <2>2, <2>3
<1> QED
  BY <1>9, <1>10

(* What is selected when something is ready, and when nothing is.          *)
PlanChoices(cands, completed, meta, drafts) ==
    {c \in cands : /\ Plan!IsSelectableCandidate(c, drafts)
                   /\ Plan!IsExecutableCandidate(c)
                   /\ Plan!IsReady(c, completed, meta)}

PlanHasFirst(ready, meta) ==
    ready # {} => \E c \in ready : \A d \in ready \ {c} : Plan!Precedes(c, d, meta)

PlanTakes(sel, ready) ==
    /\ ready = {} => sel.task = NoTask
    /\ ready # {} => \E c \in ready : sel.task = c.id

LEMMA PlanSelects ==
  ASSUME NEW cands, NEW completed, NEW meta, NEW drafts,
         PlanHasFirst(PlanChoices(cands, completed, meta, drafts), meta)
  PROVE  PlanTakes(Plan!SelectNext(cands, completed, meta, drafts),
                   PlanChoices(cands, completed, meta, drafts))
<1>0. PICK ready, sel : /\ ready = PlanChoices(cands, completed, meta, drafts)
                        /\ sel = Plan!SelectNext(cands, completed, meta, drafts)
  OBVIOUS
<1> SUFFICES PlanTakes(sel, ready)
  BY <1>0
<1> DEFINE eligible == {c \in cands : Plan!IsSelectableCandidate(c, drafts)}
           executable == {c \in eligible : Plan!IsExecutableCandidate(c)}
           first == CHOOSE c \in ready : \A d \in ready \ {c} : Plan!Precedes(c, d, meta)
<1>1. ready = {c \in executable : Plan!IsReady(c, completed, meta)}
  BY <1>0 DEF PlanChoices
<1>2. CASE eligible = {}
  <2>1. sel = [task |-> NoTask, reason |-> "no_approved_plans"]
    BY <1>2, <1>0 DEF Plan!SelectNext
  <2> QED
    BY <1>1, <1>2, <2>1 DEF PlanTakes
<1>3. CASE eligible # {} /\ executable = {}
  <2>1. PICK why : sel = [task |-> NoTask, reason |-> why]
    BY <1>3, <1>0 DEF Plan!SelectNext
  <2> QED
    BY <1>1, <1>3, <2>1 DEF PlanTakes
<1>4. CASE executable # {} /\ ready = {}
  <2>1. sel = [task |-> NoTask, reason |-> "all_blocked_by_dependencies"]
    BY <1>1, <1>4, <1>0 DEF Plan!SelectNext
  <2> QED
    BY <1>4, <2>1 DEF PlanTakes
<1>5. CASE ready # {}
  <2>1. sel = [task |-> first.id, reason |-> "selected"]
    BY <1>1, <1>5, <1>0 DEF Plan!SelectNext
  <2>2. first \in ready
    BY <1>0, <1>5 DEF PlanHasFirst
  <2> HIDE DEF first
  <2> QED
    BY <1>5, <2>1, <2>2 DEF PlanTakes
<1> QED
  BY <1>1, <1>2, <1>3, <1>4, <1>5

LEMMA PlanSelected ==
  ASSUME NEW tasks, PlanWorkable(tasks), NEW all, PlanRowsSound(all, tasks),
         NEW items, items = [t \in DOMAIN tasks |-> [deps |-> tasks[t].deps,
                               order |-> tasks[t].order, kind |-> Plan!KindOf(tasks[t])]],
         NEW drafts, drafts = <<[status |-> "applied", items |-> items]>>,
         NEW ready, ready = PlanReady(all, tasks),
         NEW sel, sel = Plan!SelectNextForCompany(all, drafts)
  PROVE  PlanTakes(sel, ready)
<1>1. Plan!Metadata(drafts) = items
  BY PlanMetadata
<1>2. PICK d : d = [status |-> "applied", items |-> items]
  OBVIOUS
<1>3. drafts[1] = d /\ d.status = "applied"
  BY <1>2
<1>4. ASSUME NEW t \in DOMAIN tasks
      PROVE  /\ t \in DOMAIN items
             /\ items[t].deps = tasks[t].deps /\ items[t].order = tasks[t].order
             /\ items[t].kind = tasks[t].kind
  <2>1. Plan!KindOf(tasks[t]) = tasks[t].kind
    BY DEF PlanWorkable, Plan!KindOf
  <2> QED
    BY <2>1
<1>5. ASSUME NEW x \in all
      PROVE  /\ x \in PlanRow(tasks)
             /\ x.plan = 1 /\ x.item \in DOMAIN tasks /\ x.id \in Nat
             /\ x.status \in {"todo", "done", "blocked"}
             /\ x.priority \in {"high", "medium", "low"}
  <2>1. x \in PlanRow(tasks)
    BY DEF PlanRowsSound
  <2> QED
    BY <2>1 DEF PlanRow
<1>6. \A x \in all : x.rework = FALSE
  BY DEF PlanRowsSound, PlanRow
<1>7. Plan!Fetched(all, drafts) = all /\ Plan!Candidates(all, drafts) = all
  BY <1>3, <1>5 DEF Plan!Fetched, Plan!Candidates, Plan!IsApprovedOrApplied
<1>8. PICK completed : completed = Plan!CompletedItems(all, drafts)
  OBVIOUS
<1>9. \A dep \in DOMAIN tasks :
         dep \in completed <=> \E y \in all : y.item = dep /\ y.status = "done"
  BY <1>5, <1>7, <1>8 DEF Plan!CompletedItems, PlanWorkable
<1>10. ASSUME NEW x \in all
       PROVE  /\ Plan!IsSelectableCandidate(x, drafts)
              /\ Plan!IsExecutableCandidate(x) <=> x.status = "todo"
  BY <1>3, <1>5, <1>6 DEF Plan!IsSelectableCandidate, Plan!IsApprovedOrApplied,
                         Plan!IsExecutableCandidate
<1>11. ASSUME NEW x \in all
       PROVE  Plan!IsReady(x, completed, items) <=>
                 \A dep \in tasks[x.item].deps :
                    \/ tasks[dep].kind = "analysis"
                    \/ \E y \in all : y.item = dep /\ y.status = "done"
  <2>1. Plan!DependenciesOf(x, items) = tasks[x.item].deps
    BY <1>4, <1>5 DEF Plan!DependenciesOf
  <2>2. \A dep \in tasks[x.item].deps : dep \in DOMAIN tasks
    BY <1>5 DEF PlanWorkable
  <2>3. \A dep \in DOMAIN tasks :
           dep \in Plan!NonBlocking(items) <=> tasks[dep].kind = "analysis"
    BY <1>4 DEF Plan!NonBlocking
  <2> QED
    BY <1>9, <2>1, <2>2, <2>3 DEF Plan!IsReady
<1>12. ready = PlanChoices(all, completed, items, drafts)
  BY <1>10, <1>11 DEF PlanReady, PlanChoices
<1>13. sel = Plan!SelectNext(all, completed, items, drafts)
  BY <1>1, <1>7, <1>8 DEF Plan!SelectNextForCompany
<1>14. ASSUME ready # {}
       PROVE  \E c \in ready : \A e \in ready \ {c} : Plan!Precedes(c, e, items)
  <2>1. \A c \in ready : c \in all
    BY DEF PlanReady
  <2>2. \A c \in ready : Plan!OrderOf(c, items) = tasks[c.item].order
    BY <1>4, <1>5, <2>1 DEF Plan!OrderOf
  <2>3. \A c \in ready : Plan!OrderOf(c, items) \in Nat
    <3>1. \A c \in ready : tasks[c.item].order \in Nat
      BY <1>5, <2>1 DEF PlanWorkable
    <3> QED
      BY <2>2, <3>1
  <2>4. ASSUME NEW c \in ready
        PROVE  Plan!PriorityRank(c.priority) \in Nat
    BY <1>5, <2>1 DEF Plan!PriorityRank, Plan!Ranks
  <2>5. ASSUME NEW c \in ready, NEW e \in ready,
               Plan!OrderOf(c, items) = Plan!OrderOf(e, items)
        PROVE  c = e
    <3>1. tasks[c.item].order = tasks[e.item].order
      BY <2>2, <2>5
    <3>2. c.item = e.item
      BY <1>5, <2>1, <3>1 DEF PlanWorkable
    <3> QED
      BY <2>1, <3>2 DEF PlanRowsSound
  <2> QED
    BY <1>14, <2>3, <2>4, <2>5, PlanFirst
<1>15. PlanHasFirst(ready, items)
  BY <1>14 DEF PlanHasFirst
<1> QED
  BY <1>12, <1>13, <1>15, PlanSelects

(* What the generator hands over, also as the AI planner's fallback.       *)
LEMMA PlanOfGenerator ==
  ASSUME NEW r, NEW res, res = Plan!FromGenerator(r), res.status = "success"
  PROVE  /\ res.draft.tasks = Plan!Tasks(r)
         /\ DOMAIN res = {"status", "planner", "paid", "draft"}
<1>1. PICK d : d = Plan!Deterministic(r)
  OBVIOUS
<1>2. d.tasks = Plan!Tasks(r)
  BY <1>1 DEF Plan!Deterministic
<1>3. res = [status |-> "success", planner |-> "deterministic", paid |-> FALSE, draft |-> d]
  BY <1>1 DEF Plan!FromGenerator, Plan!Failure
<1> QED
  BY <1>2, <1>3

LEMMA PlanOfFallback ==
  ASSUME NEW r, NEW paid, NEW res, res = Plan!Fallback(r, paid), res.status = "success"
  PROVE  res.draft.tasks = Plan!Tasks(r)
<1>1. PICK plain : plain = Plan!FromGenerator(r)
  OBVIOUS
<1>2. plain.status = "success"
  BY <1>1 DEF Plan!Fallback
<1>3. plain.draft.tasks = Plan!Tasks(r) /\ DOMAIN plain = {"status", "planner", "paid", "draft"}
  BY <1>1, <1>2, PlanOfGenerator
<1>4. res = [plain EXCEPT !.paid = paid]
  BY <1>1, <1>2 DEF Plan!Fallback
<1> QED
  BY <1>3, <1>4

LEMMA PlanGenerated ==
  ASSUME NEW r, NEW res \in Plan!Results(r), res.status = "success",
         res.planner = "deterministic"
  PROVE  res.draft.tasks = Plan!Tasks(r)
<1>1. CASE res = Plan!FromGenerator(r)
  BY <1>1, PlanOfGenerator
<1>2. CASE res = Plan!Fallback(r, FALSE) \/ res = Plan!Fallback(r, TRUE)
  BY <1>2, PlanOfFallback
<1>3. CASE \E d : res = [status |-> "success", planner |-> "ai", paid |-> TRUE, draft |-> d]
  BY <1>3
<1> QED
  BY <1>1, <1>2, <1>3 DEF Plan!Results, Plan!FromAi

LEMMA PlanSameSize == \A S : Plan!Cardinality(S) = Cardinality(S)
  BY DEF Plan!Cardinality, Plan!IsFiniteSet, Cardinality, IsFiniteSet

(* The numbers of the rows are apart.                                      *)
LEMMA PlanPlace ==
  ASSUME NEW tasks, PlanWorkable(tasks), NEW d, d.tasks = tasks
  PROVE  /\ Plan!Applied(d) = {t \in DOMAIN tasks : tasks[t].kind = "implementation"}
         /\ \A t \in Plan!Applied(d) : Plan!Place(d, t) \in Nat
         /\ \A t, u \in Plan!Applied(d) : Plan!Place(d, t) = Plan!Place(d, u) => t = u
<1>1. PICK applied : applied = Plan!Applied(d)
  OBVIOUS
<1>2. \A t \in DOMAIN tasks : Plan!KindOf(tasks[t]) = tasks[t].kind
  BY DEF PlanWorkable, Plan!KindOf
<1>3. applied = {t \in DOMAIN tasks : tasks[t].kind = "implementation"}
  BY <1>1, <1>2 DEF Plan!Applied, Plan!HasImplementation, PlanWorkable
<1> DEFINE upto(t) == {u \in applied : tasks[u].order <= tasks[t].order}
<1>4. IsFiniteSet(applied)
  BY <1>3, FS_Subset DEF PlanWorkable
<1>5. \A t : upto(t) \subseteq applied
  OBVIOUS
<1>6. \A t : IsFiniteSet(upto(t)) /\ Cardinality(upto(t)) \in Nat
  BY <1>4, <1>5, FS_Subset, FS_CardinalityType
<1>7. ASSUME NEW t
      PROVE  Plan!Place(d, t) = Cardinality(upto(t))
  <2>1. PICK S : S = {u \in Plan!Applied(d) : d.tasks[u].order <= d.tasks[t].order}
    OBVIOUS
  <2>2. S = upto(t)
    BY <1>1, <2>1
  <2>3. Plan!Place(d, t) = Cardinality(S)
    BY <2>1, PlanSameSize DEF Plan!Place
  <2> HIDE DEF upto
  <2> QED
    BY <2>2, <2>3
<1>8. ASSUME NEW t \in applied, NEW u \in applied, tasks[t].order < tasks[u].order,
             Cardinality(upto(t)) = Cardinality(upto(u))
      PROVE  FALSE
  <2>1. \A v \in applied : tasks[v].order \in Nat
    BY <1>3 DEF PlanWorkable
  <2>2. upto(t) \subseteq upto(u)
    BY <1>8, <2>1
  <2>3. u \in upto(u) /\ u \notin upto(t)
    BY <1>8, <2>1
  <2> HIDE DEF upto
  <2>4. upto(u) = upto(t)
    BY <1>6, <1>8, <2>2, FS_Subset
  <2> QED
    BY <2>3, <2>4
<1>9. ASSUME NEW t \in applied, NEW u \in applied, Plan!Place(d, t) = Plan!Place(d, u)
      PROVE  t = u
  <2> HIDE DEF upto
  <2>1. tasks[t].order \in Nat /\ tasks[u].order \in Nat
    BY <1>3 DEF PlanWorkable
  <2>2. ~(tasks[t].order < tasks[u].order) /\ ~(tasks[u].order < tasks[t].order)
    BY <1>7, <1>8, <1>9
  <2>3. tasks[t].order = tasks[u].order
    BY <2>1, <2>2
  <2> QED
    BY <1>3, <2>3 DEF PlanWorkable
<1> HIDE DEF upto
<1> QED
  BY <1>1, <1>3, <1>6, <1>7, <1>9

LEMMA PlanBecomesRows ==
  ASSUME NEW tasks, PlanWorkable(tasks), NEW d, d.tasks = tasks
  PROVE  PlanRowsSound(Plan!RowsOf(d), tasks)
<1>1. PICK applied : applied = Plan!Applied(d)
  OBVIOUS
<1>2. PICK all : all = Plan!RowsOf(d)
  OBVIOUS
<1>3. /\ applied = {t \in DOMAIN tasks : tasks[t].kind = "implementation"}
      /\ \A t \in applied : Plan!Place(d, t) \in Nat
      /\ \A t, u \in applied : Plan!Place(d, t) = Plan!Place(d, u) => t = u
  BY <1>1, PlanPlace
<1> DEFINE rowOf(t) == [id |-> Plan!Place(d, t), status |-> "todo", plan |-> 1, item |-> t,
                        rework |-> FALSE, priority |-> Plan!PriorityOf(tasks[t].points)]
<1>4. all = {rowOf(t) : t \in applied}
  BY <1>1, <1>2 DEF Plan!RowsOf
<1>5. ASSUME NEW t \in applied
      PROVE  rowOf(t) \in PlanRow(tasks)
  BY <1>3, <1>5 DEF PlanRow, Plan!PriorityOf
<1>6. \A t \in applied :
         rowOf(t).id = Plan!Place(d, t) /\ rowOf(t).item = t /\ rowOf(t).status = "todo"
  OBVIOUS
<1> HIDE DEF rowOf
<1>7. all \subseteq PlanRow(tasks)
  BY <1>4, <1>5
<1>8. \A x \in all : tasks[x.item].kind = "implementation" /\ x.status = "todo"
  BY <1>3, <1>4, <1>6
<1>9. \A x, y \in all : x.id = y.id \/ x.item = y.item => x = y
  BY <1>3, <1>4, <1>6
<1>10. \A t \in DOMAIN tasks :
          tasks[t].kind = "implementation" => \E x \in all : x.item = t
  BY <1>3, <1>4, <1>6
<1> QED
  BY <1>2, <1>7, <1>8, <1>9, <1>10 DEF PlanRowsSound

(* The selected row is settled, the others stay as they are.               *)
PlanAfter(all, c, end) ==
    {IF row.id = c.id THEN [row EXCEPT !.status = end] ELSE row : row \in all}

LEMMA PlanDelivers ==
  ASSUME NEW tasks, PlanWorkable(tasks), NEW all, PlanRowsSound(all, tasks),
         NEW c \in PlanReady(all, tasks), NEW end \in {"done", "blocked"}
  PROVE  PlanRowsSound(PlanAfter(all, c, end), tasks)
<1>0. PICK after : after = PlanAfter(all, c, end)
  OBVIOUS
<1> DEFINE new(row) == IF row = c THEN [row EXCEPT !.status = end] ELSE row
<1>1. c \in all /\ c.status = "todo"
  BY DEF PlanReady
<1>2. after = {new(row) : row \in all}
  BY <1>0, <1>1 DEF PlanRowsSound, PlanAfter
<1>3. \A row \in all : row \in PlanRow(tasks)
  BY DEF PlanRowsSound
<1>4. ASSUME NEW row \in all
      PROVE  /\ new(row) \in PlanRow(tasks)
             /\ new(row).id = row.id /\ new(row).item = row.item
             /\ new(row).status = IF row = c THEN end ELSE row.status
  BY <1>3, <1>4 DEF PlanRow
<1> HIDE DEF new
<1>5. after \subseteq PlanRow(tasks)
  BY <1>2, <1>4
<1>6. \A x \in after : tasks[x.item].kind = "implementation"
  BY <1>2, <1>4 DEF PlanRowsSound
<1>7. \A x, y \in after : x.id = y.id \/ x.item = y.item => x = y
  BY <1>2, <1>4 DEF PlanRowsSound
<1>8. \A t \in DOMAIN tasks :
         tasks[t].kind = "implementation" => \E x \in after : x.item = t
  BY <1>2, <1>4 DEF PlanRowsSound
<1>9. ASSUME NEW x \in all, NEW y \in all, new(x).status # "todo",
             y.item \in tasks[x.item].deps
      PROVE  new(y).status = "done"
  <2>1. CASE x = c
    <3>1. tasks[y.item].kind = "implementation"
      BY DEF PlanRowsSound
    <3>2. PICK z \in all : z.item = y.item /\ z.status = "done"
      BY <1>9, <2>1, <3>1 DEF PlanReady
    <3>3. z = y
      BY <3>2 DEF PlanRowsSound
    <3> QED
      BY <1>1, <1>4, <3>2, <3>3
  <2>2. CASE x # c
    <3>1. y.status = "done"
      BY <1>4, <1>9, <2>2 DEF PlanRowsSound
    <3> QED
      BY <1>1, <1>4, <3>1
  <2> QED
    BY <2>1, <2>2
<1>10. \A x, y \in after :
          x.status # "todo" /\ y.item \in tasks[x.item].deps => y.status = "done"
  BY <1>2, <1>4, <1>9
<1> QED
  BY <1>0, <1>5, <1>6, <1>7, <1>8, <1>10 DEF PlanRowsSound

PlanSettled == planStage \in {"planned", "applied"} /\ planResult.planner = "deterministic"

PlanInv ==
    /\ planRequest \in PlanRequests
    /\ planStage \in {"asked", "planned", "failed", "applied"}
    /\ PlanSettled => planResult.draft.tasks = Plan!Tasks(planRequest)
    /\ PlanSettled /\ planStage = "applied" =>
          PlanRowsSound(planRows, planResult.draft.tasks)

LEMMA PlanInit == Plan!Init => PlanInv
  BY DEF Plan!Init, PlanInv, PlanSettled

(* What is selected of the rows of a plan of the generator.                *)
LEMMA PlanNext0 ==
  ASSUME PlanInv, PlanSettled, planStage = "applied",
         NEW tasks, tasks = planResult.draft.tasks
  PROVE  /\ PlanWorkable(tasks) /\ PlanRowsSound(planRows, tasks)
         /\ PlanTakes(Plan!Next0, PlanReady(planRows, tasks))
<1>1. PlanWorkable(tasks) /\ PlanRowsSound(planRows, tasks)
  BY PlanTasks DEF PlanInv
<1>2. PICK items : items = Plan!Items(planResult.draft)
  OBVIOUS
<1>3. items = [t \in DOMAIN tasks |-> [deps |-> tasks[t].deps, order |-> tasks[t].order,
                                       kind |-> Plan!KindOf(tasks[t])]]
  BY <1>2 DEF Plan!Items
<1>4. PICK drafts : drafts = Plan!Drafts
  OBVIOUS
<1>5. drafts = <<[status |-> "applied", items |-> items]>>
  BY <1>2, <1>4 DEF Plan!Drafts
<1>6. PICK ready, sel : ready = PlanReady(planRows, tasks) /\ sel = Plan!Next0
  OBVIOUS
<1>7. sel = Plan!SelectNextForCompany(planRows, drafts)
  BY <1>4, <1>6 DEF Plan!Next0
<1>8. PlanTakes(sel, ready)
  BY <1>1, <1>3, <1>5, <1>6, <1>7, PlanSelected
<1> QED
  BY <1>1, <1>6, <1>8

LEMMA PlanGoesOn ==
  ASSUME PlanInv, Plan!Next
  PROVE  PlanInv'
<1>1. CASE Plan!Generate
  <2>1. /\ planResult' \in Plan!Results(planRequest)
        /\ planStage' = IF planResult'.status = "success" THEN "planned" ELSE "failed"
        /\ UNCHANGED <<planRequest, planRows>>
    BY <1>1 DEF Plan!Generate
  <2>2. CASE planStage' = "planned" /\ planResult'.planner = "deterministic"
    <3>1. PICK res \in Plan!Results(planRequest) : res = planResult'
      BY <2>1
    <3>2. res.status = "success" /\ res.planner = "deterministic"
      BY <2>1, <2>2, <3>1
    <3>3. res.draft.tasks = Plan!Tasks(planRequest)
      BY <3>2, PlanGenerated
    <3> QED
      BY <2>1, <2>2, <3>1, <3>3 DEF PlanInv, PlanSettled
  <2>3. CASE ~(planStage' = "planned" /\ planResult'.planner = "deterministic")
    BY <2>1, <2>3 DEF PlanInv, PlanSettled
  <2> QED
    BY <2>2, <2>3
<1>2. CASE Plan!Apply
  <2>1. /\ planStage = "planned" /\ planStage' = "applied"
        /\ planRows' = Plan!RowsOf(planResult.draft)
        /\ planRequest' = planRequest /\ planResult' = planResult
    BY <1>2 DEF Plan!Apply
  <2>2. CASE PlanSettled
    <3>1. PICK d, tasks : d = planResult.draft /\ tasks = d.tasks
      OBVIOUS
    <3>2. tasks = Plan!Tasks(planRequest) /\ planRequest \in PlanRequests
      BY <2>2, <3>1 DEF PlanInv
    <3>3. PlanWorkable(tasks)
      BY <3>2, PlanTasks
    <3>4. PlanRowsSound(Plan!RowsOf(d), tasks)
      BY <3>1, <3>3, PlanBecomesRows
    <3> QED
      BY <2>1, <2>2, <3>1, <3>2, <3>4 DEF PlanInv, PlanSettled
  <2>3. CASE ~PlanSettled
    BY <2>1, <2>3 DEF PlanInv, PlanSettled
  <2> QED
    BY <2>2, <2>3
<1>3. CASE Plan!Deliver
  <2>1. /\ planStage = "applied" /\ Plan!Next0.task # NoTask
        /\ planRequest' = planRequest /\ planResult' = planResult
        /\ planStage' = planStage
    BY <1>3 DEF Plan!Deliver
  <2>2. PICK end \in {"done", "blocked"} :
           planRows' = {IF row.id = Plan!Next0.task THEN [row EXCEPT !.status = end] ELSE row :
                           row \in planRows}
    BY <1>3 DEF Plan!Deliver
  <2>3. CASE PlanSettled
    <3>1. PICK tasks : tasks = planResult.draft.tasks
      OBVIOUS
    <3>2. PICK all, sel, after : all = planRows /\ sel = Plan!Next0 /\ after = planRows'
      OBVIOUS
    <3>3. PlanWorkable(tasks) /\ PlanRowsSound(all, tasks)
          /\ PlanTakes(sel, PlanReady(all, tasks))
      BY <2>1, <2>3, <3>1, <3>2, PlanNext0
    <3>4. PICK c \in PlanReady(all, tasks) : sel.task = c.id
      BY <2>1, <3>2, <3>3 DEF PlanTakes
    <3>5. after = PlanAfter(all, c, end)
      BY <2>2, <3>2, <3>4 DEF PlanAfter
    <3>6. PlanRowsSound(after, tasks)
      BY <3>3, <3>5, PlanDelivers
    <3> QED
      BY <2>1, <2>3, <3>1, <3>2, <3>6 DEF PlanInv, PlanSettled
  <2>4. CASE ~PlanSettled
    BY <2>1, <2>4 DEF PlanInv, PlanSettled
  <2> QED
    BY <2>3, <2>4
<1> QED
  BY <1>1, <1>2, <1>3 DEF Plan!Next

LEMMA PlanShows ==
  ASSUME PlanInv
  PROVE  Plan!PlanRunsThrough
<1> SUFFICES ASSUME planStage = "applied", planResult.planner = "deterministic"
             PROVE  Plan!PlanRunsThrough
  BY DEF Plan!PlanRunsThrough
<1>1. PICK tasks : tasks = planResult.draft.tasks
  OBVIOUS
<1>2. PICK all, sel : all = planRows /\ sel = Plan!Next0
  OBVIOUS
<1>3. /\ PlanWorkable(tasks) /\ PlanRowsSound(all, tasks)
      /\ PlanTakes(sel, PlanReady(all, tasks))
  BY <1>1, <1>2, PlanNext0 DEF PlanSettled
<1>4. \A x \in all : x.item \in DOMAIN tasks /\ x.id \in Nat
  BY <1>3 DEF PlanRowsSound, PlanRow
<1>5. ASSUME NEW x \in all
      PROVE  Plan!HasRow(x.item) /\ Plan!StatusOf(x.item) = x.status
  <2>1. \A y \in all : y.item = x.item => y = x
    BY <1>3 DEF PlanRowsSound
  <2>2. (CHOOSE y \in all : y.item = x.item) = x
    BY <2>1
  <2> QED
    BY <1>2, <2>2 DEF Plan!HasRow, Plan!StatusOf
<1>6. ASSUME NEW x \in all, NEW dep \in tasks[x.item].deps
      PROVE  /\ dep \in DOMAIN tasks
             /\ tasks[dep].order < tasks[x.item].order
             /\ (x.status # "todo" /\ Plan!HasRow(dep)) => Plan!StatusOf(dep) = "done"
  <2>1. dep \in DOMAIN tasks /\ tasks[dep].order < tasks[x.item].order
    BY <1>3, <1>4 DEF PlanWorkable
  <2>2. ASSUME x.status # "todo", NEW y \in all, y.item = dep
        PROVE  Plan!StatusOf(dep) = "done"
    <3>1. y.status = "done"
      BY <1>3, <2>2 DEF PlanRowsSound
    <3> QED
      BY <1>5, <2>2, <3>1
  <2> QED
    BY <1>2, <2>1, <2>2 DEF Plan!HasRow
<1>7. ASSUME sel.task = NoTask, NEW x \in all, x.status = "todo"
      PROVE  \E dep \in tasks[x.item].deps :
                Plan!HasRow(dep) /\ Plan!StatusOf(dep) # "done"
  <2>1. PlanReady(all, tasks) = {}
    <3>1. ASSUME NEW c \in PlanReady(all, tasks), sel.task = c.id
          PROVE  FALSE
      BY <1>4, <1>7, <3>1, PlanAssumption DEF PlanReady
    <3> QED
      BY <1>3, <3>1 DEF PlanTakes
  <2>2. PICK dep \in tasks[x.item].deps :
           /\ tasks[dep].kind # "analysis"
           /\ ~ \E y \in all : y.item = dep /\ y.status = "done"
    BY <1>7, <2>1 DEF PlanReady
  <2>3. dep \in DOMAIN tasks /\ tasks[dep].kind = "implementation"
    BY <1>3, <1>4, <2>2 DEF PlanWorkable
  <2>4. PICK y \in all : y.item = dep
    BY <1>3, <2>3 DEF PlanRowsSound
  <2>5. Plan!HasRow(dep) /\ Plan!StatusOf(dep) # "done"
    BY <1>5, <2>2, <2>4
  <2> QED
    BY <2>5
<1> QED
  BY <1>1, <1>2, <1>6, <1>7 DEF Plan!PlanRunsThrough

(* The generator's own plans are worked off in the order of their          *)
(* dependencies and come to their end, whichever request they are for and  *)
(* however the work on each task ends: what is selected next is always one *)
(* whose dependencies are done, and nothing is left over but what is       *)
(* blocked or waits for it (planning-generator.ts, task-selection.ts).     *)
THEOREM PlansRunThrough == Spec => []PlanRunsThrough
<1> DEFINE I == part = "plan" => PlanInv
<1>1. Init => I
  BY PlanInit DEF Init
<1>2. I /\ [Next]_vars => I'
  <2>1. ASSUME I, part' = "plan", Next
        PROVE  PlanInv'
    <3>1. PlanInv /\ Plan!Next
      BY <2>1 DEF Next
    <3> QED
      BY <3>1, PlanGoesOn
  <2>2. ASSUME I, UNCHANGED vars
        PROVE  I'
    BY <2>2 DEF vars, planVars, PlanInv, PlanSettled
  <2> QED
    BY <2>1, <2>2
<1>3. I => PlanRunsThrough
  BY PlanShows DEF PlanRunsThrough, Plan!PlanRunsThrough
<1> HIDE DEF I
<1> QED
  BY <1>1, <1>2, <1>3, PTL DEF Spec
=============================================================================
