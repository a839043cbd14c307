----------------------------- MODULE CompanyHealth -----------------------------
(***************************************************************************)
(* The company's health: numbers counted from its rows, kept once a day by *)
(* the driver (company-health-snapshot-service.ts), computed by            *)
(* company-health-service.ts and shown with the trend between the last two *)
(* (company-health-view-model.ts).  The counts of one snapshot are queries *)
(* of their own, in any order, while tasks and verdicts go on changing.    *)
(* Time is counted in moments: no two things happen at one.                *)
(***************************************************************************)
EXTENDS Naturals, Sequences, FiniteSets

CONSTANTS
    Measured,        (* tasks                                               *)
    Ticks,           (* drivers that may capture                            *)
    DayLength,       (* moments of a day                                    *)
    WindowDays,      (* HEALTH_WINDOW_DAYS                                  *)
    MaxMoments,      (* bound: moments that pass                            *)
    MaxVerdicts      (* bound: QA verdicts                                  *)

VARIABLES
    now,
    doneAt,      (* Task.updatedAt of a task that is done, 0 for any other  *)
    verdicts,    (* QAResult rows with a verdict, oldest first              *)
    ticks,       (* what a capture has read so far                          *)
    kept         (* CompanyHealthSnapshot rows, in the order of their making*)

vars == <<now, doneAt, verdicts, ticks, kept>>

Resting == [at |-> "rest"]

Init ==
    /\ now = 1 /\ doneAt = [t \in Measured |-> 0] /\ verdicts = <<>>
    /\ ticks = [d \in Ticks |-> Resting] /\ kept = <<>>

UtcDay(moment) == moment \div DayLength

(* The window begins WindowDays before its end.                            *)
SinceWindowStart(moment, end) == moment + WindowDays * DayLength >= end

Later == now < MaxMoments /\ now' = now + 1

---------------------------------------------------------------------------
(* What the company does meanwhile.                                        *)

TimePasses == Later /\ UNCHANGED <<doneAt, verdicts, ticks, kept>>

Complete(t) ==
    /\ doneAt[t] = 0 /\ Later
    /\ doneAt' = [doneAt EXCEPT ![t] = now + 1]
    /\ UNCHANGED <<verdicts, ticks, kept>>

(* Any change of a row that is done moves its updatedAt.                   *)
Edit(t) ==
    /\ doneAt[t] # 0 /\ Later
    /\ doneAt' = [doneAt EXCEPT ![t] = now + 1]
    /\ UNCHANGED <<verdicts, ticks, kept>>

(* The CEO may move a task that is done back.                              *)
Reopen(t) ==
    /\ doneAt[t] # 0 /\ Later
    /\ doneAt' = [doneAt EXCEPT ![t] = 0]
    /\ ticks' = [d \in Ticks |->
          IF ticks[d].at = "count" THEN [ticks[d] EXCEPT !.reopened = TRUE] ELSE ticks[d]]
    /\ UNCHANGED <<verdicts, kept>>

RecordVerdict ==
    /\ Len(verdicts) < MaxVerdicts /\ Later
    /\ \E passed, checked \in BOOLEAN :
          verdicts' = Append(verdicts, [passed |-> passed, checked |-> checked, at |-> now + 1])
    /\ UNCHANGED <<doneAt, ticks, kept>>

---------------------------------------------------------------------------
(* Capturing.                                                              *)

(* Today's row, when there is one, is kept as it is.                       *)
Look(d) ==
    /\ ticks[d].at = "rest"
    /\ \A i \in DOMAIN kept : kept[i].day # UtcDay(now)
    /\ ticks' = [ticks EXCEPT ![d] =
          [at |-> "count", moment |-> now, total |-> <<>>, recent |-> <<>>,
           reopened |-> FALSE]]
    /\ UNCHANGED <<now, doneAt, verdicts, kept>>

Done == {t \in Measured : doneAt[t] # 0}

CountDone(d) ==
    /\ ticks[d].at = "count" /\ ticks[d].total = <<>>
    /\ ticks' = [ticks EXCEPT ![d].total = <<Cardinality(Done)>>]
    /\ UNCHANGED <<now, doneAt, verdicts, kept>>

(* Mutated form: the window has no end.                                    *)
InOpenWindow(moment, end) == SinceWindowStart(moment, end)

InWindow(moment, end) == SinceWindowStart(moment, end) /\ moment <= end

CountRecent(d) ==
    /\ ticks[d].at = "count" /\ ticks[d].recent = <<>>
    /\ ticks' = [ticks EXCEPT ![d].recent =
          <<Cardinality({t \in Done : InWindow(doneAt[t], ticks[d].moment)})>>]
    /\ UNCHANGED <<now, doneAt, verdicts, kept>>

(* Only verdicts with a recorded check count.                              *)
JudgedUpTo(end) ==
    {i \in DOMAIN verdicts : verdicts[i].checked /\ InWindow(verdicts[i].at, end)}

(* The verdicts are one query, the last here: no other count depends on    *)
(* them.  The unique key turns a second row of a day away.                 *)
Keep(d) ==
    /\ LET c      == ticks[d]
           judged == JudgedUpTo(c.moment)
       IN  /\ c.at = "count" /\ c.total # <<>> /\ c.recent # <<>>
           /\ kept' = IF \E i \in DOMAIN kept : kept[i].day = UtcDay(c.moment) THEN kept
                      ELSE Append(kept,
                             [moment |-> c.moment, day |-> UtcDay(c.moment),
                              total |-> c.total[1], recent |-> c.recent[1],
                              passed |-> Cardinality({i \in judged : verdicts[i].passed}),
                              judged |-> Cardinality(judged), reopened |-> c.reopened])
    /\ ticks' = [ticks EXCEPT ![d] = Resting]
    /\ UNCHANGED <<now, doneAt, verdicts>>

(* A query fails, or the process dies: the tick goes on without.           *)
GiveUp(d) ==
    /\ ticks[d].at = "count"
    /\ ticks' = [ticks EXCEPT ![d] = Resting]
    /\ UNCHANGED <<now, doneAt, verdicts, kept>>

Next ==
    \/ TimePasses \/ RecordVerdict
    \/ \E t \in Measured : Complete(t) \/ Edit(t) \/ Reopen(t)
    \/ \E d \in Ticks :
          Look(d) \/ CountDone(d) \/ CountRecent(d) \/ Keep(d) \/ GiveUp(d)

Spec == Init /\ [][Next]_vars

---------------------------------------------------------------------------
(* The panel.                                                              *)

(* The newest of the rows, by when their capture began.                    *)
Newest(rows) == CHOOSE i \in rows : \A j \in rows : kept[j].moment <= kept[i].moment

(* The two rows the panel asks for.                                        *)
Latest == Newest(DOMAIN kept)

Previous == Newest(DOMAIN kept \ {Latest})

HasTrend == Len(kept) >= 2

TypeOK ==
    /\ now \in 1 .. MaxMoments /\ doneAt \in [Measured -> 0 .. now]
    /\ \A d \in Ticks : ticks[d].at \in {"rest", "count"}
    /\ \A i \in DOMAIN kept : kept[i].moment \in 1 .. now

(* A day has one snapshot, however many drivers capture it; the trend runs *)
(* from an earlier day to a later one, also when a capture ends long after *)
(* it began; and no snapshot says that more tasks were done in the window, *)
(* or more verdicts passed, than there are at all, though each number is a *)
(* query of its own and work goes on meanwhile, unless a finished task is  *)
(* moved back just then (company-health-snapshot-service.ts,               *)
(* captureCompanyHealthSnapshot).                                          *)
HealthHonest ==
    /\ \A i, j \in DOMAIN kept : i # j => kept[i].day # kept[j].day
    /\ HasTrend => kept[Latest].day > kept[Previous].day
    /\ \A i \in DOMAIN kept :
          /\ kept[i].passed <= kept[i].judged
          /\ kept[i].reopened \/ kept[i].recent <= kept[i].total
=============================================================================
