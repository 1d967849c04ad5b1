------------------------------- MODULE Reports -------------------------------
(***************************************************************************)
(* What services/reports.py computes from the history that module Pipeline *)
(* leaves: the funnel, time in stage, time to hire.  The report reads the  *)
(* applications and their stage.changed rows, ordered by time, and never   *)
(* the truth (was): the properties compare the two.                        *)
(***************************************************************************)
EXTENDS Pipeline, FiniteSetsExt

CONSTANTS
    DayLength,      \* moments in a day
    MIN_N           \* a median needs this many values

ASSUME DaysHaveMoments == DayLength \in Nat \ {0}
ASSUME MedianNeedsValues == MIN_N \in Nat \ {0}
ASSUME AppsAreFinite == IsFiniteSet(App)

None == "none"
FunnelStages == {FUNNEL_ORDER[i] : i \in DOMAIN FUNNEL_ORDER}
TIMED_STAGES == FunnelStages \ {"hired"}        \* a stay in hired never ends

Rank(s) == CHOOSE i \in DOMAIN FUNNEL_ORDER : FUNNEL_ORDER[i] = s
Day(t) == t \div DayLength

\* Whole calendar days between two moments, floor 0.
Days(t1, t2) == IF Day(t2) > Day(t1) THEN Day(t2) - Day(t1) ELSE 0

\* How many rows of a history there are up to a row.
Place(rows, e) == Cardinality({f \in rows : f.at <= e.at})

\* The history of an application, its rows ordered by created_at.
Events(a) == [i \in 1 .. Cardinality(log[a]) |-> CHOOSE e \in log[a] : Place(log[a], e) = i]
-----------------------------------------------------------------------------
(***************************************************************************)
(* The candidate's status page.                                            *)
(***************************************************************************)
\* The stage before the latest move to rejected; screening without one.
StageBeforeRejection(a) ==
    LET into == {e \in log[a] : e.to = "rejected"}
    IN  IF into = {} THEN "screening"
        ELSE (CHOOSE e \in into : \A f \in into : f.at <= e.at).from

\* While the rejection mail is still scheduled, the page keeps the stage before.
ShownStage(a) ==
    IF row[a].stage = "rejected" /\ a \in held THEN StageBeforeRejection(a) ELSE row[a].stage
-----------------------------------------------------------------------------
(***************************************************************************)
(* The funnel.                                                             *)
(***************************************************************************)
\* The highest funnel stage the application ever held, at least new.
ReachedRank(a) ==
    LET seen == {e.to : e \in log[a]} \cup {row[a].stage}
    IN  Max({Rank(s) : s \in seen \cap FunnelStages} \cup {1})

\* Mutant of Origin: the walk back to a funnel stage is left out.
OriginAsWritten(ev) == [i \in 0 .. Len(ev) |-> IF i = 0 THEN None ELSE ev[i].from]
\* The origin of the i-th row: its from, or the one of the row before it while
\* that is an outcome itself (a withdrawal during a held rejection).
Origin(ev) ==
    LET origin[i \in 0 .. Len(ev)] ==
          IF i = 0 THEN None
          ELSE IF ev[i].from \in OUTCOMES THEN origin[i - 1] ELSE ev[i].from
    IN  origin

\* The funnel stage the application left by the latest move into the outcome
\* it is in; None when it is live, or when the history does not tell.
LeftFrom(a) ==
    LET ev == Events(a)
        into == {i \in DOMAIN ev : ev[i].to = row[a].stage}
    IN  IF row[a].stage \notin OUTCOMES \/ into = {} THEN None
        ELSE Origin(ev)[Max(into)]

Step(i) ==
    LET stage == FUNNEL_ORDER[i]
        left(outcome) == {a \in App : row[a].stage = outcome /\ LeftFrom(a) = stage}
    IN  [reached        |-> Cardinality({a \in App : ReachedRank(a) >= i}),
         rejected_from  |-> Cardinality(left("rejected")),
         withdrawn_from |-> Cardinality(left("withdrawn")),
         still_here     |-> Cardinality({a \in App : row[a].stage = stage
                                                     /\ stage \notin TERMINAL_STAGES})]
Funnel == [i \in DOMAIN FUNNEL_ORDER |-> Step(i)]
-----------------------------------------------------------------------------
(***************************************************************************)
(* Time in stage and time to hire.                                         *)
(***************************************************************************)
\* The stage the history stood at before row i, and since when.
StageBefore(ev, i) == IF i = 1 THEN "new" ELSE ev[i - 1].to
EnteredBefore(ev, i) == IF i = 1 THEN 1 ELSE ev[i - 1].at

\* The finished stays.  A row whose from is not where the history stood has an
\* unknown entry: that stay is skipped.
CompletedStays(a) ==
    LET ev == Events(a)
    IN  {[i |-> i, stage |-> ev[i].from, days |-> Days(EnteredBefore(ev, i), ev[i].at)] :
           i \in {j \in DOMAIN ev : ev[j].from = StageBefore(ev, j) /\ ev[j].from \in TIMED_STAGES}}

\* From the application to its latest hiring; a row hired without a history
\* (there is none in this model) falls back on decided_at.
TimeToHire(a) ==
    LET hired == {e.at : e \in {x \in log[a] : x.to = "hired"}}
    IN  IF hired # {} THEN {Days(1, Max(hired))}
        ELSE IF row[a].stage = "hired" /\ row[a].decided # Never THEN {Days(1, row[a].decided)}
        ELSE {}

\* Stays and the oldest live one of a stage; a median is shown from MIN_N on.
TimeInStage(s) ==
    LET stays == UNION {{<<a, x>> : x \in {y \in CompletedStays(a) : y.stage = s}} : a \in App}
        live == {Days(row[a].changed, now) : a \in {b \in App : row[b].stage = s}}
    IN  [n |-> Cardinality(stays), median |-> Cardinality(stays) >= MIN_N,
         oldest |-> IF live = {} THEN {} ELSE {Max(live)}]

Kpis ==
    LET hired == {a \in App : ReachedRank(a) = Rank("hired")}
    IN  [applications      |-> Cardinality(App),
         reached_interview |-> Cardinality({a \in App : ReachedRank(a) >= Rank("interview")}),
         hires             |-> Cardinality(hired),
         hires_n           |-> Cardinality({a \in hired : TimeToHire(a) # {}})]
-----------------------------------------------------------------------------
(***************************************************************************)
(* The report against the truth.                                           *)
(***************************************************************************)
Stages(a) == {was[a][i].stage : i \in DOMAIN was[a]}
InFunnel(a) == {i \in DOMAIN was[a] : was[a][i].stage \in FunnelStages}
Left(a) == {i \in 1 .. Len(was[a]) - 1 : was[a][i].stage \in TIMED_STAGES}

FunnelIsTrue ==
    \A a \in App :
      /\ ReachedRank(a) = Max({Rank(s) : s \in Stages(a) \cap FunnelStages})
      /\ a \notin crossed =>
           LeftFrom(a) = IF row[a].stage \in OUTCOMES THEN was[a][Max(InFunnel(a))].stage ELSE None

DaysIn(stays) == MapThenSumSet(LAMBDA x : x.days, stays)

StaysAreTrue ==
    /\ \A a \in App \ crossed :
         {<<x.i, x.stage>> : x \in CompletedStays(a)} = {<<i, was[a][i].stage>> : i \in Left(a)}
    /\ \A a \in App : DaysIn(CompletedStays(a)) <= Days(1, now)
    /\ crossed = {} => \A s \in TIMED_STAGES :
         TimeInStage(s).oldest =
           LET live == {was[a][Len(was[a])].at : a \in {b \in App : row[b].stage = s}}
           IN  IF live = {} THEN {} ELSE {Days(Min(live), now)}

\* Who left from a stage and who is still there.
Told(i) == Funnel[i].rejected_from + Funnel[i].withdrawn_from + Funnel[i].still_here
ToldInAll == MapThenSumSet(Told, DOMAIN FUNNEL_ORDER)

FunnelAddsUp ==
    LET out == ToldInAll
        hired == Cardinality({a \in App : row[a].stage = "hired"})
    IN  /\ out + hired <= Kpis.applications
        /\ crossed = {} => out + hired = Kpis.applications
        /\ Kpis.hires = Kpis.hires_n
        /\ \A i \in DOMAIN FUNNEL_ORDER \ {1} : Funnel[i].reached <= Funnel[i - 1].reached

\* The report, computed from the history alone, tells what really happened.
\* It knows of every application the highest stage it was ever in, whatever
\* requests crossed; and where no moves of it overlapped, the stage it left
\* from, every stay it finished and no other, and how long it has been where it
\* is.  The stays of an application never add up to more than its age, and the
\* funnel counts nobody twice, and nobody out who has not gone.
ReportIsTrue == FunnelIsTrue /\ StaysAreTrue /\ FunnelAddsUp

\* "The candidate must not learn the decision before the mail that announces it"
\* (public.py:729): while the mail is held the page shows a stage the application
\* was really in, never the rejection; the one it was rejected from, unless moves
\* overlapped.  A mail that is only held a second time hides it again.
DecisionIsKeptBack ==
    \A a \in held : row[a].stage = "rejected" =>
      /\ ShownStage(a) \in Stages(a) \ {"rejected"}
      /\ a \notin crossed => ShownStage(a) = was[a][Len(was[a]) - 1].stage
-----------------------------------------------------------------------------
(***************************************************************************)
(* What the proofs need besides.                                           *)
(***************************************************************************)
\* No two rows of a history bear the same moment, nor will the rows of the
\* requests under way.
EntriesApart ==
    /\ \A a \in App : /\ IsFiniteSet(log[a]) /\ \A e \in log[a] : e.at # Never
                      /\ \A e, f \in log[a] : e.at = f.at => e = f
    /\ \A p \in Proc : pc[p] \in {"begun", "loaded"} =>
          /\ start[p] # Never
          /\ \A a \in App : \A e \in log[a] : e.at # start[p]
          /\ \A q \in Proc \ {p} : start[q] # start[p]
=============================================================================
