---------------------------- MODULE ReorderSweep ----------------------------
(***************************************************************************)
(* Reorder rules (packages/core/src/orders/reorder-repository.ts) and the  *)
(* sweep that reminds of them (packages/notifications/src).  For each rule *)
(* the sweep opens a transaction, and inside it calls an engine that mails *)
(* and commits its notifications in a transaction of its own: the steps    *)
(* below.  A sweep takes far less than a day, which is the unit of time;   *)
(* a rule's date is the days left to it.                                   *)
(***************************************************************************)
EXTENDS Naturals

CONSTANTS
    Rules,          \* ReorderRule rows there may ever be
    Stragglers,     \* those that exist from the start, without a cadence
    Cadences,       \* days
    Timers,         \* callers of the sweep
    MaxFailures     \* bound: sweeps that fail half-way, per rule

ASSUME StragglersAssumption == Stragglers \subseteq Rules
ASSUME CadencesAssumption == Cadences \subseteq Nat \ {0}
ASSUME FailuresAssumption == MaxFailures \in Nat

VARIABLES
    rule,       \* the rows
    timer,      \* the sweeps under way
    mailed,     \* rounds of mail for a rule's present date
    told,       \* rounds of notifications committed for it
    failures,   \* sweeps that failed while a rule was theirs
    mingled     \* a rule was another sweep's or a user's while a sweep had read it

reorderVars == <<rule, timer, mailed, told, failures, mingled>>

NoRule == "NONE"
ASSUME RulesAssumption == NoRule \notin Rules

Waiting == [stage |-> "IDLE", todo |-> {}, at |-> NoRule]

ReorderTypeOK ==
    /\ rule \in [Rules -> [exists : BOOLEAN, active : BOOLEAN, cadence : Nat, left : Nat]]
    /\ timer \in [Timers -> [stage : {"IDLE", "LOOP", "NOTIFY", "MAILED", "RECORD"},
                             todo : SUBSET Rules, at : Rules \cup {NoRule}]]
    /\ mailed \in [Rules -> Nat] /\ told \in [Rules -> Nat]
    /\ failures \in [Rules -> 0..MaxFailures]
    /\ mingled \in BOOLEAN

ReorderInit ==
    /\ rule = [r \in Rules |-> [exists |-> r \in Stragglers, active |-> r \in Stragglers,
                                cadence |-> 0, left |-> 0]]
    /\ timer = [w \in Timers |-> Waiting]
    /\ mailed = [r \in Rules |-> 0] /\ told = [r \in Rules |-> 0]
    /\ failures = [r \in Rules |-> 0]
    /\ mingled = FALSE

ReadBy(w) == timer[w].todo \cup {timer[w].at}
Busy(r) == \E w \in Timers : r \in ReadBy(w)

-----------------------------------------------------------------------------
(* What users do *)

createRule(r) ==
    /\ ~rule[r].exists
    /\ \E c \in Cadences :
         rule' = [rule EXCEPT ![r] = [exists |-> TRUE, active |-> TRUE, cadence |-> c, left |-> c]]
    /\ UNCHANGED <<timer, mailed, told, failures, mingled>>

setActive(r, on) ==
    /\ rule[r].exists
    /\ rule' = [rule EXCEPT ![r].active = on]
    /\ mingled' = (mingled \/ Busy(r))
    /\ UNCHANGED <<timer, mailed, told, failures>>

Moved(r) ==
    /\ rule' = [rule EXCEPT ![r].left = rule[r].cadence]
    /\ mailed' = [mailed EXCEPT ![r] = 0]
    /\ told' = [told EXCEPT ![r] = 0]

markReminded(r) ==
    /\ rule[r].exists /\ rule[r].cadence > 0
    /\ Moved(r)
    /\ mingled' = (mingled \/ Busy(r))
    /\ UNCHANGED <<timer, failures>>

-----------------------------------------------------------------------------
(* The sweep *)

\* Mutant of DueRule: paused rules are reminded too.
DueOrPaused(r) == rule[r].exists /\ rule[r].left = 0

DueRule(r) == rule[r].exists /\ rule[r].active /\ rule[r].left = 0

runReorderReminderSweep(w) ==
    LET due == {r \in Rules : DueRule(r)} IN
    /\ timer[w].stage = "IDLE"
    /\ due # {}
    /\ timer' = [timer EXCEPT ![w] = [stage |-> "LOOP", todo |-> due, at |-> NoRule]]
    /\ mingled' = (mingled \/ \E v \in Timers \ {w} : ReadBy(v) \cap due # {})
    /\ UNCHANGED <<rule, mailed, told, failures>>

\* A rule without a cadence stays due.  An organization without members is not
\* notified, and its rule moves on.
takeRule(w, r) ==
    /\ timer[w].stage = "LOOP" /\ r \in timer[w].todo
    /\ \E stage \in {"NOTIFY", "RECORD"} :
         timer' = [timer EXCEPT ![w] =
           [todo |-> timer[w].todo \ {r},
            at |-> IF rule[r].cadence > 0 THEN r ELSE NoRule,
            stage |-> IF rule[r].cadence > 0 THEN stage ELSE "LOOP"]]
    /\ UNCHANGED <<rule, mailed, told, failures, mingled>>

\* The engine's transaction: the mail leaves before it commits.
sendMail(w) ==
    LET r == timer[w].at IN
    /\ timer[w].stage = "NOTIFY"
    /\ mailed' = [mailed EXCEPT ![r] = @ + 1]
    /\ timer' = [timer EXCEPT ![w].stage = "MAILED"]
    /\ UNCHANGED <<rule, told, failures, mingled>>

notify(w) ==
    LET r == timer[w].at IN
    /\ timer[w].stage = "MAILED"
    /\ told' = [told EXCEPT ![r] = @ + 1]
    /\ timer' = [timer EXCEPT ![w].stage = "RECORD"]
    /\ UNCHANGED <<rule, mailed, failures, mingled>>

\* Mutant of recordReminder: the date moves only if somebody was told.
recordIfTold(w) ==
    LET r == timer[w].at IN
    /\ timer[w].stage = "RECORD"
    /\ IF told[r] > 0 THEN Moved(r) ELSE UNCHANGED <<rule, mailed, told>>
    /\ timer' = [timer EXCEPT ![w].stage = "LOOP", ![w].at = NoRule]
    /\ UNCHANGED <<failures, mingled>>

\* The sweep's own transaction commits the rule's next date.
recordReminder(w) ==
    /\ timer[w].stage = "RECORD"
    /\ Moved(timer[w].at)
    /\ timer' = [timer EXCEPT ![w].stage = "LOOP", ![w].at = NoRule]
    /\ UNCHANGED <<failures, mingled>>

sweepEnds(w) ==
    /\ timer[w].stage = "LOOP" /\ timer[w].todo = {}
    /\ timer' = [timer EXCEPT ![w] = Waiting]
    /\ UNCHANGED <<rule, mailed, told, failures, mingled>>

\* A transaction fails or the process stops: the sweep is gone, the rules it
\* had still to do with it; what the engine committed stays.
sweepFails(w) ==
    LET r == timer[w].at IN
    /\ r # NoRule
    /\ failures[r] < MaxFailures
    /\ failures' = [failures EXCEPT ![r] = @ + 1]
    /\ timer' = [timer EXCEPT ![w] = Waiting]
    /\ UNCHANGED <<rule, mailed, told, mingled>>

dayPasses ==
    /\ \E r \in Rules : rule[r].left > 0
    /\ rule' = [r \in Rules |-> [rule[r] EXCEPT !.left = IF @ > 0 THEN @ - 1 ELSE 0]]
    /\ UNCHANGED <<timer, mailed, told, failures, mingled>>

SweepSteps(w) ==
    \/ runReorderReminderSweep(w)
    \/ \E r \in Rules : takeRule(w, r)
    \/ sendMail(w) \/ notify(w) \/ recordReminder(w) \/ sweepEnds(w)

ReorderNext ==
    \/ \E r \in Rules :
         createRule(r) \/ (\E on \in BOOLEAN : setActive(r, on)) \/ markReminded(r)
    \/ \E w \in Timers : SweepSteps(w) \/ sweepFails(w)
    \/ dayPasses

ReorderSpec == ReorderInit /\ [][ReorderNext]_reorderVars

\* The sweep is called again and again and goes on once begun.
ReorderFairness == \A w \in Timers : WF_reorderVars(SweepSteps(w))

-----------------------------------------------------------------------------
(* Properties *)

\* reorder-sweep.ts:69.  As long as nobody else touches a rule that a sweep has
\* read, each date of a rule is mailed and told at most once, but for one more
\* each time a sweep failed half-way; it is told only when the rule is due and
\* active; and notifications never run ahead of the mail.
OneReminderPerDate ==
    ~mingled => \A r \in Rules :
        /\ told[r] <= mailed[r]
        /\ mailed[r] <= 1 + failures[r]
        /\ (\E w \in Timers : timer[w].at = r) => rule[r].active /\ rule[r].left = 0
        /\ told[r] > 0 => failures[r] > 0 \/ \E w \in Timers : timer[w].at = r

\* reorder-sweep.ts:50: a due rule with a cadence moves on to its next date, or
\* is paused; stragglers and failed sweeps do not hold it up.
DueRulesMoveOn ==
    \A r \in Rules :
        DueRule(r) /\ rule[r].cadence > 0 ~> ~rule[r].active \/ rule[r].left > 0

=============================================================================
