--------------------------- MODULE OutboundProofs ---------------------------
(***************************************************************************)
(* Proofs about the reminder sweep, the webhook dispatcher and the         *)
(* benchmarks, for any number of rules, endpoints, sweeps, failures,       *)
(* stopped workers, samples and refreshes.                                 *)
(***************************************************************************)
EXTENDS WebhookDispatcher, ReorderSweep, Benchmarks, FiniteSetTheorems, WellFoundedInduction,
        TLAPS

-----------------------------------------------------------------------------
(* The reminder sweep *)

Taken == {"NOTIFY", "MAILED", "RECORD"}

\* What a sweep holds, by its stage.
Holding ==
    \A w \in Timers :
        /\ timer[w].at # NoRule <=> timer[w].stage \in Taken
        /\ timer[w].stage = "IDLE" => timer[w].todo = {}
        /\ timer[w].at \notin timer[w].todo

\* Nobody else touched what a sweep has read: it is still due, and no other
\* sweep has read it.
Undisturbed ==
    /\ \A w \in Timers, r \in Rules : r \in ReadBy(w) => DueRule(r)
    /\ \A w \in Timers : timer[w].at # NoRule => rule[timer[w].at].cadence > 0
    /\ \A v, w \in Timers : v # w => ReadBy(v) \cap ReadBy(w) \cap Rules = {}

\* How far the mail of a rule may be ahead of what committed.
Ahead(r) ==
    /\ told[r] <= mailed[r]
    /\ (\A w \in Timers : timer[w].at # r) => mailed[r] <= failures[r]
    /\ \A w \in Timers : timer[w].at = r =>
         /\ mailed[r] <= 1 + failures[r]
         /\ timer[w].stage = "NOTIFY" => mailed[r] <= failures[r]
         /\ timer[w].stage = "MAILED" => told[r] < mailed[r]

ReorderIInv ==
    /\ ReorderTypeOK
    /\ Holding
    /\ ~mingled => Undisturbed /\ \A r \in Rules : Ahead(r)

-----------------------------------------------------------------------------

LEMMA ReorderInitHolds == ReorderInit => ReorderIInv
<1> SUFFICES ASSUME ReorderInit PROVE ReorderIInv
  OBVIOUS
<1> USE RulesAssumption DEF ReorderInit
<1>1. ReorderTypeOK
  <2>1. Waiting \in [stage : {"IDLE", "LOOP", "NOTIFY", "MAILED", "RECORD"},
                     todo : SUBSET Rules, at : Rules \cup {NoRule}]
    BY DEF Waiting
  <2>2. timer \in [Timers -> [stage : {"IDLE", "LOOP", "NOTIFY", "MAILED", "RECORD"},
                              todo : SUBSET Rules, at : Rules \cup {NoRule}]]
    BY <2>1
  <2>3. failures \in [Rules -> 0..MaxFailures]
    BY FailuresAssumption
  <2>4. rule \in [Rules -> [exists : BOOLEAN, active : BOOLEAN, cadence : Nat, left : Nat]]
    OBVIOUS
  <2> QED
    BY <2>2, <2>3, <2>4 DEF ReorderTypeOK
<1>2. Holding
  BY DEF Holding, Waiting, Taken
<1>3. Undisturbed
  BY DEF Undisturbed, ReadBy, Waiting
<1>4. \A r \in Rules : Ahead(r)
  BY DEF Ahead, Waiting
<1> QED
  BY <1>1, <1>2, <1>3, <1>4 DEF ReorderIInv

\* What users do: a rule that a sweep has read is only touched by mingling.
LEMMA UserStep ==
    ASSUME ReorderIInv, NEW r \in Rules,
           createRule(r) \/ (\E on \in BOOLEAN : setActive(r, on)) \/ markReminded(r)
    PROVE  ReorderIInv'
<1> USE RulesAssumption, CadencesAssumption DEF ReorderIInv
<1>1. CASE createRule(r)
  <2>1. ReorderTypeOK'
    BY <1>1 DEF createRule, ReorderTypeOK
  <2>2. Holding'
    BY <1>1 DEF createRule, Holding
  <2>3. ASSUME ~mingled' PROVE Undisturbed' /\ \A q \in Rules : Ahead(q)'
    <3>1. \A w \in Timers : r \notin ReadBy(w)
      BY <1>1, <2>3 DEF createRule, Undisturbed, DueRule
    <3>2. Undisturbed'
      BY <1>1, <2>3, <3>1 DEF createRule, Undisturbed, DueRule, ReadBy, ReorderTypeOK
    <3>3. \A q \in Rules : Ahead(q)'
      BY <1>1, <2>3 DEF createRule, Ahead
    <3> QED
      BY <3>2, <3>3
  <2> QED
    BY <2>1, <2>2, <2>3
<1>2. CASE \E on \in BOOLEAN : setActive(r, on)
  <2>1. ReorderTypeOK'
    BY <1>2 DEF setActive, ReorderTypeOK
  <2>2. Holding'
    BY <1>2 DEF setActive, Holding
  <2>3. ASSUME ~mingled' PROVE Undisturbed' /\ \A q \in Rules : Ahead(q)'
    <3>1. \A w \in Timers : r \notin ReadBy(w)
      BY <1>2, <2>3 DEF setActive, Busy
    <3>2. Undisturbed'
      BY <1>2, <2>3, <3>1 DEF setActive, Undisturbed, DueRule, ReadBy, ReorderTypeOK
    <3>3. \A q \in Rules : Ahead(q)'
      BY <1>2, <2>3 DEF setActive, Ahead
    <3> QED
      BY <3>2, <3>3
  <2> QED
    BY <2>1, <2>2, <2>3
<1>3. CASE markReminded(r)
  <2>1. ReorderTypeOK'
    BY <1>3 DEF markReminded, Moved, ReorderTypeOK
  <2>2. Holding'
    BY <1>3 DEF markReminded, Moved, Holding
  <2>3. ASSUME ~mingled' PROVE Undisturbed' /\ \A q \in Rules : Ahead(q)'
    <3>1. \A w \in Timers : r \notin ReadBy(w)
      BY <1>3, <2>3 DEF markReminded, Busy
    <3>2. Undisturbed'
      BY <1>3, <2>3, <3>1 DEF markReminded, Moved, Undisturbed, DueRule, ReadBy, ReorderTypeOK
    <3>3. \A q \in Rules : Ahead(q)'
      BY <1>3, <2>3, <3>1 DEF markReminded, Moved, Ahead, ReadBy, ReorderTypeOK
    <3> QED
      BY <3>2, <3>3
  <2> QED
    BY <2>1, <2>2, <2>3
<1> QED
  BY <1>1, <1>2, <1>3

\* What a sweep does.
LEMMA SweepStep ==
    ASSUME ReorderIInv, NEW w \in Timers, SweepSteps(w) \/ sweepFails(w)
    PROVE  ReorderIInv'
<1> USE RulesAssumption DEF ReorderIInv
<1>1. CASE runReorderReminderSweep(w)
  <2> DEFINE due == {r \in Rules : DueRule(r)}
  <2>1. /\ timer[w].stage = "IDLE" /\ UNCHANGED <<rule, mailed, told, failures>>
        /\ timer' = [timer EXCEPT ![w] = [stage |-> "LOOP", todo |-> due, at |-> NoRule]]
        /\ mingled' = (mingled \/ \E v \in Timers \ {w} : ReadBy(v) \cap due # {})
    BY <1>1 DEF runReorderReminderSweep
  <2>2. ReorderTypeOK'
    BY <2>1 DEF ReorderTypeOK
  <2>3. Holding'
    BY <2>1 DEF Holding, Taken, ReorderTypeOK
  <2>4. ASSUME ~mingled' PROVE Undisturbed' /\ \A r \in Rules : Ahead(r)'
    <3>1. timer[w].at = NoRule
      BY <2>1 DEF Holding, Taken
    <3>2. Undisturbed'
      BY <2>1, <2>4 DEF Undisturbed, DueRule, ReadBy, ReorderTypeOK
    <3>3. \A r \in Rules : Ahead(r)'
      BY <2>1, <2>4, <3>1 DEF Ahead, ReorderTypeOK
    <3> QED
      BY <3>2, <3>3
  <2> QED
    BY <2>2, <2>3, <2>4
<1>2. ASSUME NEW r \in Rules, takeRule(w, r) PROVE ReorderIInv'
  <2>1. /\ timer[w].stage = "LOOP" /\ timer[w].at = NoRule /\ r \in timer[w].todo
        /\ UNCHANGED <<rule, mailed, told, failures, mingled>>
    BY <1>2 DEF takeRule, Holding, Taken
  <2>2. PICK stage \in {"NOTIFY", "RECORD"} :
          timer' = [timer EXCEPT ![w] =
            [todo |-> timer[w].todo \ {r},
             at |-> IF rule[r].cadence > 0 THEN r ELSE NoRule,
             stage |-> IF rule[r].cadence > 0 THEN stage ELSE "LOOP"]]
    BY <1>2 DEF takeRule
  <2>3. ReorderTypeOK'
    BY <2>1, <2>2 DEF ReorderTypeOK
  <2>4. Holding'
    BY <2>1, <2>2 DEF Holding, Taken, ReorderTypeOK
  <2>5. ASSUME ~mingled PROVE Undisturbed' /\ \A q \in Rules : Ahead(q)'
    <3>1. \A v \in Timers : ReadBy(v)' \cap Rules \subseteq ReadBy(v)
      BY <2>1, <2>2 DEF ReadBy, ReorderTypeOK
    <3>2. Undisturbed'
      BY <2>1, <2>2, <2>5, <3>1 DEF Undisturbed, DueRule, ReorderTypeOK
    <3>3. \A v \in Timers : timer[v].at # r
      BY <2>1, <2>5 DEF Undisturbed, ReadBy, Holding
    <3>4. ASSUME NEW q \in Rules PROVE Ahead(q)'
      <4>1. Ahead(q) /\ failures[q] \in Nat /\ mailed[q] \in Nat /\ told[q] \in Nat
        BY <2>5, FailuresAssumption DEF ReorderTypeOK
      <4>2. \A v \in Timers \ {w} : timer'[v] = timer[v]
        BY <2>2 DEF ReorderTypeOK
      <4>3. timer'[w].at \in {r, NoRule} /\ (timer'[w].at = r => timer'[w].stage \in {"NOTIFY", "RECORD"})
        BY <2>2 DEF ReorderTypeOK
      <4>4. CASE q = r
        <5>1. mailed[r] <= failures[r] /\ told[r] <= mailed[r]
          BY <3>3, <4>1, <4>4 DEF Ahead
        <5>2. mailed[r] <= 1 + failures[r]
          BY <4>1, <4>4, <5>1
        <5> QED
          BY <2>1, <3>3, <4>2, <4>3, <4>4, <5>1, <5>2 DEF Ahead
      <4>5. CASE q # r
        BY <2>1, <4>1, <4>2, <4>3, <4>5 DEF Ahead
      <4> QED
        BY <4>4, <4>5
    <3> QED
      BY <3>2, <3>4
  <2> QED
    BY <2>1, <2>3, <2>4, <2>5
<1>3. CASE sendMail(w)
  <2> DEFINE r == timer[w].at
  <2>1. /\ timer[w].stage = "NOTIFY" /\ r \in Rules
        /\ mailed' = [mailed EXCEPT ![r] = @ + 1]
        /\ timer' = [timer EXCEPT ![w].stage = "MAILED"]
        /\ UNCHANGED <<rule, told, failures, mingled>>
    BY <1>3 DEF sendMail, Holding, Taken, ReorderTypeOK
  <2>2. ReorderTypeOK'
    BY <2>1 DEF ReorderTypeOK
  <2>3. Holding'
    BY <2>1 DEF Holding, Taken, ReorderTypeOK
  <2>4. ASSUME ~mingled PROVE Undisturbed' /\ \A q \in Rules : Ahead(q)'
    <3>1. Undisturbed'
      BY <2>1, <2>4 DEF Undisturbed, DueRule, ReadBy, ReorderTypeOK
    <3>2. \A v \in Timers \ {w} : timer[v].at # r
      BY <2>1, <2>4 DEF Undisturbed, ReadBy
    <3>3. \A q \in Rules : Ahead(q)'
      BY <2>1, <2>4, <3>2 DEF Ahead, ReorderTypeOK
    <3> QED
      BY <3>1, <3>3
  <2> QED
    BY <2>1, <2>2, <2>3, <2>4
<1>4. CASE notify(w)
  <2> DEFINE r == timer[w].at
  <2>1. /\ timer[w].stage = "MAILED" /\ r \in Rules
        /\ told' = [told EXCEPT ![r] = @ + 1]
        /\ timer' = [timer EXCEPT ![w].stage = "RECORD"]
        /\ UNCHANGED <<rule, mailed, failures, mingled>>
    BY <1>4 DEF notify, Holding, Taken, ReorderTypeOK
  <2>2. ReorderTypeOK'
    BY <2>1 DEF ReorderTypeOK
  <2>3. Holding'
    BY <2>1 DEF Holding, Taken, ReorderTypeOK
  <2>4. ASSUME ~mingled PROVE Undisturbed' /\ \A q \in Rules : Ahead(q)'
    <3>1. Undisturbed'
      BY <2>1, <2>4 DEF Undisturbed, DueRule, ReadBy, ReorderTypeOK
    <3>2. \A v \in Timers \ {w} : timer[v].at # r
      BY <2>1, <2>4 DEF Undisturbed, ReadBy
    <3>3. \A q \in Rules : Ahead(q)'
      BY <2>1, <2>4, <3>2 DEF Ahead, ReorderTypeOK
    <3> QED
      BY <3>1, <3>3
  <2> QED
    BY <2>1, <2>2, <2>3, <2>4
<1>5. CASE recordReminder(w)
  <2> DEFINE r == timer[w].at
  <2>1. /\ timer[w].stage = "RECORD" /\ r \in Rules
        /\ rule' = [rule EXCEPT ![r].left = rule[r].cadence]
        /\ mailed' = [mailed EXCEPT ![r] = 0] /\ told' = [told EXCEPT ![r] = 0]
        /\ timer' = [timer EXCEPT ![w].stage = "LOOP", ![w].at = NoRule]
        /\ UNCHANGED <<failures, mingled>>
    BY <1>5 DEF recordReminder, Moved, Holding, Taken, ReorderTypeOK
  <2>2. ReorderTypeOK'
    BY <2>1 DEF ReorderTypeOK
  <2>3. Holding'
    BY <2>1 DEF Holding, Taken, ReorderTypeOK
  <2>4. ASSUME ~mingled PROVE Undisturbed' /\ \A q \in Rules : Ahead(q)'
    <3>1. \A v \in Timers : r \notin ReadBy(v)'
      BY <2>1, <2>4 DEF Undisturbed, ReadBy, Holding, ReorderTypeOK
    <3>2. \A v \in Timers : ReadBy(v)' \cap Rules \subseteq ReadBy(v)
      BY <2>1 DEF ReadBy, ReorderTypeOK
    <3>3. Undisturbed'
      <4>1. \A v \in Timers, q \in Rules : q \in ReadBy(v)' => DueRule(q)'
        BY <2>1, <2>4, <3>1, <3>2 DEF Undisturbed, DueRule, ReorderTypeOK
      <4>2. \A v \in Timers : timer'[v].at # NoRule => rule'[timer'[v].at].cadence > 0
        BY <2>1, <2>4 DEF Undisturbed, ReorderTypeOK
      <4>3. \A v, u \in Timers : v # u => ReadBy(v)' \cap ReadBy(u)' \cap Rules = {}
        BY <2>4, <3>2 DEF Undisturbed
      <4> QED
        BY <4>1, <4>2, <4>3 DEF Undisturbed
    <3>4. \A q \in Rules : Ahead(q)'
      <4>1. \A v \in Timers \ {w} : timer[v].at # r
        BY <2>1, <2>4 DEF Undisturbed, ReadBy
      <4>2. SUFFICES ASSUME NEW q \in Rules PROVE Ahead(q)'
        OBVIOUS
      <4>3. Ahead(q) /\ failures[q] \in Nat
        BY <2>4, FailuresAssumption DEF ReorderTypeOK
      <4>4. CASE q = r
        <5>1. \A v \in Timers : timer'[v].at # r
          BY <2>1, <4>1 DEF ReorderTypeOK
        <5>2. mailed'[q] = 0 /\ told'[q] = 0 /\ failures'[q] \in Nat
          BY <2>1, <4>3, <4>4 DEF ReorderTypeOK
        <5> QED
          BY <4>4, <5>1, <5>2 DEF Ahead
      <4>5. CASE q # r
        <5>1. mailed'[q] = mailed[q] /\ told'[q] = told[q] /\ failures'[q] = failures[q]
          BY <2>1, <4>5 DEF ReorderTypeOK
        <5>2. \A v \in Timers : /\ timer'[v].at = q <=> timer[v].at = q
                                /\ timer'[v].at = q => timer'[v].stage = timer[v].stage
          BY <2>1, <4>5 DEF ReorderTypeOK
        <5> QED
          BY <4>3, <5>1, <5>2 DEF Ahead
      <4> QED
        BY <4>4, <4>5
    <3> QED
      BY <3>3, <3>4
  <2> QED
    BY <2>1, <2>2, <2>3, <2>4
<1>6. CASE sweepEnds(w)
  <2>1. /\ timer[w].at = NoRule /\ timer[w].todo = {}
        /\ timer' = [timer EXCEPT ![w] = [stage |-> "IDLE", todo |-> {}, at |-> NoRule]]
        /\ UNCHANGED <<rule, mailed, told, failures, mingled>>
    BY <1>6 DEF sweepEnds, Waiting, Holding, Taken
  <2>2. ReorderTypeOK'
    BY <2>1 DEF ReorderTypeOK
  <2>3. Holding'
    BY <2>1 DEF Holding, Taken, ReorderTypeOK
  <2>4. Undisturbed => Undisturbed'
    BY <2>1 DEF Undisturbed, DueRule, ReadBy, ReorderTypeOK
  <2>5. \A r \in Rules : Ahead(r) => Ahead(r)'
    BY <2>1 DEF Ahead, ReorderTypeOK
  <2> QED
    BY <2>1, <2>2, <2>3, <2>4, <2>5
<1>7. CASE sweepFails(w)
  <2> DEFINE r == timer[w].at
  <2>1. /\ r \in Rules /\ failures[r] < MaxFailures
        /\ failures' = [failures EXCEPT ![r] = @ + 1]
        /\ timer' = [timer EXCEPT ![w] = [stage |-> "IDLE", todo |-> {}, at |-> NoRule]]
        /\ UNCHANGED <<rule, mailed, told, mingled>>
    BY <1>7 DEF sweepFails, Waiting, ReorderTypeOK
  <2>2. ReorderTypeOK'
    BY <2>1, FailuresAssumption DEF ReorderTypeOK
  <2>3. Holding'
    BY <2>1 DEF Holding, Taken, ReorderTypeOK
  <2>4. Undisturbed => Undisturbed'
    BY <2>1 DEF Undisturbed, DueRule, ReadBy, ReorderTypeOK
  <2>5. \A q \in Rules : Ahead(q) => Ahead(q)'
    <3> SUFFICES ASSUME NEW q \in Rules, Ahead(q) PROVE Ahead(q)'
      OBVIOUS
    <3>1. failures[q] \in Nat /\ mailed[q] \in Nat /\ told[q] \in Nat
      BY FailuresAssumption DEF ReorderTypeOK
    <3>2. CASE q = r
      <4>1. failures'[q] = failures[q] + 1 /\ mailed[q] <= 1 + failures[q] /\ told[q] <= mailed[q]
        BY <2>1, <3>1, <3>2 DEF Ahead, ReorderTypeOK
      <4> QED
        BY <2>1, <3>1, <3>2, <4>1 DEF Ahead, ReorderTypeOK
    <3>3. CASE q # r
      BY <2>1, <3>3 DEF Ahead, ReorderTypeOK
    <3> QED
      BY <3>2, <3>3
  <2> QED
    BY <2>1, <2>2, <2>3, <2>4, <2>5
<1> QED
  BY <1>1, <1>2, <1>3, <1>4, <1>5, <1>6, <1>7 DEF SweepSteps

LEMMA ReorderStep == ReorderIInv /\ [ReorderNext]_reorderVars => ReorderIInv'
<1> SUFFICES ASSUME ReorderIInv, [ReorderNext]_reorderVars PROVE ReorderIInv'
  OBVIOUS
<1>1. CASE dayPasses
  <2>1. /\ rule' = [r \in Rules |-> [rule[r] EXCEPT !.left = IF @ > 0 THEN @ - 1 ELSE 0]]
        /\ UNCHANGED <<timer, mailed, told, failures, mingled>>
    BY <1>1 DEF dayPasses
  <2>2. ReorderTypeOK'
    BY <2>1, SMTT(30) DEF ReorderIInv, ReorderTypeOK
  <2>3. \A r \in Rules : /\ DueRule(r) => DueRule(r)'
                         /\ rule'[r].cadence = rule[r].cadence
    BY <2>1 DEF ReorderIInv, DueRule, ReorderTypeOK
  <2> QED
    BY <2>1, <2>2, <2>3 DEF ReorderIInv, Holding, Undisturbed, ReadBy, Ahead, ReorderTypeOK
<1>2. CASE UNCHANGED reorderVars
  BY <1>2 DEF reorderVars, ReorderIInv, ReorderTypeOK, Holding, Undisturbed, DueRule, ReadBy, Ahead
<1> QED
  BY <1>1, <1>2, UserStep, SweepStep DEF ReorderNext

LEMMA ReorderIInvImplies == ReorderIInv => OneReminderPerDate
<1> SUFFICES ASSUME ReorderIInv, ~mingled, NEW r \in Rules
             PROVE  /\ told[r] <= mailed[r]
                    /\ mailed[r] <= 1 + failures[r]
                    /\ (\E w \in Timers : timer[w].at = r) => rule[r].active /\ rule[r].left = 0
                    /\ told[r] > 0 => failures[r] > 0 \/ \E w \in Timers : timer[w].at = r
  BY DEF OneReminderPerDate
<1>1. failures[r] \in Nat /\ mailed[r] \in Nat /\ told[r] \in Nat
  BY FailuresAssumption DEF ReorderIInv, ReorderTypeOK
<1>2. Ahead(r)
  BY DEF ReorderIInv
<1>3. (\E w \in Timers : timer[w].at = r) => DueRule(r)
  BY DEF ReorderIInv, Undisturbed, ReadBy
<1>4. mailed[r] <= 1 + failures[r]
  BY <1>1, <1>2 DEF Ahead
<1> QED
  BY <1>1, <1>2, <1>3, <1>4 DEF Ahead, DueRule

\* reorder-sweep.ts:69, for any rules, cadences and number of sweeps: each date
\* of a rule is mailed and told once, but for one more per failed sweep, as
\* long as nobody else touches a rule that a sweep has read.
THEOREM RemindersOncePerDate == ReorderSpec => []OneReminderPerDate
  BY ReorderInitHolds, ReorderStep, ReorderIInvImplies, PTL DEF ReorderSpec

-----------------------------------------------------------------------------
(* The webhook dispatcher *)

Posting == {"SEND", "OK", "REFUSED"}

\* The endpoints a worker has in hand or has still to do.
Load(w) == worker[w].todo \cup {worker[w].at}

\* What a worker holds, by its stage; a dispatch posts only for the row it made,
\* a sweep only for a row that was retried when it was read.
Loads ==
    /\ \A w \in Workers :
         /\ worker[w].at # NoEndpoint <=> worker[w].stage \in Posting \cup {"CREATE"}
         /\ worker[w].stage = "IDLE" => worker[w].todo = {}
         /\ worker[w].stage = "OK" => received[worker[w].at] > 0
    /\ \A w \in Dispatchers :
         /\ \A e \in Endpoints : worker[w].seen[e] = 0
         /\ worker[w].stage \in Posting => delivery[worker[w].at].status = "PENDING"
    /\ \A w \in Sweepers :
         /\ worker[w].stage # "CREATE"
         /\ worker[w].at \notin worker[w].todo
         /\ \A e \in Endpoints : e \in Load(w) =>
              worker[w].seen[e] < MaxAttempts /\ delivery[e].status \notin {"NONE", "PENDING"}
    /\ \A v, w \in Dispatchers :
         worker[v].stage \in Posting /\ worker[w].stage \in Posting /\ worker[v].at = worker[w].at
           => v = w

\* What a row says of its endpoint.
RowsAreSound ==
    \A e \in Endpoints :
        /\ delivery[e].status \in {"NONE", "PENDING"} => delivery[e].attempts = 0
        /\ delivery[e].status = "RETRYING" => delivery[e].attempts < MaxAttempts
        /\ delivery[e].status = "DELIVERED" => received[e] > 0
        /\ delivery[e].status = "PENDING" =>
             \/ \E w \in Dispatchers : worker[w].stage \in Posting /\ worker[w].at = e
             \/ stops[e] > 0

\* One sweep at a time: it goes by what the rows still say.
OneSweep ==
    /\ \A v, w \in Sweepers : worker[v].stage # "IDLE" /\ worker[w].stage # "IDLE" => v = w
    /\ \A w \in Sweepers, e \in Endpoints : e \in Load(w) =>
         delivery[e].status = "RETRYING" /\ worker[w].seen[e] = delivery[e].attempts

Sent(e) == \E w \in Workers : worker[w].at = e /\ worker[w].stage \in {"OK", "REFUSED"}
Accepted(e) ==
    \/ delivery[e].status = "DELIVERED"
    \/ \E w \in Workers : worker[w].at = e /\ worker[w].stage = "OK"

\* Every POST is recorded, or held by the worker that made it, or was lost with one.
Accounts(e) ==
    /\ sends[e] <= delivery[e].attempts + stops[e] + (IF Sent(e) THEN 1 ELSE 0)
    /\ received[e] <= stops[e] + (IF Accepted(e) THEN 1 ELSE 0)

WebhookIInv ==
    /\ WebhookTypeOK
    /\ Loads
    /\ RowsAreSound
    /\ ~crossed => OneSweep /\ \A e \in Endpoints : Accounts(e)

-----------------------------------------------------------------------------

LEMMA WebhookInitHolds == WebhookInit => WebhookIInv
<1> SUFFICES ASSUME WebhookInit PROVE WebhookIInv
  OBVIOUS
<1> USE EndpointsAssumption, AttemptsAssumption, StopsAssumption DEF WebhookInit
<1>1. Resting \in [stage : {"IDLE", "LOOP", "CREATE", "SEND", "OK", "REFUSED"},
                   todo : SUBSET Endpoints, at : Endpoints \cup {NoEndpoint},
                   seen : [Endpoints -> 0..MaxAttempts], age : Nat]
  BY DEF Resting, Unseen
<1>2. WebhookTypeOK
  <2>1. delivery \in [Endpoints -> [status : {"NONE", "PENDING", "RETRYING", "DELIVERED", "FAILED"},
                                    attempts : 0..MaxAttempts, wait : Nat]]
    OBVIOUS
  <2>2. stops \in [Endpoints -> 0..MaxStops]
    OBVIOUS
  <2>3. sends \in [Endpoints -> Nat] /\ received \in [Endpoints -> Nat] /\ crossed \in BOOLEAN
    OBVIOUS
  <2> QED
    BY <1>1, <2>1, <2>2, <2>3 DEF WebhookTypeOK
<1>3. Loads
  BY DEF Loads, Load, Resting, Unseen, Posting, Workers
<1>4. RowsAreSound
  BY DEF RowsAreSound
<1>5. OneSweep
  BY DEF OneSweep, Load, Resting, Workers
<1>6. \A e \in Endpoints : Accounts(e)
  BY DEF Accounts, Sent, Accepted, Resting
<1> QED
  BY <1>2, <1>3, <1>4, <1>5, <1>6 DEF WebhookIInv

\* Without crossing sweeps, one worker at a time is about to post for an
\* endpoint or has posted.
LEMMA OnePoster ==
    ASSUME WebhookIInv, ~crossed, NEW v \in Workers, NEW w \in Workers,
           worker[v].stage \in Posting, worker[w].stage \in Posting, worker[v].at = worker[w].at
    PROVE  v = w
<1>1. worker[w].at \in Endpoints
  BY DEF WebhookIInv, WebhookTypeOK, Loads
<1>2. CASE v \in Dispatchers /\ w \in Dispatchers
  BY <1>2 DEF WebhookIInv, Loads
<1>3. CASE v \in Sweepers /\ w \in Sweepers
  BY <1>3 DEF WebhookIInv, OneSweep, Posting
<1>4. CASE v \in Dispatchers /\ w \in Sweepers
  BY <1>1, <1>4 DEF WebhookIInv, Loads, Load
<1>5. CASE v \in Sweepers /\ w \in Dispatchers
  BY <1>1, <1>5 DEF WebhookIInv, Loads, Load
<1> QED
  BY <1>2, <1>3, <1>4, <1>5 DEF Workers

\* Dispatch: what a worker reads or loses, with no row changed.
LEMMA DispatchStep ==
    ASSUME WebhookIInv, NEW w \in Dispatchers,
           dispatchEvent(w) \/ (\E e \in Endpoints : findDelivery(w, e))
    PROVE  WebhookIInv'
<1> USE EndpointsAssumption, WorkersAssumption, AttemptsAssumption
<1>1. /\ w \in Workers /\ w \notin Sweepers
      /\ UNCHANGED <<delivery, sends, received, stops, crossed>>
      /\ worker[w].at = NoEndpoint
  BY DEF Workers, dispatchEvent, findDelivery, WebhookIInv, Loads, Posting
<1>2. /\ worker' \in [Workers -> [stage : {"IDLE", "LOOP", "CREATE", "SEND", "OK", "REFUSED"},
                                  todo : SUBSET Endpoints, at : Endpoints \cup {NoEndpoint},
                                  seen : [Endpoints -> 0..MaxAttempts], age : Nat]]
      /\ \A v \in Workers \ {w} : worker'[v] = worker[v]
      /\ worker'[w].stage \in {"LOOP", "CREATE"}
      /\ worker'[w].at # NoEndpoint <=> worker'[w].stage = "CREATE"
      /\ \A e \in Endpoints : worker'[w].seen[e] = 0
  <2>1. CASE dispatchEvent(w)
    BY <1>1, <2>1 DEF dispatchEvent, Beginning, Unseen, WebhookIInv, WebhookTypeOK
  <2>2. ASSUME NEW e \in Endpoints, findDelivery(w, e) PROVE <1>2!:
    <3>1. CASE delivery[e].status = "NONE"
      <4>1. Onwards(w, "CREATE", worker[w].todo \ {e}, e)
        BY <2>2, <3>1 DEF findDelivery
      <4> QED
        BY <1>1, <4>1 DEF Onwards, WebhookIInv, WebhookTypeOK, Loads
    <3>2. CASE delivery[e].status # "NONE"
      <4>1. Onwards(w, "LOOP", worker[w].todo \ {e}, NoEndpoint)
        BY <2>2, <3>2 DEF findDelivery
      <4> QED
        BY <1>1, <4>1 DEF Onwards, WebhookIInv, WebhookTypeOK, Loads
    <3> QED
      BY <3>1, <3>2
  <2> QED
    BY <2>1, <2>2
<1>3. WebhookTypeOK'
  BY <1>1, <1>2 DEF WebhookIInv, WebhookTypeOK
<1>4. Loads'
  BY <1>1, <1>2 DEF WebhookIInv, Loads, Load, Posting, Workers
<1>5. RowsAreSound'
  BY <1>1, <1>2 DEF WebhookIInv, RowsAreSound, Loads, Posting, Workers
<1>6. ASSUME ~crossed PROVE OneSweep' /\ \A e \in Endpoints : Accounts(e)'
  <2>1. OneSweep'
    BY <1>1, <1>2, <1>6 DEF WebhookIInv, OneSweep, Load, Workers
  <2>2. \A e \in Endpoints : /\ Sent(e)' <=> Sent(e)
                             /\ Accepted(e)' <=> Accepted(e)
    BY <1>1, <1>2 DEF Sent, Accepted
  <2>3. \A e \in Endpoints : Accounts(e)'
    BY <1>1, <1>6, <2>2 DEF WebhookIInv, Accounts
  <2> QED
    BY <2>1, <2>3
<1> QED
  BY <1>1, <1>3, <1>4, <1>5, <1>6 DEF WebhookIInv

\* A sweep reads the rows that are due, or takes up the next one it read.
LEMMA RetryStep ==
    ASSUME WebhookIInv, NEW w \in Sweepers,
           retryDueDeliveries(w) \/ (\E e \in Endpoints : nextDelivery(w, e))
    PROVE  WebhookIInv'
<1> USE EndpointsAssumption, WorkersAssumption, AttemptsAssumption
<1>1. /\ w \in Workers /\ w \notin Dispatchers
      /\ UNCHANGED <<delivery, sends, received, stops>>
      /\ ~crossed' => ~crossed
      /\ crossed' \in BOOLEAN
      /\ worker[w].at = NoEndpoint
  BY DEF Workers, retryDueDeliveries, nextDelivery, WebhookIInv, WebhookTypeOK, Loads, Posting
<1>2. /\ worker' \in [Workers -> [stage : {"IDLE", "LOOP", "CREATE", "SEND", "OK", "REFUSED"},
                                  todo : SUBSET Endpoints, at : Endpoints \cup {NoEndpoint},
                                  seen : [Endpoints -> 0..MaxAttempts], age : Nat]]
      /\ \A v \in Workers \ {w} : worker'[v] = worker[v]
      /\ worker'[w].stage \in {"LOOP", "SEND"}
      /\ worker'[w].at # NoEndpoint <=> worker'[w].stage = "SEND"
      /\ worker'[w].at \notin worker'[w].todo
      /\ \A e \in Endpoints : e \in Load(w)' =>
           \/ e \in Load(w) /\ worker'[w].seen[e] = worker[w].seen[e]
           \/ Due(e) /\ worker'[w].seen[e] = delivery[e].attempts
      /\ ~crossed' => \A v \in Sweepers \ {w} : worker[v].stage = "IDLE"
  <2>1. CASE retryDueDeliveries(w)
    <3> DEFINE due == {e \in Registered : Due(e)}
    <3>1. worker' = [worker EXCEPT ![w] =
              Beginning(due, [e \in Endpoints |-> IF e \in due THEN delivery[e].attempts ELSE 0])]
      BY <2>1 DEF retryDueDeliveries
    <3>2. due \subseteq Endpoints /\ \A e \in due : Due(e)
      BY RegisteredAssumption
    <3>3. \A v \in Workers \ {w} : worker'[v] = worker[v]
      BY <3>1 DEF WebhookIInv, WebhookTypeOK
    <3>4. /\ worker'[w].stage = "LOOP" /\ worker'[w].at = NoEndpoint /\ worker'[w].todo = due
          /\ worker'[w].seen = [e \in Endpoints |-> IF e \in due THEN delivery[e].attempts ELSE 0]
          /\ worker'[w] \in [stage : {"IDLE", "LOOP", "CREATE", "SEND", "OK", "REFUSED"},
                             todo : SUBSET Endpoints, at : Endpoints \cup {NoEndpoint},
                             seen : [Endpoints -> 0..MaxAttempts], age : Nat]
      BY <1>1, <3>1, <3>2 DEF Beginning, WebhookIInv, WebhookTypeOK
    <3>5. ~crossed' => \A v \in Sweepers \ {w} : worker[v].stage = "IDLE"
      BY <2>1 DEF retryDueDeliveries
    <3>6. worker' \in [Workers -> [stage : {"IDLE", "LOOP", "CREATE", "SEND", "OK", "REFUSED"},
                                  todo : SUBSET Endpoints, at : Endpoints \cup {NoEndpoint},
                                  seen : [Endpoints -> 0..MaxAttempts], age : Nat]]
      BY <3>1, <3>4 DEF WebhookIInv, WebhookTypeOK
    <3>7. \A e \in Endpoints : e \in Load(w)' => Due(e) /\ worker'[w].seen[e] = delivery[e].attempts
      BY <3>2, <3>4 DEF Load
    <3> HIDE DEF due
    <3> QED
      BY <3>2, <3>3, <3>4, <3>5, <3>6, <3>7
  <2>2. ASSUME NEW e \in Endpoints, nextDelivery(w, e) PROVE <1>2!:
    <3>1. \A v \in Workers \ {w} : worker'[v] = worker[v]
      BY <2>2 DEF nextDelivery, Onwards, WebhookIInv, WebhookTypeOK
    <3>2. /\ worker'[w].stage = "SEND" /\ worker'[w].at = e /\ worker'[w].todo = worker[w].todo \ {e}
          /\ worker'[w].seen = worker[w].seen /\ e \in worker[w].todo /\ worker[w].stage = "LOOP"
      BY <1>1, <2>2 DEF nextDelivery, Onwards, WebhookIInv, WebhookTypeOK
    <3>3. worker' \in [Workers -> [stage : {"IDLE", "LOOP", "CREATE", "SEND", "OK", "REFUSED"},
                                  todo : SUBSET Endpoints, at : Endpoints \cup {NoEndpoint},
                                  seen : [Endpoints -> 0..MaxAttempts], age : Nat]]
      BY <1>1, <2>2 DEF nextDelivery, Onwards, WebhookIInv, WebhookTypeOK
    <3>4. crossed' = crossed
      BY <2>2 DEF nextDelivery
    <3>5. ~crossed' => \A v \in Sweepers \ {w} : worker[v].stage = "IDLE"
      BY <3>2, <3>4 DEF WebhookIInv, OneSweep
    <3>6. Load(w)' \subseteq Load(w)
      BY <3>2 DEF Load
    <3> QED
      BY <3>1, <3>2, <3>3, <3>5, <3>6
  <2> QED
    BY <2>1, <2>2
<1>3. WebhookTypeOK'
  BY <1>1, <1>2 DEF WebhookIInv, WebhookTypeOK
<1>4. \A e \in Endpoints : Due(e) =>
        delivery[e].status = "RETRYING" /\ delivery[e].attempts < MaxAttempts
  BY DEF WebhookIInv, RowsAreSound, Due
<1>5. Loads'
  <2>1. \A v \in Sweepers \ {w} : Load(v)' = Load(v)
    BY <1>2 DEF Load, Workers
  <2>2. \A v \in Sweepers, e \in Endpoints : e \in Load(v)' =>
          worker'[v].seen[e] < MaxAttempts /\ delivery[e].status \notin {"NONE", "PENDING"}
    BY <1>2, <1>4, <2>1 DEF WebhookIInv, Loads, Workers
  <2> QED
    BY <1>1, <1>2, <2>2, SMTT(30) DEF WebhookIInv, Loads, Posting, Workers
<1>6. RowsAreSound'
  BY <1>1, <1>2 DEF WebhookIInv, RowsAreSound, Workers
<1>7. ASSUME ~crossed' PROVE OneSweep' /\ \A e \in Endpoints : Accounts(e)'
  <2>1. OneSweep'
    <3>1. \A v \in Sweepers \ {w} : Load(v)' = Load(v)
      BY <1>2 DEF Load, Workers
    <3>2. \A v \in Sweepers, e \in Endpoints : e \in Load(v)' =>
            delivery'[e].status = "RETRYING" /\ worker'[v].seen[e] = delivery'[e].attempts
      BY <1>1, <1>2, <1>4, <1>7, <3>1 DEF WebhookIInv, OneSweep, Workers
    <3> QED
      BY <1>2, <1>7, <3>2 DEF OneSweep, Workers
  <2>2. \A e \in Endpoints : /\ Sent(e)' <=> Sent(e)
                             /\ Accepted(e)' <=> Accepted(e)
    BY <1>1, <1>2 DEF Sent, Accepted
  <2>3. \A e \in Endpoints : Accounts(e)'
    BY <1>1, <1>7, <2>2 DEF WebhookIInv, Accounts
  <2> QED
    BY <2>1, <2>3
<1> QED
  BY <1>1, <1>3, <1>5, <1>6, <1>7 DEF WebhookIInv

\* A row is made, or its id is found taken.
LEMMA CreateStep ==
    ASSUME WebhookIInv, NEW w \in Workers, createDelivery(w) \/ createRefused(w)
    PROVE  WebhookIInv'
<1> USE EndpointsAssumption, WorkersAssumption, AttemptsAssumption
<1>1. PICK e \in Endpoints :
      /\ e = worker[w].at
      /\ w \in Dispatchers /\ w \notin Sweepers
      /\ worker[w].stage = "CREATE"
      /\ UNCHANGED <<sends, received, stops, crossed>>
  BY DEF createDelivery, createRefused, WebhookIInv, WebhookTypeOK, Loads, Workers
<1>2. CASE createDelivery(w)
  <2>1. /\ delivery[e].status = "NONE"
        /\ delivery' = [delivery EXCEPT ![e].status = "PENDING"]
        /\ worker' = [worker EXCEPT ![w] = [stage |-> "SEND", todo |-> worker[w].todo, at |-> e,
                                           seen |-> worker[w].seen, age |-> worker[w].age]]
    BY <1>1, <1>2 DEF createDelivery, Goes, Onwards
  <2>2. WebhookTypeOK'
    <3>1. worker' \in [Workers -> [stage : {"IDLE", "LOOP", "CREATE", "SEND", "OK", "REFUSED"},
                                  todo : SUBSET Endpoints, at : Endpoints \cup {NoEndpoint},
                                  seen : [Endpoints -> 0..MaxAttempts], age : Nat]]
      BY <1>1, <2>1 DEF WebhookIInv, WebhookTypeOK
    <3>2. delivery' \in [Endpoints -> [status : {"NONE", "PENDING", "RETRYING", "DELIVERED", "FAILED"},
                                      attempts : 0..MaxAttempts, wait : Nat]]
      BY <1>1, <2>1, SMTT(30) DEF WebhookIInv, WebhookTypeOK
    <3> QED
      BY <1>1, <3>1, <3>2 DEF WebhookIInv, WebhookTypeOK
  <2>3. /\ \A v \in Workers \ {w} : worker'[v] = worker[v]
        /\ worker'[w].stage = "SEND" /\ worker'[w].at = e
        /\ worker'[w].todo = worker[w].todo /\ worker'[w].seen = worker[w].seen
    BY <1>1, <2>1 DEF WebhookIInv, WebhookTypeOK
  <2>4. /\ \A d \in Endpoints \ {e} : delivery'[d] = delivery[d]
        /\ delivery'[e].status = "PENDING" /\ delivery'[e].attempts = delivery[e].attempts
    BY <1>1, <2>1 DEF WebhookIInv, WebhookTypeOK
  <2>5. \A v \in Sweepers : Load(v)' = Load(v) /\ e \notin Load(v)
    BY <1>1, <2>1, <2>3 DEF WebhookIInv, Loads, Load, Workers
  <2>6. \A v \in Dispatchers : worker[v].stage \in Posting => worker[v].at # e
    BY <2>1 DEF WebhookIInv, Loads
  <2>7. Loads'
    <3>1. \A v \in Workers :
            /\ worker'[v].at # NoEndpoint <=> worker'[v].stage \in Posting \cup {"CREATE"}
            /\ worker'[v].stage = "IDLE" => worker'[v].todo = {}
            /\ worker'[v].stage = "OK" => received'[worker'[v].at] > 0
      BY <1>1, <2>3 DEF WebhookIInv, Loads, Posting
    <3>2. \A v \in Dispatchers :
            /\ \A d \in Endpoints : worker'[v].seen[d] = 0
            /\ worker'[v].stage \in Posting => delivery'[worker'[v].at].status = "PENDING"
      <4>1. \A v \in Dispatchers \ {w} : worker'[v].stage \in Posting =>
              worker[v].at \in Endpoints \ {e} /\ worker'[v] = worker[v]
        BY <2>3, <2>6 DEF WebhookIInv, WebhookTypeOK, Loads, Workers
      <4> QED
        BY <1>1, <2>3, <2>4, <4>1 DEF WebhookIInv, Loads, Workers
    <3>3. \A v \in Sweepers :
            /\ worker'[v].stage # "CREATE"
            /\ worker'[v].at \notin worker'[v].todo
            /\ \A d \in Endpoints : d \in Load(v)' =>
                 worker'[v].seen[d] < MaxAttempts /\ delivery'[d].status \notin {"NONE", "PENDING"}
      BY <1>1, <2>3, <2>4, <2>5 DEF WebhookIInv, Loads, Workers
    <3>4. \A u, v \in Dispatchers :
            worker'[u].stage \in Posting /\ worker'[v].stage \in Posting /\ worker'[u].at = worker'[v].at
              => u = v
      BY <1>1, <2>3, <2>6 DEF WebhookIInv, Loads, Workers
    <3> QED
      BY <3>1, <3>2, <3>3, <3>4 DEF Loads
  <2>8. RowsAreSound'
    <3> SUFFICES ASSUME NEW d \in Endpoints
                 PROVE  /\ delivery'[d].status \in {"NONE", "PENDING"} => delivery'[d].attempts = 0
                        /\ delivery'[d].status = "RETRYING" => delivery'[d].attempts < MaxAttempts
                        /\ delivery'[d].status = "DELIVERED" => received'[d] > 0
                        /\ delivery'[d].status = "PENDING" =>
                             \/ \E v \in Dispatchers : worker'[v].stage \in Posting /\ worker'[v].at = d
                             \/ stops'[d] > 0
      BY DEF RowsAreSound
    <3>1. CASE d = e
      BY <1>1, <2>1, <2>3, <2>4, <3>1 DEF WebhookIInv, RowsAreSound, Posting
    <3>2. CASE d # e
      BY <1>1, <2>3, <2>4, <3>2 DEF WebhookIInv, RowsAreSound, Workers
    <3> QED
      BY <3>1, <3>2
  <2>9. ASSUME ~crossed PROVE OneSweep' /\ \A d \in Endpoints : Accounts(d)'
    <3>1. OneSweep'
      BY <1>1, <2>3, <2>4, <2>5, <2>9 DEF WebhookIInv, OneSweep, Workers
    <3>2. \A d \in Endpoints : Sent(d) => Sent(d)'
      BY <1>1, <2>3 DEF Sent
    <3>3. \A d \in Endpoints : Accepted(d) => Accepted(d)'
      BY <1>1, <2>1, <2>3, <2>4 DEF Accepted
    <3>4. \A d \in Endpoints : /\ delivery'[d].attempts = delivery[d].attempts /\ delivery[d].attempts \in Nat
                               /\ sends[d] \in Nat /\ received[d] \in Nat /\ stops[d] \in Nat
      BY <1>1, <2>4, StopsAssumption DEF WebhookIInv, WebhookTypeOK
    <3>5. \A d \in Endpoints : Accounts(d)'
      BY <1>1, <2>9, <3>2, <3>3, <3>4 DEF WebhookIInv, Accounts
    <3> QED
      BY <3>1, <3>5
  <2> QED
    BY <1>1, <2>2, <2>7, <2>8, <2>9 DEF WebhookIInv
<1>3. CASE createRefused(w)
  <2>1. worker' = [worker EXCEPT ![w] = Resting] /\ delivery' = delivery
    BY <1>3 DEF createRefused
  <2>2. Resting \in [stage : {"IDLE", "LOOP", "CREATE", "SEND", "OK", "REFUSED"},
                     todo : SUBSET Endpoints, at : Endpoints \cup {NoEndpoint},
                     seen : [Endpoints -> 0..MaxAttempts], age : Nat]
    BY DEF Resting, Unseen
  <2>3. WebhookTypeOK'
    BY <1>1, <2>1, <2>2 DEF WebhookIInv, WebhookTypeOK
  <2>4. /\ \A v \in Workers \ {w} : worker'[v] = worker[v]
        /\ worker'[w].stage = "IDLE" /\ worker'[w].at = NoEndpoint /\ worker'[w].todo = {}
        /\ \A d \in Endpoints : worker'[w].seen[d] = 0
    BY <2>1 DEF WebhookIInv, WebhookTypeOK, Resting, Unseen
  <2>5. Loads'
    BY <1>1, <2>1, <2>4 DEF WebhookIInv, Loads, Load, Posting, Workers
  <2>6. RowsAreSound'
    BY <1>1, <2>1, <2>4 DEF WebhookIInv, RowsAreSound, Workers, Posting
  <2>7. ASSUME ~crossed PROVE OneSweep' /\ \A d \in Endpoints : Accounts(d)'
    <3>1. OneSweep'
      BY <1>1, <2>1, <2>4, <2>7 DEF WebhookIInv, OneSweep, Load, Workers
    <3>2. \A d \in Endpoints : /\ Sent(d)' <=> Sent(d)
                               /\ Accepted(d)' <=> Accepted(d)
      BY <1>1, <2>1, <2>4 DEF Sent, Accepted
    <3>3. \A d \in Endpoints : Accounts(d)'
      BY <1>1, <2>1, <2>7, <3>2 DEF WebhookIInv, Accounts
    <3> QED
      BY <3>1, <3>3
  <2> QED
    BY <1>1, <2>3, <2>5, <2>6, <2>7 DEF WebhookIInv
<1> QED
  BY <1>2, <1>3

\* A POST counts, and the worker that made it holds it.
LEMMA PostStep ==
    ASSUME WebhookIInv, NEW w \in Workers, NEW ok \in BOOLEAN, post(w, ok)
    PROVE  WebhookIInv'
<1> USE EndpointsAssumption, WorkersAssumption, AttemptsAssumption
<1>1. PICK e \in Endpoints :
      /\ worker[w].stage = "SEND" /\ e = worker[w].at
      /\ sends' = [sends EXCEPT ![e] = @ + 1]
      /\ received' = IF ok THEN [received EXCEPT ![e] = @ + 1] ELSE received
      /\ worker' = [worker EXCEPT ![w] = [stage |-> IF ok THEN "OK" ELSE "REFUSED",
                                         todo |-> worker[w].todo, at |-> e,
                                         seen |-> worker[w].seen, age |-> worker[w].age]]
      /\ UNCHANGED <<delivery, stops, crossed>>
  BY DEF post, Goes, Onwards, WebhookIInv, WebhookTypeOK, Loads, Posting
<1>2. WebhookTypeOK'
  <2>1. worker' \in [Workers -> [stage : {"IDLE", "LOOP", "CREATE", "SEND", "OK", "REFUSED"},
                                todo : SUBSET Endpoints, at : Endpoints \cup {NoEndpoint},
                                seen : [Endpoints -> 0..MaxAttempts], age : Nat]]
    BY <1>1 DEF WebhookIInv, WebhookTypeOK
  <2>2. sends' \in [Endpoints -> Nat] /\ received' \in [Endpoints -> Nat]
    BY <1>1 DEF WebhookIInv, WebhookTypeOK
  <2> QED
    BY <1>1, <2>1, <2>2 DEF WebhookIInv, WebhookTypeOK
<1>3. /\ \A v \in Workers \ {w} : worker'[v] = worker[v]
      /\ worker'[w].stage = (IF ok THEN "OK" ELSE "REFUSED") /\ worker'[w].at = e
      /\ worker'[w].todo = worker[w].todo /\ worker'[w].seen = worker[w].seen
  BY <1>1 DEF WebhookIInv, WebhookTypeOK
<1>4. /\ \A d \in Endpoints \ {e} : sends'[d] = sends[d] /\ received'[d] = received[d]
      /\ sends'[e] = sends[e] + 1
      /\ received'[e] = received[e] + (IF ok THEN 1 ELSE 0)
      /\ \A d \in Endpoints : received[d] \in Nat /\ sends[d] \in Nat
  BY <1>1 DEF WebhookIInv, WebhookTypeOK
<1>5. \A d \in Endpoints : received[d] > 0 => received'[d] > 0
  BY <1>4
<1>6. ok => received'[e] > 0
  BY <1>1, <1>4
<1>7. /\ \A v \in Workers : worker'[v].stage \in Posting <=> worker[v].stage \in Posting
      /\ \A v \in Workers : Load(v)' = Load(v) /\ worker'[v].at = worker[v].at
      /\ \A v \in Workers : worker'[v].todo = worker[v].todo /\ worker'[v].seen = worker[v].seen
      /\ \A v \in Workers : worker'[v].stage = "IDLE" <=> worker[v].stage = "IDLE"
      /\ \A v \in Workers : worker'[v].stage = "CREATE" <=> worker[v].stage = "CREATE"
  <2> SUFFICES ASSUME NEW v \in Workers
               PROVE  /\ worker'[v].stage \in Posting <=> worker[v].stage \in Posting
                      /\ worker'[v].at = worker[v].at
                      /\ worker'[v].todo = worker[v].todo /\ worker'[v].seen = worker[v].seen
                      /\ worker'[v].stage = "IDLE" <=> worker[v].stage = "IDLE"
                      /\ worker'[v].stage = "CREATE" <=> worker[v].stage = "CREATE"
    BY DEF Load
  <2>1. CASE v = w
    BY <1>1, <1>3, <2>1 DEF Posting
  <2>2. CASE v # w
    BY <1>3, <2>2
  <2> QED
    BY <2>1, <2>2
<1>8. Loads'
  <2>1. \A v \in Workers : worker'[v].stage = "OK" => received'[worker'[v].at] > 0
    <3> SUFFICES ASSUME NEW v \in Workers, worker'[v].stage = "OK" PROVE received'[worker'[v].at] > 0
      OBVIOUS
    <3>1. CASE v = w
      BY <1>3, <1>6, <3>1
    <3>2. CASE v # w
      <4>1. worker'[v] = worker[v] /\ worker[v].at \in Endpoints /\ received[worker[v].at] > 0
        BY <1>3, <3>2 DEF WebhookIInv, WebhookTypeOK, Loads, Posting
      <4> QED
        BY <1>5, <4>1
    <3> QED
      BY <3>1, <3>2
  <2>2. \A v \in Workers : /\ worker'[v].at # NoEndpoint <=> worker'[v].stage \in Posting \cup {"CREATE"}
                           /\ worker'[v].stage = "IDLE" => worker'[v].todo = {}
    BY <1>7 DEF WebhookIInv, Loads
  <2>3. \A v \in Dispatchers :
          /\ \A d \in Endpoints : worker'[v].seen[d] = 0
          /\ worker'[v].stage \in Posting => delivery'[worker'[v].at].status = "PENDING"
    BY <1>1, <1>7 DEF WebhookIInv, Loads, Workers
  <2>4. \A v \in Sweepers :
          /\ worker'[v].stage # "CREATE"
          /\ worker'[v].at \notin worker'[v].todo
          /\ \A d \in Endpoints : d \in Load(v)' =>
               worker'[v].seen[d] < MaxAttempts /\ delivery'[d].status \notin {"NONE", "PENDING"}
    BY <1>1, <1>7 DEF WebhookIInv, Loads, Workers
  <2>5. \A u, v \in Dispatchers :
          worker'[u].stage \in Posting /\ worker'[v].stage \in Posting /\ worker'[u].at = worker'[v].at
            => u = v
    BY <1>7 DEF WebhookIInv, Loads, Workers
  <2> QED
    BY <2>1, <2>2, <2>3, <2>4, <2>5 DEF Loads
<1>9. RowsAreSound'
  <2>1. \A d \in Endpoints :
          (\E v \in Dispatchers : worker[v].stage \in Posting /\ worker[v].at = d)
            => (\E v \in Dispatchers : worker'[v].stage \in Posting /\ worker'[v].at = d)
    BY <1>7 DEF Workers
  <2> QED
    BY <1>1, <1>5, <2>1 DEF WebhookIInv, RowsAreSound
<1>10. ASSUME ~crossed PROVE OneSweep' /\ \A d \in Endpoints : Accounts(d)'
  <2>1. OneSweep'
    <3>1. \A u, v \in Sweepers : worker'[u].stage # "IDLE" /\ worker'[v].stage # "IDLE" => u = v
      BY <1>7, <1>10 DEF WebhookIInv, OneSweep, Workers
    <3>2. \A v \in Sweepers, d \in Endpoints : d \in Load(v)' =>
            delivery'[d].status = "RETRYING" /\ worker'[v].seen[d] = delivery'[d].attempts
      BY <1>1, <1>7, <1>10 DEF WebhookIInv, OneSweep, Workers
    <3> QED
      BY <3>1, <3>2 DEF OneSweep
  <2>2. ~Sent(e) /\ ~Accepted(e)
    <3>1. \A v \in Workers : worker[v].at = e /\ worker[v].stage \in Posting => v = w
      BY <1>1, <1>10, OnePoster DEF Posting
    <3>2. delivery[e].status \in {"PENDING", "RETRYING"}
      BY <1>1, <1>10 DEF WebhookIInv, Loads, OneSweep, Load, Workers, Posting
    <3> QED
      BY <1>1, <3>1, <3>2 DEF Sent, Accepted, Posting
  <2>3. Sent(e)' /\ (ok => Accepted(e)')
    BY <1>3 DEF Sent, Accepted
  <2>4. \A d \in Endpoints \ {e} : /\ Sent(d)' <=> Sent(d)
                                   /\ Accepted(d)' <=> Accepted(d)
    BY <1>1, <1>3 DEF Sent, Accepted
  <2>5. /\ delivery[e].attempts \in Nat /\ stops[e] \in Nat
        /\ Accounts(e)
    BY <1>1, <1>10, StopsAssumption DEF WebhookIInv, WebhookTypeOK
  <2>6. Accounts(e)'
    <3>1. sends[e] <= delivery[e].attempts + stops[e] /\ received[e] <= stops[e]
      BY <2>2, <2>5, <1>4 DEF Accounts
    <3>2. sends'[e] <= delivery'[e].attempts + stops'[e] + 1
      BY <1>1, <1>4, <2>5, <3>1
    <3>3. received'[e] <= stops'[e] + (IF Accepted(e)' THEN 1 ELSE 0)
      BY <1>1, <1>4, <2>3, <2>5, <3>1
    <3> QED
      BY <2>3, <3>2, <3>3 DEF Accounts
  <2>7. \A d \in Endpoints \ {e} : Accounts(d)'
    BY <1>1, <1>4, <1>10, <2>4 DEF WebhookIInv, Accounts
  <2> QED
    BY <2>1, <2>6, <2>7
<1> QED
  BY <1>1, <1>2, <1>8, <1>9, <1>10 DEF WebhookIInv

\* An attempt is recorded over whatever the row says by now.
LEMMA RecordStep ==
    ASSUME WebhookIInv, NEW w \in Workers, recordSuccess(w) \/ recordFailure(w)
    PROVE  WebhookIInv'
<1> USE EndpointsAssumption, WorkersAssumption, AttemptsAssumption
<1>1. PICK e \in Endpoints :
      /\ e = worker[w].at
      /\ worker[w].stage \in {"OK", "REFUSED"}
      /\ worker' = [worker EXCEPT ![w] = [stage |-> "LOOP", todo |-> worker[w].todo, at |-> NoEndpoint,
                                         seen |-> worker[w].seen, age |-> worker[w].age]]
      /\ UNCHANGED <<sends, received, stops, crossed>>
  BY DEF recordSuccess, recordFailure, Goes, Onwards, WebhookIInv, WebhookTypeOK, Loads, Posting
<1>2. /\ worker[w].seen[e] \in Nat /\ worker[w].seen[e] < MaxAttempts
      /\ \A v \in Dispatchers \ {w} : worker[v].stage \in Posting => worker[v].at # e
      /\ w \in Dispatchers => delivery[e].status = "PENDING" /\ worker[w].seen[e] = 0
      /\ w \in Sweepers => e \notin worker[w].todo /\ delivery[e].status # "PENDING"
  <2>1. CASE w \in Dispatchers
    BY <1>1, <2>1 DEF WebhookIInv, Loads, Posting
  <2>2. CASE w \in Sweepers
    <3>1. /\ worker[w].seen[e] < MaxAttempts /\ e \notin worker[w].todo
          /\ delivery[e].status # "PENDING"
      BY <1>1, <2>2 DEF WebhookIInv, Loads, Load
    <3>2. worker[w].seen[e] \in Nat
      BY <1>1 DEF WebhookIInv, WebhookTypeOK
    <3>3. \A v \in Dispatchers : worker[v].stage \in Posting => worker[v].at # e
      BY <3>1 DEF WebhookIInv, Loads
    <3> QED
      BY <2>2, <3>1, <3>2, <3>3
  <2> QED
    BY <2>1, <2>2 DEF Workers
<1>3. PICK row \in [status : {"RETRYING", "DELIVERED", "FAILED"}, attempts : 0..MaxAttempts, wait : Nat] :
      /\ delivery' = [delivery EXCEPT ![e] = row]
      /\ row.attempts = worker[w].seen[e] + 1
      /\ row.status = "RETRYING" => row.attempts < MaxAttempts
      /\ row.status = "DELIVERED" <=> worker[w].stage = "OK"
  <2>1. CASE recordSuccess(w)
    <3> DEFINE row == [status |-> "DELIVERED", attempts |-> worker[w].seen[e] + 1, wait |-> 0]
    <3>1. row \in [status : {"RETRYING", "DELIVERED", "FAILED"}, attempts : 0..MaxAttempts, wait : Nat]
      BY <1>2
    <3>2. delivery' = [delivery EXCEPT ![e] = row] /\ worker[w].stage = "OK"
      BY <1>1, <2>1 DEF recordSuccess
    <3> QED
      BY <1>2, <3>1, <3>2
  <2>2. CASE recordFailure(w)
    <3> DEFINE attempt == worker[w].seen[e] + 1
               left == backoff(attempt) - worker[w].age
               row == IF exhausted(attempt)
                        THEN [status |-> "FAILED", attempts |-> attempt, wait |-> 0]
                        ELSE [status |-> "RETRYING", attempts |-> attempt,
                              wait |-> IF left > 0 THEN left ELSE 0]
    <3>1. attempt \in 1..MaxAttempts
      BY <1>2
    <3>2. left \in Int
      <4>1. 2 ^ (attempt - 1) \in Int
        BY <3>1
      <4>2. worker[w].age \in Nat
        BY DEF WebhookIInv, WebhookTypeOK
      <4> HIDE DEF attempt
      <4> QED
        BY <4>1, <4>2 DEF backoff
    <3>3. delivery' = [delivery EXCEPT ![e] = row] /\ worker[w].stage = "REFUSED"
      BY <1>1, <2>2 DEF recordFailure
    <3> HIDE DEF attempt, left
    <3>4. CASE exhausted(attempt)
      <4>1. row = [status |-> "FAILED", attempts |-> attempt, wait |-> 0]
        BY <3>4
      <4> HIDE DEF row
      <4>2. row \in [status : {"RETRYING", "DELIVERED", "FAILED"}, attempts : 0..MaxAttempts, wait : Nat]
        BY <3>1, <4>1
      <4>3. row.attempts = attempt /\ row.status = "FAILED"
        BY <4>1
      <4> QED
        BY <3>3, <4>2, <4>3 DEF attempt
    <3>5. CASE ~exhausted(attempt)
      <4>1. attempt < MaxAttempts
        BY <3>1, <3>5 DEF exhausted
      <4>2. row = [status |-> "RETRYING", attempts |-> attempt, wait |-> IF left > 0 THEN left ELSE 0]
        BY <3>5
      <4>3. (IF left > 0 THEN left ELSE 0) \in Nat
        BY <3>2
      <4> HIDE DEF row
      <4>4. row \in [status : {"RETRYING", "DELIVERED", "FAILED"}, attempts : 0..MaxAttempts, wait : Nat]
        BY <3>1, <4>2, <4>3
      <4>5. row.attempts = attempt /\ row.status = "RETRYING"
        BY <4>2
      <4> QED
        BY <3>3, <4>1, <4>4, <4>5 DEF attempt
    <3> QED
      BY <3>4, <3>5
  <2> QED
    BY <2>1, <2>2
<1>4. WebhookTypeOK'
  <2>1. worker' \in [Workers -> [stage : {"IDLE", "LOOP", "CREATE", "SEND", "OK", "REFUSED"},
                                todo : SUBSET Endpoints, at : Endpoints \cup {NoEndpoint},
                                seen : [Endpoints -> 0..MaxAttempts], age : Nat]]
    BY <1>1 DEF WebhookIInv, WebhookTypeOK
  <2>2. delivery' \in [Endpoints -> [status : {"NONE", "PENDING", "RETRYING", "DELIVERED", "FAILED"},
                                    attempts : 0..MaxAttempts, wait : Nat]]
    BY <1>3 DEF WebhookIInv, WebhookTypeOK
  <2> QED
    BY <1>1, <2>1, <2>2 DEF WebhookIInv, WebhookTypeOK
<1>5. /\ \A v \in Workers \ {w} : worker'[v] = worker[v]
      /\ worker'[w].stage = "LOOP" /\ worker'[w].at = NoEndpoint
      /\ worker'[w].todo = worker[w].todo /\ worker'[w].seen = worker[w].seen
      /\ \A d \in Endpoints \ {e} : delivery'[d] = delivery[d]
      /\ delivery'[e] = row
  BY <1>1, <1>3 DEF WebhookIInv, WebhookTypeOK
<1>6. \A v \in Sweepers, d \in Endpoints : d \in Load(v)' =>
        d \in Load(v) /\ (v = w => d # e) /\ worker'[v].seen[d] = worker[v].seen[d]
  BY <1>2, <1>5 DEF Load, Workers
<1>7. Loads'
  <2>1. \A v \in Workers :
          /\ worker'[v].at # NoEndpoint <=> worker'[v].stage \in Posting \cup {"CREATE"}
          /\ worker'[v].stage = "IDLE" => worker'[v].todo = {}
          /\ worker'[v].stage = "OK" => received'[worker'[v].at] > 0
    BY <1>1, <1>5 DEF WebhookIInv, Loads, Posting
  <2>2. \A v \in Dispatchers :
          /\ \A d \in Endpoints : worker'[v].seen[d] = 0
          /\ worker'[v].stage \in Posting => delivery'[worker'[v].at].status = "PENDING"
    <3>1. \A v \in Dispatchers : worker'[v].stage \in Posting =>
            v # w /\ worker'[v] = worker[v] /\ worker[v].at \in Endpoints \ {e}
      BY <1>2, <1>5 DEF WebhookIInv, WebhookTypeOK, Loads, Workers, Posting
    <3> QED
      BY <1>5, <3>1 DEF WebhookIInv, Loads, Workers
  <2>3. \A v \in Sweepers :
          /\ worker'[v].stage # "CREATE"
          /\ worker'[v].at \notin worker'[v].todo
          /\ \A d \in Endpoints : d \in Load(v)' =>
               worker'[v].seen[d] < MaxAttempts /\ delivery'[d].status \notin {"NONE", "PENDING"}
    <3>1. \A v \in Sweepers : worker'[v].stage # "CREATE" /\ worker'[v].at \notin worker'[v].todo
      BY <1>5 DEF WebhookIInv, WebhookTypeOK, Loads, Workers
    <3>2. ASSUME NEW v \in Sweepers, NEW d \in Endpoints, d \in Load(v)'
          PROVE  worker'[v].seen[d] < MaxAttempts /\ delivery'[d].status \notin {"NONE", "PENDING"}
      <4>1. d \in Load(v) /\ worker'[v].seen[d] = worker[v].seen[d]
        BY <1>6, <3>2
      <4>2. delivery'[d].status \notin {"NONE", "PENDING"}
        BY <1>5, <4>1, <1>3 DEF WebhookIInv, Loads
      <4> QED
        BY <4>1, <4>2 DEF WebhookIInv, Loads
    <3> QED
      BY <3>1, <3>2
  <2>4. \A u, v \in Dispatchers :
          worker'[u].stage \in Posting /\ worker'[v].stage \in Posting /\ worker'[u].at = worker'[v].at
            => u = v
    BY <1>5 DEF WebhookIInv, Loads, Workers, Posting
  <2> QED
    BY <2>1, <2>2, <2>3, <2>4 DEF Loads
<1>8. RowsAreSound'
  <2> SUFFICES ASSUME NEW d \in Endpoints
               PROVE  /\ delivery'[d].status \in {"NONE", "PENDING"} => delivery'[d].attempts = 0
                      /\ delivery'[d].status = "RETRYING" => delivery'[d].attempts < MaxAttempts
                      /\ delivery'[d].status = "DELIVERED" => received'[d] > 0
                      /\ delivery'[d].status = "PENDING" =>
                           \/ \E v \in Dispatchers : worker'[v].stage \in Posting /\ worker'[v].at = d
                           \/ stops'[d] > 0
    BY DEF RowsAreSound
  <2>1. CASE d = e
    BY <1>1, <1>3, <1>5, <2>1 DEF WebhookIInv, Loads
  <2>2. CASE d # e
    BY <1>1, <1>5, <2>2 DEF WebhookIInv, RowsAreSound, Workers
  <2> QED
    BY <2>1, <2>2
<1>9. ASSUME ~crossed PROVE OneSweep' /\ \A d \in Endpoints : Accounts(d)'
  <2>1. delivery[e].attempts = worker[w].seen[e] /\ delivery[e].status \in {"PENDING", "RETRYING"}
    BY <1>1, <1>2, <1>9 DEF WebhookIInv, RowsAreSound, OneSweep, Load, Workers
  <2>2. OneSweep'
    <3>1. \A u, v \in Sweepers : worker'[u].stage # "IDLE" /\ worker'[v].stage # "IDLE" => u = v
      BY <1>1, <1>5, <1>9 DEF WebhookIInv, OneSweep, Workers
    <3>2. ASSUME NEW v \in Sweepers, NEW d \in Endpoints, d \in Load(v)'
          PROVE  delivery'[d].status = "RETRYING" /\ worker'[v].seen[d] = delivery'[d].attempts
      <4>1. d \in Load(v) /\ (v = w => d # e) /\ worker'[v].seen[d] = worker[v].seen[d]
        BY <1>6, <3>2
      <4>2. d # e
        <5>1. CASE w \in Dispatchers
          BY <1>2, <4>1, <5>1 DEF WebhookIInv, Loads
        <5>2. CASE w \in Sweepers /\ v # w
          <6>1. worker[v].stage # "IDLE"
            BY <4>1 DEF WebhookIInv, Loads, Load, Workers, Posting
          <6> QED
            BY <1>1, <1>9, <5>2, <6>1 DEF WebhookIInv, OneSweep
        <5> QED
          BY <4>1, <5>1, <5>2 DEF Workers
      <4> QED
        BY <1>5, <1>9, <4>1, <4>2 DEF WebhookIInv, OneSweep
    <3> QED
      BY <3>1, <3>2 DEF OneSweep
  <2>3. \A d \in Endpoints \ {e} : /\ Sent(d)' <=> Sent(d)
                                   /\ Accepted(d)' <=> Accepted(d)
    BY <1>1, <1>5 DEF Sent, Accepted
  <2>4. \A d \in Endpoints \ {e} : Accounts(d)'
    BY <1>1, <1>5, <1>9, <2>3 DEF WebhookIInv, Accounts
  <2>5. Accounts(e)'
    <3>1. /\ delivery[e].attempts \in Nat /\ stops[e] \in Nat /\ sends[e] \in Nat /\ received[e] \in Nat
          /\ Accounts(e)
      BY <1>9, StopsAssumption DEF WebhookIInv, WebhookTypeOK
    <3>2. sends'[e] <= delivery'[e].attempts + stops'[e]
      BY <1>1, <1>3, <1>5, <2>1, <3>1 DEF Accounts
    <3>3. CASE worker[w].stage = "OK"
      <4>1. Accepted(e)'
        BY <1>3, <1>5, <3>3 DEF Accepted
      <4>2. received'[e] <= stops'[e] + 1
        BY <1>1, <3>1 DEF Accounts
      <4>3. delivery'[e].attempts \in Nat
        BY <1>3, <1>5
      <4> QED
        BY <1>1, <3>1, <3>2, <4>1, <4>2, <4>3 DEF Accounts
    <3>4. CASE worker[w].stage = "REFUSED"
      <4>1. ~Accepted(e)
        <5>1. \A v \in Workers : worker[v].at = e /\ worker[v].stage \in Posting => v = w
          BY <1>1, <1>9, OnePoster DEF Posting
        <5> QED
          BY <2>1, <3>4, <5>1 DEF Accepted, Posting
      <4>2. received'[e] <= stops'[e]
        BY <1>1, <3>1, <4>1 DEF Accounts
      <4>3. delivery'[e].attempts \in Nat
        BY <1>3, <1>5
      <4> QED
        BY <1>1, <3>1, <3>2, <4>2, <4>3 DEF Accounts
    <3> QED
      BY <1>1, <3>3, <3>4
  <2> QED
    BY <2>2, <2>4, <2>5
<1> QED
  BY <1>1, <1>4, <1>7, <1>8, <1>9 DEF WebhookIInv

\* A worker ends, with its work done or in the middle of it.
LEMMA EndStep ==
    ASSUME WebhookIInv, NEW w \in Workers, finish(w) \/ stop(w)
    PROVE  WebhookIInv'
<1> USE EndpointsAssumption, WorkersAssumption, AttemptsAssumption
<1>1. worker' = [worker EXCEPT ![w] = Resting] /\ UNCHANGED <<delivery, sends, received, crossed>>
  BY DEF finish, stop
<1>2. Resting \in [stage : {"IDLE", "LOOP", "CREATE", "SEND", "OK", "REFUSED"},
                   todo : SUBSET Endpoints, at : Endpoints \cup {NoEndpoint},
                   seen : [Endpoints -> 0..MaxAttempts], age : Nat]
  BY DEF Resting, Unseen
<1>3. /\ \A v \in Workers \ {w} : worker'[v] = worker[v]
      /\ worker'[w].stage = "IDLE" /\ worker'[w].at = NoEndpoint /\ worker'[w].todo = {}
      /\ \A d \in Endpoints : worker'[w].seen[d] = 0
  BY <1>1 DEF WebhookIInv, WebhookTypeOK, Resting, Unseen
<1>4. /\ stops' \in [Endpoints -> 0..MaxStops]
      /\ \A d \in Endpoints : worker[w].at # d => stops'[d] = stops[d]
      /\ \A d \in Endpoints : worker[w].at = d => stops'[d] = stops[d] + 1
  <2>1. CASE finish(w)
    <3>1. worker[w].at = NoEndpoint /\ stops' = stops
      BY <2>1 DEF finish, WebhookIInv, Loads, Posting
    <3> QED
      BY <3>1 DEF WebhookIInv, WebhookTypeOK
  <2>2. CASE stop(w)
    <3>1. PICK e \in Endpoints :
            e = worker[w].at /\ stops[e] < MaxStops /\ stops' = [stops EXCEPT ![e] = @ + 1]
      BY <2>2 DEF stop, WebhookIInv, WebhookTypeOK
    <3>2. stops \in [Endpoints -> 0..MaxStops]
      BY DEF WebhookIInv, WebhookTypeOK
    <3> QED
      BY <3>1, <3>2, StopsAssumption
  <2> QED
    BY <2>1, <2>2
<1>5. WebhookTypeOK'
  BY <1>1, <1>2, <1>4 DEF WebhookIInv, WebhookTypeOK
<1>6. Loads'
  BY <1>1, <1>3 DEF WebhookIInv, Loads, Load, Posting, Workers
<1>7. \A d \in Endpoints : stops[d] \in Nat /\ stops'[d] \in Nat
  BY <1>4, StopsAssumption DEF WebhookIInv, WebhookTypeOK
<1>8. RowsAreSound'
  <2> SUFFICES ASSUME NEW d \in Endpoints, delivery[d].status = "PENDING"
               PROVE  \/ \E v \in Dispatchers : worker'[v].stage \in Posting /\ worker'[v].at = d
                      \/ stops'[d] > 0
    BY <1>1 DEF WebhookIInv, RowsAreSound
  <2>1. CASE worker[w].at = d
    BY <1>4, <1>7, <2>1
  <2>2. CASE worker[w].at # d
    BY <1>3, <1>4, <2>2 DEF WebhookIInv, RowsAreSound, Workers
  <2> QED
    BY <2>1, <2>2
<1>9. ASSUME ~crossed PROVE OneSweep' /\ \A d \in Endpoints : Accounts(d)'
  <2>1. OneSweep'
    BY <1>1, <1>3, <1>9 DEF WebhookIInv, OneSweep, Load, Workers
  <2>2. ASSUME NEW d \in Endpoints PROVE Accounts(d)'
    <3>1. /\ delivery[d].attempts \in Nat /\ sends[d] \in Nat /\ received[d] \in Nat
          /\ Accounts(d)
      BY <1>9 DEF WebhookIInv, WebhookTypeOK
    <3>2. CASE worker[w].at # d
      <4>1. /\ Sent(d)' <=> Sent(d)
            /\ Accepted(d)' <=> Accepted(d)
        BY <1>1, <1>3, <3>2 DEF Sent, Accepted
      <4> QED
        BY <1>1, <1>4, <3>1, <3>2, <4>1 DEF Accounts
    <3>3. CASE worker[w].at = d
      <4>1. sends'[d] <= delivery'[d].attempts + stops'[d] /\ received'[d] <= stops'[d]
        BY <1>1, <1>4, <1>7, <3>1, <3>3 DEF Accounts
      <4>2. delivery'[d].attempts \in Nat
        BY <1>1, <3>1
      <4> QED
        BY <1>1, <1>7, <3>1, <4>1, <4>2 DEF Accounts
    <3> QED
      BY <3>2, <3>3
  <2> QED
    BY <2>1, <2>2
<1> QED
  BY <1>1, <1>5, <1>6, <1>8, <1>9 DEF WebhookIInv

\* Time changes back-offs and ages only.
LEMMA SecondStep ==
    ASSUME WebhookIInv, second
    PROVE  WebhookIInv'
<1>1. UNCHANGED <<sends, received, stops, crossed>>
  BY DEF second
<1>2. /\ \A e \in Endpoints : delivery'[e].status = delivery[e].status
                             /\ delivery'[e].attempts = delivery[e].attempts
      /\ delivery' \in [Endpoints -> [status : {"NONE", "PENDING", "RETRYING", "DELIVERED", "FAILED"},
                                      attempts : 0..MaxAttempts, wait : Nat]]
  <2>1. delivery' = [e \in Endpoints |-> [delivery[e] EXCEPT !.wait = IF @ > 0 THEN @ - 1 ELSE 0]]
    BY DEF second
  <2>2. ASSUME NEW e \in Endpoints
        PROVE  /\ delivery'[e] \in [status : {"NONE", "PENDING", "RETRYING", "DELIVERED", "FAILED"},
                                   attempts : 0..MaxAttempts, wait : Nat]
               /\ delivery'[e].status = delivery[e].status /\ delivery'[e].attempts = delivery[e].attempts
    <3>1. delivery'[e] = [delivery[e] EXCEPT !.wait = IF @ > 0 THEN @ - 1 ELSE 0]
      BY <2>1
    <3>2. delivery[e] \in [status : {"NONE", "PENDING", "RETRYING", "DELIVERED", "FAILED"},
                          attempts : 0..MaxAttempts, wait : Nat]
      BY DEF WebhookIInv, WebhookTypeOK
    <3> QED
      BY <3>1, <3>2
  <2> QED
    BY <2>1, <2>2
<1>3. /\ \A w \in Workers : /\ worker'[w].stage = worker[w].stage /\ worker'[w].at = worker[w].at
                           /\ worker'[w].todo = worker[w].todo /\ worker'[w].seen = worker[w].seen
      /\ worker' \in [Workers -> [stage : {"IDLE", "LOOP", "CREATE", "SEND", "OK", "REFUSED"},
                                  todo : SUBSET Endpoints, at : Endpoints \cup {NoEndpoint},
                                  seen : [Endpoints -> 0..MaxAttempts], age : Nat]]
  <2>1. worker' = [w \in Workers |-> [worker[w] EXCEPT !.age =
            IF worker[w].stage # "IDLE" /\ @ < backoff(MaxAttempts) THEN @ + 1 ELSE @]]
    BY DEF second
  <2>2. ASSUME NEW w \in Workers
        PROVE  /\ worker'[w] \in [stage : {"IDLE", "LOOP", "CREATE", "SEND", "OK", "REFUSED"},
                                 todo : SUBSET Endpoints, at : Endpoints \cup {NoEndpoint},
                                 seen : [Endpoints -> 0..MaxAttempts], age : Nat]
               /\ worker'[w].stage = worker[w].stage /\ worker'[w].at = worker[w].at
               /\ worker'[w].todo = worker[w].todo /\ worker'[w].seen = worker[w].seen
    <3>1. worker'[w] = [worker[w] EXCEPT !.age =
            IF worker[w].stage # "IDLE" /\ @ < backoff(MaxAttempts) THEN @ + 1 ELSE @]
      BY <2>1
    <3>2. worker[w] \in [stage : {"IDLE", "LOOP", "CREATE", "SEND", "OK", "REFUSED"},
                        todo : SUBSET Endpoints, at : Endpoints \cup {NoEndpoint},
                        seen : [Endpoints -> 0..MaxAttempts], age : Nat]
      BY DEF WebhookIInv, WebhookTypeOK
    <3> QED
      BY <3>1, <3>2
  <2> QED
    BY <2>1, <2>2
<1>4. WebhookTypeOK'
  BY <1>1, <1>2, <1>3 DEF WebhookIInv, WebhookTypeOK
<1>5. Loads'
  BY <1>1, <1>2, <1>3, EndpointsAssumption, AttemptsAssumption
     DEF WebhookIInv, WebhookTypeOK, Loads, Load, Posting, Workers
<1>6. RowsAreSound'
  BY <1>1, <1>2, <1>3 DEF WebhookIInv, RowsAreSound, Workers
<1>7. ~crossed => OneSweep' /\ \A e \in Endpoints : Accounts(e)'
  <2> SUFFICES ASSUME ~crossed PROVE OneSweep' /\ \A e \in Endpoints : Accounts(e)'
    OBVIOUS
  <2>1. OneSweep'
    BY <1>2, <1>3 DEF WebhookIInv, OneSweep, Load, Workers
  <2>2. \A e \in Endpoints : /\ Sent(e)' <=> Sent(e)
                             /\ Accepted(e)' <=> Accepted(e)
    BY <1>2, <1>3 DEF Sent, Accepted
  <2>3. \A e \in Endpoints : Accounts(e)'
    BY <1>1, <1>2, <2>2 DEF WebhookIInv, Accounts
  <2> QED
    BY <2>1, <2>3
<1> QED
  BY <1>1, <1>4, <1>5, <1>6, <1>7 DEF WebhookIInv

LEMMA WebhookStep == WebhookIInv /\ [WebhookNext]_webhookVars => WebhookIInv'
<1> SUFFICES ASSUME WebhookIInv, [WebhookNext]_webhookVars PROVE WebhookIInv'
  OBVIOUS
<1>1. ASSUME NEW w \in Workers, Works(w) PROVE WebhookIInv'
  BY <1>1, CreateStep, PostStep, RecordStep, EndStep DEF Works
<1>2. CASE UNCHANGED webhookVars
  BY <1>2 DEF webhookVars, WebhookIInv, WebhookTypeOK, Loads, Load, RowsAreSound, OneSweep,
              Accounts, Sent, Accepted
<1>3. Dispatchers \subseteq Workers /\ Sweepers \subseteq Workers
  BY DEF Workers
<1> QED
  BY <1>1, <1>2, <1>3, DispatchStep, RetryStep, EndStep, SecondStep DEF WebhookNext, Sweeps

LEMMA WebhookIInvImplies == WebhookIInv => DeliveriesAddUp
<1> SUFFICES ASSUME WebhookIInv, NEW e \in Endpoints
             PROVE  /\ delivery[e].status = "DELIVERED" => received[e] > 0
                    /\ delivery[e].status = "PENDING" => Handling(e) # {} \/ stops[e] > 0
                    /\ ~crossed =>
                         /\ sends[e] <= delivery[e].attempts + Cardinality(Sending(e)) + stops[e]
                         /\ sends[e] <= MaxAttempts + stops[e]
                         /\ received[e] <= 1 + stops[e]
  BY DEF DeliveriesAddUp
<1>1. delivery[e].status = "DELIVERED" => received[e] > 0
  BY DEF WebhookIInv, RowsAreSound
<1>2. delivery[e].status = "PENDING" => Handling(e) # {} \/ stops[e] > 0
  BY DEF WebhookIInv, RowsAreSound, Handling, Workers
<1>3. ASSUME ~crossed
      PROVE  /\ sends[e] <= delivery[e].attempts + Cardinality(Sending(e)) + stops[e]
             /\ sends[e] <= MaxAttempts + stops[e]
             /\ received[e] <= 1 + stops[e]
  <2>1. /\ delivery[e].attempts \in 0..MaxAttempts /\ stops[e] \in Nat
        /\ sends[e] \in Nat /\ received[e] \in Nat
        /\ Accounts(e)
    BY <1>3, StopsAssumption DEF WebhookIInv, WebhookTypeOK
  <2>2. CASE Sent(e)
    <3>1. PICK w \in Workers : worker[w].at = e /\ worker[w].stage \in {"OK", "REFUSED"}
      BY <2>2 DEF Sent
    <3>2. Sending(e) = {w}
      BY <1>3, <3>1, OnePoster DEF Sending, Handling, Posting
    <3>3. Cardinality(Sending(e)) = 1
      BY <3>2, FS_Singleton
    <3>4. delivery[e].attempts < MaxAttempts
      <4>1. delivery[e].status \in {"PENDING", "RETRYING"}
        BY <1>3, <3>1 DEF WebhookIInv, Loads, Load, OneSweep, Workers, Posting
      <4> QED
        BY <4>1, AttemptsAssumption DEF WebhookIInv, RowsAreSound
    <3> QED
      BY <2>1, <2>2, <3>3, <3>4, AttemptsAssumption DEF Accounts
  <2>3. CASE ~Sent(e)
    <3>1. Sending(e) = {}
      BY <2>3 DEF Sent, Sending, Handling
    <3>2. Cardinality(Sending(e)) = 0
      BY <3>1, FS_EmptySet
    <3> QED
      BY <2>1, <2>3, <3>2, AttemptsAssumption DEF Accounts
  <2> QED
    BY <2>2, <2>3
<1> QED
  BY <1>1, <1>2, <1>3

\* dispatcher.ts:97 and :157, for any endpoints, workers, attempts and stops: a
\* delivered row was accepted, a row left PENDING was left by a worker that
\* stopped, and without crossing sweeps nothing is posted more often than its
\* attempts allow, nor accepted twice, but for one more per stopped worker.
THEOREM DeliveriesAreAccounted == WebhookSpec => []DeliveriesAddUp
  BY WebhookInitHolds, WebhookStep, WebhookIInvImplies, PTL DEF WebhookSpec

-----------------------------------------------------------------------------
(* Numbers and finite sets *)

\* Induction over the numbers, for a set: it has no number that is its least.
LEMMA SetInduction ==
    ASSUME NEW S, 0 \in S, \A n \in Nat : n \in S => n + 1 \in S
    PROVE  Nat \subseteq S
<1> SUFFICES ASSUME Nat \ S # {} PROVE FALSE
  OBVIOUS
<1> DEFINE R == OpToRel(<, Nat)
           T == Nat \ S
<1>1. IsWellFoundedOn(R, Nat)
  BY NatLessThanWellFounded
<1>2. \A a, b \in Nat : a < b => <<a, b>> \in R
  BY DEF OpToRel
<1> HIDE DEF R, T
<1>3. PICK x \in T : \A y \in T : ~(<<y, x>> \in R)
  <2>1. T \subseteq Nat /\ T # {}
    BY DEF T
  <2> QED
    BY <1>1, <2>1, WFMin
<1>4. x # 0 /\ x - 1 \in Nat /\ x \in Nat
  BY DEF T
<1>5. x - 1 \in S
  <2>1. <<x - 1, x>> \in R
    BY <1>2, <1>4 DEF T
  <2>2. x - 1 \notin T
    BY <1>3, <2>1
  <2> QED
    BY <1>4, <2>2 DEF T
<1> QED
  BY <1>4, <1>5 DEF T

\* Of finitely many things in an order one comes before the others.
LEMMA FirstOfFinite ==
    ASSUME NEW D, IsFiniteSet(D), D # {}, NEW R,
           \A x \in D : <<x, x>> \notin R,
           \A x, y, z \in D : <<x, y>> \in R /\ <<y, z>> \in R => <<x, z>> \in R
    PROVE  \E x \in D : \A y \in D : <<y, x>> \notin R
<1> DEFINE below(x) == {y \in D : <<y, x>> \in R}
           sizes == {Cardinality(below(x)) : x \in D}
<1>1. \A x \in D : IsFiniteSet(below(x)) /\ Cardinality(below(x)) \in Nat
  <2> TAKE x \in D
  <2>1. below(x) \subseteq D
    OBVIOUS
  <2> QED
    BY <2>1, FS_Subset, FS_CardinalityType
<1>2. sizes \subseteq Nat /\ sizes # {}
  <2> HIDE DEF below
  <2> QED
    BY <1>1
<1>3. PICK n \in sizes : \A k \in sizes : ~(<<k, n>> \in OpToRel(<, Nat))
  <2> HIDE DEF sizes
  <2> QED
    BY <1>2, WFMin, NatLessThanWellFounded
<1>4. PICK x \in D : n = Cardinality(below(x))
  OBVIOUS
<1>5. ASSUME NEW y \in D, <<y, x>> \in R PROVE FALSE
  <2>1. below(y) \subseteq below(x) /\ y \in below(x) /\ y \notin below(y)
    BY <1>5
  <2>2. Cardinality(below(y)) < Cardinality(below(x))
    <3> HIDE DEF below
    <3>1. below(y) # below(x)
      BY <2>1
    <3>2. Cardinality(below(y)) <= Cardinality(below(x)) /\ Cardinality(below(y)) # Cardinality(below(x))
      BY <1>1, <2>1, <3>1, FS_Subset
    <3> QED
      BY <1>1, <3>2
  <2> HIDE DEF below
  <2>3. \A a, b \in Nat : a < b => <<a, b>> \in OpToRel(<, Nat)
    BY DEF OpToRel
  <2>4. Cardinality(below(y)) \in sizes /\ Cardinality(below(y)) \in Nat /\ n \in Nat
    BY <1>1, <1>4
  <2>5. <<Cardinality(below(y)), n>> \in OpToRel(<, Nat)
    BY <1>4, <2>2, <2>3, <2>4, Zenon
  <2> QED
    BY <1>3, <2>4, <2>5
<1> QED
  BY <1>5

-----------------------------------------------------------------------------
(* The benchmarks *)

\* The samples of s's group.
AlikeIn(samples, s) ==
    {t \in samples : t.categoryId = s.categoryId /\ t.qtyBand = s.qtyBand /\ t.material = s.material}

\* A row tells the group it stands for.
LEMMA RowTellsGroup ==
  ASSUME NEW samples, NEW s \in samples
  PROVE  /\ BenchmarkRow(AlikeIn(samples, s)).categoryId = s.categoryId
         /\ BenchmarkRow(AlikeIn(samples, s)).qtyBand = s.qtyBand
         /\ BenchmarkRow(AlikeIn(samples, s)).material = s.material
         /\ BenchmarkRow(AlikeIn(samples, s)).sampleCount = Cardinality(AlikeIn(samples, s))
<1> DEFINE g == AlikeIn(samples, s)
           first == CHOOSE t \in g : TRUE
<1>1. s \in g
  BY DEF AlikeIn
<1>2. first \in g
  BY <1>1
<1>3. first.categoryId = s.categoryId /\ first.qtyBand = s.qtyBand /\ first.material = s.material
  BY <1>2 DEF AlikeIn
<1>4. /\ BenchmarkRow(g).categoryId = first.categoryId /\ BenchmarkRow(g).qtyBand = first.qtyBand
      /\ BenchmarkRow(g).material = first.material
      /\ BenchmarkRow(g).sampleCount = Cardinality(g)
  BY DEF BenchmarkRow
<1> QED  BY <1>3, <1>4

\* What aggregate publishes, sample by sample.
LEMMA AggregateIs ==
  ASSUME NEW samples, NEW least
  PROVE  \A r : r \in aggregate(samples, least) <=>
                  \E s \in samples : /\ Cardinality(AlikeIn(samples, s)) >= least
                                     /\ r = BenchmarkRow(AlikeIn(samples, s))
<1>1. groupSamples(samples) = {AlikeIn(samples, s) : s \in samples}
  BY DEF groupSamples, AlikeIn
<1> QED  BY <1>1 DEF aggregate

\* To filter samples before they are grouped is to filter the rows.
LEMMA FilteredBeforeIsAfter ==
  ASSUME NEW samples, NEW least, NEW filters
  PROVE  aggregate({s \in samples : Fits(s, filters)}, least) =
           {r \in aggregate(samples, least) : Fits(r, filters)}
<1> DEFINE some == {s \in samples : Fits(s, filters)}
<1>1. ASSUME NEW s \in some
      PROVE  AlikeIn(some, s) = AlikeIn(samples, s)
  <2>1. s \in samples /\ Fits(s, filters)
    OBVIOUS
  <2>2. \A t \in AlikeIn(samples, s) : Fits(t, filters)
    BY <2>1 DEF AlikeIn, Fits
  <2> QED  BY <2>2 DEF AlikeIn
<1>2. ASSUME NEW s \in samples
      PROVE  Fits(BenchmarkRow(AlikeIn(samples, s)), filters) <=> Fits(s, filters)
  BY RowTellsGroup DEF Fits
<1>3. \A r : r \in aggregate(some, least) <=>
               \E s \in some : /\ Cardinality(AlikeIn(samples, s)) >= least
                               /\ r = BenchmarkRow(AlikeIn(samples, s))
  BY AggregateIs, <1>1
<1>4. \A r : r \in aggregate(samples, least) <=>
               \E s \in samples : /\ Cardinality(AlikeIn(samples, s)) >= least
                                  /\ r = BenchmarkRow(AlikeIn(samples, s))
  BY AggregateIs
<1>5. \A s : s \in some <=> s \in samples /\ Fits(s, filters)
  OBVIOUS
<1> HIDE DEF some
<1>6. \A r : r \in aggregate(some, least) <=> r \in aggregate(samples, least) /\ Fits(r, filters)
  <2> TAKE r
  <2>1. ASSUME r \in aggregate(some, least)
        PROVE  r \in aggregate(samples, least) /\ Fits(r, filters)
    BY <2>1, <1>2, <1>3, <1>4, <1>5
  <2>2. ASSUME r \in aggregate(samples, least), Fits(r, filters)
        PROVE  r \in aggregate(some, least)
    BY <2>2, <1>2, <1>3, <1>4, <1>5
  <2> QED  BY <2>1, <2>2
<1> QED  BY <1>6 DEF some

KeyOf(row) == <<row.categoryId, row.qtyBand, row.material>>

\* No group is there twice, nor under the threshold.
LEMMA AggregateIsSound ==
  ASSUME NEW samples, NEW least
  PROVE  /\ \A r \in aggregate(samples, least) : r.sampleCount >= least
         /\ \A r, q \in aggregate(samples, least) : KeyOf(r) = KeyOf(q) => r = q
<1>1. ASSUME NEW r \in aggregate(samples, least)
      PROVE  r.sampleCount >= least
  BY AggregateIs, RowTellsGroup
<1>2. ASSUME NEW r \in aggregate(samples, least), NEW q \in aggregate(samples, least),
             KeyOf(r) = KeyOf(q)
      PROVE  r = q
  <2>1. PICK s \in samples : r = BenchmarkRow(AlikeIn(samples, s))
    BY AggregateIs
  <2>2. PICK t \in samples : q = BenchmarkRow(AlikeIn(samples, t))
    BY AggregateIs
  <2>3. s.categoryId = t.categoryId /\ s.qtyBand = t.qtyBand /\ s.material = t.material
    BY <1>2, <2>1, <2>2, RowTellsGroup DEF KeyOf
  <2>4. AlikeIn(samples, s) = AlikeIn(samples, t)
    BY <2>3 DEF AlikeIn
  <2> QED  BY <2>1, <2>2, <2>4
<1> QED  BY <1>1, <1>2

-----------------------------------------------------------------------------
(* Their quartiles *)

\* A group that has a sample has a least one.
LEMMA LeastIs ==
    ASSUME NEW group, IsFiniteSet(group), group # {}, \A s \in group : s.value \in Nat
    PROVE  Least(group) \in group /\ \A t \in group : Least(group).value <= t.value
<1> DEFINE R == {p \in group \X group : p[1].value < p[2].value}
<1>1. \A s, t \in group : <<s, t>> \in R <=> s.value < t.value
  OBVIOUS
<1> HIDE DEF R
<1>2. /\ \A x \in group : <<x, x>> \notin R
      /\ \A x, y, z \in group : <<x, y>> \in R /\ <<y, z>> \in R => <<x, z>> \in R
  BY <1>1
<1>3. PICK s \in group : \A t \in group : <<t, s>> \notin R
  BY <1>2, FirstOfFinite
<1>4. \A t \in group : s.value <= t.value
  <2> SUFFICES ASSUME NEW t \in group PROVE s.value <= t.value
    OBVIOUS
  <2>1. ~(t.value < s.value)
    BY <1>1, <1>3
  <2>2. s.value \in Nat /\ t.value \in Nat
    OBVIOUS
  <2> HIDE DEF R
  <2> QED
    BY <2>1, <2>2
<1> QED
  BY <1>4 DEF Least

\* The k-th smallest sample has k - 1 others that are no larger, and at most
\* as many that are smaller.
LEMMA QuantileIsRanked ==
    ASSUME NEW group, IsFiniteSet(group), \A s \in group : s.value \in Nat,
           NEW q \in Nat, (q * Cardinality(group) + 3) \div 4 \in 1..Cardinality(group)
    PROVE  LET v == nearestRankQuantile(group, q)
               k == (q * Cardinality(group) + 3) \div 4
           IN  /\ Cardinality({s \in group : s.value < v}) < k
               /\ Cardinality({s \in group : s.value <= v}) >= k
               /\ Cardinality({s \in group : s.value < v}) \in Nat
               /\ Cardinality({s \in group : s.value <= v}) \in Nat
<1> DEFINE n == Cardinality(group)
           k == (q * n + 3) \div 4
           Take(samples) == samples \ {Least(samples)}
           Runs(g, m) == g = [i \in 0..m |-> IF i = 0 THEN group ELSE Take(g[i - 1])]
           S == {m \in Nat : \E g : Runs(g, m)}
           left[i \in 0..n] == IF i = 0 THEN group ELSE left[i - 1] \ {Least(left[i - 1])}
<1>1. n \in Nat /\ k \in 1..n
  BY FS_CardinalityType
<1>2. nearestRankQuantile(group, q) = Least(left[k - 1]).value
  BY DEF nearestRankQuantile
<1>3. left = CHOOSE g : Runs(g, n)
  BY DEF Take
<1> HIDE DEF Take, left, n, k
<1>4. 0 \in S
  <2>1. Runs([i \in 0..0 |-> group], 0)
    OBVIOUS
  <2> QED
    BY <2>1
<1>5. ASSUME NEW m \in Nat, m \in S PROVE m + 1 \in S
  <2>1. PICK g : Runs(g, m)
    BY <1>5
  <2> DEFINE h == [i \in 0..(m + 1) |-> IF i = m + 1 THEN Take(g[m]) ELSE g[i]]
  <2>2. Runs(h, m + 1)
    BY <2>1
  <2> HIDE DEF h, Runs
  <2> QED
    BY <2>2
<1>6. Runs(left, n)
  <2>1. n \in S
    <3> HIDE DEF S
    <3> QED
      BY <1>1, <1>4, <1>5, SetInduction
  <2>2. \E g : Runs(g, n)
    BY <2>1
  <2> HIDE DEF Runs
  <2> QED
    BY <1>3, <2>2
<1>7. left[0] = group /\ \A i \in 1..n : left[i] = Take(left[i - 1])
  BY <1>1, <1>6
<1> DEFINE T == {i \in Nat : i <= n =>
                   /\ left[i] \subseteq group /\ Cardinality(left[i]) = n - i
                   /\ \A s \in group \ left[i], t \in left[i] : s.value <= t.value}
<1>8. 0 \in T
  BY <1>1, <1>7 DEF n
<1>9. ASSUME NEW i \in Nat, i \in T PROVE i + 1 \in T
  <2> SUFFICES ASSUME i + 1 <= n
               PROVE  /\ left[i + 1] \subseteq group /\ Cardinality(left[i + 1]) = n - (i + 1)
                      /\ \A s \in group \ left[i + 1], t \in left[i + 1] : s.value <= t.value
    OBVIOUS
  <2>1. /\ left[i] \subseteq group /\ Cardinality(left[i]) = n - i
        /\ \A s \in group \ left[i], t \in left[i] : s.value <= t.value
    BY <1>1, <1>9
  <2>2. left[i + 1] = left[i] \ {Least(left[i])}
    <3>1. i + 1 \in 1..n /\ (i + 1) - 1 = i
      BY <1>1
    <3> QED
      BY <1>7, <3>1 DEF Take
  <2>3. IsFiniteSet(left[i]) /\ left[i] # {}
    BY <1>1, <2>1, FS_Subset, FS_EmptySet
  <2>4. Least(left[i]) \in left[i] /\ \A t \in left[i] : Least(left[i]).value <= t.value
    BY <2>1, <2>3, LeastIs
  <2>5. Cardinality(left[i + 1]) = n - (i + 1)
    <3>1. Cardinality(left[i + 1]) = (n - i) - 1
      BY <2>1, <2>2, <2>3, <2>4, FS_RemoveElement
    <3> QED
      BY <1>1, <3>1
  <2>6. \A s \in group \ left[i + 1], t \in left[i + 1] : s.value <= t.value
    BY <2>1, <2>2, <2>4
  <2> QED
    BY <2>1, <2>2, <2>5, <2>6
<1>10. k - 1 \in T
  <2>1. Nat \subseteq T
    <3> HIDE DEF T
    <3> QED
      BY <1>8, <1>9, SetInduction
  <2> HIDE DEF T
  <2> QED
    BY <1>1, <2>1
<1> DEFINE rest == left[k - 1]
           least == Least(rest)
           below == {s \in group : s.value < least.value}
           upTo == {s \in group : s.value <= least.value}
<1>11. /\ rest \subseteq group /\ Cardinality(rest) = n - (k - 1)
       /\ \A s \in group \ rest, t \in rest : s.value <= t.value
  BY <1>1, <1>10
<1> HIDE DEF rest, T
<1>12. IsFiniteSet(rest) /\ rest # {}
  <2>1. Cardinality(rest) > 0
    BY <1>1, <1>11
  <2> QED
    BY <1>11, <2>1, FS_Subset, FS_EmptySet
<1>13. least \in rest /\ \A t \in rest : least.value <= t.value
  BY <1>11, <1>12, LeastIs
<1> HIDE DEF least
<1>14. IsFiniteSet(group \ rest) /\ Cardinality(group \ rest) = k - 1 /\ least \notin group \ rest
  <2>1. group \cap rest = rest
    BY <1>11
  <2>2. IsFiniteSet(group \ rest) /\ Cardinality(group \ rest) = n - Cardinality(rest)
    BY <2>1, FS_Difference DEF n
  <2> QED
    BY <1>1, <1>11, <1>13, <2>2
<1>15. below \subseteq group \ rest /\ (group \ rest) \cup {least} \subseteq upTo
  BY <1>11, <1>13
<1>16. Cardinality((group \ rest) \cup {least}) = k
  <2>1. Cardinality((group \ rest) \cup {least}) = (k - 1) + 1
    BY <1>14, FS_AddElement
  <2> QED
    BY <1>1, <2>1
<1>17. IsFiniteSet(below) /\ IsFiniteSet(upTo)
  <2>1. below \subseteq group /\ upTo \subseteq group
    OBVIOUS
  <2> HIDE DEF below, upTo
  <2> QED
    BY <2>1, FS_Subset
<1>18. Cardinality(below) <= k - 1 /\ k <= Cardinality(upTo)
  <2> HIDE DEF below, upTo
  <2> QED
    BY <1>14, <1>15, <1>16, <1>17, FS_Subset
<1>19. Cardinality(below) \in Nat /\ Cardinality(upTo) \in Nat
  BY <1>17, FS_CardinalityType
<1>20. Cardinality(below) < k /\ Cardinality(upTo) >= k
  <2> HIDE DEF below, upTo
  <2> QED
    BY <1>1, <1>18, <1>19
<1> QED
  BY <1>2, <1>19, <1>20 DEF least, rest, k, n

\* A finite set of things has finitely many images.
LEMMA PricesAreFinite ==
    ASSUME shelf \subseteq Offers
    PROVE  IsFiniteSet(loadPriceSamples) /\ \A s \in loadPriceSamples : s.value \in Nat
<1> DEFINE on == {o \in shelf : materialOf(o.material) # Unset}
           of(o, t) == Sample(o.categoryId, t.minQty, o.material, t.unitPriceCents, <<o.id, t.minQty>>)
           from(o) == {of(o, t) : t \in o.tiers}
           all == {from(o) : o \in on}
<1>1. loadPriceSamples = UNION all
  BY DEF loadPriceSamples
<1>2. IsFiniteSet(on) /\ on \subseteq Offers
  BY OffersAssumption, FS_Subset
<1>3. \A o \in on : IsFiniteSet(from(o)) /\ \A s \in from(o) : s.value \in Nat
  <2> TAKE o \in on
  <2>1. IsFiniteSet(o.tiers) /\ \A t \in o.tiers : t.unitPriceCents \in Nat
    BY <1>2, OffersAssumption
  <2> DEFINE f == [t \in o.tiers |-> of(o, t)]
  <2> HIDE DEF of
  <2>2. f \in Surjection(o.tiers, from(o))
    BY DEF Surjection
  <2>3. IsFiniteSet(from(o))
    BY <2>1, <2>2, FS_Surjection
  <2>4. \A t \in o.tiers : of(o, t).value = t.unitPriceCents
    BY DEF of, Sample
  <2> QED
    BY <2>1, <2>3, <2>4
<1> HIDE DEF on, from
<1>4. IsFiniteSet(all)
  <2> DEFINE f == [o \in on |-> from(o)]
  <2>1. f \in Surjection(on, all)
    BY DEF Surjection
  <2> QED
    BY <1>2, <2>1, FS_Surjection
<1>5. IsFiniteSet(UNION all)
  BY <1>3, <1>4, FS_UNION
<1> QED
  BY <1>1, <1>3, <1>5

LEMMA QuartilesRank ==
    ASSUME NEW samples, IsFiniteSet(samples), \A s \in samples : s.value \in Nat
    PROVE  QuartilesAreSamples(samples)
<1> SUFFICES ASSUME NEW g \in groupSamples(samples), NEW q \in 1..3
             PROVE  LET v == BenchmarkRow(g).quartiles[q]
                        below == Cardinality({s \in g : s.value < v})
                        upTo == Cardinality({s \in g : s.value <= v})
                    IN  4 * below < q * Cardinality(g) /\ 4 * upTo >= q * Cardinality(g)
  BY DEF QuartilesAreSamples
<1> DEFINE n == Cardinality(g)
           k == (q * n + 3) \div 4
           v == nearestRankQuantile(g, q)
           below == Cardinality({s \in g : s.value < v})
           upTo == Cardinality({s \in g : s.value <= v})
<1>1. g \subseteq samples /\ g # {}
  BY DEF groupSamples
<1>2. IsFiniteSet(g) /\ n \in Nat /\ n > 0
  BY <1>1, FS_Subset, FS_CardinalityType, FS_EmptySet
<1>3. BenchmarkRow(g).quartiles[q] = v
  BY DEF BenchmarkRow
<1> HIDE DEF n, v, below, upTo
<1>4. q = 1 \/ q = 2 \/ q = 3
  OBVIOUS
<1>5. k \in 1..n /\ 4 * k >= q * n /\ 4 * k <= q * n + 3
  BY <1>2, <1>4
<1> HIDE DEF k
<1>6. below < k /\ upTo >= k /\ below \in Nat /\ upTo \in Nat
  <2>1. \A s \in g : s.value \in Nat
    BY <1>1
  <2>2. q \in Nat /\ (q * Cardinality(g) + 3) \div 4 \in 1..Cardinality(g)
    BY <1>5 DEF n, k
  <2>3. /\ Cardinality({s \in g : s.value < nearestRankQuantile(g, q)})
             < (q * Cardinality(g) + 3) \div 4
        /\ Cardinality({s \in g : s.value <= nearestRankQuantile(g, q)})
             >= (q * Cardinality(g) + 3) \div 4
        /\ Cardinality({s \in g : s.value < nearestRankQuantile(g, q)}) \in Nat
        /\ Cardinality({s \in g : s.value <= nearestRankQuantile(g, q)}) \in Nat
    BY <1>2, <2>1, <2>2, QuantileIsRanked
  <2> QED
    BY <2>3 DEF n, k, v, below, upTo
<1>7. 4 * below < q * n /\ 4 * upTo >= q * n
  BY <1>2, <1>4, <1>5, <1>6
<1> QED
  BY <1>3, <1>7 DEF n, v, below, upTo

-----------------------------------------------------------------------------
(* The refreshes *)

Stages == {"WAITING", "LOADED", "WIPED", "DONE", "FAILED"}

BenchmarksTypeOK ==
    /\ changes \in Nat /\ overlapped \in BOOLEAN
    /\ refreshes = [j \in Refreshes |-> refreshes[j]]
    /\ \A j \in Refreshes :
         /\ refreshes[j] = [stage |-> refreshes[j].stage, rows |-> refreshes[j].rows,
                            seen |-> refreshes[j].seen, at |-> refreshes[j].at]
         /\ refreshes[j].stage \in Stages
         /\ refreshes[j].at \in Nat /\ refreshes[j].at <= changes

\* Rows may stand in one table.
OnePerGroup(rows) == \A x, y \in rows : GroupOf(x) = GroupOf(y) => x = y

Published(rows) == \A x \in rows : x.by \in Refreshes /\ x.row.sampleCount >= K_ANONYMITY_MIN

\* What a run is going to write is its own, and true while no offer moves.
RowsHold ==
    \A j \in Refreshes :
        /\ \A x \in refreshes[j].rows : x.by = j
        /\ Published(refreshes[j].rows) /\ OnePerGroup(refreshes[j].rows)
        /\ UnderWay(j) /\ refreshes[j].at = changes =>
             {x.row : x \in refreshes[j].rows} = aggregate(loadPriceSamples, K_ANONYMITY_MIN)

\* As long as no runs overlap, the one under way read last, and sees every row.
Alone ==
    /\ \A i, j \in Refreshes : UnderWay(i) /\ UnderWay(j) => i = j
    /\ \A j \in Refreshes : UnderWay(j) =>
         \A i \in Refreshes : refreshes[i].stage = "DONE" => refreshes[i].at <= refreshes[j].at
    /\ \A j \in Refreshes : refreshes[j].stage = "WIPED" => refreshes[j].seen = priceBenchmark
    /\ TableIsOneReading

BenchmarksIInv ==
    /\ BenchmarksTypeOK
    /\ RowsHold
    /\ Published(priceBenchmark) /\ OnePerGroup(priceBenchmark)
    /\ ~overlapped => Alone

\* A run's record, in another stage.
Wiped(run, wiped) == [run EXCEPT !.stage = "WIPED", !.seen = wiped]
Ended(run, next) == [run EXCEPT !.stage = next, !.rows = {}, !.seen = {}]

LEMMA WipedIs ==
  ASSUME NEW run, NEW wiped,
         run = [stage |-> run.stage, rows |-> run.rows, seen |-> run.seen, at |-> run.at]
  PROVE  Wiped(run, wiped) = [stage |-> "WIPED", rows |-> run.rows, seen |-> wiped, at |-> run.at]
<1> DEFINE one == [run EXCEPT !.stage = "WIPED"]
<1>1. one = [stage |-> "WIPED", rows |-> run.rows, seen |-> run.seen, at |-> run.at]
  OBVIOUS
<1>2. Wiped(run, wiped) = [one EXCEPT !.seen = wiped]
  BY DEF Wiped
<1> HIDE DEF one
<1> QED  BY <1>1, <1>2

LEMMA EndedIs ==
  ASSUME NEW run, NEW next,
         run = [stage |-> run.stage, rows |-> run.rows, seen |-> run.seen, at |-> run.at]
  PROVE  Ended(run, next) = [stage |-> next, rows |-> {}, seen |-> {}, at |-> run.at]
<1> DEFINE one == [run EXCEPT !.stage = next]
           two == [one EXCEPT !.rows = {}]
<1>1. one = [stage |-> next, rows |-> run.rows, seen |-> run.seen, at |-> run.at]
  OBVIOUS
<1>2. Ended(run, next) = [two EXCEPT !.seen = {}]
  BY DEF Ended
<1> HIDE DEF one
<1>3. two = [stage |-> next, rows |-> {}, seen |-> run.seen, at |-> run.at]
  BY <1>1
<1> HIDE DEF two
<1> QED  BY <1>2, <1>3

LEMMA BenchmarksInitHolds == BenchmarksInit => BenchmarksIInv
<1> SUFFICES ASSUME BenchmarksInit PROVE BenchmarksIInv
  OBVIOUS
<1>1. /\ priceBenchmark = {} /\ changes = 0 /\ overlapped = FALSE
      /\ refreshes = [j \in Refreshes |-> NotStarted]
      /\ \A j \in Refreshes : refreshes[j] = [stage |-> "WAITING", rows |-> {}, seen |-> {}, at |-> 0]
  BY DEF BenchmarksInit, NotStarted
<1>2. BenchmarksTypeOK
  <2>1. \A j \in Refreshes :
          /\ refreshes[j] = [stage |-> refreshes[j].stage, rows |-> refreshes[j].rows,
                             seen |-> refreshes[j].seen, at |-> refreshes[j].at]
          /\ refreshes[j].stage = "WAITING" /\ refreshes[j].at = 0
    BY <1>1
  <2>2. refreshes = [j \in Refreshes |-> refreshes[j]]
    BY <1>1
  <2>3. changes \in Nat /\ overlapped \in BOOLEAN /\ changes = 0
    BY <1>1
  <2>4. \A j \in Refreshes : refreshes[j].stage \in Stages /\ refreshes[j].at \in Nat
                                /\ refreshes[j].at <= changes
    <3>1. \A j \in Refreshes : refreshes[j].stage = "WAITING" /\ refreshes[j].at = 0
      BY <2>1
    <3> QED  BY <3>1, <2>3 DEF Stages
  <2> QED  BY <2>1, <2>2, <2>3, <2>4 DEF BenchmarksTypeOK
<1>3. RowsHold
  BY <1>1 DEF RowsHold, Published, OnePerGroup, UnderWay
<1>4. Alone
  BY <1>1 DEF Alone, UnderWay, TableIsOneReading, Newest
<1> QED  BY <1>1, <1>2, <1>3, <1>4 DEF BenchmarksIInv, Published, OnePerGroup

LEMMA LoadStep ==
  ASSUME BenchmarksIInv, NEW j \in Refreshes, loadForRefresh(j)
  PROVE  BenchmarksIInv'
<1> DEFINE found == aggregate(loadPriceSamples, K_ANONYMITY_MIN)
           rows == {[by |-> j, row |-> r] : r \in found}
           run == [stage |-> "LOADED", seen |-> {}, at |-> changes, rows |-> rows]
<1>1. /\ refreshes[j].stage = "WAITING" /\ refreshes' = [refreshes EXCEPT ![j] = run]
      /\ UNCHANGED <<shelf, placed, priceBenchmark, changes>>
  BY DEF loadForRefresh
<1>2. overlapped' = (overlapped \/ \E i \in Refreshes \ {j} : UnderWay(i))
  BY DEF loadForRefresh
<1>3. run = [stage |-> run.stage, rows |-> run.rows, seen |-> run.seen, at |-> run.at]
        /\ run.stage = "LOADED" /\ run.rows = rows /\ run.at = changes
  OBVIOUS
<1>4. \A x \in rows : x.by = j /\ x.row \in found
  OBVIOUS
<1>5. Published(rows)
  BY <1>4, AggregateIsSound DEF Published
<1>6. OnePerGroup(rows)
  <2>1. \A x, y \in rows : GroupOf(x) = GroupOf(y) => x.row = y.row
    BY <1>4, AggregateIsSound DEF GroupOf, KeyOf
  <2> QED  BY <2>1 DEF OnePerGroup
<1>7. {x.row : x \in rows} = found
  <2>1. \A r \in found : [by |-> j, row |-> r] \in rows /\ [by |-> j, row |-> r].row = r
    OBVIOUS
  <2> QED  BY <1>4, <2>1
<1>8. found = aggregate(loadPriceSamples, K_ANONYMITY_MIN)'
  BY <1>1 DEF loadPriceSamples, aggregate
<1> HIDE DEF found, rows, run
<1>9. /\ refreshes'[j] = run /\ \A i \in Refreshes \ {j} : refreshes'[i] = refreshes[i]
      /\ refreshes' = [i \in Refreshes |-> refreshes'[i]]
  BY <1>1 DEF BenchmarksIInv, BenchmarksTypeOK
<1>10. BenchmarksTypeOK'
  BY <1>1, <1>2, <1>3, <1>9 DEF BenchmarksIInv, BenchmarksTypeOK, Stages
<1>11. RowsHold'
  <2>1. aggregate(loadPriceSamples, K_ANONYMITY_MIN)' = aggregate(loadPriceSamples, K_ANONYMITY_MIN)
    BY <1>8 DEF found
  <2> HIDE DEF aggregate, loadPriceSamples
  <2>2. ASSUME NEW i \in Refreshes, i # j
        PROVE  /\ \A x \in refreshes'[i].rows : x.by = i
               /\ Published(refreshes'[i].rows) /\ OnePerGroup(refreshes'[i].rows)
               /\ UnderWay(i)' /\ refreshes'[i].at = changes' =>
                    {x.row : x \in refreshes'[i].rows} = aggregate(loadPriceSamples, K_ANONYMITY_MIN)'
    BY <1>1, <1>9, <2>1, <2>2 DEF BenchmarksIInv, RowsHold, UnderWay
  <2>3. /\ \A x \in refreshes'[j].rows : x.by = j
        /\ Published(refreshes'[j].rows) /\ OnePerGroup(refreshes'[j].rows)
        /\ {x.row : x \in refreshes'[j].rows} = aggregate(loadPriceSamples, K_ANONYMITY_MIN)'
    BY <1>3, <1>4, <1>5, <1>6, <1>7, <1>8, <1>9
  <2> QED  BY <2>2, <2>3 DEF RowsHold, Published, OnePerGroup, GroupOf
<1>12. ASSUME ~overlapped'
       PROVE  Alone'
  <2>1. Alone /\ \A i \in Refreshes \ {j} : ~UnderWay(i)
    BY <1>2, <1>12 DEF BenchmarksIInv
  <2>2. \A i \in Refreshes : UnderWay(i)' => i = j
    BY <1>9, <2>1 DEF UnderWay
  <2>3. \A i \in Refreshes : refreshes'[i].stage = "DONE" => refreshes'[i].at <= changes
    BY <1>1, <1>10 DEF BenchmarksTypeOK
  <2>4. \A i \in Refreshes : refreshes'[i].stage = "WIPED" => refreshes'[i].seen = priceBenchmark'
    BY <1>1, <1>3, <1>9, <2>1 DEF Alone
  <2>5. \A i \in Refreshes : Newest(i)' <=> Newest(i)
    BY <1>1, <1>3, <1>9 DEF Newest
  <2>6. \A i \in Refreshes : Newest(i) => refreshes'[i].at = refreshes[i].at
    BY <1>1, <1>9 DEF Newest
  <2>7. TableIsOneReading'
    <3>1. TableIsOneReading /\ \A x \in priceBenchmark : x.by \in Refreshes
      BY <2>1 DEF Alone, BenchmarksIInv, Published
    <3>2. aggregate(loadPriceSamples, K_ANONYMITY_MIN)' = aggregate(loadPriceSamples, K_ANONYMITY_MIN)
      BY <1>8 DEF found
    <3> HIDE DEF aggregate, loadPriceSamples, Newest
    <3>3. \A x \in priceBenchmark : Newest(x.by)' /\ refreshes'[x.by].at = refreshes[x.by].at
      BY <2>5, <2>6, <3>1 DEF TableIsOneReading
    <3>4. \A i \in Refreshes : Newest(i)' /\ refreshes'[i].at = changes' =>
            {x.row : x \in priceBenchmark'} = aggregate(loadPriceSamples, K_ANONYMITY_MIN)'
      BY <1>1, <2>5, <2>6, <3>1, <3>2 DEF TableIsOneReading
    <3> QED  BY <1>1, <3>1, <3>3, <3>4 DEF TableIsOneReading
  <2> QED  BY <1>3, <1>9, <2>2, <2>3, <2>4, <2>7 DEF Alone
<1>13. Published(priceBenchmark)' /\ OnePerGroup(priceBenchmark)'
  BY <1>1 DEF BenchmarksIInv, Published, OnePerGroup, GroupOf
<1> QED  BY <1>10, <1>11, <1>12, <1>13 DEF BenchmarksIInv

LEMMA WipeStep ==
  ASSUME BenchmarksIInv, NEW j \in Refreshes, wipeForRefresh(j)
  PROVE  BenchmarksIInv'
<1> DEFINE run == Wiped(refreshes[j], priceBenchmark)
<1>1. /\ refreshes[j].stage = "LOADED" /\ refreshes' = [refreshes EXCEPT ![j] = run]
      /\ UNCHANGED <<shelf, placed, priceBenchmark, changes, overlapped>>
  BY DEF wipeForRefresh, Wiped
<1>2. refreshes[j] = [stage |-> refreshes[j].stage, rows |-> refreshes[j].rows,
                      seen |-> refreshes[j].seen, at |-> refreshes[j].at]
  BY DEF BenchmarksIInv, BenchmarksTypeOK
<1>3. /\ run = [stage |-> run.stage, rows |-> run.rows, seen |-> run.seen, at |-> run.at]
      /\ run.stage = "WIPED" /\ run.seen = priceBenchmark
      /\ run.rows = refreshes[j].rows /\ run.at = refreshes[j].at
  <2>1. run = [stage |-> "WIPED", rows |-> refreshes[j].rows, seen |-> priceBenchmark,
               at |-> refreshes[j].at]
    BY <1>2, WipedIs
  <2> HIDE DEF run
  <2> QED  BY <2>1
<1> HIDE DEF run
<1>4. /\ refreshes'[j] = run /\ \A i \in Refreshes \ {j} : refreshes'[i] = refreshes[i]
      /\ refreshes' = [i \in Refreshes |-> refreshes'[i]]
  BY <1>1 DEF BenchmarksIInv, BenchmarksTypeOK
<1>5. BenchmarksTypeOK'
  BY <1>1, <1>3, <1>4 DEF BenchmarksIInv, BenchmarksTypeOK, Stages
<1>6. \A i \in Refreshes :
        /\ UnderWay(i)' <=> UnderWay(i)
        /\ refreshes'[i].rows = refreshes[i].rows /\ refreshes'[i].at = refreshes[i].at
        /\ refreshes'[i].stage = "DONE" <=> refreshes[i].stage = "DONE"
  BY <1>1, <1>3, <1>4 DEF UnderWay
<1>7. aggregate(loadPriceSamples, K_ANONYMITY_MIN)' = aggregate(loadPriceSamples, K_ANONYMITY_MIN)
  BY <1>1 DEF loadPriceSamples, aggregate
<1> HIDE DEF aggregate, loadPriceSamples
<1>8. RowsHold'
  BY <1>1, <1>6, <1>7 DEF BenchmarksIInv, RowsHold, Published, OnePerGroup, GroupOf
<1>9. ASSUME ~overlapped'
      PROVE  Alone'
  <2>1. Alone
    BY <1>1, <1>9 DEF BenchmarksIInv
  <2>2. \A i \in Refreshes : refreshes'[i].stage = "WIPED" => refreshes'[i].seen = priceBenchmark'
    BY <1>1, <1>3, <1>4, <2>1 DEF Alone
  <2>3. \A i \in Refreshes : Newest(i)' <=> Newest(i)
    BY <1>6 DEF Newest
  <2>4. TableIsOneReading'
    <3>1. TableIsOneReading /\ \A x \in priceBenchmark : x.by \in Refreshes
      BY <2>1 DEF Alone, BenchmarksIInv, Published
    <3> HIDE DEF Newest
    <3> QED  BY <1>1, <1>6, <1>7, <2>3, <3>1 DEF TableIsOneReading
  <2> HIDE DEF UnderWay
  <2> QED  BY <1>6, <2>1, <2>2, <2>4 DEF Alone
<1>10. Published(priceBenchmark)' /\ OnePerGroup(priceBenchmark)'
  BY <1>1 DEF BenchmarksIInv, Published, OnePerGroup, GroupOf
<1> QED  BY <1>5, <1>8, <1>9, <1>10 DEF BenchmarksIInv

\* A run that finishes: what stays of the others, and of its own reading.
LEMMA FinishLeaves ==
  ASSUME BenchmarksIInv, NEW j \in Refreshes, NEW stage \in {"DONE", "FAILED"}, Finishes(j, stage)
  PROVE  /\ BenchmarksTypeOK' /\ RowsHold'
         /\ refreshes'[j].stage = stage /\ refreshes'[j].at = refreshes[j].at
         /\ \A i \in Refreshes \ {j} : refreshes'[i] = refreshes[i]
         /\ aggregate(loadPriceSamples, K_ANONYMITY_MIN)' = aggregate(loadPriceSamples, K_ANONYMITY_MIN)
<1> DEFINE run == Ended(refreshes[j], stage)
<1>1. /\ refreshes' = [refreshes EXCEPT ![j] = run]
      /\ UNCHANGED <<shelf, placed, changes, overlapped>>
  BY DEF Finishes, Ended
<1>2. refreshes[j] = [stage |-> refreshes[j].stage, rows |-> refreshes[j].rows,
                      seen |-> refreshes[j].seen, at |-> refreshes[j].at]
  BY DEF BenchmarksIInv, BenchmarksTypeOK
<1>3. /\ run = [stage |-> run.stage, rows |-> run.rows, seen |-> run.seen, at |-> run.at]
      /\ run.stage = stage /\ run.rows = {} /\ run.at = refreshes[j].at
  <2>1. run = [stage |-> stage, rows |-> {}, seen |-> {}, at |-> refreshes[j].at]
    BY <1>2, EndedIs
  <2> HIDE DEF run
  <2> QED  BY <2>1
<1> HIDE DEF run
<1>4. /\ refreshes'[j] = run /\ \A i \in Refreshes \ {j} : refreshes'[i] = refreshes[i]
      /\ refreshes' = [i \in Refreshes |-> refreshes'[i]]
  BY <1>1 DEF BenchmarksIInv, BenchmarksTypeOK
<1>5. BenchmarksTypeOK'
  BY <1>1, <1>3, <1>4 DEF BenchmarksIInv, BenchmarksTypeOK, Stages
<1>6. aggregate(loadPriceSamples, K_ANONYMITY_MIN)' = aggregate(loadPriceSamples, K_ANONYMITY_MIN)
  BY <1>1 DEF loadPriceSamples, aggregate
<1> HIDE DEF aggregate, loadPriceSamples
<1>7. RowsHold'
  <2>1. ~UnderWay(j)' /\ refreshes'[j].rows = {}
    BY <1>3, <1>4 DEF UnderWay
  <2>2. \A i \in Refreshes \ {j} :
          /\ \A x \in refreshes'[i].rows : x.by = i
          /\ Published(refreshes'[i].rows) /\ OnePerGroup(refreshes'[i].rows)
          /\ UnderWay(i)' /\ refreshes'[i].at = changes' =>
               {x.row : x \in refreshes'[i].rows} = aggregate(loadPriceSamples, K_ANONYMITY_MIN)'
    BY <1>1, <1>4, <1>6 DEF BenchmarksIInv, RowsHold, UnderWay
  <2> HIDE DEF UnderWay
  <2> QED  BY <2>1, <2>2 DEF RowsHold, Published, OnePerGroup, GroupOf
<1> QED  BY <1>3, <1>4, <1>5, <1>6, <1>7

LEMMA FailStep ==
  ASSUME BenchmarksIInv, NEW j \in Refreshes, failRefresh(j)
  PROVE  BenchmarksIInv'
<1>1. /\ UnderWay(j) /\ Finishes(j, "FAILED")
      /\ priceBenchmark' = priceBenchmark /\ changes' = changes /\ overlapped' = overlapped
  BY DEF failRefresh, Finishes
<1>2. /\ BenchmarksTypeOK' /\ RowsHold' /\ refreshes'[j].stage = "FAILED"
      /\ \A i \in Refreshes \ {j} : refreshes'[i] = refreshes[i]
      /\ aggregate(loadPriceSamples, K_ANONYMITY_MIN)' = aggregate(loadPriceSamples, K_ANONYMITY_MIN)
  BY <1>1, FinishLeaves
<1> HIDE DEF aggregate, loadPriceSamples
<1>3. ASSUME ~overlapped'
      PROVE  Alone'
  <2>1. Alone
    BY <1>1, <1>3 DEF BenchmarksIInv
  <2>2. \A i \in Refreshes : UnderWay(i)' => UnderWay(i) /\ i # j
    BY <1>2 DEF UnderWay
  <2>3. \A i \in Refreshes : refreshes'[i].stage = "DONE" <=> refreshes[i].stage = "DONE"
    BY <1>1, <1>2 DEF UnderWay
  <2>4. \A i \in Refreshes : refreshes[i].stage = "DONE" => i # j
    BY <1>1 DEF UnderWay
  <2>5. \A i \in Refreshes : refreshes'[i].stage = "WIPED" => refreshes'[i].seen = priceBenchmark'
    BY <1>1, <1>2, <2>1 DEF Alone
  <2>6. \A i \in Refreshes : Newest(i)' <=> Newest(i)
    BY <1>2, <2>3, <2>4 DEF Newest
  <2>7. \A i \in Refreshes : Newest(i) => i # j
    BY <2>4 DEF Newest
  <2>8. TableIsOneReading'
    <3>1. TableIsOneReading /\ \A x \in priceBenchmark : x.by \in Refreshes
      BY <2>1 DEF Alone, BenchmarksIInv, Published
    <3> HIDE DEF Newest
    <3> QED  BY <1>1, <1>2, <2>6, <2>7, <3>1 DEF TableIsOneReading
  <2> HIDE DEF UnderWay
  <2> QED  BY <1>2, <2>1, <2>2, <2>3, <2>4, <2>5, <2>8 DEF Alone
<1>4. Published(priceBenchmark)' /\ OnePerGroup(priceBenchmark)'
  BY <1>1 DEF BenchmarksIInv, Published, OnePerGroup, GroupOf
<1> QED  BY <1>2, <1>3, <1>4 DEF BenchmarksIInv

LEMMA CommitStep ==
  ASSUME BenchmarksIInv, NEW j \in Refreshes, commitRefresh(j)
  PROVE  BenchmarksIInv'
<1> DEFINE mine == refreshes[j].rows
           spared == Spared(refreshes[j].seen)
<1>1. /\ refreshes[j].stage = "WIPED" /\ Finishes(j, "DONE")
      /\ \A x \in mine, y \in spared : GroupOf(x) # GroupOf(y)
      /\ priceBenchmark' = spared \cup mine
      /\ changes' = changes /\ overlapped' = overlapped
  BY DEF commitRefresh, Finishes
<1>2. /\ BenchmarksTypeOK' /\ RowsHold'
      /\ refreshes'[j].stage = "DONE" /\ refreshes'[j].at = refreshes[j].at
      /\ \A i \in Refreshes \ {j} : refreshes'[i] = refreshes[i]
      /\ aggregate(loadPriceSamples, K_ANONYMITY_MIN)' = aggregate(loadPriceSamples, K_ANONYMITY_MIN)
  BY <1>1, FinishLeaves
<1>3. spared = priceBenchmark \ refreshes[j].seen
  BY DEF Spared
<1>4. /\ \A x \in mine : x.by = j
      /\ Published(mine) /\ OnePerGroup(mine)
      /\ UnderWay(j) /\ refreshes[j].at = changes =>
           {x.row : x \in mine} = aggregate(loadPriceSamples, K_ANONYMITY_MIN)
  BY DEF BenchmarksIInv, RowsHold
<1> HIDE DEF aggregate, loadPriceSamples, mine, spared
<1>5. OnePerGroup(priceBenchmark)'
  <2>1. \A x, y \in spared \cup mine : GroupOf(x) = GroupOf(y) => x = y
    BY <1>1, <1>3, <1>4 DEF BenchmarksIInv, OnePerGroup
  <2> QED  BY <1>1, <2>1 DEF OnePerGroup, GroupOf
<1>6. Published(priceBenchmark)'
  BY <1>1, <1>3, <1>4 DEF BenchmarksIInv, Published
<1>7. ASSUME ~overlapped'
      PROVE  Alone'
  <2>1. Alone /\ UnderWay(j)
    BY <1>1, <1>7 DEF BenchmarksIInv, UnderWay
  <2>2. priceBenchmark' = mine
    BY <1>1, <1>3, <2>1 DEF Alone
  <2>3. \A i \in Refreshes : ~UnderWay(i)'
    <3>1. ~UnderWay(j)'
      BY <1>2 DEF UnderWay
    <3>2. \A i \in Refreshes \ {j} : UnderWay(i)' <=> UnderWay(i)
      BY <1>2 DEF UnderWay
    <3> HIDE DEF UnderWay
    <3> QED  BY <2>1, <3>1, <3>2 DEF Alone
  <2>4. \A i \in Refreshes : refreshes'[i].stage # "WIPED"
    BY <2>3 DEF UnderWay
  <2>5. \A i \in Refreshes : refreshes'[i].stage = "DONE" => refreshes'[i].at <= refreshes'[j].at
    BY <1>2, <2>1 DEF Alone, BenchmarksTypeOK
  <2>6. Newest(j)'
    BY <1>2, <2>5 DEF Newest
  <2>7. ASSUME NEW i \in Refreshes, Newest(i)'
        PROVE  refreshes'[i].at = refreshes'[j].at
    BY <1>2, <2>5, <2>7 DEF Newest, BenchmarksTypeOK
  <2>8. TableIsOneReading'
    BY <1>1, <1>2, <1>4, <2>1, <2>2, <2>6, <2>7 DEF TableIsOneReading
  <2> HIDE DEF UnderWay
  <2> QED  BY <2>3, <2>4, <2>8 DEF Alone
<1> QED  BY <1>2, <1>5, <1>6, <1>7 DEF BenchmarksIInv

\* The market moves: nothing that was read is true of it any more.
LEMMA TurnStep ==
  ASSUME BenchmarksIInv, NEW o \in Offers, turnOffer(o)
  PROVE  BenchmarksIInv'
<1>1. /\ changes' = changes + 1
      /\ UNCHANGED <<placed, priceBenchmark, refreshes, overlapped>>
  BY DEF turnOffer
<1>2. BenchmarksTypeOK'
  BY <1>1 DEF BenchmarksIInv, BenchmarksTypeOK
<1>3. \A j \in Refreshes : refreshes'[j].at # changes'
  BY <1>1 DEF BenchmarksIInv, BenchmarksTypeOK
<1>4. RowsHold'
  BY <1>1, <1>3 DEF BenchmarksIInv, RowsHold, Published, OnePerGroup, GroupOf
<1>5. Alone => Alone'
  BY <1>1, <1>3 DEF Alone, UnderWay, TableIsOneReading, Newest
<1> QED  BY <1>1, <1>2, <1>4, <1>5 DEF BenchmarksIInv, Published, OnePerGroup, GroupOf

LEMMA BenchmarksStep == BenchmarksIInv /\ [BenchmarksNext]_benchVars => BenchmarksIInv'
<1> SUFFICES ASSUME BenchmarksIInv, [BenchmarksNext]_benchVars PROVE BenchmarksIInv'
  OBVIOUS
<1>1. CASE \E j \in Refreshes :
             loadForRefresh(j) \/ wipeForRefresh(j) \/ commitRefresh(j) \/ failRefresh(j)
  BY <1>1, LoadStep, WipeStep, CommitStep, FailStep
<1>2. CASE \E o \in Offers : turnOffer(o)
  BY <1>2, TurnStep
<1>3. CASE (\E p \in Purchases : placePurchase(p)) \/ UNCHANGED benchVars
  <2>1. UNCHANGED <<shelf, priceBenchmark, refreshes, changes, overlapped>>
    BY <1>3 DEF placePurchase, benchVars
  <2>2. aggregate(loadPriceSamples, K_ANONYMITY_MIN)' = aggregate(loadPriceSamples, K_ANONYMITY_MIN)
    BY <2>1 DEF loadPriceSamples, aggregate
  <2> HIDE DEF aggregate, loadPriceSamples
  <2>3. BenchmarksTypeOK' /\ RowsHold'
    BY <2>1, <2>2 DEF BenchmarksIInv, BenchmarksTypeOK, RowsHold, UnderWay, Published, OnePerGroup,
       GroupOf
  <2>4. Alone => Alone'
    BY <2>1, <2>2 DEF Alone, UnderWay, TableIsOneReading, Newest
  <2> QED  BY <2>1, <2>3, <2>4 DEF BenchmarksIInv, Published, OnePerGroup, GroupOf
<1> QED  BY <1>1, <1>2, <1>3 DEF BenchmarksNext

LEMMA BenchmarksFollow ==
  BenchmarksIInv => FiltersUncoverNothing /\ OneRowPerGroup /\ (overlapped \/ TableIsOneReading)
<1> SUFFICES ASSUME BenchmarksIInv
             PROVE  FiltersUncoverNothing /\ OneRowPerGroup /\ (overlapped \/ TableIsOneReading)
  OBVIOUS
<1>1. ASSUME NEW c \in Categorised \cup {Unset}, NEW b \in {b.key : b \in QTY_BANDS} \cup {Unset},
             NEW m \in {o.material : o \in Offers} \cup {Unset}
      PROVE  LET filters == [categoryId |-> c, qtyBand |-> b, material |-> m]
                 answer == GET(TRUE, filters)
             IN  /\ answer.leadTime =
                      {r \in aggregate(loadLeadTimeSamples, K_ANONYMITY_MIN) : Fits(r, filters)}
                 /\ \A r \in answer.price \cup answer.leadTime : r.sampleCount >= K_ANONYMITY_MIN
  <2> DEFINE filters == [categoryId |-> c, qtyBand |-> b, material |-> m]
  <2>1. /\ GET(TRUE, filters).price = getPriceBenchmarks(filters)
        /\ GET(TRUE, filters).leadTime = getLeadTimeBenchmarks(filters)
    BY DEF GET
  <2>2. getLeadTimeBenchmarks(filters) =
          {r \in aggregate(loadLeadTimeSamples, K_ANONYMITY_MIN) : Fits(r, filters)}
    BY FilteredBeforeIsAfter DEF getLeadTimeBenchmarks
  <2>3. \A r \in getPriceBenchmarks(filters) : r.sampleCount >= K_ANONYMITY_MIN
    BY DEF getPriceBenchmarks, BenchmarksIInv, Published
  <2>4. \A r \in getLeadTimeBenchmarks(filters) : r.sampleCount >= K_ANONYMITY_MIN
    BY <2>2, AggregateIsSound
  <2> QED  BY <2>1, <2>2, <2>3, <2>4
<1>2. FiltersUncoverNothing
  BY <1>1 DEF FiltersUncoverNothing
<1>3. OneRowPerGroup /\ (overlapped \/ TableIsOneReading)
  BY DEF BenchmarksIInv, Alone, OnePerGroup, OneRowPerGroup
<1> QED  BY <1>2, <1>3

\* What stands on the shelf is an offer.
Shelved == shelf \subseteq Offers

LEMMA ShelfStep == Shelved /\ [BenchmarksNext]_benchVars => Shelved'
<1> SUFFICES ASSUME Shelved, [BenchmarksNext]_benchVars PROVE Shelved'
  OBVIOUS
<1> USE DEF Shelved
<1>1. CASE \E j \in Refreshes : loadForRefresh(j) \/ wipeForRefresh(j) \/ commitRefresh(j) \/ failRefresh(j)
  BY <1>1 DEF loadForRefresh, wipeForRefresh, commitRefresh, failRefresh, Finishes
<1>2. CASE \E o \in Offers : turnOffer(o)
  BY <1>2 DEF turnOffer
<1>3. CASE \E p \in Purchases : placePurchase(p)
  BY <1>3 DEF placePurchase
<1>4. CASE UNCHANGED benchVars
  BY <1>4 DEF benchVars
<1> QED
  BY <1>1, <1>2, <1>3, <1>4 DEF BenchmarksNext

LEMMA BenchmarksImply == BenchmarksIInv /\ Shelved => BenchmarksAreSound
  BY BenchmarksFollow, PricesAreFinite, QuartilesRank DEF BenchmarksAreSound, Shelved

\* store.ts:10 and :34, for any offers, bands, threshold and number of runs:
\* every quartile is the price of a sample with no more than its share below
\* it, no filter uncovers a group under the threshold, no group has two rows,
\* and the table is what the newest run read, whole, unless two runs overlapped.
THEOREM BenchmarksHold == BenchmarksSpec => []BenchmarksAreSound
<1>1. BenchmarksInit => Shelved
  BY DEF BenchmarksInit, Shelved
<1> QED
  BY <1>1, ShelfStep, BenchmarksInitHolds, BenchmarksStep, BenchmarksImply, PTL DEF BenchmarksSpec

=============================================================================
