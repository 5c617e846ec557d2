---------------------------- MODULE TrustProofs ----------------------------
(***************************************************************************)
(* Proofs about reviews, messages and the room of a dispute, for any       *)
(* number of rows, calls and sessions, any limit and any window.           *)
(***************************************************************************)
EXTENDS Trust, FiniteSetTheorems, WellFoundedInduction, TLAPS

-----------------------------------------------------------------------------
(* Numbers and finite sets *)

\* Induction over the numbers, for a set: it has no number that is its least.
LEMMA SetInduction ==
    ASSUME NEW S, 0 \in S, \A n \in Nat : n \in S => n + 1 \in S
    PROVE  Nat \subseteq S
<1> SUFFICES ASSUME Nat \ S # {} PROVE FALSE
  OBVIOUS
<1> DEFINE R == OpToRel(<, Nat)
           T == Nat \ S
<1>1. IsWellFoundedOn(R, Nat)
  BY NatLessThanWellFounded
<1>2. \A a, b \in Nat : a < b => <<a, b>> \in R
  BY DEF OpToRel
<1> HIDE DEF R, T
<1>3. PICK x \in T : \A y \in T : ~(<<y, x>> \in R)
  <2>1. T \subseteq Nat /\ T # {}
    BY DEF T
  <2> QED
    BY <1>1, <2>1, WFMin
<1>4. x # 0 /\ x - 1 \in Nat /\ x \in Nat
  BY DEF T
<1>5. x - 1 \in S
  <2>1. <<x - 1, x>> \in R
    BY <1>2, <1>4 DEF T
  <2>2. x - 1 \notin T
    BY <1>3, <2>1
  <2> QED
    BY <1>4, <2>2 DEF T
<1> QED
  BY <1>4, <1>5 DEF T

\* Of finitely many things in an order one comes before the others.
LEMMA FirstOfFinite ==
    ASSUME NEW D, IsFiniteSet(D), D # {}, NEW R,
           \A x \in D : <<x, x>> \notin R,
           \A x, y, z \in D : <<x, y>> \in R /\ <<y, z>> \in R => <<x, z>> \in R
    PROVE  \E x \in D : \A y \in D : <<y, x>> \notin R
<1> DEFINE below(x) == {y \in D : <<y, x>> \in R}
           sizes == {Cardinality(below(x)) : x \in D}
<1>1. \A x \in D : IsFiniteSet(below(x)) /\ Cardinality(below(x)) \in Nat
  <2> TAKE x \in D
  <2>1. below(x) \subseteq D
    OBVIOUS
  <2> QED
    BY <2>1, FS_Subset, FS_CardinalityType
<1>2. sizes \subseteq Nat /\ sizes # {}
  <2> HIDE DEF below
  <2> QED
    BY <1>1
<1>3. PICK n \in sizes : \A k \in sizes : ~(<<k, n>> \in OpToRel(<, Nat))
  <2> HIDE DEF sizes
  <2> QED
    BY <1>2, WFMin, NatLessThanWellFounded
<1>4. PICK x \in D : n = Cardinality(below(x))
  OBVIOUS
<1>5. ASSUME NEW y \in D, <<y, x>> \in R PROVE FALSE
  <2>1. below(y) \subseteq below(x) /\ y \in below(x) /\ y \notin below(y)
    BY <1>5
  <2>2. Cardinality(below(y)) < Cardinality(below(x))
    <3> HIDE DEF below
    <3>1. below(y) # below(x)
      BY <2>1
    <3>2. Cardinality(below(y)) <= Cardinality(below(x)) /\ Cardinality(below(y)) # Cardinality(below(x))
      BY <1>1, <2>1, <3>1, FS_Subset
    <3> QED
      BY <1>1, <3>2
  <2> HIDE DEF below
  <2>3. \A a, b \in Nat : a < b => <<a, b>> \in OpToRel(<, Nat)
    BY DEF OpToRel
  <2>4. Cardinality(below(y)) \in sizes /\ Cardinality(below(y)) \in Nat /\ n \in Nat
    BY <1>1, <1>4
  <2>5. <<Cardinality(below(y)), n>> \in OpToRel(<, Nat)
    BY <1>4, <2>2, <2>3, <2>4, Zenon
  <2> QED
    BY <1>3, <2>4, <2>5
<1> QED
  BY <1>5

-----------------------------------------------------------------------------
(* The window of the fraud limit *)

\* Of finitely many rows a window holds finitely many.
LEMMA WithinIsFinite ==
    ASSUME NEW at, NEW last, IsFiniteSet(Rows(at))
    PROVE  IsFiniteSet(Within(at, last)) /\ Cardinality(Within(at, last)) \in Nat
<1>1. Within(at, last) \subseteq Rows(at)
  BY DEF Within
<1> QED
  BY <1>1, FS_Subset, FS_CardinalityType

\* A window that ends after every row holds no more than the one that ends with them.
LEMMA LaterWindow ==
    ASSUME NEW D, NEW at \in [D -> Time \cup {NoTime}], IsFiniteSet(Rows(at)),
           NEW newest \in Time, NEW last \in Time, newest <= last, \A r \in Rows(at) : at[r] <= newest
    PROVE  Cardinality(Within(at, last)) <= Cardinality(Within(at, newest))
<1>1. Within(at, last) \subseteq Within(at, newest)
  BY WindowAssumption, MaxTimeAssumption DEF Within, Rows, Time, NoTime
<1>2. IsFiniteSet(Within(at, newest))
  BY WithinIsFinite
<1> QED
  BY <1>1, <1>2, FS_Subset

\* A new row counts for the windows that reach it, and for no other.
LEMMA WindowGains ==
    ASSUME NEW D, NEW at \in [D -> Time \cup {NoTime}], IsFiniteSet(Rows(at)),
           NEW r \in D, at[r] = NoTime, NEW new \in Time, NEW last \in Time,
           NEW more \in [D -> Time \cup {NoTime}], more[r] = new,
           \A q \in D \ {r} : more[q] = at[q]
    PROVE  /\ IsFiniteSet(Rows(more))
           /\ Cardinality(Within(more, last)) =
                Cardinality(Within(at, last)) + (IF last - Window <= new /\ new <= last THEN 1 ELSE 0)
<1>1. new # NoTime
  BY MaxTimeAssumption DEF Time, NoTime
<1>2. Rows(more) = Rows(at) \cup {r}
  BY <1>1 DEF Rows
<1>3. IsFiniteSet(Rows(more))
  BY <1>2, FS_AddElement
<1>4. r \notin Within(at, last) /\ IsFiniteSet(Within(at, last))
  BY WithinIsFinite DEF Within, Rows
<1>5. CASE last - Window <= new /\ new <= last
  <2>1. Within(more, last) = Within(at, last) \cup {r}
    BY <1>2, <1>5 DEF Within, Rows
  <2> QED
    BY <1>3, <1>4, <1>5, <2>1, FS_AddElement, FS_CardinalityType
<1>6. CASE ~(last - Window <= new /\ new <= last)
  <2>1. Within(more, last) = Within(at, last)
    BY <1>2, <1>4, <1>6 DEF Within, Rows
  <2> QED
    BY <1>3, <1>4, <1>6, <2>1, FS_CardinalityType
<1> QED
  BY <1>5, <1>6

-----------------------------------------------------------------------------
(* Reviews *)

Counted(last) ==
    {s \in Sessions : /\ call[s].op = "COUNTED"
                      /\ last - Window <= call[s].row.at /\ call[s].row.at <= last}

\* What a row and a call in flight say, however calls cross.
ReviewRows ==
    /\ IsFiniteSet(Written)
    /\ \A r \in ReviewIds : event[r] = (IF r \in Written THEN review[r].at ELSE NoTime)
    /\ \A r \in Written : review[r].at \in Time /\ review[r].at <= clock
    /\ \A r, q \in Written : r # q /\ review[r].line = review[q].line => review[r].line = NoLine
    /\ \A s \in Sessions :
         /\ call[s].op = "COUNTED" => call[s].row.at \in Time /\ call[s].row.at <= clock
         /\ call[s].op \in {"FLAG", "ANSWER", "MODERATE", "NOTIFY"} => call[s].of \in Written
         /\ call[s].op \in {"MODERATE", "NOTIFY"} => call[s].row.status \in Verdicts

\* What has been counted, in the table or on its way there: each session can
\* be over the limit by the one review it counted beside the others.
ReviewQuota ==
    \A last \in Time :
        Cardinality(Within(event, last)) + Cardinality(Counted(last)) <=
            Limit + Cardinality(Sessions) - 1

\* As long as calls do not cross, what the one in flight read is still so.
ReviewsUncrossed ==
    /\ \A s, t \in Sessions : call[s] # NoCall /\ call[t] # NoCall => s = t
    /\ \A s \in Sessions :
         /\ call[s].op \in {"CREATE", "COUNTED"} =>
              \A r \in Written : review[r].line # call[s].row.line
         /\ call[s].op = "COUNTED" =>
              /\ \A r \in Written : event[r] <= call[s].row.at
              /\ \A r \in Written : review[r].body = call[s].row.body /\ review[r].body # NoBody =>
                   review[r].at < call[s].row.at - Lookback
              /\ Cardinality(Within(event, call[s].row.at)) < Limit
         /\ call[s].op = "ANSWER" => review[call[s].of].answer = NoAnswer
         /\ call[s].op = "MODERATE" => review[call[s].of].status = "PENDING"
         /\ call[s].op = "NOTIFY" =>
              review[call[s].of].status = call[s].row.status /\ heard[call[s].of] = {}
    /\ \A r \in ReviewIds : heard[r] # {} => review[r].status \in Verdicts
    /\ ReviewsAreDistinct
    /\ ReviewsWithinLimit

ReviewsIInv ==
    /\ ReviewsTypeOK
    /\ ReviewRows
    /\ ReviewQuota
    /\ ~crossed => ReviewsUncrossed

\* What a step leaves of the rows that are there.
RowsStand ==
    \A r \in Written :
        /\ r \in Written' /\ review'[r].line = review[r].line
        /\ review[r].status \in Verdicts => review'[r].status = review[r].status
        /\ heard'[r] # heard[r] => heard[r] = {} /\ heard'[r] = {review[r].status}
        /\ review[r].answer # NoAnswer => review'[r].answer = review[r].answer

-----------------------------------------------------------------------------

ReviewRecord == [status : Status, line : Lines \cup {NoLine}, body : Bodies \cup {NoBody},
                 at : Time \cup {NoTime}, answer : Answers \cup {NoAnswer}]
CallRecord == [op : {"IDLE", "CREATE", "COUNTED", "FLAG", "ANSWER", "MODERATE", "NOTIFY"},
               row : ReviewRecord, of : ReviewIds \cup {"NONE"}]

LEMMA CountedIsFinite ==
    ASSUME NEW last
    PROVE  IsFiniteSet(Counted(last)) /\ Cardinality(Counted(last)) \in 0..Cardinality(Sessions)
<1>1. Counted(last) \subseteq Sessions
  BY DEF Counted
<1> QED
  BY <1>1, FS_Subset, FS_CardinalityType, SessionsAssumption

LEMMA ReviewsInitHolds == ReviewsInit => ReviewsIInv
<1> SUFFICES ASSUME ReviewsInit PROVE ReviewsIInv
  OBVIOUS
<1> USE DEF ReviewsInit
<1>1. NoRow \in ReviewRecord /\ NoRow.status = "NONE"
  BY DEF NoRow, ReviewRecord, Status
<1>2. NoCall \in CallRecord /\ NoCall.op = "IDLE"
  BY <1>1 DEF NoCall, CallRecord
<1>3. ReviewsTypeOK
  <2>1. review \in [ReviewIds -> ReviewRecord] /\ call \in [Sessions -> CallRecord]
    BY <1>1, <1>2
  <2>2. event \in [ReviewIds -> Time \cup {NoTime}] /\ clock \in Time
    BY MaxTimeAssumption DEF Time
  <2>3. delivered \in BOOLEAN /\ flagged \subseteq ReviewIds /\ crossed \in BOOLEAN
        /\ heard \in [ReviewIds -> SUBSET Verdicts]
    OBVIOUS
  <2> QED
    BY <2>1, <2>2, <2>3 DEF ReviewsTypeOK, ReviewRecord, CallRecord
<1>4. Written = {}
  BY <1>1 DEF Written
<1>5. ReviewRows
  BY <1>2, <1>4, FS_EmptySet DEF ReviewRows
<1>6. ReviewQuota
  <2>1. \A last \in Time : Within(event, last) = {} /\ Counted(last) = {}
    BY <1>2 DEF Within, Rows, Counted
  <2> QED
    <3>1. Cardinality({}) = 0 /\ Cardinality(Sessions) \in Nat
      BY FS_EmptySet, FS_CardinalityType, SessionsAssumption
    <3>2. 0 + 0 <= Limit + Cardinality(Sessions) - 1
      BY <3>1, LimitAssumption
    <3> QED
      BY <2>1, <3>1, <3>2, Zenon DEF ReviewQuota
<1>7. ReviewsUncrossed
  <2>1. Rows(event) = {}
    BY DEF Rows
  <2> QED
    BY <1>2, <1>4, <2>1 DEF ReviewsUncrossed, ReviewsAreDistinct, ReviewsWithinLimit
<1> QED
  BY <1>3, <1>5, <1>6, <1>7 DEF ReviewsIInv

\* A call begins: all it knows is what its guard read.
LEMMA BeginHolds ==
    ASSUME ReviewsIInv, NEW s \in Sessions, NEW record \in CallRecord, Begin(s, record),
           record.op \in {"CREATE", "ANSWER", "MODERATE"},
           record.op = "CREATE" => \A r \in Written : review[r].line # record.row.line,
           record.op # "CREATE" => record.of \in Written,
           record.op = "ANSWER" => review[record.of].answer = NoAnswer,
           record.op = "MODERATE" =>
             record.row.status \in Verdicts /\ review[record.of].status = "PENDING"
    PROVE  ReviewsIInv'
<1>1. /\ call' = [call EXCEPT ![s] = record] /\ call[s] = NoCall
      /\ crossed' = (crossed \/ \E t \in Sessions \ {s} : call[t] # NoCall)
      /\ UNCHANGED <<delivered, review, event, flagged, heard, clock>>
  BY DEF Begin
<1>2. ReviewsTypeOK'
  BY <1>1 DEF ReviewsIInv, ReviewsTypeOK, CallRecord, ReviewRecord
<1>3. /\ call'[s] = record
      /\ \A t \in Sessions \ {s} : call'[t] = call[t]
  BY <1>1 DEF ReviewsIInv, ReviewsTypeOK
<1>4. Written' = Written
  BY <1>1 DEF Written
<1>5. ReviewRows'
  BY <1>1, <1>3, <1>4 DEF ReviewsIInv, ReviewRows
<1>6. \A last : Counted(last)' = Counted(last)
  BY <1>1, <1>3 DEF Counted, NoCall
<1>7. ReviewQuota'
  BY <1>1, <1>6 DEF ReviewsIInv, ReviewQuota, Within, Rows
<1>8. ASSUME ~crossed' PROVE ReviewsUncrossed'
  <2>1. /\ ~crossed
        /\ \A t \in Sessions \ {s} : call[t] = NoCall
    BY <1>1, <1>8
  <2>2. \A t \in Sessions \ {s} : call'[t].op = "IDLE"
    BY <1>3, <2>1 DEF NoCall
  <2>3. ReviewsAreDistinct' /\ ReviewsWithinLimit'
    BY <1>1, <1>4, <2>1, <1>8 DEF ReviewsIInv, ReviewsUncrossed, ReviewsAreDistinct,
                            ReviewsWithinLimit, Within, Rows
  <2>4. \A t, u \in Sessions : call'[t] # NoCall /\ call'[u] # NoCall => t = u
    BY <1>3, <2>1
  <2> QED
    BY <1>1, <1>3, <1>4, <2>1, <2>2, <2>3, <2>4 DEF ReviewsIInv, ReviewsUncrossed
<1> QED
  BY <1>2, <1>5, <1>7, <1>8 DEF ReviewsIInv

\* A call ends without a row.
LEMMA EndHolds ==
    ASSUME ReviewsIInv, NEW s \in Sessions, call[s] # NoCall, End(s), flagged' \subseteq ReviewIds,
           heard' \in [ReviewIds -> SUBSET Verdicts],
           ~crossed => \A r \in ReviewIds : heard'[r] # {} => review[r].status \in Verdicts,
           UNCHANGED <<delivered, review, event, crossed, clock>>
    PROVE  ReviewsIInv'
<1>1. NoCall \in CallRecord /\ NoCall.op = "IDLE"
  BY DEF NoCall, CallRecord, NoRow, ReviewRecord, Status
<1>2. call' = [call EXCEPT ![s] = NoCall]
  BY DEF End
<1>3. ReviewsTypeOK'
  BY <1>1, <1>2 DEF ReviewsIInv, ReviewsTypeOK, CallRecord, ReviewRecord
<1>4. /\ call'[s] = NoCall
      /\ \A t \in Sessions \ {s} : call'[t] = call[t]
  BY <1>2 DEF ReviewsIInv, ReviewsTypeOK
<1>5. Written' = Written
  BY DEF Written
<1>6. ReviewRows'
  BY <1>1, <1>4, <1>5 DEF ReviewsIInv, ReviewRows
<1>7. ReviewQuota'
  <2> SUFFICES ASSUME NEW last \in Time
               PROVE  Cardinality(Within(event, last)') + Cardinality(Counted(last)') <=
                        Limit + Cardinality(Sessions) - 1
    BY DEF ReviewQuota
  <2>1. Counted(last)' \subseteq Counted(last)
    BY <1>1, <1>4 DEF Counted
  <2>2. Cardinality(Counted(last)') <= Cardinality(Counted(last)) /\ Cardinality(Counted(last)') \in Nat
    BY <2>1, CountedIsFinite, FS_Subset, FS_CardinalityType
  <2>3. Within(event, last)' = Within(event, last)
    BY DEF Within, Rows
  <2>4. Cardinality(Within(event, last)) \in Nat
    <3>1. IsFiniteSet(Rows(event))
      <4>1. Rows(event) \subseteq Written
        BY DEF ReviewsIInv, ReviewsTypeOK, ReviewRows, Rows
      <4> QED
        BY <4>1, FS_Subset DEF ReviewsIInv, ReviewRows
    <3> QED
      BY <3>1, WithinIsFinite
  <2> QED
    BY <2>2, <2>3, <2>4, CountedIsFinite, FS_CardinalityType, SessionsAssumption, LimitAssumption
       DEF ReviewsIInv, ReviewQuota
<1>8. ASSUME ~crossed PROVE ReviewsUncrossed'
  <2>1. ReviewsAreDistinct' /\ ReviewsWithinLimit'
    BY <1>5, <1>8 DEF ReviewsIInv, ReviewsUncrossed, ReviewsAreDistinct, ReviewsWithinLimit,
                      Within, Rows
  <2>2. \A t, u \in Sessions : call'[t] # NoCall /\ call'[u] # NoCall => t = u
    BY <1>4, <1>8 DEF ReviewsIInv, ReviewsUncrossed
  <2>3. \A t \in Sessions : call'[t] = NoCall
    BY <1>4, <1>8 DEF ReviewsIInv, ReviewsUncrossed
  <2> QED
    BY <1>1, <1>8, <2>1, <2>2, <2>3 DEF ReviewsUncrossed
<1> QED
  BY <1>3, <1>6, <1>7, <1>8 DEF ReviewsIInv

\* What is there is finite, and the windows over it are numbers.
LEMMA EventRows ==
    ASSUME ReviewsIInv
    PROVE  /\ Rows(event) = Written /\ IsFiniteSet(Rows(event))
           /\ event \in [ReviewIds -> Time \cup {NoTime}]
           /\ \A r \in Written : event[r] = review[r].at /\ event[r] \in Time /\ event[r] <= clock
           /\ \A last : Cardinality(Within(event, last)) \in Nat
<1>1. NoTime \notin Time
  BY MaxTimeAssumption DEF NoTime, Time
<1>2. event \in [ReviewIds -> Time \cup {NoTime}]
  BY DEF ReviewsIInv, ReviewsTypeOK
<1>3. \A r \in ReviewIds : event[r] = (IF r \in Written THEN review[r].at ELSE NoTime)
  BY DEF ReviewsIInv, ReviewRows
<1>4. \A r \in Written : r \in ReviewIds /\ review[r].at \in Time /\ review[r].at <= clock
  BY DEF ReviewsIInv, ReviewRows, Written
<1>5. Rows(event) = Written
  BY <1>1, <1>2, <1>3, <1>4 DEF Rows
<1>6. IsFiniteSet(Rows(event))
  BY <1>5 DEF ReviewsIInv, ReviewRows
<1>7. \A last : Cardinality(Within(event, last)) \in Nat
  BY <1>6, WithinIsFinite
<1> QED
  BY <1>2, <1>3, <1>4, <1>5, <1>6, <1>7

\* A call is counted: beside the others, it is the last its window admits.
LEMMA CountHolds ==
    ASSUME ReviewsIInv, NEW s \in Sessions, countReview(s)
    PROVE  ReviewsIInv'
<1>1. /\ call[s].op = "CREATE" /\ Cardinality(Within(event, clock)) < Limit
      /\ UNCHANGED <<delivered, review, event, flagged, heard, crossed, clock>>
  BY DEF countReview, RateLimitAllows
<1>2. Written' = Written
  BY <1>1 DEF Written
<1>3. call[s] \in CallRecord /\ clock \in Time
  BY DEF ReviewsIInv, ReviewsTypeOK, CallRecord, ReviewRecord
<1>4. ASSUME NEW record \in CallRecord, call' = [call EXCEPT ![s] = record],
             record.op \in {"COUNTED", "FLAG"},
             record.op = "COUNTED" =>
               /\ record.row.at = clock /\ record.row.line = call[s].row.line
               /\ \A r \in ReviewIds : ~Repeats(r, record.row.body),
             record.op = "FLAG" => record.of \in Written
      PROVE  ReviewsIInv'
  <2>1. /\ call'[s] = record
        /\ \A t \in Sessions \ {s} : call'[t] = call[t]
    BY <1>4 DEF ReviewsIInv, ReviewsTypeOK
  <2>2. ReviewsTypeOK'
    BY <1>1, <1>4 DEF ReviewsIInv, ReviewsTypeOK, CallRecord, ReviewRecord
  <2>3. clock <= clock
    BY <1>3 DEF Time
  <2>4. ReviewRows'
    BY <1>1, <1>2, <1>3, <1>4, <2>1, <2>3 DEF ReviewsIInv, ReviewRows
  <2>5. ReviewQuota'
    <3> SUFFICES ASSUME NEW last \in Time
                 PROVE  Cardinality(Within(event, last)') + Cardinality(Counted(last)') <=
                          Limit + Cardinality(Sessions) - 1
      BY DEF ReviewQuota
    <3>1. Within(event, last)' = Within(event, last)
      BY <1>1 DEF Within, Rows
    <3>2. CASE clock <= last
      <4>1. Cardinality(Within(event, last)) <= Cardinality(Within(event, clock))
        BY <1>3, <3>2, EventRows, LaterWindow
      <4>2. Counted(last)' \subseteq Sessions
        BY DEF Counted
      <4>3. Cardinality(Counted(last)') <= Cardinality(Sessions)
            /\ Cardinality(Counted(last)') \in Nat /\ Cardinality(Sessions) \in Nat
        BY <4>2, FS_Subset, FS_CardinalityType, SessionsAssumption
      <4> QED
        BY <1>1, <3>1, <4>1, <4>3, EventRows, LimitAssumption
    <3>3. CASE ~(clock <= last)
      <4>1. Counted(last)' = Counted(last)
        <5>1. s \notin Counted(last)
          BY <1>1 DEF Counted
        <5>2. s \notin Counted(last)'
          BY <1>4, <2>1, <3>3 DEF Counted
        <5>3. \A t \in Sessions \ {s} : t \in Counted(last)' <=> t \in Counted(last)
          BY <2>1 DEF Counted
        <5>4. Counted(last) \subseteq Sessions /\ Counted(last)' \subseteq Sessions
          BY DEF Counted
        <5> QED
          BY <5>1, <5>2, <5>3, <5>4
      <4> QED
        BY <3>1, <4>1 DEF ReviewsIInv, ReviewQuota
    <3> QED
      BY <3>2, <3>3
  <2>6. ASSUME ~crossed PROVE ReviewsUncrossed'
    <3>1. ReviewsAreDistinct' /\ ReviewsWithinLimit'
      BY <1>1, <1>2, <2>6 DEF ReviewsIInv, ReviewsUncrossed, ReviewsAreDistinct, ReviewsWithinLimit,
                              Within, Rows
    <3>2. call[s] # NoCall
      BY <1>1 DEF NoCall
    <3>3. \A t, u \in Sessions : call'[t] # NoCall /\ call'[u] # NoCall => t = u
      BY <2>1, <2>6, <3>2 DEF ReviewsIInv, ReviewsUncrossed
    <3>4. \A t \in Sessions \ {s} : call'[t].op = "IDLE"
      BY <2>1, <2>6, <3>2 DEF ReviewsIInv, ReviewsUncrossed, NoCall
    <3>5. ASSUME record.op = "COUNTED"
          PROVE  /\ \A r \in Written : review[r].line # record.row.line
                 /\ \A r \in Written : event[r] <= record.row.at
                 /\ \A r \in Written : review[r].body = record.row.body /\ review[r].body # NoBody =>
                      review[r].at < record.row.at - Lookback
                 /\ Cardinality(Within(event, record.row.at)) < Limit
      <4>1. \A r \in Written : review[r].line # record.row.line
        BY <1>1, <1>4, <2>6, <3>5 DEF ReviewsIInv, ReviewsUncrossed
      <4>2. \A r \in Written : event[r] <= record.row.at
        BY <1>4, <3>5, EventRows
      <4>3. ASSUME NEW r \in Written, review[r].body = record.row.body, review[r].body # NoBody
            PROVE  review[r].at < record.row.at - Lookback
        <5>1. ~(review[r].at >= clock - Lookback)
          BY <1>4, <3>5, <4>3 DEF Repeats, Written
        <5>2. review[r].at \in Int /\ clock \in Int /\ Lookback \in Int
          BY <1>3, EventRows, LookbackAssumption DEF Time
        <5> QED
          BY <1>4, <3>5, <5>1, <5>2
      <4> QED
        BY <1>1, <1>4, <3>5, <4>1, <4>2, <4>3
    <3>6. \A r \in Written : event'[r] = event[r] /\ review'[r] = review[r]
      BY <1>1
    <3>7. ASSUME NEW t \in Sessions
          PROVE  /\ call'[t].op \in {"CREATE", "COUNTED"} =>
                      \A r \in Written' : review'[r].line # call'[t].row.line
                 /\ call'[t].op = "COUNTED" =>
                      /\ \A r \in Written' : event'[r] <= call'[t].row.at
                      /\ \A r \in Written' : review'[r].body = call'[t].row.body /\ review'[r].body # NoBody =>
                           review'[r].at < call'[t].row.at - Lookback
                      /\ Cardinality(Within(event', call'[t].row.at)) < Limit
                 /\ call'[t].op \notin {"ANSWER", "MODERATE", "NOTIFY"}
      <4>1. CASE t = s
        BY <1>1, <1>2, <1>4, <2>1, <3>5, <4>1
      <4>2. CASE t # s
        BY <3>4, <4>2
      <4> QED
        BY <4>1, <4>2
    <3>8. \A r \in ReviewIds : heard'[r] # {} => review'[r].status \in Verdicts
      BY <1>1, <2>6 DEF ReviewsIInv, ReviewsUncrossed
    <3> QED
      BY <3>1, <3>3, <3>7, <3>8 DEF ReviewsUncrossed, Within, Rows
  <2> QED
    BY <1>1, <2>2, <2>4, <2>5, <2>6 DEF ReviewsIInv
<1>5. CASE /\ \A r \in ReviewIds : ~Repeats(r, call[s].row.body)
           /\ call' = [call EXCEPT ![s] = [call[s] EXCEPT !.op = "COUNTED", !.row.at = clock]]
  <2> DEFINE record == [call[s] EXCEPT !.op = "COUNTED", !.row.at = clock]
  <2>1. record \in CallRecord /\ record.op = "COUNTED" /\ record.row.at = clock
        /\ record.row.line = call[s].row.line /\ record.row.body = call[s].row.body
    BY <1>3 DEF CallRecord, ReviewRecord
  <2> HIDE DEF record
  <2>2. call' = [call EXCEPT ![s] = record]
    BY <1>5 DEF record
  <2> QED
    BY <1>4, <1>5, <2>1, <2>2
<1>6. CASE \E r \in ReviewIds :
             /\ Repeats(r, call[s].row.body)
             /\ call' = [call EXCEPT ![s] = [call[s] EXCEPT !.op = "FLAG", !.of = r]]
  <2>1. PICK r \in ReviewIds :
             /\ Repeats(r, call[s].row.body)
             /\ call' = [call EXCEPT ![s] = [call[s] EXCEPT !.op = "FLAG", !.of = r]]
    BY <1>6
  <2> DEFINE record == [call[s] EXCEPT !.op = "FLAG", !.of = r]
  <2>2. record \in CallRecord /\ record.op = "FLAG" /\ record.of = r
    BY <1>3 DEF CallRecord
  <2>3. r \in Written
    BY <2>1 DEF Repeats
  <2> HIDE DEF record
  <2>4. call' = [call EXCEPT ![s] = record]
    BY <2>1 DEF record
  <2> QED
    BY <1>4, <2>2, <2>3, <2>4
<1> QED
  BY <1>5, <1>6 DEF countReview

\* A review is recorded: what its session counted moves into the table.
LEMMA RecordHolds ==
    ASSUME ReviewsIInv, NEW s \in Sessions, recordReview(s)
    PROVE  ReviewsIInv'
<1>1. PICK r \in ReviewIds \ Written :
        /\ review' = [review EXCEPT ![r] = [call[s].row EXCEPT !.status = "PENDING"]]
        /\ event' = [event EXCEPT ![r] = call[s].row.at]
  BY DEF recordReview
<1>2. /\ call[s].op = "COUNTED" /\ call' = [call EXCEPT ![s] = NoCall]
      /\ \A q \in Written : review[q].line = call[s].row.line => review[q].line = NoLine
      /\ UNCHANGED <<delivered, flagged, heard, crossed, clock>>
  BY DEF recordReview, End
<1>3. NoCall \in CallRecord /\ NoCall.op = "IDLE"
  BY DEF NoCall, CallRecord, NoRow, ReviewRecord, Status
<1>4. /\ call[s].row \in ReviewRecord /\ call[s].row.at \in Time /\ call[s].row.at <= clock
  BY <1>2 DEF ReviewsIInv, ReviewsTypeOK, ReviewRows, ReviewRecord
<1> DEFINE new == [call[s].row EXCEPT !.status = "PENDING"]
<1>5. /\ new \in ReviewRecord
      /\ new.status = "PENDING" /\ new.line = call[s].row.line
      /\ new.body = call[s].row.body /\ new.at = call[s].row.at
      /\ new.at \in Time /\ new.at <= clock
      /\ review' = [review EXCEPT ![r] = new]
      /\ event' = [event EXCEPT ![r] = new.at]
  BY <1>1, <1>4 DEF ReviewRecord, Status
<1> HIDE DEF new
<1>6. /\ review'[r] = new /\ \A q \in ReviewIds \ {r} : review'[q] = review[q]
      /\ event'[r] = new.at /\ \A q \in ReviewIds \ {r} : event'[q] = event[q]
      /\ call'[s] = NoCall /\ \A t \in Sessions \ {s} : call'[t] = call[t]
      /\ event[r] = NoTime /\ r \in ReviewIds
  BY <1>1, <1>2, <1>5 DEF ReviewsIInv, ReviewsTypeOK, ReviewRows
<1>7. ReviewsTypeOK'
  <2>1. review' \in [ReviewIds -> ReviewRecord]
    BY <1>1, <1>5 DEF ReviewsIInv, ReviewsTypeOK, ReviewRecord
  <2>2. event' \in [ReviewIds -> Time \cup {NoTime}]
    BY <1>1, <1>4 DEF ReviewsIInv, ReviewsTypeOK
  <2>3. call' \in [Sessions -> CallRecord]
    BY <1>2, <1>3 DEF ReviewsIInv, ReviewsTypeOK, CallRecord, ReviewRecord
  <2> QED
    BY <1>2, <2>1, <2>2, <2>3 DEF ReviewsIInv, ReviewsTypeOK, CallRecord, ReviewRecord
<1>8. Written' = Written \cup {r}
  <2>1. ASSUME NEW q \in ReviewIds
        PROVE  review'[q].status # "NONE" <=> q = r \/ review[q].status # "NONE"
    <3>1. CASE q = r
      BY <1>5, <1>6, <3>1
    <3>2. CASE q # r
      BY <1>6, <3>2
    <3> QED
      BY <3>1, <3>2
  <2> QED
    BY <1>6, <2>1 DEF Written
<1>9. ReviewRows'
  <2>1. IsFiniteSet(Written')
    BY <1>8, FS_AddElement DEF ReviewsIInv, ReviewRows
  <2>2. \A q \in ReviewIds : event'[q] = (IF q \in Written' THEN review'[q].at ELSE NoTime)
    BY <1>6, <1>8 DEF ReviewsIInv, ReviewRows
  <2>3. \A q \in Written' : review'[q].at \in Time /\ review'[q].at <= clock
    <3>1. ASSUME NEW q \in Written PROVE review'[q] = review[q]
      BY <1>6, <3>1 DEF Written
    <3> QED
      BY <1>5, <1>6, <1>8, <3>1 DEF ReviewsIInv, ReviewRows
  <2>4. ASSUME NEW q \in Written', NEW u \in Written', q # u, review'[q].line = review'[u].line
        PROVE  review'[q].line = NoLine
    <3>1. CASE q # r /\ u # r
      BY <1>6, <1>8, <2>4, <3>1 DEF ReviewsIInv, ReviewRows, Written
    <3>2. CASE q = r
      BY <1>2, <1>5, <1>6, <1>8, <2>4, <3>2 DEF Written
    <3>3. CASE u = r
      BY <1>2, <1>5, <1>6, <1>8, <2>4, <3>3 DEF Written
    <3> QED
      BY <3>1, <3>2, <3>3
  <2>5. \A t \in Sessions :
          /\ call'[t].op = "COUNTED" => call'[t].row.at \in Time /\ call'[t].row.at <= clock
          /\ call'[t].op \in {"FLAG", "ANSWER", "MODERATE", "NOTIFY"} => call'[t].of \in Written'
          /\ call'[t].op \in {"MODERATE", "NOTIFY"} => call'[t].row.status \in Verdicts
    BY <1>3, <1>6, <1>8 DEF ReviewsIInv, ReviewRows
  <2> QED
    BY <1>2, <2>1, <2>2, <2>3, <2>4, <2>5 DEF ReviewRows
<1>10. ASSUME NEW last \in Time
       PROVE  /\ IsFiniteSet(Rows(event'))
              /\ Cardinality(Within(event', last)) =
                   Cardinality(Within(event, last))
                     + (IF last - Window <= new.at /\ new.at <= last THEN 1 ELSE 0)
  <2>1. /\ event \in [ReviewIds -> Time \cup {NoTime}] /\ IsFiniteSet(Rows(event))
        /\ event[r] = NoTime /\ r \in ReviewIds /\ new.at \in Time
        /\ event' \in [ReviewIds -> Time \cup {NoTime}]
    BY <1>5, <1>6, <1>7, EventRows DEF ReviewsTypeOK
  <2> QED
    BY <1>6, <2>1, WindowGains
<1>11. ReviewQuota'
  <2> SUFFICES ASSUME NEW last \in Time
               PROVE  Cardinality(Within(event', last)) + Cardinality(Counted(last)') <=
                        Limit + Cardinality(Sessions) - 1
    BY DEF ReviewQuota, Within, Rows
  <2>1. /\ Cardinality(Within(event, last)) \in Nat /\ Cardinality(Counted(last)) \in Nat
        /\ Cardinality(Within(event, last)) + Cardinality(Counted(last)) <=
             Limit + Cardinality(Sessions) - 1
        /\ Cardinality(Sessions) \in Nat
    BY EventRows, CountedIsFinite, FS_CardinalityType, SessionsAssumption DEF ReviewsIInv, ReviewQuota
  <2>2. CASE last - Window <= new.at /\ new.at <= last
    <3>1. s \in Counted(last)
      BY <1>2, <1>5, <2>2 DEF Counted
    <3>2. Counted(last)' = Counted(last) \ {s}
      BY <1>3, <1>6 DEF Counted
    <3>3. Cardinality(Counted(last)') = Cardinality(Counted(last)) - 1
      BY <3>1, <3>2, CountedIsFinite, FS_RemoveElement
    <3> QED
      BY <1>10, <2>1, <2>2, <3>3, LimitAssumption
  <2>3. CASE ~(last - Window <= new.at /\ new.at <= last)
    <3>1. s \notin Counted(last)
      BY <1>5, <2>3 DEF Counted
    <3>2. Counted(last)' = Counted(last)
      BY <1>3, <1>6, <3>1 DEF Counted
    <3> QED
      BY <1>10, <2>1, <2>3, <3>2, LimitAssumption
  <2> QED
    BY <2>2, <2>3
<1>12. ASSUME ~crossed PROVE ReviewsUncrossed'
  <2>1. call[s] # NoCall
    BY <1>2, <1>3
  <2>2. \A t \in Sessions : call'[t] = NoCall
    BY <1>6, <1>12, <2>1 DEF ReviewsIInv, ReviewsUncrossed
  <2>3. /\ \A q \in Written : review[q].line # new.line
        /\ \A q \in Written : event[q] <= new.at
        /\ \A q \in Written : review[q].body = new.body /\ review[q].body # NoBody =>
             review[q].at < new.at - Lookback
        /\ Cardinality(Within(event, new.at)) < Limit
    BY <1>2, <1>5, <1>12 DEF ReviewsIInv, ReviewsUncrossed
  <2>4. ReviewsAreDistinct'
    <3> SUFFICES ASSUME NEW q \in Written', NEW u \in Written', q # u
                 PROVE  /\ review'[q].line # review'[u].line
                        /\ review'[q].body = review'[u].body /\ review'[q].body # NoBody =>
                             \/ review'[q].at < review'[u].at - Lookback
                             \/ review'[u].at < review'[q].at - Lookback
      BY DEF ReviewsAreDistinct
    <3>1. CASE q # r /\ u # r
      BY <1>6, <1>8, <1>12, <3>1 DEF ReviewsIInv, ReviewsUncrossed, ReviewsAreDistinct, Written
    <3>2. CASE q = r
      <4>1. u \in Written /\ review'[u] = review[u] /\ review'[q] = new
        BY <1>6, <1>8, <3>2 DEF Written
      <4> QED
        BY <2>3, <4>1
    <3>3. CASE u = r
      <4>1. q \in Written /\ review'[q] = review[q] /\ review'[u] = new
        BY <1>6, <1>8, <3>3 DEF Written
      <4> QED
        BY <2>3, <4>1
    <3> QED
      BY <3>1, <3>2, <3>3
  <2>5. ReviewsWithinLimit'
    <3> SUFFICES ASSUME NEW q \in Rows(event')
                 PROVE  Cardinality(Within(event', event'[q])) <= Limit
      BY <1>2, <1>12 DEF ReviewsWithinLimit, Rows, Within
    <3>1. CASE q = r
      <4>1. Cardinality(Within(event', new.at)) =
              Cardinality(Within(event, new.at))
                + (IF new.at - Window <= new.at /\ new.at <= new.at THEN 1 ELSE 0)
        BY <1>5, <1>10, Zenon
      <4>3. Cardinality(Within(event, new.at)) \in Nat
        BY EventRows, Zenon
      <4>2. Cardinality(Within(event', new.at)) <= Limit
        BY <2>3, <4>1, <4>3, LimitAssumption
      <4> QED
        BY <1>6, <3>1, <4>2
    <3>2. CASE q # r
      <4>1. q \in Written /\ event'[q] = event[q] /\ event[q] \in Time /\ event[q] <= new.at
        <5>1. q \in ReviewIds /\ event'[q] # NoTime
          BY <1>7 DEF Rows, ReviewsTypeOK
        <5>2. event'[q] = event[q] /\ q \in Rows(event)
          BY <1>6, <3>2, <5>1, EventRows DEF Rows
        <5> QED
          BY <2>3, <5>2, EventRows
      <4>2. Cardinality(Within(event, event[q])) <= Limit
        BY <1>12, <4>1, EventRows DEF ReviewsIInv, ReviewsUncrossed, ReviewsWithinLimit
      <4>3. CASE event[q] = new.at
        <5>1. Cardinality(Within(event', new.at)) =
                Cardinality(Within(event, new.at))
                  + (IF new.at - Window <= new.at /\ new.at <= new.at THEN 1 ELSE 0)
          BY <1>5, <1>10, Zenon
        <5>2. Cardinality(Within(event, new.at)) \in Nat
          BY EventRows, Zenon
        <5>3. event'[q] = new.at
          BY <4>1, <4>3
        <5> QED
          BY <2>3, <5>1, <5>2, <5>3, LimitAssumption
      <4>4. CASE event[q] # new.at
        <5>1. ~(new.at <= event[q])
          BY <1>4, <1>5, <4>1, <4>4 DEF Time
        <5>2. Cardinality(Within(event', event[q])) = Cardinality(Within(event, event[q])) + 0
          BY <1>10, <4>1, <5>1
        <5> QED
          BY <4>1, <4>2, <5>2, EventRows
      <4> QED
        BY <4>3, <4>4
    <3> QED
      BY <3>1, <3>2
  <2>6. \A q \in ReviewIds : heard'[q] # {} => review'[q].status \in Verdicts
    <3>1. heard[r] = {}
      BY <1>1, <1>12 DEF ReviewsIInv, ReviewsUncrossed, Written, Verdicts
    <3> QED
      BY <1>2, <1>6, <1>12, <3>1 DEF ReviewsIInv, ReviewsUncrossed
  <2> QED
    BY <1>3, <2>2, <2>4, <2>5, <2>6 DEF ReviewsUncrossed
<1> QED
  BY <1>2, <1>7, <1>9, <1>11, <1>12 DEF ReviewsIInv

\* An answer or a verdict changes nothing that sets reviews apart.
LEMMA AmendHolds ==
    ASSUME ReviewsIInv, NEW s \in Sessions, respondToReview(s) \/ moderate(s)
    PROVE  /\ ReviewsIInv'
           /\ ~crossed => RowsStand
<1>1. NoCall \in CallRecord /\ NoCall.op = "IDLE"
  BY DEF NoCall, CallRecord, NoRow, ReviewRecord, Status
<1>2. PICK r \in Written :
        /\ r = call[s].of /\ call[s].op \in {"ANSWER", "MODERATE"}
        /\ call[s].op = "ANSWER" => respondToReview(s) /\ call' = [call EXCEPT ![s] = NoCall]
        /\ call[s].op = "MODERATE" => moderate(s) /\ call' = [call EXCEPT ![s].op = "NOTIFY"]
        /\ UNCHANGED <<delivered, event, flagged, heard, crossed, clock>>
  BY DEF respondToReview, moderate, End, ReviewsIInv, ReviewRows
<1>3. review \in [ReviewIds -> ReviewRecord] /\ call[s] \in CallRecord /\ r \in ReviewIds
  BY DEF ReviewsIInv, ReviewsTypeOK, ReviewRecord, CallRecord, Written
<1>4. /\ \A q \in ReviewIds \ {r} : review'[q] = review[q]
      /\ review'[r].line = review[r].line /\ review'[r].body = review[r].body
      /\ review'[r].at = review[r].at
      /\ review' \in [ReviewIds -> ReviewRecord]
      /\ review'[r].status # "NONE"
      /\ call[s].op = "ANSWER" => review'[r].status = review[r].status
      /\ call[s].op = "MODERATE" =>
           /\ review'[r].answer = review[r].answer /\ review'[r].status = call[s].row.status
           /\ call[s].row.status \in Verdicts
  <2>1. CASE respondToReview(s)
    <3>1. review' = [review EXCEPT ![r].answer = call[s].row.answer] /\ call[s].op = "ANSWER"
      BY <1>2, <2>1 DEF respondToReview
    <3>2. call[s].row.answer \in Answers \cup {NoAnswer}
      BY <1>3 DEF CallRecord, ReviewRecord
    <3> QED
      BY <1>3, <3>1, <3>2 DEF ReviewRecord, Written
  <2>2. CASE moderate(s)
    <3>1. review' = [review EXCEPT ![r].status = call[s].row.status] /\ call[s].op = "MODERATE"
      BY <1>2, <2>2 DEF moderate
    <3>2. /\ call[s].row.status \in Status /\ call[s].row.status # "NONE"
          /\ call[s].row.status \in Verdicts
      BY <3>1 DEF ReviewsIInv, ReviewRows, Verdicts, Status
    <3> QED
      BY <1>3, <3>1, <3>2 DEF ReviewRecord
  <2> QED
    BY <2>1, <2>2
<1>5. /\ \A t \in Sessions \ {s} : call'[t] = call[t]
      /\ call' \in [Sessions -> CallRecord] /\ call'[s].op \in {"IDLE", "NOTIFY"}
      /\ call'[s].op = "NOTIFY" =>
           call[s].op = "MODERATE" /\ call'[s].of = r /\ call'[s].row = call[s].row
  <2> DEFINE notice == [call[s] EXCEPT !.op = "NOTIFY"]
  <2>1. notice \in CallRecord /\ notice.op = "NOTIFY" /\ notice.of = call[s].of /\ notice.row = call[s].row
    BY <1>3 DEF CallRecord
  <2>2. call \in [Sessions -> CallRecord]
    BY DEF ReviewsIInv, ReviewsTypeOK, CallRecord, ReviewRecord
  <2>3. CASE call[s].op = "ANSWER"
    BY <1>1, <1>2, <2>2, <2>3
  <2>4. CASE call[s].op = "MODERATE"
    <3>1. call' = [call EXCEPT ![s] = notice]
      BY <1>2, <2>4
    <3> HIDE DEF notice
    <3> QED
      BY <1>2, <2>1, <2>2, <2>4, <3>1
  <2> QED
    BY <1>2, <2>3, <2>4
<1>6. ReviewsTypeOK'
  BY <1>2, <1>4, <1>5 DEF ReviewsIInv, ReviewsTypeOK, ReviewRecord, CallRecord
<1>7. Written' = Written
  BY <1>2, <1>4 DEF Written
<1>8. \A q \in ReviewIds : /\ review'[q].line = review[q].line /\ review'[q].body = review[q].body
                           /\ review'[q].at = review[q].at
  BY <1>4
<1>9. ReviewRows'
  <2>1. \A q \in Written : q \in ReviewIds
    BY DEF Written
  <2>2. \A t \in Sessions :
          /\ call'[t].op = "COUNTED" => call'[t].row.at \in Time /\ call'[t].row.at <= clock
          /\ call'[t].op \in {"FLAG", "ANSWER", "MODERATE", "NOTIFY"} => call'[t].of \in Written
          /\ call'[t].op \in {"MODERATE", "NOTIFY"} => call'[t].row.status \in Verdicts
    BY <1>2, <1>4, <1>5, <1>7 DEF ReviewsIInv, ReviewRows
  <2> QED
    BY <1>2, <1>7, <1>8, <2>1, <2>2 DEF ReviewsIInv, ReviewRows
<1>10. ReviewQuota'
  <2>1. \A last : Counted(last)' = Counted(last)
    BY <1>1, <1>2, <1>5 DEF Counted
  <2> QED
    BY <1>2, <2>1 DEF ReviewsIInv, ReviewQuota, Within, Rows
<1>11. ASSUME ~crossed PROVE ReviewsUncrossed'
  <2>1. call[s] # NoCall
    BY <1>1, <1>2
  <2>2. \A t \in Sessions \ {s} : call'[t] = NoCall
    BY <1>5, <1>11, <2>1 DEF ReviewsIInv, ReviewsUncrossed
  <2>3. ReviewsAreDistinct'
    BY <1>2, <1>7, <1>8, <1>11 DEF ReviewsIInv, ReviewsUncrossed, ReviewsAreDistinct, Written
  <2>4. ReviewsWithinLimit'
    BY <1>2, <1>11 DEF ReviewsIInv, ReviewsUncrossed, ReviewsWithinLimit, Within, Rows
  <2>5. \A q \in ReviewIds : heard'[q] # {} => review'[q].status \in Verdicts
    BY <1>2, <1>4, <1>11 DEF ReviewsIInv, ReviewsUncrossed
  <2>6. call'[s].op = "NOTIFY" => review'[r].status = call'[s].row.status /\ heard'[r] = {}
    BY <1>2, <1>3, <1>4, <1>5, <1>11 DEF ReviewsIInv, ReviewsUncrossed, Verdicts
  <2> QED
    BY <1>1, <1>5, <2>2, <2>3, <2>4, <2>5, <2>6 DEF ReviewsUncrossed
<1>12. ASSUME ~crossed PROVE RowsStand
  <2> SUFFICES ASSUME NEW q \in Written
               PROVE  /\ review[q].status \in Verdicts => review'[q].status = review[q].status
                      /\ review[q].answer # NoAnswer => review'[q].answer = review[q].answer
    BY <1>2, <1>7, <1>8 DEF RowsStand, Written
  <2>1. CASE q # r
    BY <1>4, <2>1 DEF Written
  <2>2. CASE q = r /\ call[s].op = "ANSWER"
    BY <1>2, <1>4, <1>12, <2>2 DEF ReviewsIInv, ReviewsUncrossed
  <2>3. CASE q = r /\ call[s].op = "MODERATE"
    BY <1>2, <1>4, <1>12, <2>3 DEF ReviewsIInv, ReviewsUncrossed, Verdicts
  <2> QED
    BY <1>2, <2>1, <2>2, <2>3
<1> QED
  BY <1>2, <1>6, <1>9, <1>10, <1>11, <1>12 DEF ReviewsIInv

\* The author is told: of a verdict that stands, and only once.
LEMMA NotifyHolds ==
    ASSUME ReviewsIInv, NEW s \in Sessions, notifyAuthor(s)
    PROVE  ReviewsIInv' /\ (~crossed => RowsStand)
<1>1. /\ call[s].op = "NOTIFY" /\ End(s) /\ call[s] # NoCall
      /\ heard' = [heard EXCEPT ![call[s].of] = @ \cup {call[s].row.status}]
      /\ UNCHANGED <<delivered, review, event, flagged, crossed, clock>>
  BY DEF notifyAuthor, NoCall
<1>2. call[s].of \in Written /\ call[s].row.status \in Verdicts
      /\ heard \in [ReviewIds -> SUBSET Verdicts] /\ flagged \subseteq ReviewIds
  BY <1>1 DEF ReviewsIInv, ReviewsTypeOK, ReviewRows
<1>3. heard' \in [ReviewIds -> SUBSET Verdicts]
  BY <1>1, <1>2 DEF Written
<1>4. Written' = Written
  BY <1>1 DEF Written
<1>5. ASSUME ~crossed
      PROVE  /\ \A r \in ReviewIds : heard'[r] # {} => review[r].status \in Verdicts
             /\ RowsStand
  <2>1. review[call[s].of].status = call[s].row.status /\ heard[call[s].of] = {}
    BY <1>1, <1>5 DEF ReviewsIInv, ReviewsUncrossed
  <2>2. \A r \in ReviewIds : heard'[r] = IF r = call[s].of THEN {call[s].row.status} ELSE heard[r]
    BY <1>1, <1>2, <2>1
  <2>3. \A r \in Written : r \in ReviewIds
    BY DEF Written
  <2> QED
    BY <1>1, <1>2, <1>4, <1>5, <2>1, <2>2, <2>3 DEF ReviewsIInv, ReviewsUncrossed, RowsStand
<1> QED
  BY <1>1, <1>2, <1>3, <1>5, EndHolds

\* Every step of a review keeps its invariant, and no step but an answer or a
\* verdict touches a row.
LEMMA ReviewsStep ==
    ASSUME ReviewsIInv, [ReviewsNext]_reviewVars
    PROVE  /\ ReviewsIInv'
           /\ ~crossed' => RowsStand
<1>1. ASSUME NEW s \in Sessions, NEW l \in Lines \cup {NoLine}, NEW b \in Bodies \cup {NoBody},
             ~AlreadyReviewed(l),
             Begin(s, [NoCall EXCEPT !.op = "CREATE",
                                     !.row = [NoRow EXCEPT !.line = l, !.body = b]])
      PROVE  ReviewsIInv' /\ UNCHANGED <<review, heard>>
  <2> DEFINE record == [NoCall EXCEPT !.op = "CREATE",
                                      !.row = [NoRow EXCEPT !.line = l, !.body = b]]
  <2>1. record \in CallRecord /\ record.op = "CREATE" /\ record.row.line = l
    BY DEF NoCall, NoRow, CallRecord, ReviewRecord, Status
  <2>2. \A r \in Written : review[r].line # l
    BY <1>1 DEF AlreadyReviewed
  <2> HIDE DEF record
  <2>3. Begin(s, record)
    BY <1>1 DEF record
  <2> QED
    BY <2>1, <2>2, <2>3, BeginHolds DEF Begin
<1>2. ASSUME NEW s \in Sessions, answer(s)
      PROVE  ReviewsIInv' /\ UNCHANGED <<review, heard>>
  <2>1. PICK r \in ReviewIds, a \in Answers :
          /\ MayAnswer(r)
          /\ Begin(s, [op |-> "ANSWER", row |-> [NoRow EXCEPT !.answer = a], of |-> r])
    BY <1>2 DEF answer
  <2> DEFINE record == [op |-> "ANSWER", row |-> [NoRow EXCEPT !.answer = a], of |-> r]
  <2>2. record \in CallRecord /\ record.op = "ANSWER" /\ record.of = r
    BY DEF NoRow, CallRecord, ReviewRecord, Status
  <2> HIDE DEF record
  <2>3. Begin(s, record)
    BY <2>1 DEF record
  <2> QED
    BY <2>1, <2>2, <2>3, BeginHolds DEF Begin, MayAnswer
<1>3. ASSUME NEW s \in Sessions, decide(s)
      PROVE  ReviewsIInv' /\ UNCHANGED <<review, heard>>
  <2>1. PICK r \in moderationQueue, v \in Verdicts :
          /\ Begin(s, [op |-> "MODERATE", row |-> [NoRow EXCEPT !.status = v], of |-> r])
    BY <1>3 DEF decide
  <2> DEFINE record == [op |-> "MODERATE", row |-> [NoRow EXCEPT !.status = v], of |-> r]
  <2>2. record \in CallRecord /\ record.op = "MODERATE" /\ record.of = r /\ record.row.status = v
    BY DEF NoRow, CallRecord, ReviewRecord, Status, Verdicts, moderationQueue
  <2> HIDE DEF record
  <2>3. Begin(s, record) /\ r \in Written
    BY <2>1 DEF record, moderationQueue, Written
  <2> QED
    BY <2>1, <2>2, <2>3, BeginHolds DEF Begin, moderationQueue
<1>4. ASSUME NEW s \in Sessions, giveUp(s) \/ flagDuplicate(s)
      PROVE  ReviewsIInv' /\ UNCHANGED <<review, heard>>
  <2>1. flagged' \subseteq ReviewIds /\ End(s) /\ call[s] # NoCall
        /\ UNCHANGED <<delivered, review, event, heard, crossed, clock>>
    BY <1>4 DEF giveUp, flagDuplicate, NoCall, ReviewsIInv, ReviewsTypeOK, ReviewRows, Written
  <2>2. /\ heard' \in [ReviewIds -> SUBSET Verdicts]
        /\ ~crossed => \A r \in ReviewIds : heard'[r] # {} => review[r].status \in Verdicts
    BY <2>1 DEF ReviewsIInv, ReviewsTypeOK, ReviewsUncrossed
  <2> QED
    BY <2>1, <2>2, EndHolds
<1>5. ASSUME UNCHANGED <<review, event, heard, call, crossed>>, delivered' \in BOOLEAN,
             flagged' = flagged, clock' \in Time, clock <= clock'
      PROVE  ReviewsIInv' /\ UNCHANGED <<review, heard>>
  <2>1. ReviewsTypeOK'
    BY <1>5 DEF ReviewsIInv, ReviewsTypeOK
  <2>2. Written' = Written /\ clock \in Time
    BY <1>5 DEF Written, ReviewsIInv, ReviewsTypeOK
  <2>3. \A at \in Time : at <= clock => at <= clock'
    BY <1>5, <2>2 DEF Time
  <2>4. ReviewRows'
    BY <1>5, <2>2, <2>3 DEF ReviewsIInv, ReviewRows
  <2>5. ReviewQuota'
    BY <1>5 DEF ReviewsIInv, ReviewQuota, Counted, Within, Rows
  <2>6. (~crossed => ReviewsUncrossed)'
    BY <1>5, <2>2, ZenonT(60) DEF ReviewsIInv, ReviewsUncrossed, ReviewsAreDistinct, ReviewsWithinLimit,
                      Within, Rows
  <2> QED
    BY <1>5, <2>1, <2>4, <2>5, <2>6 DEF ReviewsIInv
<1>6. ASSUME orderMoves \/ timePasses \/ UNCHANGED reviewVars
      PROVE  ReviewsIInv' /\ UNCHANGED <<review, heard>>
  <2>1. clock' \in Time /\ clock <= clock'
    BY <1>6, MaxTimeAssumption
       DEF orderMoves, timePasses, reviewVars, ReviewsIInv, ReviewsTypeOK, Time
  <2> QED
    BY <1>5, <1>6, <2>1 DEF orderMoves, timePasses, reviewVars, ReviewsIInv, ReviewsTypeOK
<1>7. ASSUME UNCHANGED <<review, heard>> PROVE RowsStand
  BY <1>7 DEF RowsStand, Written
<1>8. ASSUME NEW s \in Sessions, countReview(s) PROVE ReviewsIInv' /\ RowsStand
  BY <1>7, <1>8, CountHolds DEF countReview
<1>9. ASSUME NEW s \in Sessions, recordReview(s) PROVE ReviewsIInv' /\ RowsStand
  <2>1. \A r \in Written : review'[r] = review[r] /\ r \in Written' /\ heard' = heard
    BY <1>9 DEF recordReview, ReviewsIInv, ReviewsTypeOK, Written
  <2> QED
    BY <1>9, <2>1, RecordHolds DEF RowsStand
<1>10. ASSUME NEW s \in Sessions, respondToReview(s) \/ moderate(s)
       PROVE  ReviewsIInv' /\ (~crossed' => RowsStand)
  BY <1>10, AmendHolds DEF respondToReview, moderate
<1>11. ASSUME NEW s \in Sessions, createReview(s) PROVE ReviewsIInv' /\ UNCHANGED <<review, heard>>
  BY <1>1, <1>11 DEF createReview
<1>12. ASSUME NEW s \in Sessions, notifyAuthor(s) PROVE ReviewsIInv' /\ (~crossed' => RowsStand)
  BY <1>12, NotifyHolds DEF notifyAuthor
<1> QED
  BY <1>2, <1>3, <1>4, <1>6, <1>7, <1>8, <1>9, <1>10, <1>11, <1>12 DEF ReviewsNext, ReviewCalls

\* What the invariant is for.
LEMMA ReviewsIInvImplies ==
    ASSUME ReviewsIInv
    PROVE  ReviewsAreDistinct /\ ReviewsWithinLimit
<1>1. CASE ~crossed
  BY <1>1 DEF ReviewsIInv, ReviewsUncrossed
<1>2. CASE crossed
  <2>1. ReviewsAreDistinct
    BY <1>2 DEF ReviewsIInv, ReviewRows, ReviewsAreDistinct
  <2>2. ASSUME NEW r \in Rows(event)
        PROVE  Cardinality(Within(event, event[r])) <= Limit + Cardinality(Sessions) - 1
    <3>1. event[r] \in Time
      BY EventRows
    <3>2. /\ Cardinality(Within(event, event[r])) \in Nat
          /\ Cardinality(Counted(event[r])) \in Nat /\ Cardinality(Sessions) \in Nat
          /\ Cardinality(Within(event, event[r])) + Cardinality(Counted(event[r])) <=
               Limit + Cardinality(Sessions) - 1
      BY <3>1, EventRows, CountedIsFinite, FS_CardinalityType, SessionsAssumption
         DEF ReviewsIInv, ReviewQuota
    <3> QED
      BY <3>2, LimitAssumption
  <2> QED
    BY <1>2, <2>1, <2>2 DEF ReviewsWithinLimit
<1> QED
  BY <1>1, <1>2

LEMMA ReviewsHalf == Spec => [](ReviewsIInv) /\ [][ReviewsNext]_reviewVars
<1>1. Init => ReviewsIInv
  BY ReviewsInitHolds DEF Init
<1>2. [Next]_<<part, reviewVars, messageVars, roomVars>> => [ReviewsNext]_reviewVars
  BY DEF Next
<1>3. ReviewsIInv /\ [ReviewsNext]_reviewVars => ReviewsIInv'
  BY ReviewsStep
<1> QED
  BY <1>1, <1>2, <1>3, PTL DEF Spec

\* reviews-repository.ts:228: no two reviews of one line ever, however calls
\* cross; no two of the supplier and no repeated body while they do not.
THEOREM ReviewsStayDistinct == Spec => []ReviewsAreDistinct
BY ReviewsHalf, ReviewsIInvImplies, PTL

\* review-machine.ts:24, moderation.ts:18, reviews-repository.ts:306: what may
\* be shown may be for good, a rejected review never may, its author is told once
\* and told what stands, and an answer is final, as long as calls do not cross.
THEOREM VerdictsAreFinal == Spec => VerdictsStand
<1> DEFINE Stands ==
        /\ \A l \in Lines \cup {NoLine} : publishedReviews(l) \subseteq publishedReviews(l)'
        /\ \A r \in Written :
             /\ review[r].status = "REJECTED" => review'[r].status = "REJECTED"
             /\ heard'[r] # heard[r] => heard[r] = {} /\ heard'[r] = {review[r].status}
             /\ review[r].answer # NoAnswer => review'[r].answer = review[r].answer
<1>1. RowsStand => Stands
  BY DEF RowsStand, publishedReviews, Verdicts
<1>2. ReviewsIInv /\ [ReviewsNext]_reviewVars => [~crossed' => Stands]_reviewVars
  <2> SUFFICES ASSUME ReviewsIInv, [ReviewsNext]_reviewVars, ~crossed' PROVE Stands
    OBVIOUS
  <2> HIDE DEF Stands
  <2> QED
    BY <1>1, ReviewsStep
<1> QED
  BY <1>2, ReviewsHalf, PTL DEF VerdictsStand

-----------------------------------------------------------------------------
(* Messages *)

MessageRecord == [thread : Threads \cup {"NONE"}, org : Orgs \cup {"NONE"}, at : Time \cup {NoTime}]
PostRecord == [op : {"IDLE", "POST", "MARK"}, thread : Threads \cup {"NONE"},
               org : Orgs \cup {"NONE"}, at : Time \cup {NoTime}, seen : SUBSET MessageIds]

MessageTypes ==
    /\ open \subseteq Threads
    /\ message \in [MessageIds -> MessageRecord]
    /\ counted \in [MessageIds -> Time \cup {NoTime}]
    /\ cursor \in [Threads \X Readers -> Time \cup {NoTime}]
    /\ shown \in [Threads \X Readers -> SUBSET MessageIds]
    /\ post \in [Callers -> PostRecord]
    /\ mixed \in BOOLEAN /\ now \in Time

\* What a row and a call in flight say, however calls cross.
MessageRows ==
    /\ IsFiniteSet(Posted)
    /\ \A m \in Posted :
         message[m].thread \in open /\ message[m].org \in Orgs /\ message[m].at \in 0..now
    /\ \A m \in MessageIds : counted[m] # NoTime => m \in Posted /\ counted[m] = message[m].at
    /\ \A p \in Threads \X Readers : cursor[p] <= now
    /\ \A c \in Callers : post[c] # NoPost =>
         /\ post[c].op \in {"POST", "MARK"} /\ post[c].thread \in open
         /\ post[c].org \in (IF post[c].op = "MARK" THEN Readers ELSE Orgs)
         /\ post[c].at \in 0..now

PendingOf(org, last) ==
    {c \in Callers : /\ post[c].op = "POST" /\ post[c].org = org
                     /\ last - Window <= post[c].at /\ post[c].at <= last}

PostQuota ==
    \A o \in Orgs, last \in Time :
        Cardinality(Within(CountedOf(o), last)) + Cardinality(PendingOf(o, last)) <=
            Limit + Cardinality(Callers) - 1

\* As long as calls do not cross, what the one in flight read is still so.
MessagesUnmixed ==
    /\ \A c, d \in Callers : post[c] # NoPost /\ post[d] # NoPost => c = d
    /\ \A c \in Callers :
         /\ post[c].op = "POST" =>
              /\ \A m \in MessageIds : counted[m] <= post[c].at
              /\ Cardinality(Within(CountedOf(post[c].org), post[c].at)) < Limit
              /\ \A o \in Readers : cursor[<<post[c].thread, o>>] <= post[c].at
         /\ post[c].op = "MARK" => Inbound(post[c].thread, post[c].org) \subseteq post[c].seen
    /\ \A t \in Threads, o \in Readers : \A m \in Inbound(t, o) \ shown[<<t, o>>] :
         cursor[<<t, o>>] <= message[m].at
    /\ PostsWithinLimit

MessagesIInv ==
    /\ MessageTypes
    /\ MessageRows
    /\ PostQuota
    /\ ~mixed => MessagesUnmixed

-----------------------------------------------------------------------------

\* Of one organization: its rows, the windows over them, the posts on their way.
LEMMA PostWindows ==
    ASSUME MessageTypes, MessageRows, NEW o
    PROVE  /\ CountedOf(o) \in [MessageIds -> Time \cup {NoTime}]
           /\ IsFiniteSet(Rows(CountedOf(o)))
           /\ \A m \in Rows(CountedOf(o)) : /\ m \in Posted /\ message[m].org = o
                                            /\ CountedOf(o)[m] = counted[m] /\ counted[m] \in 0..now
           /\ \A last : /\ Cardinality(Within(CountedOf(o), last)) \in Nat
                        /\ IsFiniteSet(PendingOf(o, last))
                        /\ Cardinality(PendingOf(o, last)) \in 0..Cardinality(Callers)
           /\ Cardinality(Callers) \in Nat
<1>1. CountedOf(o) \in [MessageIds -> Time \cup {NoTime}]
  BY DEF CountedOf, MessageTypes
<1>2. \A m \in Rows(CountedOf(o)) : /\ m \in Posted /\ message[m].org = o
                                    /\ CountedOf(o)[m] = counted[m] /\ counted[m] \in 0..now
  BY DEF CountedOf, Rows, MessageRows
<1>3. IsFiniteSet(Rows(CountedOf(o)))
  BY <1>2, FS_Subset DEF MessageRows
<1>4. \A last : Cardinality(Within(CountedOf(o), last)) \in Nat
  BY <1>3, WithinIsFinite
<1>5. \A last : PendingOf(o, last) \subseteq Callers
  BY DEF PendingOf
<1> QED
  BY <1>1, <1>2, <1>3, <1>4, <1>5, FS_Subset, FS_CardinalityType, CallersAssumption

LEMMA NoPostTyped == NoPost \in PostRecord /\ NoPost.op = "IDLE"
BY DEF NoPost, PostRecord

LEMMA MessagingInitHolds == MessagingInit => MessagesIInv
<1> SUFFICES ASSUME MessagingInit PROVE MessagesIInv
  OBVIOUS
<1> USE DEF MessagingInit
<1>1. NoMessage \in MessageRecord /\ 0 \in Time
  BY MaxTimeAssumption DEF NoMessage, MessageRecord, Time
<1>2. MessageTypes
  BY <1>1, NoPostTyped DEF MessageTypes
<1>3. Posted = {} /\ IsFiniteSet(Posted)
  BY FS_EmptySet DEF Posted
<1>4. \A p \in Threads \X Readers : cursor[p] <= now
  BY DEF NoTime
<1>5. MessageRows
  BY <1>3, <1>4, NoPostTyped DEF MessageRows
<1>6. \A o, last : Within(CountedOf(o), last) = {} /\ PendingOf(o, last) = {}
  BY NoPostTyped DEF Within, Rows, CountedOf, PendingOf
<1>7. PostQuota
  <2>1. Cardinality({}) = 0 /\ Cardinality(Callers) \in Nat
    BY FS_EmptySet, FS_CardinalityType, CallersAssumption
  <2>2. 0 + 0 <= Limit + Cardinality(Callers) - 1
    BY <2>1, LimitAssumption
  <2> QED
    BY <1>6, <2>1, <2>2, Zenon DEF PostQuota
<1>8. MessagesUnmixed
  <2>1. \A o : Rows(CountedOf(o)) = {}
    BY DEF CountedOf, Rows
  <2> QED
    BY <1>3, <2>1, NoPostTyped DEF MessagesUnmixed, PostsWithinLimit, Inbound, In
<1> QED
  BY <1>2, <1>5, <1>7, <1>8 DEF MessagesIInv

\* Calls that did not cross do not cross because one begins, if it is alone.
LEMMA EnterHolds ==
    ASSUME MessagesIInv, NEW c \in Callers, NEW record \in PostRecord, Enter(c, record),
           record.op \in {"POST", "MARK"}, record.thread \in open,
           record.org \in (IF record.op = "MARK" THEN Readers ELSE Orgs), record.at = now,
           record.op = "POST" => RateLimitAllows(CountedOf(record.org), now),
           record.op = "MARK" => record.seen = Inbound(record.thread, record.org)
    PROVE  MessagesIInv'
<1>1. /\ post' = [post EXCEPT ![c] = record] /\ post[c] = NoPost
      /\ mixed' = (mixed \/ \E d \in Callers \ {c} : post[d] # NoPost)
      /\ UNCHANGED <<open, message, counted, cursor, shown, now>>
  BY DEF Enter
<1>2. MessageTypes'
  BY <1>1 DEF MessagesIInv, MessageTypes
<1>3. /\ post'[c] = record /\ \A d \in Callers \ {c} : post'[d] = post[d]
      /\ now \in 0..now /\ now \in Time
  BY <1>1 DEF MessagesIInv, MessageTypes, Time
<1>4. /\ Posted' = Posted /\ \A o : CountedOf(o)' = CountedOf(o)
      /\ \A t, o : Inbound(t, o)' = Inbound(t, o)
  BY <1>1 DEF Posted, CountedOf, Inbound, In
<1>5. MessageRows'
  BY <1>1, <1>3, <1>4 DEF MessagesIInv, MessageRows
<1>6. \A o, last : Within(CountedOf(o), last)' = Within(CountedOf(o), last)
  BY <1>1 DEF Within, Rows, CountedOf
<1>7. ASSUME NEW o \in Orgs, NEW last \in Time
      PROVE  Cardinality(Within(CountedOf(o), last)') + Cardinality(PendingOf(o, last)') <=
               Limit + Cardinality(Callers) - 1
  <2>1. CASE record.op = "POST" /\ record.org = o /\ now <= last
    <3>1. Cardinality(Within(CountedOf(o), now)) < Limit
      BY <2>1 DEF RateLimitAllows
    <3>2. Cardinality(Within(CountedOf(o), last)) <= Cardinality(Within(CountedOf(o), now))
      <4>1. \A m \in Rows(CountedOf(o)) : CountedOf(o)[m] <= now
        BY PostWindows DEF MessagesIInv
      <4> QED
        BY <1>3, <2>1, <4>1, PostWindows, LaterWindow DEF MessagesIInv
    <3>3. PendingOf(o, last)' \subseteq Callers
      BY DEF PendingOf
    <3>4. Cardinality(PendingOf(o, last)') <= Cardinality(Callers)
          /\ Cardinality(PendingOf(o, last)') \in Nat
      BY <3>3, FS_Subset, FS_CardinalityType, CallersAssumption
    <3>5. Cardinality(Within(CountedOf(o), last)) \in Nat /\ Cardinality(Callers) \in Nat
          /\ Cardinality(Within(CountedOf(o), now)) \in Nat
      BY PostWindows DEF MessagesIInv
    <3> QED
      BY <1>6, <3>1, <3>2, <3>4, <3>5, LimitAssumption
  <2>2. CASE ~(record.op = "POST" /\ record.org = o /\ now <= last)
    <3>1. \A d \in Callers : d \in PendingOf(o, last)' <=> d \in PendingOf(o, last)
      BY <1>1, <1>3, <2>2, NoPostTyped DEF PendingOf
    <3>2. PendingOf(o, last)' = PendingOf(o, last)
      BY <3>1 DEF PendingOf
    <3> QED
      BY <1>6, <3>2 DEF MessagesIInv, PostQuota
  <2> QED
    BY <2>1, <2>2
<1>8. ASSUME ~mixed' PROVE MessagesUnmixed'
  <2>1. ~mixed /\ \A d \in Callers \ {c} : post[d] = NoPost
    BY <1>1, <1>8
  <2>2. \A d \in Callers \ {c} : post'[d] = NoPost
    BY <1>3, <2>1
  <2>3. record.op = "POST" =>
          /\ \A m \in MessageIds : counted[m] <= now
          /\ Cardinality(Within(CountedOf(record.org), now)) < Limit
          /\ \A o \in Readers : cursor[<<record.thread, o>>] <= now
    <3>1. ASSUME NEW m \in MessageIds PROVE counted[m] <= now
      <4>1. counted[m] = NoTime \/ counted[m] \in 0..now
        BY DEF MessagesIInv, MessageRows
      <4> QED
        BY <1>3, <4>1 DEF NoTime, Time
    <3>2. record.thread \in Threads
      BY DEF MessagesIInv, MessageTypes
    <3> QED
      BY <3>1, <3>2 DEF MessagesIInv, MessageRows, RateLimitAllows
  <2>4. PostsWithinLimit'
    BY <1>1, <1>4, <1>6, <2>1, <1>8, SMTT(30) DEF MessagesIInv, MessagesUnmixed, PostsWithinLimit, Within, Rows, CountedOf
  <2>5. \A d, e \in Callers : post'[d] # NoPost /\ post'[e] # NoPost => d = e
    BY <2>2
  <2>6. ASSUME NEW d \in Callers
        PROVE  /\ post'[d].op = "POST" =>
                    /\ \A m \in MessageIds : counted[m] <= post'[d].at
                    /\ Cardinality(Within(CountedOf(post'[d].org), post'[d].at)) < Limit
                    /\ \A o \in Readers : cursor[<<post'[d].thread, o>>] <= post'[d].at
               /\ post'[d].op = "MARK" => Inbound(post'[d].thread, post'[d].org) \subseteq post'[d].seen
    <3>1. CASE d = c
      BY <1>3, <2>3, <3>1
    <3>2. CASE d # c
      BY <2>2, <3>2, NoPostTyped
    <3> QED
      BY <3>1, <3>2
  <2>7. (\A t \in Threads, o \in Readers : \A m \in Inbound(t, o) \ shown[<<t, o>>] :
           cursor[<<t, o>>] <= message[m].at)'
    BY <1>1, <1>4, <2>1 DEF MessagesIInv, MessagesUnmixed
  <2>8. ASSUME NEW d \in Callers
        PROVE  (/\ post[d].op = "POST" =>
                     /\ \A m \in MessageIds : counted[m] <= post[d].at
                     /\ Cardinality(Within(CountedOf(post[d].org), post[d].at)) < Limit
                     /\ \A o \in Readers : cursor[<<post[d].thread, o>>] <= post[d].at
                /\ post[d].op = "MARK" => Inbound(post[d].thread, post[d].org) \subseteq post[d].seen)'
    BY <1>1, <2>6, ZenonT(60) DEF Inbound, In, Posted, CountedOf, Within, Rows
  <2> QED
    BY <2>4, <2>5, <2>7, <2>8 DEF MessagesUnmixed
<1> QED
  BY <1>2, <1>5, <1>7, <1>8 DEF MessagesIInv, PostQuota

\* A call that is over leaves what was posted and counted as it is: what it was
\* about to add is no longer to come.
LEMMA PendingEnds ==
    ASSUME MessagesIInv, NEW c \in Callers, Leave(c)
    PROVE  /\ post' \in [Callers -> PostRecord]
           /\ post'[c] = NoPost /\ \A d \in Callers \ {c} : post'[d] = post[d]
           /\ \A o, last : PendingOf(o, last)' = PendingOf(o, last) \ {c}
<1>1. post' = [post EXCEPT ![c] = NoPost] /\ post \in [Callers -> PostRecord]
  BY DEF Leave, MessagesIInv, MessageTypes
<1>2. post'[c] = NoPost /\ \A d \in Callers \ {c} : post'[d] = post[d]
  BY <1>1
<1> QED
  BY <1>1, <1>2, NoPostTyped DEF PendingOf

\* Fewer posts to come and the same counts keep the quota.
LEMMA QuotaShrinks ==
    ASSUME MessagesIInv, NEW c \in Callers, Leave(c), UNCHANGED <<message, counted>>
    PROVE  PostQuota'
<1> SUFFICES ASSUME NEW o \in Orgs, NEW last \in Time
             PROVE  Cardinality(Within(CountedOf(o), last)') + Cardinality(PendingOf(o, last)') <=
                      Limit + Cardinality(Callers) - 1
  BY DEF PostQuota
<1>1. Within(CountedOf(o), last)' = Within(CountedOf(o), last)
  BY DEF Within, Rows, CountedOf
<1>2. /\ IsFiniteSet(PendingOf(o, last)) /\ PendingOf(o, last)' \subseteq PendingOf(o, last)
      /\ Cardinality(Within(CountedOf(o), last)) \in Nat
      /\ Cardinality(PendingOf(o, last)) \in Nat /\ Cardinality(Callers) \in Nat
  BY PendingEnds, PostWindows DEF MessagesIInv
<1>3. /\ Cardinality(PendingOf(o, last)') <= Cardinality(PendingOf(o, last))
      /\ Cardinality(PendingOf(o, last)') \in Nat
  BY <1>2, FS_Subset, FS_CardinalityType
<1> QED
  BY <1>1, <1>2, <1>3, LimitAssumption DEF MessagesIInv, PostQuota

LEMMA RollBackHolds ==
    ASSUME MessagesIInv, NEW c \in Callers, rollBack(c)
    PROVE  MessagesIInv'
<1>1. Leave(c) /\ UNCHANGED <<open, message, counted, cursor, shown, mixed, now>>
  BY DEF rollBack
<1>2. MessageTypes'
  BY <1>1, PendingEnds DEF MessagesIInv, MessageTypes
<1>3. Posted' = Posted
  BY <1>1 DEF Posted
<1>4. MessageRows'
  BY <1>1, <1>3, PendingEnds, NoPostTyped DEF MessagesIInv, MessageRows
<1>5. PostQuota'
  BY <1>1, QuotaShrinks
<1>6. ASSUME ~mixed PROVE MessagesUnmixed'
  <2>1. \A d \in Callers : post'[d] = NoPost
    BY <1>1, <1>6, PendingEnds DEF MessagesIInv, MessagesUnmixed, rollBack
  <2>2. PostsWithinLimit'
    BY <1>1, <1>6 DEF MessagesIInv, MessagesUnmixed, PostsWithinLimit, CountedOf, Within, Rows
  <2>3. (\A t \in Threads, o \in Readers : \A m \in Inbound(t, o) \ shown[<<t, o>>] :
           cursor[<<t, o>>] <= message[m].at)'
    BY <1>1, <1>3, <1>6 DEF MessagesIInv, MessagesUnmixed, Inbound, In
  <2> QED
    BY <2>1, <2>2, <2>3, NoPostTyped DEF MessagesUnmixed
<1> QED
  BY <1>1, <1>2, <1>4, <1>5, <1>6 DEF MessagesIInv

LEMMA MarkHolds ==
    ASSUME MessagesIInv, NEW c \in Callers, markRead(c)
    PROVE  MessagesIInv'
<1> DEFINE p == <<post[c].thread, post[c].org>>
<1>1. /\ p \in Threads \X Readers /\ post[c].op = "MARK" /\ post[c] # NoPost
      /\ post[c].at \in 0..now /\ post[c].seen \subseteq MessageIds
      /\ cursor' = [cursor EXCEPT ![p] = post[c].at]
      /\ shown' = [shown EXCEPT ![p] = post[c].seen]
      /\ Leave(c) /\ UNCHANGED <<open, message, counted, mixed, now>>
  <2>1. post[c] # NoPost /\ post[c].op = "MARK"
    BY NoPostTyped DEF markRead
  <2>2. /\ post[c].thread \in Threads /\ post[c].org \in Readers /\ post[c].at \in 0..now
      /\ post[c].seen \subseteq MessageIds
    BY <2>1 DEF MessagesIInv, MessageRows, MessageTypes, PostRecord
  <2> QED
    BY <2>1, <2>2 DEF markRead
<1>10. post[c].thread = p[1] /\ post[c].org = p[2]
  OBVIOUS
<1> HIDE DEF p
<1>2. now \in Time /\ post[c].at \in Time /\ post[c].at <= now
  BY <1>1, MaxTimeAssumption DEF MessagesIInv, MessageTypes, Time
<1>3. /\ cursor'[p] = post[c].at /\ \A q \in Threads \X Readers : q # p => cursor'[q] = cursor[q]
      /\ shown'[p] = post[c].seen /\ \A q \in Threads \X Readers : q # p => shown'[q] = shown[q]
  BY <1>1 DEF MessagesIInv, MessageTypes
<1>4. MessageTypes'
  BY <1>1, <1>2, PendingEnds DEF MessagesIInv, MessageTypes
<1>5. Posted' = Posted /\ \A t, o : Inbound(t, o)' = Inbound(t, o)
  BY <1>1 DEF Posted, Inbound, In
<1>6. MessageRows'
  <2>1. \A q \in Threads \X Readers : cursor'[q] <= now
    BY <1>2, <1>3 DEF MessagesIInv, MessageRows
  <2> QED
    BY <1>1, <1>5, <2>1, PendingEnds DEF MessagesIInv, MessageRows
<1>7. PostQuota'
  BY <1>1, QuotaShrinks
<1>8. ASSUME ~mixed PROVE MessagesUnmixed'
  <2>1. \A d \in Callers : post'[d] = NoPost
    BY <1>1, <1>8, PendingEnds DEF MessagesIInv, MessagesUnmixed
  <2>2. PostsWithinLimit'
    <3>1. UNCHANGED <<message, counted, mixed>>
      BY <1>1
    <3> QED
      BY <3>1, <1>8 DEF MessagesIInv, MessagesUnmixed, PostsWithinLimit, CountedOf, Within, Rows
  <2>3. ASSUME NEW t \in Threads, NEW o \in Readers, NEW m \in Inbound(t, o), m \notin shown'[<<t, o>>]
        PROVE  cursor'[<<t, o>>] <= message[m].at
    <3>1. CASE <<t, o>> = p
      <4>1. m \in post[c].seen
        BY <1>1, <1>8, <1>10, <3>1 DEF MessagesIInv, MessagesUnmixed
      <4> QED
        BY <1>3, <2>3, <3>1, <4>1
    <3>2. CASE <<t, o>> # p
      BY <1>3, <1>8, <2>3, <3>2 DEF MessagesIInv, MessagesUnmixed
    <3> QED
      BY <3>1, <3>2
  <2>4. (\A t \in Threads, o \in Readers : \A m \in Inbound(t, o) \ shown[<<t, o>>] :
           cursor[<<t, o>>] <= message[m].at)'
    BY <1>1, <1>5, <2>3
  <2> QED
    BY <2>1, <2>2, <2>4, NoPostTyped DEF MessagesUnmixed
<1> QED
  BY <1>1, <1>4, <1>6, <1>7, <1>8 DEF MessagesIInv

\* A message is added for its thread alone.
LEMMA MessageIsAdded ==
    ASSUME MessagesIInv, NEW m \in MessageIds \ Posted,
           NEW row \in [thread : Threads, org : Orgs, at : Time],
           message' = [message EXCEPT ![m] = row]
    PROVE  /\ message' \in [MessageIds -> MessageRecord]
           /\ message'[m] = row /\ \A k \in MessageIds \ {m} : message'[k] = message[k]
           /\ Posted' = Posted \cup {m} /\ IsFiniteSet(Posted') /\ counted[m] = NoTime
           /\ \A s, r : Inbound(s, r)' \subseteq Inbound(s, r) \cup {m}
<1>1. message \in [MessageIds -> MessageRecord]
  BY DEF MessagesIInv, MessageTypes
<1>2. row \in MessageRecord
  BY DEF MessageRecord
<1>3. row # NoMessage
  <2>1. row.at # NoTime
    BY MaxTimeAssumption DEF Time, NoTime
  <2> QED
    BY <2>1 DEF NoMessage
<1>4. /\ message'[m] = row
      /\ \A k \in MessageIds \ {m} : message'[k] = message[k]
      /\ message' \in [MessageIds -> MessageRecord]
  BY <1>1, <1>2
<1>5. Posted' = Posted \cup {m}
  BY <1>3, <1>4 DEF Posted
<1>6. IsFiniteSet(Posted') /\ counted[m] = NoTime
  BY <1>5, FS_AddElement DEF MessagesIInv, MessageRows
<1>7. \A k \in Posted : k # m /\ message'[k] = message[k]
  BY <1>4 DEF Posted
<1>8. ASSUME NEW s, NEW r
      PROVE  Inbound(s, r)' \subseteq Inbound(s, r) \cup {m}
  BY <1>4, <1>5, <1>7 DEF Inbound, In
<1> QED
  BY <1>4, <1>5, <1>6, <1>8

LEMMA StartHolds ==
    ASSUME MessagesIInv, startThread
    PROVE  MessagesIInv'
<1>1. PICK t \in Threads \ open, o \in Orgs, m \in MessageIds \ Posted :
        /\ open' = open \cup {t}
        /\ message' = [message EXCEPT ![m] = [thread |-> t, org |-> o, at |-> now]]
        /\ UNCHANGED <<counted, cursor, shown, post, mixed, now>>
  BY DEF startThread
<1>2. now \in Time /\ now \in 0..now
  BY DEF MessagesIInv, MessageTypes, Time
<1> DEFINE row == [thread |-> t, org |-> o, at |-> now]
<1>10. /\ row \in [thread : Threads, org : Orgs, at : Time]
       /\ row.thread = t /\ row.org = o /\ row.at = now
       /\ message' = [message EXCEPT ![m] = row]
  BY <1>1, <1>2
<1> HIDE DEF row
<1>11. /\ message' \in [MessageIds -> MessageRecord]
       /\ message'[m] = row /\ \A k \in MessageIds \ {m} : message'[k] = message[k]
       /\ Posted' = Posted \cup {m} /\ IsFiniteSet(Posted') /\ counted[m] = NoTime
       /\ \A s, r : /\ Inbound(s, r)' \subseteq Inbound(s, r) \cup {m}
                    /\ s # row.thread => Inbound(s, r)' = Inbound(s, r)
  <2>1. message' \in [MessageIds -> MessageRecord]
    BY <1>10, MessageIsAdded
  <2>2. message'[m] = row /\ \A k \in MessageIds \ {m} : message'[k] = message[k]
    BY <1>10, MessageIsAdded
  <2>3. Posted' = Posted \cup {m} /\ IsFiniteSet(Posted') /\ counted[m] = NoTime
    BY <1>10, MessageIsAdded
  <2>4. ASSUME NEW s, NEW r PROVE Inbound(s, r)' \subseteq Inbound(s, r) \cup {m}
    BY <1>10, MessageIsAdded
  <2>5. ASSUME NEW s, NEW r, s # row.thread PROVE Inbound(s, r)' = Inbound(s, r)
    <3>1. \A k \in Posted : k # m /\ message'[k] = message[k]
      BY <2>2 DEF Posted
    <3> QED
      BY <2>2, <2>3, <2>5, <3>1 DEF Inbound, In
  <2> QED
    BY <2>1, <2>2, <2>3, <2>4, <2>5
<1>3. /\ message' \in [MessageIds -> MessageRecord]
      /\ message'[m].thread = t /\ message'[m].org = o /\ message'[m].at = now
      /\ \A k \in MessageIds \ {m} : message'[k] = message[k]
      /\ Posted' = Posted \cup {m} /\ IsFiniteSet(Posted') /\ counted[m] = NoTime
      /\ \A s, r : /\ Inbound(s, r)' \subseteq Inbound(s, r) \cup {m}
                   /\ s # t => Inbound(s, r)' = Inbound(s, r)
  BY <1>10, <1>11
<1>4. MessageTypes'
  BY <1>1, <1>3 DEF MessagesIInv, MessageTypes
<1>5. MessageRows'
  <2>1. \A k \in Posted : message'[k] = message[k]
    BY <1>3 DEF Posted
  <2>2. \A k \in Posted' :
          message'[k].thread \in open' /\ message'[k].org \in Orgs /\ message'[k].at \in 0..now
    BY <1>1, <1>2, <1>3, <2>1 DEF MessagesIInv, MessageRows
  <2>3. \A k \in MessageIds : counted[k] # NoTime => k \in Posted' /\ counted[k] = message'[k].at
    BY <1>3, <2>1 DEF MessagesIInv, MessageRows
  <2> QED
    BY <1>1, <1>3, <2>2, <2>3 DEF MessagesIInv, MessageRows
<1>6. \A r : CountedOf(r)' = CountedOf(r)
  BY <1>1, <1>3 DEF CountedOf
<1>7. \A r, last : Within(CountedOf(r), last)' = Within(CountedOf(r), last)
  BY <1>6 DEF Within, Rows
<1>8. PostQuota'
  BY <1>1, <1>7 DEF MessagesIInv, PostQuota, PendingOf
<1>9. ASSUME ~mixed PROVE MessagesUnmixed'
  <2>1. ASSUME NEW c \in Callers
        PROVE  /\ post[c].op = "POST" =>
                    /\ \A k \in MessageIds : counted[k] <= post[c].at
                    /\ Cardinality(Within(CountedOf(post[c].org), post[c].at)) < Limit
                    /\ \A r \in Readers : cursor[<<post[c].thread, r>>] <= post[c].at
               /\ post[c].op = "MARK" =>
                    Inbound(post[c].thread, post[c].org) \subseteq post[c].seen /\ post[c].thread # t
    <3>1. post[c].op = "MARK" => post[c].thread # t
      BY <1>1, NoPostTyped DEF MessagesIInv, MessageRows
    <3> QED
      BY <1>9, <3>1 DEF MessagesIInv, MessagesUnmixed
  <2>2. (\A c \in Callers :
           /\ post[c].op = "POST" =>
                /\ \A k \in MessageIds : counted[k] <= post[c].at
                /\ Cardinality(Within(CountedOf(post[c].org), post[c].at)) < Limit
                /\ \A r \in Readers : cursor[<<post[c].thread, r>>] <= post[c].at
           /\ post[c].op = "MARK" => Inbound(post[c].thread, post[c].org) \subseteq post[c].seen)'
    BY <1>1, <1>3, <1>6, <2>1
  <2>3. ASSUME NEW s \in Threads, NEW r \in Readers, NEW k \in Inbound(s, r)', k \notin shown[<<s, r>>]
        PROVE  cursor[<<s, r>>] <= message'[k].at
    <3>1. CASE k = m
      BY <1>3, <3>1 DEF MessagesIInv, MessageRows
    <3>2. CASE k # m
      <4>1. k \in Inbound(s, r) /\ message'[k] = message[k]
        BY <1>3, <3>2 DEF Inbound, In, Posted
      <4> QED
        BY <1>9, <2>3, <4>1 DEF MessagesIInv, MessagesUnmixed
    <3> QED
      BY <3>1, <3>2
  <2>4. (\A s \in Threads, r \in Readers : \A k \in Inbound(s, r) \ shown[<<s, r>>] :
           cursor[<<s, r>>] <= message[k].at)'
    BY <1>1, <2>3
  <2>5. PostsWithinLimit'
    BY <1>1, <1>6, <1>7, <1>9 DEF MessagesIInv, MessagesUnmixed, PostsWithinLimit, Rows, Within
  <2>6. (\A c, d \in Callers : post[c] # NoPost /\ post[d] # NoPost => c = d)'
    BY <1>1, <1>9 DEF MessagesIInv, MessagesUnmixed
  <2> QED
    BY <2>2, <2>4, <2>5, <2>6 DEF MessagesUnmixed
<1> QED
  BY <1>1, <1>4, <1>5, <1>8, <1>9 DEF MessagesIInv

\* A post moves from those on their way to those that count.
LEMMA PostHolds ==
    ASSUME MessagesIInv, NEW c \in Callers, postMessage(c)
    PROVE  MessagesIInv'
<1> DEFINE row == [thread |-> post[c].thread, org |-> post[c].org, at |-> post[c].at]
<1>1. PICK m \in MessageIds \ Posted :
        /\ message' = [message EXCEPT ![m] = row]
        /\ counted' = [counted EXCEPT ![m] = row.at]
  BY DEF postMessage
<1>2. /\ post[c].op = "POST" /\ post[c] # NoPost
      /\ Leave(c) /\ UNCHANGED <<open, cursor, shown, mixed, now>>
  BY NoPostTyped DEF postMessage
<1>3. now \in Time /\ \A at \in 0..now : at \in Time /\ at <= now
  BY MaxTimeAssumption DEF MessagesIInv, MessageTypes, Time
<1>4. /\ row \in [thread : Threads, org : Orgs, at : Time]
      /\ row.thread \in open /\ row.at \in 0..now
      /\ row.thread = post[c].thread /\ row.org = post[c].org /\ row.at = post[c].at
  BY <1>2, <1>3 DEF MessagesIInv, MessageTypes, MessageRows
<1> HIDE DEF row
<1>5. /\ message' \in [MessageIds -> MessageRecord]
      /\ message'[m] = row /\ \A k \in MessageIds \ {m} : message'[k] = message[k]
      /\ Posted' = Posted \cup {m} /\ IsFiniteSet(Posted') /\ counted[m] = NoTime
  BY <1>1, <1>4, MessageIsAdded
<1>6. \A s, r : Inbound(s, r)' \subseteq Inbound(s, r) \cup {m}
  BY <1>1, <1>4, MessageIsAdded
<1>7. /\ counted' \in [MessageIds -> Time \cup {NoTime}]
      /\ counted'[m] = row.at /\ \A k \in MessageIds \ {m} : counted'[k] = counted[k]
  BY <1>1, <1>4 DEF MessagesIInv, MessageTypes
<1>8. MessageTypes'
  BY <1>2, <1>5, <1>7, PendingEnds DEF MessagesIInv, MessageTypes
<1>9. MessageRows'
  <2>1. \A k \in Posted : k # m /\ k \in MessageIds /\ message'[k] = message[k]
    BY <1>5 DEF Posted
  <2>2. \A k \in Posted' :
          message'[k].thread \in open /\ message'[k].org \in Orgs /\ message'[k].at \in 0..now
    BY <1>4, <1>5, <2>1 DEF MessagesIInv, MessageRows
  <2>3. \A k \in MessageIds : counted'[k] # NoTime => k \in Posted' /\ counted'[k] = message'[k].at
    BY <1>5, <1>7, <2>1 DEF MessagesIInv, MessageRows
  <2>4. \A d \in Callers : post'[d] # NoPost =>
          /\ post'[d].op \in {"POST", "MARK"} /\ post'[d].thread \in open
          /\ post'[d].org \in (IF post'[d].op = "MARK" THEN Readers ELSE Orgs)
          /\ post'[d].at \in 0..now
    BY <1>2, PendingEnds DEF MessagesIInv, MessageRows
  <2> QED
    BY <1>2, <1>5, <2>2, <2>3, <2>4 DEF MessagesIInv, MessageRows
<1>10. ASSUME NEW r
       PROVE  /\ CountedOf(r)' \in [MessageIds -> Time \cup {NoTime}]
              /\ CountedOf(r)'[m] = (IF row.org = r THEN row.at ELSE NoTime)
              /\ \A k \in MessageIds \ {m} : CountedOf(r)'[k] = CountedOf(r)[k]
              /\ CountedOf(r)[m] = NoTime
  BY <1>5, <1>7 DEF CountedOf
<1>11. ASSUME NEW r, NEW last \in Time
       PROVE  Cardinality(Within(CountedOf(r)', last)) =
                Cardinality(Within(CountedOf(r), last)) +
                  (IF r = row.org /\ last - Window <= row.at /\ row.at <= last THEN 1 ELSE 0)
  <2>1. /\ CountedOf(r) \in [MessageIds -> Time \cup {NoTime}] /\ IsFiniteSet(Rows(CountedOf(r)))
        /\ Cardinality(Within(CountedOf(r), last)) \in Nat
    BY PostWindows DEF MessagesIInv
  <2>2. CASE r = row.org
    <3>1. CountedOf(r)'[m] = row.at /\ row.at \in Time
      BY <1>4, <1>10, <2>2
    <3> QED
      BY <1>10, <2>1, <2>2, <3>1, WindowGains
  <2>3. CASE r # row.org
    <3>1. CountedOf(r)' = CountedOf(r)
      BY <1>10, <2>1, <2>3
    <3> QED
      BY <2>1, <2>3, <3>1
  <2> QED
    BY <2>2, <2>3
<1>12. PostQuota'
  <2> SUFFICES ASSUME NEW o \in Orgs, NEW last \in Time
               PROVE  Cardinality(Within(CountedOf(o)', last)) + Cardinality(PendingOf(o, last)') <=
                        Limit + Cardinality(Callers) - 1
    BY DEF PostQuota, Within, Rows
  <2>1. /\ Cardinality(Within(CountedOf(o), last)) \in Nat /\ IsFiniteSet(PendingOf(o, last))
        /\ Cardinality(PendingOf(o, last)) \in Nat /\ Cardinality(Callers) \in Nat
        /\ Cardinality(Within(CountedOf(o), last)) + Cardinality(PendingOf(o, last)) <=
             Limit + Cardinality(Callers) - 1
    BY PostWindows DEF MessagesIInv, PostQuota
  <2>2. PendingOf(o, last)' = PendingOf(o, last) \ {c}
    BY <1>2, PendingEnds
  <2>3. CASE o = row.org /\ last - Window <= row.at /\ row.at <= last
    <3>1. c \in PendingOf(o, last)
      BY <1>2, <1>4, <2>3 DEF PendingOf
    <3>2. Cardinality(PendingOf(o, last)') = Cardinality(PendingOf(o, last)) - 1
      BY <2>1, <2>2, <3>1, FS_RemoveElement
    <3> QED
      BY <1>11, <2>1, <2>3, <3>2, LimitAssumption
  <2>4. CASE ~(o = row.org /\ last - Window <= row.at /\ row.at <= last)
    <3>1. c \notin PendingOf(o, last)
      BY <1>4, <2>4 DEF PendingOf
    <3>2. PendingOf(o, last)' = PendingOf(o, last)
      BY <2>2, <3>1
    <3> QED
      BY <1>11, <2>1, <2>4, <3>2, LimitAssumption
  <2> QED
    BY <2>3, <2>4
<1>13. ASSUME ~mixed PROVE MessagesUnmixed'
  <2>1. \A d \in Callers : post'[d] = NoPost
    BY <1>2, <1>13, PendingEnds DEF MessagesIInv, MessagesUnmixed
  <2>2. /\ \A k \in MessageIds : counted[k] <= row.at
        /\ Cardinality(Within(CountedOf(row.org), row.at)) < Limit
        /\ \A o \in Readers : cursor[<<row.thread, o>>] <= row.at
    BY <1>2, <1>4, <1>13 DEF MessagesIInv, MessagesUnmixed
  <2>3. ASSUME NEW t \in Threads, NEW o \in Readers, NEW k \in Inbound(t, o)', k \notin shown[<<t, o>>]
        PROVE  cursor[<<t, o>>] <= message'[k].at
    <3>1. CASE k = m
      <4>1. t = row.thread
        BY <1>5, <3>1 DEF Inbound, In
      <4> QED
        BY <1>5, <2>2, <3>1, <4>1
    <3>2. CASE k # m
      <4>1. k \in Inbound(t, o) /\ message'[k] = message[k]
        BY <1>5, <1>6, <3>2 DEF Inbound, In, Posted
      <4> QED
        BY <1>13, <2>3, <4>1 DEF MessagesIInv, MessagesUnmixed
    <3> QED
      BY <3>1, <3>2
  <2>4. (\A t \in Threads, o \in Readers : \A k \in Inbound(t, o) \ shown[<<t, o>>] :
           cursor[<<t, o>>] <= message[k].at)'
    BY <1>2, <2>3
  <2>5. ASSUME NEW o \in Orgs, NEW k \in Rows(CountedOf(o)')
        PROVE  Cardinality(Within(CountedOf(o)', counted'[k])) <= Limit
    <3>1. /\ \A last : Cardinality(Within(CountedOf(o), last)) \in Nat
          /\ row.at \in Time /\ k \in MessageIds
      BY <1>4, <1>10, PostWindows DEF MessagesIInv, Rows
    <3>2. Cardinality(Within(CountedOf(o)', row.at)) =
            Cardinality(Within(CountedOf(o), row.at)) +
              (IF o = row.org /\ row.at - Window <= row.at /\ row.at <= row.at THEN 1 ELSE 0)
      BY <1>11, <3>1, Zenon
    <3>3. CASE k = m
      <4>1. o = row.org
        BY <1>10, <3>3 DEF Rows
      <4>2. counted'[k] = row.at /\ Cardinality(Within(CountedOf(o), row.at)) < Limit
        BY <1>7, <2>2, <3>3, <4>1
      <4> QED
        BY <3>1, <3>2, <4>2, LimitAssumption
    <3>4. CASE k # m
      <4>1. k \in Rows(CountedOf(o))
        <5>1. CountedOf(o)[k] = CountedOf(o)'[k] /\ CountedOf(o)'[k] # NoTime
          BY <1>10, <3>1, <3>4 DEF Rows
        <5>2. CountedOf(o) \in [MessageIds -> Time \cup {NoTime}]
          BY PostWindows DEF MessagesIInv
        <5> QED
          BY <3>1, <5>1, <5>2 DEF Rows
      <4>2. /\ counted'[k] = counted[k] /\ counted[k] \in Time /\ counted[k] <= row.at
            /\ Cardinality(Within(CountedOf(o), counted[k])) <= Limit
        BY <1>3, <1>7, <1>13, <2>2, <3>1, <3>4, <4>1, PostWindows
           DEF MessagesIInv, MessagesUnmixed, PostsWithinLimit
      <4>3. CASE o = row.org /\ counted[k] = row.at
        <5>1. Cardinality(Within(CountedOf(o), row.at)) < Limit
          BY <2>2, <4>3
        <5> QED
          BY <3>1, <3>2, <4>2, <4>3, <5>1, LimitAssumption
      <4>4. CASE ~(o = row.org /\ counted[k] = row.at)
        <5>1. ~(o = row.org /\ counted[k] - Window <= row.at /\ row.at <= counted[k])
          BY <3>1, <4>2, <4>4 DEF Time
        <5>2. Cardinality(Within(CountedOf(o)', counted[k])) =
                Cardinality(Within(CountedOf(o), counted[k])) + 0
          BY <1>11, <4>2, <5>1
        <5> QED
          BY <3>1, <4>2, <5>2, LimitAssumption
      <4> QED
        BY <4>3, <4>4
    <3> QED
      BY <3>3, <3>4
  <2>6. PostsWithinLimit'
    BY <1>2, <1>13, <2>5 DEF PostsWithinLimit, Rows, Within
  <2> QED
    BY <2>1, <2>4, <2>6, NoPostTyped DEF MessagesUnmixed
<1> QED
  BY <1>2, <1>8, <1>9, <1>12, <1>13 DEF MessagesIInv

LEMMA MessagingStep ==
    ASSUME MessagesIInv, [MessagingNext]_messageVars
    PROVE  MessagesIInv'
<1>1. ASSUME NEW c \in Callers, beginPost(c) PROVE MessagesIInv'
  <2>1. PICK t \in open, o \in Orgs :
          /\ RateLimitAllows(CountedOf(o), now)
          /\ Enter(c, [NoPost EXCEPT !.op = "POST", !.thread = t, !.org = o, !.at = now])
    BY <1>1 DEF beginPost
  <2> DEFINE record == [NoPost EXCEPT !.op = "POST", !.thread = t, !.org = o, !.at = now]
  <2>2. t \in Threads /\ now \in Time
    BY DEF MessagesIInv, MessageTypes
  <2>3. /\ record \in PostRecord /\ record.op = "POST" /\ record.thread = t
        /\ record.org = o /\ record.at = now
    BY <2>2 DEF NoPost, PostRecord
  <2> HIDE DEF record
  <2>4. Enter(c, record)
    BY <2>1 DEF record
  <2> QED
    BY <2>1, <2>3, <2>4, EnterHolds
<1>2. ASSUME NEW c \in Callers, beginMark(c) PROVE MessagesIInv'
  <2>1. PICK t \in open, o \in Readers :
          Enter(c, [op |-> "MARK", thread |-> t, org |-> o, at |-> now, seen |-> Inbound(t, o)])
    BY <1>2 DEF beginMark
  <2> DEFINE record == [op |-> "MARK", thread |-> t, org |-> o, at |-> now, seen |-> Inbound(t, o)]
  <2>2. t \in Threads /\ now \in Time /\ o \in Orgs /\ Inbound(t, o) \subseteq MessageIds
    BY ReadersAssumption DEF MessagesIInv, MessageTypes, Inbound, In, Posted
  <2>3. /\ record \in PostRecord /\ record.op = "MARK" /\ record.thread = t
        /\ record.org = o /\ record.at = now /\ record.seen = Inbound(t, o)
    BY <2>2 DEF PostRecord
  <2> HIDE DEF record
  <2>4. Enter(c, record)
    BY <2>1 DEF record
  <2> QED
    BY <2>3, <2>4, EnterHolds
<1>3. ASSUME clockTicks \/ UNCHANGED messageVars PROVE MessagesIInv'
  <2>1. UNCHANGED <<open, message, counted, cursor, shown, post, mixed>>
    BY <1>3 DEF clockTicks, messageVars
  <2>2. now \in Time /\ now' \in Time /\ now <= now'
    BY <1>3, HorizonAssumption, MaxTimeAssumption
       DEF clockTicks, messageVars, MessagesIInv, MessageTypes, Time
  <2>3. Posted' = Posted
    BY <2>1 DEF Posted
  <2>4. \A at \in 0..now : at \in 0..now'
    BY <2>2 DEF Time
  <2>5. \A p \in Threads \X Readers : cursor[p] <= now'
    BY <2>2 DEF MessagesIInv, MessageTypes, MessageRows, Time, NoTime
  <2>6. MessageRows'
    BY <2>1, <2>3, <2>4, <2>5 DEF MessagesIInv, MessageRows
  <2>7. PostQuota'
    BY <2>1 DEF MessagesIInv, PostQuota, PendingOf, CountedOf, Within, Rows
  <2>8. (~mixed => MessagesUnmixed)'
    BY <2>1, <2>3, SMTT(30) DEF MessagesIInv, MessagesUnmixed, PostsWithinLimit, Inbound, In,
                      CountedOf, Within, Rows
  <2>9. MessageTypes'
    BY <2>1, <2>2 DEF MessagesIInv, MessageTypes
  <2> QED
    BY <2>6, <2>7, <2>8, <2>9 DEF MessagesIInv
<1> QED
  BY <1>1, <1>2, <1>3, StartHolds, PostHolds, MarkHolds, RollBackHolds
     DEF MessagingNext, MessageCalls

\* The earliest cursor of a page comes no later than any other.
LEMMA EarliestIsFirst ==
    ASSUME MessageTypes, NEW page \in SUBSET Threads, NEW t \in page, NEW o \in Readers,
           cursor[<<t, o>>] # NoTime
    PROVE  /\ Earliest(page, o) \in Time
           /\ \E s \in page : cursor[<<s, o>>] # NoTime /\ cursor[<<s, o>>] = Earliest(page, o)
           /\ \A s \in page : cursor[<<s, o>>] # NoTime => Earliest(page, o) <= cursor[<<s, o>>]
<1> DEFINE at == {cursor[<<s, o>>] : s \in page} \ {NoTime}
<1>1. at \subseteq Time /\ cursor[<<t, o>>] \in at
  BY DEF MessageTypes
<1>2. Time \subseteq Nat
  BY MaxTimeAssumption DEF Time
<1>3. Earliest(page, o) = Min(at)
  BY <1>1 DEF Earliest
<1> HIDE DEF at
<1>4. PICK x \in at : \A y \in at : ~(<<y, x>> \in OpToRel(<, Nat))
  BY <1>1, <1>2, WFMin, NatLessThanWellFounded
<1>5. ASSUME NEW y \in at PROVE x <= y
  <2>1. x \in Nat /\ y \in Nat
    BY <1>1, <1>2
  <2>2. ~(y < x)
    <3>1. OpToRel(<, Nat) = {ss \in Nat \X Nat : ss[1] < ss[2]}
      BY DEF OpToRel
    <3>2. y < x => <<y, x>> \in {ss \in Nat \X Nat : ss[1] < ss[2]}
      BY <2>1
    <3>3. ~(<<y, x>> \in {ss \in Nat \X Nat : ss[1] < ss[2]})
      BY <1>4, <3>1, Zenon
    <3> QED
      BY <3>2, <3>3
  <2> QED
    BY <2>1, <2>2
<1>6. Min(at) \in at /\ \A y \in at : Min(at) <= y
  BY <1>4, <1>5 DEF Min
<1>7. \A s \in page : cursor[<<s, o>>] # NoTime => cursor[<<s, o>>] \in at
  BY DEF at
<1>8. \A y \in at : \E s \in page : cursor[<<s, o>>] # NoTime /\ cursor[<<s, o>>] = y
  BY DEF at
<1> QED
  BY <1>1, <1>3, <1>6, <1>7, <1>8

\* Time and then the id put the messages of a thread in a row.
LEMMA MessagesInARow ==
    ASSUME MessagesIInv, NEW t
    PROVE  /\ IsFiniteSet(In(t))
           /\ \A m, k \in In(t) : /\ Newer(k, m) <=> Before(m, k)
                                  /\ m = k \/ Newer(m, k) \/ Newer(k, m)
                                  /\ ~(Newer(m, k) /\ Newer(k, m)) /\ ~Newer(m, m)
           /\ \A m, k, j \in In(t) : Newer(m, k) /\ Newer(k, j) => Newer(m, j)
<1>1. In(t) \subseteq Posted
  BY DEF In
<1>2. IsFiniteSet(In(t))
  BY <1>1, FS_Subset DEF MessagesIInv, MessageTypes, MessageRows
<1>3. \A m \in In(t) : m \in Nat /\ message[m].at \in Int
  <2> TAKE m \in In(t)
  <2>1. m \in Posted /\ m \in MessageIds
    BY <1>1 DEF Posted
  <2> QED
    BY <2>1, MessageIdsAssumption DEF MessagesIInv, MessageTypes, MessageRows
<1>4. ASSUME NEW m \in In(t), NEW k \in In(t)
      PROVE  /\ Newer(k, m) <=> Before(m, k)
             /\ m = k \/ Newer(m, k) \/ Newer(k, m)
             /\ ~(Newer(m, k) /\ Newer(k, m)) /\ ~Newer(m, m)
  BY <1>3 DEF Newer, Before
<1>5. ASSUME NEW m \in In(t), NEW k \in In(t), NEW j \in In(t), Newer(m, k), Newer(k, j)
      PROVE  Newer(m, j)
  BY <1>3, <1>5 DEF Newer
<1> QED
  BY <1>2, <1>4, <1>5

\* A page takes the newest of the rows, and the cursor that its oldest gives
\* leaves the rest.
LEMMA PageTakesTheNewest ==
    ASSUME MessagesIInv, NEW t, NEW rows \in SUBSET In(t), rows # {},
           \A k \in rows : \A m \in In(t) : Before(m, k) => m \in rows
    PROVE  /\ Cardinality(rows) <= PageSize => FirstPage(rows) = rows
           /\ FirstPage(rows) # {} /\ Oldest(FirstPage(rows)) \in In(t)
           /\ {m \in In(t) : Before(m, Oldest(FirstPage(rows)))} = rows \ FirstPage(rows)
<1> DEFINE newer(m) == {k \in rows : Newer(k, m)}
           page == FirstPage(rows)
           last == Oldest(page)
<1>1. IsFiniteSet(rows) /\ \A m \in rows : m \in In(t)
  BY MessagesInARow, FS_Subset
<1>2. \A m \in rows : IsFiniteSet(newer(m)) /\ Cardinality(newer(m)) \in Nat
  <2> TAKE m \in rows
  <2>1. newer(m) \subseteq rows
    OBVIOUS
  <2> QED
    BY <1>1, <2>1, FS_Subset, FS_CardinalityType
<1>3. page = {m \in rows : Cardinality(newer(m)) < PageSize}
  BY DEF FirstPage
<1>4. ASSUME NEW m \in page, NEW k \in rows, Newer(k, m) PROVE k \in page
  <2>1. newer(k) \subseteq newer(m)
    BY <1>1, <1>3, <1>4, MessagesInARow
  <2>2. Cardinality(newer(k)) <= Cardinality(newer(m))
    BY <1>2, <1>3, <2>1, FS_Subset
  <2> HIDE DEF newer, page
  <2>3. m \in rows /\ Cardinality(newer(m)) < PageSize
    BY <1>3, <1>4
  <2>4. Cardinality(newer(k)) < PageSize
    BY <1>2, <2>2, <2>3, PageSizeAssumption
  <2> QED
    BY <1>3, <2>4
<1>5. page # {}
  <2> DEFINE R == {p \in rows \X rows : Newer(p[1], p[2])}
  <2>1. \A k, m \in rows : <<k, m>> \in R <=> Newer(k, m)
    OBVIOUS
  <2> HIDE DEF R
  <2>2. /\ \A x \in rows : <<x, x>> \notin R
        /\ \A x, y, z \in rows : <<x, y>> \in R /\ <<y, z>> \in R => <<x, z>> \in R
    BY <1>1, <2>1, MessagesInARow
  <2>3. PICK x \in rows : \A y \in rows : <<y, x>> \notin R
    BY <1>1, <2>2, FirstOfFinite
  <2>4. newer(x) = {}
    BY <2>1, <2>3
  <2>5. Cardinality(newer(x)) = 0
    BY <2>4, FS_EmptySet
  <2> QED
    BY <1>3, <2>5, PageSizeAssumption
<1>6. /\ last \in page /\ \A k \in page \ {last} : Newer(k, last)
  <2>1. IsFiniteSet(page) /\ page \subseteq rows
    BY <1>1, <1>3, FS_Subset
  <2> DEFINE R == {p \in page \X page : Newer(p[2], p[1])}
  <2>2. \A k, m \in page : <<k, m>> \in R <=> Newer(m, k)
    OBVIOUS
  <2> HIDE DEF R, page
  <2>3. \A m \in page : m \in In(t)
    BY <1>1, <2>1
  <2>4. /\ \A x \in page : <<x, x>> \notin R
        /\ \A x, y, z \in page : <<x, y>> \in R /\ <<y, z>> \in R => <<x, z>> \in R
    BY <2>2, <2>3, MessagesInARow
  <2>5. PICK x \in page : \A y \in page : <<y, x>> \notin R
    BY <1>5, <2>1, <2>4, FirstOfFinite
  <2>6. \A k \in page \ {x} : Newer(k, x)
    BY <2>2, <2>3, <2>5, MessagesInARow
  <2> QED
    BY <2>6 DEF Oldest
<1>7. ASSUME Cardinality(rows) <= PageSize PROVE page = rows
  <2> SUFFICES ASSUME NEW m \in rows PROVE Cardinality(newer(m)) < PageSize
    BY <1>3
  <2>1. newer(m) \subseteq rows /\ m \notin newer(m)
    BY <1>1, MessagesInARow
  <2>2. Cardinality(newer(m)) <= Cardinality(rows) /\ Cardinality(newer(m)) # Cardinality(rows)
    BY <1>1, <2>1, FS_Subset
  <2>3. Cardinality(rows) \in Nat
    BY <1>1, FS_CardinalityType
  <2> QED
    BY <1>2, <1>7, <2>2, <2>3, PageSizeAssumption
<1>8. last \in rows /\ last \in In(t)
  BY <1>1, <1>3, <1>6
<1>9. ASSUME NEW m \in In(t) PROVE Before(m, last) <=> m \in rows /\ m \notin page
  <2> HIDE DEF page, last
  <2>1. ASSUME Before(m, last) PROVE m \in rows /\ m \notin page
    <3>1. m \in rows
      BY <1>8, <2>1
    <3>2. Newer(last, m) /\ ~Newer(m, last) /\ m # last
      BY <1>8, <2>1, MessagesInARow
    <3> QED
      BY <1>6, <3>1, <3>2
  <2>2. ASSUME m \in rows, m \notin page PROVE Before(m, last)
    <3>1. ~Newer(m, last) /\ m # last
      BY <1>4, <1>6, <2>2
    <3> QED
      BY <1>8, <3>1, MessagesInARow
  <2> QED
    BY <2>1, <2>2
<1>10. \A m \in rows : m \in In(t)
  BY <1>1
<1> HIDE DEF page, last, newer
<1>11. {m \in In(t) : Before(m, last)} = rows \ page
  BY <1>9, <1>10
<1> QED
  BY <1>5, <1>7, <1>8, <1>11 DEF page, last

\* The pages of a thread, one after the other, as the recursion makes them.
LEMMA PagesFollow ==
    ASSUME MessagesIInv, NEW t
    PROVE  LET n == Cardinality(In(t))
               left == After(t)
           IN  /\ n \in Nat /\ left[0] = In(t)
               /\ \A i \in 1..n : left[i] =
                    IF Cardinality(left[i - 1]) > PageSize
                    THEN {m \in In(t) : Before(m, Oldest(FirstPage(left[i - 1])))} ELSE {}
<1> DEFINE n == Cardinality(In(t))
           Rest(before) == IF Cardinality(before) > PageSize
                           THEN {m \in In(t) : Before(m, Oldest(FirstPage(before)))} ELSE {}
           Pages(g, k) == g = [i \in 0..k |-> IF i = 0 THEN In(t) ELSE Rest(g[i - 1])]
           S == {k \in Nat : \E g : Pages(g, k)}
           left[i \in 0..n] == IF i = 0 THEN In(t) ELSE Rest(left[i - 1])
<1>1. n \in Nat
  BY MessagesInARow, FS_CardinalityType
<1>2. After(t) = left
  BY DEF After
<1> HIDE DEF n, Rest
<1>3. 0 \in S
  <2>1. Pages([i \in 0..0 |-> In(t)], 0)
    OBVIOUS
  <2> QED
    BY <2>1
<1>4. ASSUME NEW k \in Nat, k \in S PROVE k + 1 \in S
  <2>1. PICK g : Pages(g, k)
    BY <1>4
  <2> DEFINE h == [i \in 0..(k + 1) |-> IF i = k + 1 THEN Rest(g[k]) ELSE g[i]]
  <2>2. Pages(h, k + 1)
    BY <2>1
  <2> HIDE DEF h, Pages
  <2> QED
    BY <2>2
<1>5. n \in S
  <2> HIDE DEF S
  <2> QED
    BY <1>1, <1>3, <1>4, SetInduction
<1>6. left = [i \in 0..n |-> IF i = 0 THEN In(t) ELSE Rest(left[i - 1])]
  BY <1>5
<1> HIDE DEF left
<1>7. left[0] = In(t) /\ \A i \in 1..n : left[i] = Rest(left[i - 1])
  BY <1>1, <1>6
<1> QED
  BY <1>1, <1>2, <1>7 DEF n, Rest

\* Whatever a thread holds and however times tie, its pages, turned one after
\* another from the newest, show each of its messages once.
LEMMA PagesAreComplete ==
    ASSUME MessagesIInv
    PROVE  PagesShowEverything
<1> SUFFICES ASSUME NEW t \in open
             PROVE  /\ After(t)[Cardinality(In(t))] = {}
                    /\ \A i \in 1..Cardinality(In(t)) : After(t)[i - 1] # {} =>
                         /\ FirstPage(After(t)[i - 1]) = After(t)[i - 1] \ After(t)[i]
                         /\ After(t)[i] \subseteq After(t)[i - 1]
  BY DEF PagesShowEverything
<1> DEFINE n == Cardinality(In(t))
           left == After(t)
           Sound(i) == /\ left[i] \subseteq In(t)
                       /\ \A k \in left[i] : \A m \in In(t) : Before(m, k) => m \in left[i]
                       /\ left[i] # {} => Cardinality(left[i]) <= n - i
           S == {i \in Nat : i <= n => Sound(i)}
<1>1. /\ n \in Nat /\ left[0] = In(t)
      /\ \A i \in 1..n : left[i] =
           IF Cardinality(left[i - 1]) > PageSize
           THEN {m \in In(t) : Before(m, Oldest(FirstPage(left[i - 1])))} ELSE {}
  BY PagesFollow
<1> HIDE DEF n, left
<1>2. ASSUME NEW i \in 1..n, Sound(i - 1), left[i - 1] # {}
      PROVE  /\ FirstPage(left[i - 1]) = left[i - 1] \ left[i]
             /\ left[i] \subseteq left[i - 1] /\ Sound(i)
  <2> DEFINE rows == left[i - 1]
             last == Oldest(FirstPage(rows))
  <2>1. /\ rows \in SUBSET In(t) /\ rows # {} /\ IsFiniteSet(rows)
        /\ \A k \in rows : \A m \in In(t) : Before(m, k) => m \in rows
        /\ Cardinality(rows) \in Nat /\ Cardinality(rows) <= n - (i - 1)
    BY <1>2, MessagesInARow, FS_Subset, FS_CardinalityType
  <2> HIDE DEF rows, last
  <2>2. /\ Cardinality(rows) <= PageSize => FirstPage(rows) = rows
        /\ FirstPage(rows) # {} /\ last \in In(t)
        /\ {m \in In(t) : Before(m, last)} = rows \ FirstPage(rows)
    BY <2>1, PageTakesTheNewest DEF last
  <2>3. FirstPage(rows) \subseteq rows
    BY DEF FirstPage
  <2>4. left[i] = IF Cardinality(rows) > PageSize THEN {m \in In(t) : Before(m, last)} ELSE {}
    BY <1>1 DEF rows, last
  <2>5. FirstPage(rows) = rows \ left[i] /\ left[i] \subseteq rows
    BY <2>1, <2>2, <2>3, <2>4, PageSizeAssumption
  <2>6. \A k \in left[i] : \A m \in In(t) : Before(m, k) => m \in left[i]
    BY <2>1, <2>2, <2>4, MessagesInARow
  <2>7. left[i] # {} => Cardinality(left[i]) <= n - i
    <3>1. left[i] # rows
      BY <2>2, <2>3, <2>5
    <3>2. /\ Cardinality(left[i]) <= Cardinality(rows) /\ Cardinality(left[i]) # Cardinality(rows)
          /\ Cardinality(left[i]) \in Nat
      BY <2>1, <2>5, <3>1, FS_Subset, FS_CardinalityType
    <3> QED
      BY <1>1, <2>1, <3>2
  <2> QED
    BY <2>1, <2>5, <2>6, <2>7 DEF rows
<1>3. 0 \in S
  BY <1>1 DEF n
<1>4. ASSUME NEW i \in Nat, i \in S PROVE i + 1 \in S
  <2> SUFFICES ASSUME i + 1 <= n PROVE Sound(i + 1)
    OBVIOUS
  <2>1. i + 1 \in 1..n /\ (i + 1) - 1 = i /\ Sound(i)
    BY <1>1, <1>4
  <2>2. CASE left[i] # {}
    BY <1>2, <2>1, <2>2
  <2>3. CASE left[i] = {}
    <3>1. ~(Cardinality(left[i]) > PageSize)
      BY <2>3, FS_EmptySet, PageSizeAssumption
    <3>2. left[i + 1] = {}
      BY <1>1, <2>1, <3>1
    <3> QED
      BY <3>2
  <2> QED
    BY <2>2, <2>3
<1>5. \A i \in 0..n : Sound(i)
  <2> HIDE DEF Sound
  <2>1. Nat \subseteq S
    <3> HIDE DEF S
    <3> QED
      BY <1>3, <1>4, SetInduction
  <2> QED
    BY <1>1, <2>1
<1>6. left[n] = {}
  <2>1. Sound(n)
    BY <1>1, <1>5
  <2>2. IsFiniteSet(left[n]) /\ Cardinality(left[n]) \in Nat
    BY <2>1, MessagesInARow, FS_Subset, FS_CardinalityType
  <2> QED
    BY <1>1, <2>1, <2>2, FS_EmptySet
<1>7. \A i \in 1..n : left[i - 1] # {} =>
        FirstPage(left[i - 1]) = left[i - 1] \ left[i] /\ left[i] \subseteq left[i - 1]
  <2> HIDE DEF Sound
  <2>1. \A i \in 1..n : i - 1 \in 0..n
    BY <1>1
  <2> QED
    BY <1>2, <1>5, <2>1
<1> QED
  BY <1>6, <1>7 DEF n, left

LEMMA MessagesIInvImplies ==
    ASSUME MessagesIInv
    PROVE  PostsWithinLimit /\ UnreadIsCounted
<1>1. PostsWithinLimit
  <2>1. CASE ~mixed
    BY <2>1 DEF MessagesIInv, MessagesUnmixed
  <2>2. CASE mixed
    <3>1. ASSUME NEW o \in Orgs, NEW m \in Rows(CountedOf(o))
          PROVE  Cardinality(Within(CountedOf(o), counted[m])) <= Limit + Cardinality(Callers) - 1
      <4>1. counted[m] \in Time
        BY PostWindows, MaxTimeAssumption DEF MessagesIInv, MessageTypes, Time
      <4>2. /\ Cardinality(Within(CountedOf(o), counted[m])) \in Nat
            /\ Cardinality(PendingOf(o, counted[m])) \in Nat /\ Cardinality(Callers) \in Nat
            /\ Cardinality(Within(CountedOf(o), counted[m])) + Cardinality(PendingOf(o, counted[m])) <=
                 Limit + Cardinality(Callers) - 1
        BY <4>1, PostWindows DEF MessagesIInv, PostQuota
      <4> QED
        BY <4>2, LimitAssumption
    <3> QED
      BY <2>2, <3>1 DEF PostsWithinLimit
  <2> QED
    BY <2>1, <2>2
<1>2. ASSUME NEW t \in open, NEW o \in Readers, ~mixed, NEW m \in Inbound(t, o) \ shown[<<t, o>>]
      PROVE  m \in SummaryUnread(t, o) \/ message[m].at = cursor[<<t, o>>]
  <2>1. cursor[<<t, o>>] <= message[m].at
    BY <1>2 DEF MessagesIInv, MessagesUnmixed, MessageTypes
  <2>2. message[m].at \in 0..now /\ cursor[<<t, o>>] \in Time \cup {NoTime}
    BY DEF MessagesIInv, MessageTypes, MessageRows, Inbound, In
  <2>3. message[m].at > cursor[<<t, o>>] \/ message[m].at = cursor[<<t, o>>]
    BY <2>1, <2>2, MaxTimeAssumption DEF Time, NoTime
  <2> QED
    BY <2>3 DEF SummaryUnread
<1>3. ASSUME NEW t \in open, NEW o \in Readers, NEW page \in SUBSET open, t \in page
      PROVE  ListUnread(page, t, o) = SummaryUnread(t, o) \ NotListed(page, t, o)
  <2> DEFINE marked == {u \in page : cursor[<<u, o>>] # NoTime}
             at(u) == cursor[<<u, o>>]
  <2>1. page \in SUBSET Threads /\ \A u \in page : at(u) \in Time \cup {NoTime}
    BY <1>3 DEF MessagesIInv, MessageTypes
  <2>2. /\ \A m \in Inbound(t, o) : message[m].at \in Nat /\ message[m].at > NoTime
        /\ Time \subseteq Nat
    BY MaxTimeAssumption DEF MessagesIInv, MessageRows, Inbound, In, Time, NoTime
  <2>3. NotListed(page, t, o) =
          IF t \in marked \/ marked = {} THEN {}
          ELSE {m \in Inbound(t, o) : \A u \in marked : message[m].at <= at(u)}
    BY DEF NotListed
  <2>4. CASE marked = {}
    <3>1. {cursor[<<u, o>>] : u \in page} \ {NoTime} = {}
      BY <2>4
    <3>2. Earliest(page, o) = NoTime
      BY <3>1 DEF Earliest
    <3> QED
      BY <2>2, <2>3, <2>4, <3>2 DEF ListUnread, SummaryUnread
  <2>5. CASE marked # {}
    <3>1. PICK w \in page : at(w) # NoTime
      BY <2>5
    <3>2. /\ Earliest(page, o) \in Time
          /\ \E u \in page : at(u) # NoTime /\ at(u) = Earliest(page, o)
          /\ \A u \in page : at(u) # NoTime => Earliest(page, o) <= at(u)
      BY <2>1, <3>1, EarliestIsFirst DEF MessagesIInv
    <3>3. \A u \in marked : at(u) \in Time /\ Earliest(page, o) <= at(u)
      BY <2>1, <3>2
    <3>4. PICK e \in marked : at(e) = Earliest(page, o)
      BY <3>2
    <3>5. CASE t \in marked
      <4>1. NotListed(page, t, o) = {}
        BY <2>3, <3>5
      <4>2. ASSUME NEW m \in Inbound(t, o), message[m].at > at(t)
            PROVE  message[m].at > Earliest(page, o)
        <5>1. at(t) \in Nat /\ Earliest(page, o) \in Nat /\ Earliest(page, o) <= at(t)
          BY <2>2, <3>2, <3>3, <3>5
        <5>2. message[m].at \in Nat
          BY <2>2, <4>2
        <5> HIDE DEF at
        <5> QED
          BY <4>2, <5>1, <5>2
      <4> QED
        BY <4>1, <4>2 DEF ListUnread, SummaryUnread
    <3>6. CASE t \notin marked
      <4>1. at(t) = NoTime
        BY <1>3, <3>6
      <4>2. NotListed(page, t, o) =
              {m \in Inbound(t, o) : \A u \in marked : message[m].at <= at(u)}
        BY <2>3, <2>5, <3>6
      <4> HIDE DEF marked, at
      <4>3. ASSUME NEW m \in Inbound(t, o)
            PROVE  (\A u \in marked : message[m].at <= at(u)) <=> ~(message[m].at > Earliest(page, o))
        <5>1. message[m].at \in Nat /\ Earliest(page, o) \in Nat /\ \A u \in marked : at(u) \in Nat
          BY <2>2, <3>2, <3>3, <4>3
        <5> QED
          BY <3>3, <3>4, <5>1
      <4>4. SummaryUnread(t, o) = Inbound(t, o)
        BY <2>2, <4>1 DEF SummaryUnread, at
      <4>5. ListUnread(page, t, o) = {m \in Inbound(t, o) : message[m].at > Earliest(page, o)}
        BY <2>2, <4>1 DEF ListUnread, at
      <4> QED
        BY <4>2, <4>3, <4>4, <4>5
    <3> QED
      BY <3>5, <3>6
  <2> QED
    BY <2>4, <2>5
<1> QED
  BY <1>1, <1>2, <1>3 DEF UnreadIsCounted

LEMMA MessagesHalf == Spec => []MessagesIInv
<1>1. Init => MessagesIInv
  BY MessagingInitHolds DEF Init
<1>2. [Next]_<<part, reviewVars, messageVars, roomVars>> => [MessagingNext]_messageVars
  BY DEF Next
<1>3. MessagesIInv /\ [MessagingNext]_messageVars => MessagesIInv'
  BY MessagingStep
<1> QED
  BY <1>1, <1>2, <1>3, PTL DEF Spec

\* fraud.ts:54, for reviews and for messages: no window holds more than the
\* limit as long as calls do not cross, and at most one more for each other
\* call when they do.
THEOREM LimitsHold == Spec => []AcceptedWithinLimit
<1>1. ReviewsIInv /\ MessagesIInv => AcceptedWithinLimit
  BY ReviewsIInvImplies, MessagesIInvImplies DEF AcceptedWithinLimit
<1> QED
  BY <1>1, ReviewsHalf, MessagesHalf, PTL

\* messaging-repository.ts:335 and 389: what was not seen is unread in the header
\* of its thread, the list of threads leaves out of that what the cursors of a
\* page are past in a thread never marked, and nothing else, and page after page
\* shows every message of a thread once, ties of time included.
THEOREM NothingMissed == Spec => []NothingIsMissed
<1>1. MessagesIInv => NothingIsMissed
  BY MessagesIInvImplies, PagesAreComplete DEF NothingIsMissed
<1> QED
  BY <1>1, MessagesHalf, PTL

-----------------------------------------------------------------------------
(* The room of a dispute *)

Talks == {"respond", "attachEvidence", "startReview", "withdraw", "resolve", "console"}
People == {"buyer", "supplier"} \cup Mediators

VisitTo == [call : Talks, read : DisputeStatus, overtaken : BOOLEAN, resolver : People \cup {Nobody}]
Signing == [call : {"sign", "notify"}, resolver : People, to : Outcomes]
ClosingRecord == [resolver : People \cup {Nobody}, to : OrderStatus, moved : BOOLEAN]

RoomTypes ==
    /\ room \in [status : DisputeStatus, preOrderStatus : OpenedFrom,
                 outcome : Outcomes \cup {Nobody}, resolvedBy : People \cup {Nobody}]
    /\ orderIs \in OrderStatus
    /\ trail \in Seq([kind : Talks, after : Nat])
    /\ told \subseteq Outcomes
    /\ visit \in [Visitors -> {Outside} \cup VisitTo \cup Signing]
    /\ closed \in Seq(ClosingRecord)
    /\ late \subseteq {"talk", "closing"}

\* A call that no closing overtook found the dispute open, and whoever signs or
\* tells has closed it.
VisitsAreSound ==
    \A v \in Visitors :
        /\ visit[v].call \in Talks =>
             /\ visit[v].call \in {"resolve", "console"} =>
                  visit[v].resolver # Nobody /\ (visit[v].overtaken \/ orderIs = "DISPUTED")
             /\ visit[v].overtaken \/ "talk" \in late \/ closed = <<>>
        /\ visit[v].call \in {"sign", "notify"} =>
             \E i \in DOMAIN closed :
                closed[i].resolver = visit[v].resolver /\ closed[i].to = visit[v].to

TalkEnds ==
    "talk" \notin late =>
        /\ closed # <<>> => room.status \notin ESCROW_BLOCKING_DISPUTE_STATUSES
        /\ \A i \in DOMAIN trail : trail[i].after = 0

ClosingsAreSound ==
    /\ \A i \in DOMAIN closed :
         /\ closed[i].resolver # Nobody => closed[i].moved
         /\ closed[i].moved => closed[i].to # "DISPUTED"
    /\ "closing" \notin late =>
         /\ \A i, j \in DOMAIN closed : closed[i].moved /\ closed[j].moved => i = j
         /\ \A i \in DOMAIN closed : closed[i].moved => orderIs = closed[i].to
         /\ (\A i \in DOMAIN closed : ~closed[i].moved) => orderIs = "DISPUTED"

NewsIsTrue ==
    /\ room.resolvedBy # Nobody =>
         \E i \in DOMAIN closed : closed[i].resolver = room.resolvedBy
    /\ \A outcome \in told :
         \E i \in DOMAIN closed : closed[i].resolver # Nobody /\ closed[i].to = outcome

RoomIInv == RoomTypes /\ VisitsAreSound /\ TalkEnds /\ ClosingsAreSound /\ NewsIsTrue

-----------------------------------------------------------------------------

LEMMA PeopleAndTalks == DOMAIN Participants = People /\ DOMAIN EventOf = Talks /\ Nobody \notin People
BY NobodyAssumption DEF Participants, People, EventOf, Talks

LEMMA Appended ==
    ASSUME NEW S, NEW s \in Seq(S), NEW e \in S
    PROVE  /\ Append(s, e) \in Seq(S) /\ Append(s, e) # <<>>
           /\ Len(s) \in Nat /\ (s = <<>> => Len(s) = 0)
           /\ DOMAIN Append(s, e) = DOMAIN s \cup {Len(s) + 1} /\ Len(s) + 1 \notin DOMAIN s
           /\ \A i \in DOMAIN s : Append(s, e)[i] = s[i]
           /\ Append(s, e)[Len(s) + 1] = e
OBVIOUS

LEMMA RoomInitHolds == RoomInit => RoomIInv
<1> SUFFICES ASSUME RoomInit PROVE RoomIInv
  OBVIOUS
<1>1. PICK from \in OpenedFrom :
        room = [status |-> "OPEN", preOrderStatus |-> from, outcome |-> Nobody, resolvedBy |-> Nobody]
  BY DEF RoomInit
<1>2. RoomTypes
  <2>1. room \in [status : DisputeStatus, preOrderStatus : OpenedFrom,
                  outcome : Outcomes \cup {Nobody}, resolvedBy : People \cup {Nobody}]
    BY <1>1 DEF DisputeStatus
  <2> QED
    BY <2>1 DEF RoomInit, RoomTypes, OrderStatus
<1>3. \A v \in Visitors : visit[v].call \notin Talks \cup {"sign", "notify"}
  BY DEF RoomInit, Outside, Talks
<1> QED
  BY <1>1, <1>2, <1>3
     DEF RoomInit, RoomIInv, VisitsAreSound, TalkEnds, ClosingsAreSound, NewsIsTrue

\* A call begins: the dispute is open, and the order in it if it is to move.
LEMMA WithTrustHolds ==
    ASSUME RoomIInv, NEW v \in Visitors, withTrust(v)
    PROVE  RoomIInv'
<1>1. PICK who \in People, call_ \in Talks :
        /\ Accepts(room.status, call_)
        /\ call_ \in {"resolve", "console"} => orderIs = "DISPUTED"
        /\ visit' = [visit EXCEPT ![v] =
             [call |-> call_, read |-> room.status, overtaken |-> FALSE,
              resolver |-> IF EventOf[call_] = "RESOLVE" THEN who ELSE Nobody]]
        /\ UNCHANGED <<room, orderIs, trail, told, closed, late>>
  BY PeopleAndTalks DEF withTrust
<1> DEFINE new == [call |-> call_, read |-> room.status, overtaken |-> FALSE,
                   resolver |-> IF EventOf[call_] = "RESOLVE" THEN who ELSE Nobody]
<1>2. /\ new \in VisitTo /\ new.call = call_ /\ ~new.overtaken
      /\ call_ \in {"resolve", "console"} => new.resolver # Nobody
      /\ visit' = [visit EXCEPT ![v] = new]
  BY <1>1, PeopleAndTalks DEF VisitTo, RoomIInv, RoomTypes, EventOf
<1> HIDE DEF new
<1>3. visit'[v] = new /\ \A u \in Visitors \ {v} : visit'[u] = visit[u]
  BY <1>2 DEF RoomIInv, RoomTypes
<1>4. "talk" \in late \/ closed = <<>>
  BY <1>1 DEF Accepts, disputeTransition, RoomIInv, TalkEnds
<1>5. VisitsAreSound'
  <2>1. call_ \notin {"sign", "notify"}
    BY DEF Talks
  <2> QED
    BY <1>1, <1>2, <1>3, <1>4, <2>1 DEF RoomIInv, VisitsAreSound
<1>6. RoomTypes'
  <2>1. visit \in [Visitors -> {Outside} \cup VisitTo \cup Signing]
    BY DEF RoomIInv, RoomTypes
  <2>2. visit' \in [Visitors -> {Outside} \cup VisitTo \cup Signing]
    BY <1>2, <2>1
  <2>3. UNCHANGED <<room, orderIs, trail, told, closed, late>>
    BY <1>1
  <2> QED
    BY <2>2, <2>3 DEF RoomIInv, RoomTypes
<1> QED
  BY <1>1, <1>5, <1>6 DEF RoomIInv, TalkEnds, ClosingsAreSound, NewsIsTrue

\* A call that ends without a closing leaves the others as they are.
LEMMA ExitHolds ==
    ASSUME RoomIInv, NEW v \in Visitors, Exit(v), UNCHANGED <<orderIs, closed>>,
           late \subseteq late'
    PROVE  /\ visit' \in [Visitors -> {Outside} \cup VisitTo \cup Signing]
           /\ VisitsAreSound'
<1>1. visit' = [visit EXCEPT ![v] = Outside]
  BY DEF Exit
<1>2. visit'[v] = Outside /\ \A u \in Visitors \ {v} : visit'[u] = visit[u]
  BY <1>1 DEF RoomIInv, RoomTypes
<1>3. Outside.call \notin Talks \cup {"sign", "notify"}
  BY DEF Outside, Talks
<1> QED
  BY <1>1, <1>2, <1>3 DEF RoomIInv, RoomTypes, VisitsAreSound

\* Who talks writes back the status it read: an open one, if nothing closed.
LEMMA TalkHolds ==
    ASSUME RoomIInv, NEW v \in Visitors, discuss(v) \/ startReview(v)
    PROVE  RoomIInv'
<1>1. /\ visit[v].call \in Talks /\ Exit(v)
      /\ late' = late \cup (IF visit[v].overtaken THEN {"talk"} ELSE {})
      /\ UNCHANGED <<orderIs, told, closed>>
      /\ \E status \in DisputeStatus : room' = [room EXCEPT !.status = status]
      /\ trail' = trail \/ trail' = Append(trail, [kind |-> visit[v].call, after |-> Len(closed)])
  <2>1. visit[v] \in VisitTo
    <3>1. visit[v] \in {Outside} \cup VisitTo \cup Signing
      BY DEF RoomIInv, RoomTypes
    <3>2. visit[v].call \in {"respond", "attachEvidence", "startReview"}
      BY DEF discuss, startReview, Commits
    <3>3. visit[v] # Outside /\ visit[v] \notin Signing
      BY <3>2 DEF Outside, Signing
    <3> QED
      BY <3>1, <3>3
  <2> QED
    BY <2>1 DEF discuss, startReview, Commits, Lateness, Talks, VisitTo, DisputeStatus
<1>2. visit' \in [Visitors -> {Outside} \cup VisitTo \cup Signing] /\ VisitsAreSound'
  BY <1>1, ExitHolds
<1>3. room' \in [status : DisputeStatus, preOrderStatus : OpenedFrom,
                 outcome : Outcomes \cup {Nobody}, resolvedBy : People \cup {Nobody}]
      /\ room'.resolvedBy = room.resolvedBy
  BY <1>1 DEF RoomIInv, RoomTypes
<1>4. closed \in Seq(ClosingRecord) /\ trail \in Seq([kind : Talks, after : Nat])
  BY DEF RoomIInv, RoomTypes
<1> DEFINE row == [kind |-> visit[v].call, after |-> Len(closed)]
<1>5. row \in [kind : Talks, after : Nat] /\ row.after = Len(closed)
  BY <1>1, <1>4
<1>6. trail' = trail \/ trail' = Append(trail, row)
  BY <1>1
<1> HIDE DEF row
<1>7. trail' \in Seq([kind : Talks, after : Nat])
  <2>1. Append(trail, row) \in Seq([kind : Talks, after : Nat])
    BY <1>4, <1>5, Appended
  <2> QED
    BY <1>4, <1>6, <2>1
<1>8. RoomTypes'
  BY <1>1, <1>2, <1>3, <1>7 DEF RoomIInv, RoomTypes
<1>9. TalkEnds'
  <2> SUFFICES ASSUME "talk" \notin late'
               PROVE  closed = <<>> /\ \A i \in DOMAIN trail' : trail'[i].after = 0
    BY <1>1 DEF TalkEnds
  <2>1. closed = <<>> /\ "talk" \notin late
    BY <1>1 DEF RoomIInv, VisitsAreSound
  <2>2. row.after = 0
    BY <1>4, <1>5, <2>1
  <2>3. \A i \in DOMAIN trail : trail[i].after = 0
    BY <2>1 DEF RoomIInv, TalkEnds
  <2>4. CASE trail' = Append(trail, row)
    <3>1. /\ DOMAIN Append(trail, row) = DOMAIN trail \cup {Len(trail) + 1}
          /\ \A i \in DOMAIN trail : Append(trail, row)[i] = trail[i]
          /\ Append(trail, row)[Len(trail) + 1] = row
      BY <1>4, <1>5, Appended
    <3> QED
      BY <2>1, <2>2, <2>3, <2>4, <3>1
  <2> QED
    BY <1>6, <2>1, <2>3, <2>4
<1>10. ClosingsAreSound'
  BY <1>1 DEF RoomIInv, ClosingsAreSound
<1>11. NewsIsTrue'
  BY <1>1, <1>3 DEF RoomIInv, NewsIsTrue
<1> QED
  BY <1>2, <1>8, <1>9, <1>10, <1>11 DEF RoomIInv

\* Who is in a call is told apart by its name.
LEMMA WhoTalks ==
    ASSUME RoomTypes, NEW v \in Visitors
    PROVE  /\ visit[v].call \in Talks => visit[v] \in VisitTo
           /\ visit[v].call \in {"sign", "notify"} => visit[v] \in Signing
<1>1. visit[v] \in {Outside} \cup VisitTo \cup Signing
  BY DEF RoomTypes
<1>2. \A w \in Signing : w.call \in {"sign", "notify"}
  BY DEF Signing
<1>3. \A w \in VisitTo : w.call \in Talks
  BY DEF VisitTo
<1>4. Outside.call = "NONE"
  BY DEF Outside
<1> QED
  BY <1>1, <1>2, <1>3, <1>4 DEF Talks

\* A dispute is closed: every transaction that read the row before is overtaken.
LEMMA ClosingHolds ==
    ASSUME RoomIInv, NEW v \in Visitors, NEW next \in {Outside} \cup Signing,
           NEW closing \in ClosingRecord, Closing(v, next, closing),
           room' \in [status : DisputeStatus, preOrderStatus : OpenedFrom,
                      outcome : Outcomes \cup {Nobody}, resolvedBy : People \cup {Nobody}],
           room'.status \notin ESCROW_BLOCKING_DISPUTE_STATUSES,
           room'.resolvedBy = room.resolvedBy,
           UNCHANGED <<trail, told>>, orderIs' \in OrderStatus,
           closing.resolver # Nobody => closing.moved,
           closing.moved => closing.to # "DISPUTED" /\ orderIs' = closing.to,
           ~closing.moved => orderIs' = orderIs,
           closing.moved /\ ~visit[v].overtaken => orderIs = "DISPUTED",
           next \in Signing => closing.resolver = next.resolver /\ closing.to = next.to
    PROVE  RoomIInv'
<1>1. /\ closed' = Append(closed, closing)
      /\ late' = late \cup (IF visit[v].overtaken THEN {"closing"} ELSE {})
      /\ visit' = [u \in Visitors |->
                     IF u = v THEN next
                     ELSE IF visit[u].call \in Talks THEN [visit[u] EXCEPT !.overtaken = TRUE]
                     ELSE visit[u]]
  BY PeopleAndTalks DEF Closing, Lateness
<1>2. /\ closed \in Seq(ClosingRecord) /\ visit \in [Visitors -> {Outside} \cup VisitTo \cup Signing]
      /\ late \subseteq {"talk", "closing"} /\ trail \in Seq([kind : Talks, after : Nat])
      /\ told \subseteq Outcomes
  BY DEF RoomIInv, RoomTypes
<1>3. /\ closed' \in Seq(ClosingRecord) /\ closed' # <<>>
      /\ DOMAIN closed' = DOMAIN closed \cup {Len(closed) + 1} /\ Len(closed) + 1 \notin DOMAIN closed
      /\ \A i \in DOMAIN closed : closed'[i] = closed[i]
      /\ closed'[Len(closed) + 1] = closing
  BY <1>1, <1>2, Appended
<1>4. /\ visit'[v] = next
      /\ \A u \in Visitors \ {v} :
           /\ visit[u].call \in Talks => visit'[u] \in VisitTo /\ visit'[u].overtaken
                                         /\ visit'[u].resolver = visit[u].resolver
                                         /\ visit'[u].call = visit[u].call
           /\ visit[u].call \notin Talks => visit'[u] = visit[u]
  <2>1. \A u \in Visitors : visit[u].call \in Talks => visit[u] \in VisitTo
    BY WhoTalks DEF RoomIInv
  <2>2. ASSUME NEW w \in VisitTo
        PROVE  /\ [w EXCEPT !.overtaken = TRUE] \in VisitTo
               /\ [w EXCEPT !.overtaken = TRUE].overtaken
               /\ [w EXCEPT !.overtaken = TRUE].resolver = w.resolver
               /\ [w EXCEPT !.overtaken = TRUE].call = w.call
    BY DEF VisitTo
  <2>3. \A u \in Visitors \ {v} :
          /\ visit[u].call \in Talks => visit'[u] = [visit[u] EXCEPT !.overtaken = TRUE]
          /\ visit[u].call \notin Talks => visit'[u] = visit[u]
    BY <1>1
  <2> QED
    BY <1>1, <2>1, <2>2, <2>3
<1>5. RoomTypes'
  <2>1. \A u \in Visitors : visit'[u] \in {Outside} \cup VisitTo \cup Signing
    BY <1>2, <1>4
  <2>2. visit' \in [Visitors -> {Outside} \cup VisitTo \cup Signing]
    BY <1>1, <2>1
  <2>3. late' \subseteq {"talk", "closing"}
    BY <1>1, <1>2
  <2> QED
    BY <1>2, <1>3, <2>2, <2>3 DEF RoomTypes
<1>6. VisitsAreSound'
  <2> SUFFICES ASSUME NEW u \in Visitors
               PROVE  /\ visit'[u].call \in Talks =>
                           /\ visit'[u].call \in {"resolve", "console"} => visit'[u].resolver # Nobody
                           /\ visit'[u].overtaken
                      /\ visit'[u].call \in {"sign", "notify"} =>
                           \E i \in DOMAIN closed' :
                              closed'[i].resolver = visit'[u].resolver /\ closed'[i].to = visit'[u].to
    BY DEF VisitsAreSound
  <2>1. CASE u = v
    <3>1. Outside.call \notin Talks \cup {"sign", "notify"} /\ \A w \in Signing : w.call \notin Talks
      BY DEF Outside, Talks, Signing
    <3> QED
      BY <1>3, <1>4, <2>1, <3>1
  <2>2. CASE u # v /\ visit[u].call \in Talks
    <3>1. visit[u].call \notin {"sign", "notify"}
      BY <2>2 DEF Talks
    <3> QED
      BY <1>4, <2>2, <3>1 DEF RoomIInv, VisitsAreSound
  <2>3. CASE u # v /\ visit[u].call \notin Talks
    <3>1. visit'[u] = visit[u]
      BY <1>4, <2>3
    <3>2. visit[u].call \in {"sign", "notify"} =>
            \E i \in DOMAIN closed :
               closed[i].resolver = visit[u].resolver /\ closed[i].to = visit[u].to
      BY DEF RoomIInv, VisitsAreSound
    <3> QED
      BY <1>3, <2>3, <3>1, <3>2
  <2> QED
    BY <2>1, <2>2, <2>3
<1>7. TalkEnds'
  BY <1>1 DEF RoomIInv, TalkEnds
<1>8. ClosingsAreSound'
  <2>1. \A i \in DOMAIN closed' : /\ closed'[i].resolver # Nobody => closed'[i].moved
                                  /\ closed'[i].moved => closed'[i].to # "DISPUTED"
    BY <1>3 DEF RoomIInv, ClosingsAreSound
  <2>2. ASSUME "closing" \notin late'
        PROVE  /\ \A i, j \in DOMAIN closed' : closed'[i].moved /\ closed'[j].moved => i = j
               /\ \A i \in DOMAIN closed' : closed'[i].moved => orderIs' = closed'[i].to
               /\ (\A i \in DOMAIN closed' : ~closed'[i].moved) => orderIs' = "DISPUTED"
    <3>1. ~visit[v].overtaken /\ "closing" \notin late
      BY <1>1, <2>2
    <3>2. /\ \A i, j \in DOMAIN closed : closed[i].moved /\ closed[j].moved => i = j
          /\ \A i \in DOMAIN closed : closed[i].moved => orderIs = closed[i].to /\ closed[i].to # "DISPUTED"
          /\ (\A i \in DOMAIN closed : ~closed[i].moved) => orderIs = "DISPUTED"
      BY <3>1 DEF RoomIInv, ClosingsAreSound
    <3>3. CASE closing.moved
      BY <1>3, <3>1, <3>2, <3>3
    <3>4. CASE ~closing.moved
      BY <1>3, <3>2, <3>4
    <3> QED
      BY <3>3, <3>4
  <2> QED
    BY <2>1, <2>2 DEF ClosingsAreSound
<1>9. NewsIsTrue'
  <2>1. \A who, outcome :
          /\ (\E i \in DOMAIN closed : closed[i].resolver = who) =>
                \E i \in DOMAIN closed' : closed'[i].resolver = who
          /\ (\E i \in DOMAIN closed : closed[i].resolver # Nobody /\ closed[i].to = outcome) =>
                \E i \in DOMAIN closed' : closed'[i].resolver # Nobody /\ closed'[i].to = outcome
    BY <1>3
  <2> QED
    BY <2>1 DEF RoomIInv, NewsIsTrue
<1> QED
  BY <1>5, <1>6, <1>7, <1>8, <1>9 DEF RoomIInv

LEMMA WithdrawHolds ==
    ASSUME RoomIInv, NEW v \in Visitors, withdraw(v)
    PROVE  RoomIInv'
<1> DEFINE resumes == orderIs = "DISPUTED" /\ room.preOrderStatus \in LEGAL_DISPUTE_RESOLUTIONS
           closing == [resolver |-> Nobody, to |-> orderIs', moved |-> resumes]
<1>1. /\ room' = [room EXCEPT !.status = "WITHDRAWN"]
      /\ orderIs' = (IF resumes THEN room.preOrderStatus ELSE orderIs)
      /\ Closing(v, Outside, closing) /\ UNCHANGED <<trail, told>>
  BY DEF withdraw
<1>2. /\ room \in [status : DisputeStatus, preOrderStatus : OpenedFrom,
                   outcome : Outcomes \cup {Nobody}, resolvedBy : People \cup {Nobody}]
      /\ orderIs \in OrderStatus
  BY DEF RoomIInv, RoomTypes
<1>3. /\ room' \in [status : DisputeStatus, preOrderStatus : OpenedFrom,
                    outcome : Outcomes \cup {Nobody}, resolvedBy : People \cup {Nobody}]
      /\ room'.status \notin ESCROW_BLOCKING_DISPUTE_STATUSES /\ room'.resolvedBy = room.resolvedBy
  BY <1>1, <1>2 DEF DisputeStatus, ESCROW_BLOCKING_DISPUTE_STATUSES
<1>4. orderIs' \in OrderStatus /\ (resumes => orderIs = "DISPUTED" /\ orderIs' # "DISPUTED")
  BY <1>1, <1>2 DEF LEGAL_DISPUTE_RESOLUTIONS, OrderStatus
<1>5. closing \in ClosingRecord /\ closing.resolver = Nobody /\ closing.to = orderIs'
      /\ (closing.moved <=> resumes)
  BY <1>4 DEF ClosingRecord
<1>6. Outside \notin Signing
  BY DEF Outside, Signing
<1>7. ~resumes => orderIs' = orderIs
  BY <1>1
<1> HIDE DEF closing, resumes
<1> QED
  BY <1>1, <1>3, <1>4, <1>5, <1>6, <1>7, ClosingHolds

LEMMA ResolveHolds ==
    ASSUME RoomIInv, NEW v \in Visitors, resolveDispute(v)
    PROVE  RoomIInv'
<1>1. PICK to \in Outcomes :
        /\ orderIs' = to
        /\ room' = [room EXCEPT !.status = "RESOLVED", !.outcome = to]
        /\ Closing(v, IF visit[v].call = "resolve" THEN Outside
                      ELSE [call |-> "sign", resolver |-> visit[v].resolver, to |-> to],
                   [resolver |-> visit[v].resolver, to |-> to, moved |-> TRUE])
        /\ UNCHANGED <<trail, told>>
  BY DEF resolveDispute
<1> DEFINE next == IF visit[v].call = "resolve" THEN Outside
                   ELSE [call |-> "sign", resolver |-> visit[v].resolver, to |-> to]
           closing == [resolver |-> visit[v].resolver, to |-> to, moved |-> TRUE]
<1>2. /\ visit[v].call \in {"resolve", "console"} /\ visit[v].resolver \in People
      /\ visit[v].overtaken \/ orderIs = "DISPUTED"
  <2>1. visit[v].call \in {"resolve", "console"} /\ visit[v].call \in Talks
    BY DEF resolveDispute, Commits, Talks
  <2>2. visit[v] \in VisitTo
    BY <2>1, WhoTalks DEF RoomIInv
  <2> QED
    BY <2>1, <2>2 DEF RoomIInv, VisitsAreSound, VisitTo
<1>3. room \in [status : DisputeStatus, preOrderStatus : OpenedFrom,
                outcome : Outcomes \cup {Nobody}, resolvedBy : People \cup {Nobody}]
  BY DEF RoomIInv, RoomTypes
<1>4. /\ room' \in [status : DisputeStatus, preOrderStatus : OpenedFrom,
                    outcome : Outcomes \cup {Nobody}, resolvedBy : People \cup {Nobody}]
      /\ room'.status \notin ESCROW_BLOCKING_DISPUTE_STATUSES /\ room'.resolvedBy = room.resolvedBy
  BY <1>1, <1>3 DEF DisputeStatus, ESCROW_BLOCKING_DISPUTE_STATUSES
<1>5. to \in OrderStatus /\ to # "DISPUTED"
  BY OutcomesAssumption DEF OrderStatus
<1>6. closing \in ClosingRecord /\ closing.resolver = visit[v].resolver /\ closing.to = to
      /\ closing.moved
  BY <1>2, <1>5 DEF ClosingRecord
<1>7. next \in {Outside} \cup Signing /\ Outside \notin Signing
      /\ (next # Outside => next.resolver = visit[v].resolver /\ next.to = to)
  BY <1>2 DEF Signing, Outside
<1> HIDE DEF next, closing
<1>8. Closing(v, next, closing)
  BY <1>1 DEF next, closing
<1> QED
  BY <1>1, <1>2, <1>4, <1>5, <1>6, <1>7, <1>8, ClosingHolds

\* The console signs the row and tells the opener what it decided.
LEMMA ConsoleHolds ==
    ASSUME RoomIInv, NEW v \in Visitors, resolveDisputeAsStaff(v)
    PROVE  RoomIInv'
<1>1. CASE /\ Commits(v, {"sign"})
           /\ room' = [room EXCEPT !.resolvedBy = visit[v].resolver]
           /\ visit' = [visit EXCEPT ![v].call = "notify"]
           /\ UNCHANGED <<orderIs, trail, told, closed, late>>
  <2>1. visit[v] \in Signing /\ visit[v].call = "sign"
    BY <1>1, WhoTalks DEF Commits, RoomIInv
  <2>2. PICK i \in DOMAIN closed :
          closed[i].resolver = visit[v].resolver /\ closed[i].to = visit[v].to
    BY <2>1 DEF RoomIInv, VisitsAreSound
  <2>3. /\ room' \in [status : DisputeStatus, preOrderStatus : OpenedFrom,
                      outcome : Outcomes \cup {Nobody}, resolvedBy : People \cup {Nobody}]
        /\ room'.status = room.status /\ room'.resolvedBy = visit[v].resolver
    BY <1>1, <2>1 DEF RoomIInv, RoomTypes, Signing
  <2> DEFINE new == [visit[v] EXCEPT !.call = "notify"]
  <2>4. /\ new \in Signing /\ new.call = "notify"
        /\ new.resolver = visit[v].resolver /\ new.to = visit[v].to
    BY <2>1 DEF Signing
  <2>5. visit \in [Visitors -> {Outside} \cup VisitTo \cup Signing]
    BY DEF RoomIInv, RoomTypes
  <2>6. visit' = [visit EXCEPT ![v] = new]
    BY <1>1, <2>5
  <2> HIDE DEF new
  <2>7. visit'[v] = new /\ \A u \in Visitors \ {v} : visit'[u] = visit[u]
    BY <2>5, <2>6
  <2>8. visit' \in [Visitors -> {Outside} \cup VisitTo \cup Signing]
    BY <2>4, <2>5, <2>6
  <2>9. RoomTypes'
    BY <1>1, <2>3, <2>8 DEF RoomIInv, RoomTypes
  <2>10. UNCHANGED <<orderIs, closed, late, told, trail>>
    BY <1>1
  <2>11. VisitsAreSound'
    <3>1. new.call \notin Talks
      BY <2>4 DEF Talks
    <3> QED
      BY <2>2, <2>4, <2>7, <2>10, <3>1 DEF RoomIInv, VisitsAreSound
  <2>12. TalkEnds' /\ ClosingsAreSound' /\ NewsIsTrue'
    BY <2>2, <2>3, <2>10 DEF RoomIInv, TalkEnds, ClosingsAreSound, NewsIsTrue
  <2> QED
    BY <2>9, <2>11, <2>12 DEF RoomIInv
<1>2. CASE /\ Commits(v, {"notify"})
           /\ told' = told \cup {visit[v].to}
           /\ Exit(v)
           /\ UNCHANGED <<room, orderIs, trail, closed, late>>
  <2>1. visit[v] \in Signing /\ visit[v].call = "notify"
    BY <1>2, WhoTalks DEF Commits, RoomIInv
  <2>2. PICK i \in DOMAIN closed :
          closed[i].resolver = visit[v].resolver /\ closed[i].to = visit[v].to
    BY <2>1 DEF RoomIInv, VisitsAreSound
  <2>3. visit[v].resolver # Nobody /\ visit[v].to \in Outcomes
    BY <2>1, PeopleAndTalks DEF Signing
  <2>4. visit' \in [Visitors -> {Outside} \cup VisitTo \cup Signing] /\ VisitsAreSound'
    BY <1>2, ExitHolds
  <2>5. RoomTypes'
    BY <1>2, <2>3, <2>4 DEF RoomIInv, RoomTypes
  <2>6. TalkEnds' /\ ClosingsAreSound' /\ NewsIsTrue'
    BY <1>2, <2>2, <2>3 DEF RoomIInv, TalkEnds, ClosingsAreSound, NewsIsTrue
  <2> QED
    BY <2>4, <2>5, <2>6 DEF RoomIInv
<1> QED
  BY <1>1, <1>2 DEF resolveDisputeAsStaff

LEMMA RoomStep ==
    ASSUME RoomIInv, [RoomNext]_roomVars
    PROVE  RoomIInv'
<1>1. ASSUME NEW v \in Visitors, abandon(v) PROVE RoomIInv'
  <2>1. Exit(v) /\ UNCHANGED <<room, orderIs, trail, told, closed, late>>
    BY <1>1 DEF abandon
  <2>2. visit' \in [Visitors -> {Outside} \cup VisitTo \cup Signing] /\ VisitsAreSound'
    BY <2>1, ExitHolds
  <2> QED
    BY <2>1, <2>2 DEF RoomIInv, RoomTypes, TalkEnds, ClosingsAreSound, NewsIsTrue
<1>2. ASSUME UNCHANGED roomVars PROVE RoomIInv'
  BY <1>2 DEF roomVars, RoomIInv, RoomTypes, VisitsAreSound, TalkEnds, ClosingsAreSound, NewsIsTrue
<1> QED
  BY <1>1, <1>2, WithTrustHolds, TalkHolds, WithdrawHolds, ResolveHolds, ConsoleHolds DEF RoomNext

LEMMA RoomIInvImplies == RoomIInv => DecisionsStand
<1> SUFFICES ASSUME RoomIInv PROVE DecisionsStand
  OBVIOUS
<1> DEFINE moves == {i \in DOMAIN closed : closed[i].moved}
<1>1. ASSUME "closing" \notin late
      PROVE  /\ moves = {} => orderIs = "DISPUTED"
             /\ \A i \in moves : moves = {i} /\ orderIs = closed[i].to
             /\ Cardinality(told) <= 1
  <2>1. /\ moves = {} => orderIs = "DISPUTED"
        /\ \A i \in moves : moves = {i} /\ orderIs = closed[i].to
    BY <1>1 DEF RoomIInv, ClosingsAreSound
  <2>2. told \subseteq {orderIs}
    BY <1>1 DEF RoomIInv, ClosingsAreSound, NewsIsTrue
  <2>3. Cardinality(told) <= 1
    <3>1. IsFiniteSet({orderIs}) /\ Cardinality({orderIs}) = 1
      BY FS_Singleton, Zenon
    <3> QED
      BY <2>2, <3>1, FS_Subset
  <2> QED
    BY <2>1, <2>3
<1> QED
  BY <1>1 DEF RoomIInv, TalkEnds, NewsIsTrue, DecisionsStand

\* dispute-machine.ts:13: what was decided stands, as far as calls that cross
\* the decision let it.
THEOREM DecisionsHold == Spec => []DecisionsStand
<1>1. Init => RoomIInv
  BY RoomInitHolds DEF Init
<1>2. [Next]_<<part, reviewVars, messageVars, roomVars>> => [RoomNext]_roomVars
  BY DEF Next
<1>3. RoomIInv /\ [RoomNext]_roomVars => RoomIInv'
  BY RoomStep
<1> QED
  BY <1>1, <1>2, <1>3, RoomIInvImplies, PTL DEF Spec

=============================================================================
