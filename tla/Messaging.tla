----------------------------- MODULE Messaging -----------------------------
(***************************************************************************)
(* Threads between a buyer and a supplier organization in                  *)
(* packages/core/src/trust/messaging-repository.ts: posts under the fraud  *)
(* limit, read cursors, unread counts, and pages of messages.              *)
(*                                                                         *)
(* A post carries the time at which its transaction made it and is seen    *)
(* when that transaction commits; a read cursor carries the time at which  *)
(* it was asked for.  Message ids are random: they break ties of time, in  *)
(* an order that has nothing to do with the order of posting.              *)
(***************************************************************************)
EXTENDS FraudLimits, FiniteSetsExt

CONSTANTS
    Threads,    \* threads of the two organizations
    Orgs,       \* the two organizations
    Readers,    \* those that mark threads read: their cursors never meet
    MessageIds, \* Message rows there may ever be, ordered as their ids are
    Callers,    \* calls that may be in flight at once
    Horizon,    \* bound on the clock here
    PageSize    \* messages on a page: 30 in the thread view

ASSUME ReadersAssumption == Readers \subseteq Orgs
ASSUME MessageIdsAssumption == MessageIds \subseteq Nat
ASSUME HorizonAssumption == Horizon \in Time
ASSUME CallersAssumption == IsFiniteSet(Callers)
ASSUME PageSizeAssumption == PageSize \in Nat \ {0}

VARIABLES
    open,       \* threads that were started
    message,    \* the Message rows
    counted,    \* RateLimitEvent rows: the message each one counts, and when
    cursor,     \* ThreadReadState.lastReadAt, per thread and organization
    shown,      \* messages an organization could have seen when it marked read
    post,       \* per caller, the call in flight
    mixed,      \* two calls have been in flight together
    now

messageVars == <<open, message, counted, cursor, shown, post, mixed, now>>

NoMessage == [thread |-> "NONE", org |-> "NONE", at |-> NoTime]
NoPost == [op |-> "IDLE", thread |-> "NONE", org |-> "NONE", at |-> NoTime, seen |-> {}]

Posted == {m \in MessageIds : message[m] # NoMessage}

MessagingTypeOK ==
    /\ open \subseteq Threads
    /\ \A m \in Posted : message[m] \in [thread : open, org : Orgs, at : Time]
    /\ counted \in [MessageIds -> Time \cup {NoTime}]
    /\ cursor \in [Threads \X Readers -> Time \cup {NoTime}]
    /\ shown \in [Threads \X Readers -> SUBSET MessageIds]
    /\ \A c \in Callers : post[c] # NoPost =>
         post[c] \in [op : {"POST", "MARK"}, thread : open, org : Orgs, at : Time,
                      seen : SUBSET MessageIds]
    /\ mixed \in BOOLEAN /\ now \in Time

MessagingInit ==
    /\ open = {}
    /\ message = [m \in MessageIds |-> NoMessage]
    /\ counted = [m \in MessageIds |-> NoTime]
    /\ cursor = [p \in Threads \X Readers |-> NoTime]
    /\ shown = [p \in Threads \X Readers |-> {}]
    /\ post = [c \in Callers |-> NoPost]
    /\ mixed = FALSE
    /\ now = 0

Enter(c, record) ==
    /\ post[c] = NoPost
    /\ post' = [post EXCEPT ![c] = record]
    /\ mixed' = (mixed \/ \E d \in Callers \ {c} : post[d] # NoPost)
    /\ UNCHANGED <<open, message, counted, cursor, shown, now>>

Leave(c) == post' = [post EXCEPT ![c] = NoPost]

rollBack(c) ==
    /\ post[c] # NoPost
    /\ Leave(c)
    /\ UNCHANGED <<open, message, counted, cursor, shown, mixed, now>>

\* The rows that count against one organization.
CountedOf(org) ==
    [m \in MessageIds |-> IF message[m].org = org THEN counted[m] ELSE NoTime]

-----------------------------------------------------------------------------

\* One transaction makes the thread and its first message, which no limit
\* counts.  Nobody sees the thread before it commits.
startThread ==
    \E t \in Threads \ open, o \in Orgs, m \in MessageIds \ Posted :
        /\ open' = open \cup {t}
        /\ message' = [message EXCEPT ![m] = [thread |-> t, org |-> o, at |-> now]]
        /\ UNCHANGED <<counted, cursor, shown, post, mixed, now>>

beginPost(c) ==
    \E t \in open, o \in Orgs :
        /\ RateLimitAllows(CountedOf(o), now)
        /\ Enter(c, [NoPost EXCEPT !.op = "POST", !.thread = t, !.org = o, !.at = now])

postMessage(c) ==
    /\ post[c].op = "POST"
    /\ \E m \in MessageIds \ Posted :
         /\ message' = [message EXCEPT ![m] =
              [thread |-> post[c].thread, org |-> post[c].org, at |-> post[c].at]]
         /\ counted' = [counted EXCEPT ![m] = post[c].at]
    /\ Leave(c)
    /\ UNCHANGED <<open, cursor, shown, mixed, now>>

In(thread) == {m \in Posted : message[m].thread = thread}
Inbound(thread, org) == {m \in In(thread) : message[m].org # org}

beginMark(c) ==
    \E t \in open, o \in Readers :
        Enter(c, [op |-> "MARK", thread |-> t, org |-> o, at |-> now, seen |-> Inbound(t, o)])

markRead(c) ==
    LET p == <<post[c].thread, post[c].org>> IN
    /\ post[c].op = "MARK"
    /\ cursor' = [cursor EXCEPT ![p] = post[c].at]
    /\ shown' = [shown EXCEPT ![p] = post[c].seen]
    /\ Leave(c)
    /\ UNCHANGED <<open, message, counted, mixed, now>>

-----------------------------------------------------------------------------
(* What an organization is shown *)

\* threadSummary: the header of a thread.
SummaryUnread(thread, org) ==
    {m \in Inbound(thread, org) : message[m].at > cursor[<<thread, org>>]}

\* Mutant of Earliest: the latest cursor of the page bounds the query.
Latest(page, org) ==
    LET at == {cursor[<<t, org>>] : t \in page} \ {NoTime}
    IN  IF at = {} THEN NoTime ELSE Max(at)

Earliest(page, org) ==
    LET at == {cursor[<<t, org>>] : t \in page} \ {NoTime}
    IN  IF at = {} THEN NoTime ELSE Min(at)

\* listThreads: one query for the page, from its earliest cursor on.
ListUnread(page, thread, org) ==
    {m \in Inbound(thread, org) :
        /\ message[m].at > Earliest(page, org)
        /\ message[m].at > cursor[<<thread, org>>]}

\* Mutant of Before: ties of time are not broken.
BeforeInTime(m, k) == message[m].at < message[k].at

\* The composite cursor: by time, then by id.
Before(m, k) ==
    \/ message[m].at < message[k].at
    \/ message[m].at = message[k].at /\ m < k

\* Newest first, by the same order the cursor uses.
Newer(m, k) ==
    \/ message[m].at > message[k].at
    \/ message[m].at = message[k].at /\ m > k

\* threadMessages: the newest PageSize of the messages at or before the cursor.
FirstPage(rows) == {m \in rows : Cardinality({k \in rows : Newer(k, m)}) < PageSize}
Oldest(page) == CHOOSE m \in page : \A k \in page \ {m} : Newer(k, m)

\* The rows that are left once n pages were loaded.
After(thread) ==
    LET left[n \in 0..Cardinality(In(thread))] ==
          IF n = 0 THEN In(thread)
          ELSE LET before == left[n - 1]
                   last == Oldest(FirstPage(before))
               IN  IF Cardinality(before) > PageSize
                     THEN {m \in In(thread) : Before(m, last)}
                     ELSE {}
    IN  left

-----------------------------------------------------------------------------

clockTicks ==
    /\ now < Horizon
    /\ now' = now + 1
    /\ UNCHANGED <<open, message, counted, cursor, shown, post, mixed>>

MessageCalls(c) ==
    beginPost(c) \/ postMessage(c) \/ beginMark(c) \/ markRead(c) \/ rollBack(c)

MessagingNext == startThread \/ (\E c \in Callers : MessageCalls(c)) \/ clockTicks

MessagingSpec == MessagingInit /\ [][MessagingNext]_messageVars

-----------------------------------------------------------------------------
(* Properties *)

\* What the list leaves out: the inbound messages of a thread that was never
\* marked, as far as every cursor of the page is past them.
NotListed(page, thread, org) ==
    LET marked == {t \in page : cursor[<<t, org>>] # NoTime}
    IN  IF thread \in marked \/ marked = {} THEN {}
        ELSE {m \in Inbound(thread, org) :
                \A t \in marked : message[m].at <= cursor[<<t, org>>]}

\* messaging-repository.ts:335 says "Unread = inbound messages newer than the
\* org's read cursor".  As long as calls do not cross, a message the organization
\* could not have seen when it last marked the thread is unread in the header of
\* the thread, unless it was made in the very instant of the mark.  The list does
\* not count what the comment says: it reads one page from its earliest cursor
\* on, :353, so of a thread nobody marked it leaves out what the other threads'
\* cursors are past, and nothing else.
UnreadIsCounted ==
    \A t \in open, o \in Readers :
        /\ ~mixed => \A m \in Inbound(t, o) \ shown[<<t, o>>] :
             m \in SummaryUnread(t, o) \/ message[m].at = cursor[<<t, o>>]
        /\ \A page \in SUBSET open : t \in page =>
             ListUnread(page, t, o) = SummaryUnread(t, o) \ NotListed(page, t, o)

\* messaging-repository.ts:389: loading page after page with the composite
\* cursor shows every message of a thread once, ties of time included.
PagesShowEverything ==
    \A t \in open :
        LET left == After(t)
            n == Cardinality(In(t))
        IN  /\ left[n] = {}
            /\ \A i \in 1..n : left[i - 1] # {} =>
                 FirstPage(left[i - 1]) = left[i - 1] \ left[i] /\ left[i] \subseteq left[i - 1]

\* Nothing else is missed in an inbox: neither by its counts nor by its pages.
NothingIsMissed == UnreadIsCounted /\ PagesShowEverything

\* messaging-repository.ts:274: posts of one organization within one window.
PostsWithinLimit ==
    \A o \in Orgs : \A m \in Rows(CountedOf(o)) :
        Cardinality(Within(CountedOf(o), counted[m])) <=
            IF mixed THEN Limit + Cardinality(Callers) - 1 ELSE Limit

=============================================================================
