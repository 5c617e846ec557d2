---------------------------- MODULE TradeMachine ----------------------------
(***************************************************************************)
(* The pure machines of packages/core/src/trade: rfq-machine.ts and        *)
(* quote-machine.ts, as sets of legal moves <<from, event, to>>.           *)
(***************************************************************************)

RfqMode == {"SINGLE", "BROADCAST", "AUCTION"}

RfqStatus == {"DRAFT", "OPEN", "AWARDED", "CLOSED", "CANCELLED"}

QuoteStatus ==
    {"DRAFT", "SUBMITTED", "ACCEPTED", "DECLINED", "EXPIRED", "WITHDRAWN", "SUPERSEDED"}

\* A closed RFQ may still be awarded: the buyer picks a winner after closing.
RfqMoves ==
    {<<"DRAFT", "SEND", "OPEN">>, <<"DRAFT", "CANCEL", "CANCELLED">>,
     <<"OPEN", "CLOSE", "CLOSED">>, <<"OPEN", "AWARD", "AWARDED">>,
     <<"OPEN", "CANCEL", "CANCELLED">>, <<"CLOSED", "AWARD", "AWARDED">>}

rfqTransition(from, event, to) == <<from, event, to>> \in RfqMoves

\* Every end of a quote is reached from SUBMITTED and is terminal.
QuoteMoves ==
    {<<"DRAFT", "SUBMIT", "SUBMITTED">>, <<"DRAFT", "WITHDRAW", "WITHDRAWN">>,
     <<"SUBMITTED", "ACCEPT", "ACCEPTED">>, <<"SUBMITTED", "DECLINE", "DECLINED">>,
     <<"SUBMITTED", "EXPIRE", "EXPIRED">>, <<"SUBMITTED", "WITHDRAW", "WITHDRAWN">>,
     <<"SUBMITTED", "SUPERSEDE", "SUPERSEDED">>}

quoteTransition(from, event, to) == <<from, event, to>> \in QuoteMoves

\* An auction is awarded, closed or cancelled only once its close time is due.
assertCloseTimeAllows(mode, due) == mode # "AUCTION" \/ due

=============================================================================
