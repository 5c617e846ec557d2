----------------------------- MODULE RfqTradeMC -----------------------------
(* Small instances of RfqTrade for TLC, and the claim that fails. *)
EXTENDS RfqTrade

TradeModes == {"BROADCAST", "AUCTION"}

\* cart-repository.ts:225: the award ends the negotiation.  Two calls that both
\* read the RFQ open accept a quote each: the second takes the award, and the
\* first quote stays accepted with an order of its own.
OnlyAwardedQuoteIsAccepted ==
    rfq.status = "AWARDED" =>
        \A q \in Quotes : quote[q].status = "ACCEPTED" => q = rfq.awarded
=============================================================================
