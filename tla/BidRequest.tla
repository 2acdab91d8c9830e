----------------------------- MODULE BidRequest -----------------------------
(***************************************************************************)
(* The frames a worker is sent, and what protobuf makes of them.  A frame    *)
(* carries some of the fields of a BidRequest; it is complete when the whole *)
(* payload can be decoded.                                                  *)
(***************************************************************************)
EXTENDS CampaignFile

CONSTANTS Frames,
          Prices       \* the prices generate_bid_price may give

\* proto3: a field that is not sent has its default.
Defaults == [request_id |-> "", tmax_ms |-> 0, country |-> <<>>, device_type |-> "",
             ad_slot |-> <<>>, auction_type |-> "AUCTION_TYPE_UNSPECIFIED"]

\* ParseFromArray clears the message, then merges the fields of the payload.
Decoded(fields) ==
    [name \in DOMAIN Defaults |-> IF name \in DOMAIN fields THEN fields[name] ELSE Defaults[name]]

map_auction_type(auction_type) ==
    CASE auction_type = "AUCTION_TYPE_FIRST_PRICE"  -> "kFirstPrice"
      [] auction_type = "AUCTION_TYPE_SECOND_PRICE" -> "kSecondPrice"
      [] OTHER -> "kUnspecified"

ASSUME BidRequestAssumption ==
    /\ \A frame \in Frames :
          /\ frame.complete \in BOOLEAN
          /\ DOMAIN frame.fields \subseteq DOMAIN Defaults
          /\ Decoded(frame.fields).tmax_ms \in Nat
          /\ Decoded(frame.fields).ad_slot \in AdSlots
    /\ Prices \subseteq Nat \ {0}

\* What is sent back: the response, or the connection's close.
Response(request_id, status, campaign_id, creative_id, price) ==
    [request_id |-> request_id, status |-> status,
     campaign_id |-> campaign_id, creative_id |-> creative_id, price |-> price]

NoBid(request_id) == Response(request_id, "BID_STATUS_NO_BID", 0, 0, 0)
Bid(request_id, campaign_id, creative_id, price) ==
    Response(request_id, "BID_STATUS_BID", campaign_id, creative_id, price)
Closed == [status |-> "closed"]
Pending == [status |-> "pending"]
Nothing == [status |-> "nothing"]
NoFrame == [complete |-> FALSE, fields |-> <<>>]
=============================================================================
