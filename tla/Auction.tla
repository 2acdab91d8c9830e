------------------------------- MODULE Auction -------------------------------
(***************************************************************************)
(* What the engine promises an SSP, without its stages: the campaign file    *)
(* makes a catalogue of offers, and each frame is answered from that frame   *)
(* and the catalogue alone.                                                 *)
(***************************************************************************)
EXTENDS BidRequest

VARIABLES loaded,     \* whether a campaign file has been read
          catalogue,  \* the offers of its active campaigns
          asked,      \* the last frame
          answer      \* the answer to it, once there is one

vars == <<loaded, catalogue, asked, answer>>

\* A request has all its fields, and fields that mean something.
IsRequest(frame) ==
    LET request == Decoded(frame.fields)
    IN /\ frame.complete
       /\ request.request_id # ""
       /\ request.country # <<>> /\ normalize_country_key(request.country) # 0
       /\ normalize_device_type_key(request.device_type) # "kUnknown"
       /\ request.ad_slot # <<>> /\ AdSlotKeyOf[request.ad_slot] # NoSlotKey
       /\ map_auction_type(request.auction_type) # "kUnspecified"

\* The offers for a request.
For(request) ==
    {offer \in catalogue :
       offer.keys = <<normalize_country_key(request.country),
                      normalize_device_type_key(request.device_type),
                      AdSlotKeyOf[request.ad_slot]>>}

\* The answers a frame may be given: a request with no more than the safety margin left
\* gets no bid, one somebody offers for gets a bid.
Permitted(frame) ==
    LET request == Decoded(frame.fields)
    IN IF ~IsRequest(frame) THEN {Closed}
       ELSE IF request.tmax_ms <= 1 \/ For(request) = {} THEN {NoBid(request.request_id)}
       ELSE UNION {{Bid(request.request_id, offer.campaign_id, creative, price) :
                      creative \in offer.creatives, price \in Prices} : offer \in For(request)}

\* A file none of whose lines is bad is taken, up to a failing read.
Load ==
    /\ ~loaded /\ loaded'
    /\ \E f \in Files : \E n \in 0 .. Len(f) :
         /\ n = Len(f) \/ ReadMayFail
         /\ \A k \in 1 .. n : IsSkipped(f[k], k) \/ IsCampaign(f[k])
         /\ catalogue' = Offers(SubSeq(f, 1, n))
    /\ UNCHANGED <<asked, answer>>

Ask ==
    /\ loaded
    /\ answer # Pending /\ answer' = Pending
    /\ asked' \in Frames
    /\ UNCHANGED <<loaded, catalogue>>

Answer ==
    /\ answer = Pending
    /\ answer' \in Permitted(asked)
    /\ UNCHANGED <<loaded, catalogue, asked>>

Init ==
    /\ ~loaded
    /\ catalogue = {}
    /\ asked = NoFrame
    /\ answer = Nothing

Next == Load \/ Ask \/ Answer

Spec == Init /\ [][Next]_vars
=============================================================================
