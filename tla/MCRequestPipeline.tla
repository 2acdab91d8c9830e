-------------------------- MODULE MCRequestPipeline --------------------------
(***************************************************************************)
(* Short files of the sample lines, some with several campaigns for one      *)
(* request, and frames that lack or spoil each field in turn.               *)
(***************************************************************************)
EXTENDS RequestPipeline, SampleCampaigns

Sample(id) == CHOOSE line \in GoodLines : line.campaign_id = id

\* For the same requests as campaign 1, as it happens.
Twin == OfCampaign(9, us, "desktop", costarring, TRUE, <<901>>)

SomeLines == AllLines \cup {Twin}

\* All files of up to two sample lines; a line that is no good one between two that are;
\* and longer ones: in the first the country's bucket is the longer one, in the second the
\* ad slot's.
SomeFiles ==
    UNION {[1..n -> AllLines] : n \in 0..2}
    \cup {<<Sample(1), line, Sample(4)>> : line \in AllLines \ GoodLines}
    \cup {<<Sample(1), Sample(2), Sample(4)>>,
           <<Sample(3), Twin, Sample(1)>>,
           <<Header, Sample(2), Skipped, Sample(3)>>}

Full == [request_id |-> "r1", tmax_ms |-> 2, country |-> us, device_type |-> "desktop",
         ad_slot |-> liquid, auction_type |-> "AUCTION_TYPE_FIRST_PRICE"]

Payload(fields) == [complete |-> TRUE, fields |-> fields]
Without(name) == Payload([field \in DOMAIN Full \ {name} |-> Full[field]])
With(name, value) == Payload([Full EXCEPT ![name] = value])

SomeFrames ==
    {Payload(Full), [complete |-> FALSE, fields |-> Full],
     With("request_id", "r2"), With("ad_slot", top), With("device_type", "mobile"),
     With("tmax_ms", 1), With("country", USA), With("device_type", "console"),
     With("ad_slot", hash_zero), With("auction_type", "AUCTION_TYPE_SECOND_PRICE"),
     Payload([Full EXCEPT !.country = CA, !.device_type = "ctv"]),
     Payload([Full EXCEPT !.tmax_ms = 1, !.country = USA])}
    \cup {Without(name) : name \in DOMAIN Full}
=============================================================================
