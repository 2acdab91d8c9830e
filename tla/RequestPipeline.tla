--------------------------- MODULE RequestPipeline ---------------------------
(***************************************************************************)
(* What a worker does with one frame after another: parse_bid_request,      *)
(* handle_request with its retrieval and decision, build_bid_response.  The *)
(* protobuf message it parses into is the worker's, and is used again for    *)
(* the next frame, whatever its connection; the names in ParsedMessage and   *)
(* RequestContext are views into it.  The campaign store is loaded before.   *)
(***************************************************************************)
EXTENDS CampaignStore, BidRequest

VARIABLES
    stage,       \* "idle", or where process_ready_frames and handle_request are
    asked,       \* the frame
    answer,      \* what came of it
    scratch,     \* parse_scratch.request
    context,     \* the RequestContext, its request_id aside
    bucket,      \* the seed bucket
    position,    \* of the loop of retrieve_candidates, then of make_bid_decision
    candidates,
    decision,    \* the best BidDecision so far
    drawn        \* auxiliary: the bids the loop of make_bid_decision has made

requestVars == <<stage, asked, answer, scratch, context, bucket, position, candidates, decision, drawn>>
vars == <<storeVars, requestVars>>

NoContext ==
    [country_key |-> 0, device_type_key |-> "kUnknown", ad_slot_key |-> NoSlotKey,
     auction_type |-> "kUnspecified", received_at_ns |-> 0, deadline_ns |-> 0,
     processing_status |-> "kOk", no_bid_reason |-> "kNone"]

NoDecision(reason) ==
    [has_bid |-> FALSE, no_bid_reason |-> reason, campaign_id |-> 0, creative_id |-> 0, bid_price |-> 0]

\* What is local to the handling of a frame.
Fresh ==
    /\ context' = NoContext /\ bucket' = <<>> /\ position' = 0 /\ candidates' = <<>>
    /\ decision' = NoDecision("kNone") /\ drawn' = <<>>

\* The connection the frame came from is closed.
Refuse ==
    /\ answer' = Closed
    /\ stage' = "idle"
    /\ Fresh

-----------------------------------------------------------------------------
Receive(frame) ==
    /\ loader = "loaded"
    /\ stage = "idle"
    /\ stage' = "parse"
    /\ asked' = frame
    /\ answer' = Pending
    /\ UNCHANGED <<storeVars, scratch, context, bucket, position, candidates, decision, drawn>>

\* A slip: the fields of the last message stay where this one has none.
ParseFromArrayMerging(fields) ==
    [name \in DOMAIN scratch |-> IF name \in DOMAIN fields THEN fields[name] ELSE scratch[name]]

ParseFromArray(fields) == Decoded(fields)

HasAllFields(request) ==
    /\ request.request_id # ""
    /\ request.country # <<>>
    /\ request.device_type # ""
    /\ request.ad_slot # <<>>
    /\ map_auction_type(request.auction_type) # "kUnspecified"

\* parse_bid_request.  What came before the bytes that cannot be decoded is in the
\* message then, too.
ParseBidRequest ==
    /\ stage = "parse"
    /\ scratch' = ParseFromArray(asked.fields)
    /\ IF asked.complete /\ HasAllFields(scratch')
       THEN /\ stage' = "context"
            /\ UNCHANGED <<answer, context, bucket, position, candidates, decision, drawn>>
       ELSE Refuse
    /\ UNCHANGED <<storeVars, asked>>

\* build_request_context: read from the message, at received_at_ns.
build_request_context(request, received_at_ns) ==
    LET deadline == compute_deadline_ns(received_at_ns, request.tmax_ms)
        expired == deadline <= received_at_ns
    IN [country_key       |-> normalize_country_key(request.country),
        device_type_key   |-> normalize_device_type_key(request.device_type),
        ad_slot_key       |-> AdSlotKeyOf[request.ad_slot],
        auction_type      |-> map_auction_type(request.auction_type),
        received_at_ns    |-> received_at_ns,
        deadline_ns       |-> deadline,
        processing_status |-> IF expired THEN "kExpired" ELSE "kOk",
        no_bid_reason     |-> IF expired THEN "kDeadlineExceeded" ELSE "kNone"]

\* A slip: a request that has expired is not looked at any further.
ValidatedUnlessExpired(ctx) ==
    IF /\ ctx.processing_status = "kOk"
       /\ \/ ctx.country_key = 0 \/ ctx.device_type_key = "kUnknown"
          \/ ctx.ad_slot_key = NoSlotKey \/ ctx.auction_type = "kUnspecified"
    THEN [ctx EXCEPT !.processing_status = "kInvalid", !.no_bid_reason = "kInvalidRequest"]
    ELSE ctx

\* validate_request_context: a request that is invalid is so even when it has expired.
Validated(ctx) ==
    IF \/ ctx.country_key = 0 \/ ctx.device_type_key = "kUnknown"
       \/ ctx.ad_slot_key = NoSlotKey \/ ctx.auction_type = "kUnspecified"
    THEN [ctx EXCEPT !.processing_status = "kInvalid", !.no_bid_reason = "kInvalidRequest"]
    ELSE IF ctx.processing_status # "kOk" /\ ctx.no_bid_reason = "kNone"
         THEN [ctx EXCEPT !.no_bid_reason = "kInvalidRequest"]
         ELSE ctx

is_eligible(ctx) == ctx.processing_status = "kOk" /\ ctx.no_bid_reason = "kNone"

\* handle_request, up to its first return: an invalid request drops the connection, one
\* that is not eligible otherwise gets a response without a bid.
Contextualise ==
    /\ stage = "context"
    /\ LET ctx == Validated(build_request_context(scratch, 0))
       IN IF ctx.processing_status # "kOk" /\ ctx.no_bid_reason = "kInvalidRequest"
          THEN Refuse /\ UNCHANGED <<asked, scratch>>
          ELSE /\ context' = ctx
               /\ IF is_eligible(ctx)
                  THEN stage' = "retrieve" /\ UNCHANGED decision
                  ELSE stage' = "respond" /\ decision' = NoDecision(ctx.no_bid_reason)
               /\ UNCHANGED <<asked, answer, scratch, bucket, position, candidates, drawn>>
    /\ UNCHANGED storeVars

-----------------------------------------------------------------------------
(***************************************************************************)
(* retrieve_candidates                                                     *)
(***************************************************************************)
\* A slip: a campaign of the country is taken without the other keys.
matches_country(ctx, campaign) == campaign.active /\ campaign.country_key = ctx.country_key

matches_request(ctx, campaign) ==
    /\ campaign.active
    /\ campaign.country_key = ctx.country_key
    /\ campaign.device_type_key = ctx.device_type_key
    /\ campaign.ad_slot_key = ctx.ad_slot_key

\* The smaller bucket; none when one of the keys is in no campaign.
choose_seed_bucket(store, ctx) ==
    LET by_country == store.campaigns_by_country
        by_ad_slot == store.campaigns_by_ad_slot
    IN IF ctx.country_key \notin DOMAIN by_country \/ ctx.ad_slot_key \notin DOMAIN by_ad_slot
       THEN <<>>
       ELSE IF Len(by_country[ctx.country_key]) <= Len(by_ad_slot[ctx.ad_slot_key])
            THEN by_country[ctx.country_key]
            ELSE by_ad_slot[ctx.ad_slot_key]

ChooseSeed ==
    /\ stage = "retrieve"
    /\ bucket' = choose_seed_bucket(snapshot, context)
    /\ stage' = "filter"
    /\ UNCHANGED <<storeVars, asked, answer, scratch, context, position, candidates, decision, drawn>>

\* One campaign of the bucket.  Indexes count from 0.
FilterCampaign ==
    /\ stage = "filter"
    /\ position < Len(bucket)
    /\ position' = position + 1
    /\ LET index == bucket[position + 1]
       IN candidates' = IF /\ index < Len(snapshot.campaigns)
                           /\ matches_request(context, snapshot.campaigns[index + 1])
                        THEN Append(candidates, index)
                        ELSE candidates
    /\ UNCHANGED <<storeVars, stage, asked, answer, scratch, context, bucket, decision, drawn>>

\* make_bid_decision starts with no bid; no candidates, and this is the decision.
StartDecision ==
    /\ stage = "filter"
    /\ position = Len(bucket)
    /\ position' = 0
    /\ decision' = NoDecision("kNoEligibleCampaign")
    /\ stage' = IF candidates = <<>> THEN "respond" ELSE "decide"
    /\ UNCHANGED <<storeVars, asked, answer, scratch, context, bucket, candidates, drawn>>

\* choose_random_creative: 0-based, the creatives from the campaign's offset on.
CreativesOf(campaign) ==
    {snapshot.creatives[campaign.creative_offset + k] : k \in 1 .. campaign.creative_count}

Candidate == snapshot.campaigns[candidates[position + 1] + 1]

BidOf(campaign, creative, price) ==
    [has_bid |-> TRUE, no_bid_reason |-> "kNone", campaign_id |-> campaign.campaign_id,
     creative_id |-> creative.creative_id, bid_price |-> price]

\* A slip: the last bid made is the one kept.
LastBid(bid) == bid

\* A price that is not above the best so far is passed over; before the first it is
\* below every price.
BestBid(bid) == IF decision.has_bid /\ bid.bid_price <= decision.bid_price THEN decision ELSE bid

ConsiderCandidate ==
    /\ stage = "decide"
    /\ position < Len(candidates)
    /\ position' = position + 1
    /\ IF CreativesOf(Candidate) = {}
       THEN UNCHANGED <<decision, drawn>>
       ELSE \E creative \in CreativesOf(Candidate), price \in Prices :
              LET bid == BidOf(Candidate, creative, price)
              IN decision' = BestBid(bid) /\ drawn' = Append(drawn, bid)
    /\ UNCHANGED <<storeVars, stage, asked, answer, scratch, context, bucket, candidates>>

EndDecision ==
    /\ stage = "decide"
    /\ position = Len(candidates)
    /\ stage' = "respond"
    /\ UNCHANGED <<storeVars, asked, answer, scratch, context, bucket, position, candidates, decision, drawn>>

\* build_bid_response; the request_id is read from the message only here.
BuildResponse ==
    /\ stage = "respond"
    /\ answer' = IF decision.has_bid
                 THEN Bid(scratch.request_id, decision.campaign_id, decision.creative_id,
                          decision.bid_price)
                 ELSE NoBid(scratch.request_id)
    /\ stage' = "idle"
    /\ Fresh
    /\ UNCHANGED <<storeVars, asked, scratch>>

-----------------------------------------------------------------------------
Init ==
    /\ StoreInit
    /\ stage = "idle"
    /\ asked = NoFrame
    /\ answer = Nothing
    /\ scratch = Defaults
    /\ context = NoContext
    /\ bucket = <<>>
    /\ position = 0
    /\ candidates = <<>>
    /\ decision = NoDecision("kNone")
    /\ drawn = <<>>

Handle ==
    \/ ParseBidRequest \/ Contextualise
    \/ ChooseSeed \/ FilterCampaign \/ StartDecision \/ ConsiderCandidate \/ EndDecision
    \/ BuildResponse

Next ==
    \/ StoreNext /\ UNCHANGED requestVars
    \/ \E frame \in Frames : Receive(frame)
    \/ Handle

Spec == Init /\ [][Next]_vars

-----------------------------------------------------------------------------
(***************************************************************************)
(* What must hold.                                                         *)
(***************************************************************************)
\* The type of every variable.
TypeOK ==
    /\ StoreTypeOK
    /\ stage \in {"idle", "parse", "context", "retrieve", "filter", "decide", "respond"}
    /\ stage # "idle" => loader = "loaded" /\ answer = Pending
    /\ asked \in Frames \cup {NoFrame}
    /\ scratch \in {Decoded(frame.fields) : frame \in Frames} \cup {Defaults}
    /\ bucket \in Seq(Nat) /\ candidates \in Seq(Nat)
    /\ position \in Nat
    /\ stage = "filter" => position <= Len(bucket)
    /\ stage = "decide" => position <= Len(candidates)
    /\ decision.has_bid => decision.bid_price \in Prices

\* The candidates are the campaigns an exhaustive scan of the store would find, in the
\* order of the file, whichever of the two indexes was the seed.
CandidatesExact ==
    stage = "decide" \/ (stage = "respond" /\ is_eligible(context)) =>
        /\ ToSet(candidates) =
             {n \in 0 .. Len(snapshot.campaigns) - 1 :
                matches_request(context, snapshot.campaigns[n + 1])}
        /\ \A i, j \in 1 .. Len(candidates) : i < j => candidates[i] < candidates[j]

\* The bid is the first of the highest made, and one is made for every candidate.
BestBidWins ==
    stage = "respond" /\ is_eligible(context) =>
        /\ Len(drawn) = Len(candidates)
        /\ IF drawn = <<>> THEN ~decision.has_bid
           ELSE \E best \in 1 .. Len(drawn) :
                  /\ decision = drawn[best]
                  /\ \A n \in 1 .. Len(drawn) :
                       /\ drawn[n].bid_price <= decision.bid_price
                       /\ n < best => drawn[n].bid_price < decision.bid_price

\* The stages answer each frame as Auction does at one stroke: from that frame and the
\* campaign file alone, whatever frames came before it.
Catalogue == IF loader = "loaded" THEN Offers(SubSeq(file, 1, line_number)) ELSE {}

Engine == INSTANCE Auction WITH loaded <- loader = "loaded", catalogue <- Catalogue

ImplementsAuction == Engine!Spec
=============================================================================
