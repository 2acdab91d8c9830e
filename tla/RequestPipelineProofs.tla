------------------------ MODULE RequestPipelineProofs ------------------------
(***************************************************************************)
(* Proofs about RequestPipeline, for any file, frames and prices.           *)
(***************************************************************************)
EXTENDS RequestPipeline, CampaignStoreProofs

Matches(n) == matches_request(context, snapshot.campaigns[n + 1])

Increasing(s) == \A i, j \in 1 .. Len(s) : i < j => s[i] < s[j]

Bids == [has_bid : {TRUE}, no_bid_reason : {"kNone"}, campaign_id : Nat, creative_id : Nat,
         bid_price : Prices]

\* What the loops have before they begin.
BeforeLoops ==
    /\ stage \in {"idle", "parse", "context", "retrieve"} => candidates = <<>> /\ position = 0
    /\ stage \in {"idle", "parse", "context", "retrieve", "filter"} => drawn = <<>>
    /\ stage \in {"retrieve", "filter", "decide"} => is_eligible(context)
    /\ stage # "idle" => asked \in Frames

\* The loop of retrieve_candidates: those among the campaigns it has seen that match.
Filtering ==
    stage = "filter" =>
        /\ bucket = choose_seed_bucket(snapshot, context)
        /\ ToSet(candidates) = {n \in {bucket[j] : j \in 1 .. position} : Matches(n)}
        /\ Increasing(candidates)

\* The loop of make_bid_decision: the first of the highest bids made.
BestOfDrawn ==
    IF drawn = <<>> THEN ~decision.has_bid
    ELSE \E best \in 1 .. Len(drawn) :
           /\ decision = drawn[best]
           /\ \A n \in 1 .. Len(drawn) :
                /\ drawn[n].bid_price <= decision.bid_price
                /\ n < best => drawn[n].bid_price < decision.bid_price

Deciding ==
    /\ drawn \in Seq(Bids)
    /\ stage = "decide" => Len(drawn) = position /\ BestOfDrawn

\* What the stages know of the frame: the message is its own and no other's, and the context
\* is the message's.
Understood ==
    /\ stage = "idle" => answer # Pending
    /\ stage \in {"context", "retrieve", "filter", "decide", "respond"} =>
          /\ scratch = Decoded(asked.fields)
          /\ asked.complete /\ HasAllFields(scratch)
    /\ stage \in {"retrieve", "filter", "decide", "respond"} =>
          /\ context = Validated(build_request_context(scratch, 0))
          /\ context.no_bid_reason # "kInvalidRequest"
    /\ stage = "respond" /\ ~is_eligible(context) => ~decision.has_bid

\* Every bid made is a candidate's, with one of its creatives.
IsBidOf(bid, n) ==
    \E creative \in CreativesOf(snapshot.campaigns[n + 1]), price \in Prices :
       bid = BidOf(snapshot.campaigns[n + 1], creative, price)

BidsAreCandidates ==
    \A k \in 1 .. Len(drawn) : \E n \in ToSet(candidates) : IsBidOf(drawn[k], n)

\* The inductive invariant.
PipelineInv ==
    /\ StoreInv /\ TypeOK /\ BeforeLoops
    /\ Filtering /\ Deciding
    /\ CandidatesExact /\ BestBidWins
    /\ Understood /\ BidsAreCandidates

-----------------------------------------------------------------------------
(***************************************************************************)
(* Either bucket has every campaign that matches.                           *)
(***************************************************************************)
LEMMA SeedBucket ==
    ASSUME StoreInv
    PROVE  LET seeds == choose_seed_bucket(snapshot, context)
           IN /\ seeds \in Seq(Nat)
              /\ Increasing(seeds)
              /\ {n \in {seeds[j] : j \in 1 .. Len(seeds)} : Matches(n)} =
                 {n \in 0 .. Len(snapshot.campaigns) - 1 : Matches(n)}
              /\ \A j \in 1 .. Len(seeds) : seeds[j] < Len(snapshot.campaigns)
<1> DEFINE campaigns == snapshot.campaigns
           by_country == snapshot.campaigns_by_country
           by_ad_slot == snapshot.campaigns_by_ad_slot
           All == 0 .. Len(campaigns) - 1
           Matching == {n \in All : Matches(n)}
           OfCountry == {n \in All : campaigns[n + 1].country_key = context.country_key}
           OfAdSlot == {n \in All : campaigns[n + 1].ad_slot_key = context.ad_slot_key}
<1>0. campaigns \in Seq(CampaignRecords)
  BY DEF StoreInv, StoreTypeOK
<1>1. Matching \subseteq OfCountry /\ Matching \subseteq OfAdSlot
  BY DEF Matches, matches_request
<1>2. IsIndexOf(by_country, CountryKeysOf(campaigns)) /\ IsIndexOf(by_ad_slot, AdSlotKeysOf(campaigns))
  BY DEF StoreInv, IndexesExact
<1>3. /\ Len(CountryKeysOf(campaigns)) = Len(campaigns) /\ Len(AdSlotKeysOf(campaigns)) = Len(campaigns)
      /\ \A n \in All : CountryKeysOf(campaigns)[n + 1] = campaigns[n + 1].country_key
      /\ \A n \in All : AdSlotKeysOf(campaigns)[n + 1] = campaigns[n + 1].ad_slot_key
  BY <1>0 DEF CountryKeysOf, AdSlotKeysOf
<1>4. CASE context.country_key \notin DOMAIN by_country \/ context.ad_slot_key \notin DOMAIN by_ad_slot
  <2>1. choose_seed_bucket(snapshot, context) = <<>>
    BY <1>4 DEF choose_seed_bucket
  <2>2. context.country_key \notin DOMAIN by_country => OfCountry = {}
    BY <1>0, <1>2, <1>3 DEF IsIndexOf, Lists
  <2>3. context.ad_slot_key \notin DOMAIN by_ad_slot => OfAdSlot = {}
    BY <1>0, <1>2, <1>3 DEF IsIndexOf, Lists
  <2>4. Matching = {}
    BY <1>1, <1>4, <2>2, <2>3
  <2> QED
    BY <2>1, <2>4 DEF Increasing
<1>5. CASE context.country_key \in DOMAIN by_country /\ context.ad_slot_key \in DOMAIN by_ad_slot
  <2>1. ASSUME NEW seeds \in Seq(Nat), NEW Seen, Matching \subseteq Seen, Seen \subseteq All,
               {seeds[j] : j \in 1 .. Len(seeds)} = Seen
        PROVE  /\ {n \in {seeds[j] : j \in 1 .. Len(seeds)} : Matches(n)} = Matching
               /\ \A j \in 1 .. Len(seeds) : seeds[j] < Len(campaigns)
    <3>1. {n \in Seen : Matches(n)} = Matching
      BY <2>1
    <3>2. \A j \in 1 .. Len(seeds) : seeds[j] \in All
      BY <2>1
    <3>3. {n \in {seeds[j] : j \in 1 .. Len(seeds)} : Matches(n)} = Matching
      <4> HIDE DEF Matching
      <4> QED
        BY <2>1, <3>1
    <3>4. \A j \in 1 .. Len(seeds) : seeds[j] < Len(campaigns)
      BY <1>0, <3>2
    <3> QED
      BY <3>3, <3>4
  <2>2. /\ by_country[context.country_key] \in Seq(Nat)
        /\ by_ad_slot[context.ad_slot_key] \in Seq(Nat)
    BY <1>5 DEF StoreInv, StoreTypeOK
  <2>3. LET seeds == by_country[context.country_key]
        IN {seeds[j] : j \in 1 .. Len(seeds)} = OfCountry /\ Increasing(seeds)
    <3> DEFINE seeds == by_country[context.country_key]
    <3>1. Lists(seeds, {n \in 0 .. Len(CountryKeysOf(campaigns)) - 1 :
                          CountryKeysOf(campaigns)[n + 1] = context.country_key})
      BY <1>2, <1>5 DEF IsIndexOf
    <3>2. Lists(seeds, OfCountry)
      BY <1>3, <3>1
    <3>3. DOMAIN seeds = 1 .. Len(seeds)
      BY <2>2
    <3> HIDE DEF seeds, OfCountry
    <3> QED
      BY <3>2, <3>3 DEF Lists, Increasing, seeds
  <2>4. LET seeds == by_ad_slot[context.ad_slot_key]
        IN {seeds[j] : j \in 1 .. Len(seeds)} = OfAdSlot /\ Increasing(seeds)
    <3> DEFINE seeds == by_ad_slot[context.ad_slot_key]
    <3>1. Lists(seeds, {n \in 0 .. Len(AdSlotKeysOf(campaigns)) - 1 :
                          AdSlotKeysOf(campaigns)[n + 1] = context.ad_slot_key})
      BY <1>2, <1>5 DEF IsIndexOf
    <3>2. Lists(seeds, OfAdSlot)
      BY <1>3, <3>1
    <3>3. DOMAIN seeds = 1 .. Len(seeds)
      BY <2>2
    <3> HIDE DEF seeds, OfAdSlot
    <3> QED
      BY <3>2, <3>3 DEF Lists, Increasing, seeds
  <2>5. OfCountry \subseteq All /\ OfAdSlot \subseteq All
    OBVIOUS
  <2>6. \/ choose_seed_bucket(snapshot, context) = by_country[context.country_key]
        \/ choose_seed_bucket(snapshot, context) = by_ad_slot[context.ad_slot_key]
    BY <1>5 DEF choose_seed_bucket
  <2> HIDE DEF Matching, OfCountry, OfAdSlot, All, by_country, by_ad_slot
  <2>7. CASE choose_seed_bucket(snapshot, context) = by_country[context.country_key]
    <3>1. LET seeds == by_country[context.country_key]
          IN /\ {n \in {seeds[j] : j \in 1 .. Len(seeds)} : Matches(n)} = Matching
             /\ \A j \in 1 .. Len(seeds) : seeds[j] < Len(campaigns)
      BY <1>1, <2>1, <2>2, <2>3, <2>5
    <3> QED
      BY <2>2, <2>3, <2>7, <3>1 DEF Matching, All
  <2>8. CASE choose_seed_bucket(snapshot, context) = by_ad_slot[context.ad_slot_key]
    <3>1. LET seeds == by_ad_slot[context.ad_slot_key]
          IN /\ {n \in {seeds[j] : j \in 1 .. Len(seeds)} : Matches(n)} = Matching
             /\ \A j \in 1 .. Len(seeds) : seeds[j] < Len(campaigns)
      BY <1>1, <2>1, <2>2, <2>4, <2>5
    <3> QED
      BY <2>2, <2>4, <2>8, <3>1 DEF Matching, All
  <2> QED
    BY <2>6, <2>7, <2>8
<1> QED
  BY <1>4, <1>5

-----------------------------------------------------------------------------
LEMMA PipelineInitInv == Init => PipelineInv
<1> SUFFICES ASSUME Init PROVE PipelineInv
  OBVIOUS
<1> USE DEF Init
<1>1. StoreInv
  BY StoreInitInv
<1>2. TypeOK
  BY <1>1 DEF TypeOK, StoreInv, NoDecision
<1>3. BeforeLoops /\ Filtering /\ Deciding /\ CandidatesExact /\ BestBidWins
  BY DEF BeforeLoops, Filtering, Deciding, CandidatesExact, BestBidWins
<1>4. Understood /\ BidsAreCandidates
  BY DEF Understood, BidsAreCandidates, Nothing, Pending
<1> QED
  BY <1>1, <1>2, <1>3, <1>4 DEF PipelineInv

\* The store is not loaded any more once frames are received.
LEMMA StoreStepsInv ==
    ASSUME PipelineInv, StoreNext, UNCHANGED requestVars
    PROVE  PipelineInv'
<1>1. loader # "loaded"
  BY DEF StoreNext, Open, SkipLine, RejectLine, StartCampaign, ParseCreative, AppendCampaign,
         RejectCampaign, EndOfFile
<1>2. stage = "idle" /\ UNCHANGED <<stage, asked, answer, scratch, context, bucket, position,
                                   candidates, decision, drawn>>
  BY <1>1 DEF PipelineInv, TypeOK, requestVars
<1>3. StoreInv'
  BY StoreStepInv DEF PipelineInv
<1>4. TypeOK'
  BY <1>2, <1>3 DEF PipelineInv, TypeOK, StoreInv
<1>5. BeforeLoops' /\ Filtering' /\ Deciding' /\ CandidatesExact' /\ BestBidWins'
  BY <1>2 DEF PipelineInv, BeforeLoops, Filtering, Deciding, CandidatesExact, BestBidWins
<1>6. drawn = <<>>
  BY <1>2 DEF PipelineInv, BeforeLoops
<1>7. Understood' /\ BidsAreCandidates'
  BY <1>2, <1>6 DEF PipelineInv, Understood, BidsAreCandidates
<1> QED
  BY <1>3, <1>4, <1>5, <1>7 DEF PipelineInv

\* The store stays while a frame is handled.
LEMMA StoreStays ==
    ASSUME PipelineInv, UNCHANGED storeVars
    PROVE  /\ StoreInv' /\ StoreTypeOK' /\ loader' = loader
           /\ snapshot' = snapshot
<1>1. StoreInv'
  BY StoreStepInv DEF PipelineInv
<1> QED
  BY <1>1 DEF StoreInv, storeVars

\* The end of the handling of a frame.
LEMMA FreshInv ==
    ASSUME PipelineInv, UNCHANGED <<storeVars, asked>>, stage' = "idle", answer' # Pending, Fresh,
           scratch' \in {Decoded(frame.fields) : frame \in Frames} \cup {Defaults}
    PROVE  PipelineInv'
<1>1. StoreInv' /\ StoreTypeOK'
  BY StoreStays
<1>2. TypeOK'
  BY <1>1 DEF PipelineInv, TypeOK, Fresh, NoDecision
<1>3. BeforeLoops' /\ Filtering' /\ Deciding' /\ CandidatesExact' /\ BestBidWins'
  BY DEF BeforeLoops, Filtering, Deciding, CandidatesExact, BestBidWins, Fresh
<1>4. Understood' /\ BidsAreCandidates'
  BY DEF Understood, BidsAreCandidates, Fresh
<1> QED
  BY <1>1, <1>2, <1>3, <1>4 DEF PipelineInv

\* The stages from retrieve_candidates on know what they knew.
LEMMA UnderstoodStays ==
    ASSUME PipelineInv, UNCHANGED <<asked, scratch, context>>,
           stage \in {"retrieve", "filter", "decide"},
           stage' \in {"retrieve", "filter", "decide", "respond"}
    PROVE  Understood'
  BY DEF PipelineInv, BeforeLoops, Understood, HasAllFields

\* The bids stay those of candidates while neither changes.
LEMMA BidsStay ==
    ASSUME PipelineInv, UNCHANGED <<snapshot, candidates, drawn>>
    PROVE  BidsAreCandidates'
<1>1. \A bid, n : IsBidOf(bid, n)' <=> IsBidOf(bid, n)
  BY DEF IsBidOf, CreativesOf
<1> QED
  BY <1>1 DEF PipelineInv, BidsAreCandidates

LEMMA ReceiveInv ==
    ASSUME PipelineInv, NEW frame \in Frames, Receive(frame)
    PROVE  PipelineInv'
<1> USE DEF Receive
<1>1. StoreInv' /\ StoreTypeOK' /\ loader' = "loaded"
  BY StoreStays
<1>2. TypeOK'
  BY <1>1 DEF PipelineInv, TypeOK
<1>3. BeforeLoops' /\ Filtering' /\ Deciding' /\ CandidatesExact' /\ BestBidWins'
  BY DEF PipelineInv, BeforeLoops, Filtering, Deciding, CandidatesExact, BestBidWins
<1>4. Understood' /\ BidsAreCandidates'
  BY BidsStay DEF PipelineInv, Understood, storeVars
<1> QED
  BY <1>1, <1>2, <1>3, <1>4 DEF PipelineInv

LEMMA ParseBidRequestInv ==
    ASSUME PipelineInv, ParseBidRequest
    PROVE  PipelineInv'
<1>1. scratch' = Decoded(asked.fields) /\ asked \in Frames /\ UNCHANGED <<storeVars, asked>>
  BY DEF ParseBidRequest, ParseFromArray, PipelineInv, BeforeLoops
<1>2. CASE Refuse
  BY <1>1, <1>2, FreshInv DEF Refuse, Closed, Pending
<1>3. CASE /\ asked.complete /\ HasAllFields(scratch')
           /\ stage' = "context" /\ UNCHANGED <<answer, context, bucket, position, candidates, decision, drawn>>
  <2>1. StoreInv' /\ StoreTypeOK' /\ loader' = loader /\ stage = "parse"
    BY <1>1, StoreStays DEF ParseBidRequest
  <2>2. TypeOK'
    BY <1>1, <1>3, <2>1 DEF PipelineInv, TypeOK
  <2>3. BeforeLoops' /\ Filtering' /\ Deciding' /\ CandidatesExact' /\ BestBidWins'
    BY <1>1, <1>3, <2>1 DEF PipelineInv, BeforeLoops, Filtering, Deciding, CandidatesExact, BestBidWins
  <2>4. Understood'
    BY <1>1, <1>3 DEF Understood, HasAllFields
  <2>5. BidsAreCandidates'
    BY <1>1, <1>3, BidsStay DEF storeVars
  <2> QED
    BY <2>1, <2>2, <2>3, <2>4, <2>5 DEF PipelineInv
<1> QED
  BY <1>2, <1>3 DEF ParseBidRequest

LEMMA ContextualiseInv ==
    ASSUME PipelineInv, Contextualise
    PROVE  PipelineInv'
<1> DEFINE ctx == Validated(build_request_context(scratch, 0))
<1>1. stage = "context" /\ UNCHANGED <<storeVars, asked, scratch>>
  BY DEF Contextualise
<1>2. CASE Refuse
  BY <1>1, <1>2, FreshInv DEF Refuse, PipelineInv, TypeOK, Closed, Pending
<1>3. CASE /\ context' = ctx
           /\ ~(ctx.processing_status # "kOk" /\ ctx.no_bid_reason = "kInvalidRequest")
           /\ IF is_eligible(ctx)
              THEN stage' = "retrieve" /\ UNCHANGED decision
              ELSE stage' = "respond" /\ decision' = NoDecision(ctx.no_bid_reason)
           /\ UNCHANGED <<answer, bucket, position, candidates, drawn>>
  <2>0. ctx.no_bid_reason # "kInvalidRequest"
    BY <1>3 DEF Validated, build_request_context
  <2> HIDE DEF ctx
  <2>1. StoreInv' /\ StoreTypeOK' /\ loader' = loader
    BY <1>1, StoreStays
  <2>2. TypeOK'
    BY <1>1, <1>3, <2>1 DEF PipelineInv, TypeOK, NoDecision
  <2>3. BeforeLoops' /\ Filtering' /\ Deciding'
    BY <1>1, <1>3 DEF PipelineInv, BeforeLoops, Filtering, Deciding
  <2>4. CandidatesExact' /\ BestBidWins'
    BY <1>1, <1>3 DEF CandidatesExact, BestBidWins
  <2>5. Understood'
    <3>1. stage' # "idle" /\ (stage' = "respond" => ~decision'.has_bid)
      BY <1>3 DEF NoDecision
    <3>2. scratch = Decoded(asked.fields) /\ asked.complete /\ HasAllFields(scratch)
      BY <1>1 DEF PipelineInv, Understood
    <3>3. context' = Validated(build_request_context(scratch', 0))
      BY <1>1, <1>3 DEF ctx
    <3> QED
      BY <1>1, <1>3, <2>0, <3>1, <3>2, <3>3 DEF Understood, HasAllFields
  <2>6. BidsAreCandidates'
    BY <1>1, <1>3, BidsStay DEF storeVars
  <2> QED
    BY <2>1, <2>2, <2>3, <2>4, <2>5, <2>6 DEF PipelineInv
<1> QED
  BY <1>2, <1>3 DEF Contextualise

LEMMA ChooseSeedInv ==
    ASSUME PipelineInv, ChooseSeed
    PROVE  PipelineInv'
<1> USE DEF ChooseSeed
<1>1. StoreInv' /\ StoreTypeOK' /\ loader' = loader /\ snapshot' = snapshot
  BY StoreStays
<1>2. bucket' \in Seq(Nat) /\ candidates = <<>> /\ position = 0 /\ drawn = <<>>
  BY SeedBucket DEF PipelineInv, BeforeLoops
<1>3. TypeOK'
  BY <1>1, <1>2 DEF PipelineInv, TypeOK
<1>4. BeforeLoops' /\ Deciding' /\ CandidatesExact' /\ BestBidWins'
  BY DEF PipelineInv, BeforeLoops, Deciding, CandidatesExact, BestBidWins
<1>5. Filtering'
  <2>1. ToSet(candidates) = {} /\ {j \in 1 .. position : TRUE} = {}
    BY <1>2 DEF ToSet
  <2>2. {n \in {bucket'[j] : j \in 1 .. position'} : Matches(n)'} = {}
    BY <1>2
  <2>3. Increasing(candidates')
    BY <1>2 DEF Increasing
  <2> QED
    BY <1>1, <1>2, <2>1, <2>2, <2>3 DEF Filtering, Matches
<1>6. Understood' /\ BidsAreCandidates'
  BY UnderstoodStays, BidsStay DEF storeVars
<1> QED
  BY <1>1, <1>3, <1>4, <1>5, <1>6 DEF PipelineInv

\* Appending a greater one.
LEMMA AppendGreater ==
    ASSUME NEW s \in Seq(Nat), NEW n \in Nat
    PROVE  /\ ToSet(Append(s, n)) = ToSet(s) \cup {n}
           /\ \A j \in 1 .. Len(s) : s[j] \in ToSet(s)
           /\ Increasing(s) /\ (\A j \in 1 .. Len(s) : s[j] < n) => Increasing(Append(s, n))
<1> DEFINE t == Append(s, n)
<1>1. /\ DOMAIN s = 1 .. Len(s) /\ DOMAIN t = 1 .. Len(t) /\ Len(t) = Len(s) + 1 /\ Len(s) \in Nat
      /\ t[Len(s) + 1] = n /\ \A j \in 1 .. Len(s) : t[j] = s[j]
  OBVIOUS
<1>2. 1 .. Len(t) = 1 .. Len(s) \cup {Len(s) + 1}
  BY <1>1
<1> HIDE DEF t
<1>3. \A x : x \in ToSet(t) <=> x \in ToSet(s) \/ x = n
  BY <1>1, <1>2, Zenon DEF ToSet
<1>4. ToSet(t) = ToSet(s) \cup {n}
  BY <1>3
<1>5. \A j \in 1 .. Len(s) : s[j] \in ToSet(s)
  BY <1>1, Zenon DEF ToSet
<1>6. ASSUME Increasing(s), \A j \in 1 .. Len(s) : s[j] < n PROVE Increasing(t)
  <2> SUFFICES ASSUME NEW i \in 1 .. Len(t), NEW j \in 1 .. Len(t), i < j PROVE t[i] < t[j]
    BY DEF Increasing
  <2>1. i \in 1 .. Len(s)
    BY <1>1
  <2>2. CASE j \in 1 .. Len(s)
    BY <1>1, <1>6, <2>1, <2>2 DEF Increasing
  <2>3. CASE j = Len(s) + 1
    BY <1>1, <1>6, <2>1, <2>3
  <2> QED
    BY <1>1, <2>2, <2>3
<1> QED
  BY <1>4, <1>5, <1>6 DEF t

LEMMA FilterCampaignInv ==
    ASSUME PipelineInv, FilterCampaign
    PROVE  PipelineInv'
<1> DEFINE index == bucket[position + 1]
<1>1. /\ stage = "filter" /\ stage' = "filter" /\ position' = position + 1
      /\ UNCHANGED <<storeVars, stage, asked, answer, scratch, context, bucket, decision, drawn>>
      /\ candidates' = IF index < Len(snapshot.campaigns) /\ Matches(index)
                       THEN Append(candidates, index) ELSE candidates
  BY DEF FilterCampaign, Matches
<1>2. StoreInv' /\ StoreTypeOK' /\ loader' = loader /\ snapshot' = snapshot
  BY <1>1, StoreStays
<1>3. /\ bucket \in Seq(Nat) /\ candidates \in Seq(Nat) /\ position \in Nat
      /\ position + 1 \in 1 .. Len(bucket)
  BY DEF FilterCampaign, PipelineInv, TypeOK
<1>4. /\ bucket = choose_seed_bucket(snapshot, context)
      /\ ToSet(candidates) = {n \in {bucket[j] : j \in 1 .. position} : Matches(n)}
      /\ Increasing(candidates)
  BY <1>1 DEF PipelineInv, Filtering
<1>5. Increasing(bucket) /\ \A j \in 1 .. Len(bucket) : bucket[j] < Len(snapshot.campaigns)
  BY <1>4, SeedBucket DEF PipelineInv
<1>6. index \in Nat /\ index < Len(snapshot.campaigns)
  BY <1>3, <1>5
<1>7. candidates' \in Seq(Nat)
  BY <1>1, <1>3, <1>6
<1>8. TypeOK'
  BY <1>1, <1>2, <1>3, <1>7 DEF PipelineInv, TypeOK
<1>9. BeforeLoops' /\ Deciding' /\ CandidatesExact' /\ BestBidWins'
  BY <1>1 DEF PipelineInv, BeforeLoops, Deciding, CandidatesExact, BestBidWins
<1>10. {bucket[j] : j \in 1 .. position + 1} = {bucket[j] : j \in 1 .. position} \cup {index}
  BY <1>3
<1>11. \A n : Matches(n)' <=> Matches(n)
  BY <1>1, <1>2 DEF Matches
<1>12. Filtering'
  <2>1. CASE Matches(index)
    <3> HIDE DEF index
    <3>1. candidates' = Append(candidates, index)
      BY <1>1, <1>6, <2>1
    <3>2. ToSet(candidates') = ToSet(candidates) \cup {index}
      BY <1>3, <1>6, <3>1, AppendGreater
    <3>3. ToSet(candidates') = {n \in {bucket[j] : j \in 1 .. position + 1} : Matches(n)}
      BY <1>4, <1>10, <2>1, <3>2
    <3>4. \A j \in 1 .. Len(candidates) : candidates[j] < index
      <4>1. \A j \in 1 .. Len(candidates) : candidates[j] \in {bucket[k] : k \in 1 .. position}
        <5>1. \A j \in 1 .. Len(candidates) : candidates[j] \in ToSet(candidates)
          BY <1>3, <1>6, AppendGreater
        <5> QED
          BY <1>4, <5>1
      <4>2. \A k \in 1 .. position : bucket[k] < index
        BY <1>3, <1>5 DEF Increasing, index
      <4> QED
        BY <4>1, <4>2
    <3>5. Increasing(candidates')
      BY <1>3, <1>4, <1>6, <3>1, <3>4, AppendGreater
    <3> QED
      BY <1>1, <1>2, <1>4, <1>11, <3>3, <3>5 DEF Filtering
  <2>2. CASE ~Matches(index)
    <3>1. candidates' = candidates
      BY <1>1, <2>2
    <3> HIDE DEF index
    <3>2. ToSet(candidates') = {n \in {bucket[j] : j \in 1 .. position + 1} : Matches(n)}
      BY <1>4, <1>10, <2>2, <3>1
    <3> QED
      BY <1>1, <1>2, <1>4, <1>11, <3>1, <3>2 DEF Filtering
  <2> QED
    BY <2>1, <2>2
<1>13. drawn' = <<>>
  BY <1>1 DEF PipelineInv, BeforeLoops
<1>14. Understood' /\ BidsAreCandidates'
  BY <1>1, <1>13, UnderstoodStays DEF BidsAreCandidates
<1> QED
  BY <1>2, <1>8, <1>9, <1>12, <1>14 DEF PipelineInv

LEMMA StartDecisionInv ==
    ASSUME PipelineInv, StartDecision
    PROVE  PipelineInv'
<1>1. /\ stage = "filter" /\ position = Len(bucket) /\ position' = 0
      /\ decision' = NoDecision("kNoEligibleCampaign")
      /\ stage' \in {"decide", "respond"}
      /\ UNCHANGED <<storeVars, asked, answer, scratch, context, bucket, candidates, drawn>>
  BY DEF StartDecision
<1>2. StoreInv' /\ StoreTypeOK' /\ loader' = loader /\ snapshot' = snapshot
  BY <1>1, StoreStays
<1>3. ~decision'.has_bid /\ drawn = <<>> /\ is_eligible(context)
  BY <1>1 DEF NoDecision, PipelineInv, BeforeLoops
<1>4. TypeOK'
  BY <1>1, <1>2, <1>3 DEF PipelineInv, TypeOK
<1>5. BeforeLoops' /\ Filtering' /\ Deciding'
  BY <1>1, <1>3 DEF PipelineInv, BeforeLoops, Filtering, Deciding, BestOfDrawn
<1>6. /\ ToSet(candidates) = {n \in 0 .. Len(snapshot.campaigns) - 1 : Matches(n)}
      /\ Increasing(candidates)
  BY <1>1, SeedBucket DEF PipelineInv, Filtering
<1>7. CandidatesExact'
  BY <1>1, <1>2, <1>6 DEF CandidatesExact, Matches, Increasing
<1>8. BestBidWins'
  <2>1. stage' = "respond" => candidates = <<>>
    BY DEF StartDecision
  <2> QED
    BY <1>1, <1>3, <2>1 DEF BestBidWins
<1>9. Understood' /\ BidsAreCandidates'
  BY <1>1, UnderstoodStays, BidsStay DEF storeVars
<1> QED
  BY <1>2, <1>4, <1>5, <1>7, <1>8, <1>9 DEF PipelineInv

\* Every candidate has creatives, with ids: CreativesOwned and CreativesThere.
LEMMA CandidateCreatives ==
    ASSUME PipelineInv, stage = "decide", position < Len(candidates)
    PROVE  /\ CreativesOf(Candidate) # {}
           /\ Candidate.campaign_id \in Nat
           /\ \A creative \in CreativesOf(Candidate) : creative.creative_id \in Nat
<1> DEFINE n == candidates[position + 1] + 1
<1>1. candidates \in Seq(Nat) /\ position + 1 \in 1 .. Len(candidates)
  BY DEF PipelineInv, TypeOK
<1>2. /\ snapshot.campaigns \in Seq(CampaignRecords) /\ snapshot.creatives \in Seq(CreativeRecords)
  BY DEF PipelineInv, StoreInv, StoreTypeOK
<1>3. candidates[position + 1] \in 0 .. Len(snapshot.campaigns) - 1
  BY <1>1 DEF PipelineInv, CandidatesExact, ToSet
<1>4. n \in 1 .. Len(snapshot.campaigns)
  BY <1>2, <1>3
<1>5. /\ snapshot.campaigns[n].creative_count > 0
      /\ End(snapshot.campaigns[n]) <= Len(snapshot.creatives)
  BY <1>4 DEF PipelineInv, StoreInv, CreativesOwned, CreativesThere
<1> HIDE DEF n
<1>6. /\ snapshot.campaigns[n].creative_offset \in Nat /\ snapshot.campaigns[n].creative_count \in Nat
  BY <1>2, <1>4, CampaignTypes
<1>7. snapshot.campaigns[n] \in CampaignRecords
  BY <1>2, <1>4
<1>8. \A k \in 1 .. snapshot.campaigns[n].creative_count :
         snapshot.creatives[snapshot.campaigns[n].creative_offset + k] \in CreativeRecords
  <2> DEFINE offset == snapshot.campaigns[n].creative_offset
             count == snapshot.campaigns[n].creative_count
  <2>1. offset + count <= Len(snapshot.creatives)
    BY <1>5 DEF End
  <2>2. offset \in Nat /\ count \in Nat
    BY <1>6
  <2> HIDE DEF offset, count
  <2>3. \A k \in 1 .. count : offset + k \in 1 .. Len(snapshot.creatives)
    BY <1>2, <2>1, <2>2
  <2>4. \A k \in 1 .. count : snapshot.creatives[offset + k] \in CreativeRecords
    BY <1>2, <2>3
  <2> QED
    BY <2>4 DEF offset, count
<1>9. Candidate = snapshot.campaigns[n]
  BY DEF Candidate, n
<1>10. 1 \in 1 .. snapshot.campaigns[n].creative_count
  BY <1>5, <1>6
<1> QED
  BY <1>7, <1>8, <1>9, <1>10 DEF CreativesOf, CampaignRecords, CreativeRecords

LEMMA ConsiderCandidateInv ==
    ASSUME PipelineInv, ConsiderCandidate
    PROVE  PipelineInv'
<1>1. PICK creative \in CreativesOf(Candidate), price \in Prices :
         LET bid == BidOf(Candidate, creative, price)
         IN decision' = BestBid(bid) /\ drawn' = Append(drawn, bid)
  BY CandidateCreatives DEF ConsiderCandidate
<1> DEFINE bid == BidOf(Candidate, creative, price)
<1>2. /\ stage = "decide" /\ position < Len(candidates) /\ position' = position + 1
      /\ UNCHANGED <<storeVars, stage, asked, answer, scratch, context, bucket, candidates>>
  BY DEF ConsiderCandidate
<1>3. StoreInv' /\ StoreTypeOK' /\ loader' = loader /\ snapshot' = snapshot
  BY <1>2, StoreStays
<1>4. bid \in Bids /\ bid.has_bid /\ bid.bid_price = price
  BY <1>2, CandidateCreatives DEF BidOf, Bids
<1>5. drawn \in Seq(Bids) /\ Len(drawn) = position /\ BestOfDrawn
  BY <1>2 DEF PipelineInv, Deciding
<1> HIDE DEF bid
<1>6. /\ drawn' = Append(drawn, bid) /\ drawn' \in Seq(Bids) /\ Len(drawn') = Len(drawn) + 1
      /\ drawn'[Len(drawn) + 1] = bid
      /\ \A n \in 1 .. Len(drawn) : drawn'[n] = drawn[n]
      /\ decision' = BestBid(bid)
  BY <1>1, <1>4, <1>5 DEF bid
<1>7. \A n \in 1 .. Len(drawn) : drawn[n].bid_price \in Nat /\ drawn[n].has_bid
  <2>1. \A n \in 1 .. Len(drawn) : drawn[n] \in Bids
    BY <1>5
  <2> QED
    BY <2>1, BidRequestAssumption DEF Bids
<1>8. price \in Nat
  BY BidRequestAssumption
<1>9. BestOfDrawn'
  <2>1. CASE drawn = <<>>
    <3>1. decision' = bid
      BY <1>5, <1>6, <2>1 DEF BestBid, BestOfDrawn
    <3>2. Len(drawn') = 1 /\ drawn'[1] = bid
      BY <1>6, <2>1
    <3> QED
      BY <1>4, <1>6, <1>8, <3>1, <3>2 DEF BestOfDrawn
  <2>2. CASE drawn # <<>>
    <3>1. PICK best \in 1 .. Len(drawn) :
             /\ decision = drawn[best]
             /\ \A n \in 1 .. Len(drawn) :
                  /\ drawn[n].bid_price <= decision.bid_price
                  /\ n < best => drawn[n].bid_price < decision.bid_price
      BY <1>5, <2>2 DEF BestOfDrawn
    <3>2. decision.has_bid /\ decision.bid_price \in Nat
      BY <1>7, <3>1
    <3>3. drawn' # <<>>
      BY <1>5, <1>6
    <3>4. CASE price <= decision.bid_price
      <4>1. decision' = decision
        BY <1>4, <1>6, <3>2, <3>4 DEF BestBid
      <4>2. \A n \in 1 .. Len(drawn') :
               /\ drawn'[n].bid_price <= decision.bid_price
               /\ n < best => drawn'[n].bid_price < decision.bid_price
        BY <1>4, <1>5, <1>6, <3>1, <3>4
      <4>3. best \in 1 .. Len(drawn') /\ decision = drawn'[best]
        BY <1>5, <1>6, <3>1
      <4> QED
        BY <3>3, <4>1, <4>2, <4>3 DEF BestOfDrawn
    <3>5. CASE ~(price <= decision.bid_price)
      <4>1. decision' = bid
        BY <1>4, <1>6, <3>5 DEF BestBid
      <4>2. \A n \in 1 .. Len(drawn) : drawn[n].bid_price < price
        BY <1>7, <1>8, <3>1, <3>2, <3>5
      <4>3. \A n \in 1 .. Len(drawn') :
               /\ drawn'[n].bid_price <= bid.bid_price
               /\ n < Len(drawn) + 1 => drawn'[n].bid_price < bid.bid_price
        BY <1>4, <1>5, <1>6, <1>7, <1>8, <4>2
      <4>4. Len(drawn) + 1 \in 1 .. Len(drawn')
        BY <1>5, <1>6
      <4> QED
        BY <1>6, <3>3, <4>1, <4>3, <4>4 DEF BestOfDrawn
    <3> QED
      BY <3>4, <3>5
  <2> QED
    BY <2>1, <2>2
<1>10. Deciding'
  BY <1>2, <1>5, <1>6, <1>9 DEF Deciding
<1>11. TypeOK'
  <2>1. decision'.has_bid => decision'.bid_price \in Prices
    BY <1>4, <1>6 DEF BestBid, PipelineInv, TypeOK
  <2>2. position' \in Nat /\ position' <= Len(candidates)
    BY <1>2 DEF PipelineInv, TypeOK
  <2> QED
    BY <1>2, <1>3, <2>1, <2>2 DEF PipelineInv, TypeOK
<1>12. BeforeLoops' /\ Filtering' /\ BestBidWins'
  BY <1>2 DEF PipelineInv, BeforeLoops, Filtering, BestBidWins
<1>13. CandidatesExact'
  BY <1>2, <1>3 DEF PipelineInv, CandidatesExact
<1>14. Understood'
  BY <1>2, UnderstoodStays
<1>15. BidsAreCandidates'
  <2>1. \A b, n : IsBidOf(b, n)' <=> IsBidOf(b, n)
    BY <1>3 DEF IsBidOf, CreativesOf
  <2>2. candidates[position + 1] \in ToSet(candidates)
    <3>1. candidates \in Seq(Nat) /\ position + 1 \in 1 .. Len(candidates)
      BY <1>2 DEF PipelineInv, TypeOK
    <3> QED
      BY <3>1 DEF ToSet
  <2>3. IsBidOf(bid, candidates[position + 1])
    BY DEF IsBidOf, bid, Candidate
  <2> SUFFICES ASSUME NEW k \in 1 .. Len(drawn')
               PROVE  \E n \in ToSet(candidates) : IsBidOf(drawn'[k], n)
    BY <1>2, <2>1 DEF BidsAreCandidates
  <2>4. CASE k \in 1 .. Len(drawn)
    BY <1>6, <2>4 DEF PipelineInv, BidsAreCandidates
  <2>5. CASE k = Len(drawn) + 1
    BY <1>6, <2>2, <2>3, <2>5
  <2> QED
    BY <1>5, <1>6, <2>4, <2>5
<1> QED
  BY <1>3, <1>10, <1>11, <1>12, <1>13, <1>14, <1>15 DEF PipelineInv

LEMMA EndDecisionInv ==
    ASSUME PipelineInv, EndDecision
    PROVE  PipelineInv'
<1> USE DEF EndDecision
<1>1. StoreInv' /\ StoreTypeOK' /\ loader' = loader /\ snapshot' = snapshot
  BY StoreStays
<1>2. TypeOK'
  BY <1>1 DEF PipelineInv, TypeOK
<1>3. BeforeLoops' /\ Filtering' /\ Deciding'
  BY DEF PipelineInv, BeforeLoops, Filtering, Deciding
<1>4. CandidatesExact'
  BY <1>1 DEF PipelineInv, CandidatesExact
<1>5. BestBidWins'
  BY DEF PipelineInv, Deciding, BestOfDrawn, BestBidWins
<1>6. Understood' /\ BidsAreCandidates'
  BY UnderstoodStays, BidsStay DEF storeVars
<1> QED
  BY <1>1, <1>2, <1>3, <1>4, <1>5, <1>6 DEF PipelineInv

LEMMA BuildResponseInv ==
    ASSUME PipelineInv, BuildResponse
    PROVE  PipelineInv'
<1>1. answer' # Pending
  BY DEF BuildResponse, Bid, NoBid, Response, Pending
<1> QED
  BY <1>1, FreshInv DEF BuildResponse, PipelineInv, TypeOK

-----------------------------------------------------------------------------
LEMMA PipelineStepInv == PipelineInv /\ [Next]_vars => PipelineInv'
<1> SUFFICES ASSUME PipelineInv, [Next]_vars PROVE PipelineInv'
  OBVIOUS
<1>1. CASE StoreNext /\ UNCHANGED requestVars
  BY <1>1, StoreStepsInv
<1>2. ASSUME NEW frame \in Frames, Receive(frame) PROVE PipelineInv'
  BY <1>2, ReceiveInv
<1>3. CASE ParseBidRequest
  BY <1>3, ParseBidRequestInv
<1>4. CASE Contextualise
  BY <1>4, ContextualiseInv
<1>5. CASE ChooseSeed
  BY <1>5, ChooseSeedInv
<1>6. CASE FilterCampaign
  BY <1>6, FilterCampaignInv
<1>7. CASE StartDecision
  BY <1>7, StartDecisionInv
<1>8. CASE ConsiderCandidate
  BY <1>8, ConsiderCandidateInv
<1>9. CASE EndDecision
  BY <1>9, EndDecisionInv
<1>10. CASE BuildResponse
  BY <1>10, BuildResponseInv
<1>11. CASE UNCHANGED vars
  <2>1. UNCHANGED storeVars /\ UNCHANGED <<stage, asked, answer, scratch, context, bucket,
                                          position, candidates, decision, drawn>>
    BY <1>11 DEF vars, requestVars
  <2>2. StoreInv' /\ StoreTypeOK' /\ loader' = loader /\ snapshot' = snapshot
    BY <2>1, StoreStays
  <2>3. TypeOK' /\ BeforeLoops' /\ Deciding'
    BY <2>1, <2>2 DEF PipelineInv, TypeOK, BeforeLoops, Deciding, BestOfDrawn
  <2>4. Filtering'
    BY <2>1, <2>2 DEF PipelineInv, Filtering, Matches
  <2>5. CandidatesExact' /\ BestBidWins'
    BY <2>1, <2>2 DEF PipelineInv, CandidatesExact, BestBidWins
  <2>6. Understood' /\ BidsAreCandidates'
    BY <2>1, <2>2, BidsStay DEF PipelineInv, Understood, HasAllFields
  <2> QED
    BY <2>2, <2>3, <2>4, <2>5, <2>6 DEF PipelineInv
<1> QED
  BY <1>1, <1>2, <1>3, <1>4, <1>5, <1>6, <1>7, <1>8, <1>9, <1>10, <1>11 DEF Next, Handle

\* The invariant of the pipeline, for any campaign file and any frames.
THEOREM PipelineInvariant == Spec => []PipelineInv
  BY PipelineInitInv, PipelineStepInv, PTL DEF Spec

\* The state of a request's handling has its types, the worker's parse_scratch among it:
\* it holds one frame's message, never two.
THEOREM PipelineTypeCorrect == Spec => []TypeOK
<1>1. PipelineInv => TypeOK
  BY DEF PipelineInv
<1> QED
  BY <1>1, PipelineInvariant, PTL

\* No frame that is handled spoils the store: what the loader has made of the file stays.
THEOREM StoreStaysTheFile == Spec => [](IndexesExact /\ CreativesOwned /\ SnapshotIsTheFile)
<1>1. PipelineInv => IndexesExact /\ CreativesOwned /\ SnapshotIsTheFile
  BY DEF PipelineInv, StoreInv, FileSoFar, SnapshotIsTheFile
<1> QED
  BY <1>1, PipelineInvariant, PTL

\* retrieve_candidates finds what a scan of all campaigns would, in their order, for any
\* campaigns and whichever bucket choose_seed_bucket takes.
THEOREM CandidatesAreExact == Spec => []CandidatesExact
<1>1. PipelineInv => CandidatesExact
  BY DEF PipelineInv
<1> QED
  BY <1>1, PipelineInvariant, PTL

\* make_bid_decision bids for every candidate, since each has a creative, and keeps the
\* first of the highest bids, for any prices.
THEOREM BestBidIsKept == Spec => []BestBidWins
<1>1. PipelineInv => BestBidWins
  BY DEF PipelineInv
<1> QED
  BY <1>1, PipelineInvariant, PTL

-----------------------------------------------------------------------------
(***************************************************************************)
(* The engine answers as Auction does.  Auction's words are those of this    *)
(* specification: it has them from the same modules.                        *)
(***************************************************************************)
LEMMA SameKeys ==
    /\ \A x : Engine!normalize_country_key(x) = normalize_country_key(x)
    /\ \A x : Engine!normalize_device_type_key(x) = normalize_device_type_key(x)
    /\ \A x : Engine!normalize_ad_slot_key(x) = normalize_ad_slot_key(x)
    /\ Engine!AdSlotKeyOf = AdSlotKeyOf
    /\ Engine!NoSlotKey = NoSlotKey
<1>1. \A x : Engine!normalize_country_key(x) = normalize_country_key(x)
  BY DEF Engine!normalize_country_key, normalize_country_key, Engine!to_upper_ascii, to_upper_ascii
<1>2. \A x : Engine!normalize_device_type_key(x) = normalize_device_type_key(x)
  BY DEF Engine!normalize_device_type_key, normalize_device_type_key
<1>3. ASSUME NEW x PROVE Engine!normalize_ad_slot_key(x) = normalize_ad_slot_key(x)
  BY DEF Engine!normalize_ad_slot_key, normalize_ad_slot_key, Engine!FoldLeft, FoldLeft,
         Engine!XorByte, XorByte, Engine!MapThenFoldSet, MapThenFoldSet,
         Engine!MapThenSumSet, MapThenSumSet, Engine!Bit, Bit, Engine!Max, Max
<1>4. Engine!AdSlotKeyOf = AdSlotKeyOf
  BY <1>3 DEF Engine!AdSlotKeyOf, AdSlotKeyOf
<1>5. Engine!NoSlotKey = NoSlotKey
  BY DEF Engine!NoSlotKey, NoSlotKey
<1> QED
  BY <1>1, <1>2, <1>3, <1>4, <1>5

LEMMA SameLines ==
    /\ \A line, n : Engine!IsSkipped(line, n) <=> IsSkipped(line, n)
    /\ \A line : Engine!IsCampaign(line) <=> IsCampaign(line)
    /\ \A lines : Engine!Offers(lines) = Offers(lines)
<1>1. \A line, n : Engine!IsSkipped(line, n) <=> IsSkipped(line, n)
  BY DEF Engine!IsSkipped, IsSkipped
<1>2. \A line : /\ Engine!CountryKey(line) = CountryKey(line)
                /\ Engine!DeviceTypeKey(line) = DeviceTypeKey(line)
                /\ Engine!AdSlotKey(line) = AdSlotKey(line)
  BY SameKeys DEF Engine!CountryKey, CountryKey, Engine!DeviceTypeKey, DeviceTypeKey,
                  Engine!AdSlotKey, AdSlotKey
<1>3. \A line : Engine!HasKeys(line) <=> HasKeys(line)
  BY <1>2, SameKeys DEF Engine!HasKeys, HasKeys
<1>4. \A line : Engine!IsCampaign(line) <=> IsCampaign(line)
  BY <1>3 DEF Engine!IsCampaign, IsCampaign, Engine!Garbage, Garbage, Engine!Blank, Blank
<1>5. \A line : Engine!Offer(line) = Offer(line)
  BY <1>2 DEF Engine!Offer, Offer, Engine!ToSet, ToSet, Engine!Blank, Blank
<1>6. ASSUME NEW lines PROVE Engine!Offers(lines) = Offers(lines)
  BY <1>5 DEF Engine!Offers, Offers, Engine!ToSet, ToSet
<1> QED
  BY <1>1, <1>4, <1>6

LEMMA SameFrames ==
    /\ \A fields : Engine!Decoded(fields) = Decoded(fields)
    /\ \A x : Engine!map_auction_type(x) = map_auction_type(x)
    /\ \A r : Engine!NoBid(r) = NoBid(r)
    /\ \A r, c, k, p : Engine!Bid(r, c, k, p) = Bid(r, c, k, p)
    /\ Engine!Closed = Closed /\ Engine!Pending = Pending
    /\ Engine!Nothing = Nothing /\ Engine!NoFrame = NoFrame
<1>1. \A fields : Engine!Decoded(fields) = Decoded(fields)
  BY DEF Engine!Decoded, Decoded, Engine!Defaults, Defaults
<1>2. \A x : Engine!map_auction_type(x) = map_auction_type(x)
  BY DEF Engine!map_auction_type, map_auction_type
<1>3. \A r : Engine!NoBid(r) = NoBid(r)
  BY DEF Engine!NoBid, NoBid, Engine!Response, Response
<1>4. \A r, c, k, p : Engine!Bid(r, c, k, p) = Bid(r, c, k, p)
  BY DEF Engine!Bid, Bid, Engine!Response, Response
<1>5. /\ Engine!Closed = Closed /\ Engine!Pending = Pending
      /\ Engine!Nothing = Nothing /\ Engine!NoFrame = NoFrame
  BY DEF Engine!Closed, Closed, Engine!Pending, Pending, Engine!Nothing, Nothing,
         Engine!NoFrame, NoFrame
<1> QED
  BY <1>1, <1>2, <1>3, <1>4, <1>5

\* Each line read stands for an offer, and each offer for a campaign line, that is active.
LEMMA CatalogueLines ==
    ASSUME StoreInv, loader = "loaded"
    PROVE  /\ \A k \in 1 .. line_number :
                 file[k].kind = "campaign" /\ file[k].active => Offer(file[k]) \in Catalogue
           /\ \A offer \in Catalogue : \E k \in 1 .. line_number :
                 file[k].kind = "campaign" /\ file[k].active /\ offer = Offer(file[k])
<1> DEFINE read == SubSeq(file, 1, line_number)
<1>1. file \in Seq(Lines) /\ line_number \in 0 .. Len(file)
  BY CampaignFileAssumption DEF StoreInv, StoreTypeOK
<1>2. DOMAIN read = 1 .. line_number /\ \A k \in 1 .. line_number : read[k] = file[k]
  BY <1>1
<1> HIDE DEF read
<1>3. \A line : line \in ToSet(read) <=> \E k \in 1 .. line_number : line = file[k]
  BY <1>2, Zenon DEF ToSet
<1>4. Catalogue = Offers(read)
  BY DEF Catalogue, read
<1>5. \A offer : offer \in Offers(read) <=>
         \E line \in ToSet(read) : line.kind = "campaign" /\ line.active /\ offer = Offer(line)
  BY Zenon DEF Offers
<1>6. ASSUME NEW k \in 1 .. line_number, file[k].kind = "campaign" /\ file[k].active
      PROVE  Offer(file[k]) \in Catalogue
  BY <1>3, <1>4, <1>5, <1>6, Zenon
<1>7. ASSUME NEW offer \in Catalogue
      PROVE  \E k \in 1 .. line_number :
                file[k].kind = "campaign" /\ file[k].active /\ offer = Offer(file[k])
  <2>1. PICK line \in ToSet(read) : line.kind = "campaign" /\ line.active /\ offer = Offer(line)
    BY <1>4, <1>5, Zenon
  <2> QED
    BY <1>3, <2>1, Zenon
<1> QED
  BY <1>6, <1>7

\* Every active campaign of the snapshot is offered, with its creatives.
LEMMA CampaignOffered ==
    ASSUME StoreInv, loader = "loaded", NEW i \in 1 .. Len(snapshot.campaigns),
           snapshot.campaigns[i].active
    PROVE  \E offer \in Catalogue :
              /\ offer.keys = <<snapshot.campaigns[i].country_key,
                                snapshot.campaigns[i].device_type_key,
                                snapshot.campaigns[i].ad_slot_key>>
              /\ offer.campaign_id = snapshot.campaigns[i].campaign_id
              /\ \A creative \in CreativesOf(snapshot.campaigns[i]) :
                    creative.creative_id \in offer.creatives
<1> DEFINE campaign == snapshot.campaigns[i]
           numbers == {k \in 1 .. line_number : file[k].kind = "campaign"}
<1>1. PICK from \in [1 .. Len(snapshot.campaigns) -> 1 .. line_number] :
         /\ Lists(from, numbers)
         /\ \A j \in 1 .. Len(snapshot.campaigns) :
               IsOf(snapshot.campaigns[j], file[from[j]], snapshot.creatives)
  BY DEF StoreInv, FileSoFar, HasRead
<1> DEFINE line == file[from[i]]
<1>2. from[i] \in numbers
  <2>1. i \in DOMAIN from
    OBVIOUS
  <2> QED
    BY <1>1, <2>1, Zenon DEF Lists
<1>3. line.kind = "campaign" /\ from[i] \in 1 .. line_number
  BY <1>2
<1>4. IsOf(campaign, line, snapshot.creatives)
  BY <1>1
<1> HIDE DEF campaign, line
<1>5. line.active
  BY <1>4 DEF IsOf, campaign
<1>6. Offer(line) \in Catalogue
  BY <1>3, <1>5, CatalogueLines DEF line
<1>7. ASSUME NEW creative \in CreativesOf(campaign)
      PROVE  creative.creative_id \in ToSet(line.tokens) \ {Blank}
  <2> DEFINE offset == campaign.creative_offset
             count == campaign.creative_count
             tokens == line.tokens
             ids == {k \in 1 .. Len(tokens) : tokens[k] # Blank}
  <2>1. PICK n \in 1 .. count : creative = snapshot.creatives[offset + n]
    BY DEF CreativesOf
  <2>2. PICK places \in [1 .. count -> 1 .. Len(tokens)] :
           /\ Lists(places, ids)
           /\ \A m \in 1 .. count : snapshot.creatives[offset + m].creative_id = tokens[places[m]]
    BY <1>4 DEF IsOf, HaveIds
  <2>3. places[n] \in ids
    <3>1. n \in DOMAIN places
      BY <2>1, <2>2
    <3> QED
      BY <2>2, <3>1, Zenon DEF Lists
  <2>4. tokens \in Seq(Nat \cup {Blank, Garbage})
    <3>1. file \in Seq(Lines) /\ from[i] \in 1 .. Len(file)
      BY <1>3, CampaignFileAssumption DEF StoreInv, StoreTypeOK
    <3> QED
      BY <1>3, <3>1, CampaignFileAssumption DEF line
  <2>5. places[n] \in DOMAIN tokens /\ tokens[places[n]] # Blank
    BY <2>3, <2>4
  <2>6. creative.creative_id = tokens[places[n]]
    BY <2>1, <2>2
  <2> QED
    BY <2>5, <2>6, Zenon DEF ToSet
<1>8. /\ Offer(line).keys = <<campaign.country_key, campaign.device_type_key, campaign.ad_slot_key>>
      /\ Offer(line).campaign_id = campaign.campaign_id
      /\ Offer(line).creatives = ToSet(line.tokens) \ {Blank}
  BY <1>4 DEF Offer, IsOf
<1> QED
  BY <1>6, <1>7, <1>8 DEF campaign

\* And nothing else is.
LEMMA OfferedIsCampaign ==
    ASSUME StoreInv, loader = "loaded", NEW offer \in Catalogue
    PROVE  \E i \in 1 .. Len(snapshot.campaigns) :
              /\ snapshot.campaigns[i].active
              /\ offer.keys = <<snapshot.campaigns[i].country_key,
                                snapshot.campaigns[i].device_type_key,
                                snapshot.campaigns[i].ad_slot_key>>
<1> DEFINE numbers == {k \in 1 .. line_number : file[k].kind = "campaign"}
<1>1. PICK from \in [1 .. Len(snapshot.campaigns) -> 1 .. line_number] :
         /\ Lists(from, numbers)
         /\ \A j \in 1 .. Len(snapshot.campaigns) :
               IsOf(snapshot.campaigns[j], file[from[j]], snapshot.creatives)
  BY DEF StoreInv, FileSoFar, HasRead
<1>2. PICK k \in 1 .. line_number :
         file[k].kind = "campaign" /\ file[k].active /\ offer = Offer(file[k])
  BY CatalogueLines
<1>3. k \in numbers
  BY <1>2
<1> HIDE DEF numbers
<1>4. PICK i \in 1 .. Len(snapshot.campaigns) : from[i] = k
  <2>1. DOMAIN from = 1 .. Len(snapshot.campaigns)
    OBVIOUS
  <2> QED
    BY <1>1, <1>3, <2>1, Zenon DEF Lists
<1>5. IsOf(snapshot.campaigns[i], file[k], snapshot.creatives)
  BY <1>1, <1>4
<1>6. /\ snapshot.campaigns[i].active
      /\ Offer(file[k]).keys = <<snapshot.campaigns[i].country_key,
                                 snapshot.campaigns[i].device_type_key,
                                 snapshot.campaigns[i].ad_slot_key>>
  BY <1>2, <1>5 DEF IsOf, Offer
<1> QED
  BY <1>2, <1>6

LEMMA NoDeviceType == normalize_device_type_key("") = "kUnknown"
  BY Zenon DEF normalize_device_type_key

\* What a request is, in the words of this specification.
LEMMA RequestsAre ==
    ASSUME NEW frame, NEW request, request = Decoded(frame.fields)
    PROVE  Engine!IsRequest(frame) <=>
           /\ frame.complete
           /\ request.request_id # ""
           /\ request.country # <<>> /\ normalize_country_key(request.country) # 0
           /\ normalize_device_type_key(request.device_type) # "kUnknown"
           /\ request.ad_slot # <<>> /\ AdSlotKeyOf[request.ad_slot] # NoSlotKey
           /\ map_auction_type(request.auction_type) # "kUnspecified"
<1>1. Engine!Decoded(frame.fields) = request
  BY SameFrames
<1>2. Engine!normalize_country_key(request.country) = normalize_country_key(request.country)
  BY SameKeys
<1>3. Engine!normalize_device_type_key(request.device_type) = normalize_device_type_key(request.device_type)
  BY SameKeys
<1>4. Engine!map_auction_type(request.auction_type) = map_auction_type(request.auction_type)
  BY SameFrames
<1>5. Engine!AdSlotKeyOf = AdSlotKeyOf /\ Engine!NoSlotKey = NoSlotKey
  BY SameKeys
<1> QED
  BY <1>1, <1>2, <1>3, <1>4, <1>5, Zenon DEF Engine!IsRequest

\* The same, in the words of parse_bid_request and validate_request_context.
LEMMA ContextOfRequest ==
    ASSUME asked \in Frames, scratch = Decoded(asked.fields)
    PROVE  LET ctx == Validated(build_request_context(scratch, 0))
           IN /\ Engine!IsRequest(asked) <=>
                    asked.complete /\ HasAllFields(scratch) /\ ctx.no_bid_reason # "kInvalidRequest"
              /\ ctx.no_bid_reason # "kInvalidRequest" =>
                    (is_eligible(ctx) <=> ~(scratch.tmax_ms <= 1))
              /\ ctx.country_key = normalize_country_key(scratch.country)
              /\ ctx.device_type_key = normalize_device_type_key(scratch.device_type)
              /\ ctx.ad_slot_key = AdSlotKeyOf[scratch.ad_slot]
<1> DEFINE built == build_request_context(scratch, 0)
           ctx == Validated(built)
           deadline == compute_deadline_ns(0, scratch.tmax_ms)
<1>1. /\ built.country_key = normalize_country_key(scratch.country)
      /\ built.device_type_key = normalize_device_type_key(scratch.device_type)
      /\ built.ad_slot_key = AdSlotKeyOf[scratch.ad_slot]
      /\ built.auction_type = map_auction_type(scratch.auction_type)
      /\ built.processing_status = (IF deadline <= 0 THEN "kExpired" ELSE "kOk")
      /\ built.no_bid_reason = (IF deadline <= 0 THEN "kDeadlineExceeded" ELSE "kNone")
      /\ DOMAIN built = DOMAIN NoContext
  BY DEF build_request_context, NoContext
<1>2. scratch.tmax_ms \in Nat
  BY BidRequestAssumption
<1>3. deadline <= 0 <=> scratch.tmax_ms <= 1
  BY <1>2 DEF compute_deadline_ns, kNsPerMs, kResponseSafetyMarginNs
<1> DEFINE Meaningless == \/ built.country_key = 0 \/ built.device_type_key = "kUnknown"
                          \/ built.ad_slot_key = NoSlotKey \/ built.auction_type = "kUnspecified"
<1>4. Engine!IsRequest(asked) <=> asked.complete /\ HasAllFields(scratch) /\ ~Meaningless
  <2>1. Engine!IsRequest(asked) <=>
           /\ asked.complete
           /\ scratch.request_id # ""
           /\ scratch.country # <<>> /\ normalize_country_key(scratch.country) # 0
           /\ normalize_device_type_key(scratch.device_type) # "kUnknown"
           /\ scratch.ad_slot # <<>> /\ AdSlotKeyOf[scratch.ad_slot] # NoSlotKey
           /\ map_auction_type(scratch.auction_type) # "kUnspecified"
    BY RequestsAre, Zenon
  <2>2. scratch.device_type = "" => normalize_device_type_key(scratch.device_type) = "kUnknown"
    BY NoDeviceType, Zenon
  <2> HIDE DEF built
  <2> QED
    BY <1>1, <2>1, <2>2, Zenon DEF HasAllFields
<1> HIDE DEF built, deadline
<1>5. ctx.no_bid_reason = "kInvalidRequest" <=> Meaningless
  BY <1>1 DEF Validated, NoContext
<1>6. ~Meaningless => ctx = built
  BY <1>1 DEF Validated
<1>7. /\ ctx.country_key = built.country_key /\ ctx.device_type_key = built.device_type_key
      /\ ctx.ad_slot_key = built.ad_slot_key
  BY <1>1 DEF Validated, NoContext
<1>8. ~Meaningless => (is_eligible(ctx) <=> ~(scratch.tmax_ms <= 1))
  BY <1>1, <1>3, <1>6 DEF is_eligible
<1> HIDE DEF ctx, Meaningless
<1> QED
  BY <1>1, <1>4, <1>5, <1>7, <1>8 DEF ctx, built

\* Every frame that is refused is no request, and only then is it refused.
LEMMA RefusedIsNoRequest ==
    ASSUME PipelineInv, ParseBidRequest \/ Contextualise, Refuse
    PROVE  answer' \in Engine!Permitted(asked)
<1>1. stage \in {"parse", "context"} /\ asked \in Frames
  BY DEF ParseBidRequest, Contextualise, PipelineInv, BeforeLoops
<1>2. answer' = Closed
  BY DEF Refuse
<1>3. ~Engine!IsRequest(asked)
  <2>1. CASE ParseBidRequest
    <3>1. scratch' = Decoded(asked.fields) /\ asked' = asked
      BY <2>1 DEF ParseBidRequest, ParseFromArray
    <3>2. ~(asked.complete /\ HasAllFields(Decoded(asked.fields)))
      BY <2>1, <3>1 DEF ParseBidRequest, Refuse
    <3> DEFINE request == Decoded(asked.fields)
    <3>3. request.device_type = "" => normalize_device_type_key(request.device_type) = "kUnknown"
      BY NoDeviceType, Zenon
    <3> HIDE DEF request
    <3>4. Engine!IsRequest(asked) =>
           /\ asked.complete
           /\ request.request_id # ""
           /\ request.country # <<>> /\ normalize_country_key(request.country) # 0
           /\ normalize_device_type_key(request.device_type) # "kUnknown"
           /\ request.ad_slot # <<>> /\ AdSlotKeyOf[request.ad_slot] # NoSlotKey
           /\ map_auction_type(request.auction_type) # "kUnspecified"
      BY RequestsAre, Zenon DEF request
    <3> QED
      BY <3>2, <3>3, <3>4, Zenon DEF HasAllFields, request
  <2>2. CASE Contextualise
    <3> DEFINE ctx == Validated(build_request_context(scratch, 0))
    <3>1. stage = "context" /\ scratch = Decoded(asked.fields)
      BY <2>2 DEF Contextualise, PipelineInv, Understood
    <3> HIDE DEF ctx
    <3>2. ctx.no_bid_reason = "kInvalidRequest"
      BY <2>2 DEF Contextualise, Refuse, ctx
    <3> QED
      BY <1>1, <3>1, <3>2, ContextOfRequest DEF ctx
  <2> QED
    BY <2>1, <2>2
<1> QED
  BY <1>2, <1>3, SameFrames DEF Engine!Permitted

\* The response is one Auction permits.
LEMMA ResponsePermitted ==
    ASSUME PipelineInv, BuildResponse
    PROVE  answer' \in Engine!Permitted(asked)
<1> DEFINE request == Decoded(asked.fields)
           campaigns == snapshot.campaigns
<1>1. /\ stage = "respond" /\ asked \in Frames /\ loader = "loaded" /\ StoreInv
      /\ scratch = request /\ asked.complete /\ HasAllFields(scratch)
      /\ context = Validated(build_request_context(scratch, 0))
      /\ context.no_bid_reason # "kInvalidRequest"
  BY DEF BuildResponse, PipelineInv, BeforeLoops, Understood, TypeOK
<1>2. /\ Engine!IsRequest(asked)
      /\ is_eligible(context) <=> ~(request.tmax_ms <= 1)
      /\ context.country_key = normalize_country_key(request.country)
      /\ context.device_type_key = normalize_device_type_key(request.device_type)
      /\ context.ad_slot_key = AdSlotKeyOf[request.ad_slot]
  BY <1>1, ContextOfRequest
<1> DEFINE keys == <<context.country_key, context.device_type_key, context.ad_slot_key>>
           for == {offer \in Catalogue : offer.keys = keys}
<1>3. Engine!For(request) = for
  BY <1>2, SameKeys DEF Engine!For
<1>4. Engine!Decoded(asked.fields) = request
  BY SameFrames
<1> HIDE DEF request
<1>5. answer' = IF decision.has_bid
                THEN Bid(request.request_id, decision.campaign_id, decision.creative_id,
                         decision.bid_price)
                ELSE NoBid(request.request_id)
  BY <1>1 DEF BuildResponse
<1>6. CASE ~is_eligible(context)
  <2>1. ~decision.has_bid
    BY <1>1, <1>6 DEF PipelineInv, Understood
  <2> QED
    BY <1>2, <1>4, <1>5, <1>6, <2>1, SameFrames DEF Engine!Permitted
<1>7. CASE is_eligible(context)
  <2>1. campaigns \in Seq(CampaignRecords) /\ candidates \in Seq(Nat) /\ drawn \in Seq(Bids)
    BY <1>1 DEF PipelineInv, TypeOK, StoreTypeOK, Deciding
  <2>2. /\ ToSet(candidates) = {n \in 0 .. Len(campaigns) - 1 : Matches(n)}
        /\ Len(drawn) = Len(candidates) /\ BestOfDrawn
    BY <1>1, <1>7 DEF PipelineInv, CandidatesExact, Matches, BestBidWins, BestOfDrawn
  <2>3. CASE drawn = <<>>
    <3>1. ToSet(candidates) = {}
      BY <2>1, <2>2, <2>3 DEF ToSet
    <3>2. for = {}
      <4> SUFFICES ASSUME NEW offer \in Catalogue, offer.keys = keys PROVE FALSE
        OBVIOUS
      <4>1. PICK i \in 1 .. Len(campaigns) :
               /\ campaigns[i].active
               /\ offer.keys = <<campaigns[i].country_key, campaigns[i].device_type_key,
                                 campaigns[i].ad_slot_key>>
        BY <1>1, OfferedIsCampaign
      <4>2. i - 1 \in 0 .. Len(campaigns) - 1 /\ (i - 1) + 1 = i
        BY <2>1
      <4>3. Matches(i - 1)
        BY <4>1, <4>2 DEF Matches, matches_request
      <4> QED
        BY <2>2, <3>1, <4>2, <4>3
    <3>3. answer' = NoBid(request.request_id)
      BY <1>5, <2>2, <2>3 DEF BestOfDrawn
    <3> HIDE DEF for
    <3> QED
      BY <1>2, <1>3, <1>4, <3>2, <3>3, SameFrames DEF Engine!Permitted
  <2>4. CASE drawn # <<>>
    <3>1. PICK best \in 1 .. Len(drawn) : decision = drawn[best]
      BY <2>2, <2>4 DEF BestOfDrawn
    <3>2. PICK n \in ToSet(candidates) : IsBidOf(drawn[best], n)
      BY DEF PipelineInv, BidsAreCandidates
    <3> DEFINE campaign == campaigns[n + 1]
    <3>3. PICK creative \in CreativesOf(campaign), price \in Prices :
             decision = BidOf(campaign, creative, price)
      BY <3>1, <3>2 DEF IsBidOf
    <3>4. n + 1 \in 1 .. Len(campaigns) /\ Matches(n)
      <4>1. n \in {m \in 0 .. Len(campaigns) - 1 : Matches(m)}
        BY <2>2
      <4>2. n \in 0 .. Len(campaigns) - 1 /\ Matches(n)
        BY <4>1
      <4> QED
        BY <2>1, <4>2
    <3>5. /\ campaign.active /\ campaign.country_key = context.country_key
          /\ campaign.device_type_key = context.device_type_key
          /\ campaign.ad_slot_key = context.ad_slot_key
      BY <3>4 DEF Matches, matches_request
    <3>6. PICK offer \in Catalogue :
             /\ offer.keys = <<campaign.country_key, campaign.device_type_key, campaign.ad_slot_key>>
             /\ offer.campaign_id = campaign.campaign_id
             /\ \A c \in CreativesOf(campaign) : c.creative_id \in offer.creatives
      BY <1>1, <3>4, <3>5, CampaignOffered
    <3>7. offer \in for
      BY <3>5, <3>6
    <3> HIDE DEF campaign, for
    <3>8. answer' = Bid(request.request_id, offer.campaign_id, creative.creative_id, price)
      BY <1>5, <3>3, <3>6 DEF BidOf
    <3> DEFINE bids(o) == {Bid(request.request_id, o.campaign_id, c, p) :
                             c \in o.creatives, p \in Prices}
    <3>9. answer' \in bids(offer)
      BY <3>3, <3>6, <3>8
    <3>10. answer' \in UNION {bids(o) : o \in for}
      BY <3>7, <3>9
    <3>11. for # {} /\ ~(request.tmax_ms <= 1)
      BY <1>2, <1>7, <3>7
    <3> QED
      BY <1>2, <1>3, <1>4, <3>10, <3>11, SameFrames DEF Engine!Permitted
  <2> QED
    BY <2>3, <2>4
<1> QED
  BY <1>6, <1>7

-----------------------------------------------------------------------------
LEMMA EngineInit == Init => Engine!Init
  BY SameFrames DEF Init, StoreInit, Engine!Init, Catalogue

\* The file is read: the catalogue is what its lines offer.
LEMMA EndOfFileLoads ==
    ASSUME PipelineInv, EndOfFile, UNCHANGED requestVars
    PROVE  Engine!Load
<1>1. /\ loader = "lines" /\ loader' = "loaded" /\ line_number' = line_number /\ file' = file
      /\ line_number = Len(file) \/ ReadMayFail
      /\ UNCHANGED <<asked, answer>>
  BY DEF EndOfFile, requestVars
<1>2. file \in Files /\ line_number \in 0 .. Len(file) /\ HasRead(line_number)
  BY <1>1 DEF PipelineInv, StoreInv, StoreTypeOK, FileSoFar
<1>3. \A k \in 1 .. line_number : Engine!IsSkipped(file[k], k) \/ Engine!IsCampaign(file[k])
  BY <1>2, SameLines DEF HasRead
<1>4. Catalogue' = Engine!Offers(SubSeq(file, 1, line_number))
  BY <1>1, SameLines DEF Catalogue
<1>5. \E f \in Files : \E n \in 0 .. Len(f) :
         /\ n = Len(f) \/ ReadMayFail
         /\ \A k \in 1 .. n : Engine!IsSkipped(f[k], k) \/ Engine!IsCampaign(f[k])
         /\ Catalogue' = Engine!Offers(SubSeq(f, 1, n))
  BY <1>1, <1>2, <1>3, <1>4
<1>6. ~(loader = "loaded") /\ (loader = "loaded")'
  BY <1>1
<1>7. UNCHANGED <<asked, answer>>
  BY <1>1
<1> QED
  BY <1>5, <1>6, <1>7, Zenon DEF Engine!Load

\* Until then nothing is promised.
LEMMA LoadingStutters ==
    ASSUME StoreNext, ~EndOfFile, UNCHANGED requestVars
    PROVE  UNCHANGED Engine!vars
<1>1. loader # "loaded" /\ loader' # "loaded"
  BY DEF StoreNext, Open, SkipLine, RejectLine, StartCampaign, ParseCreative, AppendCampaign,
         RejectCampaign, Fail
<1>2. (loader = "loaded")' = (loader = "loaded") /\ Catalogue' = Catalogue
  BY <1>1 DEF Catalogue
<1>3. UNCHANGED <<asked, answer>>
  BY DEF requestVars
<1> QED
  BY <1>2, <1>3 DEF Engine!vars

\* A stage that gives no answer yet stutters.
LEMMA StageStutters ==
    ASSUME UNCHANGED <<storeVars, asked, answer>>
    PROVE  UNCHANGED Engine!vars
  BY DEF storeVars, Catalogue, Engine!vars

\* A stage that gives one that is permitted answers.
LEMMA StageAnswers ==
    ASSUME PipelineInv, stage # "idle", UNCHANGED <<storeVars, asked>>,
           answer' \in Engine!Permitted(asked)
    PROVE  Engine!Answer
<1>1. answer = Engine!Pending
  BY SameFrames DEF PipelineInv, TypeOK
<1>2. UNCHANGED <<loader = "loaded", Catalogue, asked>>
  BY DEF storeVars, Catalogue
<1> QED
  BY <1>1, <1>2 DEF Engine!Answer

LEMMA ReceiveAsks ==
    ASSUME PipelineInv, NEW frame \in Frames, Receive(frame)
    PROVE  Engine!Ask
<1>1. loader = "loaded" /\ answer # Pending /\ answer' = Pending /\ asked' \in Frames
  BY DEF Receive, PipelineInv, Understood
<1>2. UNCHANGED <<loader = "loaded", Catalogue>>
  BY DEF Receive, storeVars, Catalogue
<1> QED
  BY <1>1, <1>2, SameFrames DEF Engine!Ask

LEMMA EngineStep == PipelineInv /\ [Next]_vars => [Engine!Next]_(Engine!vars)
<1> SUFFICES ASSUME PipelineInv, [Next]_vars PROVE Engine!Next \/ UNCHANGED Engine!vars
  BY DEF Engine!Next
<1>1. CASE StoreNext /\ UNCHANGED requestVars
  BY <1>1, EndOfFileLoads, LoadingStutters DEF Engine!Next
<1>2. ASSUME NEW frame \in Frames, Receive(frame) PROVE Engine!Next
  BY <1>2, ReceiveAsks DEF Engine!Next
<1>3. CASE ParseBidRequest
  <2>1. stage = "parse" /\ UNCHANGED <<storeVars, asked>>
    BY <1>3 DEF ParseBidRequest
  <2>2. CASE Refuse
    BY <1>3, <2>1, <2>2, RefusedIsNoRequest, StageAnswers DEF Engine!Next
  <2>3. CASE UNCHANGED answer
    BY <2>1, <2>3, StageStutters
  <2> QED
    BY <1>3, <2>2, <2>3 DEF ParseBidRequest
<1>4. CASE Contextualise
  <2>1. stage = "context" /\ UNCHANGED <<storeVars, asked>>
    BY <1>4 DEF Contextualise
  <2>2. CASE Refuse
    BY <1>4, <2>1, <2>2, RefusedIsNoRequest, StageAnswers DEF Engine!Next
  <2>3. CASE UNCHANGED answer
    BY <2>1, <2>3, StageStutters
  <2> QED
    BY <1>4, <2>2, <2>3 DEF Contextualise
<1>5. CASE ChooseSeed \/ FilterCampaign \/ StartDecision \/ ConsiderCandidate \/ EndDecision
  <2>1. UNCHANGED <<storeVars, asked, answer>>
    BY <1>5 DEF ChooseSeed, FilterCampaign, StartDecision, ConsiderCandidate, EndDecision
  <2> QED
    BY <2>1, StageStutters
<1>6. CASE BuildResponse
  <2>1. stage # "idle" /\ UNCHANGED <<storeVars, asked>>
    BY <1>6 DEF BuildResponse
  <2> QED
    BY <1>6, <2>1, ResponsePermitted, StageAnswers DEF Engine!Next
<1>7. CASE UNCHANGED vars
  <2>1. UNCHANGED <<storeVars, asked, answer>>
    BY <1>7 DEF vars, requestVars
  <2> QED
    BY <2>1, StageStutters
<1> QED
  BY <1>1, <1>2, <1>3, <1>4, <1>5, <1>6, <1>7 DEF Next, Handle

\* handle_request, stage by stage, with its indexes, its loops and the message it uses over
\* and over, answers every frame as Auction does: from the frame and the lines of the
\* campaign file alone.  For any file, any frames and any prices.
THEOREM PipelineImplementsAuction == Spec => ImplementsAuction
  BY PipelineInvariant, EngineInit, EngineStep, PTL DEF Spec, ImplementsAuction, Engine!Spec
=============================================================================
