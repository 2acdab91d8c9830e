-------------------------- MODULE SampleCampaigns --------------------------
(***************************************************************************)
(* Names and lines for small campaign files.  Two of the ad slots have the   *)
(* same hash, and one has the hash 0.                                       *)
(***************************************************************************)
EXTENDS CampaignFile

US == <<85, 83>>
us == <<117, 115>>
CA == <<67, 65>>
USA == <<85, 83, 65>>

liquid == <<108, 105, 113, 117, 105, 100>>
costarring == <<99, 111, 115, 116, 97, 114, 114, 105, 110, 103>>
top == <<116, 111, 112>>
hash_zero == <<43, 33, 61, 121, 71>>

SomeAdSlots == {<<>>, liquid, costarring, top, hash_zero}

ASSUME normalize_ad_slot_key(liquid) = normalize_ad_slot_key(costarring)
ASSUME normalize_ad_slot_key(liquid) = <<24141, 43677>>
ASSUME normalize_ad_slot_key(hash_zero) = NoSlotKey

OfCampaign(id, country, device_type, ad_slot, active, tokens) ==
    [kind |-> "campaign", campaign_id |-> id, country |-> country, device_type |-> device_type,
     ad_slot |-> ad_slot, active |-> active, tokens |-> tokens]

Skipped == [kind |-> "skipped"]
Header == [kind |-> "header"]
Malformed == [kind |-> "malformed"]

GoodLines == {OfCampaign(1, US, "desktop", liquid, TRUE, <<101, 102>>),
              OfCampaign(2, us, "mobile", costarring, TRUE, <<Blank, 201>>),
              OfCampaign(3, CA, "ctv", liquid, FALSE, <<301>>),
              OfCampaign(4, US, "desktop", top, TRUE, <<401, 402>>)}
BadLines == {Malformed,
             OfCampaign(5, USA, "desktop", top, TRUE, <<501>>),
             OfCampaign(6, US, "Desktop", top, TRUE, <<601>>),
             OfCampaign(7, US, "tablet", hash_zero, TRUE, <<701>>),
             OfCampaign(8, US, "tablet", top, TRUE, <<801, Garbage>>),
             OfCampaign(9, US, "tablet", top, TRUE, <<Blank>>)}

AllLines == GoodLines \cup BadLines \cup {Skipped, Header}
=============================================================================
