---------------------------- MODULE CampaignFile ----------------------------
(***************************************************************************)
(* The campaign file.  A line is blank or a comment ("skipped"), the header, *)
(* one whose number of fields, numbers or flag cannot be parsed             *)
(* ("malformed"), or a campaign with its names and its creative tokens as    *)
(* they are in the file.                                                    *)
(***************************************************************************)
EXTENDS Normalize

CONSTANTS Lines,       \* the lines there may be
          Files,       \* the contents the file may have
          AdSlots,     \* the names of ad slots, in files and requests
          ReadMayFail  \* whether reading may fail after the file was opened

\* A token of the creatives field: an id, nothing between two delimiters, or no number.
Blank == -1
Garbage == -2

ASSUME CampaignFileAssumption ==
    /\ \A line \in Lines :
          /\ line.kind \in {"skipped", "header", "malformed", "campaign"}
          /\ line.kind = "campaign" => /\ line.campaign_id \in Nat
                                       /\ line.ad_slot \in AdSlots
                                       /\ line.active \in BOOLEAN
                                       /\ line.tokens \in Seq(Nat \cup {Blank, Garbage})
    /\ Files \subseteq Seq(Lines)
    /\ ReadMayFail \in BOOLEAN

AdSlotKeyOf == [name \in AdSlots |-> normalize_ad_slot_key(name)]

\* The keys of a line's names.
CountryKey(line) == normalize_country_key(line.country)
DeviceTypeKey(line) == normalize_device_type_key(line.device_type)
AdSlotKey(line) == AdSlotKeyOf[line.ad_slot]

HasKeys(line) ==
    /\ line.kind = "campaign"
    /\ CountryKey(line) # 0
    /\ DeviceTypeKey(line) # "kUnknown"
    /\ AdSlotKey(line) # NoSlotKey

\* getline skips nothing: a header is one only on the first line.
IsSkipped(line, number) == line.kind = "skipped" \/ (line.kind = "header" /\ number = 1)

\* A line that stands for a campaign.
IsCampaign(line) ==
    /\ HasKeys(line)
    /\ \A k \in 1 .. Len(line.tokens) : line.tokens[k] # Garbage
    /\ \E k \in 1 .. Len(line.tokens) : line.tokens[k] # Blank

\* What the active campaigns among some lines offer.
Offer(line) ==
    [keys        |-> <<CountryKey(line), DeviceTypeKey(line), AdSlotKey(line)>>,
     campaign_id |-> line.campaign_id,
     creatives   |-> ToSet(line.tokens) \ {Blank}]

Offers(lines) ==
    {Offer(line) : line \in {l \in ToSet(lines) : l.kind = "campaign" /\ l.active}}
=============================================================================
