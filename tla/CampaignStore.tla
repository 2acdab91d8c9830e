---------------------------- MODULE CampaignStore ----------------------------
(***************************************************************************)
(* load_campaign_store_snapshot: the campaign file is read line by line,    *)
(* each campaign's creatives are appended one by one, then the campaign, and *)
(* its index to two buckets.  A line that cannot be read fails the load.     *)
(***************************************************************************)
EXTENDS CampaignFile

VARIABLES
    file,         \* what the campaign file holds
    loader,       \* where the load is: "open", "lines", "creatives", "loaded", "failed"
    line_number,
    token,        \* the tokens of the line that are done
    creative_offset,
    snapshot      \* the CampaignStoreSnapshot

storeVars == <<file, loader, line_number, token, creative_offset, snapshot>>

EmptySnapshot == [campaigns |-> <<>>, creatives |-> <<>>,
                  campaigns_by_country |-> <<>>, campaigns_by_ad_slot |-> <<>>]

-----------------------------------------------------------------------------
\* The line getline returns next, and the campaign it has returned.
NextLine == file[line_number + 1]
Line == file[line_number]

Open ==
    /\ loader = "open"
    /\ loader' \in {"lines", "failed"}
    /\ UNCHANGED <<file, line_number, token, creative_offset, snapshot>>

SkipLine ==
    /\ loader = "lines"
    /\ line_number < Len(file)
    /\ IsSkipped(NextLine, line_number + 1)
    /\ line_number' = line_number + 1
    /\ UNCHANGED <<file, loader, token, creative_offset, snapshot>>

\* nullptr is returned, and the snapshot goes with its last pointer.
Fail == loader' = "failed" /\ snapshot' = EmptySnapshot

\* A slip: the line is logged and passed over.
PassOver ==
    /\ loader = "lines"
    /\ line_number < Len(file)
    /\ ~IsSkipped(NextLine, line_number + 1)
    /\ ~HasKeys(NextLine)
    /\ line_number' = line_number + 1
    /\ UNCHANGED <<file, loader, token, creative_offset, snapshot>>

RejectLine ==
    /\ loader = "lines"
    /\ line_number < Len(file)
    /\ ~IsSkipped(NextLine, line_number + 1)
    /\ ~HasKeys(NextLine)
    /\ line_number' = line_number + 1
    /\ Fail
    /\ UNCHANGED <<file, token, creative_offset>>

\* append_campaign_line, up to parse_creative_specs.
StartCampaign ==
    /\ loader = "lines"
    /\ line_number < Len(file)
    /\ HasKeys(NextLine)
    /\ line_number' = line_number + 1
    /\ token' = 0
    /\ creative_offset' = Len(snapshot.creatives)
    /\ loader' = "creatives"
    /\ UNCHANGED <<file, snapshot>>

\* One token: an id is appended to the creatives of the snapshot at once.
ParseCreative ==
    /\ loader = "creatives"
    /\ token < Len(Line.tokens)
    /\ token' = token + 1
    /\ LET spec == Line.tokens[token + 1]
           creative == [creative_id |-> spec, ad_slot_key |-> AdSlotKey(Line)]
       IN CASE spec = Blank   -> UNCHANGED <<loader, snapshot>>
            [] spec = Garbage -> Fail
            [] OTHER          -> /\ snapshot' = [snapshot EXCEPT !.creatives = Append(@, creative)]
                                 /\ UNCHANGED loader
    /\ UNCHANGED <<file, line_number, creative_offset>>

\* index[key].push_back(i)
PushBack(index, key, i) ==
    [k \in DOMAIN index \cup {key} |->
       IF k # key THEN index[k]
       ELSE IF k \in DOMAIN index THEN Append(index[k], i) ELSE <<i>>]

\* The record of the line's campaign, with the creatives from creative_offset on.
Campaign(line, offset, count) ==
    [campaign_id     |-> line.campaign_id,
     country_key     |-> CountryKey(line),
     device_type_key |-> DeviceTypeKey(line),
     ad_slot_key     |-> AdSlotKey(line),
     creative_offset |-> offset,
     creative_count  |-> count,
     active          |-> line.active]

creative_count == Len(snapshot.creatives) - creative_offset

\* A slip: the index of the campaign after this one.
AppendThenIndex ==
    /\ loader = "creatives"
    /\ token = Len(Line.tokens)
    /\ creative_count > 0
    /\ snapshot' =
         [snapshot EXCEPT
            !.campaigns = Append(@, Campaign(Line, creative_offset, creative_count)),
            !.campaigns_by_country = PushBack(@, CountryKey(Line), Len(snapshot.campaigns) + 1),
            !.campaigns_by_ad_slot = PushBack(@, AdSlotKey(Line), Len(snapshot.campaigns))]
    /\ loader' = "lines"
    /\ UNCHANGED <<file, line_number, token, creative_offset>>

\* A slip: a campaign starts where the one before it did.
OffsetKept ==
    /\ loader = "creatives"
    /\ token = Len(Line.tokens)
    /\ creative_count > 0
    /\ snapshot' =
         [snapshot EXCEPT
            !.campaigns = Append(@, Campaign(Line, 0, Len(snapshot.creatives))),
            !.campaigns_by_country = PushBack(@, CountryKey(Line), Len(snapshot.campaigns)),
            !.campaigns_by_ad_slot = PushBack(@, AdSlotKey(Line), Len(snapshot.campaigns))]
    /\ loader' = "lines"
    /\ UNCHANGED <<file, line_number, token, creative_offset>>

\* All tokens were read: the campaign is appended and indexed, counting from 0.
AppendCampaign ==
    /\ loader = "creatives"
    /\ token = Len(Line.tokens)
    /\ creative_count > 0
    /\ snapshot' =
         [snapshot EXCEPT
            !.campaigns = Append(@, Campaign(Line, creative_offset, creative_count)),
            !.campaigns_by_country = PushBack(@, CountryKey(Line), Len(snapshot.campaigns)),
            !.campaigns_by_ad_slot = PushBack(@, AdSlotKey(Line), Len(snapshot.campaigns))]
    /\ loader' = "lines"
    /\ UNCHANGED <<file, line_number, token, creative_offset>>

RejectCampaign ==
    /\ loader = "creatives"
    /\ token = Len(Line.tokens)
    /\ creative_count = 0
    /\ Fail
    /\ UNCHANGED <<file, line_number, token, creative_offset>>

\* getline ends the loop: at the end of the file, or because a read failed (the path
\* of a directory can be opened, not read), which nothing looks at.
EndOfFile ==
    /\ loader = "lines"
    /\ line_number = Len(file) \/ ReadMayFail
    /\ loader' = "loaded"
    /\ UNCHANGED <<file, line_number, token, creative_offset, snapshot>>

StoreInit ==
    /\ file \in Files
    /\ loader = "open"
    /\ line_number = 0
    /\ token = 0
    /\ creative_offset = 0
    /\ snapshot = EmptySnapshot

StoreNext ==
    \/ Open \/ SkipLine \/ RejectLine \/ StartCampaign \/ ParseCreative
    \/ AppendCampaign \/ RejectCampaign \/ EndOfFile

StoreSpec == StoreInit /\ [][StoreNext]_storeVars

-----------------------------------------------------------------------------
(***************************************************************************)
(* What must hold.                                                         *)
(***************************************************************************)
CampaignLines == {line \in Lines : HasKeys(line)}
CountryKeys == {CountryKey(line) : line \in CampaignLines}
DeviceTypeKeys == {"kDesktop", "kMobile", "kTablet", "kConnectedTv"}
AdSlotKeys == {AdSlotKey(line) : line \in CampaignLines}

CampaignRecords == [campaign_id : Nat, country_key : CountryKeys,
                    device_type_key : DeviceTypeKeys, ad_slot_key : AdSlotKeys,
                    creative_offset : Nat, creative_count : Nat, active : BOOLEAN]
CreativeRecords == [creative_id : Nat, ad_slot_key : AdSlotKeys]

\* The type of every variable.
StoreTypeOK ==
    /\ file \in Files
    /\ loader \in {"open", "lines", "creatives", "loaded", "failed"}
    /\ line_number \in 0 .. Len(file)
    /\ token \in Nat /\ creative_offset \in Nat
    /\ loader = "creatives" => /\ line_number > 0 /\ Line \in CampaignLines
                               /\ token <= Len(Line.tokens)
                               /\ creative_offset <= Len(snapshot.creatives)
    /\ DOMAIN snapshot = {"campaigns", "creatives", "campaigns_by_country", "campaigns_by_ad_slot"}
    /\ snapshot.campaigns \in Seq(CampaignRecords)
    /\ snapshot.creatives \in Seq(CreativeRecords)
    /\ \A key \in DOMAIN snapshot.campaigns_by_country :
          snapshot.campaigns_by_country[key] \in Seq(Nat)
    /\ \A key \in DOMAIN snapshot.campaigns_by_ad_slot :
          snapshot.campaigns_by_ad_slot[key] \in Seq(Nat)

\* The numbers, each once and in their order.
Lists(list, numbers) ==
    /\ {list[i] : i \in DOMAIN list} = numbers
    /\ \A i, j \in DOMAIN list : i < j => list[i] < list[j]

\* An index of a sequence of keys: each key has the places it is at, counted from 0.
IsIndexOf(index, keys) ==
    /\ DOMAIN index = {keys[n] : n \in 1 .. Len(keys)}
    /\ \A key \in DOMAIN index :
          Lists(index[key], {n \in 0 .. Len(keys) - 1 : keys[n + 1] = key})

CountryKeysOf(campaigns) == [n \in 1 .. Len(campaigns) |-> campaigns[n].country_key]
AdSlotKeysOf(campaigns) == [n \in 1 .. Len(campaigns) |-> campaigns[n].ad_slot_key]

\* The two indexes agree with the campaigns, and so with each other: a request finds the
\* same campaigns by either.
IndexesExact ==
    /\ IsIndexOf(snapshot.campaigns_by_country, CountryKeysOf(snapshot.campaigns))
    /\ IsIndexOf(snapshot.campaigns_by_ad_slot, AdSlotKeysOf(snapshot.campaigns))

\* The creatives from one campaign's offset to the next one's are its own, at least
\* one, for its slot; none belongs to two campaigns, and outside a line being read
\* none to nobody.
End(campaign) == campaign.creative_offset + campaign.creative_count

CreativesOwned ==
    LET campaigns == snapshot.campaigns
        start(n) == IF n = 1 THEN 0 ELSE End(campaigns[n - 1])
    IN /\ \A n \in 1 .. Len(campaigns) :
            /\ campaigns[n].creative_offset = start(n)
            /\ campaigns[n].creative_count > 0
            /\ \A k \in start(n) + 1 .. End(campaigns[n]) :
                  snapshot.creatives[k].ad_slot_key = campaigns[n].ad_slot_key
       /\ start(Len(campaigns) + 1) =
            IF loader = "creatives" THEN creative_offset ELSE Len(snapshot.creatives)

\* The creatives after the first `offset` are those of the first n tokens, blanks aside.
HaveIds(creatives, offset, count, tokens, n) ==
    \E from \in [1 .. count -> 1 .. n] :
       /\ Lists(from, {k \in 1 .. n : tokens[k] # Blank})
       /\ \A i \in 1 .. count : creatives[offset + i].creative_id = tokens[from[i]]

\* The campaign a line asks for.
IsOf(campaign, line, creatives) ==
    /\ campaign.campaign_id = line.campaign_id
    /\ campaign.country_key = CountryKey(line)
    /\ campaign.device_type_key = DeviceTypeKey(line)
    /\ campaign.ad_slot_key = AdSlotKey(line)
    /\ campaign.active = line.active
    /\ HaveIds(creatives, campaign.creative_offset, campaign.creative_count, line.tokens,
               Len(line.tokens))

\* The first n lines are good, and the campaigns are theirs.
HasRead(n) ==
    /\ \A k \in 1 .. n : IsSkipped(file[k], k) \/ IsCampaign(file[k])
    /\ \E from \in [1 .. Len(snapshot.campaigns) -> 1 .. n] :
          /\ Lists(from, {k \in 1 .. n : file[k].kind = "campaign"})
          /\ \A i \in 1 .. Len(snapshot.campaigns) :
                IsOf(snapshot.campaigns[i], file[from[i]], snapshot.creatives)

\* All or nothing: a loaded snapshot has every campaign of the file and nothing else,
\* in the file's order; a file with one bad line gives no snapshot.  When the reading
\* failed this holds of the lines before the failure.
SnapshotIsTheFile ==
    loader = "loaded" => HasRead(line_number) /\ (ReadMayFail \/ line_number = Len(file))
=============================================================================
