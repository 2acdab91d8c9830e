------------------------- MODULE CampaignStoreProofs -------------------------
(***************************************************************************)
(* Proofs about CampaignStore, for any files.  The hash of the ad slots and *)
(* the other keys are not looked into.                                      *)
(***************************************************************************)
EXTENDS CampaignStore, TLAPS

\* All campaigns' creatives are there, and those of the line being read are for its slot.
CreativesThere ==
    /\ \A n \in 1 .. Len(snapshot.campaigns) : End(snapshot.campaigns[n]) <= Len(snapshot.creatives)
    /\ loader = "creatives" =>
          \A k \in creative_offset + 1 .. Len(snapshot.creatives) :
              snapshot.creatives[k].ad_slot_key = AdSlotKey(Line)

\* What has been read so far is in the snapshot: the lines before the one being read, and of
\* that one the tokens that are done.
FileSoFar ==
    /\ loader \in {"open", "lines", "loaded"} => HasRead(line_number)
    /\ loader = "creatives" =>
          /\ HasRead(line_number - 1)
          /\ \A k \in 1 .. token : Line.tokens[k] # Garbage
          /\ HaveIds(snapshot.creatives, creative_offset, creative_count, Line.tokens, token)
    /\ loader = "loaded" => ReadMayFail \/ line_number = Len(file)

\* The inductive invariant.
StoreInv == StoreTypeOK /\ IndexesExact /\ CreativesOwned /\ CreativesThere /\ FileSoFar

-----------------------------------------------------------------------------
\* A list grows at its end by a number above all others.
LEMMA ListsGrow ==
    ASSUME NEW c \in Nat, NEW list, NEW longer, NEW numbers \in SUBSET Int, NEW next \in Int,
           DOMAIN list = 1 .. c, DOMAIN longer = 1 .. c + 1,
           \A i \in 1 .. c : longer[i] = list[i],
           longer[c + 1] = next,
           Lists(list, numbers),
           \A x \in numbers : x < next
    PROVE  Lists(longer, numbers \cup {next})
<1>1. \A i \in 1 .. c : list[i] \in numbers
  BY DEF Lists
<1>2. \A i, j \in 1 .. c : i < j => list[i] < list[j]
  BY DEF Lists
<1>3. 1 .. c + 1 = 1 .. c \cup {c + 1}
  OBVIOUS
<1>4. \A x : (\E i \in 1 .. c : x = list[i]) <=> x \in numbers
  BY Zenon DEF Lists
<1>5. \A x : (\E i \in 1 .. c + 1 : x = longer[i]) <=> x \in numbers \/ x = next
  BY <1>3, <1>4, Zenon
<1>6. {longer[i] : i \in DOMAIN longer} = numbers \cup {next}
  BY <1>5, Zenon
<1>7. ASSUME NEW i \in 1 .. c + 1, NEW j \in 1 .. c + 1, i < j
      PROVE  longer[i] < longer[j]
  <2>1. i \in 1 .. c /\ longer[i] = list[i]
    BY <1>7
  <2>2. CASE j \in 1 .. c
    BY <1>2, <1>7, <2>1, <2>2
  <2>3. CASE j = c + 1
    BY <1>1, <2>1, <2>3
  <2> QED
    BY <2>2, <2>3
<1> QED
  BY <1>6, <1>7 DEF Lists

\* push_back keeps an index an index.
LEMMA PushBackKeepsIndex ==
    ASSUME NEW K, NEW keys \in Seq(K), NEW key \in K, NEW index,
           \A k \in DOMAIN index : index[k] \in Seq(Nat),
           IsIndexOf(index, keys)
    PROVE  /\ IsIndexOf(PushBack(index, key, Len(keys)), Append(keys, key))
           /\ \A k \in DOMAIN PushBack(index, key, Len(keys)) :
                 PushBack(index, key, Len(keys))[k] \in Seq(Nat)
<1> DEFINE index2 == PushBack(index, key, Len(keys))
           keys2 == Append(keys, key)
           Places(s, k) == {n \in 0 .. Len(s) - 1 : s[n + 1] = k}
<1>1. /\ Len(keys2) = Len(keys) + 1
      /\ keys2[Len(keys) + 1] = key
      /\ \A n \in 1 .. Len(keys) : keys2[n] = keys[n]
  OBVIOUS
<1>2. DOMAIN index2 = DOMAIN index \cup {key}
  BY DEF PushBack
<1>3. DOMAIN index2 = {keys2[n] : n \in 1 .. Len(keys2)}
  BY <1>1, <1>2 DEF IsIndexOf
<1>4. ASSUME NEW k \in DOMAIN index2
      PROVE  index2[k] \in Seq(Nat) /\ Lists(index2[k], Places(keys2, k))
  <2>1. CASE k # key
    <3>1. k \in DOMAIN index /\ index2[k] = index[k]
      BY <2>1, <1>2 DEF PushBack
    <3>2. Places(keys2, k) = Places(keys, k)
      BY <1>1, <2>1
    <3> QED
      BY <3>1, <3>2 DEF IsIndexOf
  <2>2. CASE k = key /\ key \in DOMAIN index
    <3> DEFINE old == index[key]
    <3>1. index2[k] = Append(old, Len(keys)) /\ old \in Seq(Nat)
      BY <2>2 DEF PushBack
    <3>2. /\ Len(old) \in Nat /\ DOMAIN old = 1 .. Len(old)
          /\ DOMAIN index2[k] = 1 .. Len(old) + 1
          /\ index2[k][Len(old) + 1] = Len(keys)
          /\ \A j \in 1 .. Len(old) : index2[k][j] = old[j]
      BY <3>1
    <3>3. Lists(old, Places(keys, key))
      BY <2>2 DEF IsIndexOf
    <3>4. Places(keys2, key) = Places(keys, key) \cup {Len(keys)}
      BY <1>1
    <3>5. /\ Places(keys, key) \in SUBSET Int /\ Len(keys) \in Int
          /\ \A x \in Places(keys, key) : x < Len(keys)
      OBVIOUS
    <3> HIDE DEF old, index2, Places
    <3>6. Lists(index2[k], Places(keys2, key))
      BY <3>2, <3>3, <3>4, <3>5, ListsGrow
    <3> QED
      BY <2>2, <3>1, <3>6
  <2>3. CASE k = key /\ key \notin DOMAIN index
    <3>1. index2[k] = <<Len(keys)>>
      BY <2>3, <1>2 DEF PushBack
    <3>2. \A n \in 1 .. Len(keys) : keys[n] # key
      BY <2>3 DEF IsIndexOf
    <3>3. Places(keys2, key) = {Len(keys)}
      BY <1>1, <3>2
    <3> QED
      BY <2>3, <3>1, <3>3 DEF Lists
  <2> QED
    BY <2>1, <2>2, <2>3
<1> QED
  BY <1>3, <1>4 DEF IsIndexOf

-----------------------------------------------------------------------------
\* A line that starts a campaign is one of CampaignLines.
LEMMA LinesOfTheFile ==
    ASSUME file \in Files, NEW n \in 1 .. Len(file)
    PROVE  file \in Seq(Lines) /\ file[n] \in Lines
  BY CampaignFileAssumption

LEMMA CampaignLineTypes ==
    ASSUME NEW line \in CampaignLines
    PROVE  /\ line.campaign_id \in Nat /\ line.active \in BOOLEAN
           /\ line.tokens \in Seq(Nat \cup {Blank, Garbage})
           /\ CountryKey(line) \in CountryKeys
           /\ DeviceTypeKey(line) \in DeviceTypeKeys
           /\ AdSlotKey(line) \in AdSlotKeys
<1>1. line \in Lines /\ line.kind = "campaign" /\ DeviceTypeKey(line) # "kUnknown"
  BY DEF CampaignLines, HasKeys
<1>2. DeviceTypeKey(line) \in DeviceTypeKeys
  BY <1>1 DEF DeviceTypeKey, normalize_device_type_key, DeviceTypeKeys
<1> QED
  BY <1>1, <1>2, CampaignFileAssumption DEF CountryKeys, AdSlotKeys

LEMMA CampaignTypes ==
    ASSUME NEW campaigns \in Seq(CampaignRecords), NEW n \in 1 .. Len(campaigns)
    PROVE  /\ campaigns[n].creative_offset \in Nat /\ campaigns[n].creative_count \in Nat
           /\ End(campaigns[n]) \in Nat
           /\ campaigns[n].country_key \in CountryKeys
           /\ campaigns[n].ad_slot_key \in AdSlotKeys
<1>1. campaigns[n] \in CampaignRecords
  OBVIOUS
<1> QED
  BY <1>1 DEF CampaignRecords, End

\* One more number at the end of a list of some of the numbers up to n.
Extended(list, c, n) == [i \in 1 .. c + 1 |-> IF i = c + 1 THEN n + 1 ELSE list[i]]

LEMMA ExtendedLists ==
    ASSUME NEW c \in Nat, NEW n \in Nat, NEW list \in [1 .. c -> 1 .. n],
           NEW numbers \in SUBSET (1 .. n), Lists(list, numbers)
    PROVE  /\ Extended(list, c, n) \in [1 .. c + 1 -> 1 .. n + 1]
           /\ Extended(list, c, n)[c + 1] = n + 1
           /\ \A i \in 1 .. c : Extended(list, c, n)[i] = list[i]
           /\ Lists(Extended(list, c, n), numbers \cup {n + 1})
<1> DEFINE longer == Extended(list, c, n)
<1>1. longer \in [1 .. c + 1 -> 1 .. n + 1]
  BY DEF Extended
<1>2. longer[c + 1] = n + 1 /\ \A i \in 1 .. c : longer[i] = list[i]
  BY DEF Extended
<1>3. DOMAIN list = 1 .. c /\ DOMAIN longer = 1 .. c + 1
  BY DEF Extended
<1>4. numbers \in SUBSET Int /\ n + 1 \in Int /\ \A x \in numbers : x < n + 1
  OBVIOUS
<1> HIDE DEF longer
<1>5. Lists(longer, numbers \cup {n + 1})
  BY <1>2, <1>3, <1>4, ListsGrow
<1> QED
  BY <1>1, <1>2, <1>5 DEF longer

\* Another token: a blank adds no creative, an id adds its own.
LEMMA HaveIdsBlank ==
    ASSUME NEW creatives, NEW offset \in Nat, NEW count \in Nat, NEW tokens, NEW n \in Nat,
           HaveIds(creatives, offset, count, tokens, n), tokens[n + 1] = Blank
    PROVE  HaveIds(creatives, offset, count, tokens, n + 1)
<1> DEFINE before == {k \in 1 .. n : tokens[k] # Blank}
           after == {k \in 1 .. n + 1 : tokens[k] # Blank}
<1>1. PICK from \in [1 .. count -> 1 .. n] :
         /\ Lists(from, before)
         /\ \A i \in 1 .. count : creatives[offset + i].creative_id = tokens[from[i]]
  BY DEF HaveIds
<1>2. from \in [1 .. count -> 1 .. n + 1]
  OBVIOUS
<1>3. before = after
  OBVIOUS
<1>4. Lists(from, after)
  BY <1>1, <1>3
<1> QED
  BY <1>1, <1>2, <1>4, Zenon DEF HaveIds

LEMMA HaveIdsMore ==
    ASSUME NEW creatives, NEW longer, NEW offset \in Nat, NEW count \in Nat, NEW tokens, NEW n \in Nat,
           HaveIds(creatives, offset, count, tokens, n), tokens[n + 1] # Blank,
           \A i \in 1 .. count : longer[offset + i] = creatives[offset + i],
           longer[offset + (count + 1)].creative_id = tokens[n + 1]
    PROVE  HaveIds(longer, offset, count + 1, tokens, n + 1)
<1> DEFINE before == {k \in 1 .. n : tokens[k] # Blank}
           after == {k \in 1 .. n + 1 : tokens[k] # Blank}
<1>1. PICK from \in [1 .. count -> 1 .. n] :
         /\ Lists(from, before)
         /\ \A i \in 1 .. count : creatives[offset + i].creative_id = tokens[from[i]]
  BY DEF HaveIds
<1> DEFINE from2 == Extended(from, count, n)
<1>2. /\ from2 \in [1 .. count + 1 -> 1 .. n + 1]
      /\ Lists(from2, before \cup {n + 1})
      /\ from2[count + 1] = n + 1
      /\ \A i \in 1 .. count : from2[i] = from[i]
  <2>1. before \in SUBSET (1 .. n)
    OBVIOUS
  <2>2. Lists(from, before)
    BY <1>1
  <2> HIDE DEF before
  <2> QED
    BY <2>1, <2>2, ExtendedLists
<1> HIDE DEF from2
<1>3. before \cup {n + 1} = after
  OBVIOUS
<1>4. ASSUME NEW i \in 1 .. count + 1
      PROVE  longer[offset + i].creative_id = tokens[from2[i]]
  <2>1. CASE i \in 1 .. count
    BY <1>1, <1>2, <2>1
  <2>2. CASE i = count + 1
    BY <1>2, <2>2
  <2> QED
    BY <2>1, <2>2
<1>5. Lists(from2, after)
  BY <1>2, <1>3
<1> QED
  BY <1>2, <1>4, <1>5, Zenon DEF HaveIds

\* What is appended to the creatives changes no campaign already there.
LEMMA IsOfKept ==
    ASSUME NEW campaign, NEW line, NEW creatives, NEW longer,
           campaign.creative_offset \in Nat, campaign.creative_count \in Nat,
           \A k \in 1 .. End(campaign) : longer[k] = creatives[k],
           IsOf(campaign, line, creatives)
    PROVE  IsOf(campaign, line, longer)
<1> DEFINE offset == campaign.creative_offset
           count == campaign.creative_count
<1>1. \A i \in 1 .. count : longer[offset + i] = creatives[offset + i]
  BY DEF End
<1>2. HaveIds(creatives, offset, count, line.tokens, Len(line.tokens))
  BY DEF IsOf
<1> HIDE DEF offset, count
<1>3. HaveIds(longer, offset, count, line.tokens, Len(line.tokens))
  BY <1>1, <1>2, Zenon DEF HaveIds
<1> QED
  BY <1>3 DEF IsOf, offset, count

LEMMA HasReadKept ==
    ASSUME NEW n \in Nat, HasRead(n), snapshot.campaigns \in Seq(CampaignRecords),
           file' = file, snapshot'.campaigns = snapshot.campaigns,
           \A i \in 1 .. Len(snapshot.campaigns) : \A k \in 1 .. End(snapshot.campaigns[i]) :
              snapshot'.creatives[k] = snapshot.creatives[k]
    PROVE  HasRead(n)'
<1>1. PICK from \in [1 .. Len(snapshot.campaigns) -> 1 .. n] :
          /\ Lists(from, {k \in 1 .. n : file[k].kind = "campaign"})
          /\ \A i \in 1 .. Len(snapshot.campaigns) :
                IsOf(snapshot.campaigns[i], file[from[i]], snapshot.creatives)
  BY DEF HasRead
<1>2. \A i \in 1 .. Len(snapshot.campaigns) :
         IsOf(snapshot.campaigns[i], file[from[i]], snapshot'.creatives)
  BY <1>1, CampaignTypes, IsOfKept
<1> QED
  BY <1>1, <1>2 DEF HasRead

\* A line that is no campaign's is passed.
LEMMA HasReadSkipped ==
    ASSUME NEW n \in Nat, HasRead(n), IsSkipped(file[n + 1], n + 1)
    PROVE  HasRead(n + 1)
<1>1. PICK from \in [1 .. Len(snapshot.campaigns) -> 1 .. n] :
          /\ Lists(from, {k \in 1 .. n : file[k].kind = "campaign"})
          /\ \A i \in 1 .. Len(snapshot.campaigns) :
                IsOf(snapshot.campaigns[i], file[from[i]], snapshot.creatives)
  BY DEF HasRead
<1>2. from \in [1 .. Len(snapshot.campaigns) -> 1 .. n + 1]
  OBVIOUS
<1>3. {k \in 1 .. n : file[k].kind = "campaign"} = {k \in 1 .. n + 1 : file[k].kind = "campaign"}
  BY DEF IsSkipped
<1>4. \A k \in 1 .. n + 1 : IsSkipped(file[k], k) \/ IsCampaign(file[k])
  <2>1. \A k \in 1 .. n : IsSkipped(file[k], k) \/ IsCampaign(file[k])
    BY DEF HasRead
  <2>2. 1 .. n + 1 = 1 .. n \cup {n + 1}
    OBVIOUS
  <2> QED
    BY <2>1, <2>2, Zenon
<1> QED
  BY <1>1, <1>2, <1>3, <1>4 DEF HasRead

LEMMA StoreInitInv == StoreInit => StoreInv
<1> SUFFICES ASSUME StoreInit PROVE StoreInv
  OBVIOUS
<1> USE DEF StoreInit, EmptySnapshot
<1>1. StoreTypeOK
  BY CampaignFileAssumption DEF StoreTypeOK
<1>2. IndexesExact
  BY DEF IndexesExact, IsIndexOf, CountryKeysOf, AdSlotKeysOf
<1>3. CreativesOwned /\ CreativesThere
  BY DEF CreativesOwned, CreativesThere
<1>4. FileSoFar
  <2> DEFINE none == {k \in 1 .. 0 : file[k].kind = "campaign"}
  <2>1. Len(snapshot.campaigns) = 0
    OBVIOUS
  <2>2. <<>> \in [1 .. 0 -> 1 .. 0] /\ Lists(<<>>, none)
    BY DEF Lists
  <2>3. HasRead(0)
    <3>1. \A k \in 1 .. 0 : k \notin 1 .. 0
      OBVIOUS
    <3> QED
      BY <2>1, <2>2, <3>1, Zenon DEF HasRead
  <2> QED
    BY <2>3 DEF FileSoFar
<1> QED
  BY <1>1, <1>2, <1>3, <1>4 DEF StoreInv

\* A failing load leaves nothing.
LEMMA FailInv ==
    ASSUME StoreTypeOK, Fail, file' = file, line_number' \in 0 .. Len(file), token' \in Nat,
           creative_offset' \in Nat
    PROVE  StoreInv'
<1>1. StoreTypeOK'
  BY DEF StoreTypeOK, Fail, EmptySnapshot
<1>2. IndexesExact'
  BY DEF Fail, EmptySnapshot, IndexesExact, IsIndexOf, CountryKeysOf, AdSlotKeysOf
<1>3. CreativesOwned' /\ CreativesThere'
  BY DEF Fail, EmptySnapshot, CreativesOwned, CreativesThere
<1>4. FileSoFar'
  BY DEF Fail, FileSoFar
<1> QED
  BY <1>1, <1>2, <1>3, <1>4 DEF StoreInv

\* The actions that leave the snapshot alone, outside a campaign's tokens.
LEMMA QuietInv ==
    ASSUME StoreInv, StoreTypeOK', FileSoFar', UNCHANGED snapshot,
           loader # "creatives", loader' # "creatives"
    PROVE  StoreInv'
<1>1. IndexesExact'
  BY DEF StoreInv, IndexesExact
<1>2. CreativesOwned'
  BY DEF StoreInv, CreativesOwned
<1>3. CreativesThere'
  BY DEF StoreInv, CreativesThere
<1> QED
  BY <1>1, <1>2, <1>3 DEF StoreInv

LEMMA ReadsInv ==
    ASSUME StoreInv, Open \/ SkipLine \/ EndOfFile
    PROVE  StoreInv'
<1>1. StoreTypeOK'
  BY DEF StoreInv, StoreTypeOK, Open, SkipLine, EndOfFile
<1>2. /\ UNCHANGED <<file, snapshot>> /\ loader # "creatives" /\ loader' # "creatives"
      /\ loader \in {"open", "lines"}
  BY DEF Open, SkipLine, EndOfFile
<1>3. HasRead(line_number)
  BY <1>2 DEF StoreInv, FileSoFar
<1>4. FileSoFar'
  <2>1. CASE Open
    BY <1>3, <2>1 DEF Open, FileSoFar, HasRead
  <2>2. CASE SkipLine
    <3>1. line_number \in Nat /\ line_number' = line_number + 1 /\ loader' = "lines"
      BY <2>2, CampaignFileAssumption DEF StoreInv, StoreTypeOK, SkipLine
    <3>2. HasRead(line_number + 1)
      BY <1>3, <2>2, <3>1, HasReadSkipped DEF SkipLine, NextLine
    <3>3. HasRead(line_number)'
      BY <1>2, <3>1, <3>2 DEF HasRead
    <3> QED
      BY <3>1, <3>3 DEF FileSoFar
  <2>3. CASE EndOfFile
    BY <1>3, <2>3 DEF EndOfFile, FileSoFar, HasRead
  <2> QED
    BY <2>1, <2>2, <2>3
<1> QED
  BY <1>1, <1>2, <1>4, QuietInv

LEMMA RejectsInv ==
    ASSUME StoreInv, RejectLine \/ RejectCampaign
    PROVE  StoreInv'
<1>1. StoreTypeOK /\ Fail /\ file' = file
  BY DEF StoreInv, RejectLine, RejectCampaign
<1>2. line_number' \in 0 .. Len(file) /\ token' \in Nat /\ creative_offset' \in Nat
  BY CampaignFileAssumption DEF StoreInv, StoreTypeOK, RejectLine, RejectCampaign
<1> QED
  BY <1>1, <1>2, FailInv

LEMMA StartCampaignInv ==
    ASSUME StoreInv, StartCampaign
    PROVE  StoreInv'
<1> USE DEF StartCampaign
<1>1. file \in Seq(Lines) /\ line_number + 1 \in 1 .. Len(file) /\ NextLine \in CampaignLines
  <2>1. line_number + 1 \in 1 .. Len(file)
    BY CampaignFileAssumption DEF StoreInv, StoreTypeOK
  <2> QED
    BY <2>1, LinesOfTheFile DEF StoreInv, StoreTypeOK, NextLine, CampaignLines
<1>2. Line' = NextLine
  BY DEF Line, NextLine
<1>3. StoreTypeOK'
  <2>1. NextLine.tokens \in Seq(Nat \cup {Blank, Garbage})
    BY <1>1, CampaignLineTypes
  <2> QED
    BY <1>1, <1>2, <2>1 DEF StoreInv, StoreTypeOK
<1>4. IndexesExact'
  BY DEF StoreInv, IndexesExact
<1>5. CreativesOwned'
  BY DEF StoreInv, CreativesOwned
<1>6. CreativesThere'
  BY DEF StoreInv, StoreTypeOK, CreativesThere
<1>7. FileSoFar'
  <2>1. line_number \in Nat /\ line_number' - 1 = line_number
    BY <1>1 DEF StoreInv, StoreTypeOK
  <2>2. HasRead(line_number)
    BY DEF StoreInv, FileSoFar
  <2>0. HasRead(line_number - 1)'
    BY <2>1, <2>2 DEF HasRead
  <2>3. creative_count' = 0
    BY DEF StoreInv, StoreTypeOK, creative_count
  <2>4. HaveIds(snapshot'.creatives, creative_offset', 0, Line'.tokens, 0)
    <3> DEFINE none == {k \in 1 .. 0 : Line'.tokens[k] # Blank}
    <3>1. <<>> \in [1 .. 0 -> 1 .. 0] /\ Lists(<<>>, none)
      BY DEF Lists
    <3>2. \A k \in 1 .. 0 : k \notin 1 .. 0
      OBVIOUS
    <3> QED
      BY <3>1, <3>2, Zenon DEF HaveIds
  <2>5. token' = 0 /\ loader' = "creatives"
    OBVIOUS
  <2>6. \A k \in 1 .. token' : Line'.tokens[k] # Garbage
    BY <2>5
  <2> QED
    BY <2>0, <2>3, <2>4, <2>5, <2>6 DEF FileSoFar
<1> QED
  BY <1>3, <1>4, <1>5, <1>6, <1>7 DEF StoreInv

LEMMA ParseCreativeInv ==
    ASSUME StoreInv, ParseCreative
    PROVE  StoreInv'
<1> DEFINE spec == Line.tokens[token + 1]
           creative == [creative_id |-> spec, ad_slot_key |-> AdSlotKey(Line)]
<1>1. /\ Line \in CampaignLines /\ token + 1 \in 1 .. Len(Line.tokens)
      /\ Line' = Line /\ token' = token + 1 /\ token' \in Nat
  BY CampaignLineTypes DEF StoreInv, StoreTypeOK, ParseCreative, Line
<1>2. spec \in Nat \cup {Blank, Garbage} /\ AdSlotKey(Line) \in AdSlotKeys
  BY <1>1, CampaignLineTypes
<1>6. /\ line_number - 1 \in Nat /\ token \in Nat /\ creative_offset \in Nat /\ creative_count \in Nat
      /\ creative_offset + creative_count = Len(snapshot.creatives)
      /\ Len(snapshot.creatives) \in Nat
      /\ snapshot.campaigns \in Seq(CampaignRecords)
  BY DEF StoreInv, StoreTypeOK, ParseCreative, creative_count
<1>7. /\ HasRead(line_number - 1)
      /\ \A k \in 1 .. token : Line.tokens[k] # Garbage
      /\ HaveIds(snapshot.creatives, creative_offset, creative_count, Line.tokens, token)
  BY DEF StoreInv, FileSoFar, ParseCreative
<1>8. CreativesThere
  BY DEF StoreInv
<1>3. CASE spec = Blank
  <2>1. UNCHANGED <<file, loader, line_number, creative_offset, snapshot>>
    BY <1>3 DEF ParseCreative, Blank, Garbage
  <2>2. StoreTypeOK'
    BY <1>1, <2>1, CampaignLineTypes DEF StoreInv, StoreTypeOK
  <2>3. IndexesExact' /\ CreativesOwned' /\ CreativesThere'
    BY <1>1, <2>1 DEF StoreInv, IndexesExact, CreativesOwned, CreativesThere
  <2>4. HaveIds(snapshot.creatives, creative_offset, creative_count, Line.tokens, token + 1)
    BY <1>3, <1>6, <1>7, HaveIdsBlank
  <2>5. \A k \in 1 .. token + 1 : Line.tokens[k] # Garbage
    BY <1>3, <1>6, <1>7 DEF Blank, Garbage
  <2>6. creative_count' = creative_count /\ loader' = "creatives"
    BY <2>1 DEF creative_count, ParseCreative
  <2>7. HasRead(line_number - 1)'
    BY <1>7, <2>1 DEF HasRead
  <2>8. FileSoFar'
    BY <1>1, <2>1, <2>4, <2>5, <2>6, <2>7 DEF FileSoFar
  <2> QED
    BY <2>2, <2>3, <2>8 DEF StoreInv
<1>4. CASE spec = Garbage
  <2>1. Fail /\ UNCHANGED <<file, line_number, creative_offset>>
    BY <1>4 DEF ParseCreative, Blank, Garbage
  <2> QED
    BY <1>1, <2>1, FailInv DEF StoreInv, StoreTypeOK
<1>5. CASE spec \notin {Blank, Garbage}
  <2>1. /\ snapshot' = [snapshot EXCEPT !.creatives = Append(@, creative)]
        /\ loader = "creatives"
        /\ UNCHANGED <<file, loader, line_number, creative_offset>>
    BY <1>5 DEF ParseCreative
  <2>2. creative \in CreativeRecords
    BY <1>2, <1>5 DEF CreativeRecords
  <2>3. /\ DOMAIN snapshot' = DOMAIN snapshot
        /\ snapshot'.creatives = Append(snapshot.creatives, creative)
        /\ snapshot'.campaigns = snapshot.campaigns
        /\ snapshot'.campaigns_by_country = snapshot.campaigns_by_country
        /\ snapshot'.campaigns_by_ad_slot = snapshot.campaigns_by_ad_slot
    BY <2>1 DEF StoreInv, StoreTypeOK
  <2>4. /\ snapshot'.creatives \in Seq(CreativeRecords)
        /\ snapshot.creatives \in Seq(CreativeRecords)
        /\ Len(snapshot'.creatives) = Len(snapshot.creatives) + 1
        /\ snapshot'.creatives[Len(snapshot.creatives) + 1] = creative
        /\ \A k \in 1 .. Len(snapshot.creatives) : snapshot'.creatives[k] = snapshot.creatives[k]
    <3>1. snapshot.creatives \in Seq(CreativeRecords)
      BY DEF StoreInv, StoreTypeOK
    <3> HIDE DEF creative
    <3> QED
      BY <2>2, <2>3, <3>1
  <2> HIDE DEF creative
  <2>5. StoreTypeOK'
    <3>1. token' <= Len(Line'.tokens) /\ Line' \in CampaignLines
      BY <1>1, CampaignLineTypes
    <3>2. creative_offset' <= Len(snapshot'.creatives)
      BY <2>1, <2>4 DEF StoreInv, StoreTypeOK
    <3> QED
      BY <1>1, <2>1, <2>3, <2>4, <3>1, <3>2 DEF StoreInv, StoreTypeOK
  <2>6. IndexesExact'
    BY <2>3 DEF StoreInv, IndexesExact
  <2>7. CreativesThere'
    <3>1. creative.ad_slot_key = AdSlotKey(Line)
      BY DEF creative
    <3>2. creative_offset \in Nat /\ snapshot.campaigns \in Seq(CampaignRecords)
      BY DEF StoreInv, StoreTypeOK
    <3>3. \A n \in 1 .. Len(snapshot.campaigns) : End(snapshot.campaigns[n]) \in Nat
      BY <3>2, CampaignTypes
    <3>4. \A n \in 1 .. Len(snapshot.campaigns) :
             End(snapshot.campaigns[n]) <= Len(snapshot'.creatives)
      BY <1>6, <1>8, <2>4, <3>3 DEF CreativesThere
    <3>5. \A k \in creative_offset + 1 .. Len(snapshot'.creatives) :
             snapshot'.creatives[k].ad_slot_key = AdSlotKey(Line)
      BY <1>6, <1>8, <2>1, <2>4, <3>1 DEF CreativesThere
    <3> QED
      BY <1>1, <2>1, <2>3, <3>4, <3>5 DEF CreativesThere
  <2>8. CreativesOwned'
    <3> DEFINE campaigns == snapshot.campaigns
               start(n) == IF n = 1 THEN 0 ELSE End(campaigns[n - 1])
    <3>1. \A n \in 1 .. Len(campaigns) :
             /\ campaigns[n].creative_offset = start(n)
             /\ campaigns[n].creative_count > 0
             /\ \A k \in start(n) + 1 .. End(campaigns[n]) :
                   snapshot.creatives[k].ad_slot_key = campaigns[n].ad_slot_key
      BY DEF StoreInv, CreativesOwned
    <3>2. start(Len(campaigns) + 1) = creative_offset
      BY <2>1 DEF StoreInv, CreativesOwned
    <3>3. campaigns \in Seq(CampaignRecords)
      BY DEF StoreInv, StoreTypeOK
    <3>4. \A n \in 1 .. Len(campaigns) :
             End(campaigns[n]) \in Nat /\ End(campaigns[n]) <= Len(snapshot.creatives)
      BY <3>3, CampaignTypes DEF StoreInv, CreativesThere
    <3>5. \A n \in 1 .. Len(campaigns) : start(n) \in Nat
      BY <3>3, <3>4
    <3>6. \A n \in 1 .. Len(campaigns) : \A k \in start(n) + 1 .. End(campaigns[n]) :
             snapshot'.creatives[k] = snapshot.creatives[k]
      <4> SUFFICES ASSUME NEW n \in 1 .. Len(campaigns), NEW k \in start(n) + 1 .. End(campaigns[n])
                   PROVE  snapshot'.creatives[k] = snapshot.creatives[k]
        OBVIOUS
      <4>1. start(n) \in Nat /\ End(campaigns[n]) \in Nat
            /\ End(campaigns[n]) <= Len(snapshot.creatives)
        BY <3>4, <3>5
      <4>2. k \in 1 .. Len(snapshot.creatives)
        <5> HIDE DEF start
        <5> QED
          BY <2>4, <4>1
      <4> QED
        BY <2>4, <4>2
    <3>7. \A n \in 1 .. Len(campaigns) :
             /\ campaigns[n].creative_offset = start(n)
             /\ campaigns[n].creative_count > 0
             /\ \A k \in start(n) + 1 .. End(campaigns[n]) :
                   snapshot'.creatives[k].ad_slot_key = campaigns[n].ad_slot_key
      BY <3>1, <3>6
    <3>8. /\ snapshot'.campaigns = campaigns /\ loader' = "creatives"
          /\ creative_offset' = creative_offset
      BY <2>1, <2>3
    <3> HIDE DEF campaigns
    <3> QED
      BY <3>2, <3>7, <3>8 DEF CreativesOwned
  <2>9. FileSoFar'
    <3>1. creative_count' = creative_count + 1
      BY <1>6, <2>1, <2>4 DEF creative_count
    <3>2. creative_offset + (creative_count + 1) = Len(snapshot.creatives) + 1
      BY <1>6
    <3>3. snapshot'.creatives[creative_offset + (creative_count + 1)].creative_id = Line.tokens[token + 1]
      BY <2>4, <3>2 DEF creative
    <3>4. \A i \in 1 .. creative_count :
             snapshot'.creatives[creative_offset + i] = snapshot.creatives[creative_offset + i]
      <4>1. \A i \in 1 .. creative_count : creative_offset + i \in 1 .. Len(snapshot.creatives)
        BY <1>6
      <4> QED
        BY <2>4, <4>1
    <3>5. Line.tokens[token + 1] # Blank
      BY <1>5
    <3>6. HaveIds(snapshot'.creatives, creative_offset, creative_count + 1, Line.tokens, token + 1)
      BY <1>6, <1>7, <3>3, <3>4, <3>5, HaveIdsMore
    <3>7. \A k \in 1 .. token + 1 : Line.tokens[k] # Garbage
      BY <1>5, <1>6, <1>7
    <3>8. HasRead(line_number - 1)'
      <4>1. ASSUME NEW i \in 1 .. Len(snapshot.campaigns), NEW k \in 1 .. End(snapshot.campaigns[i])
            PROVE  snapshot'.creatives[k] = snapshot.creatives[k]
        <5>1. End(snapshot.campaigns[i]) \in Nat
          BY <1>6, CampaignTypes
        <5>2. End(snapshot.campaigns[i]) <= Len(snapshot.creatives)
          BY DEF StoreInv, CreativesThere
        <5>3. k \in 1 .. Len(snapshot.creatives)
          BY <1>6, <5>1, <5>2
        <5> QED
          BY <2>4, <5>3
      <4>2. HasRead(line_number - 1)
        BY <1>7
      <4> DEFINE n == line_number - 1
      <4>3. /\ n \in Nat /\ HasRead(n) /\ file' = file /\ snapshot'.campaigns = snapshot.campaigns
        BY <1>6, <2>1, <2>3, <4>2
      <4>4. n' = n
        BY <2>1
      <4> QED
        BY <1>6, <4>1, <4>3, <4>4, HasReadKept
    <3> QED
      BY <1>1, <2>1, <3>1, <3>6, <3>7, <3>8 DEF FileSoFar
  <2> QED
    BY <2>5, <2>6, <2>7, <2>8, <2>9 DEF StoreInv
<1> QED
  BY <1>3, <1>4, <1>5

LEMMA AppendCampaignInv ==
    ASSUME StoreInv, AppendCampaign
    PROVE  StoreInv'
<1> DEFINE campaigns == snapshot.campaigns
           campaign == Campaign(Line, creative_offset, creative_count)
           N == Len(campaigns)
<1>1. /\ Line \in CampaignLines /\ Line.campaign_id \in Nat /\ Line.active \in BOOLEAN
      /\ CountryKey(Line) \in CountryKeys /\ DeviceTypeKey(Line) \in DeviceTypeKeys
      /\ AdSlotKey(Line) \in AdSlotKeys
  BY CampaignLineTypes DEF StoreInv, StoreTypeOK, AppendCampaign
<1>2. /\ campaigns \in Seq(CampaignRecords) /\ snapshot.creatives \in Seq(CreativeRecords)
      /\ creative_offset \in Nat /\ creative_count \in Nat /\ creative_count > 0
      /\ creative_offset + creative_count = Len(snapshot.creatives)
  BY DEF StoreInv, StoreTypeOK, AppendCampaign, creative_count
<1>3. /\ campaign \in CampaignRecords
      /\ campaign.creative_offset = creative_offset /\ campaign.creative_count = creative_count
      /\ campaign.country_key = CountryKey(Line) /\ campaign.ad_slot_key = AdSlotKey(Line)
  BY <1>1, <1>2 DEF Campaign, CampaignRecords
<1>4. /\ DOMAIN snapshot' = DOMAIN snapshot
      /\ snapshot'.creatives = snapshot.creatives
      /\ snapshot'.campaigns = Append(campaigns, campaign)
      /\ snapshot'.campaigns_by_country =
           PushBack(snapshot.campaigns_by_country, CountryKey(Line), N)
      /\ snapshot'.campaigns_by_ad_slot =
           PushBack(snapshot.campaigns_by_ad_slot, AdSlotKey(Line), N)
      /\ loader' = "lines"
      /\ UNCHANGED <<file, line_number, token, creative_offset>>
  BY DEF StoreInv, StoreTypeOK, AppendCampaign
<1> HIDE DEF campaign
<1>5. /\ snapshot'.campaigns \in Seq(CampaignRecords)
      /\ Len(snapshot'.campaigns) = N + 1 /\ N \in Nat
      /\ snapshot'.campaigns[N + 1] = campaign
      /\ \A n \in 1 .. N : snapshot'.campaigns[n] = campaigns[n]
  BY <1>2, <1>3, <1>4
<1>6. /\ IsIndexOf(snapshot'.campaigns_by_country, CountryKeysOf(snapshot'.campaigns))
      /\ \A key \in DOMAIN snapshot'.campaigns_by_country :
            snapshot'.campaigns_by_country[key] \in Seq(Nat)
  <2> DEFINE keys == CountryKeysOf(campaigns)
  <2>1. keys \in Seq(CountryKeys) /\ Len(keys) = N
    <3>1. \A n \in 1 .. N : campaigns[n].country_key \in CountryKeys
      BY <1>2, CampaignTypes
    <3> QED
      BY <1>5, <3>1 DEF CountryKeysOf
  <2>2. CountryKeysOf(snapshot'.campaigns) = Append(keys, CountryKey(Line))
    BY <1>3, <1>5 DEF CountryKeysOf
  <2>3. /\ IsIndexOf(snapshot.campaigns_by_country, keys)
        /\ \A key \in DOMAIN snapshot.campaigns_by_country :
              snapshot.campaigns_by_country[key] \in Seq(Nat)
    BY DEF StoreInv, StoreTypeOK, IndexesExact
  <2> HIDE DEF keys
  <2> QED
    BY <1>1, <1>4, <2>1, <2>2, <2>3, PushBackKeepsIndex
<1>7. /\ IsIndexOf(snapshot'.campaigns_by_ad_slot, AdSlotKeysOf(snapshot'.campaigns))
      /\ \A key \in DOMAIN snapshot'.campaigns_by_ad_slot :
            snapshot'.campaigns_by_ad_slot[key] \in Seq(Nat)
  <2> DEFINE keys == AdSlotKeysOf(campaigns)
  <2>1. keys \in Seq(AdSlotKeys) /\ Len(keys) = N
    <3>1. \A n \in 1 .. N : campaigns[n].ad_slot_key \in AdSlotKeys
      BY <1>2, CampaignTypes
    <3> QED
      BY <1>5, <3>1 DEF AdSlotKeysOf
  <2>2. AdSlotKeysOf(snapshot'.campaigns) = Append(keys, AdSlotKey(Line))
    BY <1>3, <1>5 DEF AdSlotKeysOf
  <2>3. /\ IsIndexOf(snapshot.campaigns_by_ad_slot, keys)
        /\ \A key \in DOMAIN snapshot.campaigns_by_ad_slot :
              snapshot.campaigns_by_ad_slot[key] \in Seq(Nat)
    BY DEF StoreInv, StoreTypeOK, IndexesExact
  <2> HIDE DEF keys
  <2> QED
    BY <1>1, <1>4, <2>1, <2>2, <2>3, PushBackKeepsIndex
<1>8. StoreTypeOK'
  BY <1>4, <1>5, <1>6, <1>7 DEF StoreInv, StoreTypeOK
<1>9. IndexesExact'
  BY <1>6, <1>7 DEF IndexesExact
<1>10. CreativesThere'
  <2>1. End(campaign) = Len(snapshot.creatives)
    BY <1>2, <1>3 DEF End
  <2> QED
    BY <1>4, <1>5, <2>1 DEF StoreInv, CreativesThere
<1>11. CreativesOwned'
  <2> DEFINE start(n) == IF n = 1 THEN 0 ELSE End(campaigns[n - 1])
             start2(n) == IF n = 1 THEN 0 ELSE End(snapshot'.campaigns[n - 1])
  <2>1. \A n \in 1 .. N :
           /\ campaigns[n].creative_offset = start(n)
           /\ campaigns[n].creative_count > 0
           /\ \A k \in start(n) + 1 .. End(campaigns[n]) :
                 snapshot.creatives[k].ad_slot_key = campaigns[n].ad_slot_key
    BY DEF StoreInv, CreativesOwned
  <2>2. start(N + 1) = creative_offset
    BY DEF StoreInv, CreativesOwned, AppendCampaign
  <2>3. \A n \in 1 .. N + 1 : start2(n) = start(n)
    BY <1>5
  <2>4. End(campaign) = Len(snapshot.creatives)
    BY <1>2, <1>3 DEF End
  <2>5. start2(N + 2) = Len(snapshot.creatives)
    BY <1>5, <2>4
  <2>6. \A k \in creative_offset + 1 .. Len(snapshot.creatives) :
           snapshot.creatives[k].ad_slot_key = campaign.ad_slot_key
    BY <1>3 DEF StoreInv, CreativesThere, AppendCampaign
  <2>7. ASSUME NEW n \in 1 .. N + 1
        PROVE  /\ snapshot'.campaigns[n].creative_offset = start2(n)
               /\ snapshot'.campaigns[n].creative_count > 0
               /\ \A k \in start2(n) + 1 .. End(snapshot'.campaigns[n]) :
                     snapshot.creatives[k].ad_slot_key = snapshot'.campaigns[n].ad_slot_key
    <3>0. start2(n) = start(n)
      BY <2>3
    <3> HIDE DEF start2, start
    <3>1. CASE n \in 1 .. N
      BY <1>5, <2>1, <3>0, <3>1
    <3>2. CASE n = N + 1
      BY <1>2, <1>3, <1>5, <2>2, <2>4, <2>6, <3>0, <3>2
    <3> QED
      BY <1>5, <3>1, <3>2
  <2>8. snapshot'.creatives = snapshot.creatives /\ loader' = "lines"
    BY <1>4
  <2>9. start2(Len(snapshot'.campaigns) + 1) = Len(snapshot'.creatives)
    BY <1>5, <2>5, <2>8
  <2>10. \A n \in 1 .. Len(snapshot'.campaigns) :
            /\ snapshot'.campaigns[n].creative_offset = start2(n)
            /\ snapshot'.campaigns[n].creative_count > 0
            /\ \A k \in start2(n) + 1 .. End(snapshot'.campaigns[n]) :
                  snapshot'.creatives[k].ad_slot_key = snapshot'.campaigns[n].ad_slot_key
    <3> HIDE DEF start2
    <3> QED
      BY <1>5, <2>7, <2>8
  <2> HIDE DEF campaigns, N
  <2> QED
    BY <2>8, <2>9, <2>10 DEF CreativesOwned
<1>12. FileSoFar'
  <2> DEFINE n == line_number - 1
             before == {k \in 1 .. n : file[k].kind = "campaign"}
             after == {k \in 1 .. line_number : file[k].kind = "campaign"}
  <2>1. n \in Nat /\ line_number = n + 1 /\ file[n + 1] = Line
    BY CampaignFileAssumption DEF StoreInv, StoreTypeOK, AppendCampaign, Line
  <2>2. /\ HasRead(n)
        /\ \A k \in 1 .. token : Line.tokens[k] # Garbage
        /\ HaveIds(snapshot.creatives, creative_offset, creative_count, Line.tokens, token)
        /\ token = Len(Line.tokens)
    BY DEF StoreInv, FileSoFar, AppendCampaign
  <2>3. PICK from \in [1 .. N -> 1 .. n] :
           /\ Lists(from, before)
           /\ \A i \in 1 .. N : IsOf(campaigns[i], file[from[i]], snapshot.creatives)
    BY <2>2 DEF HasRead
  <2>4. IsCampaign(Line)
    <3>1. \E k \in 1 .. token : Line.tokens[k] # Blank
      <4>1. PICK ids \in [1 .. creative_count -> 1 .. token] :
               Lists(ids, {k \in 1 .. token : Line.tokens[k] # Blank})
        BY <2>2 DEF HaveIds
      <4>2. 1 \in DOMAIN ids
        BY <1>2
      <4>3. ids[1] \in {k \in 1 .. token : Line.tokens[k] # Blank}
        BY <4>1, <4>2, Zenon DEF Lists
      <4> QED
        BY <4>3
    <3> QED
      BY <1>1, <2>2, <3>1 DEF IsCampaign, CampaignLines
  <2>5. IsOf(campaign, Line, snapshot.creatives)
    <3>1. /\ campaign.campaign_id = Line.campaign_id /\ campaign.active = Line.active
          /\ campaign.device_type_key = DeviceTypeKey(Line)
      BY DEF campaign, Campaign
    <3> QED
      BY <1>3, <2>2, <3>1 DEF IsOf
  <2> DEFINE longer == Extended(from, N, n)
  <2>6. /\ longer \in [1 .. N + 1 -> 1 .. n + 1]
        /\ longer[N + 1] = n + 1
        /\ \A i \in 1 .. N : longer[i] = from[i]
        /\ Lists(longer, before \cup {n + 1})
    <3>1. before \in SUBSET (1 .. n) /\ Lists(from, before)
      BY <2>3
    <3> HIDE DEF before
    <3> QED
      BY <1>5, <2>1, <3>1, ExtendedLists
  <2>7. before \cup {n + 1} = after
    <3>1. file[n + 1].kind = "campaign"
      BY <1>1, <2>1 DEF CampaignLines, HasKeys
    <3> HIDE DEF n
    <3> QED
      BY <2>1, <3>1
  <2> HIDE DEF longer, before, after, n, campaigns, N
  <2>8. ASSUME NEW i \in 1 .. N + 1
        PROVE  IsOf(snapshot'.campaigns[i], file[longer[i]], snapshot.creatives)
    <3>1. CASE i \in 1 .. N
      BY <1>5, <2>3, <2>6, <3>1
    <3>2. CASE i = N + 1
      BY <1>5, <2>1, <2>5, <2>6, <3>2
    <3> QED
      BY <1>5, <3>1, <3>2
  <2>9. \A k \in 1 .. line_number : IsSkipped(file[k], k) \/ IsCampaign(file[k])
    <3>1. \A k \in 1 .. n : IsSkipped(file[k], k) \/ IsCampaign(file[k])
      BY <2>2 DEF HasRead
    <3>2. 1 .. line_number = 1 .. n \cup {n + 1}
      BY <2>1
    <3> QED
      BY <2>1, <2>4, <3>1, <3>2, Zenon
  <2>10. HasRead(line_number)'
    <3>1. Lists(longer, after) /\ longer \in [1 .. N + 1 -> 1 .. line_number]
      BY <2>1, <2>6, <2>7
    <3>2. Len(snapshot'.campaigns) = N + 1 /\ snapshot'.creatives = snapshot.creatives
          /\ file' = file /\ line_number' = line_number
      BY <1>4, <1>5
    <3> QED
      BY <2>8, <2>9, <3>1, <3>2 DEF HasRead, after
  <2> QED
    BY <1>4, <2>10 DEF FileSoFar
<1> QED
  BY <1>8, <1>9, <1>10, <1>11, <1>12 DEF StoreInv

-----------------------------------------------------------------------------
\* The invariant is inductive.
LEMMA StoreStepInv == StoreInv /\ [StoreNext]_storeVars => StoreInv'
<1> SUFFICES ASSUME StoreInv, [StoreNext]_storeVars PROVE StoreInv'
  OBVIOUS
<1>1. CASE Open \/ SkipLine \/ EndOfFile
  BY <1>1, ReadsInv
<1>2. CASE RejectLine \/ RejectCampaign
  BY <1>2, RejectsInv
<1>3. CASE StartCampaign
  BY <1>3, StartCampaignInv
<1>4. CASE ParseCreative
  BY <1>4, ParseCreativeInv
<1>5. CASE AppendCampaign
  BY <1>5, AppendCampaignInv
<1>6. CASE UNCHANGED storeVars
  <2>1. StoreTypeOK' /\ IndexesExact' /\ CreativesOwned' /\ CreativesThere'
    BY <1>6 DEF storeVars, StoreInv, StoreTypeOK, Line, IndexesExact, CreativesOwned, CreativesThere
  <2>2. FileSoFar'
    BY <1>6 DEF storeVars, StoreInv, FileSoFar, HasRead, Line, creative_count
  <2> QED
    BY <2>1, <2>2 DEF StoreInv
<1> QED
  BY <1>1, <1>2, <1>3, <1>4, <1>5, <1>6 DEF StoreNext

\* Whatever the file, the loader keeps the invariant: load_campaign_store_snapshot.
THEOREM StoreInvariant == StoreSpec => []StoreInv
  BY StoreInitInv, StoreStepInv, PTL DEF StoreSpec

\* Whatever the file, the snapshot and the loader's state have their types.
THEOREM StoreTypeCorrect == StoreSpec => []StoreTypeOK
<1>1. StoreInv => StoreTypeOK
  BY DEF StoreInv
<1> QED
  BY <1>1, StoreInvariant, PTL

\* Whatever the file, append_campaign_line keeps the index by country and the index by ad
\* slot exact: each has every campaign once, in order, under its own key.
THEOREM StoreIndexesExact == StoreSpec => []IndexesExact
<1>1. StoreInv => IndexesExact
  BY DEF StoreInv
<1> QED
  BY <1>1, StoreInvariant, PTL

\* Whatever the file, the campaigns share the creatives out among them, each one's for its
\* own slot, and no creative of a line that failed is left: parse_creative_specs appends
\* before the campaign is known to be one.
THEOREM StoreCreativesOwned == StoreSpec => []CreativesOwned
<1>1. StoreInv => CreativesOwned
  BY DEF StoreInv
<1> QED
  BY <1>1, StoreInvariant, PTL

\* Whatever the file, a snapshot that was loaded has the campaigns of the lines that were
\* read, in their order, each with its keys and its creatives, and no line that was read is
\* bad: load_campaign_store_snapshot is all or nothing.
THEOREM SnapshotIsWhatWasRead == StoreSpec => []SnapshotIsTheFile
<1>1. StoreInv => SnapshotIsTheFile
  BY DEF StoreInv, FileSoFar, SnapshotIsTheFile
<1> QED
  BY <1>1, StoreInvariant, PTL
=============================================================================
