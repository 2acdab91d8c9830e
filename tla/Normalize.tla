------------------------------ MODULE Normalize ------------------------------
(***************************************************************************)
(* The keys campaigns and requests are compared by.  Countries and ad slots *)
(* are sequences of bytes; a device type is one of a few words.             *)
(***************************************************************************)
EXTENDS Integers, SequencesExt

kNsPerMs == 1000000
kResponseSafetyMarginNs == 1000000

to_upper_ascii(character) == IF character \in 97..122 THEN character - 32 ELSE character

\* 0 for what is not two bytes.
normalize_country_key(country) ==
    IF Len(country) # 2 THEN 0
    ELSE to_upper_ascii(country[1]) * 256 + to_upper_ascii(country[2])

normalize_device_type_key(device_type) ==
    CASE device_type = "desktop" -> "kDesktop"
      [] device_type = "mobile"  -> "kMobile"
      [] device_type = "tablet"  -> "kTablet"
      [] device_type \in {"ctv", "connected_tv"} -> "kConnectedTv"
      [] OTHER -> "kUnknown"

Bit(n, i) == (n \div 2^i) % 2

\* n ^ byte, for n of 16 bits.
XorByte(n, byte) ==
    (n \div 256) * 256
      + MapThenSumSet(LAMBDA i : IF Bit(n, i) = Bit(byte, i) THEN 0 ELSE 2^i, 0..7)

\* The 32-bit FNV-1a hash, as its two halves: the prime is 2^24 + 403.
normalize_ad_slot_key(ad_slot) ==
    LET step(value, character) ==
          LET low == XorByte(value[2], character)
          IN  <<(value[1] * 403 + (low * 403) \div 65536 + (low % 256) * 256) % 65536,
                (low * 403) % 65536>>
    IN FoldLeft(step, <<33052, 40389>>, ad_slot)

NoSlotKey == <<0, 0>>

compute_deadline_ns(received_at_ns, tmax_ms) ==
    LET raw_budget_ns == tmax_ms * kNsPerMs
    IN IF raw_budget_ns <= kResponseSafetyMarginNs
       THEN received_at_ns
       ELSE received_at_ns + (raw_budget_ns - kResponseSafetyMarginNs)
=============================================================================
