------------------------------ MODULE MC_InterfaceSeries ------------------------------
(* Model-checking instance of InterfaceSeries: two radios, this         *)
(* interface on wiphy 1 with two bands, the other radio with one faster *)
(* band.  MCS indices 0, 7, 9 and 32 (the 40 MHz duplicate mode, rate 0 *)
(* at 20 MHz), with the table rows of nl80211_get_wiphy.c.              *)
EXTENDS InterfaceSeries, TLC

\* The 16 bytes of NL80211_BAND_ATTR_HT_MCS_SET: the MCS bitmask in bytes
\* 0-9, the highest supported rx data rate (Mbit/s) in bytes 10-11.
HtMcs(S, rxHigh) ==
  [i \in 1..16 |->
     IF i <= 10 THEN SumSet({2^(b % 8) : b \in {x \in S : x \div 8 = i - 1}})
     ELSE IF i = 11 THEN rxHigh % 256
     ELSE IF i = 12 THEN rxHigh \div 256 ELSE 0]

\* The 8 bytes of NL80211_BAND_ATTR_VHT_MCS_SET with the 16-bit fields at
\* bytes 4-5 and 6-7 set.
VhtMcs(f45, f67) == <<0, 0, 0, 0, f45 % 256, f45 \div 256, f67 % 256, f67 \div 256>>

Band(capa, S, rxHigh, vht) ==
  [capa |-> capa, idx |-> S, rxHigh |-> rxHigh, ht |-> HtMcs(S, rxHigh), vht |-> vht]

MC_Rate20 == (0 :> [lgi |-> 65, sgi |-> 72]) @@ (7 :> [lgi |-> 650, sgi |-> 722])
          @@ (9 :> [lgi |-> 260, sgi |-> 289]) @@ (32 :> [lgi |-> 0, sgi |-> 0])
MC_Rate40 == (0 :> [lgi |-> 135, sgi |-> 150]) @@ (7 :> [lgi |-> 1350, sgi |-> 1500])
          @@ (9 :> [lgi |-> 540, sgi |-> 600]) @@ (32 :> [lgi |-> 60, sgi |-> 67])

\* Bands of the own radio: both with short guard intervals, the second
\* also with a VHT set; the other radio's band is faster on rx.
OwnA == Band(96, {0, 9, 32}, 0, <<>>)
OwnB == Band(96, {0, 7}, 0, VhtMcs(300, 432))
Other == Band(0, {0, 7}, 600, <<>>)

MC_Phys == {0, 1}
MC_Bands == (1 :> <<OwnA, OwnB>>) @@ (0 :> <<Other>>)
MC_Widths == {"20", "40", "none"}

\* A survey channel: whether it is in use, whether it has
\* NL80211_SURVEY_INFO_NOISE, its noise in dBm, that noise as the kernel's
\* u8 attribute, and its busy time in ms.
Channel(inUse, hasNoise, dbm, ms) ==
  [inUse |-> inUse, hasNoise |-> hasNoise, dbm |-> dbm, busy |-> ms,
   noise |-> (dbm + 256) % 256]

\* Survey dumps: the channel in use with its noise, followed by another
\* channel that must not overwrite it, and the channel in use without
\* NL80211_SURVEY_INFO_NOISE, which must keep the stored noise.
MC_SurveyDumps ==
  { <<Channel(TRUE, TRUE, -90, 1), Channel(FALSE, TRUE, -70, 1)>>,
    <<Channel(TRUE, FALSE, 0, 1)>> }
=============================================================================
