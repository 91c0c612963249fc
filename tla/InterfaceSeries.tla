--------------------------- MODULE InterfaceSeries ---------------------------
(***************************************************************************)
(* One series of queries of one nl80211 interface, and the layer-2        *)
(* database it fills, over many series.  The listener asks, in order:     *)
(*   GET_INTERFACE  the phy index and channel bandwidth                    *)
(*                  (nl80211_get_interface.c);                             *)
(*   GET_WIPHY      the phy's bands, whose best HT/VHT rates finalize      *)
(*                  publishes as the neighbour defaults (_get_wiphy.c);    *)
(*   GET_SURVEY     the noise and channel times of the channel in use      *)
(*                  (_get_survey.c);                                       *)
(*   GET_MPP        the mesh proxy paths, as destinations of known         *)
(*                  neighbours (_get_mpp.c);                               *)
(*   GET_STATION    the associated stations, as neighbours with fresh data *)
(*                  (_get_station_dump.c);                                 *)
(* and at QUERY_END removes the values the series did not refresh, if the *)
(* interface data changed (nl80211_listener.c, _get_next_query).           *)
(*                                                                         *)
(* A layer-2 value is a record [has, val, upd]; a neighbour's data and a  *)
(* destination are reduced to their origin label: "none", "old"           *)
(* (_layer2_data_origin) or "upd" (_layer2_updated_origin).  Rates are in *)
(* bit/s; the bands' MCS rates are chosen below 2^11 * 100 kbit/s so that *)
(* 2^20 times them fits TLC's integers (the code computes in uint64_t).   *)
(***************************************************************************)
EXTENDS Integers, Sequences, FiniteSetsExt, SequencesExt, Bitwise

CONSTANTS
  Phys,         \* wiphy indices of the machine's radios
  OwnPhy,       \* the wiphy of this interface
  PhyBands,     \* the bands each wiphy reports, in dump order
  Widths,       \* NL80211_ATTR_CHANNEL_WIDTH values GET_INTERFACE reports
  Rate20,       \* _mcs_table_80211n_20, on the MCS indices the bands use
  Rate40,       \* _mcs_table_80211n_40, on the same indices
  SurveyDumps,  \* the channel lists a survey dump may answer, in order
  Stations,     \* MAC addresses of stations that may associate
  Dests         \* MAC addresses that may be reached through a mesh proxy

ASSUME OwnPhy \in Phys /\ -1 \notin Phys

NoData == [has |-> FALSE, val |-> 0, upd |-> FALSE]

\* The queries of a series, in the order of enum _if_query.
Queries == <<"if", "wiphy", "survey", "mpp", "station", "end">>
NextQuery(q) == Queries[(CHOOSE i \in 1..5 : Queries[i] = q) + 1]

Labels == {"none", "old", "upd"}

VARIABLES
  wifi_phy_if,     \* interf->wifi_phy_if
  bw1, bw2,        \* l2net data OONF_LAYER2_NET_BANDWIDTH_1 / _2
  max_rx, max_tx,  \* interf->max_rx / max_tx
  rxPub, txPub,    \* l2net neighdata RX_MAX_BITRATE / TX_MAX_BITRATE
  noise,           \* l2net data OONF_LAYER2_NET_NOISE
  busy,            \* l2net data OONF_LAYER2_NET_CHANNEL_BUSY (and the
                   \* other channel times, which are set alike)
  nb,              \* the stations that have an oonf_layer2_neigh
  nbData,          \* the origin of each neighbour's data
  dst,             \* the origin of each neighbour's destinations
  ifdata_changed,  \* interf->ifdata_changed
  assoc, mpath,    \* the kernel: associated stations, mesh proxy paths
  query,           \* _current_query_number
  inDump,          \* the query's request is outstanding
  msgs,            \* the rest of the outstanding dump
  ifAnswered,      \* history: this series' GET_INTERFACE was answered
  complete,        \* history: this series' GET_WIPHY dump ended with done
  noiseRef,        \* history: {noise in dBm} of the in-use channel surveyed
  mppSeen,         \* history: proxy paths stored by this series' GET_MPP
  stSeen,          \* history: stations of this series' GET_STATION
  dumpsFull,       \* history: no GET_MPP or GET_STATION dump of this
                   \* series was cut short
  fresh,           \* history: stations dumped since the last commit
  lastFresh,       \* history: fresh as it was at the last QUERY_END
  committed,       \* history: the last QUERY_END cleaned up and relabelled
  pathMissed       \* history: series with full dumps ended since a proxy
                   \* path through an associated station was not stored

wiphyVars == <<wifi_phy_if, bw1, bw2, max_rx, max_tx, rxPub, txPub>>
neighVars == <<nb, nbData, dst>>
histVars == <<ifAnswered, complete, noiseRef, mppSeen, stSeen, dumpsFull>>
commitVars == <<fresh, lastFresh, committed, pathMissed>>
vars == <<wiphyVars, noise, busy, neighVars, ifdata_changed, assoc, mpath,
          query, inDump, msgs, histVars, commitVars>>

-----------------------------------------------------------------------------
(* Layer-2 values                                                          *)

\* oonf_layer2_change_value with the updated origin, and whether it reports
\* a change: "true if value changed" (nl80211_listener.c:370, 383, 406),
\* so rewriting an equal value under the new origin is no change.
SetValue(d, v) == [has |-> TRUE, val |-> v, upd |-> TRUE]

Changed(d, v) == ~d.has \/ d.val # v

\* oonf_layer2_net_cleanup of the old origin, then oonf_layer2_net_relabel.
CleanupRelabel(d) == IF d.has /\ ~d.upd THEN NoData ELSE [d EXCEPT !.upd = FALSE]

\* A mutant of CleanupRelabelLabel: the cleanup does not reach the
\* neighbours (oonf_layer2_net_cleanup called with cleanup_neigh false).
CleanupRelabelLabel_keep(l) == IF l = "upd" THEN "old" ELSE l

\* The same for an origin label: old data is removed, updated becomes old.
CleanupRelabelLabel(l) == IF l = "upd" THEN "old" ELSE "none"

-----------------------------------------------------------------------------
(* GET_INTERFACE                                                           *)

\* _get_bandwidth: the channel width constant in Hz, 0 when unknown.
Bandwidth(w) ==
  CASE w = "5" -> 5000000
    [] w = "10" -> 10000000
    [] w \in {"20_noht", "20"} -> 20000000
    [] w = "40" -> 40000000
    [] w \in {"80", "80p80"} -> 80000000
    [] w = "160" -> 160000000
    [] OTHER -> 0

\* The start of a series: the history of the last one is forgotten.
NewSeries(answered) ==
  /\ ifAnswered' = answered /\ complete' = FALSE
  /\ noiseRef' = {} /\ mppSeen' = {} /\ stSeen' = {} /\ dumpsFull' = TRUE

\* nl80211_process_get_interface_result: the phy index, an SSID that differs
\* from the stored if_ident (which sets ifdata_changed outright), and the
\* bandwidth from NL80211_ATTR_CHANNEL_WIDTH ("none": the attribute is absent).  The
\* kernel sends NL80211_ATTR_CENTER_FREQ2 only for an 80+80 channel, which
\* is when bandwidth[1] copies bandwidth[0].  Its done moves on to GET_WIPHY.
GetInterface(w, newSsid) ==
  LET b1 == Bandwidth(w)
      b2 == IF w = "80p80" THEN b1 ELSE 0
  IN /\ query = "if"
     /\ wifi_phy_if' = OwnPhy
     /\ bw1' = SetValue(bw1, b1) /\ bw2' = SetValue(bw2, b2)
     /\ ifdata_changed' = (ifdata_changed \/ newSsid \/ Changed(bw1, b1)
                                           \/ Changed(bw2, b2))
     /\ query' = "wiphy" /\ NewSeries(TRUE)
     /\ UNCHANGED <<max_rx, max_tx, rxPub, txPub, noise, busy, neighVars,
                    assoc, mpath, inDump, msgs, commitVars>>

\* The GET_INTERFACE request ends in an error or a timeout without an
\* answer; the series goes on with the stored data.
LoseInterface ==
  /\ query = "if"
  /\ query' = "wiphy" /\ NewSeries(FALSE)
  /\ UNCHANGED <<wiphyVars, noise, busy, neighVars, ifdata_changed,
                 assoc, mpath, inDump, msgs, commitVars>>

-----------------------------------------------------------------------------
(* GET_WIPHY                                                               *)

\* The kernel's answer to a split dump filtered by NL80211_ATTR_WIPHY: one
\* message per band of the requested phy, none for an index no radio has.
Dump(phy) ==
  IF phy \notin Phys THEN <<>>
  ELSE [i \in 1..Len(PhyBands[phy]) |-> [phy |-> phy, bands |-> <<PhyBands[phy][i]>>]]

\* A mutant of SendGetWiphy: the maxima are not cleared.
SendGetWiphy_noclear ==
  /\ query = "wiphy" /\ ~inDump
  /\ msgs' = Dump(wifi_phy_if) /\ inDump' = TRUE
  /\ UNCHANGED <<wiphyVars, noise, busy, neighVars, ifdata_changed,
                 assoc, mpath, query, histVars, commitVars>>

\* nl80211_send_get_wiphy: clear the maxima and request the phy's dump.
SendGetWiphy ==
  /\ query = "wiphy" /\ ~inDump
  /\ max_rx' = 0 /\ max_tx' = 0
  /\ msgs' = Dump(wifi_phy_if) /\ inDump' = TRUE
  /\ UNCHANGED <<wifi_phy_if, bw1, bw2, rxPub, txPub, noise, busy, neighVars,
                 ifdata_changed, assoc, mpath, query, histVars, commitVars>>

\* Bit b of the MCS bitmask: octet b/8, bit 1 << (b % 8).
McsSupported(mcs, b) == (mcs[b \div 8 + 1] & 2^(b % 8)) # 0

\* _get_max_bitrate, in 100 kbit/s: 0 unless the bandwidth data says 20 or
\* 40 MHz, else the best table rate of a supported MCS for that width and
\* guard interval.
GetMaxBitrate(mcs, sgi20, sgi40) ==
  LET bw == bw1.val + (IF bw2.has THEN bw2.val ELSE 0)
      ht20 == bw = 20000000
      Rate(b) == IF ht20 THEN (IF sgi20 THEN Rate20[b].sgi ELSE Rate20[b].lgi)
                 ELSE (IF sgi40 THEN Rate40[b].sgi ELSE Rate40[b].lgi)
  IN IF ~bw1.has \/ bw \notin {20000000, 40000000} THEN 0
     ELSE Max({0} \cup {Rate(b) : b \in {c \in 0..76 : McsSupported(mcs, c)}})

\* _process_ht_mcs_array: tx from the MCS table, rx from the highest
\* supported data rate field (Mbit/s) or, when that is 0, the tx rate.
HtRates(mcs, sgi20, sgi40) ==
  LET rxSupp == mcs[11] + 256 * (mcs[12] & 3)
      tx == (1048576 * GetMaxBitrate(mcs, sgi20, sgi40)) \div 10
  IN [rx |-> IF rxSupp # 0 THEN 1048576 * rxSupp ELSE tx, tx |-> tx]

\* _process_vht_mcs_array: both 16-bit fields, bytes 4-5 and 6-7, raise
\* max_rx.
VhtRx(mcs) == 1048576 * Max({mcs[5] + 256 * mcs[6], mcs[7] + 256 * mcs[8]})

MaxOf(a, b) == IF a < b THEN b ELSE a

\* The loop over NL80211_ATTR_WIPHY_BANDS of one message.  ht20_sgi and
\* ht40_sgi are set by a band's HT capabilities and stay set for the
\* bands after it in the same message.  acc = [rx, tx, sgi20, sgi40].
RECURSIVE BandLoop(_, _)
BandLoop(bands, acc) ==
  IF bands = <<>> THEN acc
  ELSE
    LET b == Head(bands)
        s20 == acc.sgi20 \/ (b.capa >= 0 /\ (b.capa & 32) # 0)
        s40 == acc.sgi40 \/ (b.capa >= 0 /\ (b.capa & 64) # 0)
        ht == IF Len(b.ht) = 16 THEN HtRates(b.ht, s20, s40) ELSE [rx |-> 0, tx |-> 0]
        vrx == IF b.vht # <<>> THEN VhtRx(b.vht) ELSE 0
    IN BandLoop(Tail(bands),
                [rx |-> MaxOf(MaxOf(acc.rx, ht.rx), vrx),
                 tx |-> MaxOf(acc.tx, ht.tx), sgi20 |-> s20, sgi40 |-> s40])

\* nl80211_process_get_wiphy_result for the next message of the dump: it
\* takes the message's wiphy index as the interface's and runs the band
\* loop with both guard-interval flags cleared.
ProcessWiphyMessage ==
  /\ query = "wiphy" /\ inDump /\ msgs # <<>>
  /\ LET m == Head(msgs)
         r == BandLoop(m.bands, [rx |-> max_rx, tx |-> max_tx,
                                 sgi20 |-> FALSE, sgi40 |-> FALSE])
     IN /\ wifi_phy_if' = m.phy
        /\ max_rx' = r.rx /\ max_tx' = r.tx
  /\ msgs' = Tail(msgs)
  /\ UNCHANGED <<bw1, bw2, rxPub, txPub, noise, busy, neighVars, ifdata_changed,
                 assoc, mpath, query, inDump, histVars, commitVars>>

\* nl80211_finalize_get_wiphy: publish each maximum that is not 0.
Finalize ==
  /\ rxPub' = IF max_rx # 0 THEN SetValue(rxPub, max_rx) ELSE rxPub
  /\ txPub' = IF max_tx # 0 THEN SetValue(txPub, max_tx) ELSE txPub
  /\ ifdata_changed' = (ifdata_changed \/ (max_rx # 0 /\ Changed(rxPub, max_rx))
                                       \/ (max_tx # 0 /\ Changed(txPub, max_tx)))

\* _cb_nl_done after the last message, or _cb_nl_timeout at any point:
\* finalize, then the next query.
WiphyDoneOrTimeout ==
  /\ query = "wiphy" /\ inDump
  /\ Finalize
  /\ complete' = (msgs = <<>>)
  /\ msgs' = <<>> /\ inDump' = FALSE /\ query' = "survey"
  /\ UNCHANGED <<wifi_phy_if, bw1, bw2, max_rx, max_tx, noise, busy, neighVars,
                 assoc, mpath, ifAnswered, noiseRef, mppSeen, stSeen, dumpsFull,
                 commitVars>>

\* _cb_nl_error: the next query without finalize.
WiphyError ==
  /\ query = "wiphy" /\ inDump
  /\ msgs' = <<>> /\ inDump' = FALSE /\ query' = "survey"
  /\ UNCHANGED <<wiphyVars, noise, busy, neighVars, ifdata_changed,
                 assoc, mpath, histVars, commitVars>>

-----------------------------------------------------------------------------
(* GET_SURVEY, GET_MPP and GET_STATION                                     *)

\* The request of a dump query (nl80211_send_get_survey, _send_get_mpp,
\* _send_get_station_dump, all with NLM_F_DUMP and the interface index):
\* the kernel answers with one message per channel, proxy path or station.
SendDump(q, answer) ==
  /\ query = q /\ ~inDump
  /\ msgs' = answer /\ inDump' = TRUE
  /\ UNCHANGED <<wiphyVars, noise, busy, neighVars, ifdata_changed,
                 assoc, mpath, query, histVars, commitVars>>

SendGetSurvey == \E sd \in SurveyDumps : SendDump("survey", sd)
SendGetMpp ==
  SendDump("mpp", SetToSeq({[dest |-> p[1], hop |-> p[2]] : p \in mpath}))
SendGetStation == SendDump("station", SetToSeq(assoc))

\* _cb_nl_done, _cb_nl_error or _cb_nl_timeout of a query without finalize:
\* the rest of the dump is dropped and the next query follows.
EndDump ==
  /\ query \in {"survey", "mpp", "station"} /\ inDump
  /\ msgs' = <<>> /\ inDump' = FALSE /\ query' = NextQuery(query)
  /\ dumpsFull' = (dumpsFull /\ (query = "survey" \/ msgs = <<>>))
  /\ UNCHANGED <<wiphyVars, noise, busy, neighVars, ifdata_changed, assoc, mpath,
                 ifAnswered, complete, noiseRef, mppSeen, stSeen, commitVars>>

\* A mutant of Int8: the (int8_t) cast is left out.
Int8_nocast(u) == u

\* (int8_t) of an unsigned byte: two's complement on every target.
Int8(u) == IF u >= 128 THEN u - 256 ELSE u

\* A mutant of SurveyInUse: every channel of the dump is taken.
SurveyInUse_any(m) == TRUE

\* The early returns of nl80211_process_get_survey_result: only the
\* channel with NL80211_SURVEY_INFO_IN_USE is taken.
SurveyInUse(m) == m.inUse

\* nl80211_process_get_survey_result: the noise (a signed byte in dBm, in
\* milli-dBm) when present, and the channel times (ms, in ns).
ProcessSurveyMessage ==
  /\ query = "survey" /\ inDump /\ msgs # <<>>
  /\ LET m == Head(msgs)
         n == 1000 * Int8(m.noise)
         hasNoise == m.hasNoise
     IN /\ IF SurveyInUse(m)
           THEN /\ noise' = IF hasNoise THEN SetValue(noise, n) ELSE noise
                /\ busy' = SetValue(busy, 1000000 * m.busy)
                /\ ifdata_changed' = (ifdata_changed \/ (hasNoise /\ Changed(noise, n))
                                      \/ Changed(busy, 1000000 * m.busy))
           ELSE UNCHANGED <<noise, busy, ifdata_changed>>
        /\ noiseRef' = IF m.inUse /\ hasNoise THEN {m.dbm} ELSE noiseRef
  /\ msgs' = Tail(msgs)
  /\ UNCHANGED <<wiphyVars, neighVars, assoc, mpath, query, inDump,
                 ifAnswered, complete, mppSeen, stSeen, dumpsFull, commitVars>>

\* A mutant of AddDst: an existing destination keeps the old origin.
AddDst_norelabel(l) == IF l = "none" THEN "upd" ELSE l

\* nl80211_add_dst: oonf_layer2_destination_add creates the destination
\* with the updated origin or returns the existing one, whose old origin
\* is then replaced by the updated one.
AddDst(l) == "upd"

\* nl80211_process_get_mpp_result: a proxy path is stored as a destination
\* of its next hop only if that neighbour already exists.
ProcessMppMessage ==
  /\ query = "mpp" /\ inDump /\ msgs # <<>>
  /\ LET m == Head(msgs)
     IN IF m.hop \in nb
        THEN /\ dst' = [dst EXCEPT ![m.hop][m.dest] = AddDst(@)]
             /\ mppSeen' = mppSeen \cup {<<m.dest, m.hop>>}
        ELSE UNCHANGED <<dst, mppSeen>>
  /\ msgs' = Tail(msgs)
  /\ UNCHANGED <<wiphyVars, noise, busy, nb, nbData, ifdata_changed, assoc,
                 mpath, query, inDump, ifAnswered, complete, noiseRef, stSeen, dumpsFull,
                 commitVars>>

\* A mutant of NeighCleanup: every destination of the station is removed.
NeighCleanup_all(ds) == [d \in Dests |-> "none"]

\* oonf_layer2_neigh_cleanup of the old origin on one neighbour's
\* destinations (nl80211_cleanup_l2neigh_data).
NeighCleanup(ds) == [d \in Dests |-> IF ds[d] = "old" THEN "none" ELSE ds[d]]

\* nl80211_process_get_station_dump_result: oonf_layer2_neigh_add, the
\* station's data with the updated origin, then the removal of its data and
\* destinations of the old origin; oonf_layer2_neigh_commit keeps it.
ProcessStationMessage ==
  /\ query = "station" /\ inDump /\ msgs # <<>>
  /\ LET s == Head(msgs)
     IN /\ nb' = nb \cup {s}
        /\ nbData' = [nbData EXCEPT ![s] = "upd"]
        /\ dst' = [dst EXCEPT ![s] = NeighCleanup(@)]
        /\ stSeen' = stSeen \cup {s} /\ fresh' = fresh \cup {s}
  /\ msgs' = Tail(msgs)
  /\ UNCHANGED <<wiphyVars, noise, busy, ifdata_changed, assoc, mpath, query,
                 inDump, ifAnswered, complete, noiseRef, mppSeen, dumpsFull, lastFresh,
                 committed, pathMissed>>

-----------------------------------------------------------------------------
(* QUERY_END and the kernel                                                *)

\* QUERY_END (_get_next_query): when the series changed interface data,
\* oonf_layer2_net_cleanup of the old origin, neighbours included, and
\* oonf_layer2_net_relabel; then the next series starts at GET_INTERFACE.
EndOfSeries ==
  /\ query = "end"
  /\ IF ifdata_changed
     THEN /\ bw1' = CleanupRelabel(bw1) /\ bw2' = CleanupRelabel(bw2)
          /\ rxPub' = CleanupRelabel(rxPub) /\ txPub' = CleanupRelabel(txPub)
          /\ noise' = CleanupRelabel(noise) /\ busy' = CleanupRelabel(busy)
          /\ nbData' = [s \in Stations |-> CleanupRelabelLabel(nbData[s])]
          /\ dst' = [s \in Stations |-> [d \in Dests |-> CleanupRelabelLabel(dst[s][d])]]
     ELSE UNCHANGED <<bw1, bw2, rxPub, txPub, noise, busy, nbData, dst>>
  /\ committed' = ifdata_changed
  /\ fresh' = IF ifdata_changed THEN {} ELSE fresh
  /\ lastFresh' = fresh
  /\ pathMissed' = [p \in Dests \X Stations |->
                     IF p \notin mpath \/ p[2] \notin assoc THEN 0
                     ELSE IF ~dumpsFull THEN pathMissed[p]
                     ELSE IF dst'[p[2]][p[1]] = "none" THEN pathMissed[p] + 1 ELSE 0]
  /\ ifdata_changed' = FALSE
  /\ query' = "if"
  /\ UNCHANGED <<wifi_phy_if, max_rx, max_tx, nb, assoc, mpath, inDump, msgs,
                 histVars>>

\* Between two series, stations associate and leave, and the kernel's mesh
\* proxy paths change.
KernelChange ==
  /\ query = "if"
  /\ assoc' \in SUBSET Stations
  /\ mpath' \in SUBSET (Dests \X Stations)
  /\ UNCHANGED <<wiphyVars, noise, busy, neighVars, ifdata_changed, query,
                 inDump, msgs, histVars, commitVars>>

Init ==
  /\ wifi_phy_if = -1   \* _nl80211_if_add: no phy known yet
  /\ bw1 = NoData /\ bw2 = NoData
  /\ max_rx = 0 /\ max_tx = 0
  /\ rxPub = NoData /\ txPub = NoData
  /\ noise = NoData /\ busy = NoData
  /\ nb = {} /\ nbData = [s \in Stations |-> "none"]
  /\ dst = [s \in Stations |-> [d \in Dests |-> "none"]]
  /\ ifdata_changed = FALSE
  /\ assoc = {} /\ mpath = {}
  /\ query = "if" /\ inDump = FALSE /\ msgs = <<>>
  /\ ifAnswered = FALSE /\ complete = FALSE
  /\ noiseRef = {} /\ mppSeen = {} /\ stSeen = {} /\ dumpsFull = FALSE
  /\ fresh = {} /\ lastFresh = {} /\ committed = FALSE
  /\ pathMissed = [p \in Dests \X Stations |-> 0]

\* One step of the series, whatever the kernel does meanwhile.
SeriesNext ==
  \/ \E w \in Widths, n \in BOOLEAN : GetInterface(w, n)
  \/ LoseInterface
  \/ SendGetWiphy
  \/ ProcessWiphyMessage
  \/ WiphyDoneOrTimeout
  \/ WiphyError
  \/ SendGetSurvey
  \/ ProcessSurveyMessage
  \/ SendGetMpp
  \/ ProcessMppMessage
  \/ SendGetStation
  \/ ProcessStationMessage
  \/ EndDump
  \/ EndOfSeries

Next == SeriesNext \/ KernelChange

Spec == Init /\ [][Next]_vars

-----------------------------------------------------------------------------
(* Reference: the rates of the own phy's bands, each band with its own    *)
(* HT capabilities, read from the MCS index sets the bands were built from *)

OwnBands == {PhyBands[OwnPhy][i] : i \in DOMAIN PhyBands[OwnPhy]}

RefHtTx(b) ==
  LET bw == bw1.val + (IF bw2.has THEN bw2.val ELSE 0)
      sgi20 == b.capa >= 0 /\ (b.capa \div 32) % 2 = 1
      sgi40 == b.capa >= 0 /\ (b.capa \div 64) % 2 = 1
      tbl == IF bw = 20000000 THEN Rate20 ELSE Rate40
      sgi == IF bw = 20000000 THEN sgi20 ELSE sgi40
      best == Max({0} \cup {IF sgi THEN tbl[i].sgi ELSE tbl[i].lgi : i \in b.idx})
  IN IF Len(b.ht) # 16 \/ ~bw1.has \/ bw \notin {20000000, 40000000} THEN 0
     ELSE (1048576 * best) \div 10

RefRx(b) ==
  MaxOf(IF Len(b.ht) # 16 THEN 0
        ELSE IF b.rxHigh # 0 THEN 1048576 * b.rxHigh ELSE RefHtTx(b),
        IF b.vht # <<>> THEN VhtRx(b.vht) ELSE 0)

RefMaxTx == Max({0} \cup {RefHtTx(b) : b \in OwnBands})
RefMaxRx == Max({0} \cup {RefRx(b) : b \in OwnBands})

-----------------------------------------------------------------------------
(* Properties                                                              *)

\* After a GET_WIPHY dump that ended with done, in a series whose
\* GET_INTERFACE was answered, max_tx and max_rx are the best rates of the
\* interface's own phy: every band of it counted, no band of another phy,
\* nothing left from an earlier series, each band rated with its own
\* guard-interval capabilities at the stored bandwidth.
DumpMaxMatchesBands ==
  (query \in {"survey", "mpp", "station", "end"} /\ complete /\ ifAnswered) =>
    max_tx = RefMaxTx /\ max_rx = RefMaxRx

\* After QUERY_END of a series whose survey reported the channel in use
\* with its noise, the published noise is that channel's, in milli-dBm:
\* no other channel of the dump overwrites it, and its sign survives the
\* byte it travels in.
PublishedNoiseCurrent ==
  query = "if" => \A n \in noiseRef : noise.has /\ noise.val = 1000 * n

\* Every mesh proxy path that GET_MPP stored in a series is still a
\* destination of its next hop after QUERY_END: neither the next hop's
\* station-dump cleanup nor the end-of-series cleanup removes what the
\* series has just refreshed.
ProxiedDestinationsKept ==
  query = "if" => \A p \in mppSeen : dst[p[2]][p[1]] # "none"

\* A QUERY_END that commits keeps the data of exactly the stations that a
\* station dump has reported since the previous commit: the counters of a
\* station that left are removed, those of every station refreshed in
\* between are kept, whichever series refreshed them.
CommitKeepsFreshNeighbours ==
  (query = "if" /\ committed) =>
    \A s \in Stations : (nbData[s] # "none") <=> (s \in lastFresh)

\* A mesh proxy path the kernel holds through an associated station is a
\* stored destination by the end of the second series whose GET_MPP and
\* GET_STATION dumps both ran to the end.  GET_MPP runs before GET_STATION
\* and drops a path whose next hop is not yet a layer-2 neighbour
\* (nl80211_mpp.c:141), so the first series may miss it; the station dump
\* must then create the neighbour without removing what GET_MPP stored.
ProxyPathStoredWithinTwoSeries ==
  \A p \in Dests \X Stations : pathMissed[p] <= 1

=============================================================================
