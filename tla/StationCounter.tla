---------------------------- MODULE StationCounter ----------------------------
(***************************************************************************)
(* One 32-bit packet counter of one station, as the nl80211 listener      *)
(* extends it to 64 bits (nl80211_get_station_dump.c, _handle_traffic) and *)
(* keeps it in the layer-2 database across series of queries.             *)
(*                                                                         *)
(* The kernel's counter is reported modulo 2^Width; Width stands for 32    *)
(* and is kept small so the counter wraps several times within the bound. *)
(* A stored value has an origin: written in this series ("updated") or    *)
(* left from the previous one ("data"); the end of an interface's series  *)
(* removes values still of the old origin and relabels the rest           *)
(* (_get_next_query at QUERY_END).                                        *)
(***************************************************************************)
EXTENDS Naturals

CONSTANTS
  Width,        \* bits of the kernel counter (32 in the code)
  MaxGap,       \* most packets counted between two samples of the station
  MaxTotal,     \* bound on the kernel counter's true value
  CanLose       \* whether a station-dump message may be lost

ASSUME Width \in Nat \ {0} /\ MaxGap \in Nat \ {0} /\ MaxTotal \in Nat
ASSUME CanLose \in BOOLEAN

\* The code's constants, for width Width: 0x100000000ull, 0x80000000ull,
\* UPPER_32_MASK and LOWER_32_MASK.
Modulus == 2^Width
Half == 2^(Width - 1)
Upper(v) == v - (v % Modulus)

\* A mutant of Lower: the mask drops the counter's top bit.
Lower_short(v) == v % Half

Lower(v) == v % Modulus

VARIABLES
  total,       \* the kernel's packet count for the station
  hasValue,    \* oonf_layer2_has_value(&l2neigh->data[idx])
  value,       \* oonf_layer2_get_value(&l2neigh->data[idx])
  updated,     \* the value's origin is _layer2_updated_origin
  sampled,     \* this series' station dump has been answered or lost
  ref,         \* history: the count accumulated from all samples so far
  seen,        \* history: a sample has been taken
  gap,         \* packets counted since the last sample was taken
  dropped      \* history: the cleanup has removed a stored value

vars == <<total, hasValue, value, updated, sampled, ref, seen, gap, dropped>>

-----------------------------------------------------------------------------

\* A mutant of ExtendCounter: the 32-bit sample replaces the whole value.
ExtendCounter_noupper(has, old, new32) == new32

\* A mutant of ExtendCounter: the overflow correction subtracts 2^32.
ExtendCounter_sub(has, old, new32) ==
  LET oldv == IF has THEN old ELSE 0
      newv == Upper(oldv) + Lower(new32)
  IN IF newv + Half < oldv THEN newv - Modulus ELSE newv

\* _handle_traffic: keep the upper half of the stored value, take the
\* sample as the lower half, and add 2^32 when that falls more than 2^31
\* below the stored value.
ExtendCounter(has, old, new32) ==
  LET oldv == IF has THEN old ELSE 0
      newv == Upper(oldv) + Lower(new32)
  IN IF newv + Half < oldv THEN newv + Modulus ELSE newv

\* The reference extension: the first sample as it is, then each sample's
\* distance from the previous one modulo 2^Width.
RefExtend(r, s, new32) ==
  IF ~s THEN new32 ELSE r + ((new32 - (r % Modulus) + Modulus) % Modulus)

\* nla_get_u32 of the packet attribute: the kernel's count modulo 2^Width.
KernelSample == total % Modulus

Init ==
  /\ total \in 0..MaxGap
  /\ gap = 0 /\ dropped = FALSE
  /\ hasValue = FALSE /\ value = 0 /\ updated = FALSE
  /\ sampled = FALSE
  /\ ref = 0 /\ seen = FALSE

\* The station sends or receives packets.
Traffic ==
  \E d \in 1..MaxGap :
    /\ total + d <= MaxTotal /\ gap + d <= MaxGap
    /\ total' = total + d /\ gap' = gap + d
    /\ UNCHANGED <<hasValue, value, updated, sampled, ref, seen, dropped>>

\* nl80211_process_get_station_dump_result for this station: the packet
\* counter goes through _handle_traffic and nl80211_change_l2neigh_data
\* (origin updated); nl80211_cleanup_l2neigh_data then removes only values
\* of the old origin, which this one no longer has.
ProcessStationDump ==
  /\ ~sampled
  /\ value' = ExtendCounter(hasValue, value, KernelSample)
  /\ hasValue' = TRUE /\ updated' = TRUE
  /\ sampled' = TRUE
  /\ ref' = RefExtend(ref, seen, KernelSample) /\ seen' = TRUE
  /\ gap' = 0
  /\ UNCHANGED <<total, dropped>>

\* The station's message of the dump is lost: the netlink layer reports
\* a timeout or error and the series goes on without it.
LoseStationDump ==
  /\ CanLose /\ ~sampled
  /\ sampled' = TRUE
  /\ UNCHANGED <<total, hasValue, value, updated, ref, seen, gap, dropped>>

\* QUERY_END for the interface (_get_next_query): only when the series
\* changed interface data (ifdata_changed, set by the interface, wiphy and
\* survey answers) does oonf_layer2_net_cleanup remove the values of the
\* old origin, neighbours' included, and oonf_layer2_net_relabel turn
\* updated into old; otherwise both are skipped.
EndOfSeries ==
  /\ sampled
  /\ \E ifdata_changed \in BOOLEAN :
       IF ifdata_changed
       THEN /\ hasValue' = (hasValue /\ updated)
            /\ value' = IF hasValue /\ updated THEN value ELSE 0
            /\ updated' = FALSE
            /\ dropped' = (dropped \/ (hasValue /\ ~updated))
       ELSE UNCHANGED <<hasValue, value, updated, dropped>>
  /\ sampled' = FALSE
  /\ UNCHANGED <<total, ref, seen, gap>>

Next == Traffic \/ ProcessStationDump \/ LoseStationDump \/ EndOfSeries

Spec == Init /\ [][Next]_vars

-----------------------------------------------------------------------------
(* Properties                                                              *)

TypeOK ==
  /\ total \in 0..MaxTotal
  /\ hasValue \in BOOLEAN /\ updated \in BOOLEAN /\ sampled \in BOOLEAN
  /\ value \in Nat /\ ref \in Nat /\ seen \in BOOLEAN
  /\ gap \in 0..MaxGap /\ dropped \in BOOLEAN

\* _handle_traffic turns the 32-bit samples into a 64-bit count: whenever
\* a value is stored it equals the count accumulated from every sample
\* taken since the first, provided fewer than 2^31 packets pass between
\* two samples.
CounterExact == hasValue => value = ref

\* The extension itself loses nothing: as long as the cleanup has never
\* removed the stored value, lost answers included, the value equals the
\* count accumulated from the samples.
CounterExactWhileKept == ~dropped => CounterExact

\* Whatever answers are lost, the 64-bit value _handle_traffic keeps is
\* never ahead of the count accumulated from the samples, and falls short
\* of it only by whole wraps: its lower 32 bits are always right.
CounterLosesOnlyWraps ==
  hasValue => value <= ref /\ (ref - value) % Modulus = 0

=============================================================================
