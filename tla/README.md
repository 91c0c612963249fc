# TLA+ models of rabeld

This directory holds TLA+ models of the parts of `src/` whose behaviour
depends on ordering, timing or arithmetic edges. Each model is checked with
TLC. Every operator that models code is translated from the source lines that
`PROJECT.json` ("map") names for it. The few operators whose code is only
declared under `src/` are marked `spec_modelled` and follow `spec.md`.

## 1. The system and its parts

| Part | Source | State | Operations |
|---|---|---|---|
| Resend scheduler | `src/resend.h`, `util.h` (`seqno_compare`, `seqno_minus`, `seqno_plus`, `timeval_minus_msec`) | list `to_resend` of entries (kind, max, delay, time, prefix, seqno, id, ifp); cached wake time `resend_time` | `record_resend`, `find_resend`/`find_request`, `unsatisfied_request`, `satisfy_request`, `expire_resend`, `recompute_resend_time`, `do_resend` |
| nl80211 listener | `src/nl80211_listener/nl80211_listener.c`, `genl_get_family.c` | interface AVL tree; `_nl80211_id`, `_nl80211_multicast_group`; `_current_query_if`, `_current_query_number`, `_current_query_in_progress`; the transmission timer | timer event, trigger/next query, netlink message/error/done/timeout callbacks, two configuration callbacks, interface add and remove |
| nl80211 query handlers | `nl80211_get_interface.c`, `_wiphy.c`, `_survey.c`, `_mpp.c`, `_station_dump.c` | per-interface `ifdata_changed`, `max_rx`/`max_tx`; the layer-2 network values, neighbours, their data and destinations | send/process/finalize for each query |
| Prefix algebra | `src/util.h` | none (pure functions) | `prefix_cmp`, `v4mapped`, `linklocal`, `v4tov6`, `v6_equal` variants |
| External route table | `src/xroute.h` | `xroutes[MAXXROUTES]`, `numxroutes` | declared only: `find_xroute`, `add_xroute`, `check_xroutes` |
| Configuration, tracing, platform stubs, benchmark | `configuration.h`, `netlink_trace.c`, `epiphany/*`, `benchmarks/benchmark.c` | declarations, logging, type stubs, a timing driver | not state machines (see section 6) |

**How they interact.** The resend scheduler is called by the Babel
message handlers:
- `record_resend` when a request or urgent update is sent;
- `satisfy_request` and `unsatisfied_request` when an update arrives;
- `do_resend` and `expire_resend` from the main loop when `now` passes
  `resend_time`.

The nl80211 listener is an OONF plugin driven by three sources:
- its own periodic timer;
- the netlink socket's callbacks;
- configuration commits.

Its query handlers write per-interface and per-neighbour layer-2 data,
which the listener commits when an interface's series of queries ends.

The two listener models split this along one interface.
- `NL80211Listener` checks the order of the queries: one request at a
  time, and the five queries of each interface in turn (`SeriesComplete`,
  `PollRefinement`).
- `InterfaceSeries` takes that order as given, and checks what one
  interface's series does to the layer-2 data.

**Hard behaviours.**
- Resend:
  - 16-bit sequence-number wrap;
  - `satisfy_request` marking an entry instead of unlinking it, because a
    list walk may be in progress;
  - a time-0 sentinel that counts as "expired" only once the clock passes
    65 s.
- Listener:
  - callbacks of the timer, the netlink layer and the configuration
    interleave;
  - a reply may end in done, error or timeout;
  - a configuration change may free the interface a query is working on;
  - a one-shot family lookup must succeed before anything else happens.

## 2. Modules

### Resend.tla / MC_Resend.tla: the resend scheduler

**State.**
- `to_resend` is a sequence of records. The prefix and source prefix are
  reduced to one key from `Keys`, ids to the model values `Ids`, and
  interfaces to `Ifaces`.
- `resend_time` is the cached wake time, with `NoWake` for "nothing
  pending".
- `now` is the clock, in ticks.
- Two history variables: `satisfied` holds the satisfied requests and the
  update that satisfied each one; `lastSent` holds what the last
  `do_resend` sent.

**Translated from `resend.h`:**
- `resend_match`, `find_resend`, `find_request`, `resend_expired`,
  `unsatisfied_request`;
- `SatisfyRequest`: the whole of `satisfy_request`, including its
  `recompute_resend_time`;
- `seqno_compare`, `seqno_minus`, `seqno_plus` (mod 2^16, with the
  `(short)` cast) and `timeval_minus_msec` from `util.h`.

**Modelled from spec 4.3,** because their bodies are not under `src/`:
`RecordResend` (merge or prepend, then recompute), `ExpireResend`, `DoResend`
(expire, resend the due entries, decrement `max`, recompute) and
`recompute_resend_time`.

**Time.** Time is integer ticks. `RequestTimeout` stands for
`REQUEST_TIMEOUT` (65000 ms) and is scaled down with the delays. `InitTimes`
chooses where the clock starts: at 0, as a monotonic clock at boot, or past
the timeout. The passing run starts at 0 and runs past the timeout, so both
the first 65 s after boot and the time after them are covered.

### NL80211Listener.tla / MC_NL80211Listener.tla: the listener's polling state machine

**State.**
- `ifs` holds the names in `_nl80211_if_tree`. Names are integers, and
  their order is the tree's order.
- `ifSection`, `nlSection` and `ifdataChanged` are the per-interface
  flags.
- `nlId` and `nlMc` say whether the id and the group are known.
- `cur`, `number` and `inProgress` are the three query globals.
- `timerOn` says whether the timer runs.
- `inflight` is the ordered queue of requests the netlink layer has not
  yet ended.
- `curFreed` says whether the object `cur` points to has been freed.
- `nlList` and `ifSecs` hold the configuration.
- `addFailed` records that some `_nl80211_if_add` has returned NULL.
- A request in `inflight` records its query and the interface it was sent
  for.
- `late` holds the <<interface, query>> of timed-out requests whose answer
  is still underway. `nullDeref` records that one was processed with
  `_current_query_if` NULL.

**Actions.**

| Action | Code |
|---|---|
| `CbTransmissionEvent` | `_cb_transmission_event` |
| `CbNlMessage` | `_cb_nl_message` |
| `CbNlLateMessage` | `_cb_nl_message` for an answer whose request timed out |
| `FamilyResult` | `genl_process_get_family_result` |
| `CbNlError` | `_cb_nl_error` |
| `CbNlDoneOrTimeout` | `_cb_nl_done`/`_cb_nl_timeout`, which have the same body |
| `CbConfigChanged` | `_cb_config_changed`: its three loops over the old and new "if" lists, with the interfaces loop 2 creates through `_nl80211_if_add` and those loop 3 removes |
| `CbIfSectionAdded`/`CbIfSectionRemoved` | `_cb_if_config_changed` |

`Trigger(queue, ifd, u)` is `_trigger_next_netlink_query` with
`_get_next_query` inlined. Each callback calls it with the queue and the
flags that its own earlier statements left (for example, after
`nl80211_finalize_get_wiphy`), so every handler is one atomic action, as
it is on OONF's single-threaded scheduler.

**Abstraction of the handlers.** Each query handler's parsing is reduced to
two effects:
- whether it may set `ifdata_changed` (process of GET_IF and GET_SURVEY,
  finalize of GET_WIPHY);
- that it dereferences `_current_query_if`.

A dereference of a freed interface sets `uaf`. After it the model goes on
as the build may: stale fields, with `avl_next_element_safe` giving any
later interface or NULL.

**Environment.** The netlink layer answers the first queued request with at
most `MaxMsgs` messages, then ends it with exactly one of done, error or
timeout. Its own timeout guarantees that some ending comes. The family dump
of a kernel with nl80211 contains the nl80211 entry before its done.
`FamilyCanFail` lets the family request end without that entry (error,
timeout, or a kernel without cfg80211). `AllowRemoval` lets configuration
changes remove interfaces.

**Fault model.** `AddCanFail` lets `_nl80211_if_add` return NULL for any
name it would create (`FailedAdds`): `oonf_class_malloc`,
`oonf_layer2_net_add` or `os_interface_add` failed, and what was set up is
released. The callers then skip the flag they would set, as the code does
with its `if (interf)` tests, and nothing retries the add.

`LateReplies` lets a timeout leave one message of the answer underway
(`Leftover`, at most `MaxLate` at a time). It arrives at any later point.
OONF's netlink layer hands every nl80211 message to `cb_message` without
matching it to a request, and `_cb_nl_message` dispatches it by the
current `_current_query_number` (`Dispatch`). The dispatch works as follows:
- An answer to another query fails the command test and is only logged.
- Otherwise the current query's `process` runs on `_current_query_if`.
- The survey, MPP and station handlers then drop another interface's
  message by its ifindex (`IfindexMatches`).
- GET_INTERFACE and GET_WIPHY have no such test.
The family lookup's answers are left out: they are processed the same way
whenever they come.

### PollAbstract.tla: what the polling promises

An abstract poller with three variables: `busy` (a series is under way),
`waiting` (a question is out) and `pos` (the last question of the series,
an `<<item, step>>` pair, or `Origin` for the preliminary question).
- `Start`: an idle poller with nothing out asks the preliminary question
  or the first step of an item.
- `Ask`: the answer ends and a strictly later pair is asked.
- `Finish`: the answer ends and so does the series.
- Weak fairness of `Ask \/ Finish`: every answer ends. Because `pos` only
  grows and the pairs are finite, every series ends.

`NL80211Listener` instantiates it as `Poll` with this mapping:
- `busy` is `inProgress`;
- `waiting` is `inflight # <<>>`;
- `pos` is `<<cur, number>>` during a series (`<<NULL, QUERY_GET_IF>>`
  for the family lookup) and `Origin` otherwise.

`PollRefinement == Poll!ASpec` is checked as a property of `nl_cycle`.
Every callback of the listener is then a `Start`, an `Ask`, a `Finish` or
a stutter. So the listener:
- asks one question at a time;
- asks every `<<interface, query>>` at most once per series, in tree
  order;
- never starts a series while one is out.

### PrefixAlgebra.tla / MC_PrefixAlgebra.tla: the address and prefix functions

The functions of `util.h` are pure operators over 16-byte tuples (byte 1 is
the first in memory). A word read through a casted pointer is the tuple of
bytes it covers. `htobe16`/`htobe32` are the byte swap of a little-endian
host. TLC's integers are 32-bit, so no 64-bit value is ever built: two
64-bit words are compared as their byte tuples. The variable
`HAVE_64BIT_ARCH` chooses the word size, and both builds are checked.
`ByteAt` models the read one past a 16-byte buffer (undefined behaviour) as
any byte of `OobBytes`. The state holds only the inputs; Init enumerates
them and no step changes them. Each invariant compares a code operator with
a bit-level reference definition (`RefCompare`, `BitsAgree`).

### StationCounter.tla / MC_StationCounter.tla: the station packet counter

One packet counter of one station, as `_handle_traffic` extends the
kernel's 32-bit value to 64 bits and the layer-2 database keeps it across
series.
- `Width` stands for 32, and is 3 in the runs, so the counter wraps
  several times within `MaxTotal`.
- `Traffic` adds at most `MaxGap` packets between two samples. `MaxGap` is
  at most half the range, the condition the extension needs.
- `ProcessStationDump` is the station's message of the dump: the sample
  goes through `_handle_traffic` and is stored with the updated origin.
- `LoseStationDump` is a lost answer, or an early return of the handler.
- `EndOfSeries` is QUERY_END. Only when the series changed interface data
  (`ifdata_changed`, which the other handlers set) does the cleanup remove
  values still of the old origin and relabel the rest.
- The history variables `ref` (the count accumulated from all samples) and
  `dropped` (a cleanup removed the value) state what the value should be.

### InterfaceSeries.tla / MC_InterfaceSeries.tla: one interface's whole series

One interface's series of queries, from GET_INTERFACE to QUERY_END, over
the layer-2 database it writes. The series runs in the order of
`_if_query_ops`. Each query sends a request, processes the answer's
messages, and ends with done, error or timeout.

**State.**
- A layer-2 value is a record `[has, val, upd]`, where `upd` means the
  value has the updated origin.
- A neighbour's data, and each of its destinations, is an origin label:
  "none", "old" or "upd".
- `assoc` and `mpath` are the kernel's stations and mesh proxy paths.
  They change between series (`KernelChange`).
- `wifi_phy_if` starts at -1, as `_nl80211_if_add` sets it
  (nl80211_listener.c:470). Until GET_INTERFACE names the radio, the
  wiphy dump filtered by that index (`Dump`) is empty.

**Actions.**

| Action | Code |
|---|---|
| `GetInterface`, `LoseInterface` | `nl80211_process_get_interface_result` with `_get_bandwidth` and the SSID test; an unanswered request |
| `SendGetWiphy`, `ProcessWiphyMessage`, `WiphyDoneOrTimeout`, `WiphyError` | the reset of `max_rx`/`max_tx` at send; the band loop with `_process_ht_mcs_array`, `_get_max_bitrate` and `_process_vht_mcs_array`; `nl80211_finalize_get_wiphy` |
| `SendGetSurvey`, `ProcessSurveyMessage` | `nl80211_process_get_survey_result`: only the channel in use sets the noise (u8 cast to `int8_t`, in milli-dBm) and the channel times |
| `SendGetMpp`, `ProcessMppMessage` | `nl80211_process_get_mpp_result`: a proxy path is stored through `nl80211_add_dst` only if its next hop is already a neighbour |
| `SendGetStation`, `ProcessStationMessage` | `nl80211_process_get_station_dump_result`: the neighbour is added, its data gets the updated origin, and its data and destinations of the old origin are removed |
| `EndDump` | the done, error or timeout of a survey, MPP or station dump |
| `EndOfSeries` | QUERY_END in `_get_next_query`: only if `ifdata_changed`, the cleanup of the old origin (neighbours included) and the relabel |

Only the table entries the bands use are given (`MC_Rate20`, `MC_Rate40`).
All rates stay below 2048, so `1048576 * rate` fits TLC's 32-bit integers.

**The OONF layer-2 library** is outside the repository. The model assumes:
- `oonf_layer2_change_value` reports a change only when the value changes,
  as the repository documents its three wrappers ("true if value changed",
  `nl80211_listener.c:370`, `:383`, `:406`). Rewriting an equal value under
  the updated origin is no change, so it does not set `ifdata_changed`
  (`Changed`).
- `oonf_layer2_net_cleanup(..., true)` and `oonf_layer2_net_relabel` reach
  the neighbours' data and their destinations.
- `oonf_layer2_destination_add` returns an existing destination unchanged.
- Neighbours are never removed: no code in the repository removes one, and
  `oonf_layer2_neigh_commit` keeps a neighbour that has data.

The history variables `fresh`, `lastFresh` and `committed` record which
stations were dumped since the last commit and whether the last QUERY_END
committed.
`dumpsFull` records that no MPP or station dump of the series was cut
short, and `pathMissed` counts, per proxy path through an associated
station, the series with full dumps that ended without it stored.

## 3. Runs

| Run | cfg | Expect | What it shows |
|---|---|---|---|
| resend_safety | Resend_safety.cfg | pass | `TypeOK`. `SatisfiedStaysSatisfiedPastTimeout`: once the clock has passed `REQUEST_TIMEOUT`, a request stays satisfied by the update that satisfied it until a new request for the key is recorded. `NoResendOfSatisfied`: `do_resend` never resends a satisfied request. `SeqnoHelpersAgree`: for every pending seqno, `seqno_compare` is the sign of the `seqno_minus` distance, and `seqno_minus` undoes `seqno_plus`, at the half-range and wrap boundaries. The clock starts at 0. |
| resend_boot_satisfied | Resend_boot_satisfied.cfg | violation | `SatisfiedStaysSatisfied` fails when the clock starts at 0. Finding: the `time.tv_sec = 0` sentinel is not "expired" until 65 s. |
| resend_unsatisfied | Resend_unsatisfied.cfg | violation | `UnsatisfiedMeansOlder` (the example of spec section 8) fails at once. Finding: the code, and spec 4.3, answer the opposite. |
| nl_cycle | NL_cycle.cfg | pass | `TypeOK`. `AtMostOneInFlight`: never two netlink requests outstanding. `SeriesComplete`: a series that ends has sent all five queries to every interface present throughout it. `SeriesEnds`: every series ends (liveness). `PollRefinement`: the listener implements `PollAbstract`. All four hold with late answers (`LateReplies`): a late answer sends nothing and moves neither `_current_query_if` nor `_current_query_number`. Interfaces are only added here. Three interfaces, up to two messages per request, one late answer at a time (411,664 states). |
| nl_reconfig | NL_reconfig.cfg | pass | Any `_nl80211_if_add` may fail here. `TreeMatchesConfig`: while no add has failed, after any sequence of the two configuration callbacks, the tree holds exactly the interfaces named by the nl80211 list or by an interface section, with matching flags; the list creates interfaces as well as the sections. `TreeOnlyConfigured`: whatever fails, every interface in the tree carries a section flag, and each flag it carries names a section that still exists. |
| nl_uaf | NL_uaf.cfg | violation | `NoUseAfterFree` fails. Finding: removing the interface being queried leaves `_current_query_if` dangling, and the next callback dereferences it. |
| nl_family_stuck | NL_family_stuck.cfg | violation | `SeriesEnds` fails. Finding: a failed family lookup is never retried. |
| prefix_props | Prefix_props.cfg | pass | `PrefixCmpMirror`: swapping the arguments of `prefix_cmp` mirrors its answer. `PrefixCmpExactOnByteBoundaries`: when the shorter length is a multiple of 8, `prefix_cmp` equals the bit-level definition. `AddressPredicatesAgree`: the word-wise `v4mapped`, `linklocal` and `v6_equal` variants agree with their memcmp and bit-level forms in both builds. |
| prefix_spec | Prefix_spec.cfg | violation | `PrefixCmpMatchesSpec` fails for a length that is not a multiple of 8. Finding: wrong byte and wrong mask in the partial-byte test. |
| station_lossy | Station_lossy.cfg | pass | `TypeOK`. `CounterExactWhileKept`: until a cleanup removes it, the 64-bit value equals the count accumulated from all samples. `CounterLosesOnlyWraps`: in any case it is never ahead of that count and is short only by whole multiples of 2^Width. |
| station_lost | Station_lost.cfg | violation | `CounterExact` fails. Finding: a series without the station's answer that commits interface data removes the value, and the extension restarts from 32 bits. |
| series_l2data | Series_l2data.cfg | pass | `DumpMaxMatchesBands`: after a complete dump in a series whose GET_INTERFACE was answered, `max_tx`/`max_rx` equal the per-band reference over the own phy at the stored bandwidth. `PublishedNoiseCurrent`: the published noise is the in-use channel's, in milli-dBm. `ProxiedDestinationsKept`: a proxy path stored in a series survives both cleanups of that series. `CommitKeepsFreshNeighbours`: a commit keeps the data of exactly the stations dumped since the previous commit. `ProxyPathStoredWithinTwoSeries`: a proxy path the kernel holds through an associated station is stored by the end of the second series whose MPP and station dumps both ran to the end; the first may miss it because GET_MPP runs before GET_STATION. TLC reaches that bound too. |

Each property of a passing run has a mutant in `PROJECT.json`: a plausible
bug in a mapped operator (a dropped guard, an off-by-one, a missing reset)
that TLC finds under the same cfg.

### Bounds and why they are enough

**Resend.**
- One key and two ids (with symmetry), so a request and an update can
  come from the same or different routers.
- Seqnos {0, 65535}: the pair that straddles the wrap.
- Delays {1, 2}: enough for two entries to have different due times.
- `RESEND_MAX` is 3 and `RequestTimeout` is 3.
- `MaxTime` is 4 ticks, past `RequestTimeout`. A request can be recorded,
  satisfied and resent, and can expire; the clock is both below and past
  the timeout.

**Listener.**
- Three interface names: a series steps from the first over a middle one
  to the last, so a walk that skips or restarts is seen, and the current
  interface can be removed while one before it and one after it stay.
- Up to two messages per request in `nl_cycle`, so a `process` can run
  twice before the ending; one elsewhere, where only the configuration
  matters (`nl_reconfig` has 1,187,031 states with failing adds).
- The configuration is any subset of the three names.
- One late answer at a time (`MaxLate` 1) in `nl_cycle`. It can arrive
  during any later query of any interface, or after the series has ended.
  Those are the placements the dispatch tells apart.

**Prefix algebra.** TLC's integers are 32-bit, hence the byte tuples. The
addresses are a base address, the same with single bits flipped at the
byte and word edges (bits 0, 63, 64, ...), and a v4-mapped one. `Plens1` is
all of 0..128 and `Plens2` a set with byte-aligned, unaligned, 0 and 128
lengths, so every partial-byte case and the read past the end (126, 127)
occur.

**Station counter.** `Width` 3, `MaxGap` 3 (below half of 8) and `MaxTotal`
26: the counter wraps three times, and a gap that lands just below and just
above a wrap both happen. The extension's arithmetic depends on `Width`
only through 2^Width and 2^(Width-1), so width 3 exercises the same cases as
32.

**Interface series.**
- Two phys, two own bands (one HT only, one HT with VHT) and one foreign
  band.
- The widths "20", "40" and none, plus an SSID that may or may not
  change. These cover both rate tables and the zero result of
  `_get_max_bitrate`; "80" gives the same zero and was dropped to keep the
  run within 5 minutes.
- Two survey dumps: the in-use channel with a negative noise followed by
  another channel that must not overwrite it, and the in-use channel
  without noise, which must keep the stored one (3,392,804 states).
- One station and one proxied destination. A station's data changes only
  through its own messages and QUERY_END, which treats all neighbours
  alike, so a second station adds no new case. With two stations the run
  does not finish in 5 minutes.
- Every answer may be lost or cut short, and the kernel may change its
  stations and paths between any two series. So stale rates, stale
  stations and a path whose next hop is new are all reached (see
  Findings).

### Fairness

Only NL80211Listener has a liveness property. It assumes three fairness
conditions:
- weak fairness of the timer event, because the timer is periodic once
  `_cb_config_changed` has set it;
- weak fairness of the netlink layer ending the first request (done,
  error or timeout), because `os_system_linux_netlink` times requests out;
- weak fairness of the delivery of family-dump messages, because the
  kernel answers a dump.

Configuration changes, per-query reply messages and late answers are not
fair: they may never happen. `SeriesEnds` holds with late answers too,
since they send nothing. `PollAbstract`'s fairness (every answer ends) follows from
the second condition, and `nl_cycle` checks that it does.

The other modules state only safety. That a departed station's data is
eventually removed does not hold at all (see Findings): no fairness the
code justifies makes a series change interface data.

## 4. Findings

1. **`satisfy_request` and the boot clock** (`resend.h:153`). The expiry
   sentinel `time.tv_sec = 0` is seen as expired only when `now >= 65 s`.
   Before that, `unsatisfied_request` reports a just-satisfied request as
   unsatisfied. Spec section 8 says it returns false.
2. **`unsatisfied_request` direction** (`resend.h:127`). Take a stored
   request (10, X).
   - The code answers true for (10, X) and false for (5, X).
   - The end-to-end example in spec section 8 says the opposite.
   - Spec section 4.3 agrees with the code.
3. **Use after free of `_current_query_if`** (`nl80211_listener.c:484`).
   `_nl80211_if_remove` does not clear the pointer.
4. **No retry of the family lookup** (`nl80211_listener.c:680`). After an
   error or timeout, or a dump without nl80211 or `mlme`,
   `_current_query_in_progress` stays true. The timer then never triggers
   again.
5. **Partial byte of `prefix_cmp`** (`util.h:346`). For `plen % 8 != 0`
   the code tests byte `plen/8 + 1` instead of `plen/8`, under the mask
   `0xFF << (plen % 8)`, which keeps the low bits instead of the leading
   ones. So `7e80::/1` and `fe80::/5` come out as nested, although they
   differ in their first bit. For `plen` 121..127 it reads one byte past
   the address.
6. **Station counters across a lost answer**
   (`nl80211_get_station_dump.c:267`). `_handle_traffic` takes the upper
   32 bits from the stored value. A series without the station's answer
   that commits interface data removes that value, and the next sample
   restarts at its 32-bit value: the 64-bit counter goes back by the wraps
   counted so far. Nothing in the spec or the code says this is intended.

Seen while checking `nl_reconfig`, with no run of its own: after a failed
add, a configured interface can be removed. The nl80211 list names
interface 1 and its add fails. An interface section then creates it with
`_nl80211_section` false. Removing that section removes the interface,
although the list still names it (`nl80211_listener.c:441`, `:510`). TLC
finds this trace for the action property "no interface that a section
still names leaves the tree". `TreeMatchesConfig` is therefore stated for
histories without a failed add; `TreeOnlyConfigured` holds in all of them.

Seen while checking `nl_cycle` with late answers, with no run of its own,
since it rests on the netlink layer's behaviour after a timeout. Both
traces start with interface 1's GET_INTERFACE timing out while its answer
is still underway:
- If the answer arrives during interface 2's GET_INTERFACE, it is processed
  into interface 2. `nl80211_process_get_interface_result` does not check
  the ifindex (`nl80211_get_interface.c:120`). TLC takes 11 states to
  violate the action property "a late answer to an unchecked query that
  passes the command test is taken by the interface it was sent for",
  `[][\A r \in late \ late' : (r[2] = number /\ cur # NULL /\ r[2] \notin
  IfindexChecked) => r[1] = cur]_vars`.
- If it arrives after the series has ended, `_current_query_if` is NULL and
  `_current_query_number` is QUERY_GET_IF. The command test passes, and
  `interf->wifi_phy_if` dereferences NULL (`nl80211_get_interface.c:130`).
  TLC takes 11 states with `~nullDeref` as the invariant.

Seen while checking `series_l2data`, with no run of its own (every run
slot the project has is taken). Both follow from QUERY_END cleaning up only
when `ifdata_changed` (`nl80211_listener.c:591`) and from
`oonf_layer2_change_value` reporting a change only when the value changes,
as the repository documents it:
- **A stale published rate.** Series 1 reports a 40 MHz channel, publishes
  its HT rates and commits. Series 2 reports the same channel and rewrites
  equal rates under the updated origin; nothing changed, so it does not
  commit and they keep that origin. Series 3 reports no channel width, so
  `_get_max_bitrate` gives 0 and finalize publishes no tx rate. Its commit
  (the width changed) removes only old-origin values, and the 40 MHz tx
  rate stays published. TLC takes 35 states with the invariant "after a
  series whose GET_INTERFACE and GET_WIPHY were answered, the published
  maxima are that series' `max_tx`/`max_rx`".
- **A departed station published for ever.** A station is dumped in a
  series that commits, then leaves. Every later series finds the same
  channel and rates, so `ifdata_changed` stays false and no cleanup runs.
  TLC takes 34 states to have the station published through two answered
  series after it left; nothing ever removes it while the interface's own
  data stays the same.

## 5. Open work

Built: Resend, NL80211Listener with the abstract PollAbstract,
PrefixAlgebra, StationCounter and InterfaceSeries. What could still be
added from this repository's code:
1. **ResendAbstract**: "a request is retried until satisfied or expired",
   shown implemented by `Resend` under a refinement mapping. Today,
   `NoResendOfSatisfied` states the safety part as an invariant. The
   retry schedule (`record_resend`, `do_resend`, `recompute_resend_time`)
   is modelled from the spec, since its bodies are not under `src/`, so a
   refinement would mostly check the spec against itself.
2. **Station-dump conversions**: `_get_bitrate`, the signal and the
   expected throughput of `nl80211_process_get_station_dump_result`, as
   per-field neighbour data.
3. **Wiphy dumps of kernels without split support**, where one message
   holds several phys or bands (`wiphy.c:209`, `:222`). They would need an
   environment switch of their own. The maxima would then over-report: a
   band rated with the previous band's short guard interval, and another
   phy's bands counted. `DumpMaxMatchesBands` would fail with them.

## 6. Not modelled

- **Listener startup and shutdown:** `_init`, `_early_cfg_init` and
  `_cleanup`. The model starts in the state `_init` leaves.
- **A failing `cfg_schema_tobin`** in `_cb_config_changed`. It returns before
  touching the tree; the values it converts have passed the schema's
  validation already.
- **`configuration.h`**: declarations only.
- **`netlink_trace.c`**: logging of route operations, compiled only with
  `NETLINK_TRACE`. Its return value after a failed `fopen` is listed as a
  hazard. Its callers, the kernel route code, are not under `src/`.
- **`xroute.h`**: the external route table. The struct, the array and
  three functions are declared, but no body is under `src/`. The
  kind-priority rule and the failure at `MAXXROUTES` exist only in the
  spec's text. A table modelled from that text would check the spec
  against itself.
- **`epiphany/*`**: platform type stubs.
- **`benchmarks/benchmark.c`**: a timing driver, out of scope per the spec.
