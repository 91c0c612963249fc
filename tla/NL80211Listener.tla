--------------------------- MODULE NL80211Listener ---------------------------
(***************************************************************************)
(* The polling state machine of the nl80211 listener plugin               *)
(* (src/nl80211_listener/nl80211_listener.c and genl_get_family.c).        *)
(*                                                                         *)
(* A periodic timer starts a series of netlink queries: first, once, the   *)
(* generic-netlink family lookup that yields the nl80211 id and the "mlme" *)
(* multicast group; then for every interface of the AVL tree, in name      *)
(* order, the five queries GET_IF, GET_WIPHY, GET_SURVEY, GET_MPP and      *)
(* GET_STATION.  The netlink layer answers a request with messages and     *)
(* exactly one of the callbacks done, error or timeout; each of these      *)
(* moves the series on.  Configuration callbacks add and remove interfaces *)
(* from the tree at any time between callbacks.                            *)
(*                                                                         *)
(* Abstraction: interface names are the integers of Names, whose order is  *)
(* the tree's strcasecmp order; the attribute parsing of the per-query     *)
(* process/finalize functions is reduced to whether it changes the        *)
(* interface's ifdata_changed flag and which interface it dereferences.    *)
(***************************************************************************)
EXTENDS Integers, Sequences, FiniteSets

CONSTANTS
  Names,            \* interface names, ordered as in the AVL tree
  FamilyContents,   \* what one message of the family dump can carry
  FamilyCanFail,    \* whether the family request may end without nl80211
  AllowRemoval,     \* whether configuration changes may remove interfaces
  AddCanFail,       \* whether _nl80211_if_add may fail to create one
  LateReplies,      \* whether a timed-out request's answer may still come
  MaxLate,          \* bound on the answers underway after their timeout
  MaxMsgs           \* bound on the messages answering one request

ASSUME Names \subseteq Nat \ {0} /\ Names # {}
ASSUME FamilyContents \subseteq {"nl80211_mlme", "nl80211_nomc", "other"}
ASSUME FamilyCanFail \in BOOLEAN /\ AllowRemoval \in BOOLEAN /\ AddCanFail \in BOOLEAN
ASSUME MaxMsgs \in Nat \ {0}
ASSUME LateReplies \in BOOLEAN /\ MaxLate \in Nat

\* enum _if_query (nl80211_listener.c:138-150)
QUERY_GET_IF == 0
QUERY_GET_WIPHY == 1
QUERY_GET_SURVEY == 2
QUERY_GET_MPP == 3
QUERY_GET_STATION == 4
QUERY_END == 5
QUERY_GET_FAMILY == 6
IfQueries == QUERY_GET_IF..QUERY_GET_STATION

\* the null interface pointer
NULL == 0

VARIABLES
  ifs,             \* names of the interfaces in _nl80211_if_tree
  ifSection,       \* interf->_if_section
  nlSection,       \* interf->_nl80211_section
  ifdataChanged,   \* interf->ifdata_changed
  nlId,            \* _nl80211_id # 0
  nlMc,            \* _nl80211_multicast_group # 0
  cur,             \* _current_query_if
  curFreed,        \* the object cur points to has been freed
  number,          \* _current_query_number
  inProgress,      \* _current_query_in_progress
  timerOn,         \* _transmission_timer is running
  inflight,        \* requests sent, in order, not yet ended by the netlink layer
  nlList,          \* the "if" list of the nl80211 section (configuration)
  ifSecs,          \* names having an interface section (configuration)
  uaf,             \* history: a freed interface has been dereferenced
  seriesSent,      \* history: <<name, query>> sent in the current series
  stable,          \* history: interfaces present since the series started
  addFailed,       \* history: some _nl80211_if_add has returned NULL
  late,            \* <<name, query>> of timed-out requests whose answer is underway
  nullDeref        \* history: a reply was processed with _current_query_if NULL

vars == <<ifs, ifSection, nlSection, ifdataChanged, nlId, nlMc, cur,
          curFreed, number, inProgress, timerOn, inflight, nlList, ifSecs,
          uaf, seriesSent, stable, addFailed, late, nullDeref>>

lateVars == <<late, nullDeref>>

Request == [q: IfQueries \cup {QUERY_GET_FAMILY}, n: Names \cup {NULL},
            msgs: 0..MaxMsgs, nl80211: BOOLEAN]

-----------------------------------------------------------------------------
(* Helpers                                                                 *)

MinName(S) == CHOOSE n \in S : \A m \in S : n <= m

\* avl_first_element on the name-ordered tree.
FirstIf == MinName(ifs)

\* A mutant of NextIf: the walk restarts at the first interface.
NextIf_first(n) ==
  LET later == {m \in ifs : m > n}
  IN IF later = {} THEN NULL ELSE FirstIf

\* A mutant of NextIf: steps over one interface.
NextIf_skip(n) ==
  LET later == {m \in ifs : m > n}
      rest == later \ {MinName(later)}
  IN IF later = {} \/ rest = {} THEN NULL ELSE MinName(rest)

\* avl_next_element_safe: the next interface in name order, or NULL.
NextIf(n) == LET later == {m \in ifs : m > n}
             IN IF later = {} THEN NULL ELSE MinName(later)

\* Reading cur's node after the object was freed: whatever the stale node
\* still links to, a later interface or NULL (undefined behaviour).
NextIfChoices ==
  IF curFreed THEN {m \in ifs : m > cur} \cup {NULL} ELSE {NextIf(cur)}

\* A mutant of EndOfInterface: the end test with > instead of ==.
EndOfInterface_gt(n) == n + 1 > QUERY_END

\* _current_query_number++ reaches QUERY_END.
EndOfInterface(n) == n + 1 = QUERY_END

\* uaf after a step that dereferences _current_query_if when deref holds.
UafAfter(u, deref) == u \/ (deref /\ curFreed)

\* _send_netlink_message: append the request for query q of interface n
\* (NULL for the family lookup) to the netlink queue.
Send(q, n) == [q |-> q, n |-> n, msgs |-> 0, nl80211 |-> FALSE]

\* _trigger_next_netlink_query with _get_next_query inlined, called with
\* the ifdata_changed flags ifd and the uaf history u left by the calling
\* callback.  Defines cur, curFreed, number, inProgress, inflight,
\* ifdataChanged, uaf, seriesSent and stable; queue is the netlink queue
\* after the callback.
Trigger(queue, ifd, u) ==
  IF ~nlId \/ ~nlMc
  THEN /\ inProgress' = ~inProgress
       /\ inflight' = IF inProgress THEN queue
                      ELSE Append(queue, Send(QUERY_GET_FAMILY, NULL))
       /\ ifdataChanged' = ifd /\ uaf' = u
       /\ UNCHANGED <<cur, curFreed, number, seriesSent, stable>>
  ELSE IF ifs = {}
  THEN \* no nl80211 interfaces: the series ends at once
       /\ cur' = NULL /\ curFreed' = FALSE
       /\ inProgress' = FALSE
       /\ ifdataChanged' = ifd /\ uaf' = u
       /\ inflight' = queue
       /\ UNCHANGED <<number, seriesSent, stable>>
  ELSE IF cur = NULL
  THEN \* start a new series at the first interface
       /\ cur' = FirstIf /\ curFreed' = FALSE
       /\ number' = QUERY_GET_IF
       /\ inProgress' = TRUE
       /\ inflight' = Append(queue, Send(QUERY_GET_IF, FirstIf))
       /\ ifdataChanged' = ifd /\ uaf' = u
       /\ seriesSent' = {<<FirstIf, QUERY_GET_IF>>}
       /\ stable' = ifs
  ELSE IF ~EndOfInterface(number)
  THEN \* next query for the same interface; the send reads cur->name
       /\ number' = number + 1
       /\ inflight' = Append(queue, Send(number + 1, cur))
       /\ ifdataChanged' = ifd /\ uaf' = UafAfter(u, TRUE)
       /\ seriesSent' = seriesSent \cup {<<cur, number + 1>>}
       /\ UNCHANGED <<cur, curFreed, inProgress, stable>>
  ELSE \* QUERY_END: commit cur's data, go on with the next interface
       /\ \E nxt \in NextIfChoices :
            /\ cur' = nxt /\ curFreed' = FALSE
            /\ number' = QUERY_GET_IF
            /\ ifdataChanged' =
                 IF curFreed THEN ifd ELSE [ifd EXCEPT ![cur] = FALSE]
            /\ IF nxt = NULL
               THEN /\ inProgress' = FALSE
                    /\ inflight' = queue /\ UNCHANGED seriesSent
               ELSE /\ inflight' = Append(queue, Send(QUERY_GET_IF, nxt))
                    /\ seriesSent' = seriesSent \cup {<<nxt, QUERY_GET_IF>>}
                    /\ UNCHANGED inProgress
       /\ uaf' = UafAfter(u, TRUE)
       /\ UNCHANGED stable

-----------------------------------------------------------------------------
(* Interface tree (nl80211_listener.c:431-486)                             *)

\* The flags of interfaces created by _nl80211_if_add (oonf_class_malloc
\* zeroes the object) for the names in new, over flags f.
Fresh(f, new) == [n \in Names |-> IF n \in new THEN FALSE ELSE f[n]]

\* _nl80211_if_remove of the interfaces in gone from a tree that holds base:
\* a pointer to one of them held in _current_query_if now dangles.
RemoveIfs(base, gone) ==
  /\ ifs' = base \ gone
  /\ curFreed' = (curFreed \/ cur \in gone)
  /\ stable' = stable \ gone

Init ==
  /\ ifs = {}
  /\ ifSection = [n \in Names |-> FALSE]
  /\ nlSection = [n \in Names |-> FALSE]
  /\ ifdataChanged = [n \in Names |-> FALSE]
  /\ nlId = FALSE /\ nlMc = FALSE
  /\ cur = NULL /\ curFreed = FALSE
  /\ number = QUERY_GET_IF
  /\ inProgress = FALSE
  /\ timerOn = FALSE
  /\ inflight = <<>>
  /\ nlList = {} /\ ifSecs = {}
  /\ uaf = FALSE /\ seriesSent = {} /\ stable = {} /\ addFailed = FALSE
  /\ late = {} /\ nullDeref = FALSE

-----------------------------------------------------------------------------
(* Configuration callbacks                                                 *)

\* The names among new, not yet in the tree, for which _nl80211_if_add
\* returns NULL: oonf_class_malloc, oonf_layer2_net_add or os_interface_add
\* failed, and what was set up before is released again.
FailedAdds(new) == IF AddCanFail THEN SUBSET new ELSE {{}}

\* A mutant of NlSectionAfter: loop 1 does not clear _nl80211_section.
NlSectionAfter_noclear(added) ==
  [n \in Names |-> IF n \in added THEN TRUE ELSE nlSection[n]]

\* _nl80211_section after the first two loops of _cb_config_changed: loop 1
\* clears it on the interfaces listed before, loop 2 sets it on the
\* interfaces of the new list that _nl80211_if_add found or created.
NlSectionAfter(added) ==
  [n \in Names |-> IF n \in added THEN TRUE
                   ELSE IF n \in nlList THEN FALSE ELSE nlSection[n]]

\* A mutant of RemovedByConfig: loop 2 does not clear the _remove mark.
RemovedByConfig_nounmark(post) ==
  {n \in nlList \cap ifs : ~ifSection[n]}

\* The interfaces the third loop of _cb_config_changed removes: listed
\* before, marked _remove = !_if_section, and not unmarked by loop 2.
RemovedByConfig(post) ==
  {n \in nlList \cap ifs : ~ifSection[n] /\ n \notin post}

\* _cb_config_changed: the nl80211 section's interface list becomes post.
CbConfigChanged(post) ==
  /\ AllowRemoval \/ nlList \subseteq post
  /\ \E failed \in FailedAdds(post \ ifs) :
       LET new == (post \ ifs) \ failed
       IN /\ RemoveIfs(ifs \cup new, RemovedByConfig(post))
          /\ ifSection' = Fresh(ifSection, new)
          /\ nlSection' = NlSectionAfter(post \ failed)
          /\ ifdataChanged' = Fresh(ifdataChanged, new)
          /\ addFailed' = (addFailed \/ failed # {})
  /\ timerOn' = TRUE
  /\ nlList' = post
  /\ UNCHANGED <<nlId, nlMc, cur, number, inProgress, inflight, ifSecs, uaf,
                 seriesSent, lateVars>>

\* _cb_if_config_changed with _if_section.pre == NULL: section n added.
CbIfSectionAdded(n) ==
  /\ n \notin ifSecs
  /\ \E failed \in FailedAdds({n} \ ifs) :
       LET found == {n} \ failed
       IN /\ ifs' = ifs \cup found
          /\ ifSection' = [m \in Names |-> ifSection[m] \/ m \in found]
          /\ nlSection' = Fresh(nlSection, found \ ifs)
          /\ ifdataChanged' = Fresh(ifdataChanged, found \ ifs)
          /\ addFailed' = (addFailed \/ failed # {})
  /\ ifSecs' = ifSecs \cup {n}
  /\ UNCHANGED <<nlId, nlMc, cur, curFreed, number, inProgress, timerOn,
                 inflight, nlList, uaf, seriesSent, stable, lateVars>>

\* _cb_if_config_changed with _if_section.post == NULL: section n removed.
CbIfSectionRemoved(n) ==
  /\ AllowRemoval
  /\ n \in ifSecs
  /\ IF n \in ifs
     THEN /\ ifSection' = [ifSection EXCEPT ![n] = FALSE]
          /\ IF nlSection[n] THEN UNCHANGED <<ifs, curFreed, stable>>
                             ELSE RemoveIfs(ifs, {n})
     ELSE UNCHANGED <<ifs, ifSection, curFreed, stable>>
  /\ ifSecs' = ifSecs \ {n}
  /\ UNCHANGED <<nlSection, ifdataChanged, nlId, nlMc, cur, number,
                 inProgress, timerOn, inflight, nlList, uaf, seriesSent,
                 addFailed, lateVars>>

-----------------------------------------------------------------------------
(* Timer and netlink callbacks                                             *)

ConfigUnchanged == UNCHANGED <<ifs, ifSection, nlSection, timerOn, nlList,
                               ifSecs, addFailed>>

\* A mutant of CbTransmissionEvent: the in-progress test is dropped.
CbTransmissionEvent_noguard ==
  /\ timerOn
  /\ Trigger(inflight, ifdataChanged, uaf)
  /\ ConfigUnchanged /\ UNCHANGED <<nlId, nlMc, lateVars>>

\* _cb_transmission_event: the periodic timer fires.
CbTransmissionEvent ==
  /\ timerOn
  /\ IF ~inProgress THEN Trigger(inflight, ifdataChanged, uaf) ELSE UNCHANGED vars
  /\ ConfigUnchanged /\ UNCHANGED <<nlId, nlMc, lateVars>>

\* A mutant of FamilyResult: the "mlme" group is never recognised.
FamilyResult_nomc(c, mc) == mc

\* genl_process_get_family_result: the multicast group after a family
\* message c; only the nl80211 family's "mlme" group counts, and only while
\* no group is known yet.
FamilyResult(c, mc) == mc \/ c = "nl80211_mlme"

\* The process functions that first compare the message's ifindex with
\* _current_query_if and drop another interface's message; GET_IF and
\* GET_WIPHY do not.
IfindexChecked == {QUERY_GET_SURVEY, QUERY_GET_MPP, QUERY_GET_STATION}

\* nl80211_get_if_baseindex(interf) == NL80211_ATTR_IFINDEX: a message
\* answering a request for interface from is taken by cur only if it is cur.
IfindexMatches(from) == from = cur

\* The dispatch of _cb_nl_message for an nl80211 message answering query
\* q of interface from: a command other than the current query's is only
\* logged; otherwise _if_query_ops[number].process runs on
\* _current_query_if, which it dereferences (NULL included).  GET_IF and
\* GET_SURVEY answers may set its ifdata_changed.
Dispatch(q, from) ==
  IF q # number THEN UNCHANGED <<ifdataChanged, uaf, nullDeref>>
  ELSE IF cur = NULL
  THEN /\ nullDeref' = TRUE
       /\ UNCHANGED <<ifdataChanged, uaf>>
  ELSE /\ uaf' = UafAfter(uaf, TRUE)
       /\ UNCHANGED nullDeref
       /\ IF q \in IfindexChecked /\ ~IfindexMatches(from)
          THEN UNCHANGED ifdataChanged
          ELSE IF q \in {QUERY_GET_IF, QUERY_GET_SURVEY} /\ ~curFreed
          THEN \E b \in BOOLEAN :
                 ifdataChanged' = [ifdataChanged EXCEPT ![cur] = @ \/ b]
          ELSE UNCHANGED ifdataChanged

\* _cb_nl_message for the first request in the netlink queue.
CbNlMessage ==
  /\ inflight # <<>>
  /\ Head(inflight).msgs < MaxMsgs
  /\ LET h == Head(inflight) IN
     IF h.q = QUERY_GET_FAMILY
     THEN \E c \in FamilyContents :
            /\ nlId' = (nlId \/ c # "other")
            /\ nlMc' = IF c = "other" THEN nlMc ELSE FamilyResult(c, nlMc)
            /\ inflight' = [inflight EXCEPT ![1].msgs = h.msgs + 1,
                                            ![1].nl80211 = h.nl80211 \/ c # "other"]
            /\ UNCHANGED <<ifdataChanged, uaf, nullDeref>>
     ELSE /\ inflight' = [inflight EXCEPT ![1].msgs = h.msgs + 1]
          /\ Dispatch(h.q, h.n)
          /\ UNCHANGED <<nlId, nlMc>>
  /\ ConfigUnchanged
  /\ UNCHANGED <<cur, curFreed, number, inProgress, seriesSent, stable, late>>

\* _cb_nl_message for a message answering a request that has already
\* timed out: the netlink layer hands every nl80211 message to the
\* callback, whatever request it answers, and the listener dispatches it
\* by the current query.
CbNlLateMessage ==
  \E r \in late :
    /\ late' = late \ {r}
    /\ Dispatch(r[2], r[1])
    /\ ConfigUnchanged
    /\ UNCHANGED <<nlId, nlMc, cur, curFreed, number, inProgress, inflight,
                   seriesSent, stable>>

\* The netlink layer may end a request without the answer it expects: an
\* error, a timeout, or the end of a family dump that lacked nl80211.
MayFail(h) == h.q # QUERY_GET_FAMILY \/ FamilyCanFail

\* _cb_nl_error for the first request in the queue.
CbNlError ==
  /\ inflight # <<>> /\ MayFail(Head(inflight))
  /\ IF nlId /\ nlMc
     THEN Trigger(Tail(inflight), ifdataChanged, uaf)
     ELSE /\ inflight' = Tail(inflight)
          /\ UNCHANGED <<cur, curFreed, number, inProgress, ifdataChanged,
                         uaf, seriesSent, stable>>
  /\ ConfigUnchanged /\ UNCHANGED <<nlId, nlMc, lateVars>>

\* The finalize column of _if_query_ops: of the interface queries only
\* GET_WIPHY has one (nl80211_finalize_get_wiphy).  Each query's answer
\* command is its own and each has a process function, which Dispatch
\* uses as the test q = number.
HasFinalize(q) == q = QUERY_GET_WIPHY

\* A query's finalize on timeout or done, which reads _current_query_if
\* and may set its ifdata_changed from the rates gathered by process.
Finalize(queue) ==
  IF HasFinalize(number)
  THEN \E b \in BOOLEAN :
         Trigger(queue,
                 IF curFreed THEN ifdataChanged
                 ELSE [ifdataChanged EXCEPT ![cur] = @ \/ b],
                 UafAfter(uaf, TRUE))
  ELSE Trigger(queue, ifdataChanged, uaf)

\* What a timeout may leave underway of the answer to an interface query
\* h: nothing, or (with LateReplies, within MaxLate) a message of it.
Leftover(h) ==
  IF LateReplies /\ h.q # QUERY_GET_FAMILY /\ Cardinality(late) < MaxLate
  THEN {{}, {<<h.n, h.q>>}} ELSE {{}}

\* _cb_nl_done / _cb_nl_timeout for the first request in the queue: both
\* run finalize and trigger the next query once the family is known.  The
\* done of a family dump comes after its nl80211 entry unless the kernel
\* lacks nl80211; a timeout ends a family request only if it may fail.
CbNlDoneOrTimeout ==
  /\ inflight # <<>>
  /\ Head(inflight).nl80211 \/ MayFail(Head(inflight))
  /\ IF nlId /\ nlMc
     THEN Finalize(Tail(inflight))
     ELSE /\ inflight' = Tail(inflight)
          /\ UNCHANGED <<cur, curFreed, number, inProgress, ifdataChanged,
                         uaf, seriesSent, stable>>
  /\ \E lo \in Leftover(Head(inflight)) : late' = late \cup lo
  /\ ConfigUnchanged /\ UNCHANGED <<nlId, nlMc, nullDeref>>

-----------------------------------------------------------------------------

Next ==
  \/ \E post \in SUBSET Names : CbConfigChanged(post)
  \/ \E n \in Names : CbIfSectionAdded(n)
  \/ \E n \in Names : CbIfSectionRemoved(n)
  \/ CbTransmissionEvent
  \/ CbNlMessage
  \/ CbNlError
  \/ CbNlDoneOrTimeout
  \/ CbNlLateMessage

\* The timer is periodic, the kernel answers a family dump with its
\* entries, and the netlink layer ends every request with done, error or
\* timeout (os_system_linux_netlink's own timeout).
Fairness ==
  /\ WF_vars(CbTransmissionEvent)
  /\ WF_vars(inflight # <<>> /\ Head(inflight).q = QUERY_GET_FAMILY /\ CbNlMessage)
  /\ WF_vars(CbNlError \/ CbNlDoneOrTimeout)

Spec == Init /\ [][Next]_vars /\ Fairness

-----------------------------------------------------------------------------
(* Properties                                                              *)

TypeOK ==
  /\ ifs \subseteq Names
  /\ ifSection \in [Names -> BOOLEAN] /\ nlSection \in [Names -> BOOLEAN]
  /\ ifdataChanged \in [Names -> BOOLEAN]
  /\ nlId \in BOOLEAN /\ nlMc \in BOOLEAN
  /\ cur \in Names \cup {NULL} /\ curFreed \in BOOLEAN
  /\ number \in IfQueries
  /\ inProgress \in BOOLEAN /\ timerOn \in BOOLEAN
  /\ inflight \in Seq(Request)
  /\ nlList \subseteq Names /\ ifSecs \subseteq Names
  /\ addFailed \in BOOLEAN
  /\ late \subseteq Names \X IfQueries
  /\ nullDeref \in BOOLEAN

\* Replies are matched to a query only through the global
\* _current_query_number, so the listener must never have two requests
\* outstanding: the timer starts a series only while none is in progress,
\* and each callback sends at most one follow-up.
AtMostOneInFlight == Len(inflight) <= 1

\* Once the family is known, a series that ends (in_progress drops) has
\* sent all five queries to every interface that stayed in the tree since
\* the series began: _get_next_query visits the tree in order and does not
\* skip an interface or a query.
SeriesComplete ==
  [][(inProgress /\ ~inProgress' /\ nlId /\ nlMc) =>
       \A n \in stable, q \in IfQueries : <<n, q>> \in seriesSent]_vars

\* As long as every _nl80211_if_add has succeeded, the interface tree
\* follows the configuration: an interface is in the tree exactly when it
\* is named by the nl80211 "if" list or has an interface section, with
\* both flags right, whatever order the two config callbacks run in.
TreeMatchesConfig ==
  ~addFailed =>
    /\ ifs = nlList \cup ifSecs
    /\ \A n \in ifs : nlSection[n] = (n \in nlList) /\ ifSection[n] = (n \in ifSecs)

\* Whatever adds fail and in whatever order the config callbacks run, the
\* tree holds only configured interfaces: each one carries a section flag,
\* and a flag it carries names a section that exists, so the listener
\* never polls an interface the configuration has dropped.
TreeOnlyConfigured ==
  \A n \in ifs :
    /\ nlSection[n] \/ ifSection[n]
    /\ nlSection[n] => n \in nlList
    /\ ifSection[n] => n \in ifSecs

\* _current_query_if is never dereferenced after the interface it points
\* to was freed by a configuration change.
NoUseAfterFree == ~uaf

\* The listener implements PollAbstract: in_progress is the series, the
\* netlink queue holds the question being answered, and the position
\* <<_current_query_if, _current_query_number>> of a series in progress is
\* the last question asked (the family lookup has cur = NULL, the Origin).
\* So the listener never has two requests out, asks every <<interface,
\* query>> at most once per series and in tree order, and starts a series
\* only when idle with nothing in flight.
Poll == INSTANCE PollAbstract WITH
          Items <- Names, Steps <- IfQueries,
          busy <- inProgress, waiting <- inflight # <<>>,
          pos <- IF inProgress THEN <<cur, number>> ELSE <<NULL, QUERY_GET_IF>>

PollRefinement == Poll!ASpec

\* The listener always comes back to waiting for the timer: every series
\* of queries, including the initial family lookup, ends.
SeriesEnds == []<>(~inProgress)

=============================================================================
