------------------------------- MODULE Resend -------------------------------
(***************************************************************************)
(* The resend scheduler of the Babel daemon (src/resend.h): the list       *)
(* to_resend of pending REQUEST/UPDATE retransmissions, the cached wake    *)
(* time resend_time, and the clock `now` they are compared against.        *)
(*                                                                         *)
(* The inline functions of resend.h and util.h (resend_match, find_resend, *)
(* resend_expired, unsatisfied_request, satisfy_request, seqno_compare,    *)
(* seqno_minus, seqno_plus, timeval_minus_msec) are translated from the    *)
(* source.  record_resend, expire_resend, recompute_resend_time and        *)
(* do_resend are only declared in resend.h; their bodies live in resend.c, *)
(* which is not part of src/,                                              *)
(* and are modelled from spec.md section 4.3.                              *)
(*                                                                         *)
(* Data abstraction: the (prefix, plen, src_prefix, src_plen) tuple that   *)
(* resend_match compares byte-wise is one model value of Keys; router ids  *)
(* are model values of Ids; interfaces are model values of Ifaces or NULL. *)
(* Sequence numbers keep their 16-bit width.  Time is an integer number of *)
(* ticks; REQUEST_TIMEOUT (65000 ms) is RequestTimeout ticks.              *)
(***************************************************************************)
EXTENDS Integers, Sequences, SequencesExt, FiniteSets

CONSTANTS
  Keys,            \* destinations (prefix, plen, src_prefix, src_plen)
  Ids,             \* 8-byte router ids
  Ifaces,          \* interfaces
  NULL,            \* the null interface pointer
  Seqnos,          \* sequence numbers used by the environment, in 0..65535
  Delays,          \* delays passed to record_resend, in ticks
  RequestTimeout,  \* REQUEST_TIMEOUT in ticks
  InitTimes,       \* values `now` may have when the daemon starts
  MaxTime          \* bound on the clock

ASSUME Seqnos \subseteq 0..65535
ASSUME Delays \subseteq Nat /\ RequestTimeout \in Nat \ {0}
ASSUME InitTimes \subseteq 0..MaxTime

\* #define RESEND_REQUEST 1, RESEND_UPDATE 2, RESEND_MAX 3 (resend.h:25-28)
RESEND_REQUEST == 1
RESEND_UPDATE == 2
RESEND_MAX == 3
Kinds == {RESEND_REQUEST, RESEND_UPDATE}

\* resend_time == {0, 0} means "no wake-up scheduled"
NoWake == -1

VARIABLES
  to_resend,    \* struct resend *to_resend, head first
  resend_time,  \* struct timeval resend_time
  now,          \* struct timeval now
  satisfied,    \* history: requests satisfy_request has marked, per key
  lastSent      \* history: the transmissions of the last do_resend pass

vars == <<to_resend, resend_time, now, satisfied, lastSent>>

Entry == [kind: Kinds, max: 0..RESEND_MAX, delay: Nat, time: Nat,
          key: Keys, seqno: 0..65535, id: Ids, ifp: Ifaces \cup {NULL}]

-----------------------------------------------------------------------------
(* Helpers translated from util.h and resend.h                             *)

\* seqno_compare: 0 if equal, else the sign of bit 15 of s2 - s1.
seqno_compare(s1, s2) ==
  IF s1 = s2 THEN 0
  ELSE IF ((s2 - s1) % 65536) >= 32768 THEN 1 ELSE -1

\* seqno_plus: s + plus in 16 bits; plus may be negative.
seqno_plus(s, plus) == (s + plus) % 65536

\* A mutant of seqno_minus: the (short) cast is left out.
seqno_minus_nocast(s1, s2) == (s1 - s2) % 65536

\* seqno_minus: s1 - s2 in 16 bits, read back as a signed short.
seqno_minus(s1, s2) ==
  LET d == (s1 - s2) % 65536 IN IF d >= 32768 THEN d - 65536 ELSE d

\* timeval_minus_msec: s1 - s2, saturating at 0 when s2 is later.
timeval_minus_msec(s1, s2) == IF s1 < s2 THEN 0 ELSE s1 - s2

resend_match(r, kind, key) == r.kind = kind /\ r.key = key

\* find_resend: index of the first matching entry, 0 for NULL.
find_resend(kind, key) ==
  SelectInSeq(to_resend, LAMBDA r: resend_match(r, kind, key))

find_request(key) == find_resend(RESEND_REQUEST, key)

resend_expired(r) ==
  IF r.kind = RESEND_REQUEST
  THEN timeval_minus_msec(now, r.time) >= RequestTimeout
  ELSE r.max <= 0

\* The test shared by unsatisfied_request and satisfy_request: the router
\* id changed, or the stored seqno is not newer than the given one.
request_covered(r, seqno, id) ==
  r.id # id \/ seqno_compare(r.seqno, seqno) <= 0

unsatisfied_request(key, seqno, id) ==
  LET i == find_request(key) IN
  /\ i # 0
  /\ ~resend_expired(to_resend[i])
  /\ request_covered(to_resend[i], seqno, id)

-----------------------------------------------------------------------------
(* Helpers modelled from spec.md 4.3 (resend.c is not in src/)             *)

\* The time an entry is next due for retransmission.
due_time(r) == r.time + r.delay

\* recompute_resend_time: the earliest due time over entries whose retry
\* budget is not exhausted.
recompute_resend_time(list) ==
  LET D == {due_time(list[i]) : i \in {j \in 1..Len(list) : list[j].max > 0}}
  IN IF D = {} THEN NoWake ELSE Min(D)

\* expire_resend's pass: drop every expired entry.
expire_pass(list) == SelectSeq(list, LAMBDA r: ~resend_expired(r))

\* Faulty variant (mutation check): the retry budget is not tested.
is_due_nobudget(r) == due_time(r) <= now

is_due(r) == r.max > 0 /\ due_time(r) <= now

-----------------------------------------------------------------------------
(* Actions                                                                 *)

\* record_resend: merge with a matching entry, or prepend a new one; then
\* recompute the wake time.
RecordResend(kind, key, seqno, id, ifp, delay) ==
  LET i    == find_resend(kind, key)
      new  == [kind |-> kind, max |-> RESEND_MAX, delay |-> delay,
               time |-> now, key |-> key, seqno |-> seqno, id |-> id,
               ifp |-> ifp]
      list == IF i = 0 THEN <<new>> \o to_resend
              ELSE [to_resend EXCEPT ![i].delay = delay, ![i].time = now,
                                     ![i].max = RESEND_MAX,
                                     ![i].seqno = seqno, ![i].id = id]
  IN /\ to_resend' = list
     /\ resend_time' = recompute_resend_time(list)
     /\ satisfied' = IF kind = RESEND_REQUEST
                     THEN {h \in satisfied : h.key # key} ELSE satisfied
     /\ lastSent' = {}
     /\ UNCHANGED now

\* Faulty variants (mutation check): the mark sets only one of max = 0 and
\* time.tv_sec = 0.
SatisfyRequest_maxonly(key, seqno, id, ifp) ==
  LET i == find_request(key) IN
  /\ i # 0
  /\ ifp = NULL \/ to_resend[i].ifp = ifp
  /\ request_covered(to_resend[i], seqno, id)
  /\ LET list == [to_resend EXCEPT ![i].max = 0] IN
     /\ to_resend' = list
     /\ resend_time' = recompute_resend_time(list)
  /\ satisfied' = satisfied \cup
                  {[key |-> key, reqSeqno |-> to_resend[i].seqno,
                    reqId |-> to_resend[i].id, seqno |-> seqno, id |-> id]}
  /\ lastSent' = {}
  /\ UNCHANGED now

SatisfyRequest_timeonly(key, seqno, id, ifp) ==
  LET i == find_request(key) IN
  /\ i # 0
  /\ ifp = NULL \/ to_resend[i].ifp = ifp
  /\ request_covered(to_resend[i], seqno, id)
  /\ LET list == [to_resend EXCEPT ![i].time = 0] IN
     /\ to_resend' = list
     /\ resend_time' = recompute_resend_time(list)
  /\ satisfied' = satisfied \cup
                  {[key |-> key, reqSeqno |-> to_resend[i].seqno,
                    reqId |-> to_resend[i].id, seqno |-> seqno, id |-> id]}
  /\ lastSent' = {}
  /\ UNCHANGED now

\* satisfy_request: an update (seqno, id) received on ifp.  The request is
\* not unlinked (the caller may be walking the list) but marked expired:
\* max = 0 and time.tv_sec = 0.  The three "return 0" exits change nothing.
SatisfyRequest(key, seqno, id, ifp) ==
  LET i == find_request(key) IN
  /\ i # 0
  /\ ifp = NULL \/ to_resend[i].ifp = ifp
  /\ request_covered(to_resend[i], seqno, id)
  /\ LET list == [to_resend EXCEPT ![i].max = 0, ![i].time = 0] IN
     /\ to_resend' = list
     /\ resend_time' = recompute_resend_time(list)
  /\ satisfied' = satisfied \cup
                  {[key |-> key, reqSeqno |-> to_resend[i].seqno,
                    reqId |-> to_resend[i].id, seqno |-> seqno, id |-> id]}
  /\ lastSent' = {}
  /\ UNCHANGED now

\* expire_resend: unlink every expired entry, then recompute.
ExpireResend ==
  LET list == expire_pass(to_resend) IN
  /\ to_resend' = list
  /\ resend_time' = recompute_resend_time(list)
  /\ lastSent' = {}
  /\ UNCHANGED <<now, satisfied>>

\* do_resend, run by the event loop once now has reached resend_time:
\* expire first, retransmit every due entry, decrement its budget, stamp it
\* with now, and recompute.
DoResend ==
  /\ resend_time # NoWake
  /\ now >= resend_time
  /\ LET live == expire_pass(to_resend)
         list == [j \in 1..Len(live) |->
                    IF is_due(live[j])
                    THEN [live[j] EXCEPT !.max = @ - 1, !.time = now]
                    ELSE live[j]]
     IN /\ to_resend' = list
        /\ resend_time' = recompute_resend_time(list)
        /\ lastSent' = {[kind |-> live[j].kind, key |-> live[j].key]
                          : j \in {k \in 1..Len(live) : is_due(live[k])}}
  /\ UNCHANGED <<now, satisfied>>

\* The clock advances (gettime in the event loop).
Tick ==
  /\ now < MaxTime
  /\ now' = now + 1
  /\ lastSent' = {}
  /\ UNCHANGED <<to_resend, resend_time, satisfied>>

Init ==
  /\ to_resend = <<>>
  /\ resend_time = NoWake
  /\ now \in InitTimes
  /\ satisfied = {}
  /\ lastSent = {}

Next ==
  \/ \E kind \in Kinds, key \in Keys, s \in Seqnos, id \in Ids,
        ifp \in Ifaces \cup {NULL}, d \in Delays :
       RecordResend(kind, key, s, id, ifp, d)
  \/ \E key \in Keys, s \in Seqnos, id \in Ids, ifp \in Ifaces \cup {NULL} :
       SatisfyRequest(key, s, id, ifp)
  \/ ExpireResend
  \/ DoResend
  \/ Tick

Spec == Init /\ [][Next]_vars

-----------------------------------------------------------------------------
(* Properties                                                              *)

TypeOK ==
  /\ to_resend \in Seq(Entry)
  /\ resend_time \in {NoWake} \cup Nat
  /\ now \in 0..MaxTime

\* A request marked by satisfy_request stays satisfied: until a new
\* record_resend for the same destination, unsatisfied_request with the
\* update that satisfied it answers false (spec.md section 8).  This relies
\* on the sentinel time.tv_sec = 0 making resend_expired true.
SatisfiedStaysSatisfied ==
  \A h \in satisfied : ~unsatisfied_request(h.key, h.seqno, h.id)

\* Once the clock has passed REQUEST_TIMEOUT, the sentinel time 0 that
\* satisfy_request stores reads as expired, and a satisfied request stays
\* satisfied until a new record_resend for its destination.
SatisfiedStaysSatisfiedPastTimeout ==
  now >= RequestTimeout => SatisfiedStaysSatisfied

\* do_resend never retransmits a request that satisfy_request has already
\* marked: the mark must stop retransmission even though it leaves the
\* entry in the list with time 0, which makes it overdue.
NoResendOfSatisfied ==
  \A h \in satisfied, m \in lastSent :
    ~(m.kind = RESEND_REQUEST /\ m.key = h.key)

\* Distances around zero and around half the 16-bit range.
SeqnoDistances == {-32767, -1, 0, 1, 32767, 32768}

\* For the seqno of every pending entry, the three seqno helpers of util.h
\* agree: seqno_compare orders two seqnos as the sign of their seqno_minus
\* distance, even at the half-range distance 32768 where both are
\* asymmetric, and seqno_minus undoes seqno_plus for every step below half
\* the range, positive or negative, across the 65535 -> 0 wrap.
SeqnoHelpersAgree ==
  \A i \in 1..Len(to_resend), k \in SeqnoDistances :
    LET a == to_resend[i].seqno
        b == seqno_plus(a, k)
        d == seqno_minus(b, a)
    IN /\ seqno_compare(a, b) = (IF d > 0 THEN -1 ELSE IF d < 0 THEN 1 ELSE 0)
       /\ (k < 32768 => d = k)

\* spec.md sections 4.3 and 8: unsatisfied_request(seqno, id) is true iff
\* the update (seqno, id) does NOT yet satisfy the outstanding request, so
\* for a request of seqno 10 from id X it answers false for (10, X) and
\* true for (5, X).  Stated for every live request and every seqno.
UnsatisfiedMeansOlder ==
  \A i \in 1..Len(to_resend) :
    LET r == to_resend[i] IN
    (r.kind = RESEND_REQUEST /\ ~resend_expired(r)) =>
      \A s \in Seqnos :
        unsatisfied_request(r.key, s, r.id) <=> seqno_compare(s, r.seqno) < 0

=============================================================================
