----------------------------- MODULE PollAbstract -----------------------------
(***************************************************************************)
(* What the nl80211 listener's polling promises, without its netlink       *)
(* queue, callbacks, interface tree or configuration.                      *)
(*                                                                         *)
(* A poller is idle or busy with one series.  A series asks questions one  *)
(* at a time.  Each question is a pair <<item, step>> (an interface and    *)
(* one of its queries), and the pairs of a series are asked in strictly   *)
(* increasing lexicographic order, so a series asks nothing twice and     *)
(* ends.  A series may begin with a preliminary question, Origin (the     *)
(* family lookup), that precedes every pair.  A new question is asked     *)
(* only when the answer to the previous one ends, and the series ends      *)
(* only when an answer ends.  Every question is eventually answered.      *)
(*                                                                         *)
(* NL80211Listener implements this specification (PollRefinement there).   *)
(***************************************************************************)
EXTENDS Naturals

CONSTANTS
  Items,   \* the askable items, ordered as naturals above 0
  Steps    \* the questions about one item, ordered as naturals

ASSUME Items \subseteq Nat \ {0} /\ Steps \subseteq Nat /\ 0 \in Steps

\* The preliminary question, and the questions a series may ask.
Origin == <<0, 0>>
Pairs == Items \X Steps

\* Lexicographic order: item first, then step.
Precedes(a, b) == a[1] < b[1] \/ (a[1] = b[1] /\ a[2] < b[2])

VARIABLES
  busy,      \* a series is under way
  waiting,   \* a question is asked and its answer has not ended
  pos        \* the last question asked in this series, Origin when idle

avars == <<busy, waiting, pos>>

Init == ~busy /\ ~waiting /\ pos = Origin

\* An idle poller starts a series with the preliminary question or with
\* the first step of some item.
Start ==
  /\ ~busy /\ ~waiting
  /\ busy' = TRUE /\ waiting' = TRUE
  /\ pos' \in {Origin} \cup (Items \X {0})

\* The answer to the current question ends and a later question is asked.
Ask ==
  /\ busy /\ waiting
  /\ pos' \in Pairs /\ Precedes(pos, pos')
  /\ UNCHANGED <<busy, waiting>>

\* The answer to the current question ends and the series with it.
Finish ==
  /\ busy /\ waiting
  /\ busy' = FALSE /\ waiting' = FALSE /\ pos' = Origin

ANext == Start \/ Ask \/ Finish

\* Answers always end; starting a series is left to the environment.
ASpec == Init /\ [][ANext]_avars /\ WF_avars(Ask \/ Finish)

=============================================================================
