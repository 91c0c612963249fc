----------------------------- MODULE MC_Resend ------------------------------
(* Model-checking instance of Resend: one or two destinations, two router  *)
(* ids, one interface, and sequence numbers at the wrap-around boundary.   *)
EXTENDS Resend, TLC

MC_Seqnos == {0, 32768, 65535}
\* Just the wrap: 65535 is one step older than 0.
MC_SeqnosWrap == {0, 65535}
MC_Delays == {1, 2}
\* The daemon started long after boot: the clock is past REQUEST_TIMEOUT.
MC_InitLate == {3}
\* The daemon started at boot: CLOCK_MONOTONIC is still below REQUEST_TIMEOUT.
MC_InitBoot == {0}
\* Router ids are only compared for equality.
MC_Symmetry == Permutations(Ids)
=============================================================================
