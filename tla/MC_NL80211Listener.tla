------------------------ MODULE MC_NL80211Listener ------------------------
(* Model-checking instance of NL80211Listener: three interfaces, at most   *)
(* one or two reply messages per request (MaxMsgs in each .cfg).           *)
EXTENDS NL80211Listener

\* Three interface names: a series steps from the first interface over a
\* middle one to the last, and the current one can be removed while an
\* interface before it and one after it stay.
MC_Names == {1, 2, 3}

\* A kernel whose family dump lists nl80211 with its "mlme" group (entries
\* of other families leave the listener's state alone).
MC_FamilyGood == {"nl80211_mlme"}

\* A kernel whose dump may lack nl80211 or its "mlme" group (cfg80211 not
\* loaded yet, or an older kernel).
MC_FamilyAny == {"nl80211_mlme", "nl80211_nomc", "other"}
=============================================================================
