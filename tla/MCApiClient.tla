----------------------------- MODULE MCApiClient -----------------------------
(* Two calls and two tabs: calls of one tab share a refresh and its queue,     *)
(* calls of two tabs exchange the same stored token.  The tab of the first     *)
(* call is named t1.                                                           *)
EXTENDS ApiClient, TLC

CONSTANTS c1, c2, t1, t2

MCCalls == {c1, c2}
MCTabs == {t1, t2}
MCTabsOf == c1 :> {t1} @@ c2 :> {t1, t2}
MCOneTab == {t1}
MCSameTab == c1 :> {t1} @@ c2 :> {t1}
=============================================================================
