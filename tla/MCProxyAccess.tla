---------------------------- MODULE MCProxyAccess ----------------------------
(* ProxyAccess on small instances. *)
EXTENDS ProxyAccess, TLC

CONSTANTS c1, h1, h2, h3, unrecognized, denied

OneConnection == {c1}
OneIpOf == c1 :> 1
ThreeHosts == {h1, h2, h3}
TwoCids == {unrecognized, denied}

\* h1 is a denied url, h2 is known to be of the denied category, h3 has a
\* content of that category.
OneDeniedHost == {h1}
OneDeniedCid == {denied}
ThreeCategoryOf == h1 :> unrecognized @@ h2 :> denied @@ h3 :> denied
OneKnown == {Row(h2, denied)}
TwoRecognizers == OneConnection \X (1..2)

Faults ==
  {{"prerun", "flush"}, {"flush"}, {"reload", "analysis"}, {"throws", "analysis", "errors"},
   {"races", "analysis"}, {"pipelining", "bodies", "analysis"},
   {"failures", "flush"}, {"failures", "reload"}, {"failures", "analysis"},
   {"limits"}, {"edits", "analysis"}, {"edits", "reload"}}

\* What refutes the page of a refusal.
Flushing == {{"flush"}}

=============================================================================
