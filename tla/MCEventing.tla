----------------------------- MODULE MCEventing -----------------------------
(* Eventing on small sets.                                                  *)
EXTENDS Eventing

\* UUIDs are compared for equality only; so are the proxies, whose delivery
\* paths differ.
Symmetry == Permutations(Sid) \cup Permutations(Proxy)
\* No action and no property but TypeOK's reads the answer given last, the keys
\* or the view of a subscriber, so states that differ in them alone are one.
View ==
  <<values, [i \in DOMAIN subscriptions |-> [subscriptions[i] EXCEPT !.lastSeq = 0]],
    sweepVars, used, proxyVars, networkVars, ghostVars>>
=============================================================================
