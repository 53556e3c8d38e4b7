--------------------------- MODULE MCBrowserPool ----------------------------
(* Instances of BrowserPool for TLC.                                       *)
EXTENDS BrowserPool, TLC

CONSTANTS s1, s2, c1, c2, n1, n2, n3

\* All sessions are of one tenant, the only one the limit is about.
OneTenant(s) == "acme"

\* Pods, goroutines and the sessions of one tenant are interchangeable.
Interchangeable ==
  Permutations({s1, s2}) \cup Permutations({c1, c2}) \cup Permutations({n1, n2, n3})
=============================================================================
