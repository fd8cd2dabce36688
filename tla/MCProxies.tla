----------------------------- MODULE MCProxies -----------------------------
EXTENDS Proxies, TLC

CONSTANTS e1, e2, p1, f1

\* The client chose a local port for e1; e2 is mapped to a free one.
MCHostPort == e1 :> p1
MCChannel == ((1..2) \X {e1, e2}) \cup {f1}
=============================================================================
