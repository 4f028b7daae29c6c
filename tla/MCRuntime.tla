------------------------------ MODULE MCRuntime -----------------------------
(* Small instances of Runtime: who publishes to whom.                      *)
EXTENDS Runtime

P3 == {1, 2, 3}

\* A pipeline with a fan-out: 1 publishes to 2 and 3, and 2 publishes to 3.
FanOut == <<(<<2, 3>>), (<<3>>), (<<>>)>>
\* Two publishers of one port.
FanIn == <<(<<3>>), (<<3>>), (<<>>)>>
\* 1 publishes to 2, which publishes to 3.
Pipeline == <<(<<2>>), (<<3>>), (<<>>)>>
\* One publisher, one reader.
Chain == <<(<<2>>), (<<>>)>>
P2 == {1, 2}

NoReroutes == {}
OneReroute == {<<1, <<3, 2>>>>}
\* A reroute that names one target twice.
TwiceTheSame == {<<1, <<2, 2>>>>}
=============================================================================
