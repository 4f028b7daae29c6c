----------------------------- MODULE MCSpscRing -----------------------------
(* Small instances of SpscRing.  MCCapacity is what the ring makes of a    *)
(* requested minimum of 2; Modulus 4 lets the machine words wrap.          *)
EXTENDS SpscRing

MCCapacity == NextPowerOfTwo(2)

\* Of three threads that log, those a StripedRing of two rings sends to the first
MCSharers == {t \in 0 .. 2 : StripeOf(t, StripeCount(2)) = 0}
=============================================================================
