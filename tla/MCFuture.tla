------------------------------ MODULE MCFuture ------------------------------
(* Future for TLC: threads and callbacks are model values.                  *)
EXTENDS Future

CONSTANTS s1, s2, u1, u2, k1, k2

TwoSetters == {s1, s2}
MCUsers == {u1, u2}
OneOwner == {u1}
MCCallbacks == {k1, k2}
=============================================================================
