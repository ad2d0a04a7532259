----------------------------- MODULE MCDataplane -----------------------------
EXTENDS Dataplane
\* Two turns, so that what one leaves could reach the next; either program.
=============================================================================
