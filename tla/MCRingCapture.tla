--------------------------- MODULE MCRingCapture ---------------------------
(* RingCapture on small rings; the configurations give the bounds.          *)
EXTENDS RingCapture
=============================================================================
