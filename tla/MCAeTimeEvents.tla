--------------------------- MODULE MCAeTimeEvents ---------------------------
(* Model-checking instance of AeTimeEvents: a second has SecMs instants,   *)
(* and the clock runs through several seconds.                             *)
EXTENDS AeTimeEvents
=============================================================================
