--------------------------- MODULE MCRetryService ---------------------------
(* Two payments whose fee may be raised once or twice. *)
EXTENDS RetryService

CONSTANTS p1, p2
=============================================================================
