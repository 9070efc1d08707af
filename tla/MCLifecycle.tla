----------------------------- MODULE MCLifecycle -----------------------------
(* An instance of Lifecycle for TLC: three connections, so that one can    *)
(* hang, one be in a request and one idle when the signal comes.           *)
EXTENDS Lifecycle
==============================================================================
