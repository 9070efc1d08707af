----------------------------- MODULE MCRequestPath -----------------------------
(***************************************************************************)
(* RequestPath for every handler of the gateway: the catalogue of Handlers *)
(* gives the constants their values.                                       *)
(***************************************************************************)
EXTENDS RequestPath, Handlers
==============================================================================
