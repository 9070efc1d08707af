---------------------------- MODULE ListingPromise ----------------------------
(***************************************************************************)
(* What a reader of a cached listing is promised, without the cache: every *)
(* answer is the listing as the service holds it, or as it held it earlier *)
(* and somebody still keeps a copy of it, or an error somebody was         *)
(* answered with and still keeps a copy of.  A copy that is gone stays     *)
(* gone: an outdated listing never comes back, and an error only with a    *)
(* new failure.                                                            *)
(***************************************************************************)
EXTENDS Naturals

CONSTANTS MaxVersion,  \* bound on the number of changes
          Error        \* an answer that is an error

VARIABLES version,     \* the listing as the service holds it
          failing,     \* there is a reason to answer somebody with an error
          servable     \* what a reader may be answered with

vars == <<version, failing, servable>>

(* A reader can always be answered with what holds now.                    *)
Current == version \in servable /\ (failing => Error \in servable)

Init == version = 0 /\ failing = FALSE /\ servable = {0}

(* The listing changes, and the last copy of the old one may be gone.      *)
Publish ==
    /\ version < MaxVersion
    /\ version' = version + 1
    /\ UNCHANGED failing
    /\ servable' \subseteq servable \cup {version'}
    /\ Current'

(* A failure begins: only this brings the error.                           *)
Break ==
    /\ ~failing
    /\ failing' = TRUE
    /\ servable' = servable \cup {Error}
    /\ UNCHANGED version

(* Copies are lost, but what holds now; a failure may be over.             *)
Forget ==
    /\ UNCHANGED version
    /\ failing' => failing
    /\ servable' \subseteq servable
    /\ Current'

Next == Publish \/ Break \/ Forget

Spec == Init /\ [][Next]_vars
==============================================================================
