--------------------------- MODULE MCAccountAccess ---------------------------
(* Instances of AccountAccess for TLC.                                     *)
EXTENDS AccountAccess, TLC

(* Route guards of the routers: any signed-in user, with and without       *)
(* blocklistMiddleware (users.router.ts); one role, with it too            *)
(* (category.router.ts); two roles (instructor.router.ts).                 *)
MCRoutes ==
    {[roles |-> {}, blocklist |-> TRUE],
     [roles |-> {"instructor"}, blocklist |-> FALSE],
     [roles |-> {"admin"}, blocklist |-> TRUE],
     [roles |-> {"instructor", "admin"}, blocklist |-> FALSE]}

MCTokenRoles == {{"student"}, {"admin"}, {"instructor", "admin"}}

(* Admin requests are interchangeable.                                     *)
AdminSymmetry == Permutations(Admins)
==============================================================================
