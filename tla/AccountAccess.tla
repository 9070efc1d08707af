---------------------------- MODULE AccountAccess ----------------------------
(***************************************************************************)
(* Blocking and unblocking of accounts, and the guard every protected      *)
(* route runs.                                                             *)
(*                                                                         *)
(* An administrator's block (or unblock) of an account or of the           *)
(* instructor role is two writes to two stores: the user service records   *)
(* the verdict over gRPC, then the gateway mirrors it as a key in Redis    *)
(* that lives 30 days.  The guard (authGuard, then blocklistMiddleware on  *)
(* some routes) reads only Redis, one command per await, while other       *)
(* requests and other gateway instances write it.                          *)
(*                                                                         *)
(* A Redis command is atomic and is one step; everything between two       *)
(* awaits of one request is one step; all requests of all gateway          *)
(* instances interleave.  Signatures, permissions and routes are inputs.   *)
(***************************************************************************)
EXTENDS Naturals

CONSTANTS
    Users,       \* user ids
    Admins,      \* block/unblock requests that can be in progress at once
    Requests,    \* guarded requests that can be in progress at once
    TokenRoles,  \* the role sets an access token may carry
    Routes,      \* the guard options of the routes (see RouteType)
    None,        \* no key, no user
    BlockTTL     \* lifetime of a block key in Redis, in ticks

Roles  == {"student", "instructor", "admin"}
Scopes == {"account", "instructor"}       \* what a block key can name
Keys   == Users \X Scopes                 \* user:blocked:[role:]<userId>

RouteType == [roles : SUBSET Roles, blocklist : BOOLEAN]

ASSUME AccessAssumption ==
    /\ BlockTTL \in Nat \ {0}
    /\ None \notin Keys \cup Users
    /\ TokenRoles \subseteq SUBSET Roles
    /\ Routes \subseteq RouteType

VARIABLES
    service,  \* service[k]: the user service holds k blocked
    ttl,      \* ttl[k]: ticks the Redis key of k has left, 0 when absent
    revoked,  \* users whose token's jti is in revoked_token: (external)
    op,       \* op[a]: the block/unblock request a
    req,      \* req[r]: the guarded request r
    \* History, read by no guard:
    taint     \* taint[k]: what went wrong since k's last undisturbed operation

stores == <<service, ttl, revoked>>
vars   == <<service, ttl, revoked, op, req, taint>>

Kinds   == {"block", "unblock"}
Answers == {"handler", "unauthenticated", "blocked", "forbidden",
            "role_blocked", "prohibited", "failed"}
Waiting == {"revocation", "account", "roles", "blocklist"}
Taints  == {"overlap", "failed", "expired"}

IdleOp  == [pc |-> "idle", key |-> None, kind |-> "block", alone |-> FALSE]
NoRoute == [roles |-> {}, blocklist |-> FALSE]
IdleReq == [pc |-> "idle", user |-> None, route |-> NoRoute, roles |-> {},
            permitted |-> FALSE, todo |-> {}, active |-> TRUE,
            under |-> {}, free |-> {}]

Blocked(u, s) == <<u, s>> \in Keys /\ ttl[<<u, s>>] > 0
Busy(a)       == op[a].pc # "idle"

(* The last operation on k overlapped no other and completed, its key has  *)
(* not run out, and no operation on k is under way.                        *)
Undisturbed(k) == taint[k] = {} /\ \A a \in Admins : op[a].key # k

(* What the administrators know of s of u: that it is blocked, or that it  *)
(* is not.                                                                 *)
KnownBlocked(u, s) == Undisturbed(<<u, s>>) /\ service[<<u, s>>]
KnownOpen(u, s)    == Undisturbed(<<u, s>>) /\ ~service[<<u, s>>]

Init ==
    /\ service = [k \in Keys |-> FALSE]
    /\ ttl     = [k \in Keys |-> 0]
    /\ revoked = {}
    /\ op      = [a \in Admins |-> IdleOp]
    /\ req     = [r \in Requests |-> IdleReq]
    /\ taint   = [k \in Keys |-> {}]

------------------------------------------------------------------------------
(* The administrator's request: blockAccount, unblockAccount,              *)
(* blockInstructor and unblockInstructor have this one shape.              *)

(* The handler sends the gRPC call and waits for its reply.                *)
StartOp(a, k, kind) ==
    /\ op[a].pc = "idle"
    /\ op' = [b \in Admins |->
                IF b = a
                THEN [pc |-> "calling", key |-> k, kind |-> kind,
                      alone |-> \A c \in Admins : Busy(c) => op[c].key # k]
                ELSE IF Busy(b) /\ op[b].key = k
                     THEN [op[b] EXCEPT !.alone = FALSE]
                     ELSE op[b]]
    /\ req' = [r \in Requests |->
                 IF req[r].user # k[1] THEN req[r]
                 ELSE IF kind = "unblock"
                      THEN [req[r] EXCEPT !.under = @ \ {k[2]}]
                      ELSE [req[r] EXCEPT !.free = @ \ {k[2]}]]
    /\ UNCHANGED <<stores, taint>>

EndOp(a, outcome) ==
    LET k == op[a].key IN
    /\ op' = [op EXCEPT ![a] = IdleOp]
    /\ taint' = [taint EXCEPT ![k] =
                   IF outcome = "failed" THEN @ \cup {"failed"}
                   ELSE IF op[a].alone THEN {}
                   ELSE @ \cup {"overlap"}]

(* The user service executes the call.                                     *)
ServiceApplies(a) ==
    /\ op[a].pc = "calling"
    /\ service' = [service EXCEPT ![op[a].key] = (op[a].kind = "block")]
    /\ op' = [op EXCEPT ![a].pc = "applied"]
    /\ UNCHANGED <<ttl, revoked, req, taint>>

(* The channel's retry policy sends again a call whose reply was lost.     *)
CallRetried(a) ==
    /\ op[a].pc = "applied"
    /\ op' = [op EXCEPT ![a].pc = "calling"]
    /\ UNCHANGED <<stores, req, taint>>

(* The call fails at the gateway (deadline, transport) before the service  *)
(* has executed it: the handler throws and the client gets an error, but   *)
(* the call may still be under way at the service.                         *)
CallLost(a) ==
    /\ op[a].pc = "calling"
    /\ op' = [op EXCEPT ![a].pc = "abandoned"]
    /\ UNCHANGED <<stores, req, taint>>

(* An abandoned call is executed late, or never.                           *)
AbandonedCallEnds(a) ==
    /\ op[a].pc = "abandoned"
    /\ \/ service' = [service EXCEPT ![op[a].key] = (op[a].kind = "block")]
       \/ UNCHANGED service
    /\ EndOp(a, "failed")
    /\ UNCHANGED <<ttl, revoked, req>>

(* The service has executed the call and its reply is lost: the handler    *)
(* throws before it reaches Redis.                                         *)
ReplyLost(a) ==
    /\ op[a].pc = "applied"
    /\ EndOp(a, "failed")
    /\ UNCHANGED <<stores, req>>

\* Mutants of Mirror: a lifetime off by one; an unblock that forgets the
\* role and so deletes the account's key; an unblock that is not mirrored.
MirrorTooLong(k, kind) ==
    ttl' = [ttl EXCEPT ![k] = IF kind = "block" THEN BlockTTL + 1 ELSE 0]
MirrorForgetsRole(k, kind) ==
    ttl' = IF kind = "block" THEN [ttl EXCEPT ![k] = BlockTTL]
           ELSE [ttl EXCEPT ![<<k[1], "account">>] = 0]
MirrorBlocksOnly(k, kind) ==
    ttl' = IF kind = "block" THEN [ttl EXCEPT ![k] = BlockTTL] ELSE ttl

(* SET key 1 EX ttl, or DEL key.                                           *)
Mirror(k, kind) ==
    ttl' = [ttl EXCEPT ![k] = IF kind = "block" THEN BlockTTL ELSE 0]

(* The reply arrives, the handler mirrors the verdict in Redis (SET EX or  *)
(* DEL) and answers 200.                                                   *)
SyncRedis(a) ==
    /\ op[a].pc = "applied"
    /\ Mirror(op[a].key, op[a].kind)
    /\ EndOp(a, "done")
    /\ UNCHANGED <<service, revoked, req>>

(* The Redis command fails, executed or not: the handler throws.  Nothing  *)
(* undoes the verdict the service has recorded.                            *)
SyncFails(a) ==
    /\ op[a].pc = "applied"
    /\ Mirror(op[a].key, op[a].kind) \/ UNCHANGED ttl
    /\ EndOp(a, "failed")
    /\ UNCHANGED <<service, revoked, req>>

------------------------------------------------------------------------------
(* The guard.                                                              *)

Answer(r, pc) == req' = [req EXCEPT ![r].pc = pc]

(* A request arrives with a token or without; a token that verifies names  *)
(* its user, the roles it was issued with and, perhaps, a jti.             *)
Arrive(r, u, route, roles, permitted, jti) ==
    /\ req[r].pc = "idle"
    /\ req' = [req EXCEPT ![r] =
                 [pc |-> IF jti THEN "revocation" ELSE "account",
                  user |-> u, route |-> route, roles |-> roles,
                  permitted |-> permitted, todo |-> {}, active |-> TRUE,
                  under |-> {s \in Scopes : KnownBlocked(u, s)}
                            \cup (IF jti /\ u \in revoked THEN {"token"} ELSE {}),
                  free |-> {s \in Scopes : KnownOpen(u, s)}]]
    /\ UNCHANGED <<stores, op, taint>>

ArriveWithoutToken(r) ==
    /\ req[r].pc = "idle"
    /\ Answer(r, "unauthenticated")
    /\ UNCHANGED <<stores, op, taint>>

(* isTokenRevoked                                                          *)
CheckRevocation(r) ==
    /\ req[r].pc = "revocation"
    /\ Answer(r, IF req[r].user \in revoked THEN "unauthenticated" ELSE "account")
    /\ UNCHANGED <<stores, op, taint>>

(* What is left once no Redis answer is awaited any more: the permissions, *)
(* and next() to blocklistMiddleware or to the handler.                    *)
Granted(q) ==
    IF ~q.permitted THEN "forbidden"
    ELSE IF q.route.blocklist THEN "blocklist" ELSE "handler"

(* isAccountBlocked, then hasRole; the role keys are asked for only when   *)
(* the token has one of the route's roles.                                 *)
CheckAccount(r) ==
    LET q == req[r] IN
    /\ q.pc = "account"
    /\ \/ /\ Blocked(q.user, "account")
          /\ Answer(r, "blocked")
       \/ /\ ~Blocked(q.user, "account")
          /\ q.route.roles = {}
          /\ Answer(r, Granted(q))
       \/ /\ ~Blocked(q.user, "account")
          /\ q.route.roles # {}
          /\ q.route.roles \cap q.roles = {}
          /\ Answer(r, "forbidden")
       \/ /\ ~Blocked(q.user, "account")
          /\ q.route.roles \cap q.roles # {}
          /\ req' = [req EXCEPT ![r].pc = "roles", ![r].todo = q.route.roles]
    /\ UNCHANGED <<stores, op, taint>>

\* Mutants: the last answer decides; a refusal that calls no next(); a
\* permission check that only the routes without roles run.
RoleActiveLast(q, role)  == ~Blocked(q.user, role)
RoleVerdictSilent(q, active) == IF active THEN Granted(q) ELSE "roles"

RoleVerdictUnpermitted(q, active) ==
    IF ~active THEN "role_blocked"
    ELSE IF q.route.blocklist THEN "blocklist" ELSE "handler"

RoleActive(q, role)    == q.active /\ ~Blocked(q.user, role)
RoleVerdict(q, active) == IF active THEN Granted(q) ELSE "role_blocked"

(* isUserRoleBlocked, once per role of the ROUTE (not of the token): the   *)
(* commands of Promise.all are answered one by one, in any order, and the  *)
(* verdict is the conjunction of the answers.                              *)
CheckRole(r, role) ==
    LET q      == req[r]
        todo   == q.todo \ {role}
        active == RoleActive(q, role)
    IN
    /\ q.pc = "roles"
    /\ role \in q.todo
    /\ req' = [req EXCEPT ![r].todo = todo, ![r].active = active,
                          ![r].pc = IF todo # {} THEN "roles"
                                    ELSE RoleVerdict(q, active)]
    /\ UNCHANGED <<stores, op, taint>>

(* blocklistMiddleware asks for the account key a second time.             *)
CheckBlocklist(r) ==
    /\ req[r].pc = "blocklist"
    /\ Answer(r, IF Blocked(req[r].user, "account") THEN "prohibited" ELSE "handler")
    /\ UNCHANGED <<stores, op, taint>>

(* A Redis command of the guard fails: the catch answers 401, and          *)
(* blocklistMiddleware passes the error on.                                *)
GuardFails(r) ==
    /\ req[r].pc \in Waiting
    /\ req[r].pc = "roles" => req[r].todo # {}
    /\ Answer(r, IF req[r].pc = "blocklist" THEN "failed" ELSE "unauthenticated")
    /\ UNCHANGED <<stores, op, taint>>

(* The answered request ends.                                              *)
Depart(r) ==
    /\ req[r].pc \in Answers
    /\ req' = [req EXCEPT ![r] = IdleReq]
    /\ UNCHANGED <<stores, op, taint>>

------------------------------------------------------------------------------
(* The auth service revokes a token.                                       *)
Revoke(u) ==
    /\ revoked' = revoked \cup {u}
    /\ UNCHANGED <<service, ttl, op, req, taint>>

(* A tick of Redis time: every key loses one, and a key at its last tick   *)
(* is gone.  The user service keeps its verdict.                           *)
Tick ==
    LET expiring == {k \in Keys : ttl[k] = 1} IN
    /\ \E k \in Keys : ttl[k] > 0
    /\ ttl' = [k \in Keys |-> IF ttl[k] > 0 THEN ttl[k] - 1 ELSE 0]
    /\ req' = [r \in Requests |->
                 [req[r] EXCEPT !.under =
                    {s \in @ : <<req[r].user, s>> \notin expiring}]]
    /\ taint' = [k \in Keys |->
                   IF k \in expiring THEN taint[k] \cup {"expired"} ELSE taint[k]]
    /\ UNCHANGED <<service, revoked, op>>

AdminNext(a) ==
    \/ \E k \in Keys, kind \in Kinds : StartOp(a, k, kind)
    \/ ServiceApplies(a) \/ CallRetried(a) \/ CallLost(a) \/ AbandonedCallEnds(a)
    \/ ReplyLost(a) \/ SyncRedis(a) \/ SyncFails(a)

(* The steps of the guard that Redis's answers, or their failure, drive.   *)
GuardStep(r) ==
    \/ CheckRevocation(r) \/ CheckAccount(r)
    \/ \E role \in Roles : CheckRole(r, role)
    \/ CheckBlocklist(r)
    \/ GuardFails(r)

RequestNext(r) ==
    \/ \E u \in Users, route \in Routes, roles \in TokenRoles,
          permitted, jti \in BOOLEAN : Arrive(r, u, route, roles, permitted, jti)
    \/ ArriveWithoutToken(r)
    \/ GuardStep(r)
    \/ Depart(r)

Next ==
    \/ \E a \in Admins : AdminNext(a)
    \/ \E r \in Requests : RequestNext(r)
    \/ \E u \in Users : Revoke(u)
    \/ Tick

Spec == Init /\ [][Next]_vars

(* Every Redis command ioredis sends is answered or fails                  *)
(* (maxRetriesPerRequest), so a guard that waits gets on.                  *)
FairSpec == Spec /\ \A r \in Requests : WF_vars(GuardStep(r))

------------------------------------------------------------------------------
(* Properties.                                                             *)

OpType == [pc : {"idle", "calling", "applied", "abandoned"},
           key : Keys \cup {None}, kind : Kinds, alone : BOOLEAN]

ReqPcs  == {"idle"} \cup Waiting \cup Answers
ReqType == [pc : ReqPcs, user : Users \cup {None},
            route : RouteType, roles : SUBSET Roles, permitted : BOOLEAN,
            todo : SUBSET Roles, active : BOOLEAN,
            under : SUBSET (Scopes \cup {"token"}), free : SUBSET Scopes]

(* The variables have their types, and a block/unblock request in progress *)
(* is about a key.                                                         *)
TypeOK ==
    /\ service \in [Keys -> BOOLEAN]
    /\ ttl \in [Keys -> 0..BlockTTL]
    /\ revoked \subseteq Users
    /\ op \in [Admins -> OpType]
    /\ \A a \in Admins : Busy(a) <=> op[a].key \in Keys
    /\ req \in [Requests -> ReqType]
    /\ taint \in [Keys -> SUBSET Taints]

(* A request that arrived when its account was known to be blocked (or its *)
(* instructor role was, on a route that lists it; or its token revoked)    *)
(* never reaches its handler, however the reads of its guard interleave    *)
(* with the writes of others, unless an unblock of that key began or its   *)
(* lifetime ran out meanwhile.                                             *)
NoEntryUnderBlock ==
    \A r \in Requests :
        req[r].pc = "handler" =>
            req[r].under \cap ({"account", "token"} \cup req[r].route.roles) = {}

(* A request is refused for a block only if, when it arrived, that key was *)
(* not known to be open, or a block of it began since: a completed unblock *)
(* is never answered with a refusal.                                       *)
NoRefusalWithoutBlock ==
    \A r \in Requests :
        /\ req[r].pc \in {"blocked", "prohibited"} => "account" \notin req[r].free
        /\ req[r].pc = "role_blocked" =>
              \E s \in req[r].route.roles \cap Scopes : s \notin req[r].free

(* An operation that nothing overlapped and none of whose steps failed     *)
(* leaves the user service and Redis in agreement, whatever disagreement   *)
(* failures, races and expiry had left before it.                          *)
UndisturbedOpAgrees ==
    \A k \in Keys : Undisturbed(k) => (service[k] <=> ttl[k] > 0)

(* The token has one of the roles the route asks for, or it asks for none. *)
RolesMatch(q) == q.route.roles = {} \/ q.route.roles \cap q.roles # {}

(* The answer fits the request, whichever path through the guard's awaits  *)
(* led to it: whoever is let in has a role of the route and the            *)
(* permissions; whoever is forbidden lacks one of the two; only a request  *)
(* whose roles match is told that its roles are blocked; and only a route  *)
(* with blocklistMiddleware prohibits, and only whom the guard let pass.   *)
VerdictFits ==
    \A r \in Requests :
        /\ req[r].pc \in {"handler", "prohibited"} => req[r].permitted /\ RolesMatch(req[r])
        /\ req[r].pc = "forbidden" => ~(req[r].permitted /\ RolesMatch(req[r]))
        /\ req[r].pc = "role_blocked" => req[r].route.roles \cap req[r].roles # {}
        /\ req[r].pc = "prohibited" => req[r].route.blocklist

(* A guard that waits for the answers about roles has one outstanding, so  *)
(* that every wait is for a command Redis has been sent.                   *)
CommandUnderWay ==
    \A r \in Requests : req[r].pc = "roles" => req[r].todo # {}

(* What a waiting request p may have become: one that waits for what the   *)
(* guard asks for later, for fewer of the route's roles, or is answered.   *)
FurtherOn(p, q) ==
    \/ q.pc \in Answers
    \/ p.pc = "revocation" /\ q.pc = "account"
    \/ p.pc = "account" /\ q.pc \in {"roles", "blocklist"}
    \/ p.pc = "roles" /\ q.pc = "blocklist"
    \/ p.pc = "roles" /\ q.pc = "roles" /\ q.todo \subseteq p.todo /\ q.todo # p.todo

(* The guard never goes back, never asks again for what it was told and    *)
(* never drops a request it has not answered: it asks a bounded number of  *)
(* questions, each once, and can be kept from answering only by a command  *)
(* that is itself never answered.                                          *)
GuardOnward ==
    [][\A r \in Requests : req[r].pc \in Waiting =>
          \/ req'[r].pc = req[r].pc /\ req'[r].todo = req[r].todo
          \/ FurtherOn(req[r], req'[r])]_vars

(* Every guarded request is answered: no path through the guard leaves it  *)
(* waiting for a call of next() that never comes.                          *)
GuardAnswers ==
    \A r \in Requests : req[r].pc \in Waiting ~> req[r].pc \in Answers

(* What the controller's comment says of the Redis write ("Sync Redis for  *)
(* immediate role-specific revocation"): once the operations on a key have *)
(* all completed, with no failure and within the key's lifetime, Redis     *)
(* says what the user service says.                                        *)
SyncedAfterOps ==
    \A k \in Keys :
        taint[k] \subseteq {"overlap"} /\ (\A a \in Admins : op[a].key # k)
            => (service[k] <=> ttl[k] > 0)

(* What the guard's condition and its refusal say (hasActiveMatchedRole,   *)
(* "Matching role(s) have been blocked"): a request refused at the role    *)
(* check has no active role among those its token matched the route with.  *)
RefusedRolesWereBlocked ==
    \A r \in Requests :
        req[r].pc = "role_blocked" =>
            \A s \in req[r].route.roles \cap req[r].roles :
                s \in Scopes /\ s \notin req[r].free
==============================================================================
