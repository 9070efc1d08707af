------------------------- MODULE AccountAccessProofs -------------------------
(***************************************************************************)
(* Proofs about AccountAccess, for any sets of users, concurrent           *)
(* administrators' requests and guarded requests, any routes and any       *)
(* lifetime of a block key.                                                *)
(***************************************************************************)
EXTENDS AccountAccess, TLAPS

(* What keeps the two stores together: an operation alone on its key stays *)
(* so, and the verdict it has applied is still the service's when it       *)
(* mirrors it.                                                             *)
AloneOnKey ==
    \A a, b \in Admins : op[a].alone /\ a # b /\ Busy(a) => op[b].key # op[a].key

AppliedStands ==
    \A a \in Admins :
        op[a].pc = "applied" /\ op[a].alone =>
            (service[op[a].key] <=> op[a].kind = "block")

SyncInv == AloneOnKey /\ AppliedStands /\ UndisturbedOpAgrees

(* What the scopes a request carries say about the stores, as long as it   *)
(* carries them.                                                           *)
StoresAgree(r) ==
    /\ \A s \in Scopes \cap req[r].under :
          /\ req[r].user \in Users
          /\ ttl[<<req[r].user, s>>] > 0
          /\ \A a \in Admins : op[a].key = <<req[r].user, s>> => op[a].kind = "block"
    /\ \A s \in req[r].free :
          /\ req[r].user \in Users
          /\ ttl[<<req[r].user, s>>] = 0
          /\ \A a \in Admins : op[a].key = <<req[r].user, s>> => op[a].kind = "unblock"
    /\ "token" \in req[r].under => req[r].user \in revoked

(* What a request q that has come as far as q.pc can no longer carry, and  *)
(* what its role check has learnt so far.                                  *)
Passed(q) ==
    /\ q.pc \in {"account", "roles", "blocklist", "handler"} => "token" \notin q.under
    /\ q.pc \in {"roles", "blocklist", "handler"} => "account" \notin q.under
    /\ q.pc \in {"blocklist", "handler"} => q.route.roles \cap q.under = {}

RolesSoFar(q) ==
    /\ q.pc \in {"revocation", "account"} => q.active
    /\ q.pc = "roles" =>
          /\ q.todo \subseteq q.route.roles
          /\ q.active => \A s \in q.route.roles \ q.todo : s \notin q.under
          /\ ~q.active => \E s \in q.route.roles \cap Scopes : s \notin q.free

Refused(q) ==
    /\ q.pc \in {"blocked", "prohibited"} => "account" \notin q.free
    /\ q.pc = "role_blocked" => \E s \in q.route.roles \cap Scopes : s \notin q.free

Progress(q) == Passed(q) /\ RolesSoFar(q) /\ Refused(q)

GuardInv == \A r \in Requests : StoresAgree(r) /\ Progress(req[r])

------------------------------------------------------------------------------
(* Setting a request's pc, or its pc and what the role check keeps, leaves *)
(* the requests typed.                                                     *)
LEMMA AnswerTyped ==
    ASSUME req \in [Requests -> ReqType],
           NEW r \in Requests, NEW pc \in ReqPcs, Answer(r, pc)
    PROVE  req' \in [Requests -> ReqType]
  BY DEF Answer, ReqType

LEMMA PcsAreTyped ==
    /\ Waiting \subseteq ReqPcs
    /\ Answers \subseteq ReqPcs
    /\ "idle" \in ReqPcs
    /\ \A r \in Requests : Granted(req[r]) \in Waiting \cup Answers
  BY DEF ReqPcs, Waiting, Answers, Granted

(* An operation that starts, and one that another joins on its key.        *)
LEMMA StartTyped ==
    ASSUME NEW o \in OpType, NEW k \in Keys, NEW kind \in Kinds,
           NEW alone \in BOOLEAN
    PROVE  /\ [pc |-> "calling", key |-> k, kind |-> kind, alone |-> alone] \in OpType
           /\ [o EXCEPT !.alone = FALSE] \in OpType
  BY DEF OpType

(* The updates of one request's record keep it typed.                      *)
LEMMA ScopesTyped ==
    ASSUME NEW q \in ReqType, NEW under \in SUBSET (Scopes \cup {"token"}),
           NEW free \in SUBSET Scopes
    PROVE  /\ [q EXCEPT !.under = under] \in ReqType
           /\ [q EXCEPT !.free = free] \in ReqType
  BY DEF ReqType

LEMMA RoleCheckTyped ==
    ASSUME NEW q \in ReqType, NEW pc \in ReqPcs,
           NEW todo \in SUBSET Roles, NEW active \in BOOLEAN
    PROVE  /\ [q EXCEPT !.pc = pc, !.todo = todo] \in ReqType
           /\ [q EXCEPT !.todo = todo, !.active = active, !.pc = pc] \in ReqType
  BY DEF ReqType

(* Every action, and the steps that change nothing, leave a typed state    *)
(* typed.                                                                  *)
LEMMA TypeOKStep == TypeOK /\ [Next]_vars => TypeOK'
<1> SUFFICES ASSUME TypeOK, [Next]_vars
             PROVE  TypeOK'
  OBVIOUS
<1> USE AccessAssumption DEF TypeOK, stores
<1>1. ASSUME NEW a \in Admins, AdminNext(a)
      PROVE  TypeOK'
  <2> USE DEF OpType, Busy, Kinds, Taints, IdleOp
  <2>1. ASSUME NEW k \in Keys, NEW kind \in Kinds, StartOp(a, k, kind)
        PROVE  TypeOK'
    <3> DEFINE alone == \A c \in Admins : Busy(c) => op[c].key # k
    <3>a. alone \in BOOLEAN
      OBVIOUS
    <3>b. op' = [b \in Admins |->
                   IF b = a
                   THEN [pc |-> "calling", key |-> k, kind |-> kind, alone |-> alone]
                   ELSE IF Busy(b) /\ op[b].key = k
                        THEN [op[b] EXCEPT !.alone = FALSE]
                        ELSE op[b]]
      BY <2>1 DEF StartOp
    <3> HIDE DEF alone
    <3>1. op' \in [Admins -> OpType]
      <4> HIDE DEF OpType
      <4> QED
        BY <3>a, <3>b, StartTyped
    <3>2. \A b \in Admins : Busy(b)' <=> op'[b].key \in Keys
      BY <2>1 DEF StartOp
    <3>3. req' \in [Requests -> ReqType]
      <4>1. \A r \in Requests :
              /\ req[r].under \ {k[2]} \in SUBSET (Scopes \cup {"token"})
              /\ req[r].free \ {k[2]} \in SUBSET Scopes
        BY DEF ReqType
      <4> QED
        BY <2>1, <4>1, ScopesTyped DEF StartOp
    <3> QED
      BY <2>1, <3>1, <3>2, <3>3 DEF StartOp
  <2>2. CASE ServiceApplies(a)
    BY <2>2 DEF ServiceApplies
  <2>3. CASE CallRetried(a)
    BY <2>3 DEF CallRetried
  <2>4. CASE CallLost(a)
    BY <2>4 DEF CallLost
  <2>5. CASE AbandonedCallEnds(a)
    BY <2>5 DEF AbandonedCallEnds, EndOp
  <2>6. CASE ReplyLost(a)
    BY <2>6 DEF ReplyLost, EndOp
  <2>7. CASE SyncRedis(a)
    BY <2>7 DEF SyncRedis, EndOp, Mirror
  <2>8. CASE SyncFails(a)
    BY <2>8 DEF SyncFails, EndOp, Mirror
  <2> QED
    BY <1>1, <2>1, <2>2, <2>3, <2>4, <2>5, <2>6, <2>7, <2>8 DEF AdminNext
<1>2. ASSUME NEW r \in Requests, RequestNext(r)
      PROVE  TypeOK'
  <2> USE AnswerTyped, PcsAreTyped
  <2>1. ASSUME NEW u \in Users, NEW route \in Routes, NEW roles \in TokenRoles,
               NEW permitted \in BOOLEAN, NEW jti \in BOOLEAN,
               Arrive(r, u, route, roles, permitted, jti)
        PROVE  TypeOK'
    <3>1. req'[r] \in ReqType
      BY <2>1 DEF Arrive, ReqType, Waiting
    <3>2. req' \in [Requests -> ReqType]
      BY <2>1, <3>1 DEF Arrive
    <3> QED
      BY <2>1, <3>2 DEF Arrive, Busy
  <2>2. CASE ArriveWithoutToken(r)
    BY <2>2 DEF ArriveWithoutToken, Answers, Busy
  <2>3. CASE CheckRevocation(r)
    BY <2>3 DEF CheckRevocation, Answers, Waiting, Busy
  <2>4. CASE CheckAccount(r)
    <3>1. CASE Answer(r, "blocked") \/ Answer(r, "forbidden") \/ Answer(r, Granted(req[r]))
      BY <2>4, <3>1 DEF CheckAccount, Answers, Busy
    <3>2. CASE req' = [req EXCEPT ![r].pc = "roles", ![r].todo = req[r].route.roles]
      <4>1. "roles" \in ReqPcs /\ req[r].route.roles \in SUBSET Roles
        BY DEF ReqType, RouteType, Waiting
      <4>2. [req[r] EXCEPT !.pc = "roles", !.todo = req[r].route.roles] \in ReqType
        BY <4>1, RoleCheckTyped
      <4>3. req' \in [Requests -> ReqType]
        BY <3>2, <4>2
      <4> QED
        BY <2>4, <4>3 DEF CheckAccount, Busy
    <3> QED
      BY <2>4, <3>1, <3>2 DEF CheckAccount
  <2>5. ASSUME NEW role \in Roles, CheckRole(r, role)
        PROVE  TypeOK'
    <3>1. /\ RoleVerdict(req[r], RoleActive(req[r], role)) \in ReqPcs
          /\ "roles" \in ReqPcs
      BY DEF RoleVerdict, Answers, Waiting
    <3>2. RoleActive(req[r], role) \in BOOLEAN
      BY DEF RoleActive
    <3>3. req[r].todo \ {role} \in SUBSET Roles
      BY DEF ReqType
    <3>4. req'[r] \in ReqType /\ req' \in [Requests -> ReqType]
      BY <2>5, <3>1, <3>2, <3>3, RoleCheckTyped DEF CheckRole
    <3> QED
      BY <2>5, <3>4 DEF CheckRole, Busy
  <2>6. CASE CheckBlocklist(r)
    BY <2>6 DEF CheckBlocklist, Answers, Busy
  <2>7. CASE GuardFails(r)
    BY <2>7 DEF GuardFails, Answers, Busy
  <2>8. CASE Depart(r)
    <3>1. IdleReq \in ReqType
      BY DEF IdleReq, ReqType, NoRoute, RouteType
    <3> QED
      BY <2>8, <3>1 DEF Depart, Busy
  <2> QED
    BY <1>2, <2>1, <2>2, <2>3, <2>4, <2>5, <2>6, <2>7, <2>8
       DEF RequestNext, GuardStep
<1>3. ASSUME NEW u \in Users, Revoke(u)
      PROVE  TypeOK'
  BY <1>3 DEF Revoke, Busy
<1>4. CASE Tick
  <2>1. ttl' \in [Keys -> 0..BlockTTL]
    BY <1>4 DEF Tick
  <2>2. req' \in [Requests -> ReqType]
    <3> DEFINE left(r) == {s \in req[r].under :
                            <<req[r].user, s>> \notin {k \in Keys : ttl[k] = 1}}
    <3>1. \A r \in Requests : left(r) \in SUBSET (Scopes \cup {"token"})
      BY DEF ReqType
    <3>2. req' = [r \in Requests |-> [req[r] EXCEPT !.under = left(r)]]
      BY <1>4 DEF Tick
    <3> HIDE DEF left
    <3> QED
      BY <3>1, <3>2, ScopesTyped
  <2>3. taint' \in [Keys -> SUBSET Taints]
    BY <1>4 DEF Tick, Taints
  <2> QED
    BY <1>4, <2>1, <2>2, <2>3 DEF Tick, Busy
<1>5. CASE UNCHANGED vars
  BY <1>5 DEF vars, Busy
<1> QED
  BY <1>1, <1>2, <1>3, <1>4, <1>5 DEF Next

(* The variables have their types in every reachable state.                *)
THEOREM TypeCorrect == Spec => []TypeOK
<1>1. Init => TypeOK
  BY AccessAssumption, PcsAreTyped
     DEF Init, TypeOK, OpType, ReqType, Kinds, IdleOp, IdleReq, NoRoute, RouteType, Busy
<1> QED
  BY <1>1, TypeOKStep, PTL DEF Spec

------------------------------------------------------------------------------
(* An idle request has no key, a busy one has one.                         *)
LEMMA BusyHasKey ==
    ASSUME TypeOK, NEW a \in Admins
    PROVE  /\ Busy(a) => op[a].key \in Keys
           /\ ~Busy(a) => op[a].key \notin Keys
  BY DEF TypeOK

(* The end of a's operation, whatever it did to the stores: the other      *)
(* operations stand as they were, and a key that is undisturbed after it   *)
(* was so before, or is the key of an operation that ended well and alone. *)
LEMMA EndOpSync ==
    ASSUME TypeOK, AloneOnKey, NEW a \in Admins, Busy(a),
           NEW outcome \in {"failed", "done"}, EndOp(a, outcome)
    PROVE  /\ AloneOnKey'
           /\ \A b \in Admins : b # a => op'[b] = op[b]
           /\ op'[a] = IdleOp
           /\ \A j \in Keys : Undisturbed(j)' =>
                \/ j # op[a].key /\ Undisturbed(j)
                \/ j = op[a].key /\ outcome = "done" /\ op[a].alone
<1> DEFINE k == op[a].key
<1>1. k \in Keys
  BY BusyHasKey
<1>2. op' = [op EXCEPT ![a] = IdleOp]
  BY DEF EndOp
<1>3. /\ \A b \in Admins : b # a => op'[b] = op[b]
      /\ op'[a] = IdleOp
  BY <1>2 DEF TypeOK
<1>4. AloneOnKey'
  <2> SUFFICES ASSUME NEW x \in Admins, NEW y \in Admins,
                      op'[x].alone, x # y, Busy(x)'
               PROVE  op'[y].key # op'[x].key
    BY DEF AloneOnKey
  <2>1. x # a /\ op'[x] = op[x] /\ Busy(x)
    BY <1>3 DEF Busy, IdleOp
  <2>2. op[x].key \in Keys
    BY <2>1, BusyHasKey
  <2>3. CASE y = a
    BY <1>3, <2>1, <2>2, <2>3, AccessAssumption DEF IdleOp
  <2>4. CASE y # a
    BY <1>3, <2>1, <2>4 DEF AloneOnKey
  <2> QED
    BY <2>3, <2>4
<1>5. ASSUME NEW j \in Keys, Undisturbed(j)'
      PROVE  \/ j # k /\ Undisturbed(j)
             \/ j = k /\ outcome = "done" /\ op[a].alone
  <2>1. taint'[j] = {} /\ \A b \in Admins : op'[b].key # j
    BY <1>5 DEF Undisturbed
  <2>2. CASE j # k
    <3>1. taint'[j] = taint[j]
      BY <2>2 DEF EndOp, TypeOK
    <3> QED
      BY <1>3, <2>1, <2>2, <3>1 DEF Undisturbed
  <2>3. CASE j = k
    <3>1. outcome = "failed" => taint'[k] = taint[k] \cup {"failed"}
      BY <1>1 DEF EndOp, TypeOK
    <3>2. outcome = "done" /\ ~op[a].alone => taint'[k] = taint[k] \cup {"overlap"}
      BY <1>1 DEF EndOp, TypeOK
    <3> QED
      BY <2>1, <2>3, <3>1, <3>2
  <2> QED
    BY <2>2, <2>3
<1> QED
  BY <1>3, <1>4, <1>5

(* A step that leaves the operations, the two stores and the taints alone. *)
LEMMA SyncUntouched ==
    ASSUME SyncInv, UNCHANGED <<service, ttl, op, taint>>
    PROVE  SyncInv'
  BY DEF SyncInv, AloneOnKey, AppliedStands, UndisturbedOpAgrees, Undisturbed, Busy

LEMMA SyncInvStep == TypeOK /\ SyncInv /\ [Next]_vars => SyncInv'
<1> SUFFICES ASSUME TypeOK, SyncInv, [Next]_vars
             PROVE  SyncInv'
  OBVIOUS
<1> USE DEF stores
<1>1. ASSUME NEW a \in Admins, NEW k \in Keys, NEW kind \in Kinds,
             StartOp(a, k, kind)
      PROVE  SyncInv'
  <2>1. op[a].pc = "idle" /\ op[a].key \notin Keys
    BY <1>1, BusyHasKey DEF StartOp, Busy
  <2>2. /\ op'[a].key = k
        /\ op'[a].pc = "calling"
        /\ op'[a].alone => \A c \in Admins : Busy(c) => op[c].key # k
    BY <1>1 DEF StartOp
  <2>3. ASSUME NEW b \in Admins, b # a
        PROVE  /\ op'[b].pc = op[b].pc
               /\ op'[b].key = op[b].key
               /\ op'[b].kind = op[b].kind
               /\ op'[b].alone => op[b].alone
               /\ op'[b].alone /\ Busy(b) => op[b].key # k
    <3>1. CASE Busy(b) /\ op[b].key = k
      <4>1. op'[b] = [op[b] EXCEPT !.alone = FALSE]
        BY <1>1, <2>3, <3>1 DEF StartOp
      <4>2. op[b] \in OpType
        BY DEF TypeOK
      <4> QED
        BY <4>1, <4>2 DEF OpType
    <3>2. CASE ~(Busy(b) /\ op[b].key = k)
      BY <1>1, <2>3, <3>2 DEF StartOp
    <3> QED
      BY <3>1, <3>2
  <2>4. AloneOnKey'
    <3> SUFFICES ASSUME NEW x \in Admins, NEW y \in Admins,
                        op'[x].alone, x # y, Busy(x)'
                 PROVE  op'[y].key # op'[x].key
      BY DEF AloneOnKey
    <3>1. CASE x = a
      <4>1. y # a /\ op'[y].key = op[y].key /\ (Busy(y) => op[y].key # k)
        BY <2>2, <2>3, <3>1
      <4>2. ~Busy(y) => op[y].key # k
        BY BusyHasKey
      <4> QED
        BY <2>2, <3>1, <4>1, <4>2
    <3>2. CASE x # a /\ y = a
      BY <2>2, <2>3, <3>2 DEF Busy
    <3>3. CASE x # a /\ y # a
      BY <2>3, <3>3 DEF Busy, SyncInv, AloneOnKey
    <3> QED
      BY <3>1, <3>2, <3>3
  <2>5. AppliedStands'
    BY <1>1, <2>2, <2>3 DEF StartOp, SyncInv, AppliedStands
  <2>6. UndisturbedOpAgrees'
    <3>1. ASSUME NEW j \in Keys, Undisturbed(j)'
          PROVE  Undisturbed(j)
      BY <1>1, <2>1, <2>3, <3>1 DEF StartOp, Undisturbed
    <3> QED
      BY <1>1, <3>1 DEF StartOp, SyncInv, UndisturbedOpAgrees
  <2> QED
    BY <2>4, <2>5, <2>6 DEF SyncInv
<1>2. ASSUME NEW a \in Admins, ServiceApplies(a)
      PROVE  SyncInv'
  <2>1. op[a].key \in Keys /\ Busy(a)
    BY <1>2, BusyHasKey DEF ServiceApplies, Busy
  <2>2. \A b \in Admins : /\ op'[b].key = op[b].key
                          /\ op'[b].kind = op[b].kind
                          /\ op'[b].alone = op[b].alone
                          /\ Busy(b)' <=> Busy(b)
                          /\ b # a => op'[b].pc = op[b].pc
    BY <1>2 DEF ServiceApplies, Busy, TypeOK, OpType
  <2>3. AloneOnKey'
    BY <2>2 DEF SyncInv, AloneOnKey
  <2>4. AppliedStands'
    <3> SUFFICES ASSUME NEW b \in Admins, op'[b].pc = "applied", op'[b].alone
                 PROVE  service'[op[b].key] <=> op[b].kind = "block"
      BY <2>2 DEF AppliedStands
    <3>1. CASE b = a
      BY <1>2, <2>1, <3>1 DEF ServiceApplies, TypeOK
    <3>2. CASE b # a
      <4>1. op[b].pc = "applied" /\ op[b].alone /\ Busy(b)
        BY <2>2, <3>2 DEF Busy
      <4>2. op[a].key # op[b].key
        BY <3>2, <4>1 DEF SyncInv, AloneOnKey
      <4>3. op[b].key \in Keys
        BY <4>1, BusyHasKey
      <4> QED
        BY <1>2, <4>1, <4>2, <4>3 DEF ServiceApplies, SyncInv, AppliedStands, TypeOK
    <3> QED
      BY <3>1, <3>2
  <2>5. UndisturbedOpAgrees'
    <3>1. ASSUME NEW j \in Keys, Undisturbed(j)'
          PROVE  j # op[a].key /\ Undisturbed(j)
      BY <1>2, <2>2, <3>1 DEF ServiceApplies, Undisturbed
    <3> QED
      BY <1>2, <3>1 DEF ServiceApplies, SyncInv, UndisturbedOpAgrees, TypeOK
  <2> QED
    BY <2>3, <2>4, <2>5 DEF SyncInv
<1>3. ASSUME NEW a \in Admins, CallRetried(a) \/ CallLost(a)
      PROVE  SyncInv'
  <2>1. \A b \in Admins : /\ op'[b].key = op[b].key
                          /\ op'[b].kind = op[b].kind
                          /\ op'[b].alone = op[b].alone
                          /\ Busy(b)' <=> Busy(b)
                          /\ op'[b].pc = "applied" => op[b].pc = "applied"
    BY <1>3 DEF CallRetried, CallLost, Busy, TypeOK, OpType
  <2> QED
    BY <1>3, <2>1 DEF CallRetried, CallLost, SyncInv, AloneOnKey, AppliedStands,
                      UndisturbedOpAgrees, Undisturbed
<1>4. ASSUME NEW a \in Admins, AbandonedCallEnds(a)
      PROVE  SyncInv'
  <2>1. Busy(a) /\ op[a].key \in Keys /\ EndOp(a, "failed")
    BY <1>4, BusyHasKey DEF AbandonedCallEnds, Busy
  <2>2. /\ AloneOnKey'
        /\ \A b \in Admins : b # a => op'[b] = op[b]
        /\ op'[a] = IdleOp
        /\ \A j \in Keys : Undisturbed(j)' => j # op[a].key /\ Undisturbed(j)
    BY <2>1, EndOpSync DEF SyncInv
  <2>3. \A j \in Keys : j # op[a].key => service'[j] = service[j] /\ ttl'[j] = ttl[j]
    BY <1>4 DEF AbandonedCallEnds, TypeOK
  <2>4. AppliedStands'
    <3> SUFFICES ASSUME NEW b \in Admins, op'[b].pc = "applied", op'[b].alone
                 PROVE  service'[op'[b].key] <=> op'[b].kind = "block"
      BY DEF AppliedStands
    <3>1. b # a /\ op'[b] = op[b] /\ Busy(b)
      BY <2>2 DEF IdleOp, Busy
    <3>2. op[b].key \in Keys /\ op[a].key # op[b].key
      BY <3>1, BusyHasKey DEF SyncInv, AloneOnKey
    <3> QED
      BY <2>3, <3>1, <3>2 DEF SyncInv, AppliedStands
  <2>5. UndisturbedOpAgrees'
    BY <2>2, <2>3 DEF SyncInv, UndisturbedOpAgrees
  <2> QED
    BY <2>2, <2>4, <2>5 DEF SyncInv
<1>5. ASSUME NEW a \in Admins, ReplyLost(a) \/ SyncRedis(a) \/ SyncFails(a)
      PROVE  SyncInv'
  <2>1. Busy(a) /\ op[a].key \in Keys /\ op[a].kind \in Kinds
    BY <1>5, BusyHasKey DEF ReplyLost, SyncRedis, SyncFails, Busy, TypeOK, OpType
  <2>2. /\ service' = service
        /\ \A j \in Keys : j # op[a].key => ttl'[j] = ttl[j]
    BY <1>5, <2>1 DEF ReplyLost, SyncRedis, SyncFails, Mirror, TypeOK
  <2>3. /\ AloneOnKey'
        /\ \A b \in Admins : b # a => op'[b] = op[b]
        /\ op'[a] = IdleOp
        /\ \A j \in Keys : Undisturbed(j)' =>
              \/ j # op[a].key /\ Undisturbed(j)
              \/ j = op[a].key /\ SyncRedis(a) /\ op[a].alone
    <3>1. CASE EndOp(a, "failed")
      BY <2>1, <3>1, EndOpSync DEF SyncInv
    <3>2. CASE SyncRedis(a)
      BY <2>1, <3>2, EndOpSync DEF SyncInv, SyncRedis
    <3> QED
      BY <1>5, <3>1, <3>2 DEF ReplyLost, SyncFails
  <2>4. AppliedStands'
    BY <2>2, <2>3 DEF SyncInv, AppliedStands, IdleOp
  <2>5. UndisturbedOpAgrees'
    <3> SUFFICES ASSUME NEW j \in Keys, Undisturbed(j)'
                 PROVE  service'[j] <=> ttl'[j] > 0
      BY DEF UndisturbedOpAgrees
    <3>1. CASE j # op[a].key /\ Undisturbed(j)
      BY <2>2, <3>1 DEF SyncInv, UndisturbedOpAgrees
    <3>2. CASE j = op[a].key /\ SyncRedis(a) /\ op[a].alone
      <4>1. service[j] <=> op[a].kind = "block"
        BY <3>2 DEF SyncRedis, SyncInv, AppliedStands
      <4>2. ttl'[j] = IF op[a].kind = "block" THEN BlockTTL ELSE 0
        BY <3>2 DEF SyncRedis, Mirror, TypeOK
      <4> QED
        BY <2>2, <4>1, <4>2, AccessAssumption
    <3> QED
      BY <2>3, <3>1, <3>2
  <2> QED
    BY <2>3, <2>4, <2>5 DEF SyncInv
<1>6. ASSUME NEW r \in Requests, RequestNext(r)
      PROVE  SyncInv'
  BY <1>6, SyncUntouched
     DEF RequestNext, GuardStep, Arrive, ArriveWithoutToken, CheckRevocation,
         CheckAccount, CheckRole, CheckBlocklist, GuardFails, Depart
<1>7. ASSUME NEW u \in Users, Revoke(u)
      PROVE  SyncInv'
  BY <1>7, SyncUntouched DEF Revoke
<1>8. CASE Tick
  <2>1. ASSUME NEW j \in Keys, Undisturbed(j)'
        PROVE  Undisturbed(j) /\ (ttl'[j] > 0 <=> ttl[j] > 0)
    <3>1. taint'[j] = {} /\ \A a \in Admins : op'[a].key # j
      BY <2>1 DEF Undisturbed
    <3>2. ttl[j] # 1 /\ taint[j] = {}
      BY <1>8, <3>1 DEF Tick
    <3>3. ttl[j] \in 0..BlockTTL /\ ttl'[j] = IF ttl[j] > 0 THEN ttl[j] - 1 ELSE 0
      BY <1>8 DEF Tick, TypeOK
    <3>4. \A a \in Admins : op[a].key # j
      BY <1>8, <3>1 DEF Tick
    <3> QED
      BY <3>2, <3>3, <3>4, AccessAssumption DEF Undisturbed
  <2> QED
    BY <1>8, <2>1 DEF Tick, SyncInv, AloneOnKey, AppliedStands, UndisturbedOpAgrees, Busy
<1>9. CASE UNCHANGED vars
  BY <1>9, SyncUntouched DEF vars
<1> QED
  BY <1>1, <1>2, <1>3, <1>4, <1>5, <1>6, <1>7, <1>8, <1>9 DEF Next, AdminNext

(* An operation on a key that nothing overlapped and none of whose steps   *)
(* failed leaves the user service and Redis in agreement about the key     *)
(* (blockAccount, unblockAccount, blockInstructor, unblockInstructor).     *)
THEOREM UndisturbedCorrect == Spec => []UndisturbedOpAgrees
<1>1. Init => SyncInv
  BY DEF Init, SyncInv, AloneOnKey, AppliedStands, UndisturbedOpAgrees,
         Undisturbed, Busy, IdleOp
<1>2. SyncInv => UndisturbedOpAgrees
  BY DEF SyncInv
<1> QED
  BY <1>1, <1>2, SyncInvStep, TypeCorrect, PTL DEF Spec

------------------------------------------------------------------------------
(* What an answer of Redis tells the guard: a key that is there is one the *)
(* request does not carry as free, a key that is not there is one it does  *)
(* not carry as blocked.                                                   *)
LEMMA AnswersTell ==
    ASSUME TypeOK, GuardInv, NEW r \in Requests, NEW s
    PROVE  /\ Blocked(req[r].user, s) => s \in Scopes /\ s \notin req[r].free
           /\ s \in Scopes /\ ~Blocked(req[r].user, s) => s \notin req[r].under
<1>1. ASSUME Blocked(req[r].user, s)
      PROVE  s \in Scopes /\ s \notin req[r].free
  <2>1. <<req[r].user, s>> \in Keys /\ ttl[<<req[r].user, s>>] > 0
    BY <1>1 DEF Blocked
  <2> QED
    BY <2>1 DEF Keys, GuardInv, StoresAgree
<1>2. ASSUME s \in Scopes, s \in req[r].under
      PROVE  Blocked(req[r].user, s)
  BY <1>2 DEF GuardInv, StoresAgree, Blocked, Keys
<1> QED
  BY <1>1, <1>2

(* A request that gets no further and carries no more keeps its progress.  *)
LEMMA ProgressKept ==
    ASSUME NEW q, NEW p, Progress(q), p.pc = q.pc, p.route = q.route,
           p.todo = q.todo, p.active = q.active,
           p.under \subseteq q.under, p.free \subseteq q.free
    PROVE  Progress(p)
  BY DEF Progress, Passed, RolesSoFar, Refused

(* A step of a guard that reads and goes on.                               *)
LEMMA GuardGoesOn ==
    ASSUME TypeOK, GuardInv, UNCHANGED <<stores, op>>, NEW r \in Requests, NEW p,
           req' = [req EXCEPT ![r] = p], p.user = req[r].user,
           p.under = req[r].under, p.free = req[r].free, Progress(p)
    PROVE  GuardInv'
<1>1. req'[r] = p /\ \A q \in Requests : q # r => req'[q] = req[q]
  BY DEF TypeOK
<1>2. ASSUME NEW q \in Requests
      PROVE  StoresAgree(q)'
  <2>1. /\ req'[q].user = req[q].user
        /\ req'[q].under = req[q].under
        /\ req'[q].free = req[q].free
    BY <1>1
  <2> QED
    BY <2>1 DEF GuardInv, StoresAgree, stores
<1>3. \A q \in Requests : Progress(req'[q])
  BY <1>1 DEF GuardInv
<1> QED
  BY <1>2, <1>3 DEF GuardInv

(* The same, for a step that only sets pc.                                 *)
LEMMA GuardAnswersWith ==
    ASSUME TypeOK, GuardInv, UNCHANGED <<stores, op>>, NEW r \in Requests, NEW pc,
           Answer(r, pc), Progress([req[r] EXCEPT !.pc = pc])
    PROVE  GuardInv'
<1> DEFINE p == [req[r] EXCEPT !.pc = pc]
<1>1. req' = [req EXCEPT ![r] = p]
  BY DEF Answer
<1>2. p.user = req[r].user /\ p.under = req[r].under /\ p.free = req[r].free
  BY DEF TypeOK, ReqType
<1> QED
  BY <1>1, <1>2, GuardGoesOn

(* A step of an administrator's request that leaves every guarded request  *)
(* alone: the key it is about is set by a block and deleted by an unblock. *)
LEMMA OpKeepsGuard ==
    ASSUME TypeOK, GuardInv, NEW a \in Admins, op[a].key \in Keys,
           UNCHANGED <<req, revoked>>,
           \A b \in Admins : op'[b] = IdleOp \/ (op'[b].key = op[b].key
                                                  /\ op'[b].kind = op[b].kind),
           Mirror(op[a].key, op[a].kind) \/ UNCHANGED ttl
    PROVE  GuardInv'
<1>1. ASSUME NEW j \in Keys, NEW b \in Admins, op'[b].key = j
      PROVE  op[b].key = j /\ op'[b].kind = op[b].kind
  BY <1>1, AccessAssumption DEF IdleOp
<1>2. ASSUME NEW j \in Keys, ttl'[j] # ttl[j]
      PROVE  /\ op[a].key = j
             /\ op[a].kind = "block" => ttl'[j] > 0
             /\ op[a].kind # "block" => ttl'[j] = 0
  BY <1>2, AccessAssumption DEF Mirror, TypeOK
<1>3. ASSUME NEW r \in Requests
      PROVE  StoresAgree(r)'
  <2>1. ASSUME NEW s \in Scopes \cap req[r].under
        PROVE  /\ req[r].user \in Users
               /\ ttl'[<<req[r].user, s>>] > 0
               /\ \A b \in Admins : op'[b].key = <<req[r].user, s>>
                                       => op'[b].kind = "block"
    <3>1. /\ req[r].user \in Users
          /\ ttl[<<req[r].user, s>>] > 0
          /\ \A b \in Admins : op[b].key = <<req[r].user, s>> => op[b].kind = "block"
      BY DEF GuardInv, StoresAgree
    <3>2. <<req[r].user, s>> \in Keys
      BY <3>1 DEF Keys
    <3> QED
      BY <1>1, <1>2, <3>1, <3>2
  <2>2. ASSUME NEW s \in req[r].free
        PROVE  /\ req[r].user \in Users
               /\ ttl'[<<req[r].user, s>>] = 0
               /\ \A b \in Admins : op'[b].key = <<req[r].user, s>>
                                       => op'[b].kind = "unblock"
    <3>1. /\ req[r].user \in Users
          /\ ttl[<<req[r].user, s>>] = 0
          /\ \A b \in Admins : op[b].key = <<req[r].user, s>> => op[b].kind = "unblock"
      BY DEF GuardInv, StoresAgree
    <3>2. <<req[r].user, s>> \in Keys
      BY <3>1 DEF Keys, TypeOK, ReqType
    <3> QED
      BY <1>1, <1>2, <3>1, <3>2
  <2>3. "token" \in req[r].under => req[r].user \in revoked
    BY DEF GuardInv, StoresAgree
  <2> QED
    BY <2>1, <2>2, <2>3 DEF StoresAgree
<1> QED
  BY <1>3 DEF GuardInv

LEMMA GuardInvStep == TypeOK /\ SyncInv /\ GuardInv /\ [Next]_vars => GuardInv'
<1> SUFFICES ASSUME TypeOK, SyncInv, GuardInv, [Next]_vars
             PROVE  GuardInv'
  OBVIOUS
<1>1. ASSUME NEW a \in Admins, NEW k \in Keys, NEW kind \in Kinds,
             StartOp(a, k, kind)
      PROVE  GuardInv'
  <2>1. \A b \in Admins : \/ b = a /\ op'[b].key = k /\ op'[b].kind = kind
                          \/ op'[b].key = op[b].key /\ op'[b].kind = op[b].kind
    BY <1>1 DEF StartOp, TypeOK, OpType
  <2>2. ASSUME NEW r \in Requests
        PROVE  /\ req'[r].user = req[r].user
               /\ req'[r].pc = req[r].pc /\ req'[r].route = req[r].route
               /\ req'[r].todo = req[r].todo /\ req'[r].active = req[r].active
               /\ req'[r].under \subseteq req[r].under
               /\ req'[r].free \subseteq req[r].free
               /\ req[r].user = k[1] /\ kind = "unblock" => k[2] \notin req'[r].under
               /\ req[r].user = k[1] /\ kind = "block" => k[2] \notin req'[r].free
    BY <1>1 DEF StartOp, TypeOK, ReqType, Kinds
  <2>3. ASSUME NEW r \in Requests
        PROVE  Progress(req'[r])
    BY <2>2, ProgressKept DEF GuardInv
  <2>4. ASSUME NEW r \in Requests
        PROVE  StoresAgree(r)'
    <3>1. StoresAgree(r) /\ UNCHANGED <<ttl, revoked>>
      BY <1>1 DEF GuardInv, StartOp, stores
    <3>2. \A s \in req'[r].under : <<req[r].user, s>> = k => kind = "block"
      BY <2>2 DEF Kinds
    <3>3. \A s \in req'[r].free : <<req[r].user, s>> = k => kind = "unblock"
      BY <2>2 DEF Kinds
    <3> QED
      BY <2>1, <2>2, <3>1, <3>2, <3>3 DEF StoresAgree
  <2> QED
    BY <2>3, <2>4 DEF GuardInv
<1>2. ASSUME NEW a \in Admins,
             \/ ServiceApplies(a) \/ CallRetried(a) \/ CallLost(a) \/ AbandonedCallEnds(a)
             \/ ReplyLost(a) \/ SyncRedis(a) \/ SyncFails(a)
      PROVE  GuardInv'
  <2>1. op[a].key \in Keys
    BY <1>2, BusyHasKey DEF Busy, ServiceApplies, CallRetried, CallLost,
                            AbandonedCallEnds, ReplyLost, SyncRedis, SyncFails
  <2>2. \A b \in Admins : op'[b] = IdleOp \/ (op'[b].key = op[b].key
                                               /\ op'[b].kind = op[b].kind)
    BY <1>2 DEF ServiceApplies, CallRetried, CallLost, AbandonedCallEnds, ReplyLost,
                SyncRedis, SyncFails, EndOp, TypeOK, OpType
  <2>3. /\ UNCHANGED <<req, revoked>>
        /\ Mirror(op[a].key, op[a].kind) \/ UNCHANGED ttl
    BY <1>2 DEF ServiceApplies, CallRetried, CallLost, AbandonedCallEnds, ReplyLost,
                SyncRedis, SyncFails, stores
  <2> QED
    BY <2>1, <2>2, <2>3, OpKeepsGuard
<1>3. ASSUME NEW r \in Requests, NEW u \in Users, NEW route \in Routes,
             NEW roles \in TokenRoles, NEW permitted \in BOOLEAN, NEW jti \in BOOLEAN,
             Arrive(r, u, route, roles, permitted, jti)
      PROVE  GuardInv'
  <2>1. \A q \in Requests : q # r => req'[q] = req[q]
    BY <1>3 DEF Arrive, TypeOK
  <2>2. /\ req'[r].pc = (IF jti THEN "revocation" ELSE "account")
        /\ req'[r].user = u
        /\ req'[r].active
        /\ req'[r].under = {s \in Scopes : KnownBlocked(u, s)}
                           \cup (IF jti /\ u \in revoked THEN {"token"} ELSE {})
        /\ req'[r].free = {s \in Scopes : KnownOpen(u, s)}
    BY <1>3 DEF Arrive, TypeOK
  <2>3. \A s \in Scopes : <<u, s>> \in Keys
    BY DEF Keys
  <2>4. ASSUME NEW s \in Scopes, KnownBlocked(u, s)
        PROVE  ttl[<<u, s>>] > 0 /\ \A a \in Admins : op[a].key # <<u, s>>
    BY <2>3, <2>4 DEF KnownBlocked, Undisturbed, SyncInv, UndisturbedOpAgrees
  <2>5. ASSUME NEW s \in Scopes, KnownOpen(u, s)
        PROVE  ttl[<<u, s>>] = 0 /\ \A a \in Admins : op[a].key # <<u, s>>
    <3>1. ttl[<<u, s>>] \in 0..BlockTTL /\ ~(ttl[<<u, s>>] > 0)
      BY <2>3, <2>5 DEF KnownOpen, Undisturbed, SyncInv, UndisturbedOpAgrees, TypeOK
    <3> QED
      BY <2>5, <3>1, AccessAssumption DEF KnownOpen, Undisturbed
  <2>6. StoresAgree(r)'
    <3>1. UNCHANGED <<ttl, revoked, op>>
      BY <1>3 DEF Arrive, stores
    <3>2. "token" \notin Scopes
      BY DEF Scopes
    <3> QED
      BY <2>2, <2>4, <2>5, <3>1, <3>2 DEF StoresAgree
  <2>7. Progress(req'[r])
    BY <2>2 DEF Progress, Passed, RolesSoFar, Refused, Scopes
  <2>8. ASSUME NEW q \in Requests, q # r
        PROVE  StoresAgree(q)' /\ Progress(req'[q])
    BY <1>3, <2>1, <2>8 DEF GuardInv, StoresAgree, Arrive, stores
  <2> QED
    BY <2>6, <2>7, <2>8 DEF GuardInv
<1>4. ASSUME NEW r \in Requests, GuardStep(r) \/ ArriveWithoutToken(r)
      PROVE  GuardInv'
  <2> DEFINE q == req[r]
  <2>1. q \in ReqType /\ Progress(q)
    BY DEF TypeOK, GuardInv
  <2>2. UNCHANGED <<stores, op>>
    BY <1>4 DEF GuardStep, ArriveWithoutToken, CheckRevocation, CheckAccount,
                CheckRole, CheckBlocklist, GuardFails
  <2>3. CASE ArriveWithoutToken(r)
    <3>1. Progress([q EXCEPT !.pc = "unauthenticated"])
      BY <2>1 DEF ReqType, Progress, Passed, RolesSoFar, Refused
    <3> QED
      BY <2>2, <2>3, <3>1, GuardAnswersWith DEF ArriveWithoutToken
  <2>4. CASE CheckRevocation(r)
    <3>1. q.pc = "revocation" /\ (q.user \notin revoked => "token" \notin q.under)
      BY <2>4 DEF CheckRevocation, GuardInv, StoresAgree
    <3>2. /\ Progress([q EXCEPT !.pc = "unauthenticated"])
          /\ q.user \notin revoked => Progress([q EXCEPT !.pc = "account"])
      BY <2>1, <3>1 DEF ReqType, Progress, Passed, RolesSoFar, Refused
    <3> QED
      BY <2>2, <2>4, <3>2, GuardAnswersWith DEF CheckRevocation
  <2>5. CASE CheckAccount(r)
    <3>1. /\ q.pc = "account"
          /\ Blocked(q.user, "account") => "account" \notin q.free
          /\ ~Blocked(q.user, "account") => "account" \notin q.under
      BY <2>5, AnswersTell DEF CheckAccount, Scopes
    <3>2. CASE Blocked(q.user, "account") /\ Answer(r, "blocked")
      <4>1. Progress([q EXCEPT !.pc = "blocked"])
        BY <2>1, <3>1, <3>2 DEF ReqType, Progress, Passed, RolesSoFar, Refused
      <4> QED
        BY <2>2, <3>2, <4>1, GuardAnswersWith
    <3>3. CASE /\ ~Blocked(q.user, "account")
               /\ \/ q.route.roles = {} /\ Answer(r, Granted(q))
                  \/ Answer(r, "forbidden")
      <4>1. /\ Progress([q EXCEPT !.pc = "forbidden"])
            /\ q.route.roles = {} => /\ Progress([q EXCEPT !.pc = "blocklist"])
                                     /\ Progress([q EXCEPT !.pc = "handler"])
        BY <2>1, <3>1, <3>3 DEF ReqType, Progress, Passed, RolesSoFar, Refused
      <4>2. Granted(q) \in {"forbidden", "blocklist", "handler"}
        BY DEF Granted
      <4> QED
        BY <2>2, <3>3, <4>1, <4>2, GuardAnswersWith
    <3>4. CASE /\ ~Blocked(q.user, "account")
               /\ req' = [req EXCEPT ![r].pc = "roles", ![r].todo = q.route.roles]
      <4> DEFINE p == [q EXCEPT !.pc = "roles", !.todo = q.route.roles]
      <4>1. /\ p.user = q.user /\ p.under = q.under /\ p.free = q.free
            /\ Progress(p)
        BY <2>1, <3>1, <3>4 DEF ReqType, Progress, Passed, RolesSoFar, Refused
      <4>2. req' = [req EXCEPT ![r] = p]
        BY <3>4
      <4> HIDE DEF p
      <4> QED
        BY <2>2, <4>1, <4>2, GuardGoesOn
    <3> QED
      BY <2>5, <3>2, <3>3, <3>4 DEF CheckAccount
  <2>6. ASSUME NEW role \in Roles, CheckRole(r, role)
        PROVE  GuardInv'
    <3> DEFINE todo   == q.todo \ {role}
               active == q.active /\ ~Blocked(q.user, role)
               pc     == IF todo # {} THEN "roles"
                         ELSE IF active THEN Granted(q) ELSE "role_blocked"
               p      == [q EXCEPT !.todo = todo, !.active = active, !.pc = pc]
    <3>1. /\ q.pc = "roles" /\ role \in q.todo
          /\ Blocked(q.user, role) => role \in Scopes /\ role \notin q.free
          /\ role \in Scopes /\ ~Blocked(q.user, role) => role \notin q.under
      BY <2>6, AnswersTell DEF CheckRole
    <3>2. active => role \notin q.under
      BY <2>1, <3>1 DEF ReqType, Roles
    <3>3. active => \A s \in q.route.roles \ todo : s \notin q.under
      BY <2>1, <3>1, <3>2 DEF Progress, RolesSoFar
    <3>4. ~active => \E s \in q.route.roles \cap Scopes : s \notin q.free
      BY <2>1, <3>1 DEF Progress, RolesSoFar
    <3>5. "token" \notin q.under /\ "account" \notin q.under /\ todo \subseteq q.route.roles
      BY <2>1, <3>1 DEF Progress, Passed, RolesSoFar
    <3>6. Granted(q) \in {"forbidden", "blocklist", "handler"}
      BY DEF Granted
    <3>7. /\ p.user = q.user /\ p.under = q.under /\ p.free = q.free
          /\ p.route = q.route /\ p.todo = todo /\ p.active = active /\ p.pc = pc
      BY <2>1 DEF ReqType
    <3>8. req' = [req EXCEPT ![r] = p]
      BY <2>6 DEF CheckRole, RoleActive, RoleVerdict
    <3>9. Progress(p)
      <4>1. CASE todo # {}
        <5>1. pc = "roles"
          BY <4>1
        <5> HIDE DEF todo, active, pc, p
        <5> QED
          BY <3>3, <3>4, <3>5, <3>7, <5>1 DEF Progress, Passed, RolesSoFar, Refused
      <4>2. CASE todo = {} /\ active
        <5>1. pc \in {"forbidden", "blocklist", "handler"}
          BY <3>6, <4>2
        <5>2. q.route.roles \cap q.under = {}
          BY <3>3, <4>2
        <5> HIDE DEF todo, active, pc, p
        <5> QED
          BY <3>5, <3>7, <5>1, <5>2 DEF Progress, Passed, RolesSoFar, Refused
      <4>3. CASE todo = {} /\ ~active
        <5>1. pc = "role_blocked"
          BY <4>3
        <5> HIDE DEF todo, active, pc, p
        <5> QED
          BY <3>4, <3>7, <4>3, <5>1 DEF Progress, Passed, RolesSoFar, Refused
      <4> QED
        BY <4>1, <4>2, <4>3
    <3> HIDE DEF p
    <3> QED
      BY <2>2, <3>7, <3>8, <3>9, GuardGoesOn
  <2>7. CASE CheckBlocklist(r)
    <3>1. q.pc = "blocklist" /\ (Blocked(q.user, "account") => "account" \notin q.free)
      BY <2>7, AnswersTell DEF CheckBlocklist
    <3>2. /\ Blocked(q.user, "account") => Progress([q EXCEPT !.pc = "prohibited"])
          /\ Progress([q EXCEPT !.pc = "handler"])
      BY <2>1, <3>1 DEF ReqType, Progress, Passed, RolesSoFar, Refused
    <3> QED
      BY <2>2, <2>7, <3>2, GuardAnswersWith DEF CheckBlocklist
  <2>8. CASE GuardFails(r)
    <3>1. /\ Progress([q EXCEPT !.pc = "failed"])
          /\ Progress([q EXCEPT !.pc = "unauthenticated"])
      BY <2>1 DEF ReqType, Progress, Passed, RolesSoFar, Refused
    <3> QED
      BY <2>2, <2>8, <3>1, GuardAnswersWith DEF GuardFails
  <2> QED
    BY <1>4, <2>3, <2>4, <2>5, <2>6, <2>7, <2>8 DEF GuardStep
<1>5. ASSUME NEW r \in Requests, Depart(r)
      PROVE  GuardInv'
  <2>1. /\ req'[r] = IdleReq
        /\ \A q \in Requests : q # r => req'[q] = req[q]
        /\ UNCHANGED <<ttl, revoked, op>>
    BY <1>5 DEF Depart, TypeOK, stores
  <2>2. StoresAgree(r)' /\ Progress(req'[r])
    BY <2>1 DEF IdleReq, StoresAgree, Progress, Passed, RolesSoFar, Refused
  <2>3. ASSUME NEW q \in Requests, q # r
        PROVE  StoresAgree(q)' /\ Progress(req'[q])
    BY <2>1, <2>3 DEF GuardInv, StoresAgree
  <2> QED
    BY <2>2, <2>3 DEF GuardInv
<1>6. ASSUME NEW u \in Users, Revoke(u)
      PROVE  GuardInv'
  BY <1>6 DEF Revoke, GuardInv, StoresAgree
<1>7. CASE Tick
  <2>1. ASSUME NEW r \in Requests
        PROVE  /\ req'[r].user = req[r].user
               /\ req'[r].pc = req[r].pc /\ req'[r].route = req[r].route
               /\ req'[r].todo = req[r].todo /\ req'[r].active = req[r].active
               /\ req'[r].under \subseteq req[r].under
               /\ req'[r].free = req[r].free
               /\ \A s \in req'[r].under :
                     <<req[r].user, s>> \notin {k \in Keys : ttl[k] = 1}
    BY <1>7 DEF Tick, TypeOK, ReqType
  <2>2. ASSUME NEW r \in Requests
        PROVE  Progress(req'[r])
    BY <2>1, ProgressKept DEF GuardInv
  <2>3. ASSUME NEW j \in Keys
        PROVE  /\ ttl[j] > 0 /\ ttl[j] # 1 => ttl'[j] > 0
               /\ ttl[j] = 0 => ttl'[j] = 0
    <3>1. ttl[j] \in 0..BlockTTL /\ ttl'[j] = IF ttl[j] > 0 THEN ttl[j] - 1 ELSE 0
      BY <1>7 DEF Tick, TypeOK
    <3> QED
      BY <3>1, AccessAssumption
  <2>4. ASSUME NEW r \in Requests
        PROVE  StoresAgree(r)'
    <3>1. StoresAgree(r) /\ UNCHANGED <<op, revoked>>
      BY <1>7 DEF GuardInv, Tick
    <3>2. \A s \in Scopes : req[r].user \in Users => <<req[r].user, s>> \in Keys
      BY DEF Keys
    <3>3. req[r].free \subseteq Scopes
      BY DEF TypeOK, ReqType
    <3> QED
      BY <2>1, <2>3, <3>1, <3>2, <3>3 DEF StoresAgree
  <2> QED
    BY <2>2, <2>4 DEF GuardInv
<1>8. CASE UNCHANGED vars
  BY <1>8 DEF vars, stores, GuardInv, StoresAgree
<1> QED
  BY <1>1, <1>2, <1>3, <1>4, <1>5, <1>6, <1>7, <1>8 DEF Next, AdminNext, RequestNext

LEMMA GuardInvariant == Spec => []GuardInv
<1>1. Init => SyncInv /\ GuardInv
  BY DEF Init, SyncInv, AloneOnKey, AppliedStands, UndisturbedOpAgrees, Undisturbed,
         Busy, IdleOp, GuardInv, StoresAgree, Progress, Passed, RolesSoFar, Refused,
         IdleReq
<1> QED
  BY <1>1, TypeCorrect, SyncInvStep, GuardInvStep, PTL DEF Spec

(* A request that arrived when its account, one of its route's roles or    *)
(* its token was known to be blocked does not reach its handler while the  *)
(* block stands (authGuard, blocklistMiddleware).                          *)
THEOREM NoEntryCorrect == Spec => []NoEntryUnderBlock
<1>1. GuardInv => NoEntryUnderBlock
  BY DEF GuardInv, Progress, Passed, NoEntryUnderBlock
<1> QED
  BY <1>1, GuardInvariant, PTL

(* No request is refused for a block of a key that was known to be open    *)
(* when the request arrived and that nobody has blocked since.             *)
THEOREM NoRefusalCorrect == Spec => []NoRefusalWithoutBlock
<1>1. GuardInv => NoRefusalWithoutBlock
  BY DEF GuardInv, Progress, Refused, NoRefusalWithoutBlock
<1> QED
  BY <1>1, GuardInvariant, PTL

------------------------------------------------------------------------------
(* What a request that has come as far as q.pc has shown: whoever waits    *)
(* for the roles has one of the route's and a command under way; whoever   *)
(* waits for the second look at the account has passed everything else.    *)
Entitled(q) ==
    /\ q.pc = "roles" => q.route.roles \cap q.roles # {} /\ q.todo # {}
    /\ q.pc = "blocklist" => q.permitted /\ RolesMatch(q) /\ q.route.blocklist
    /\ q.pc \in {"handler", "prohibited"} => q.permitted /\ RolesMatch(q)
    /\ q.pc = "forbidden" => ~(q.permitted /\ RolesMatch(q))
    /\ q.pc = "role_blocked" => q.route.roles \cap q.roles # {}
    /\ q.pc = "prohibited" => q.route.blocklist

VerdictInv == \A r \in Requests : Entitled(req[r])

(* What passes the last of Redis's answers fits, when the roles match.     *)
LEMMA GrantedFits ==
    ASSUME NEW q \in ReqType, RolesMatch(q)
    PROVE  /\ Entitled([q EXCEPT !.pc = Granted(q)])
           /\ Granted(q) \in Answers \cup {"blocklist"}
  BY DEF Entitled, RolesMatch, Granted, ReqType, Answers

(* A request whose record only loses what it carries is as entitled as     *)
(* before.                                                                 *)
LEMMA EntitledKept ==
    ASSUME NEW q \in ReqType, NEW p \in ReqType, Entitled(q),
           p.pc = q.pc, p.todo = q.todo, p.route = q.route,
           p.roles = q.roles, p.permitted = q.permitted
    PROVE  Entitled(p)
  BY DEF Entitled, RolesMatch

(* A step of the guard brings the request further on, and entitles it to   *)
(* where it has come.                                                      *)
LEMMA GuardStepFits ==
    ASSUME TypeOK, NEW r \in Requests, Entitled(req[r]), GuardStep(r)
    PROVE  /\ Entitled(req'[r])
           /\ FurtherOn(req[r], req'[r])
           /\ \A x \in Requests : x # r => req'[x] = req[x]
<1> DEFINE q == req[r]
<1>1. q \in ReqType
  BY DEF TypeOK
<1>2. \A pc \in ReqPcs : Answer(r, pc) =>
         /\ req'[r] = [q EXCEPT !.pc = pc]
         /\ \A x \in Requests : x # r => req'[x] = req[x]
  BY DEF Answer, TypeOK
<1>3. ASSUME NEW pc \in Answers \ {"handler", "prohibited", "forbidden", "role_blocked"},
             Answer(r, pc)
      PROVE  /\ Entitled(req'[r])
             /\ FurtherOn(q, req'[r])
             /\ \A x \in Requests : x # r => req'[x] = req[x]
  <2>1. req'[r] = [q EXCEPT !.pc = pc] /\ [q EXCEPT !.pc = pc].pc = pc
    BY <1>1, <1>2, <1>3, PcsAreTyped DEF ReqType
  <2> QED
    BY <1>2, <1>3, <2>1, PcsAreTyped DEF Entitled, FurtherOn, Answers
<1>4. CASE CheckRevocation(r)
  <2>1. CASE Answer(r, "unauthenticated")
    BY <1>3, <2>1 DEF Answers
  <2>2. CASE Answer(r, "account")
    <3>1. req'[r] = [q EXCEPT !.pc = "account"] /\ req'[r].pc = "account"
      BY <1>1, <1>2, <2>2, PcsAreTyped DEF ReqType, Waiting
    <3> QED
      BY <1>2, <1>4, <2>2, <3>1, PcsAreTyped
         DEF CheckRevocation, Entitled, FurtherOn, Waiting
  <2> QED
    BY <1>4, <2>1, <2>2 DEF CheckRevocation
<1>5. CASE CheckAccount(r)
  <2>1. q.pc = "account"
    BY <1>5 DEF CheckAccount
  <2>2. CASE Answer(r, "blocked")
    BY <1>3, <2>2 DEF Answers
  <2>3. CASE q.route.roles = {} /\ Answer(r, Granted(q))
    <3>1. /\ Entitled([q EXCEPT !.pc = Granted(q)])
          /\ Granted(q) \in Answers \cup {"blocklist"}
      BY <1>1, <2>3, GrantedFits DEF RolesMatch
    <3>2. /\ req'[r] = [q EXCEPT !.pc = Granted(q)]
          /\ \A x \in Requests : x # r => req'[x] = req[x]
      BY <1>2, <2>3, <3>1, PcsAreTyped DEF Waiting
    <3>3. req'[r].pc = Granted(q)
      BY <1>1, <3>2 DEF ReqType
    <3> QED
      BY <2>1, <3>1, <3>2, <3>3 DEF FurtherOn
  <2>4. CASE /\ q.route.roles # {} /\ q.route.roles \cap q.roles = {}
             /\ Answer(r, "forbidden")
    <3>1. /\ req'[r] = [q EXCEPT !.pc = "forbidden"]
          /\ \A x \in Requests : x # r => req'[x] = req[x]
      BY <1>2, <2>4, PcsAreTyped DEF Answers
    <3>2. /\ req'[r].pc = "forbidden" /\ req'[r].route = q.route
          /\ req'[r].roles = q.roles
      BY <1>1, <3>1 DEF ReqType
    <3> QED
      BY <2>4, <3>1, <3>2 DEF Entitled, RolesMatch, FurtherOn, Answers
  <2>5. CASE /\ q.route.roles \cap q.roles # {}
             /\ req' = [req EXCEPT ![r].pc = "roles", ![r].todo = q.route.roles]
    <3>1. /\ req'[r].pc = "roles" /\ req'[r].route = q.route
          /\ req'[r].roles = q.roles /\ req'[r].todo = q.route.roles
          /\ \A x \in Requests : x # r => req'[x] = req[x]
      BY <1>1, <2>5 DEF ReqType, TypeOK
    <3> QED
      BY <2>1, <2>5, <3>1 DEF Entitled, FurtherOn
  <2> QED
    BY <1>5, <2>2, <2>3, <2>4, <2>5 DEF CheckAccount
<1>6. ASSUME NEW role \in Roles, CheckRole(r, role)
      PROVE  /\ Entitled(req'[r])
             /\ FurtherOn(q, req'[r])
             /\ \A x \in Requests : x # r => req'[x] = req[x]
  <2> DEFINE todo   == q.todo \ {role}
             active == RoleActive(q, role)
             p      == [q EXCEPT !.todo = todo, !.active = active]
             pc     == IF todo # {} THEN "roles" ELSE RoleVerdict(q, active)
  <2>1. q.pc = "roles" /\ role \in q.todo /\ q.route.roles \cap q.roles # {}
    BY <1>6 DEF CheckRole, Entitled
  <2>2. /\ req'[r] = [p EXCEPT !.pc = pc]
        /\ \A x \in Requests : x # r => req'[x] = req[x]
    BY <1>1, <1>6 DEF CheckRole, TypeOK, ReqType
  <2>3. p \in ReqType /\ RolesMatch(p) /\ Granted(p) = Granted(q)
    BY <1>1, <2>1 DEF ReqType, RolesMatch, RoleActive, Granted
  <2>4. /\ req'[r].pc = pc /\ req'[r].route = q.route
        /\ req'[r].roles = q.roles /\ req'[r].todo = todo
    BY <1>1, <2>2 DEF ReqType
  <2>5. CASE todo # {}
    <3>1. req'[r].pc = "roles" /\ todo \subseteq q.todo /\ todo # q.todo
      BY <2>1, <2>4, <2>5
    <3> HIDE DEF todo, active, p, pc
    <3> QED
      BY <2>1, <2>2, <2>4, <2>5, <3>1 DEF Entitled, FurtherOn
  <2>6. CASE todo = {} /\ active
    <3>1. pc = Granted(p)
      BY <2>3, <2>6 DEF RoleVerdict
    <3> HIDE DEF todo, active, p, pc
    <3>2. Entitled(req'[r]) /\ req'[r].pc \in Answers \cup {"blocklist"}
      BY <2>2, <2>3, <2>4, <3>1, GrantedFits
    <3> QED
      BY <2>1, <2>2, <3>2 DEF FurtherOn
  <2>7. CASE todo = {} /\ ~active
    <3>1. req'[r].pc = "role_blocked"
      BY <2>4, <2>7 DEF RoleVerdict
    <3> HIDE DEF todo, active, p, pc
    <3> QED
      BY <2>1, <2>2, <2>4, <3>1 DEF Entitled, FurtherOn, Answers
  <2> QED
    BY <2>5, <2>6, <2>7
<1>7. CASE CheckBlocklist(r)
  <2>1. PICK pc \in {"prohibited", "handler"} : Answer(r, pc)
    BY <1>7 DEF CheckBlocklist
  <2>2. /\ req'[r] = [q EXCEPT !.pc = pc]
        /\ \A x \in Requests : x # r => req'[x] = req[x]
    BY <1>2, <2>1, PcsAreTyped DEF Answers
  <2>3. /\ req'[r].pc = pc /\ req'[r].route = q.route
        /\ req'[r].roles = q.roles /\ req'[r].permitted = q.permitted
    BY <1>1, <2>2 DEF ReqType
  <2> QED
    BY <1>7, <2>1, <2>2, <2>3 DEF CheckBlocklist, Entitled, RolesMatch, FurtherOn, Answers
<1>8. CASE GuardFails(r)
  BY <1>3, <1>8 DEF GuardFails, Answers
<1> QED
  BY <1>4, <1>5, <1>6, <1>7, <1>8 DEF GuardStep

(* What the operations and the clock do to a request is to take scopes     *)
(* from it.                                                                *)
LEMMA OthersLeaveRequests ==
    ASSUME TypeOK, NEW r \in Requests,
           \/ \E a \in Admins : AdminNext(a)
           \/ \E u \in Users : Revoke(u)
           \/ Tick
           \/ UNCHANGED vars
    PROVE  /\ req'[r].pc = req[r].pc /\ req'[r].todo = req[r].todo
           /\ req'[r].route = req[r].route /\ req'[r].roles = req[r].roles
           /\ req'[r].permitted = req[r].permitted
<1>1. req[r] \in ReqType
  BY DEF TypeOK
<1>2. ASSUME NEW a \in Admins, NEW k \in Keys, NEW kind \in Kinds, StartOp(a, k, kind)
      PROVE  \/ req'[r] = req[r]
             \/ req'[r] = [req[r] EXCEPT !.under = @ \ {k[2]}]
             \/ req'[r] = [req[r] EXCEPT !.free = @ \ {k[2]}]
  BY <1>2 DEF StartOp
<1>3. CASE Tick
  <2>1. req'[r] = [req[r] EXCEPT !.under =
                     {s \in @ : <<req[r].user, s>> \notin {k \in Keys : ttl[k] = 1}}]
    BY <1>3 DEF Tick
  <2> QED
    BY <1>1, <2>1 DEF ReqType
<1>4. ASSUME NEW a \in Admins,
             \/ ServiceApplies(a) \/ CallRetried(a) \/ CallLost(a) \/ AbandonedCallEnds(a)
             \/ ReplyLost(a) \/ SyncRedis(a) \/ SyncFails(a)
      PROVE  req' = req
  BY <1>4 DEF ServiceApplies, CallRetried, CallLost, AbandonedCallEnds, ReplyLost,
              SyncRedis, SyncFails
<1>5. ASSUME NEW u \in Users, Revoke(u)
      PROVE  req' = req
  BY <1>5 DEF Revoke
<1>6. CASE UNCHANGED vars
  BY <1>6 DEF vars
<1>7. ASSUME NEW a \in Admins, NEW k \in Keys, NEW kind \in Kinds, StartOp(a, k, kind)
      PROVE  /\ req'[r].pc = req[r].pc /\ req'[r].todo = req[r].todo
             /\ req'[r].route = req[r].route /\ req'[r].roles = req[r].roles
             /\ req'[r].permitted = req[r].permitted
  BY <1>1, <1>2, <1>7 DEF ReqType
<1> QED
  BY <1>3, <1>4, <1>5, <1>6, <1>7 DEF AdminNext

LEMMA VerdictStep == TypeOK /\ VerdictInv /\ [Next]_vars => VerdictInv'
<1> SUFFICES ASSUME TypeOK, VerdictInv, [Next]_vars, NEW x \in Requests
             PROVE  Entitled(req'[x])
  BY DEF VerdictInv
<1>1. Entitled(req[x]) /\ req[x] \in ReqType /\ req'[x] \in ReqType
  BY TypeOKStep DEF VerdictInv, TypeOK
<1>2. CASE \/ \E a \in Admins : AdminNext(a)
           \/ \E u \in Users : Revoke(u)
           \/ Tick
           \/ UNCHANGED vars
  BY <1>1, <1>2, OthersLeaveRequests, EntitledKept
<1>3. ASSUME NEW r \in Requests, RequestNext(r)
      PROVE  Entitled(req'[x])
  <2>1. ASSUME NEW u \in Users, NEW route \in Routes, NEW roles \in TokenRoles,
               NEW permitted \in BOOLEAN, NEW jti \in BOOLEAN,
               Arrive(r, u, route, roles, permitted, jti)
        PROVE  Entitled(req'[x])
    <3>1. x = r => req'[x].pc \in {"revocation", "account"}
      BY <2>1 DEF Arrive, TypeOK
    <3>2. x # r => req'[x] = req[x]
      BY <2>1 DEF Arrive, TypeOK
    <3> QED
      BY <1>1, <3>1, <3>2 DEF Entitled
  <2>2. CASE ArriveWithoutToken(r)
    <3>1. x = r => req'[x].pc = "unauthenticated"
      BY <1>1, <2>2 DEF ArriveWithoutToken, Answer, TypeOK, ReqType
    <3>2. x # r => req'[x] = req[x]
      BY <2>2 DEF ArriveWithoutToken, Answer, TypeOK
    <3> QED
      BY <1>1, <3>1, <3>2 DEF Entitled
  <2>3. CASE GuardStep(r)
    <3>1. Entitled(req[r])
      BY DEF VerdictInv
    <3> QED
      BY <1>1, <2>3, <3>1, GuardStepFits
  <2>4. CASE Depart(r)
    BY <1>1, <2>4 DEF Depart, IdleReq, Entitled, TypeOK
  <2> QED
    BY <1>3, <2>1, <2>2, <2>3, <2>4 DEF RequestNext
<1> QED
  BY <1>2, <1>3 DEF Next

LEMMA VerdictInvariant == Spec => []VerdictInv
<1>1. Init => VerdictInv
  BY DEF Init, VerdictInv, IdleReq, Entitled
<1> QED
  BY <1>1, TypeCorrect, VerdictStep, PTL DEF Spec

(* The guard's answer fits the request it answers, for any routes, tokens  *)
(* and interleaving with the block operations.                             *)
THEOREM VerdictCorrect == Spec => []VerdictFits
<1>1. VerdictInv => VerdictFits
  BY DEF VerdictInv, Entitled, VerdictFits
<1> QED
  BY <1>1, VerdictInvariant, PTL

(* The safety half of GuardAnswers: a guard that waits always has a        *)
(* command under way, and every change of it is a step further on.         *)
THEOREM GuardNeverStuck == Spec => []CommandUnderWay /\ GuardOnward
<1> DEFINE Onward == \A r \in Requests : req[r].pc \in Waiting =>
                        \/ req'[r].pc = req[r].pc /\ req'[r].todo = req[r].todo
                        \/ FurtherOn(req[r], req'[r])
<1>1. VerdictInv => CommandUnderWay
  BY DEF VerdictInv, Entitled, CommandUnderWay
<1>2. TypeOK /\ VerdictInv /\ [Next]_vars => [Onward]_vars
  <2> SUFFICES ASSUME TypeOK, VerdictInv, [Next]_vars,
                      NEW x \in Requests, req[x].pc \in Waiting
               PROVE  \/ req'[x].pc = req[x].pc /\ req'[x].todo = req[x].todo
                      \/ FurtherOn(req[x], req'[x])
    OBVIOUS
  <2>1. CASE \/ \E a \in Admins : AdminNext(a)
             \/ \E u \in Users : Revoke(u)
             \/ Tick
             \/ UNCHANGED vars
    BY <2>1, OthersLeaveRequests
  <2>2. ASSUME NEW r \in Requests, GuardStep(r)
        PROVE  req'[x] = req[x] \/ FurtherOn(req[x], req'[x])
    <3>1. Entitled(req[r])
      BY DEF VerdictInv
    <3> QED
      BY <2>2, <3>1, GuardStepFits
  <2>3. ASSUME NEW r \in Requests,
               \/ \E u \in Users, route \in Routes, roles \in TokenRoles,
                     permitted, jti \in BOOLEAN :
                     Arrive(r, u, route, roles, permitted, jti)
               \/ ArriveWithoutToken(r)
               \/ Depart(r)
        PROVE  req'[x] = req[x]
    <3>1. req[r].pc \in Answers \cup {"idle"}
      BY <2>3 DEF Arrive, ArriveWithoutToken, Depart
    <3>2. x # r
      BY <3>1 DEF Answers, Waiting
    <3> QED
      BY <2>3, <3>2 DEF Arrive, ArriveWithoutToken, Answer, Depart, TypeOK
  <2> QED
    BY <2>1, <2>2, <2>3 DEF Next, RequestNext
<1>3. Spec => [][Onward]_vars
  <2> HIDE DEF Onward
  <2> QED
    BY <1>2, TypeCorrect, VerdictInvariant, PTL DEF Spec
<1> QED
  BY <1>1, <1>3, VerdictInvariant, PTL DEF GuardOnward

------------------------------------------------------------------------------
(* What the code's comments claim and its runs refute holds when the cause *)
(* of the refutation is kept out.                                          *)

(* No two operations on one key are ever in progress at once.              *)
OpsDisjoint ==
    \A a, b \in Admins : a # b /\ Busy(a) /\ Busy(b) => op[a].key # op[b].key

(* Nothing has overlapped so far.                                          *)
NeverOverlapped ==
    /\ \A a \in Admins : Busy(a) => op[a].alone
    /\ \A k \in Keys : "overlap" \notin taint[k]

LEMMA DisjointEnd ==
    ASSUME TypeOK, NeverOverlapped, NEW a \in Admins, Busy(a),
           NEW outcome \in {"failed", "done"}, EndOp(a, outcome)
    PROVE  NeverOverlapped'
<1>1. \A b \in Admins : Busy(b)' => Busy(b) /\ op'[b] = op[b]
  BY DEF EndOp, Busy, IdleOp, TypeOK
<1>2. op[a].key \in Keys /\ op[a].alone
  BY BusyHasKey DEF NeverOverlapped
<1>3. \A k \in Keys : taint'[k] \in {taint[k], taint[k] \cup {"failed"}, {}}
  BY <1>2 DEF EndOp, TypeOK
<1> QED
  BY <1>1, <1>3 DEF NeverOverlapped

LEMMA DisjointStep ==
    TypeOK /\ NeverOverlapped /\ OpsDisjoint' /\ [Next]_vars => NeverOverlapped'
<1> SUFFICES ASSUME TypeOK, NeverOverlapped, OpsDisjoint', [Next]_vars
             PROVE  NeverOverlapped'
  OBVIOUS
<1>1. ASSUME NEW a \in Admins, NEW k \in Keys, NEW kind \in Kinds, StartOp(a, k, kind)
      PROVE  NeverOverlapped'
  <2>1. /\ op'[a].pc = "calling" /\ op'[a].key = k
        /\ op'[a].alone = (\A c \in Admins : Busy(c) => op[c].key # k)
        /\ op[a].pc = "idle"
    BY <1>1 DEF StartOp
  <2>2. \A b \in Admins : b # a =>
          op'[b] = IF Busy(b) /\ op[b].key = k THEN [op[b] EXCEPT !.alone = FALSE]
                   ELSE op[b]
    BY <1>1 DEF StartOp
  <2>3. ASSUME NEW b \in Admins, b # a, Busy(b)
        PROVE  op[b].key # k
    <3>1. op'[b].pc = op[b].pc /\ op'[b].key = op[b].key
      BY <2>2, <2>3 DEF TypeOK, OpType
    <3> QED
      BY <2>1, <2>3, <3>1 DEF OpsDisjoint, Busy
  <2>4. op'[a].alone
    BY <2>1, <2>3 DEF Busy
  <2>5. \A b \in Admins : b # a => op'[b] = op[b]
    BY <2>2, <2>3
  <2>6. taint' = taint
    BY <1>1 DEF StartOp
  <2> QED
    BY <2>4, <2>5, <2>6 DEF NeverOverlapped, Busy
<1>2. ASSUME NEW a \in Admins, ServiceApplies(a) \/ CallRetried(a) \/ CallLost(a)
      PROVE  NeverOverlapped'
  BY <1>2 DEF ServiceApplies, CallRetried, CallLost, NeverOverlapped, Busy, TypeOK, OpType
<1>3. ASSUME NEW a \in Admins,
             AbandonedCallEnds(a) \/ ReplyLost(a) \/ SyncRedis(a) \/ SyncFails(a)
      PROVE  NeverOverlapped'
  <2>1. Busy(a) /\ (EndOp(a, "failed") \/ EndOp(a, "done"))
    BY <1>3 DEF AbandonedCallEnds, ReplyLost, SyncRedis, SyncFails, Busy
  <2> QED
    BY <2>1, DisjointEnd
<1>4. CASE Tick
  BY <1>4 DEF Tick, NeverOverlapped, Busy, TypeOK
<1>5. CASE UNCHANGED <<op, taint>>
  BY <1>5 DEF NeverOverlapped, Busy
<1>6. ASSUME NEW r \in Requests, RequestNext(r)
      PROVE  UNCHANGED <<op, taint>>
  BY <1>6 DEF RequestNext, Arrive, ArriveWithoutToken, GuardStep, CheckRevocation,
              CheckAccount, CheckRole, CheckBlocklist, GuardFails, Depart
<1> QED
  BY <1>1, <1>2, <1>3, <1>4, <1>5, <1>6 DEF Next, AdminNext, Revoke, vars

(* The comment on the controller's Redis write is right of every history   *)
(* in which no two operations on one key overlap: besides the failures and *)
(* the expiry that SyncedAfterOps sets aside, overlap alone sets the user  *)
(* service and Redis apart.                                                *)
THEOREM DisjointOpsSync == Spec /\ []OpsDisjoint => []SyncedAfterOps
<1>1. Init => NeverOverlapped /\ SyncInv
  BY DEF Init, NeverOverlapped, IdleOp, Busy, SyncInv, AloneOnKey, AppliedStands,
         UndisturbedOpAgrees, Undisturbed
<1>2. NeverOverlapped /\ SyncInv /\ TypeOK => SyncedAfterOps
  BY DEF NeverOverlapped, SyncInv, UndisturbedOpAgrees, Undisturbed, SyncedAfterOps, TypeOK
<1> QED
  BY <1>1, <1>2, TypeCorrect, SyncInvStep, DisjointStep, PTL DEF Spec

(* What RefusedRolesWereBlocked says, of the routes that ask for one role. *)
OneRoleRefusals ==
    \A r \in Requests :
        req[r].pc = "role_blocked" /\ (\A x, y \in req[r].route.roles : x = y) =>
            \A s \in req[r].route.roles \cap req[r].roles :
                s \in Scopes /\ s \notin req[r].free

(* The message of a refusal for a blocked role is right on every route     *)
(* that asks for one role: it goes wrong only where a route has several,   *)
(* because the guard asks about the route's roles and not the token's.     *)
THEOREM OneRoleRefusedRightly == Spec => []OneRoleRefusals
<1>1. GuardInv => OneRoleRefusals
  BY DEF GuardInv, Progress, Refused, OneRoleRefusals
<1> QED
  BY <1>1, GuardInvariant, PTL
==============================================================================
