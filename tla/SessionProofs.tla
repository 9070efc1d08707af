----------------------------- MODULE SessionProofs -----------------------------
(***************************************************************************)
(* Proofs about Session, for any number of tabs and tokens.                *)
(*                                                                         *)
(* The inductive invariant follows the requests in flight: what each of    *)
(* them can still do to the jar once it is answered.                       *)
(***************************************************************************)
EXTENDS Session, TLAPS

(* Only an answer has an effect, and the effect is one of its operation.   *)
Effects ==
    \A t \in Tabs :
        /\ req[t].pc # "answered" => req[t].effect = "none"
        /\ req[t].effect = "attach" => req[t].refresh \in Tokens
        /\ req[t].effect = "csrf" => req[t].csrf \in CsrfTokens
        /\ req[t].effect = "clear" =>
              \/ req[t].op = "logout" /\ req[t].status = 200
              \/ req[t].op \in {"login", "account", "refresh"} /\ req[t].status = 401

(* A request that has overlapped nothing is the only one.                  *)
Single ==
    \A t \in alone : InFlight(t) /\ \A s \in Tabs \ {t} : ~InFlight(s)

(* After a logout nothing in flight can attach a session.                  *)
LoggedOut ==
    out => /\ jar.refresh = None
           /\ \A t \in Tabs :
                /\ req[t].effect # "attach"
                /\ req[t].pc = "sent" => req[t].op # "login" /\ req[t].refresh = None

(* Once a tab agrees, every CSRF request in flight carries that token.     *)
Agreed ==
    agreed # {} =>
        /\ jar.csrf # None
        /\ \A t \in agreed : tab[t].csrf = jar.csrf
        /\ \A t \in Tabs :
             /\ req[t].pc = "sent" /\ req[t].op = "csrf" => req[t].csrf = jar.csrf
             /\ req[t].effect = "csrf" => req[t].csrf = jar.csrf

(* A refresh by itself carries the cookie of the jar, and is refused only  *)
(* when that one is dead; what it brings is accepted.                      *)
Refreshing ==
    \A t \in alone :
        /\ req[t].op = "refresh" /\ req[t].pc = "sent" => req[t].refresh = jar.refresh
        /\ req[t].op = "refresh" /\ req[t].effect = "clear" => jar.refresh \notin valid
        /\ req[t].effect = "attach" => req[t].refresh \in valid

(* In a sure session nothing overlaps, and the jar is good unless the      *)
(* answer that replaces or clears it is on its way.                        *)
Usable ==
    sure =>
        /\ \A t \in Tabs : InFlight(t) => t \in alone
        /\ (\A t \in Tabs : req[t].effect \notin {"attach", "clear"})
           => jar.refresh \in valid \cup {None}

IInv == TypeOK /\ Effects /\ Single /\ LoggedOut /\ Agreed /\ Refreshing /\ Usable

LEMMA InitIInv == Init => IInv
<1> SUFFICES ASSUME Init PROVE IInv
  OBVIOUS
<1>1. \A t \in Tabs : req[t] = Idle
  BY DEF Init
<1>2. TypeOK
  BY DEF Init, TypeOK, Idle, Ops
<1>3. Effects /\ Single /\ LoggedOut /\ Agreed /\ Refreshing
  BY <1>1 DEF Init, Idle, Effects, Single, LoggedOut, Agreed, Refreshing, InFlight
<1>4. Usable
  BY <1>1 DEF Init, Idle, Usable, InFlight
<1>5. QED
  BY <1>2, <1>3, <1>4 DEF IInv

------------------------------------------------------------------------------
(* One lemma per operation.                                                *)

LEMMA SendStep ==
  ASSUME IInv, NEW t \in Tabs, NEW op \in Ops, Send(t, op)
  PROVE  IInv'
<1> USE DEF IInv, InFlight
<1>1. TypeOK'
  BY DEF Send, TypeOK
<1>2. Effects' /\ Single'
  BY DEF Send, Effects, Single, TypeOK, Others
<1>0. /\ \A s \in Tabs : s # t => req'[s] = req[s]
      /\ req'[t].pc = "sent" /\ req'[t].op = op /\ req'[t].effect = "none"
      /\ op # "refresh" => req'[t].refresh = None
      /\ op = "refresh" => req'[t].refresh = jar.refresh
      /\ req[t].pc = "idle" /\ UNCHANGED <<jar, valid, agreed>>
      /\ alone' = IF Others(t) = {} THEN {t} ELSE {}
  BY DEF Send, TypeOK
<1>b. /\ out' => out /\ op # "login"
      /\ sure' => sure /\ Others(t) = {}
  <2>1. /\ out' = (out /\ op # "login")
        /\ sure' = (sure /\ Others(t) = {})
    BY DEF Send
  <2>2. QED
    BY <2>1, Zenon
<1>3. LoggedOut'
  BY <1>0, <1>b DEF LoggedOut
<1>4. Agreed'
  BY DEF Send, Agreed, TypeOK
<1>5. Refreshing'
  BY DEF Send, Refreshing, Effects, TypeOK
<1>6. Usable'
  BY <1>0, <1>b DEF Usable, Effects, Others
<1>7. QED
  BY <1>1, <1>2, <1>3, <1>4, <1>5, <1>6

(* What an answer does to the invariant, given what it depends on.         *)
LEMMA AnswerStep ==
  ASSUME IInv, NEW t \in Tabs, NEW e \in {"none", "attach", "clear", "csrf"}, NEW k,
         NEW st \in {200, 401, 500},
         req[t].pc = "sent", Answered(t, st, e, k),
         valid' \subseteq Tokens, sure' \in BOOLEAN, sure' => sure,
         e = "attach" => k \in valid' \cap Tokens /\ ~out,
         e = "csrf" => k \in CsrfTokens /\ (agreed # {} => k = jar.csrf),
         e = "clear" =>
            \/ req[t].op = "logout" /\ st = 200
            \/ req[t].op \in {"login", "account", "refresh"} /\ st = 401,
         e = "clear" /\ req[t].op = "refresh" => valid' = valid /\ req[t].refresh \notin valid,
         sure' /\ e \in {"none", "csrf"} => valid' = valid
  PROVE  IInv'
<1> USE DEF IInv, InFlight
<1>1. TypeOK'
  BY DEF Answered, TypeOK
<1>2. Effects' /\ Single'
  BY DEF Answered, Effects, Single, TypeOK
<1>3. LoggedOut'
  BY DEF Answered, LoggedOut, TypeOK
<1>4. Agreed'
  BY DEF Answered, Agreed, TypeOK
<1>5. Refreshing'
  BY DEF Answered, Refreshing, Single, Effects, TypeOK
<1>6. Usable'
  BY DEF Answered, Usable, Single, Effects, TypeOK
<1>7. QED
  BY <1>1, <1>2, <1>3, <1>4, <1>5, <1>6

(* An answer without cookies after which the session is not sure.          *)
LEMMA AnswerFails ==
  ASSUME IInv, NEW t \in Tabs, NEW st \in {200, 500},
         req[t].pc = "sent", Answered(t, st, "none", None),
         valid' \subseteq Tokens, sure' = FALSE
  PROVE  IInv'
<1>1. sure' \in BOOLEAN /\ ~sure'
  OBVIOUS
<1>2. QED
  BY <1>1, AnswerStep

LEMMA ServeStep ==
  ASSUME IInv, NEW t \in Tabs, Serve(t)
  PROVE  IInv'
<1> USE DEF IInv, TypeOK, Serves
<1>1. CASE ServeCsrf(t)
  <2>1. PICK c \in CsrfFor(t) : Answered(t, 200, "csrf", c)
    BY <1>1 DEF ServeCsrf
  <2>2. c \in CsrfTokens /\ (agreed # {} => c = jar.csrf)
    BY <1>1 DEF ServeCsrf, CsrfFor, FreshCsrf, Agreed
  <2>3. QED
    BY <1>1, <2>1, <2>2, AnswerStep DEF ServeCsrf
<1>2. CASE ServeLogin(t)
  <2>1. PICK k \in FreshToken : valid' = valid \cup {k} /\ Outcome(t, k)
    BY <1>2 DEF ServeLogin
  <2>2. k \in Tokens /\ req[t].pc = "sent" /\ ~out
    BY <1>2 DEF ServeLogin, FreshToken, LoggedOut
  <2>3. CASE Answered(t, 200, "attach", k) /\ sure' = sure
    BY <2>1, <2>2, <2>3, AnswerStep
  <2>4. CASE Answered(t, 500, "none", None) /\ sure' = FALSE
    BY <2>1, <2>2, <2>4, AnswerFails
  <2>5. QED
    BY <2>1, <2>3, <2>4 DEF Outcome
<1>3. CASE ServeRefresh(t)
  <2>1. PICK k \in FreshToken \cup {req[t].refresh}, gone \in SUBSET {req[t].refresh} :
               valid' = (valid \ gone) \cup {k} /\ Outcome(t, k)
    BY <1>3 DEF ServeRefresh, Attached
  <2>2. k \in Tokens /\ req[t].pc = "sent" /\ ~out
    BY <1>3, SessionAssumption DEF ServeRefresh, FreshToken, LoggedOut
  <2>3. valid' \subseteq Tokens /\ k \in valid'
    BY <2>1, <2>2
  <2>4. CASE Answered(t, 200, "attach", k) /\ sure' = sure
    BY <2>2, <2>3, <2>4, AnswerStep
  <2>5. CASE Answered(t, 500, "none", None) /\ sure' = FALSE
    BY <2>2, <2>3, <2>5, AnswerFails
  <2>6. QED
    BY <2>1, <2>4, <2>5 DEF Outcome
<1>4. CASE ServeLogout(t)
  <2>1. req[t].pc = "sent" /\ req[t].op = "logout" /\ valid' \subseteq Tokens
    BY <1>4 DEF ServeLogout
  <2>2. CASE Answered(t, 200, "clear", None) /\ sure' = sure
    BY <2>1, <2>2, AnswerStep
  <2>3. CASE Answered(t, 500, "none", None) /\ sure' = FALSE
    BY <2>1, <2>3, AnswerFails
  <2>4. QED
    BY <1>4, <2>2, <2>3 DEF ServeLogout
<1>5. CASE Unauthenticated(t)
  BY <1>5, AnswerStep DEF Unauthenticated, Refused, Clears
<1>6. CASE LogoutHangs(t)
  BY <1>6 DEF LogoutHangs, Effects, Single, LoggedOut, Agreed, Refreshing, Usable, InFlight
<1>7. CASE Fails(t)
  BY <1>7, AnswerStep DEF Fails, Refused, Clears
<1>8. CASE ServeAccount(t)
  <2>1. req[t].pc = "sent" /\ Answered(t, 200, "none", None)
    BY <1>8 DEF ServeAccount
  <2>2. CASE UNCHANGED <<valid, sure>>
    BY <2>1, <2>2, AnswerStep
  <2>3. CASE valid' = {} /\ sure' = FALSE
    BY <2>1, <2>3, AnswerFails
  <2>4. QED
    BY <1>8, <2>2, <2>3 DEF ServeAccount
<1>9. QED
  BY <1>1, <1>2, <1>3, <1>4, <1>5, <1>6, <1>7, <1>8 DEF Serve

LEMMA DeliverStep ==
  ASSUME IInv, NEW t \in Tabs, Deliver(t)
  PROVE  IInv'
<1> USE DEF IInv, InFlight, Idle, JarAfter, Cleared
<1>1. TypeOK'
  <2>1. jar' \in [refresh : Tokens \cup {None}, csrf : CsrfTokens \cup {None}]
    BY DEF Deliver, TypeOK, Effects
  <2>2. tab' \in [Tabs -> [csrf : CsrfTokens \cup {None}, live : BOOLEAN]]
    <3> DEFINE c == IF req[t].effect = "csrf" THEN req[t].csrf ELSE tab[t].csrf
               l == tab[t].live \/ req[t].effect = "attach"
    <3>1. c \in CsrfTokens \cup {None}
      BY DEF TypeOK, Effects
    <3>2. l \in BOOLEAN
      OBVIOUS
    <3>3. tab' = [tab EXCEPT ![t] = [csrf |-> c, live |-> l]]
      BY DEF Deliver
    <3> HIDE DEF c, l
    <3>4. QED
      BY <3>1, <3>2, <3>3 DEF TypeOK
  <2>3. req' \in [Tabs -> [pc : {"idle", "sent", "answered", "hung"}, op : Ops,
                          refresh : Tokens \cup {None}, csrf : CsrfTokens \cup {None},
                          status : {0, 200, 401, 500},
                          effect : {"none", "attach", "clear", "csrf"}]]
    BY DEF Deliver, TypeOK, Ops
  <2>4. sure' \in BOOLEAN /\ out' \in BOOLEAN
    BY DEF Deliver
  <2>5. alone' \subseteq Tabs /\ agreed' \subseteq Tabs /\ valid' \subseteq Tokens
    BY DEF Deliver, TypeOK
  <2>6. QED
    BY <2>1, <2>2, <2>3, <2>4, <2>5 DEF TypeOK
<1>2. Effects' /\ Single'
  BY DEF Deliver, Effects, Single, TypeOK
<1>3. LoggedOut'
  <2>1. out' = (out \/ (req[t].effect = "clear" /\ t \in alone))
    BY DEF Deliver
  <2>2. out' => out \/ (req[t].effect = "clear" /\ t \in alone)
    BY <2>1, Zenon
  <2>3. CASE out
    BY <2>3 DEF Deliver, LoggedOut, TypeOK
  <2>4. CASE req[t].effect = "clear" /\ t \in alone
    BY <2>4 DEF Deliver, LoggedOut, Single, Effects, TypeOK
  <2>5. QED
    BY <2>2, <2>3, <2>4 DEF LoggedOut
<1>4. Agreed'
  <2>1. CASE req[t].effect = "clear"
    BY <2>1 DEF Deliver, Agreed
  <2>2. CASE req[t].effect = "csrf"
    <3>1. agreed' \subseteq agreed \cup {t} /\ (agreed' # agreed => t \in alone)
      BY <2>2 DEF Deliver
    <3>2. jar'.csrf = req[t].csrf /\ req[t].csrf # None /\ tab'[t].csrf = req[t].csrf
      BY <2>2, SessionAssumption DEF Deliver, TypeOK, Effects
    <3>3. \A s \in Tabs : s # t => req'[s] = req[s] /\ tab'[s] = tab[s]
      BY DEF Deliver, TypeOK
    <3>4. req'[t] = Idle
      BY DEF Deliver, TypeOK
    <3>5. CASE agreed = {}
      BY <2>2, <3>1, <3>2, <3>3, <3>4, <3>5 DEF Agreed, Single, Effects, TypeOK
    <3>6. CASE agreed # {}
      BY <2>2, <3>1, <3>2, <3>3, <3>4, <3>6 DEF Agreed, TypeOK
    <3>7. QED
      BY <3>5, <3>6
  <2>3. CASE req[t].effect \notin {"clear", "csrf"}
    BY <2>3 DEF Deliver, Agreed, TypeOK
  <2>4. QED
    BY <2>1, <2>2, <2>3
<1>5. Refreshing'
  BY DEF Deliver, Refreshing, Single, TypeOK
<1>6. Usable'
  BY DEF Deliver, Usable, Refreshing, Effects, Single, TypeOK
<1>7. QED
  BY <1>1, <1>2, <1>3, <1>4, <1>5, <1>6

LEMMA OtherStep ==
  ASSUME IInv,
         (\E t \in Tabs : Lose(t) \/ AccessExpires(t))
         \/ (\E k \in Tokens : Expire(k)) \/ UNCHANGED vars
  PROVE  IInv'
<1> USE DEF IInv, InFlight, TypeOK, Effects, Single, LoggedOut, Agreed, Refreshing, Usable
<1>1. ASSUME NEW t \in Tabs, Lose(t) PROVE IInv'
  BY <1>1 DEF Lose, Idle, Ops
<1>2. ASSUME NEW t \in Tabs, AccessExpires(t) PROVE IInv'
  <2>1. /\ tab' \in [Tabs -> [csrf : CsrfTokens \cup {None}, live : BOOLEAN]]
        /\ \A s \in Tabs : tab'[s].csrf = tab[s].csrf
    BY <1>2 DEF AccessExpires
  <2>2. UNCHANGED <<jar, valid, req, alone, sure, out, agreed>>
    BY <1>2 DEF AccessExpires
  <2>3. QED
    BY <2>1, <2>2
<1>3. ASSUME NEW k \in Tokens, Expire(k) PROVE IInv'
  <2>1. /\ valid' = valid \ {k} /\ UNCHANGED <<tab, req, out, agreed>> /\ alone' = {}
        /\ sure' \in BOOLEAN /\ jar' \in [refresh : Tokens \cup {None}, csrf : CsrfTokens \cup {None}]
    BY <1>3 DEF Expire
  <2>2. /\ jar'.csrf = jar.csrf
        /\ jar'.refresh = IF jar.refresh = k THEN None ELSE jar.refresh
        /\ sure' => sure /\ \A t \in Tabs : ~InFlight(t)
    BY <1>3 DEF Expire
  <2>3. QED
    BY <2>1, <2>2
<1>4. CASE UNCHANGED vars
  BY <1>4 DEF vars
<1>5. QED
  BY <1>1, <1>2, <1>3, <1>4

LEMMA NextIInv == IInv /\ [Next]_vars => IInv'
  BY SendStep, ServeStep, DeliverStep, OtherStep DEF Next

(* The strengthened invariant holds in every reachable state.              *)
THEOREM Inductive == Spec => []IInv
  BY InitIInv, NextIInv, PTL DEF Spec

------------------------------------------------------------------------------

(* Type correctness.                                                       *)
THEOREM TypeCorrect == Spec => []TypeOK
<1>1. IInv => TypeOK
  BY DEF IInv
<1>2. QED
  BY <1>1, Inductive, PTL

(* No tab brings a session back after a logout (clearCookies() in          *)
(* logoutUser() against attachCookies() in refreshToken()).                *)
THEOREM LoggedOutStaysOut == Spec => []LogoutSticks
<1>1. IInv => LogoutSticks
  BY DEF IInv, LoggedOut, LogoutSticks
<1>2. QED
  BY <1>1, Inductive, PTL

(* The cookie follows the rotation (attachCookies() in loginUser(),        *)
(* verifyUser() and refreshToken()).                                       *)
THEOREM CookieIsGood == Spec => []SessionUsable
<1>1. IInv => SessionUsable
  BY DEF IInv, Usable, Effects, SessionUsable, InFlight
<1>2. QED
  BY <1>1, Inductive, PTL

(* generateCsrfToken() takes no tab's token away.                          *)
THEOREM CsrfKept == Spec => []CsrfAgrees
<1>1. IInv => CsrfAgrees
  BY DEF IInv, Agreed, CsrfAgrees
<1>2. QED
  BY <1>1, Inductive, PTL

(* errorHandler() takes a live session away only with a 401, and one of a  *)
(* request that did not use the session; nothing else but a logout and a   *)
(* race of two answers does.                                               *)
THEOREM LiveSessionKept == Spec => SessionKept
<1> DEFINE Ends(t) ==
      /\ req[t].pc = "answered" /\ req'[t].pc = "idle"
      /\ \/ t \notin alone
         \/ req[t].op = "logout" /\ req[t].status = 200
         \/ req[t].op \in {"login", "account"} /\ req[t].status = 401
    Kept ==
      jar.refresh \in valid \cap valid' /\ jar'.refresh # jar.refresh
      /\ jar'.refresh \notin Tokens
      => \E t \in Tabs : Ends(t)
<1>1. IInv /\ [Next]_vars => [Kept]_vars
  <2> SUFFICES ASSUME IInv, Next, jar.refresh \in valid \cap valid',
                      jar'.refresh # jar.refresh, jar'.refresh \notin Tokens
               PROVE  \E t \in Tabs : Ends(t)
    BY DEF vars
  <2>1. ASSUME NEW t \in Tabs, Deliver(t)
        PROVE  Ends(t)
    BY <2>1 DEF Deliver, JarAfter, Cleared, Idle, IInv, TypeOK, Effects, Refreshing
  <2>2. ASSUME NEW k \in Tokens, Expire(k) PROVE FALSE
    BY <2>2 DEF Expire, IInv, TypeOK
  <2>3. CASE jar' = jar
    BY <2>3
  <2>4. QED
    BY <2>1, <2>2, <2>3
    DEF Next, Send, Serve, ServeCsrf, ServeLogin, ServeRefresh, ServeLogout, Outcome,
        ServeAccount, Unauthenticated, LogoutHangs, Fails, Refused, Answered, Lose,
        AccessExpires
<1>2. QED
  BY <1>1, Inductive, PTL DEF Spec, SessionKept

------------------------------------------------------------------------------
(* A gateway's answer to s replaces its request by one that is not sent,   *)
(* and leaves the jar and the tabs to the browser.                         *)
LEMMA ServedOnly ==
  ASSUME IInv, NEW s \in Tabs, Serve(s)
  PROVE  /\ UNCHANGED <<jar, tab, agreed>>
         /\ req'[s].pc # "sent"
         /\ \A t \in Tabs : t # s => req'[t] = req[t]
         /\ req'[s].effect = "csrf" =>
               \/ req[s].effect = "csrf" /\ req'[s].csrf = req[s].csrf
               \/ ServeCsrf(s) /\ req'[s].csrf \in CsrfFor(s)
<1> USE DEF IInv, TypeOK
<1>1. ASSUME NEW st, NEW e, NEW k, Answered(s, st, e, k)
      PROVE  /\ UNCHANGED <<jar, tab, agreed>>
             /\ req'[s].pc = "answered" /\ req'[s].effect = e
             /\ e = "csrf" => req'[s].csrf = k
             /\ \A t \in Tabs : t # s => req'[t] = req[t]
  BY <1>1 DEF Answered
<1>2. CASE ServeCsrf(s)
  BY <1>1, <1>2 DEF ServeCsrf
<1>3. CASE ServeLogin(s) \/ ServeRefresh(s) \/ ServeLogout(s) \/ ServeAccount(s)
  <2>1. PICK st \in {200, 500}, e \in {"attach", "clear", "none"},
             k \in Tokens \cup {None} : Answered(s, st, e, k)
    BY <1>3 DEF ServeLogin, ServeRefresh, ServeLogout, ServeAccount, Outcome, FreshToken,
                Attached
  <2> QED
    BY <1>1, <2>1
<1>4. CASE Unauthenticated(s) \/ Fails(s)
  <2>1. PICK st \in {401, 500}, e \in {"clear", "none"} : Answered(s, st, e, None)
    BY <1>4 DEF Unauthenticated, Fails, Refused, Clears
  <2> QED
    BY <1>1, <2>1
<1>5. CASE LogoutHangs(s)
  BY <1>5 DEF LogoutHangs
<1> QED
  BY <1>2, <1>3, <1>4, <1>5 DEF Serve

(* A login that was sent with the tab's token keeps it, and it is still    *)
(* the tab's, as long as the tab agrees.                                   *)
LEMMA PassStep == IInv /\ AgreedTabPasses /\ [Next]_vars => AgreedTabPasses'
<1> SUFFICES ASSUME IInv, AgreedTabPasses, [Next]_vars,
                    NEW t \in Tabs, t \in agreed', Serves(t, "login")'
             PROVE  CsrfMatches(t)'
  BY NextIInv DEF AgreedTabPasses, IInv, TypeOK
<1>1. /\ t \in agreed /\ req'[t] = req[t] /\ tab'[t].csrf = tab[t].csrf
      => CsrfMatches(t)'
  BY DEF AgreedTabPasses, Serves, CsrfMatches
<1> USE DEF IInv, TypeOK
<1>2. ASSUME NEW s \in Tabs, NEW op \in Ops, Send(s, op)
      PROVE  CsrfMatches(t)'
  <2>1. CASE s = t
    <3>1. op = "login" /\ req'[t].csrf = jar.csrf
      BY <1>2, <2>1 DEF Send, Serves
    <3>2. tab[t].csrf = jar.csrf /\ jar.csrf # None /\ tab' = tab
      BY <1>2 DEF Send, Agreed
    <3> QED
      BY <3>1, <3>2 DEF CsrfMatches
  <2>2. CASE s # t
    BY <1>1, <1>2, <2>2 DEF Send
  <2> QED
    BY <2>1, <2>2
<1>3. ASSUME NEW s \in Tabs, Serve(s)
      PROVE  CsrfMatches(t)'
  BY <1>1, <1>3, ServedOnly DEF Serves
<1>4. ASSUME NEW s \in Tabs, Deliver(s)
      PROVE  CsrfMatches(t)'
  <2>1. s # t
    BY <1>4 DEF Deliver, Idle, Serves
  <2> QED
    BY <1>1, <1>4, <2>1 DEF Deliver
<1>5. ASSUME NEW s \in Tabs, Lose(s)
      PROVE  CsrfMatches(t)'
  BY <1>1, <1>5 DEF Lose, Idle, Serves
<1>6. ASSUME NEW s \in Tabs, AccessExpires(s)
      PROVE  CsrfMatches(t)'
  BY <1>1, <1>6 DEF AccessExpires
<1>7. ASSUME NEW k \in Tokens, Expire(k)
      PROVE  CsrfMatches(t)'
  BY <1>1, <1>7 DEF Expire
<1>8. CASE UNCHANGED vars
  BY <1>1, <1>8 DEF vars
<1> QED
  BY <1>2, <1>3, <1>4, <1>5, <1>6, <1>7, <1>8 DEF Next

(* csrfProtection lets the login of a tab pass that fetched its token by   *)
(* itself.                                                                 *)
THEOREM AgreedLoginPasses == Spec => []AgreedTabPasses
<1>1. Init => AgreedTabPasses
  BY DEF Init, AgreedTabPasses
<1> QED
  BY <1>1, Inductive, PassStep, PTL DEF Spec

(* A settled browser is unsettled by the arrival of a clearing alone.      *)
LEMMA SettledStep ==
  ASSUME IInv, Settled, Next
  PROVE  \/ /\ Settled' /\ jar'.csrf = jar.csrf
            /\ \A t \in Tabs : tab'[t].csrf \in {tab[t].csrf, jar.csrf}
         \/ \E t \in Tabs : req[t].effect = "clear" /\ Deliver(t)
<1> DEFINE Stays == /\ Settled' /\ jar'.csrf = jar.csrf
                    /\ \A t \in Tabs : tab'[t].csrf \in {tab[t].csrf, jar.csrf}
<1> USE DEF IInv, TypeOK
<1>1. ASSUME NEW s \in Tabs, NEW op \in Ops, Send(s, op)
      PROVE  Stays
  BY <1>1 DEF Send, Settled, Serves
<1>2. ASSUME NEW s \in Tabs, Serve(s)
      PROVE  Stays
  <2>1. ServeCsrf(s) => CsrfFor(s) = {jar.csrf}
    BY DEF ServeCsrf, CsrfFor, Settled, Serves
  <2>2. /\ UNCHANGED <<jar, tab>>
        /\ req'[s].pc # "sent"
        /\ req'[s].effect = "csrf" => req'[s].csrf = jar.csrf
        /\ \A t \in Tabs : t # s => req'[t] = req[t]
    BY <1>2, <2>1, ServedOnly DEF Settled
  <2> QED
    BY <2>2 DEF Settled, Serves
<1>3. ASSUME NEW s \in Tabs, Deliver(s), req[s].effect # "clear"
      PROVE  Stays
  <2>1. jar'.csrf = jar.csrf
    BY <1>3 DEF Deliver, JarAfter, Settled
  <2>2. /\ req'[s] = Idle /\ \A t \in Tabs : t # s => req'[t] = req[t]
        /\ tab'[s].csrf \in {tab[s].csrf, jar.csrf}
        /\ \A t \in Tabs : t # s => tab'[t] = tab[t]
    BY <1>3 DEF Deliver, Settled
  <2> QED
    BY <2>1, <2>2 DEF Settled, Serves, Idle
<1>4. ASSUME NEW s \in Tabs, Lose(s)
      PROVE  Stays
  BY <1>4 DEF Lose, Idle, Settled, Serves
<1>5. ASSUME NEW s \in Tabs, AccessExpires(s)
      PROVE  Stays
  BY <1>5 DEF AccessExpires, Settled, Serves
<1>6. ASSUME NEW k \in Tokens, Expire(k)
      PROVE  Stays
  BY <1>6 DEF Expire, Settled, Serves
<1> QED
  BY <1>1, <1>2, <1>3, <1>4, <1>5, <1>6 DEF Next

(* The safety half of CsrfConverges: once the browser has been quiet with  *)
(* a CSRF cookie, tabs come to agree and nothing but a cleared cookie sets *)
(* them against each other (generateCsrfToken() uses the cookie's token).  *)
THEOREM SettledStaysSo == Spec => SettledStays
<1> DEFINE Stays ==
      Settled =>
        \/ /\ Settled' /\ jar'.csrf = jar.csrf
           /\ \A t \in Tabs : tab'[t].csrf \in {tab[t].csrf, jar.csrf}
        \/ \E t \in Tabs : req[t].effect = "clear" /\ Deliver(t)
<1>1. IInv /\ [Next]_vars => [Stays]_vars
  BY SettledStep
<1> QED
  BY <1>1, Inductive, PTL DEF Spec, SettledStays
==============================================================================
