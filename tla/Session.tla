-------------------------------- MODULE Session --------------------------------
(***************************************************************************)
(* The session of one browser: the cookies that the auth routes of the     *)
(* gateway set and clear, seen by several tabs that share them.            *)
(*                                                                         *)
(* A tab sends one request at a time, with the cookies of that moment; the *)
(* gateway serves it, which changes what the auth service accepts; the     *)
(* browser applies the Set-Cookie headers when the answer arrives, or the  *)
(* answer is lost.  Requests of different tabs interleave in every way.    *)
(*                                                                         *)
(* The access cookie is set and cleared with the refresh cookie and read   *)
(* by nothing (authGuard reads the Authorization header), so it is left    *)
(* out; a tab keeps the access token of the last body it was sent.         *)
(***************************************************************************)
EXTENDS Naturals

CONSTANTS
    Tabs,      \* tabs of the browser
    Tokens,    \* refresh tokens
    CsrfTokens,\* random CSRF tokens
    None       \* no cookie, no header

ASSUME SessionAssumption == None \notin Tokens /\ None \notin CsrfTokens

VARIABLES
    jar,    \* the cookies: the refresh token and the CSRF token
    valid,  \* refresh tokens the auth service accepts (external)
    tab,    \* tab[t]: its CSRF header, and whether its access token still verifies
    req,    \* req[t]: its request, the cookies it carries, then the answer
    \* History, read by no guard:
    alone,  \* tabs whose request has overlapped no other, and no expiry
    sure,   \* nothing was lost or overlapped since the session was attached
    out,    \* the browser has logged out, and tried no login since
    agreed  \* tabs whose CSRF token came by itself, and no clearing since

vars == <<jar, valid, tab, req, alone, sure, out, agreed>>

(* "login" is also the OTP verification; "account" the other auth routes:  *)
(* register, OAuth, email check, a new OTP, a forgotten or reset password. *)
Ops  == {"csrf", "login", "refresh", "logout", "account"}
Idle == [pc |-> "idle", op |-> "csrf", refresh |-> None, csrf |-> None,
         status |-> 0, effect |-> "none"]

Init ==
    /\ jar    = [refresh |-> None, csrf |-> None]
    /\ valid  = {}
    /\ tab    = [t \in Tabs |-> [csrf |-> None, live |-> FALSE]]
    /\ req    = [t \in Tabs |-> Idle]
    /\ alone  = {}
    /\ sure   = TRUE
    /\ out    = FALSE
    /\ agreed = {}

InFlight(t) == req[t].pc # "idle"
Others(t)   == {s \in Tabs \ {t} : InFlight(s)}

(* What no cookie, tab or request holds can be drawn as a new token.       *)
FreshToken == Tokens \ (valid \cup {jar.refresh} \cup {req[t].refresh : t \in Tabs})
FreshCsrf  == CsrfTokens \ ({jar.csrf} \cup {tab[t].csrf : t \in Tabs}
                                       \cup {req[t].csrf : t \in Tabs})

(* The browser sends a request with the cookies it has; those that the     *)
(* route reads are kept.                                                   *)
Send(t, op) ==
    /\ ~InFlight(t)
    /\ req' = [req EXCEPT ![t] =
                 [pc |-> "sent", op |-> op, status |-> 0, effect |-> "none",
                  refresh |-> IF op = "refresh" THEN jar.refresh ELSE None,
                  csrf |-> IF op \in {"csrf", "login"} THEN jar.csrf ELSE None]]
    /\ alone' = IF Others(t) = {} THEN {t} ELSE {}
    /\ sure' = (sure /\ Others(t) = {})
    /\ out' = (out /\ op # "login")
    /\ UNCHANGED <<jar, valid, tab, agreed>>

------------------------------------------------------------------------------
(* The gateway serves a request.                                           *)

Serves(t, op) == req[t].pc = "sent" /\ req[t].op = op

\* The answer, with what its Set-Cookie headers do; 500 stands for every
\* error status but 401.
Answered(t, status, effect, token) ==
    /\ req' = [req EXCEPT ![t] =
                 [pc |-> "answered", op |-> req[t].op, status |-> status, effect |-> effect,
                  refresh |-> IF effect = "attach" THEN token ELSE None,
                  csrf |-> IF effect = "csrf" THEN token ELSE None]]
    /\ UNCHANGED <<jar, tab, alone, out, agreed>>

\* Mutant: a new CSRF token whenever one is asked for.
AlwaysFresh(t) == FreshCsrf

(* generateCsrfToken(): the token of the cookie is used again.             *)
CsrfFor(t) == IF req[t].csrf = None THEN FreshCsrf ELSE {req[t].csrf}

ServeCsrf(t) ==
    /\ Serves(t, "csrf")
    /\ \E c \in CsrfFor(t) : Answered(t, 200, "csrf", c)
    /\ UNCHANGED <<valid, sure>>

(* csrfProtection: header and cookie are there and equal.                  *)
CsrfMatches(t) == req[t].csrf # None /\ tab[t].csrf = req[t].csrf

(* The service has done its part; the gateway answers with cookies, or its *)
(* call failed (deadline, breaker) and it answers an error without any.    *)
Outcome(t, k) ==
    \/ Answered(t, 200, "attach", k) /\ sure' = sure
    \/ Answered(t, 500, "none", None) /\ sure' = FALSE

(* loginUser() and, after the OTP, verifyUser().                           *)
ServeLogin(t) ==
    /\ Serves(t, "login") /\ CsrfMatches(t)
    /\ \E k \in FreshToken :
          /\ valid' = valid \cup {k}
          /\ Outcome(t, k)

\* Mutant: the refresh reply sets the old refresh cookie again.
OldCookie(t, k) == req[t].refresh

Attached(t, k) == k

(* refreshToken(): a new token or the same one; the auth service may or    *)
(* may not revoke the old one (external).                                  *)
ServeRefresh(t) ==
    /\ Serves(t, "refresh") /\ req[t].refresh \in valid
    /\ \E k \in FreshToken \cup {req[t].refresh}, gone \in SUBSET {req[t].refresh} :
          /\ valid' = (valid \ gone) \cup {k}
          /\ Outcome(t, Attached(t, k))

(* logoutUser() passes the user, not the session: all of the user's tokens *)
(* are revoked, or none (external).                                        *)
ServeLogout(t) ==
    /\ Serves(t, "logout") /\ tab[t].live
    /\ valid' \in {valid, {}}
    /\ \/ Answered(t, 200, "clear", None) /\ sure' = sure
       \/ Answered(t, 500, "none", None) /\ sure' = FALSE

(* registerUser(), oauthSign(), checkEmailAvailability(), resendOtp(),     *)
(* forgotPassword() and resetPassword() read and set no cookie.  A reset   *)
(* may revoke the tokens of the user (external).                           *)
ServeAccount(t) ==
    /\ Serves(t, "account")
    /\ Answered(t, 200, "none", None)
    /\ \/ UNCHANGED <<valid, sure>>
       \/ valid' = {} /\ sure' = FALSE

------------------------------------------------------------------------------
(* Errors.                                                                 *)

\* Mutant: errorHandler clears the cookies whatever the error.
ClearsAlways(status) == TRUE

(* errorHandler on the auth routes: any 401 clears the cookies, whatever   *)
(* was asked for.                                                          *)
Clears(status) == status = 401

Refused(t, status) ==
    /\ Answered(t, status, IF Clears(status) THEN "clear" ELSE "none", None)
    /\ UNCHANGED <<valid, sure>>

(* Wrong credentials, a refresh token the auth service does not accept, or *)
(* a service that answers UNAUTHENTICATED on another auth route.           *)
Unauthenticated(t) ==
    /\ \/ Serves(t, "login") /\ CsrfMatches(t)
       \/ Serves(t, "account")
       \/ Serves(t, "refresh") /\ req[t].refresh \notin valid \cup {None}
    /\ Refused(t, 401)

(* A logout that ends in a 401, from authGuard when the access token does  *)
(* not verify or from the auth service: errorHandler sets the headers and  *)
(* the status 204 and returns without ending the response.                 *)
LogoutHangs(t) ==
    /\ Serves(t, "logout")
    /\ req' = [req EXCEPT ![t].pc = "hung"]
    /\ UNCHANGED <<jar, valid, tab, alone, sure, out, agreed>>

(* Any other error: the rate limiter, csrfProtection, a schema (a refresh  *)
(* without its cookie), a failed call.                                     *)
Fails(t) == req[t].pc = "sent" /\ Refused(t, 500)

------------------------------------------------------------------------------
(* The browser (external), and time.                                       *)

\* Mutant: clearCookies() clears a cookie of another name.
RefreshStays == [refresh |-> jar.refresh, csrf |-> None]

\* Mutant: clearCookies() sets empty cookies that do not expire.
EmptyCookies == [refresh |-> "", csrf |-> ""]

(* clearCookies(): the refresh, the access and the CSRF cookie.            *)
Cleared == [refresh |-> None, csrf |-> None]

JarAfter(r) ==
    CASE r.effect = "attach" -> [jar EXCEPT !.refresh = r.refresh]
      [] r.effect = "clear"  -> Cleared
      [] r.effect = "csrf"   -> [jar EXCEPT !.csrf = r.csrf]
      [] r.effect = "none"   -> jar

(* The answer arrives: the jar takes its cookies, the tab its body.        *)
Deliver(t) ==
    LET r == req[t] IN
    /\ r.pc = "answered"
    /\ jar' = JarAfter(r)
    /\ tab' = [tab EXCEPT ![t] = [csrf |-> IF r.effect = "csrf" THEN r.csrf ELSE @.csrf,
                                  live |-> @.live \/ r.effect = "attach"]]
    /\ req' = [req EXCEPT ![t] = Idle]
    /\ alone' = alone \ {t}
    /\ sure' = (sure \/ (r.effect = "attach" /\ t \in alone))
    /\ out' = (out \/ (r.effect = "clear" /\ t \in alone))
    /\ agreed' = CASE r.effect = "clear" -> {}
                   [] r.effect = "csrf" /\ t \in alone -> agreed \cup {t}
                   [] OTHER -> agreed
    /\ UNCHANGED valid

(* The tab is closed or the connection breaks: the answer is lost.         *)
Lose(t) ==
    /\ req[t].pc \in {"answered", "hung"}
    /\ req' = [req EXCEPT ![t] = Idle]
    /\ alone' = alone \ {t}
    /\ sure' = (sure /\ req[t].effect \notin {"attach", "clear"})
    /\ UNCHANGED <<jar, valid, tab, out, agreed>>

(* A refresh token expires, and with it its cookie: baseTokenOptions()     *)
(* gives the cookie the life of the token.                                 *)
Expire(k) ==
    /\ k \in valid
    /\ valid' = valid \ {k}
    /\ jar' = IF jar.refresh = k THEN [jar EXCEPT !.refresh = None] ELSE jar
    /\ alone' = {}
    /\ sure' = (sure /\ \A t \in Tabs : ~InFlight(t))
    /\ UNCHANGED <<tab, req, out, agreed>>

AccessExpires(t) ==
    /\ tab[t].live
    /\ tab' = [tab EXCEPT ![t] = [csrf |-> @.csrf, live |-> FALSE]]
    /\ UNCHANGED <<jar, valid, req, alone, sure, out, agreed>>

Serve(t) == \/ ServeCsrf(t) \/ ServeLogin(t) \/ ServeRefresh(t) \/ ServeLogout(t)
            \/ ServeAccount(t) \/ Unauthenticated(t) \/ LogoutHangs(t) \/ Fails(t)

Next ==
    \/ \E t \in Tabs : \/ \E op \in Ops : Send(t, op)
                       \/ Serve(t) \/ Deliver(t) \/ Lose(t) \/ AccessExpires(t)
    \/ \E k \in Tokens : Expire(k)

Spec == Init /\ [][Next]_vars

------------------------------------------------------------------------------
(* Properties.                                                             *)

(* The variables have their types.                                         *)
TypeOK ==
    /\ jar \in [refresh : Tokens \cup {None}, csrf : CsrfTokens \cup {None}]
    /\ valid \subseteq Tokens
    /\ tab \in [Tabs -> [csrf : CsrfTokens \cup {None}, live : BOOLEAN]]
    /\ req \in [Tabs -> [pc : {"idle", "sent", "answered", "hung"}, op : Ops,
                         refresh : Tokens \cup {None}, csrf : CsrfTokens \cup {None},
                         status : {0, 200, 401, 500},
                         effect : {"none", "attach", "clear", "csrf"}]]
    /\ alone \subseteq Tabs
    /\ sure \in BOOLEAN
    /\ out \in BOOLEAN
    /\ agreed \subseteq Tabs

(* A browser that logged out, or was refused, with no other request under  *)
(* way stays logged out until it tries a login: no late refresh, reload or *)
(* CSRF request of any tab brings a session back.                          *)
LogoutSticks == out => jar.refresh = None

(* Between requests the refresh cookie is one the auth service accepts, as *)
(* long as no answer was lost and no call failed half-way since the last   *)
(* undisturbed login or refresh: rotation never leaves the old one behind. *)
SessionUsable ==
    sure /\ (\A t \in Tabs : ~InFlight(t)) => jar.refresh \in valid \cup {None}

(* A tab that fetched its CSRF token by itself agrees with the cookie,     *)
(* whatever the other tabs fetch later, until an answer clears the cookie: *)
(* a tab never takes another tab's token away.                             *)
CsrfAgrees == \A t \in agreed : tab[t].csrf = jar.csrf

(* csrfProtection never refuses the login of a tab that fetched its CSRF   *)
(* token by itself, whatever the other tabs have sent or been answered     *)
(* since, until an answer clears the cookie.                               *)
AgreedTabPasses == \A t \in agreed : Serves(t, "login") => CsrfMatches(t)

(* There is a CSRF cookie, and no answer under way brings another one.     *)
Settled ==
    /\ jar.csrf # None
    /\ \A t \in Tabs :
         /\ Serves(t, "csrf") => req[t].csrf = jar.csrf
         /\ req[t].effect = "csrf" => req[t].csrf = jar.csrf

(* Once the browser has been quiet with a CSRF cookie, the cookie keeps    *)
(* its token, every fetch brings that one, and a tab that holds it goes on *)
(* holding it, until an answer clears the cookies: tabs that agree can be  *)
(* set against each other by nothing else.                                 *)
SettledStays ==
    [][ Settled =>
          \/ /\ Settled' /\ jar'.csrf = jar.csrf
             /\ \A t \in Tabs : tab'[t].csrf \in {tab[t].csrf, jar.csrf}
          \/ \E t \in Tabs : req[t].effect = "clear" /\ Deliver(t) ]_vars

(* A live session is taken away only by an answer that raced another       *)
(* request, by a logout, or by the 401 of a request that did not use it (a *)
(* login or another auth route: errorHandler clears whatever was asked).   *)
(* Any other error never does, nor does the refusal of a refresh.          *)
SessionKept ==
    [][ jar.refresh \in valid \cap valid' /\ jar'.refresh # jar.refresh
        /\ jar'.refresh \notin Tokens
        => \E t \in Tabs :
              /\ req[t].pc = "answered" /\ req'[t].pc = "idle"
              /\ \/ t \notin alone
                 \/ req[t].op = "logout" /\ req[t].status = 200
                 \/ req[t].op \in {"login", "account"} /\ req[t].status = 401 ]_vars

CsrfArrives(t) == req[t].effect = "csrf" /\ Deliver(t)

(* When nothing clears the cookies any more, tabs that go on fetching CSRF *)
(* tokens all come to hold the one in the cookie, even when the first      *)
(* fetches raced and drew different tokens - provided the browser is quiet *)
(* now and then.  Fetches that overlap for ever can pass two tokens round  *)
(* for ever, each answer setting the cookie its request came with.         *)
CsrfConverges ==
    (/\ <>[][\A t \in Tabs : req[t].effect = "clear" => ~Deliver(t)]_vars
     /\ \A t \in Tabs : []<><<CsrfArrives(t)>>_vars
     /\ []<>(\A t \in Tabs : ~InFlight(t)))
    => <>[](\A t \in Tabs : tab[t].csrf = jar.csrf)
==============================================================================
