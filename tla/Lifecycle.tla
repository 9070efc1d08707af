------------------------------- MODULE Lifecycle -------------------------------
(***************************************************************************)
(* The life of one gateway process: GatewayApplication.initialize() and    *)
(* shutdown(), the signals that call it, and the HTTP connections that a   *)
(* shutdown waits for.                                                     *)
(*                                                                         *)
(* index.ts installs its signal handlers when it is loaded, so a signal    *)
(* can come while initialize() still waits for Redis.  What follows that   *)
(* wait, up to listen(), runs without another await and is one step;       *)
(* shutdown() is a step per await.                                         *)
(*                                                                         *)
(* A connection and the work done for it are two things: a handler goes on *)
(* when its client has gone, and what hangs on the response's "finish"     *)
(* event (filling and invalidating the cache) runs after the answer, with  *)
(* nobody waiting for it.                                                  *)
(***************************************************************************)
EXTENDS Naturals

CONSTANT Conns  \* HTTP connections that clients can hold at once

VARIABLES
    proc,        \* "starting" until initialize() is past Redis
    server,      \* the HTTP server; "failed" when listen() found the port taken
    cache,       \* the Redis connection of the container
    metrics,     \* the metrics engine
    userClient,  \* the gRPC client of UserService.instance (the filters use it)
    conn,        \* conn[c]: kept alive, with a request, or with one that is
                 \*   never going to be answered ("hung")
    work,        \* work[c]: what runs for the requests of c, connected or not
    stopping,    \* isShuttingDown
    pc,          \* what shutdown() waits for
    early        \* history: the signal came before there was a server

vars == <<proc, server, cache, metrics, userClient, conn, work, stopping, pc, early>>

Up    == proc # "exited"
Bound == server \in {"listening", "failed"}

Init ==
    /\ proc       = "starting"
    /\ server     = "none"
    /\ cache      = "connecting"
    /\ metrics    = "off"
    /\ userClient = "none"
    /\ conn       = [c \in Conns |-> "none"]
    /\ work       = [c \in Conns |-> {}]
    /\ stopping   = FALSE
    /\ pc         = "idle"
    /\ early      = FALSE

------------------------------------------------------------------------------
(* Start.                                                                  *)

(* cache.connect() resolves: the filters get their user service client,    *)
(* routes are registered, metrics started, and the server listens - even   *)
(* when a shutdown has begun, or ended, meanwhile.  A port that is taken   *)
(* is only logged.                                                         *)
Boot ==
    /\ proc = "starting"
    /\ proc' = "serving"
    /\ server' \in {"listening", "failed"}
    /\ cache' = IF cache = "connecting" THEN "ready" ELSE cache
    /\ metrics' = "on"
    /\ userClient' = "open"
    /\ UNCHANGED <<conn, work, stopping, pc, early>>

(* cache.connect() rejects: process.exit(1).                               *)
BootFails ==
    /\ proc = "starting"
    /\ proc' = "exited"
    /\ UNCHANGED <<server, cache, metrics, userClient, conn, work, stopping, pc, early>>

------------------------------------------------------------------------------
(* Connections (external: the http module).                                *)

\* Mutant: a server that is closing goes on accepting.
AcceptsWhileClosing == server \in {"listening", "closing"}

Accepts == server = "listening"

Serves(c, st, w) ==
    /\ conn' = [conn EXCEPT ![c] = st]
    /\ work' = [work EXCEPT ![c] = w]
    /\ UNCHANGED <<proc, server, cache, metrics, userClient, stopping, pc, early>>

Handling(c) == "handler" \in work[c]

(* A request arrives.  Bound: on a connection of its own, whose last       *)
(* handler has ended.                                                      *)
Arrives(c) == ~Handling(c) /\ Serves(c, "open", work[c] \cup {"handler"})

Connect(c)     == Up /\ Accepts /\ conn[c] = "none" /\ Arrives(c)
NextRequest(c) == Up /\ conn[c] = "idle" /\ Arrives(c)
IdleTimeout(c) == Up /\ conn[c] = "idle" /\ Serves(c, "none", work[c])

(* The client goes; its handler does not hear of it.                       *)
ClientGone(c)  == Up /\ conn[c] \in {"open", "hung"} /\ Serves(c, "none", work[c])

(* The handler ends, with the response if the client is still there, and   *)
(* the middlewares of its route may have hooked on to that.                *)
Answer(c) ==
    /\ Up /\ Handling(c)
    /\ \E hooks \in SUBSET {"hook"} :
          Serves(c, IF conn[c] = "open" THEN "idle" ELSE conn[c],
                 (work[c] \ {"handler"}) \cup hooks)

(* The handler ends without ending the response: a logout whose guard has  *)
(* refused it, a certificate whose stream breaks after the first chunk.    *)
Hang(c) == Up /\ conn[c] = "open" /\ Serves(c, "hung", work[c] \ {"handler"})

(* The hook's Redis commands settle; a rejection is only logged.           *)
HookEnds(c) == Up /\ "hook" \in work[c] /\ Serves(c, conn[c], work[c] \ {"hook"})

------------------------------------------------------------------------------
(* Shutdown.                                                               *)

\* Mutant: shutdown() without its isShuttingDown guard.
MayStopAgain == Up

MayStop == Up /\ ~stopping

\* Mutant: shutdown() waits for the server it does not have.
WaitsAnyway == "drain"

\* Mutant: close() is called and not awaited.
WaitsForNobody == "cache"

(* close() is awaited if there is a server.                                *)
FirstWait == IF server = "none" THEN "cache" ELSE "drain"

\* Mutant: close() marks idle connections and leaves them to their clients.
KeptMarked(st) == IF st = "idle" THEN "closing" ELSE st

(* close() ends the connections that are between two requests.             *)
Kept(st) == IF st = "idle" THEN "none" ELSE st

(* The first SIGINT or SIGTERM: shutdown() closes the client of the user   *)
(* service singleton, and the server stops accepting.                      *)
Stop ==
    /\ MayStop
    /\ stopping' = TRUE
    /\ userClient' = IF userClient = "open" THEN "closed" ELSE userClient
    /\ pc' = FirstWait
    /\ early' = (early \/ server = "none")
    /\ server' = IF Bound THEN "closing" ELSE server
    /\ conn' = IF Bound THEN [c \in Conns |-> Kept(conn[c])] ELSE conn
    /\ UNCHANGED <<proc, work, cache, metrics>>

(* A later SIGTERM: shutdown() returns at once, but the handler that       *)
(* initialize() installed closes the server by itself.  It finds one that  *)
(* still listens only if shutdown() came too early.                        *)
TermAgain ==
    /\ Up /\ stopping /\ proc = "serving" /\ Bound
    /\ server' = "closing"
    /\ conn' = [c \in Conns |-> Kept(conn[c])]
    /\ UNCHANGED <<proc, work, cache, metrics, userClient, stopping, pc, early>>

\* Mutant: close() that does not wait for the requests in progress.
QuietTooSoon == \A c \in Conns : conn[c] # "idle"

Quiet == \A c \in Conns : conn[c] = "none"

(* The last connection is gone: the callbacks of close().                  *)
Drained ==
    /\ Up /\ server = "closing" /\ Quiet
    /\ server' = "closed"
    /\ pc' = IF pc = "drain" THEN "cache" ELSE pc
    /\ UNCHANGED <<proc, cache, metrics, userClient, conn, work, stopping, early>>

(* cache.disconnect() resolves or rejects.                                 *)
Disconnect ==
    /\ Up /\ pc = "cache"
    /\ cache' = "closed"
    /\ pc' = "metrics"
    /\ UNCHANGED <<proc, server, metrics, userClient, conn, work, stopping, early>>

(* metricEngine.shutdown() resolves.                                       *)
StopMetrics ==
    /\ Up /\ pc = "metrics"
    /\ metrics' = "down"
    /\ pc' = "done"
    /\ UNCHANGED <<proc, server, cache, userClient, conn, work, stopping, early>>

(* Either of the two rejects: logged, and the rest is left out.            *)
StopFails ==
    /\ Up /\ pc \in {"cache", "metrics"}
    /\ pc' = "failed"
    /\ UNCHANGED <<proc, server, cache, metrics, userClient, conn, work, stopping, early>>

(* An uncaught exception, or the supervisor's SIGKILL.  Nothing in the     *)
(* code ends the process after a shutdown.                                 *)
Exit ==
    /\ Up
    /\ proc' = "exited"
    /\ conn' = [c \in Conns |-> "none"]
    /\ work' = [c \in Conns |-> {}]
    /\ UNCHANGED <<server, cache, metrics, userClient, stopping, pc, early>>

Ends(c) == Answer(c) \/ Hang(c)

Next ==
    \/ Boot \/ BootFails
    \/ \E c \in Conns : \/ Connect(c) \/ NextRequest(c) \/ Ends(c)
                        \/ HookEnds(c) \/ IdleTimeout(c) \/ ClientGone(c)
    \/ Stop \/ TermAgain \/ Drained \/ Disconnect \/ StopMetrics \/ StopFails
    \/ Exit

Spec == Init /\ [][Next]_vars

(* The connection attempt to Redis is answered or given up; a handler      *)
(* ends, its gRPC calls by their deadline; the keep-alive timer of an idle *)
(* connection runs; the http module reports that it has drained; and       *)
(* disconnect() and shutdown() settle.  No client need leave.              *)
FairSpec ==
    /\ Spec
    /\ WF_vars(Boot \/ BootFails)
    /\ WF_vars(Drained)
    /\ WF_vars(Disconnect \/ StopMetrics \/ StopFails)
    /\ \A c \in Conns : WF_vars(Ends(c)) /\ WF_vars(IdleTimeout(c))

------------------------------------------------------------------------------
(* Properties.                                                             *)

(* The variables have their types.                                         *)
TypeOK ==
    /\ proc \in {"starting", "serving", "exited"}
    /\ server \in {"none", "failed", "listening", "closing", "closed"}
    /\ cache \in {"connecting", "ready", "closed"}
    /\ metrics \in {"off", "on", "down"}
    /\ userClient \in {"none", "open", "closed"}
    /\ conn \in [Conns -> {"none", "idle", "open", "hung"}]
    /\ work \in [Conns -> SUBSET {"handler", "hook"}]
    /\ stopping \in BOOLEAN
    /\ pc \in {"idle", "drain", "cache", "metrics", "done", "failed"}
    /\ early \in BOOLEAN

(* shutdown() takes Redis away only when nobody is connected any more: no  *)
(* request that a client still waits for loses its block list, cache or    *)
(* counters.  What is left at work then, a handler whose client went or a  *)
(* hook of an answered request, finds Redis quit.  The one exception is a  *)
(* signal that came before the server existed.                             *)
CacheOutlivesClients ==
    cache = "closed" /\ ~early => \A c \in Conns : conn[c] = "none"

(* When shutdown() has come to its end in order, what it closes is closed  *)
(* and stays closed: the server, Redis, the metrics and the user service   *)
(* client.  After an early signal none of it need hold, because            *)
(* initialize() goes on and opens three of them again.                     *)
DoneReleasesAll ==
    pc = "done" /\ ~early =>
        /\ server = "closed"
        /\ cache = "closed"
        /\ metrics = "down"
        /\ userClient = "closed"

Rank == [idle |-> 0, drain |-> 1, cache |-> 2, metrics |-> 3, done |-> 4, failed |-> 4]

(* Whatever signals arrive and in whatever order, shutdown() runs once: it *)
(* goes through its waits forwards, so nothing is closed a second time.    *)
RunsOnce == [][Rank[pc'] >= Rank[pc]]_vars

(* "Stop accepting new connections" (app.ts:240): once a shutdown has      *)
(* begun nobody connects any more, unless it began too early.              *)
AcceptsNobodyNew ==
    [][stopping /\ ~early => \A c \in Conns : conn[c] = "none" => conn'[c] = "none"]_vars

(* A shutdown that waits for the server waits for one that close() has     *)
(* been called on, so that its callback comes when the last connection     *)
(* goes; every shutdown under way has some wait of its own to end.         *)
WaitHasCause ==
    /\ stopping <=> pc # "idle"
    /\ pc = "drain" => server = "closing"

(* While the server closes nobody connects, early signal or not, and it    *)
(* stops closing only with nobody left: the wait for it gets shorter.      *)
DrainOnlyShrinks ==
    [][server = "closing" =>
          /\ \A c \in Conns : conn[c] = "none" => conn'[c] = "none"
          /\ server' # "closing" => server' = "closed" /\ Quiet]_vars

(* A shutdown comes to an end, provided that every unanswered client       *)
(* leaves some day and that kept connections bring no new requests for     *)
(* ever: the two things close() waits for without a bound.                 *)
ShutdownEnds ==
    (/\ \A c \in Conns : []<>(conn[c] # "hung")
     /\ <>[][\A c \in Conns : ~NextRequest(c)]_vars)
    => (stopping ~> pc \in {"done", "failed"} \/ ~Up)
==============================================================================
