------------------------------ MODULE RequestPath ------------------------------
(***************************************************************************)
(* The life of one request inside a controller: the handler fires the      *)
(* calls of a stage together (Promise.all), waits for the mandatory ones,  *)
(* goes on to the next stage and answers.  Every gRPC call runs under two  *)
(* clocks that know nothing of each other: the timeout of the circuit      *)
(* breaker, after which the handler stops waiting, and the deadline of the *)
(* call, after which the channel stops.  What a service has been asked to  *)
(* do it can do at any time, even after both.                              *)
(*                                                                         *)
(* Which handler makes which calls in which stages is a parameter: the     *)
(* catalogue of the controllers is in Handlers.                            *)
(***************************************************************************)
EXTENDS Naturals, Sequences

CONSTANTS
    Stages,        \* Stages[h]: the stages of handler h, each a set of calls
    Optional,      \* <<h, c>>: handler h swallows a failure of call c
    Skips,         \* handlers that leave the last stage out when there is
                   \*   nothing to ask
    Checks,        \* handlers that may refuse by what the first stage brought
                   \*   (not enrolled, no such user)
    Writes,        \* calls that change something
    Untimed,       \* calls without breaker and deadline (Redis, presigning)
    Streams,       \* calls whose reply is written to the response chunk by chunk
    HangsRefused,  \* handlers whose 401 is never sent
    Uncompensated, \* handlers that can answer an error after a write was acknowledged
    Breaker(_),    \* Breaker(c): the breaker timeout of the client of c, in ticks
    Deadline(_),   \* Deadline(c): the deadline of c, in ticks
    MaxAge         \* bound on age, no less than any of the timers

Handlers == DOMAIN Stages
CallsOf(h) == UNION {Stages[h][i] : i \in 1..Len(Stages[h])}
AllCalls == UNION {CallsOf(h) : h \in Handlers}

(* Stages are disjoint; what is optional is in the last stage; nothing is  *)
(* both timed by the breaker and streamed.                                 *)
ASSUME PlanAssumption ==
    /\ \A h \in Handlers :
          /\ Stages[h] \in Seq(SUBSET CallsOf(h))
          /\ \A i, j \in 1..Len(Stages[h]) : i # j => Stages[h][i] \cap Stages[h][j] = {}
          /\ \A i \in 1..Len(Stages[h]) : \A c \in Stages[h][i] :
                <<h, c>> \in Optional => i = Len(Stages[h])
    /\ MaxAge \in Nat
    /\ \A c \in AllCalls : Breaker(c) \in 0..MaxAge /\ Deadline(c) \in 0..MaxAge

(* The breaker of a client is no shorter than any deadline its calls are   *)
(* given: the default and the default deadline are both thirty seconds,    *)
(* and the payment client's sixty are what two of its calls ask for.       *)
ASSUME ClocksAssumption == \A c \in AllCalls \ Untimed : Deadline(c) <= Breaker(c)

(* A handler that is not in the list makes at most one mandatory call next *)
(* to a write, the write itself, and makes it last.                        *)
ASSUME CompensationAssumption ==
    \A h \in Handlers \ Uncompensated :
        CallsOf(h) \cap Writes # {} =>
            /\ h \notin Checks
            /\ \A i \in 1..Len(Stages[h]) : \A c \in Stages[h][i] \cap Writes :
                  /\ i = Len(Stages[h])
                  /\ {d \in Stages[h][i] : <<h, d>> \notin Optional} = {c}

VARIABLES
    handler,  \* the handler the router chose
    stage,    \* 0 in the middlewares, then the stage that is waited for
    answer,   \* what the client has been told; "hung": it never will be
    caller,   \* caller[c]: what the handler knows of call c
    wire,     \* wire[c]: whether the channel still works on it
    done,     \* calls that the service has carried out at least once (external)
    age,      \* ticks since the calls of this stage were fired
    sent      \* a chunk of the stream has been written

vars == <<handler, stage, answer, caller, wire, done, age, sent>>

Calls == CallsOf(handler)

Init ==
    /\ handler \in Handlers
    /\ stage  = 0
    /\ answer = "none"
    /\ caller = [c \in Calls |-> "idle"]
    /\ wire   = [c \in Calls |-> "none"]
    /\ done   = {}
    /\ age    = 0
    /\ sent   = FALSE

------------------------------------------------------------------------------
(* The handler.                                                            *)

\* Mutant: a failed optional call fails the handler.
AllOfThem(i) == Stages[handler][i]

(* The calls of a stage without a catch of their own.                      *)
Mandatory(i) == {c \in Stages[handler][i] : <<handler, c>> \notin Optional}

Waiting == answer = "none" /\ stage > 0

(* Promise.all resolves.                                                   *)
StageDone ==
    stage > 0 => /\ \A c \in Mandatory(stage) : caller[c] = "ok"
                 /\ \A c \in Stages[handler][stage] : caller[c] # "open"

Answers(a) ==
    /\ answer' = a
    /\ UNCHANGED <<handler, stage, caller, wire, done, age, sent>>

(* errorHandler answers every error but the 401 of a logout.               *)
Errs == Answers("error") \/ (handler \in HangsRefused /\ Answers("hung"))

(* CSRF check, rate limiter, guard or schema refuse the request.           *)
Refuse == answer = "none" /\ stage = 0 /\ Errs

\* Mutant: the calls of the next stage do not wait for this one.
FiresAtOnce == answer = "none"

FiresNext == answer = "none" /\ StageDone

(* The calls of the next stage are fired together.                         *)
NextStage ==
    /\ FiresNext /\ stage < Len(Stages[handler])
    /\ stage' = stage + 1
    /\ LET fired == Stages[handler][stage'] IN
       /\ caller' = [c \in Calls |-> IF c \in fired THEN "open" ELSE caller[c]]
       /\ wire'   = [c \in Calls |-> IF c \in fired THEN "open" ELSE wire[c]]
    /\ age' = 0
    /\ UNCHANGED <<handler, answer, done, sent>>

(* After the last stage, or when there is nothing left to ask.             *)
Finish ==
    /\ answer = "none" /\ StageDone
    /\ stage = Len(Stages[handler]) \/ (stage + 1 = Len(Stages[handler]) /\ handler \in Skips)
    /\ Answers("ok")

(* The first mandatory call that fails rejects Promise.all; asyncHandler   *)
(* passes the error on, or the handler's own catch answers it.  A stream   *)
(* that breaks after its first chunk is answered by nobody.                *)
Fail ==
    /\ Waiting
    /\ \E c \in Mandatory(stage) : caller[c] = "failed"
    /\ IF sent THEN Answers("hung") ELSE Errs

(* The handler refuses by what it has been told.                           *)
CheckFails ==
    /\ answer = "none" /\ stage = 1 /\ StageDone /\ handler \in Checks
    /\ Answers("error")

------------------------------------------------------------------------------
(* One call.                                                               *)

Timed(c) == c \notin Untimed

(* The service carries the call out: a first attempt, a retry of the       *)
(* channel, or an attempt that everybody has given up.                     *)
Run(c) ==
    /\ wire[c] \in {"open", "cut"} /\ c \notin done
    /\ done' = done \cup {c}
    /\ UNCHANGED <<handler, stage, answer, caller, wire, age, sent>>

\* Mutant: a reply that comes too late is noted as such.
KnownLate(c, st) == caller' = [caller EXCEPT ![c] = IF @ = "open" THEN st ELSE "late"]

\* Mutant: the reply of a call that has timed out still counts.
KnownFlips(c, st) == caller' = [caller EXCEPT ![c] = st]

Known(c, st) == caller' = [caller EXCEPT ![c] = IF @ = "open" THEN st ELSE @]

(* The reply comes; the handler hears of it only if it still waits.        *)
Reply(c) ==
    /\ wire[c] = "open" /\ c \in done
    /\ c \in Streams => sent
    /\ wire' = [wire EXCEPT ![c] = "none"]
    /\ Known(c, "ok")
    /\ UNCHANGED <<handler, stage, answer, done, age, sent>>

(* An error of the service, of the transport or in the reply.              *)
Reject(c) ==
    /\ wire[c] = "open"
    /\ wire' = [wire EXCEPT ![c] = "cut"]
    /\ Known(c, "failed")
    /\ UNCHANGED <<handler, stage, answer, done, age, sent>>

Chunk(c) ==
    /\ c \in Streams /\ wire[c] = "open" /\ c \in done /\ ~sent
    /\ sent' = TRUE
    /\ UNCHANGED <<handler, stage, answer, caller, wire, done, age>>

\* Mutant: the configuration of the client is lost, and the default of
\* thirty seconds holds for every breaker.
DefaultBreaker(c) == Timed(c) /\ c \notin Streams /\ caller[c] = "open" /\ age >= 3

(* opossum's timeout runs from fire(), by the configuration of the client  *)
(* and whatever deadline the call has; a stream does not pass through it.  *)
BreakerDue(c) == Timed(c) /\ c \notin Streams /\ caller[c] = "open" /\ age >= Breaker(c)

BreakerTimeout(c) ==
    /\ BreakerDue(c)
    /\ caller' = [caller EXCEPT ![c] = "failed"]
    /\ UNCHANGED <<handler, stage, answer, wire, done, age, sent>>

\* Mutant: streamEventCall() without a deadline.
StreamsForEver(c) == Timed(c) /\ c \notin Streams /\ wire[c] = "open" /\ age >= Deadline(c)

DeadlineDue(c) == Timed(c) /\ wire[c] = "open" /\ age >= Deadline(c)

DeadlinePasses(c) == DeadlineDue(c) /\ Reject(c)

(* Time passes while a call is under way, but not past a timer.            *)
Tick ==
    /\ \E c \in Calls : Timed(c) /\ (wire[c] = "open" \/ caller[c] = "open")
    /\ \A c \in Calls : ~BreakerDue(c) /\ ~DeadlineDue(c)
    /\ age < MaxAge
    /\ age' = age + 1
    /\ UNCHANGED <<handler, stage, answer, caller, wire, done, sent>>

HandlerStep == Refuse \/ NextStage \/ Finish \/ Fail \/ CheckFails

(* What the event loop gets to in the end: the handler goes on, timers     *)
(* expire, and a Redis command or a signature settles (the Redis client    *)
(* gives a command up after its retries).                                  *)
Progress ==
    \/ HandlerStep
    \/ \E c \in Calls : \/ BreakerTimeout(c) \/ DeadlinePasses(c)
                        \/ ~Timed(c) /\ Reject(c)
    \/ Tick

Next ==
    \/ HandlerStep
    \/ \E c \in Calls : \/ Run(c) \/ Reply(c) \/ Reject(c) \/ Chunk(c)
                        \/ BreakerTimeout(c) \/ DeadlinePasses(c)
    \/ Tick

Spec == Init /\ [][Next]_vars

FairSpec == Spec /\ WF_vars(Progress)

------------------------------------------------------------------------------
(* Properties.                                                             *)

(* The variables have their types.                                         *)
TypeOK ==
    /\ handler \in Handlers
    /\ stage \in 0..Len(Stages[handler])
    /\ answer \in {"none", "ok", "error", "hung"}
    /\ caller \in [Calls -> {"idle", "open", "ok", "failed"}]
    /\ wire \in [Calls -> {"none", "open", "cut"}]
    /\ done \subseteq Calls
    /\ age \in 0..MaxAge
    /\ sent \in BOOLEAN

(* A client is told of an error after one of its writes was acknowledged   *)
(* only by the handlers of the list: a lookup that fails next to a write   *)
(* or after it never turns a message, a payment or an update that has      *)
(* been made into an error.                                                *)
AcknowledgedWriteIsReported ==
    answer \in {"error", "hung"} /\ handler \notin Uncompensated =>
        \A c \in Calls \cap Writes : caller[c] # "ok"

(* The two clocks of a call agree, though they are set in different files: *)
(* a handler never waits longer than the breaker of the call's client, the *)
(* channel gives every call up at its own deadline, and as long as the     *)
(* channel works on a call that has time left by its deadline, the handler *)
(* has not given it up - a payment may take the sixty seconds it asks for. *)
GivenUpInTime ==
    \A c \in Calls : Timed(c) =>
        /\ caller[c] = "open" /\ c \notin Streams => age <= Breaker(c)
        /\ wire[c] = "open" => age <= Deadline(c)
        /\ wire[c] = "open" /\ age < Deadline(c) => caller[c] = "open"

(* An answer stays true to what the handler gets to know: whatever replies *)
(* and timers come after it, "ok" has every mandatory call of the stages   *)
(* reached acknowledged and carried out, and an error after the            *)
(* middlewares has a mandatory call that failed, or a check.               *)
AnswerIsFounded ==
    /\ answer = "ok" =>
          \A i \in 1..stage : \A c \in Mandatory(i) : caller[c] = "ok" /\ c \in done
    /\ answer \in {"error", "hung"} /\ stage > 0 =>
          \/ handler \in Checks /\ stage = 1
          \/ \E c \in Mandatory(stage) : caller[c] = "failed"

(* A request that is not answered has something left to come: the handler  *)
(* can go on or fail, a timer is due, a call without timers is under way,  *)
(* or the clock of a call still runs towards its deadline.                 *)
NoDeadEnd ==
    answer = "none" =>
        \/ stage = 0 \/ StageDone
        \/ \E c \in Mandatory(stage) : caller[c] = "failed"
        \/ \E c \in Calls :
              \/ BreakerDue(c) \/ DeadlineDue(c)
              \/ wire[c] = "open" /\ (Timed(c) => age < Deadline(c))

(* Every request is answered, though a service never replies, but for the  *)
(* refused logout and a stream that breaks after its first chunk.          *)
EveryRequestAnswered ==
    answer = "none" ~>
        answer \in {"ok", "error"} \/ (answer = "hung" /\ (handler \in HangsRefused \/ sent))

(* The request keeps HandlerPromise.                                       *)
Promise == INSTANCE HandlerPromise WITH
    Stages <- Stages, Optional <- Optional, Skips <- Skips,
    handler <- handler, reached <- stage, done <- done, answer <- answer

(* Stages take effect in their order, "ok" means that all that is          *)
(* mandatory was done, and after an error only the calls already fired     *)
(* can still take effect: timeouts and late replies notwithstanding.       *)
KeepsPromise == Promise!Spec
==============================================================================
