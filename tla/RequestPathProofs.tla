--------------------------- MODULE RequestPathProofs ---------------------------
(***************************************************************************)
(* Proofs about RequestPath, for every catalogue of handlers that obeys    *)
(* the three assumptions, and for any timers that do: a breaker of each    *)
(* client, a deadline of each call, and no deadline beyond the breaker.    *)
(***************************************************************************)
EXTENDS RequestPath, TLAPS

Last == Len(Stages[handler])

EarlierDone ==
    \A i \in 1..Last : i < stage => \A c \in Stages[handler][i] : caller[c] = "ok"

LaterUntouched ==
    \A i \in 1..Last : i > stage =>
        \A c \in Stages[handler][i] : caller[c] = "idle" /\ wire[c] = "none" /\ c \notin done

OkIsDone == \A c \in Calls : caller[c] = "ok" => c \in done /\ wire[c] = "none"

OpenIsOpen == \A c \in Calls : caller[c] = "open" => wire[c] = "open"

ErrorBeforeWrite ==
    answer \in {"error", "hung"} /\ handler \notin Uncompensated =>
        \A c \in Calls \cap Writes : caller[c] \in {"idle", "failed"}

IInv == /\ TypeOK /\ EarlierDone /\ LaterUntouched /\ OkIsDone /\ OpenIsOpen
        /\ ErrorBeforeWrite /\ GivenUpInTime

(* The steps of one call.                                                  *)
CallStep(c) == Run(c) \/ Reply(c) \/ Reject(c) \/ Chunk(c) \/ BreakerTimeout(c)

------------------------------------------------------------------------------
(* What the assumptions say of one handler.                                *)

LEMMA Shape ==
    ASSUME NEW h \in Handlers
    PROVE  /\ Len(Stages[h]) \in Nat
           /\ \A i \in 1..Len(Stages[h]) : Stages[h][i] \subseteq CallsOf(h)
           /\ \A c \in CallsOf(h) : \E i \in 1..Len(Stages[h]) : c \in Stages[h][i]
           /\ \A i, j \in 1..Len(Stages[h]) : i # j => Stages[h][i] \cap Stages[h][j] = {}
           /\ CallsOf(h) \subseteq AllCalls
           /\ \A i \in 1..Len(Stages[h]) : \A c \in Stages[h][i] :
                 <<h, c>> \in Optional => i = Len(Stages[h])
<1>1. Stages[h] \in Seq(SUBSET CallsOf(h)) BY PlanAssumption
<1>2. Len(Stages[h]) \in Nat BY <1>1
<1>3. \A i \in 1..Len(Stages[h]) : Stages[h][i] \subseteq CallsOf(h) BY <1>1
<1>4. \A c \in CallsOf(h) : \E i \in 1..Len(Stages[h]) : c \in Stages[h][i] BY DEF CallsOf
<1>5. \A i, j \in 1..Len(Stages[h]) : i # j => Stages[h][i] \cap Stages[h][j] = {}
  BY PlanAssumption
<1>6. CallsOf(h) \subseteq AllCalls BY DEF AllCalls
<1>7. \A i \in 1..Len(Stages[h]) : \A c \in Stages[h][i] :
          <<h, c>> \in Optional => i = Len(Stages[h])
  BY PlanAssumption
<1> QED BY <1>2, <1>3, <1>4, <1>5, <1>6, <1>7

(* A call that the channel still works on belongs to the stage waited for. *)
LEMMA OnlyThisStage ==
    ASSUME IInv, NEW c \in Calls, wire[c] # "none"
    PROVE  stage \in 1..Last /\ c \in Stages[handler][stage]
<1>1. handler \in Handlers /\ stage \in 0..Last BY DEF IInv, TypeOK, Last
<1>2. Last \in Nat /\ \E i \in 1..Last : c \in Stages[handler][i]
  BY <1>1, Shape DEF Calls, Last
<1>3. PICK i \in 1..Last : c \in Stages[handler][i] BY <1>2
<1>4. ~(i < stage) BY <1>3 DEF IInv, EarlierDone, OkIsDone
<1>5. ~(i > stage) BY <1>3 DEF IInv, LaterUntouched
<1> QED BY <1>1, <1>2, <1>3, <1>4, <1>5

(* A write of a handler that is not in the list is all that its last stage *)
(* waits for.                                                              *)
LEMMA WriteIsLast ==
    ASSUME NEW h \in Handlers \ Uncompensated, NEW w \in CallsOf(h) \cap Writes
    PROVE  /\ h \notin Checks
           /\ w \in Stages[h][Len(Stages[h])] /\ Len(Stages[h]) \in Nat \ {0}
           /\ {d \in Stages[h][Len(Stages[h])] : <<h, d>> \notin Optional} = {w}
<1>1. PICK i \in 1..Len(Stages[h]) : w \in Stages[h][i] BY Shape
<1>2. Len(Stages[h]) \in Nat BY Shape
<1>3. CallsOf(h) \cap Writes # {} OBVIOUS
<1>4. /\ h \notin Checks
      /\ i = Len(Stages[h])
      /\ {d \in Stages[h][i] : <<h, d>> \notin Optional} = {w}
  BY <1>1, <1>3, CompensationAssumption
<1> QED BY <1>1, <1>2, <1>4

------------------------------------------------------------------------------
(* The inductive invariant.                                                *)

LEMMA InitInv == Init => IInv
<1> SUFFICES ASSUME Init PROVE IInv OBVIOUS
<1>1. handler \in Handlers /\ Last \in Nat BY Shape DEF Init, Last
<1>2. MaxAge \in Nat BY PlanAssumption
<1>3. TypeOK
  <2>1. caller \in [Calls -> {"idle", "open", "ok", "failed"}] BY DEF Init
  <2>2. wire \in [Calls -> {"none", "open", "cut"}] BY DEF Init
  <2>3. stage \in 0..Len(Stages[handler]) BY <1>1 DEF Init, Last
  <2>4. /\ handler \in Handlers /\ answer = "none" /\ done = {} /\ age = 0
        /\ sent \in BOOLEAN
    BY DEF Init
  <2> QED BY <1>2, <2>1, <2>2, <2>3, <2>4 DEF TypeOK
<1>4. EarlierDone BY <1>1 DEF Init, EarlierDone
<1>5. LaterUntouched
  BY <1>1, Shape DEF Init, LaterUntouched, Last, Calls
<1>6. OkIsDone /\ OpenIsOpen /\ ErrorBeforeWrite
  BY DEF Init, OkIsDone, OpenIsOpen, ErrorBeforeWrite, Calls
<1>7. GivenUpInTime BY DEF Init, GivenUpInTime, Calls
<1> QED BY <1>3, <1>4, <1>5, <1>6, <1>7 DEF IInv

(* An answer changes nothing but the answer.                               *)
LEMMA AnswersInv ==
    ASSUME IInv, NEW a \in {"ok", "error", "hung"}, Answers(a),
           a # "ok" /\ handler \notin Uncompensated =>
               \A c \in Calls \cap Writes : caller[c] \in {"idle", "failed"}
    PROVE  IInv'
<1>1. answer' = a /\ UNCHANGED <<handler, stage, caller, wire, done, age, sent>> BY DEF Answers
<1>2. TypeOK' BY <1>1 DEF IInv, TypeOK, Calls
<1>3. (EarlierDone /\ LaterUntouched)' BY <1>1 DEF IInv, EarlierDone, LaterUntouched, Last
<1>4. (OkIsDone /\ OpenIsOpen)' BY <1>1 DEF IInv, OkIsDone, OpenIsOpen, Calls
<1>5. ErrorBeforeWrite' BY <1>1 DEF ErrorBeforeWrite, Calls
<1>6. GivenUpInTime' BY <1>1 DEF IInv, GivenUpInTime, Calls
<1> QED BY <1>2, <1>3, <1>4, <1>5, <1>6 DEF IInv

(* Nothing has been written when the handler answers an error.             *)
LEMMA ErrorInv ==
    ASSUME IInv, Refuse \/ Fail \/ CheckFails
    PROVE  handler \notin Uncompensated =>
               \A c \in Calls \cap Writes : caller[c] \in {"idle", "failed"}
<1> SUFFICES ASSUME handler \notin Uncompensated, NEW w \in Calls \cap Writes
             PROVE  caller[w] \in {"idle", "failed"}
  OBVIOUS
<1>1. handler \in Handlers /\ stage \in 0..Last BY DEF IInv, TypeOK, Last
<1>2. /\ handler \notin Checks
      /\ w \in Stages[handler][Last] /\ Last \in Nat \ {0}
      /\ {d \in Stages[handler][Last] : <<handler, d>> \notin Optional} = {w}
  BY <1>1, WriteIsLast DEF Calls, Last
<1>3. CASE stage < Last BY <1>1, <1>2, <1>3 DEF IInv, LaterUntouched
<1>4. CASE stage = Last
  <2>1. ~Refuse BY <1>2, <1>4 DEF Refuse
  <2>2. ~CheckFails BY <1>2 DEF CheckFails
  <2>3. PICK c \in Mandatory(stage) : caller[c] = "failed" BY <2>1, <2>2 DEF Fail
  <2>4. c = w BY <1>2, <1>4, <2>3 DEF Mandatory
  <2> QED BY <2>3, <2>4
<1> QED BY <1>1, <1>2, <1>3, <1>4

LEMMA NextStageInv == ASSUME IInv, NextStage PROVE IInv'
<1> DEFINE fired == Stages[handler][stage + 1]
<1>1. handler \in Handlers /\ stage \in 0..Last /\ Last \in Nat
  BY Shape DEF IInv, TypeOK, Last
<1>2. /\ answer = "none" /\ StageDone /\ stage < Last /\ stage' = stage + 1
      /\ caller' = [c \in Calls |-> IF c \in fired THEN "open" ELSE caller[c]]
      /\ wire' = [c \in Calls |-> IF c \in fired THEN "open" ELSE wire[c]]
      /\ age' = 0 /\ UNCHANGED <<handler, answer, done, sent>>
  BY DEF NextStage, FiresNext, Last
<1>3. /\ MaxAge \in Nat
      /\ \A c \in AllCalls : Breaker(c) \in 0..MaxAge /\ Deadline(c) \in 0..MaxAge
  BY PlanAssumption
<1>4. \A i \in 1..Last : Stages[handler][i] \subseteq Calls BY <1>1, Shape DEF Last, Calls
<1>5. \A i \in 1..Last : i # stage + 1 => Stages[handler][i] \cap fired = {}
  BY <1>1, <1>2, Shape DEF Last
<1>6. Calls' = Calls /\ Last' = Last BY <1>2 DEF Calls, Last
<1>7. TypeOK'
  <2>1. stage' \in 0..Len(Stages[handler])' BY <1>1, <1>2, <1>6 DEF Last
  <2>2. caller' \in [Calls -> {"idle", "open", "ok", "failed"}] BY <1>2 DEF IInv, TypeOK
  <2>3. wire' \in [Calls -> {"none", "open", "cut"}] BY <1>2 DEF IInv, TypeOK
  <2> QED BY <1>2, <1>3, <1>6, <2>1, <2>2, <2>3 DEF IInv, TypeOK
<1>8. EarlierDone'
  <2> SUFFICES ASSUME NEW i \in 1..Last, i < stage + 1, NEW c \in Stages[handler][i]
               PROVE  caller'[c] = "ok"
    BY <1>2, <1>6 DEF EarlierDone
  <2>1. c \in Calls /\ c \notin fired BY <1>1, <1>4, <1>5
  <2>2. caller[c] = "ok"
    <3>1. CASE i < stage BY <3>1 DEF IInv, EarlierDone
    <3>2. CASE i = stage
      <4>1. c \in Mandatory(stage) BY <1>1, <1>2, <3>2, Shape DEF Mandatory, Last
      <4> QED BY <1>2, <3>2, <4>1 DEF StageDone
    <3> QED BY <1>1, <3>1, <3>2
  <2> QED BY <1>2, <2>1, <2>2
<1>9. LaterUntouched'
  <2> SUFFICES ASSUME NEW i \in 1..Last, i > stage + 1, NEW c \in Stages[handler][i]
               PROVE  caller'[c] = "idle" /\ wire'[c] = "none" /\ c \notin done
    BY <1>2, <1>6 DEF LaterUntouched
  <2>1. c \in Calls /\ c \notin fired BY <1>1, <1>4, <1>5
  <2>2. caller[c] = "idle" /\ wire[c] = "none" /\ c \notin done
    BY <1>1 DEF IInv, LaterUntouched
  <2> QED BY <1>2, <2>1, <2>2
<1>10. OkIsDone' BY <1>2, <1>6 DEF IInv, OkIsDone
<1>11. OpenIsOpen' BY <1>2, <1>6 DEF IInv, OpenIsOpen
<1>12. ErrorBeforeWrite' BY <1>2 DEF ErrorBeforeWrite
<1>13. GivenUpInTime'
  <2> SUFFICES ASSUME NEW d \in Calls, Timed(d)
               PROVE  /\ 0 <= Breaker(d) /\ 0 <= Deadline(d)
                      /\ wire'[d] = "open" => caller'[d] = "open"
    BY <1>2, <1>6 DEF GivenUpInTime, Timed
  <2>1. Breaker(d) \in Nat /\ Deadline(d) \in Nat BY <1>1, <1>3, Shape DEF Calls
  <2>2. CASE d \in fired BY <1>2, <2>1, <2>2
  <2>3. CASE d \notin fired
    <3>1. SUFFICES ASSUME wire[d] = "open" PROVE FALSE BY <1>2, <2>1, <2>3
    <3>2. stage \in 1..Last /\ d \in Stages[handler][stage] BY <3>1, OnlyThisStage
    <3>3. d \in Mandatory(stage) BY <1>1, <1>2, <3>2, Shape DEF Mandatory, Last
    <3>4. caller[d] = "ok" BY <1>2, <3>2, <3>3 DEF StageDone
    <3> QED BY <3>1, <3>4 DEF IInv, OkIsDone
  <2> QED BY <2>1, <2>2, <2>3
<1> QED BY <1>7, <1>8, <1>9, <1>10, <1>11, <1>12, <1>13 DEF IInv

(* The step of a call: what it may change is its own entry, and it only    *)
(* ends what is open.                                                      *)
LEMMA CallFrame ==
    ASSUME IInv, NEW c \in Calls, CallStep(c)
    PROVE  /\ UNCHANGED <<handler, stage, answer, age>> /\ Calls' = Calls /\ Last' = Last
           /\ stage \in 1..Last /\ c \in Stages[handler][stage]
           /\ done' \in SUBSET Calls /\ done \subseteq done' /\ done' \subseteq done \cup {c}
           /\ sent' \in BOOLEAN
           /\ caller' \in [Calls -> {"idle", "open", "ok", "failed"}]
           /\ wire' \in [Calls -> {"none", "open", "cut"}]
           /\ \A d \in Calls \ {c} : caller'[d] = caller[d] /\ wire'[d] = wire[d]
           /\ caller'[c] # caller[c] => caller[c] = "open" /\ caller'[c] \in {"ok", "failed"}
           /\ wire'[c] = "open" => wire[c] = "open"
           /\ caller'[c] = "ok" => c \in done' /\ wire'[c] = "none"
           /\ caller'[c] = "open" => wire'[c] = "open"
<1>1. /\ caller \in [Calls -> {"idle", "open", "ok", "failed"}]
      /\ wire \in [Calls -> {"none", "open", "cut"}]
      /\ done \in SUBSET Calls /\ sent \in BOOLEAN
      /\ caller[c] = "ok" => c \in done /\ wire[c] = "none"
      /\ caller[c] = "open" => wire[c] = "open"
  BY DEF IInv, TypeOK, OkIsDone, OpenIsOpen
<1>2. wire[c] # "none"
  BY <1>1 DEF CallStep, Run, Reply, Reject, Chunk, BreakerTimeout, BreakerDue
<1>3. stage \in 1..Last /\ c \in Stages[handler][stage] BY <1>2, OnlyThisStage
<1>4. UNCHANGED <<handler, stage, answer, age>>
  BY DEF CallStep, Run, Reply, Reject, Chunk, BreakerTimeout
<1>5. Calls' = Calls /\ Last' = Last BY <1>4 DEF Calls, Last
<1>6. CASE Run(c) BY <1>1, <1>3, <1>4, <1>5, <1>6 DEF Run
<1>7. CASE Reply(c) BY <1>1, <1>3, <1>4, <1>5, <1>7 DEF Reply, Known
<1>8. CASE Reject(c) BY <1>1, <1>3, <1>4, <1>5, <1>8 DEF Reject, Known
<1>9. CASE Chunk(c) BY <1>1, <1>3, <1>4, <1>5, <1>9 DEF Chunk
<1>10. CASE BreakerTimeout(c)
  BY <1>1, <1>3, <1>4, <1>5, <1>10 DEF BreakerTimeout, BreakerDue
<1> QED BY <1>6, <1>7, <1>8, <1>9, <1>10 DEF CallStep

(* A step that leaves the channel at work on a call that has time left     *)
(* leaves the handler waiting for it: the breaker is not due yet.          *)
LEMMA CallOnTime ==
    ASSUME IInv, NEW c \in Calls, CallStep(c), Timed(c), wire'[c] = "open", age < Deadline(c)
    PROVE  caller'[c] = "open"
<1>1. /\ caller \in [Calls -> {"idle", "open", "ok", "failed"}]
      /\ wire \in [Calls -> {"none", "open", "cut"}] /\ age \in Nat
  BY PlanAssumption DEF IInv, TypeOK
<1>2. wire[c] = "open" /\ caller[c] = "open"
  BY CallFrame DEF IInv, GivenUpInTime
<1>3. Deadline(c) <= Breaker(c) /\ Deadline(c) \in Nat /\ Breaker(c) \in Nat
  <2>1. c \in AllCalls \ Untimed BY Shape DEF Calls, Timed, IInv, TypeOK
  <2> QED BY <2>1, PlanAssumption, ClocksAssumption
<1>4. CASE Run(c) BY <1>2, <1>4 DEF Run
<1>5. CASE Reply(c) BY <1>1, <1>5 DEF Reply
<1>6. CASE Reject(c) BY <1>1, <1>6 DEF Reject
<1>7. CASE Chunk(c) BY <1>2, <1>7 DEF Chunk
<1>8. CASE BreakerTimeout(c) BY <1>1, <1>3, <1>8 DEF BreakerTimeout, BreakerDue
<1> QED BY <1>4, <1>5, <1>6, <1>7, <1>8 DEF CallStep

LEMMA CallInv == ASSUME IInv, NEW c \in Calls, CallStep(c) PROVE IInv'
<1>1. /\ UNCHANGED <<handler, stage, answer, age>> /\ Calls' = Calls /\ Last' = Last
      /\ stage \in 1..Last /\ c \in Stages[handler][stage]
      /\ done' \in SUBSET Calls /\ done \subseteq done' /\ done' \subseteq done \cup {c}
      /\ sent' \in BOOLEAN
      /\ caller' \in [Calls -> {"idle", "open", "ok", "failed"}]
      /\ wire' \in [Calls -> {"none", "open", "cut"}]
  BY CallFrame
<1>2. /\ \A d \in Calls \ {c} : caller'[d] = caller[d] /\ wire'[d] = wire[d]
      /\ caller'[c] # caller[c] => caller[c] = "open" /\ caller'[c] \in {"ok", "failed"}
      /\ wire'[c] = "open" => wire[c] = "open"
      /\ caller'[c] = "ok" => c \in done' /\ wire'[c] = "none"
      /\ caller'[c] = "open" => wire'[c] = "open"
  BY CallFrame
<1>3. /\ handler \in Handlers /\ Last \in Nat
      /\ \A i \in 1..Last : Stages[handler][i] \subseteq Calls
      /\ \A i \in 1..Last : i # stage => c \notin Stages[handler][i]
  BY <1>1, Shape DEF IInv, TypeOK, Last, Calls
<1>4. TypeOK' BY <1>1 DEF IInv, TypeOK
<1>5. EarlierDone' BY <1>1, <1>2, <1>3 DEF IInv, EarlierDone
<1>6. LaterUntouched' BY <1>1, <1>2, <1>3 DEF IInv, LaterUntouched
<1>7. (OkIsDone /\ OpenIsOpen)' BY <1>1, <1>2 DEF IInv, OkIsDone, OpenIsOpen
<1>8. ErrorBeforeWrite' BY <1>1, <1>2 DEF IInv, ErrorBeforeWrite
<1>9. GivenUpInTime'
  <2> SUFFICES ASSUME NEW d \in Calls, Timed(d)
               PROVE  /\ caller'[d] = "open" /\ d \notin Streams => age <= Breaker(d)
                      /\ wire'[d] = "open" => age <= Deadline(d)
                      /\ wire'[d] = "open" /\ age < Deadline(d) => caller'[d] = "open"
    BY <1>1 DEF GivenUpInTime, Timed
  <2>1. (caller'[d] = "open" => caller[d] = "open") /\ (wire'[d] = "open" => wire[d] = "open")
    BY <1>2
  <2>2. /\ caller[d] = "open" /\ d \notin Streams => age <= Breaker(d)
        /\ wire[d] = "open" => age <= Deadline(d)
        /\ wire[d] = "open" /\ age < Deadline(d) => caller[d] = "open"
    BY DEF IInv, GivenUpInTime
  <2>3. wire'[d] = "open" /\ age < Deadline(d) => caller'[d] = "open"
    <3>1. CASE d = c BY <3>1, CallOnTime
    <3>2. CASE d # c BY <1>2, <2>2, <3>2
    <3> QED BY <3>1, <3>2
  <2> QED BY <2>1, <2>2, <2>3
<1> QED BY <1>4, <1>5, <1>6, <1>7, <1>8, <1>9 DEF IInv

LEMMA TickInv == ASSUME IInv, Tick PROVE IInv'
<1>1. /\ age < MaxAge /\ age' = age + 1 /\ age \in Nat /\ MaxAge \in Nat
      /\ UNCHANGED <<handler, stage, answer, caller, wire, done, sent>>
      /\ \A c \in Calls : ~BreakerDue(c) /\ ~DeadlineDue(c)
  BY PlanAssumption DEF IInv, TypeOK, Tick
<1>2. TypeOK' BY <1>1 DEF IInv, TypeOK, Calls
<1>3. (EarlierDone /\ LaterUntouched)' BY <1>1 DEF IInv, EarlierDone, LaterUntouched, Last
<1>4. (OkIsDone /\ OpenIsOpen)' BY <1>1 DEF IInv, OkIsDone, OpenIsOpen, Calls
<1>5. ErrorBeforeWrite' BY <1>1 DEF IInv, ErrorBeforeWrite, Calls
<1>6. GivenUpInTime'
  <2> SUFFICES ASSUME NEW c \in Calls, Timed(c)
               PROVE  /\ caller[c] = "open" /\ c \notin Streams => age + 1 <= Breaker(c)
                      /\ wire[c] = "open" => age + 1 <= Deadline(c)
                      /\ wire[c] = "open" /\ age + 1 < Deadline(c) => caller[c] = "open"
    BY <1>1 DEF GivenUpInTime, Timed, Calls
  <2>1. Breaker(c) \in Nat /\ Deadline(c) \in Nat
    BY PlanAssumption, Shape DEF Calls, IInv, TypeOK
  <2>2. wire[c] = "open" /\ age < Deadline(c) => caller[c] = "open"
    BY DEF IInv, GivenUpInTime
  <2> QED BY <1>1, <2>1, <2>2 DEF BreakerDue, DeadlineDue
<1> QED BY <1>2, <1>3, <1>4, <1>5, <1>6 DEF IInv

LEMMA NextInv == IInv /\ [Next]_vars => IInv'
<1> SUFFICES ASSUME IInv, [Next]_vars PROVE IInv' OBVIOUS
<1>1. CASE Refuse
  <2>1. PICK a \in {"error", "hung"} : Answers(a) BY <1>1 DEF Refuse, Errs
  <2> QED BY <1>1, <2>1, ErrorInv, AnswersInv
<1>2. CASE Fail
  <2>1. PICK a \in {"error", "hung"} : Answers(a) BY <1>2 DEF Fail, Errs
  <2> QED BY <1>2, <2>1, ErrorInv, AnswersInv
<1>3. CASE CheckFails BY <1>3, ErrorInv, AnswersInv DEF CheckFails
<1>4. CASE Finish BY <1>4, AnswersInv DEF Finish
<1>5. CASE NextStage BY <1>5, NextStageInv
<1>6. CASE Tick BY <1>6, TickInv
<1>7. ASSUME NEW c \in Calls,
             \/ Run(c) \/ Reply(c) \/ Reject(c) \/ Chunk(c)
             \/ BreakerTimeout(c) \/ DeadlinePasses(c)
      PROVE  IInv'
  <2>1. CallStep(c) BY <1>7 DEF CallStep, DeadlinePasses
  <2> QED BY <2>1, CallInv
<1>8. CASE UNCHANGED vars
  BY <1>8 DEF vars, IInv, TypeOK, EarlierDone, LaterUntouched, OkIsDone, OpenIsOpen,
              ErrorBeforeWrite, GivenUpInTime, Calls, Last
<1> QED BY <1>1, <1>2, <1>3, <1>4, <1>5, <1>6, <1>7, <1>8 DEF Next, HandlerStep

LEMMA InductiveInv == Spec => []IInv
<1> QED BY InitInv, NextInv, PTL DEF Spec

------------------------------------------------------------------------------
(* The theorems.                                                           *)

(* The variables have their types.                                         *)
THEOREM TypeCorrect == Spec => []TypeOK
<1>1. IInv => TypeOK BY DEF IInv
<1> QED BY <1>1, InductiveInv, PTL

(* No handler but those of the list answers an error (or leaves the client *)
(* without answer) after a write of its own was acknowledged to it.        *)
THEOREM WritesAreReported == Spec => []AcknowledgedWriteIsReported
<1>1. IInv => AcknowledgedWriteIsReported
  BY DEF IInv, ErrorBeforeWrite, AcknowledgedWriteIsReported
<1> QED BY <1>1, InductiveInv, PTL

(* The breaker and the deadline each bound what they are there to bound,   *)
(* and under the assumption on the clocks the handler never gives a call   *)
(* up while it has time left by its deadline.                              *)
THEOREM InTime == Spec => []GivenUpInTime
<1>1. IInv => GivenUpInTime BY DEF IInv
<1> QED BY <1>1, InductiveInv, PTL

(* No call of the stage that is waited for has yet to be fired.            *)
StageFired == stage > 0 => \A c \in Stages[handler][stage] : caller[c] # "idle"

LEMMA FoundedInit == Init => AnswerIsFounded /\ StageFired
BY DEF Init, AnswerIsFounded, StageFired

(* What is known of a call that is not open stays known.                   *)
LEMMA KnownStays ==
    ASSUME IInv, NEW c \in Calls, CallStep(c), NEW d \in Calls
    PROVE  /\ caller[d] # "open" => caller'[d] = caller[d]
           /\ caller[d] = "open" => caller'[d] \in {"open", "ok", "failed"}
<1>1. /\ caller'[c] # caller[c] => caller[c] = "open" /\ caller'[c] \in {"ok", "failed"}
      /\ \A e \in Calls \ {c} : caller'[e] = caller[e]
  BY CallFrame
<1> QED BY <1>1

(* An answer is founded when it is given.                                  *)
LEMMA AnswersFounded ==
    ASSUME IInv, AnswerIsFounded, StageFired,
           NEW a \in {"ok", "error", "hung"}, Answers(a), answer = "none",
           a = "ok" => StageDone,
           a # "ok" => \/ stage = 0
                       \/ handler \in Checks /\ stage = 1
                       \/ \E c \in Mandatory(stage) : caller[c] = "failed"
    PROVE  AnswerIsFounded' /\ StageFired'
<1>0. /\ handler \in Handlers /\ stage \in 0..Last /\ Last \in Nat
      /\ \A i \in 1..Last : Stages[handler][i] \subseteq Calls
  BY Shape DEF IInv, TypeOK, Last, Calls
<1>1. answer' = a /\ UNCHANGED <<handler, stage, caller, done>> BY DEF Answers
<1>2. StageFired' BY <1>1 DEF StageFired
<1>3. ASSUME a = "ok", NEW i \in 1..stage, NEW c \in Mandatory(i)
      PROVE  caller[c] = "ok" /\ c \in done
  <2>1. i \in 1..Last /\ c \in Stages[handler][i] /\ c \in Calls
    BY <1>0, <1>3 DEF Mandatory
  <2>2. CASE i = stage BY <1>0, <1>3, <2>1, <2>2 DEF StageDone, IInv, OkIsDone
  <2>3. CASE i # stage BY <1>0, <2>1, <2>3 DEF IInv, EarlierDone, OkIsDone
  <2> QED BY <2>2, <2>3
<1>4. Mandatory(stage)' = Mandatory(stage) /\ \A i : Mandatory(i)' = Mandatory(i)
  BY <1>1 DEF Mandatory
<1> QED BY <1>0, <1>1, <1>2, <1>3, <1>4 DEF AnswerIsFounded

LEMMA FoundedStep ==
    IInv /\ AnswerIsFounded /\ StageFired /\ [Next]_vars => AnswerIsFounded' /\ StageFired'
<1> SUFFICES ASSUME IInv, AnswerIsFounded, StageFired, [Next]_vars
             PROVE  AnswerIsFounded' /\ StageFired'
  OBVIOUS
<1>0. /\ handler \in Handlers /\ stage \in 0..Last /\ Last \in Nat
      /\ \A i \in 1..Last : Stages[handler][i] \subseteq Calls
      /\ answer \in {"none", "ok", "error", "hung"}
  BY Shape DEF IInv, TypeOK, Last, Calls
<1>2. CASE Refuse
  <2>1. PICK a \in {"error", "hung"} : Answers(a) BY <1>2 DEF Refuse, Errs
  <2> QED BY <1>2, <2>1, AnswersFounded DEF Refuse
<1>3. CASE Fail
  <2>1. PICK a \in {"error", "hung"} : Answers(a) BY <1>3 DEF Fail, Errs
  <2> QED BY <1>3, <2>1, AnswersFounded DEF Fail, Waiting
<1>4. CASE CheckFails
  BY <1>4, AnswersFounded DEF CheckFails
<1>5. CASE Finish
  BY <1>5, AnswersFounded DEF Finish
<1>6. CASE NextStage
  <2>1. /\ answer' = "none" /\ stage' = stage + 1 /\ stage < Last /\ handler' = handler
        /\ caller' = [c \in Calls |-> IF c \in Stages[handler][stage + 1] THEN "open"
                                      ELSE caller[c]]
    BY <1>6 DEF NextStage, FiresNext, Last
  <2>2. Stages[handler][stage + 1] \subseteq Calls BY <1>0, <2>1
  <2> QED BY <1>0, <2>1, <2>2 DEF AnswerIsFounded, StageFired
<1>7. ASSUME NEW c \in Calls, CallStep(c)
      PROVE  AnswerIsFounded' /\ StageFired'
  <2>1. UNCHANGED <<handler, stage, answer>> /\ done \subseteq done'
    BY <1>7, CallFrame
  <2>2. \A d \in Calls : /\ caller[d] # "open" => caller'[d] = caller[d]
                         /\ caller[d] = "open" => caller'[d] \in {"open", "ok", "failed"}
    BY <1>7, KnownStays
  <2>3. \A i : Mandatory(i)' = Mandatory(i) BY <2>1 DEF Mandatory
  <2>4. \A i \in 1..stage : Mandatory(i) \subseteq Calls BY <1>0 DEF Mandatory
  <2>5. StageFired' BY <1>0, <2>1, <2>2 DEF StageFired
  <2>6. ASSUME answer = "ok", NEW i \in 1..stage, NEW d \in Mandatory(i)
        PROVE  caller'[d] = "ok" /\ d \in done'
    BY <2>1, <2>2, <2>4, <2>6 DEF AnswerIsFounded
  <2>7. ASSUME answer \in {"error", "hung"}, stage > 0, ~(handler \in Checks /\ stage = 1)
        PROVE  \E d \in Mandatory(stage) : caller'[d] = "failed"
    <3>1. PICK d \in Mandatory(stage) : caller[d] = "failed" BY <2>7 DEF AnswerIsFounded
    <3>2. d \in Calls BY <1>0, <2>4, <2>7
    <3> QED BY <2>2, <3>1, <3>2
  <2> QED BY <2>1, <2>3, <2>5, <2>6, <2>7 DEF AnswerIsFounded
<1>8. CASE UNCHANGED <<handler, stage, answer, caller, done>>
  BY <1>8 DEF AnswerIsFounded, StageFired, Mandatory
<1>9. ASSUME NEW c \in Calls,
             \/ Run(c) \/ Reply(c) \/ Reject(c) \/ Chunk(c)
             \/ BreakerTimeout(c) \/ DeadlinePasses(c)
      PROVE  CallStep(c)
  BY <1>9 DEF CallStep, DeadlinePasses
<1> QED
  BY <1>2, <1>3, <1>4, <1>5, <1>6, <1>7, <1>8, <1>9 DEF Next, HandlerStep, Tick, vars

(* No reply and no timer that comes after an answer makes it untrue.       *)
THEOREM AnswersStayTrue == Spec => []AnswerIsFounded
<1> QED BY InductiveInv, FoundedInit, FoundedStep, PTL DEF Spec

(* A request never waits for nothing: whatever of its calls has failed,    *)
(* timed out or settled, something that will let it go on is still due.    *)
(* With the fairness of FairSpec this is what answers every request.       *)
THEOREM NothingWaitsForNothing == Spec => []NoDeadEnd
<1>1. IInv /\ StageFired => NoDeadEnd
  <2> SUFFICES ASSUME IInv, StageFired, stage # 0, ~StageDone,
                      \A c \in Mandatory(stage) : caller[c] # "failed"
               PROVE  \E c \in Calls :
                          \/ BreakerDue(c) \/ DeadlineDue(c)
                          \/ wire[c] = "open" /\ (Timed(c) => age < Deadline(c))
    BY DEF NoDeadEnd
  <2>1. stage \in 1..Last /\ Stages[handler][stage] \subseteq Calls /\ stage > 0
    BY Shape DEF IInv, TypeOK, Last, Calls
  <2>2. Mandatory(stage) \subseteq Stages[handler][stage] BY DEF Mandatory
  <2>3. caller \in [Calls -> {"idle", "open", "ok", "failed"}] BY DEF IInv, TypeOK
  <2>4. \E c \in Stages[handler][stage] : caller[c] = "open"
    BY <2>1, <2>2, <2>3 DEF StageFired, StageDone
  <2>5. PICK c \in Calls : caller[c] = "open" BY <2>1, <2>4
  <2>6. wire[c] = "open" BY <2>5 DEF IInv, OpenIsOpen
  <2>7. age \in Nat /\ (Timed(c) => Deadline(c) \in Nat)
    BY PlanAssumption, Shape DEF IInv, TypeOK, Calls
  <2> QED BY <2>6, <2>7 DEF DeadlineDue
<1> QED BY <1>1, InductiveInv, FoundedInit, FoundedStep, PTL DEF Spec

LEMMA InitImplements == Init => Promise!Init
BY DEF Init, Promise!Init, Handlers

(* What the handler goes on from has taken effect.                         *)
LEMMA DoneStage == ASSUME IInv, StageDone PROVE Promise!Complete(stage)
<1>1. CASE stage = 0 BY <1>1 DEF Promise!Complete
<1>2. CASE stage # 0
  <2>1. stage \in 1..Last /\ handler \in Handlers
    BY <1>2, Shape DEF IInv, TypeOK, Last
  <2>2. Mandatory(stage) \subseteq Calls BY <2>1, Shape DEF Mandatory, Calls, Last
  <2>3. \A c \in Mandatory(stage) : caller[c] = "ok" BY <2>1 DEF StageDone
  <2>4. Mandatory(stage) \subseteq done BY <2>2, <2>3 DEF IInv, OkIsDone
  <2> QED BY <2>4 DEF Promise!Complete, Promise!Mandatory, Mandatory
<1> QED BY <1>1, <1>2

LEMMA StepImplements == IInv /\ [Next]_vars => [Promise!Next]_(Promise!vars)
<1> SUFFICES ASSUME IInv, [Next]_vars PROVE Promise!Next \/ UNCHANGED Promise!vars OBVIOUS
<1>1. ASSUME NEW a \in {"error", "hung"}, Answers(a), answer = "none" PROVE Promise!Next
  BY <1>1 DEF Answers, Promise!Next, Promise!NotOk
<1>2. CASE Refuse BY <1>1, <1>2 DEF Refuse, Errs
<1>3. CASE Fail BY <1>1, <1>3 DEF Fail, Waiting, Errs
<1>4. CASE CheckFails BY <1>1, <1>4 DEF CheckFails
<1>5. CASE Finish
  <2>1. Promise!Complete(stage) BY <1>5, DoneStage DEF Finish
  <2> QED BY <1>5, <2>1 DEF Finish, Answers, Promise!Next, Promise!Ok
<1>6. CASE NextStage
  <2>1. Promise!Complete(stage) BY <1>6, DoneStage DEF NextStage, FiresNext
  <2> QED BY <1>6, <2>1 DEF NextStage, FiresNext, Promise!Next, Promise!Reach
<1>7. ASSUME NEW c \in Calls, Run(c) PROVE Promise!Next
  <2>1. stage \in 1..Last /\ c \in Stages[handler][stage]
    <3>1. wire[c] # "none" BY <1>7 DEF Run
    <3> QED BY <3>1, OnlyThisStage
  <2>2. stage > 0 BY <2>1, Shape DEF IInv, TypeOK, Last
  <2> QED BY <1>7, <2>1, <2>2 DEF Run, Promise!Next, Promise!Effect
<1>8. ASSUME NEW c \in Calls,
             Reply(c) \/ Reject(c) \/ Chunk(c) \/ BreakerTimeout(c) \/ DeadlinePasses(c)
      PROVE  UNCHANGED Promise!vars
  BY <1>8 DEF Reply, Reject, Chunk, BreakerTimeout, DeadlinePasses, Promise!vars
<1>9. CASE Tick BY <1>9 DEF Tick, Promise!vars
<1>10. CASE UNCHANGED vars BY <1>10 DEF vars, Promise!vars
<1> QED BY <1>2, <1>3, <1>4, <1>5, <1>6, <1>7, <1>8, <1>9, <1>10 DEF Next, HandlerStep

(* Timeouts, deadlines and late replies notwithstanding, a request keeps   *)
(* what HandlerPromise says its answer means.                              *)
THEOREM Implements == Spec => KeepsPromise
<1>1. Spec => [][Promise!Next]_(Promise!vars)
  BY InductiveInv, StepImplements, PTL DEF Spec
<1>2. Spec => Promise!Init BY InitImplements DEF Spec
<1> QED BY <1>1, <1>2 DEF KeepsPromise, Promise!Spec

------------------------------------------------------------------------------
(* What HandlerPromise promises, first of it and then of RequestPath.      *)

Behind == \A i \in 1..Last : i < stage => Promise!Mandatory(i) \subseteq done
Ahead  == \A i \in 1..Last : i > stage => Stages[handler][i] \cap done = {}

PromiseInv == /\ handler \in Handlers /\ stage \in 0..Last
              /\ Behind /\ Ahead /\ Promise!OkMeansDone

LEMMA PromiseInvInit == Promise!Init => PromiseInv
<1> SUFFICES ASSUME Promise!Init PROVE PromiseInv OBVIOUS
<1>1. handler \in Handlers /\ stage = 0 /\ done = {} /\ answer = "none"
  BY DEF Promise!Init, Handlers
<1>2. Last \in Nat BY <1>1, Shape DEF Last
<1> QED BY <1>1, <1>2 DEF PromiseInv, Behind, Ahead, Promise!OkMeansDone

LEMMA PromiseInvStep == PromiseInv /\ [Promise!Next]_(Promise!vars) => PromiseInv'
<1> SUFFICES ASSUME PromiseInv, [Promise!Next]_(Promise!vars) PROVE PromiseInv' OBVIOUS
<1>0. /\ handler \in Handlers /\ stage \in 0..Last /\ Last \in Nat
      /\ \A i, j \in 1..Last : i # j => Stages[handler][i] \cap Stages[handler][j] = {}
  BY Shape DEF PromiseInv, Last
<1>1. CASE Promise!Reach
  <2>1. /\ answer = "none" /\ stage < Last /\ stage' = stage + 1
        /\ stage = 0 \/ Promise!Mandatory(stage) \subseteq done
        /\ UNCHANGED <<handler, done, answer>>
    BY <1>1 DEF Promise!Reach, Promise!Complete, Last
  <2>2. Last' = Last /\ \A i : Promise!Mandatory(i)' = Promise!Mandatory(i)
    BY <2>1 DEF Last, Promise!Mandatory
  <2>3. Behind' BY <1>0, <2>1, <2>2 DEF PromiseInv, Behind
  <2>4. Ahead' BY <1>0, <2>1, <2>2 DEF PromiseInv, Ahead
  <2> QED BY <1>0, <2>1, <2>2, <2>3, <2>4 DEF PromiseInv, Promise!OkMeansDone
<1>2. CASE Promise!Effect
  <2>1. PICK c \in Stages[handler][stage] : done' = done \cup {c}
    BY <1>2 DEF Promise!Effect
  <2>2. stage > 0 /\ UNCHANGED <<handler, stage, answer>> BY <1>2 DEF Promise!Effect
  <2>3. Last' = Last /\ \A i : Promise!Mandatory(i)' = Promise!Mandatory(i)
    BY <2>2 DEF Last, Promise!Mandatory
  <2>4. Behind' BY <2>1, <2>2, <2>3 DEF PromiseInv, Behind
  <2>5. Ahead'
    <3> SUFFICES ASSUME NEW i \in 1..Last, i > stage PROVE Stages[handler][i] \cap done' = {}
      BY <2>2, <2>3 DEF Ahead
    <3>1. stage \in 1..Last /\ i # stage BY <1>0, <2>2
    <3>2. c \notin Stages[handler][i] BY <1>0, <3>1
    <3> QED BY <2>1, <3>2 DEF PromiseInv, Ahead
  <2>6. Promise!OkMeansDone' BY <2>1, <2>2, <2>3 DEF PromiseInv, Promise!OkMeansDone, Last
  <2> QED BY <1>0, <2>2, <2>3, <2>4, <2>5, <2>6 DEF PromiseInv
<1>3. CASE Promise!Ok
  <2>1. /\ stage = Last \/ (stage + 1 = Last /\ handler \in Skips)
        /\ stage = 0 \/ Promise!Mandatory(stage) \subseteq done
        /\ UNCHANGED <<handler, stage, done>>
    BY <1>3 DEF Promise!Ok, Promise!Complete, Last
  <2>2. Last' = Last /\ \A i : Promise!Mandatory(i)' = Promise!Mandatory(i)
    BY <2>1 DEF Last, Promise!Mandatory
  <2>3. ASSUME NEW i \in 1..Last
        PROVE  Promise!Mandatory(i) \subseteq done \/ (i = Last /\ handler \in Skips)
    <3>1. CASE i < stage BY <3>1 DEF PromiseInv, Behind
    <3>2. CASE i = stage BY <2>1, <3>2
    <3>3. CASE i > stage BY <1>0, <2>1, <3>3
    <3> QED BY <1>0, <3>1, <3>2, <3>3
  <2>4. Promise!OkMeansDone' BY <2>1, <2>2, <2>3 DEF Promise!OkMeansDone, Last
  <2> QED BY <1>0, <2>1, <2>2, <2>4 DEF PromiseInv, Behind, Ahead
<1>4. CASE Promise!NotOk \/ UNCHANGED Promise!vars
  <2>1. UNCHANGED <<handler, stage, done>> /\ (answer' = "ok" => answer = "ok")
    BY <1>4 DEF Promise!NotOk, Promise!vars
  <2>2. Last' = Last /\ \A i : Promise!Mandatory(i)' = Promise!Mandatory(i)
    BY <2>1 DEF Last, Promise!Mandatory
  <2>3. Promise!OkMeansDone' BY <2>1, <2>2 DEF PromiseInv, Promise!OkMeansDone
  <2> QED BY <1>0, <2>1, <2>2, <2>3 DEF PromiseInv, Behind, Ahead
<1> QED BY <1>1, <1>2, <1>3, <1>4 DEF Promise!Next

(* A client that is told "ok" can rely on every mandatory call, whatever   *)
(* timed out on the way (asyncHandler over Promise.all).                   *)
THEOREM OkIsReliable == Spec => []Promise!OkMeansDone
<1>1. PromiseInv => Promise!OkMeansDone BY DEF PromiseInv
<1> QED
  BY <1>1, Implements, PromiseInvInit, PromiseInvStep, PTL DEF KeepsPromise, Promise!Spec

(* No call takes effect before all that was to happen first, not even one  *)
(* that a service carries out long after it was given up.                  *)
THEOREM OrderedEffects == Spec => []Promise!EffectsInOrder
<1>1. PromiseInv => Promise!EffectsInOrder
  <2> SUFFICES ASSUME PromiseInv, NEW i \in 1..Last, NEW j \in 1..Last, i < j,
                      Stages[handler][j] \cap done # {}
               PROVE  Promise!Mandatory(i) \subseteq done
    BY DEF Promise!EffectsInOrder, Last
  <2>1. Last \in Nat /\ stage \in Nat BY Shape DEF PromiseInv, Last
  <2>2. ~(j > stage) BY DEF PromiseInv, Ahead
  <2> QED BY <2>1, <2>2 DEF PromiseInv, Behind
<1> QED
  BY <1>1, Implements, PromiseInvInit, PromiseInvStep, PTL DEF KeepsPromise, Promise!Spec

(* The answer is given once; what still happens after it are the calls of  *)
(* the stage that was waited for (the breaker gives up, the service not).  *)
THEOREM AnswerIsFinal == Spec => Promise!AnsweredOnce
<1>1. [Promise!Next]_(Promise!vars) => [Promise!AnsweredStep]_(Promise!vars)
  BY DEF Promise!Next, Promise!Reach, Promise!Effect, Promise!Ok, Promise!NotOk,
         Promise!vars, Promise!AnsweredStep
<1> QED
  BY <1>1, Implements, PTL DEF KeepsPromise, Promise!Spec, Promise!AnsweredOnce
==============================================================================
