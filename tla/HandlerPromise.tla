----------------------------- MODULE HandlerPromise -----------------------------
(***************************************************************************)
(* What the client of one request can conclude from the answer, without    *)
(* timeouts, breakers and channels: the calls of a stage take effect only  *)
(* once all that is mandatory in the stages before has, a stage is reached *)
(* only while the request is unanswered, and "ok" says that everything     *)
(* mandatory has been done.  An error says nothing: effects of the stage   *)
(* reached last can still come after it.                                   *)
(***************************************************************************)
EXTENDS Naturals, Sequences

CONSTANTS Stages,    \* Stages[h]: the stages of handler h, each a set of calls
          Optional,  \* <<h, c>>: handler h swallows a failure of call c
          Skips      \* handlers that leave the last stage out when there is
                     \*   nothing to ask

VARIABLES handler, reached, done, answer

vars == <<handler, reached, done, answer>>

Mandatory(i) == {c \in Stages[handler][i] : <<handler, c>> \notin Optional}

Complete(i) == i = 0 \/ Mandatory(i) \subseteq done

Init ==
    /\ handler \in DOMAIN Stages
    /\ reached = 0
    /\ done = {}
    /\ answer = "none"

Reach ==
    /\ answer = "none" /\ reached < Len(Stages[handler])
    /\ Complete(reached)
    /\ reached' = reached + 1
    /\ UNCHANGED <<handler, done, answer>>

Effect ==
    /\ reached > 0
    /\ \E c \in Stages[handler][reached] : done' = done \cup {c}
    /\ UNCHANGED <<handler, reached, answer>>

Ok ==
    /\ answer = "none" /\ answer' = "ok"
    /\ \/ reached = Len(Stages[handler])
       \/ reached + 1 = Len(Stages[handler]) /\ handler \in Skips
    /\ Complete(reached)
    /\ UNCHANGED <<handler, reached, done>>

NotOk ==
    /\ answer = "none" /\ answer' \in {"error", "hung"}
    /\ UNCHANGED <<handler, reached, done>>

Next == Reach \/ Effect \/ Ok \/ NotOk

Spec == Init /\ [][Next]_vars

------------------------------------------------------------------------------
(* What the client can conclude.                                           *)

(* A call has taken effect only if all that is mandatory in every earlier  *)
(* stage has: no enrollment without its order, no mail without the change  *)
(* that it announces.                                                      *)
EffectsInOrder ==
    \A i, j \in 1..Len(Stages[handler]) :
        i < j /\ Stages[handler][j] \cap done # {} => Mandatory(i) \subseteq done

(* "ok" says that everything mandatory has been done, but for a last stage *)
(* that had nothing to ask.                                                *)
OkMeansDone ==
    answer = "ok" =>
        \A i \in 1..Len(Stages[handler]) :
            Mandatory(i) \subseteq done \/ (i = Len(Stages[handler]) /\ handler \in Skips)

(* The answer is given once, and what takes effect after it is a call of   *)
(* the stage it was given in.                                              *)
AnsweredStep ==
    answer # "none" => /\ UNCHANGED <<handler, reached, answer>>
                       /\ \A c \in done' \ done : c \in Stages[handler][reached]
AnsweredOnce == [][AnsweredStep]_vars
==============================================================================
