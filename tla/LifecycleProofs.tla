---------------------------- MODULE LifecycleProofs ----------------------------
(***************************************************************************)
(* Proofs about Lifecycle, for any set of connections.                     *)
(*                                                                         *)
(* The inductive invariant says how far shutdown() has come from what is   *)
(* closed: the wait it is in, the server, Redis and the metrics tell the   *)
(* same story, provided that the signal did not come too early.            *)
(***************************************************************************)
EXTENDS Lifecycle, TLAPS

Begun == stopping <=> pc # "idle"

BeforeBoot ==
    /\ proc = "starting" => server = "none"
    /\ server # "none" => userClient # "none"

Orderly ==
    /\ stopping /\ ~early => server \in {"closing", "closed"} /\ userClient = "closed"
    /\ pc \in {"cache", "metrics", "done", "failed"} /\ ~early => server = "closed"
    /\ server = "closed" => \A c \in Conns : conn[c] = "none"

Finished ==
    /\ cache = "closed" => pc \in {"metrics", "done", "failed"}
    /\ pc \in {"metrics", "done"} => cache = "closed"
    /\ pc = "done" /\ ~early => metrics = "down"

EarlyOnly == proc = "starting" /\ stopping => early

IInv == TypeOK /\ Begun /\ BeforeBoot /\ Orderly /\ Finished /\ EarlyOnly

LEMMA InitIInv == Init => IInv
  BY DEF Init, IInv, TypeOK, Begun, BeforeBoot, Orderly, Finished, EarlyOnly

(* One step per action; the five parts of the invariant each fall to the   *)
(* definition of the action alone.                                         *)
LEMMA NextIInv == IInv /\ [Next]_vars => IInv'
<1> SUFFICES ASSUME IInv, [Next]_vars PROVE IInv'
  OBVIOUS
<1> USE DEF IInv, TypeOK, Begun, BeforeBoot, Orderly, Finished, EarlyOnly, Up, Bound
<1>1. CASE Boot
  BY <1>1 DEF Boot
<1>2. CASE BootFails
  BY <1>2 DEF BootFails
<1>3. ASSUME NEW c \in Conns, Connect(c) PROVE IInv'
  BY <1>3 DEF Connect, Arrives, Serves, Accepts
<1>4. ASSUME NEW c \in Conns, NextRequest(c) PROVE IInv'
  BY <1>4 DEF NextRequest, Arrives, Serves
<1>5. ASSUME NEW c \in Conns, Ends(c) PROVE IInv'
  <2>1. CASE Answer(c)
    <3>1. PICK hooks \in SUBSET {"hook"} :
             Serves(c, IF conn[c] = "open" THEN "idle" ELSE conn[c],
                    (work[c] \ {"handler"}) \cup hooks)
      BY <2>1 DEF Answer
    <3>2. (work[c] \ {"handler"}) \cup hooks \in SUBSET {"handler", "hook"}
      OBVIOUS
    <3>3. (IF conn[c] = "open" THEN "idle" ELSE conn[c]) = "none" <=> conn[c] = "none"
      OBVIOUS
    <3> HIDE DEF Up, Bound
    <3>4. QED
      BY <3>1, <3>2, <3>3 DEF Serves
  <2>2. CASE Hang(c)
    BY <2>2 DEF Hang, Serves
  <2>3. QED
    BY <1>5, <2>1, <2>2 DEF Ends
<1>6. ASSUME NEW c \in Conns, IdleTimeout(c) PROVE IInv'
  BY <1>6 DEF IdleTimeout, Serves
<1>7. ASSUME NEW c \in Conns, ClientGone(c) \/ HookEnds(c) PROVE IInv'
  BY <1>7 DEF ClientGone, HookEnds, Serves
<1>8. CASE Stop
  BY <1>8 DEF Stop, MayStop, FirstWait, Kept
<1>9. CASE TermAgain
  BY <1>9 DEF TermAgain, Kept
<1>10. CASE Drained
  BY <1>10 DEF Drained, Quiet
<1>11. CASE Disconnect
  BY <1>11 DEF Disconnect
<1>12. CASE StopMetrics
  BY <1>12 DEF StopMetrics
<1>13. CASE StopFails
  BY <1>13 DEF StopFails
<1>14. CASE Exit
  BY <1>14 DEF Exit
<1>15. CASE UNCHANGED vars
  BY <1>15 DEF vars
<1>16. QED
  BY <1>1, <1>2, <1>3, <1>4, <1>5, <1>6, <1>7, <1>8, <1>9, <1>10, <1>11,
     <1>12, <1>13, <1>14, <1>15 DEF Next

(* The strengthened invariant holds in every reachable state.              *)
THEOREM Inductive == Spec => []IInv
  BY InitIInv, NextIInv, PTL DEF Spec

(* Type correctness.                                                       *)
THEOREM TypeCorrect == Spec => []TypeOK
<1>1. IInv => TypeOK
  BY DEF IInv
<1>2. QED
  BY <1>1, Inductive, PTL

(* Redis goes only after the last connection, for any number of            *)
(* connections and any order of signals (shutdown(), app.ts:241-247).      *)
THEOREM CacheLast == Spec => []CacheOutlivesClients
<1>1. IInv => CacheOutlivesClients
  BY DEF IInv, Orderly, Finished, CacheOutlivesClients
<1>2. QED
  BY <1>1, Inductive, PTL

(* An orderly end leaves nothing open (shutdown(), app.ts:234-256).        *)
THEOREM NothingLeftOpen == Spec => []DoneReleasesAll
<1>1. IInv => DoneReleasesAll
  BY DEF IInv, Begun, Orderly, Finished, DoneReleasesAll
<1>2. QED
  BY <1>1, Inductive, PTL

(* shutdown() goes forwards through its waits, once.                       *)
THEOREM OneShutdown == Spec => RunsOnce
<1>1. IInv /\ [Next]_vars => [Rank[pc'] >= Rank[pc]]_vars
  <2> SUFFICES ASSUME IInv, Next PROVE Rank[pc'] >= Rank[pc]
    OBVIOUS
  <2> USE DEF IInv, TypeOK, Begun, Rank
  <2>1. CASE Stop
    BY <2>1 DEF Stop, MayStop, FirstWait
  <2>2. CASE Drained
    BY <2>2 DEF Drained
  <2>3. CASE Disconnect \/ StopMetrics \/ StopFails
    BY <2>3 DEF Disconnect, StopMetrics, StopFails
  <2>4. CASE pc' = pc
    BY <2>4
  <2>5. QED
    BY <2>1, <2>2, <2>3, <2>4
    DEF Next, Boot, BootFails, Connect, NextRequest, Ends, Answer, Hang,
        IdleTimeout, ClientGone, HookEnds, Arrives, Serves, TermAgain, Exit
<1>2. QED
  BY <1>1, Inductive, PTL DEF Spec, RunsOnce

(* A gateway that is shutting down lets nobody in.                         *)
THEOREM NobodyNew == Spec => AcceptsNobodyNew
<1> DEFINE Closed == stopping /\ ~early => \A c \in Conns : conn[c] = "none" => conn'[c] = "none"
<1>1. IInv /\ [Next]_vars => [Closed]_vars
  <2> SUFFICES ASSUME IInv, Next, stopping, ~early, NEW d \in Conns, conn[d] = "none"
               PROVE conn'[d] = "none"
    BY DEF vars
  <2> USE DEF IInv, TypeOK, Orderly
  <2>1. ASSUME NEW c \in Conns, Connect(c) PROVE FALSE
    BY <2>1 DEF Connect, Accepts
  <2>2. ASSUME NEW c \in Conns, NextRequest(c) \/ Ends(c) \/ IdleTimeout(c) \/ ClientGone(c) \/ HookEnds(c)
        PROVE conn'[d] = "none"
    BY <2>2 DEF NextRequest, Ends, Answer, Hang, IdleTimeout, ClientGone, HookEnds, Arrives, Serves
  <2>3. CASE Stop \/ TermAgain
    BY <2>3 DEF Stop, MayStop, TermAgain, Bound
  <2>4. CASE Exit
    BY <2>4 DEF Exit
  <2>5. CASE conn' = conn
    BY <2>5
  <2>6. QED
    BY <2>1, <2>2, <2>3, <2>4, <2>5
    DEF Next, Boot, BootFails, Drained, Disconnect, StopMetrics, StopFails
<1>2. QED
  BY <1>1, Inductive, PTL DEF Spec, AcceptsNobodyNew

(* The safety half of ShutdownEnds: a shutdown that waits has something    *)
(* that ends its wait, and what it waits for only gets less.               *)
THEOREM ShutdownGetsOn == Spec => []WaitHasCause /\ DrainOnlyShrinks
<1> DEFINE Cause   == /\ pc = "drain" => server = "closing"
                      /\ server \in {"closing", "closed"} => stopping
           Shrinks ==
             server = "closing" =>
               /\ \A c \in Conns : conn[c] = "none" => conn'[c] = "none"
               /\ server' # "closing" => server' = "closed" /\ Quiet
<1>1. Init => Cause
  BY DEF Init
<1>2. IInv /\ Cause /\ [Next]_vars => Cause'
  <2> SUFFICES ASSUME IInv, Cause, [Next]_vars
               PROVE  Cause'
    OBVIOUS
  <2> USE DEF IInv, TypeOK, Begun, BeforeBoot
  <2>1. CASE Stop
    BY <2>1 DEF Stop, MayStop, FirstWait, Bound
  <2>2. CASE Boot
    BY <2>2 DEF Boot
  <2>3. CASE Drained \/ TermAgain \/ Disconnect \/ StopMetrics \/ StopFails
    BY <2>3 DEF Drained, TermAgain, Disconnect, StopMetrics, StopFails
  <2>4. CASE UNCHANGED <<pc, server, stopping>>
    BY <2>4
  <2> QED
    BY <2>1, <2>2, <2>3, <2>4
    DEF Next, BootFails, Connect, NextRequest, Ends, Answer, Hang, IdleTimeout,
        ClientGone, HookEnds, Arrives, Serves, Exit, vars
<1>3. IInv /\ [Next]_vars => [Shrinks]_vars
  <2> SUFFICES ASSUME IInv, Next, server = "closing"
               PROVE  /\ \A c \in Conns : conn[c] = "none" => conn'[c] = "none"
                      /\ server' # "closing" => server' = "closed" /\ Quiet
    BY DEF vars
  <2> USE DEF IInv, TypeOK, BeforeBoot
  <2>1. ASSUME NEW c \in Conns, Connect(c) PROVE FALSE
    BY <2>1 DEF Connect, Accepts
  <2>2. ASSUME NEW c \in Conns, NextRequest(c) \/ Ends(c) \/ IdleTimeout(c) \/ ClientGone(c) \/ HookEnds(c)
        PROVE  /\ server' = server
               /\ \A d \in Conns : conn[d] = "none" => conn'[d] = "none"
    BY <2>2 DEF NextRequest, Ends, Answer, Hang, IdleTimeout, ClientGone, HookEnds, Arrives, Serves
  <2>3. CASE Stop \/ TermAgain
    BY <2>3 DEF Stop, MayStop, TermAgain, Bound
  <2>4. CASE Exit \/ Boot \/ BootFails
    BY <2>4 DEF Exit, Boot, BootFails
  <2>5. CASE Drained
    BY <2>5 DEF Drained
  <2>6. CASE Disconnect \/ StopMetrics \/ StopFails
    BY <2>6 DEF Disconnect, StopMetrics, StopFails
  <2> QED
    BY <2>1, <2>2, <2>3, <2>4, <2>5, <2>6 DEF Next
<1>4. IInv /\ Cause => WaitHasCause
  BY DEF IInv, Begun, WaitHasCause
<1>5. Spec => []Cause
  <2> HIDE DEF Cause
  <2> QED
    BY <1>1, <1>2, Inductive, PTL DEF Spec
<1>6. Spec => [][Shrinks]_vars
  <2> HIDE DEF Shrinks
  <2> QED
    BY <1>3, Inductive, PTL DEF Spec
<1> HIDE DEF Cause
<1> QED
  BY <1>4, <1>5, <1>6, Inductive, PTL DEF DrainOnlyShrinks
==============================================================================
