----------------------- MODULE EmailAvailabilityProofs -----------------------
(***************************************************************************)
(* Proofs about EmailAvailability, for any sets of instances, checks and   *)
(* addresses, any hashes and any bound on the writes under way.            *)
(***************************************************************************)
EXTENDS EmailAvailability, SequenceTheorems, TLAPS

LEMMA DownTyped == Down \in InstType /\ Started \in InstType
<1>1. Nothing \in Values /\ {} \in Filters /\ <<>> \in Seq(Filters)
  BY DEF Values, Filters
<1> QED
  BY <1>1 DEF Down, Started, InstType, Stages

LEMMA BitsTyped ==
    /\ \A e \in Emails : BitsOf[e] \in Filters
    /\ \A S \in SUBSET Emails : BitsOfAll(S) \in Filters
<1>1. \A e \in Emails : BitsOf[e] \in Filters
  BY EmailAssumption DEF Filters
<1> QED
  BY <1>1 DEF BitsOfAll, Filters

LEMMA ValueTyped == Nothing \in Values /\ \A f \in Filters : Value(f) \in Values
  BY DEF Values

LEMMA ValuesTyped ==
    ASSUME NEW v \in Values
    PROVE  v.bits \in Filters /\ v.there \in BOOLEAN
<1>1. CASE v = Nothing
  BY <1>1 DEF Nothing, Filters
<1>2. CASE \E f \in Filters : v = Value(f)
  BY <1>2 DEF Value
<1> QED
  BY <1>1, <1>2 DEF Values

(* What the writes under way become when the first of them is done or lost *)
(* and when one is added.                                                  *)
LEMMA FirstGone ==
    ASSUME NEW s \in Seq(Filters), s # <<>>
    PROVE  /\ Head(s) \in Filters /\ Tail(s) \in Seq(Filters)
           /\ Len(Tail(s)) \in Nat /\ Len(Tail(s)) = Len(s) - 1
           /\ Tail(s) # <<>> => Tail(s)[Len(Tail(s))] = s[Len(s)]
           /\ Tail(s) = <<>> => Head(s) = s[Len(s)]
<1>1. /\ Len(s) \in Nat \ {0} /\ Head(s) = s[1] /\ s[1] \in Filters
      /\ Tail(s) \in Seq(Filters) /\ Len(Tail(s)) = Len(s) - 1
      /\ \A n \in 1..(Len(s) - 1) : Tail(s)[n] = s[n + 1]
  OBVIOUS
<1>2. CASE Len(s) = 1
  <2>1. Tail(s) = <<>>
    BY <1>1, <1>2, EmptySeq
  <2> QED
    BY <1>1, <1>2, <2>1
<1>3. CASE Len(s) > 1
  <2>1. Len(s) - 1 \in 1..(Len(s) - 1)
    BY <1>1, <1>3
  <2>2. Tail(s)[Len(s) - 1] = s[(Len(s) - 1) + 1]
    BY <1>1, <2>1
  <2>3. Tail(s) # <<>>
    BY <1>1, <1>3
  <2> QED
    BY <1>1, <2>2, <2>3
<1> QED
  BY <1>1, <1>2, <1>3

LEMMA OneMore ==
    ASSUME NEW s \in Seq(Filters), NEW f \in Filters
    PROVE  /\ Persist(s, f) \in Seq(Filters) /\ Persist(s, f) # <<>>
           /\ Len(Persist(s, f)) = Len(s) + 1
           /\ Persist(s, f)[Len(Persist(s, f))] = f
  BY DEF Persist

(* An instance whose record is replaced by one that has its type.          *)
LEMMA InstTyped ==
    ASSUME TypeOK, NEW i \in Instances, NEW new \in InstType,
           inst' = [inst EXCEPT ![i] = new],
           Len(new.saves) <= MaxSaves,
           new.verified => new.verifying \in registered',
           registered \subseteq registered',
           ~new.up => new = Down,
           new.stage = "listed" => new.got.there
    PROVE  /\ inst' \in [Instances -> InstType]
           /\ \A j \in Instances :
                 /\ Len(inst'[j].saves) <= MaxSaves
                 /\ inst'[j].verified => inst'[j].verifying \in registered'
                 /\ ~inst'[j].up => inst'[j] = Down
                 /\ inst'[j].stage = "listed" => inst'[j].got.there
  BY DEF TypeOK, Running

(* What the type invariant says of one instance.                           *)
LEMMA InstKnown ==
    ASSUME TypeOK, NEW i \in Instances
    PROVE  /\ inst[i] \in InstType
           /\ inst[i].up \in BOOLEAN /\ inst[i].stage \in Stages
           /\ inst[i].filter \in Filters /\ inst[i].got \in Values
           /\ inst[i].saves \in Seq(Filters)
           /\ inst[i].verifying \in Emails \cup {None}
           /\ inst[i].verified \in BOOLEAN
           /\ inst[i].got.bits \in Filters
           /\ Len(inst[i].saves) \in Nat /\ Len(inst[i].saves) <= MaxSaves
           /\ inst[i].verified => inst[i].verifying \in registered
           /\ ~inst[i].up => inst[i] = Down
<1>1. inst[i] \in InstType
  BY DEF TypeOK
<1>2. inst[i].got \in Values /\ inst[i].saves \in Seq(Filters)
  BY <1>1 DEF InstType
<1>3. inst[i].got.bits \in Filters
  BY <1>2, ValuesTyped
<1> QED
  BY <1>1, <1>2, <1>3 DEF TypeOK, InstType, Running

LEMMA TypeOKStep == TypeOK /\ [Next]_vars => TypeOK'
<1> SUFFICES ASSUME TypeOK, [Next]_vars
             PROVE  TypeOK'
  OBVIOUS
<1> USE EmailAssumption
<1>0. ASSUME NEW i \in Instances
      PROVE  /\ inst[i] \in InstType
             /\ inst[i].up \in BOOLEAN /\ inst[i].stage \in Stages
             /\ inst[i].filter \in Filters /\ inst[i].got \in Values
             /\ inst[i].saves \in Seq(Filters)
             /\ inst[i].verifying \in Emails \cup {None}
             /\ inst[i].verified \in BOOLEAN
             /\ inst[i].got.bits \in Filters
             /\ Len(inst[i].saves) \in Nat /\ Len(inst[i].saves) <= MaxSaves
             /\ inst[i].verified => inst[i].verifying \in registered
             /\ ~inst[i].up => inst[i] = Down
  BY InstKnown
<1>1. ASSUME NEW i \in Instances, Start(i)
      PROVE  TypeOK'
  <2>1. inst' = [inst EXCEPT ![i] = Started]
    BY <1>1 DEF Start
  <2>2. /\ Len(Started.saves) <= MaxSaves /\ ~Started.verified /\ Started.up
        /\ Started.stage # "listed"
    BY DEF Started, Down
  <2>3. /\ registered' = registered /\ stored' = stored /\ chk' = chk
        /\ calm' \in BOOLEAN
    BY <1>1 DEF Start, TypeOK
  <2> QED
    BY <2>1, <2>2, <2>3, DownTyped, InstTyped DEF TypeOK, Running
<1>2. ASSUME NEW i \in Instances, InitStep(i)
      PROVE  TypeOK'
  <2>1. PICK new \in InstType :
            /\ inst' = [inst EXCEPT ![i] = new]
            /\ Len(new.saves) <= MaxSaves
            /\ new.verified => new.verifying \in registered
            /\ ~new.up => new = Down
            /\ new.stage = "listed" => new.got.there
    <3>0. inst[i].stage # "done" => inst[i].up
      BY <1>0 DEF Down
    <3>s. stored \in Values
      BY DEF TypeOK
    <3>1. CASE LoadRead(i)
      <4> DEFINE new == [inst[i] EXCEPT !.stage = "loaded", !.got = stored]
      <4>9. new \in InstType
        BY <1>0, <3>s DEF InstType, Stages
      <4> QED
        BY <1>0, <4>9, <3>0, <3>1 DEF LoadRead, TypeOK, InstType, Stages
    <3>2. CASE Loaded(i) /\ inst[i].got.there
      <4> DEFINE new == [inst[i] EXCEPT !.stage = "done",
                                        !.got = Nothing,
                                        !.filter = inst[i].got.bits]
      <4>9. new \in InstType
        BY <1>0, ValueTyped DEF InstType, Stages
      <4> QED
        BY <1>0, <4>9, <3>0, <3>2, ValueTyped
           DEF Loaded, LoadedFilter, TypeOK, InstType, Stages
    <3>3. CASE Loaded(i) /\ ~inst[i].got.there
      <4> DEFINE new == [inst[i] EXCEPT !.stage = "seeding"]
      <4>9. new \in InstType
        BY <1>0 DEF InstType, Stages
      <4> QED
        BY <1>0, <4>9, <3>0, <3>3 DEF Loaded, TypeOK, InstType, Stages
    <3>4. CASE SeedRead(i)
      <4>1. Listing \in Values /\ Listing.there
        BY BitsTyped, ValueTyped DEF Listing, Value, TypeOK
      <4> DEFINE new == [inst[i] EXCEPT !.stage = "listed", !.got = Listing]
      <4>9. new \in InstType
        BY <1>0, <4>1 DEF InstType, Stages
      <4> QED
        BY <1>0, <4>9, <3>0, <3>4, <4>1 DEF SeedRead, TypeOK, InstType, Stages
    <3>5. CASE Seeded(i)
      <4> DEFINE f == inst[i].filter \cup inst[i].got.bits
                 s == Persist(inst[i].saves, f)
      <4>1. f \in Filters
        BY <1>0 DEF Filters
      <4>2. s \in Seq(Filters) /\ Len(s) = Len(inst[i].saves) + 1
        BY <1>0, <4>1, OneMore
      <4>3. Len(s) <= MaxSaves
        BY <1>0, <3>5, <4>2 DEF Seeded, CanSave
      <4>4. inst' = [inst EXCEPT ![i] =
                        [inst[i] EXCEPT !.stage = "done", !.got = Nothing,
                                        !.filter = f, !.saves = s]]
        BY <3>5 DEF Seeded, TypeOK
      <4> HIDE DEF f, s
      <4> DEFINE new == [inst[i] EXCEPT !.stage = "done",
                                        !.got = Nothing, !.filter = f, !.saves = s]
      <4>9. new \in InstType
        BY <1>0, <4>1, <4>2, ValueTyped DEF InstType, Stages
      <4>5. inst[i].up
        BY <3>0, <3>5 DEF Seeded
      <4> QED
        BY <1>0, <4>9, <4>1, <4>2, <4>3, <4>4, <4>5, ValueTyped
           DEF TypeOK, InstType, Stages
    <3>6. CASE InitFails(i)
      <4> DEFINE new == [inst[i] EXCEPT !.stage = "done", !.got = Nothing]
      <4>9. new \in InstType
        BY <1>0, ValueTyped DEF InstType, Stages
      <4> QED
        BY <1>0, <4>9, <3>0, <3>6, ValueTyped
           DEF InitFails, TypeOK, InstType, Stages
    <3> QED
      BY <1>2, <3>1, <3>2, <3>3, <3>4, <3>5, <3>6 DEF InitStep, Loaded
  <2>2. /\ registered' = registered /\ stored' = stored /\ chk' = chk
        /\ calm' \in BOOLEAN
    BY <1>2 DEF InitStep, LoadRead, Loaded, SeedRead, Seeded, InitFails, TypeOK
  <2> QED
    BY <2>1, <2>2, InstTyped DEF TypeOK, Running
<1>3. ASSUME NEW i \in Instances, Save(i) \/ SaveFails(i)
      PROVE  TypeOK'
  <2> DEFINE new == [inst[i] EXCEPT !.saves = Tail(inst[i].saves)]
  <2>1. inst[i].saves # <<>> /\ inst' = [inst EXCEPT ![i] = new]
    BY <1>3 DEF Save, SaveFails, TypeOK
  <2>2. /\ Tail(inst[i].saves) \in Seq(Filters) /\ Head(inst[i].saves) \in Filters
        /\ Len(Tail(inst[i].saves)) <= MaxSaves
    BY <1>0, <2>1, FirstGone
  <2>3. inst[i].up
    BY <1>0, <2>1 DEF Down
  <2>4. new \in InstType
    BY <1>0, <2>2 DEF InstType
  <2>5. /\ Len(new.saves) <= MaxSaves /\ new.up
        /\ new.verified => new.verifying \in registered
        /\ new.stage = "listed" => new.got.there
    BY <1>0, <2>2, <2>3 DEF InstType, TypeOK
  <2>6. stored' \in Values
    BY <1>3, <2>2, ValueTyped DEF Save, SaveFails, TypeOK
  <2>7. registered' = registered /\ chk' = chk /\ calm' \in BOOLEAN
    BY <1>3 DEF Save, SaveFails, TypeOK
  <2> HIDE DEF new
  <2> QED
    BY <2>1, <2>4, <2>5, <2>6, <2>7, InstTyped DEF TypeOK, Running
<1>4. ASSUME NEW i \in Instances, Stop(i)
      PROVE  TypeOK'
  <2>1. inst' = [inst EXCEPT ![i] = Down]
    BY <1>4 DEF Stop
  <2>2. /\ Len(Down.saves) <= MaxSaves /\ ~Down.verified /\ Down.stage # "listed"
    BY DEF Down
  <2>3. chk' \in [Checks -> CheckType]
    BY <1>4 DEF Stop, TypeOK, CheckType, IdleCheck
  <2>4. registered' = registered /\ stored' = stored /\ calm' \in BOOLEAN
    BY <1>4 DEF Stop, TypeOK
  <2> QED
    BY <2>1, <2>2, <2>3, <2>4, DownTyped, InstTyped DEF TypeOK, Running
<1>5. ASSUME NEW i \in Instances, NEW e \in Emails, StartVerify(i, e)
      PROVE  TypeOK'
  <2> DEFINE new == [inst[i] EXCEPT !.verifying = e]
  <2>1. inst' = [inst EXCEPT ![i] = new] /\ inst[i].up /\ ~inst[i].verified
    BY <1>0, <1>5 DEF StartVerify, TypeOK, Running
  <2>2. new \in InstType
    BY <1>0 DEF InstType
  <2>3. /\ Len(new.saves) <= MaxSaves /\ new.up /\ ~new.verified
        /\ new.stage = "listed" => new.got.there
    BY <1>0, <2>1 DEF InstType, TypeOK
  <2>4. registered' = registered /\ stored' = stored /\ chk' = chk /\ calm' = calm
    BY <1>5 DEF StartVerify
  <2> HIDE DEF new
  <2> QED
    BY <2>1, <2>2, <2>3, <2>4, InstTyped DEF TypeOK, Running
<1>6. ASSUME NEW i \in Instances, VerifyApplies(i)
      PROVE  TypeOK'
  <2> DEFINE new == [inst[i] EXCEPT !.verified = TRUE]
  <2>1. /\ inst' = [inst EXCEPT ![i] = new] /\ inst[i].up
        /\ inst[i].verifying \in Emails
        /\ registered' = registered \cup {inst[i].verifying}
    BY <1>0, <1>6 DEF VerifyApplies, TypeOK, Down
  <2>2. new \in InstType
    BY <1>0 DEF InstType
  <2>3. /\ Len(new.saves) <= MaxSaves /\ new.up
        /\ new.verifying \in registered'
        /\ new.stage = "listed" => new.got.there
    BY <1>0, <2>1 DEF InstType, TypeOK
  <2>4. stored' = stored /\ chk' = chk /\ calm' = calm
    BY <1>6 DEF VerifyApplies
  <2> HIDE DEF new
  <2> QED
    BY <2>1, <2>2, <2>3, <2>4, InstTyped DEF TypeOK, Running
<1>7. ASSUME NEW i \in Instances, Add(i)
      PROVE  TypeOK'
  <2> DEFINE e == inst[i].verifying
             f == inst[i].filter \cup BitsOf[e]
             s == Persist(inst[i].saves, f)
             new == [inst[i] EXCEPT !.filter = f, !.saves = s, !.verifying = None,
                                    !.verified = FALSE]
  <2>1. inst' = [inst EXCEPT ![i] = new]
    BY <1>7 DEF Add, SavedAfterAdd, TypeOK
  <2>2. f \in Filters
    BY <1>0, <1>7, BitsTyped DEF Add, Filters, TypeOK
  <2>3. s \in Seq(Filters) /\ Len(s) = Len(inst[i].saves) + 1
    BY <1>0, <2>2, OneMore
  <2>4. Len(s) <= MaxSaves /\ inst[i].up
    BY <1>0, <1>7, <2>3 DEF Add, CanSave, Down
  <2> HIDE DEF f, s
  <2>5. new \in InstType
    BY <1>0, <2>2, <2>3 DEF InstType
  <2>6. /\ Len(new.saves) <= MaxSaves /\ new.up /\ ~new.verified
        /\ new.stage = "listed" => new.got.there
    BY <1>0, <2>4 DEF InstType, TypeOK
  <2>7. registered' = registered /\ stored' = stored /\ chk' = chk /\ calm' \in BOOLEAN
    BY <1>7 DEF Add, TypeOK
  <2> HIDE DEF new
  <2> QED
    BY <2>1, <2>5, <2>6, <2>7, InstTyped DEF TypeOK, Running
<1>8. ASSUME NEW i \in Instances, VerifyFails(i)
      PROVE  TypeOK'
  <2> DEFINE new == [inst[i] EXCEPT !.verifying = None, !.verified = FALSE]
  <2>0. inst[i].up
    BY <1>0, <1>8 DEF VerifyFails, Down
  <2>1. inst' = [inst EXCEPT ![i] = new] /\ inst[i].up
    BY <1>8, <2>0 DEF VerifyFails, TypeOK
  <2>2. new \in InstType
    BY <1>0 DEF InstType
  <2>3. /\ Len(new.saves) <= MaxSaves /\ new.up /\ ~new.verified
        /\ new.stage = "listed" => new.got.there
    BY <1>0, <2>1 DEF InstType, TypeOK
  <2>4. registered' = registered /\ stored' = stored /\ chk' = chk /\ calm' \in BOOLEAN
    BY <1>8 DEF VerifyFails, TypeOK
  <2> HIDE DEF new
  <2> QED
    BY <2>1, <2>2, <2>3, <2>4, InstTyped DEF TypeOK, Running
<1>9. ASSUME NEW e \in Emails, RegisterPast(e)
      PROVE  TypeOK'
  BY <1>9 DEF RegisterPast, TypeOK, Running
<1>10. ASSUME NEW c \in Checks, NEW i \in Instances, NEW e \in Emails, Ask(c, i, e)
       PROVE  TypeOK'
  <2> DEFINE due == calm /\ Ready(i) /\ e \in registered /\ ~InFlight(e)
             pc  == IF Has(inst[i].filter, e) THEN "asking" ELSE "available"
  <2>1. due \in BOOLEAN
    BY <1>0 DEF TypeOK, Ready
  <2>2. chk' = [chk EXCEPT ![c] = [pc |-> pc, at |-> i, email |-> e, due |-> due]]
    BY <1>10 DEF Ask
  <2>3. pc \in {"asking", "available"}
    OBVIOUS
  <2> HIDE DEF due, pc
  <2>4. [pc |-> pc, at |-> i, email |-> e, due |-> due] \in CheckType
    BY <2>1, <2>3 DEF CheckType
  <2> QED
    BY <1>10, <2>2, <2>4 DEF Ask, TypeOK, Running
<1>11. ASSUME NEW c \in Checks, Confirmed(c) \/ CheckFails(c) \/ CheckEnds(c)
       PROVE  TypeOK'
  <2>1. /\ [chk[c] EXCEPT !.pc = "taken"] \in CheckType
        /\ [chk[c] EXCEPT !.pc = "failed"] \in CheckType
        /\ IdleCheck \in CheckType
    <3>1. chk[c] \in CheckType
      BY DEF TypeOK
    <3> QED
      BY <3>1 DEF CheckType, IdleCheck
  <2>2. \/ chk' = [chk EXCEPT ![c] = [chk[c] EXCEPT !.pc = "taken"]]
        \/ chk' = [chk EXCEPT ![c] = [chk[c] EXCEPT !.pc = "failed"]]
        \/ chk' = [chk EXCEPT ![c] = IdleCheck]
    BY <1>11 DEF Confirmed, CheckFails, CheckEnds, TypeOK
  <2>3. chk' \in [Checks -> CheckType]
    BY <2>1, <2>2 DEF TypeOK
  <2> QED
    BY <1>11, <2>3 DEF Confirmed, CheckFails, CheckEnds, TypeOK, Running
<1>12. CASE UNCHANGED vars
  BY <1>12 DEF vars, TypeOK, Running
<1> QED
  BY <1>1, <1>2, <1>3, <1>4, <1>5, <1>6, <1>7, <1>8, <1>9, <1>10, <1>11, <1>12
     DEF Next, VerifyStep

(* The variables have their types in every reachable state.                *)
THEOREM TypeCorrect == Spec => []TypeOK
<1>1. Init => TypeOK
  BY DownTyped, ValueTyped, EmailAssumption
     DEF Init, TypeOK, Down, IdleCheck, CheckType, Running
<1> QED
  BY <1>1, TypeOKStep, PTL DEF Spec

------------------------------------------------------------------------------
(* While calm, the one instance that runs is somewhere on the way from     *)
(* what Redis or the user service holds to a filter that covers it, and so *)
(* is its last write.                                                      *)

(* f has every registered address whose add is done.                       *)
Covers(f) == \A e \in registered : InFlight(e) \/ Has(f, e)

StoredComplete == stored.there => Covers(stored.bits)

Latest(i) ==
    /\ inst[i].saves = <<>> => stored.there /\ Covers(stored.bits)
    /\ inst[i].saves # <<>> => Covers(inst[i].saves[Len(inst[i].saves)])

StageInv(i) ==
    Running(i) =>
        /\ inst[i].stage = "done" => Covers(inst[i].filter) /\ Latest(i)
        /\ inst[i].stage # "done" => inst[i].saves = <<>> /\ StoredComplete
        /\ inst[i].stage = "loaded" => inst[i].got = stored
        /\ inst[i].stage \in {"seeding", "listed"} => ~stored.there
        /\ inst[i].stage = "listed" => Covers(inst[i].got.bits)

Alone == \A i, j \in Instances : Running(i) /\ Running(j) => i = j

Quiet == (\A i \in Instances : ~Running(i)) => StoredComplete

EmailInv == calm => Alone /\ Quiet /\ \A i \in Instances : StageInv(i)

(* f has them all after the step.                                          *)
CoversNext(f) == \A e \in registered' : InFlight(e)' \/ Has(f, e)

(* A step of the one instance that runs: the others are down, and what is  *)
(* in flight is its own.                                                   *)
LEMMA OwnStep ==
    ASSUME TypeOK, TypeOK', Alone, NEW i \in Instances, Running(i), Running(i)',
           \A j \in Instances : j # i => inst'[j] = inst[j]
    PROVE  /\ Alone' /\ Quiet'
           /\ \A j \in Instances : j # i => StageInv(j)'
           /\ \A e \in Emails :
                 /\ InFlight(e) <=> inst[i].verifying = e /\ inst[i].verified
                 /\ InFlight(e)' <=> inst'[i].verifying = e /\ inst'[i].verified
<1>1. \A j \in Instances : j # i => ~Running(j) /\ ~Running(j)'
  BY DEF Alone, Running
<1>2. \A j \in Instances : j # i => ~inst[j].verified /\ ~inst'[j].verified
  BY <1>1 DEF TypeOK, Down, Running
<1>3. Alone' /\ Quiet'
  BY <1>1 DEF Alone, Quiet
<1>4. \A j \in Instances : j # i => StageInv(j)'
  BY <1>1 DEF StageInv
<1> QED
  BY <1>2, <1>3, <1>4 DEF InFlight

LEMMA EmailInvStep == TypeOK /\ TypeOK' /\ EmailInv /\ [Next]_vars => EmailInv'
<1> SUFFICES ASSUME TypeOK, TypeOK', EmailInv, [Next]_vars, calm'
             PROVE  Alone' /\ Quiet' /\ \A i \in Instances : StageInv(i)'
  BY DEF EmailInv
<1>c. calm
  BY DEF Next, InitStep, VerifyStep, Start, LoadRead, Loaded, SeedRead, Seeded, InitFails,
         Save, SaveFails, Stop, StartVerify, VerifyApplies, Add, VerifyFails, RegisterPast,
         Ask, Confirmed, CheckFails, CheckEnds, vars
<1>0. Alone /\ Quiet /\ \A i \in Instances : StageInv(i)
  BY <1>c DEF EmailInv
<1>r. registered \subseteq Emails /\ registered' \subseteq Emails
  BY DEF TypeOK
<1>1. ASSUME NEW i \in Instances, Start(i)
      PROVE  Alone' /\ Quiet' /\ \A j \in Instances : StageInv(j)'
  <2>1. /\ \A j \in Instances : ~Running(j)
        /\ inst' = [inst EXCEPT ![i] = Started]
        /\ UNCHANGED <<registered, stored>>
    BY <1>1 DEF Start
  <2>2. /\ inst'[i] = Started
        /\ \A j \in Instances : j # i => inst'[j] = inst[j]
    BY <2>1 DEF TypeOK
  <2>3. \A j \in Instances : ~inst[j].verified /\ ~inst'[j].verified
    BY <2>1, <2>2 DEF TypeOK, Down, Started, Running
  <2>4. \A e \in Emails : ~InFlight(e) /\ ~InFlight(e)'
    BY <2>3 DEF InFlight
  <2>5. StoredComplete'
    BY <1>0, <1>r, <2>1, <2>4 DEF Quiet, StoredComplete, Covers
  <2>6. StageInv(i)'
    BY <2>2, <2>5 DEF StageInv, Started, Down
  <2>7. \A j \in Instances : j # i => ~Running(j)'
    BY <2>1, <2>2 DEF Running
  <2> QED
    BY <2>5, <2>6, <2>7 DEF Alone, Quiet, StageInv
<1>2. ASSUME NEW i \in Instances, InitStep(i)
      PROVE  Alone' /\ Quiet' /\ \A j \in Instances : StageInv(j)'
  <2>0. LoadRead(i) \/ Loaded(i) \/ SeedRead(i) \/ Seeded(i)
    <3>1. ~InitFails(i)
      BY DEF InitFails
    <3> QED
      BY <1>2, <3>1 DEF InitStep
  <2>1. /\ Running(i) /\ inst[i].stage # "done"
        /\ UNCHANGED <<registered, stored>>
    <3>1. inst[i].stage # "done" /\ UNCHANGED <<registered, stored>>
      BY <2>0 DEF LoadRead, Loaded, SeedRead, Seeded
    <3>2. Running(i)
      BY <3>1, InstKnown DEF Running, Down
    <3> QED
      BY <3>1, <3>2
  <2>2. /\ Running(i)'
        /\ inst'[i].verifying = inst[i].verifying /\ inst'[i].verified = inst[i].verified
        /\ \A j \in Instances : j # i => inst'[j] = inst[j]
    <3>1. CASE LoadRead(i)
      BY <3>1, <2>1, InstKnown DEF LoadRead, TypeOK, InstType, Running
    <3>2. CASE Loaded(i) /\ inst[i].got.there
      BY <3>2, <2>1, InstKnown DEF Loaded, TypeOK, InstType, Running
    <3>3. CASE Loaded(i) /\ ~inst[i].got.there
      BY <3>3, <2>1, InstKnown DEF Loaded, TypeOK, InstType, Running
    <3>4. CASE SeedRead(i)
      BY <3>4, <2>1, InstKnown DEF SeedRead, TypeOK, InstType, Running
    <3>5. CASE Seeded(i)
      BY <3>5, <2>1, InstKnown DEF Seeded, TypeOK, InstType, Running
    <3> QED
      BY <2>0, <3>1, <3>2, <3>3, <3>4, <3>5
  <2>3. /\ Alone' /\ Quiet' /\ \A j \in Instances : j # i => StageInv(j)'
        /\ \A e \in Emails : InFlight(e)' <=> InFlight(e)
    BY <1>0, <2>1, <2>2, OwnStep
  <2>4. \A f : Covers(f) => CoversNext(f)
    BY <1>r, <2>1, <2>3 DEF Covers, CoversNext
  <2>5. inst[i].saves = <<>> /\ StoredComplete /\ StoredComplete'
    BY <1>0, <2>1, <2>4 DEF StageInv, StoredComplete, CoversNext, Covers
  <2>6. StageInv(i)'
    <3>1. CASE LoadRead(i)
      <4>1. /\ inst'[i].stage = "loaded" /\ inst'[i].got = stored
            /\ inst'[i].saves = <<>>
        BY <2>5, <3>1 DEF LoadRead, TypeOK, InstType
      <4> QED
        BY <2>1, <2>5, <4>1 DEF StageInv
    <3>2. CASE Loaded(i) /\ inst[i].got.there
      <4>1. /\ inst'[i].stage = "done" /\ inst'[i].filter = inst[i].got.bits
            /\ inst'[i].saves = <<>>
        BY <2>5, <3>2 DEF Loaded, LoadedFilter, TypeOK, InstType
      <4>2. inst[i].got = stored
        BY <1>0, <2>1, <3>2 DEF Loaded, StageInv
      <4>3. stored.there /\ CoversNext(stored.bits)
        BY <2>4, <2>5, <3>2, <4>2 DEF StoredComplete
      <4> QED
        BY <2>1, <4>1, <4>2, <4>3 DEF StageInv, Latest, Covers, CoversNext
    <3>3. CASE Loaded(i) /\ ~inst[i].got.there
      <4>1. inst'[i].stage = "seeding" /\ inst'[i].saves = <<>>
        BY <2>5, <3>3 DEF Loaded, TypeOK, InstType
      <4>2. ~stored.there
        BY <1>0, <2>1, <3>3 DEF Loaded, StageInv
      <4> QED
        BY <2>1, <2>5, <4>1, <4>2 DEF StageInv
    <3>4. CASE SeedRead(i)
      <4>1. /\ inst'[i].stage = "listed" /\ inst'[i].got.bits = BitsOfAll(registered)
            /\ inst'[i].saves = <<>>
        BY <2>5, <3>4 DEF SeedRead, Listing, Value, TypeOK, InstType
      <4>2. ~stored.there
        BY <1>0, <2>1, <3>4 DEF SeedRead, StageInv
      <4>3. \A e \in registered : Has(BitsOfAll(registered), e)
        BY DEF Has, BitsOfAll
      <4>4. Covers(inst[i].got.bits)'
        BY <2>1, <4>1, <4>3 DEF Covers
      <4> QED
        BY <2>1, <2>5, <4>1, <4>2, <4>4 DEF StageInv
    <3>5. CASE Seeded(i)
      <4> DEFINE f == inst[i].filter \cup inst[i].got.bits
                 s == Persist(inst[i].saves, f)
      <4>1. f \in Filters
        BY InstKnown DEF Filters
      <4>2. s # <<>> /\ s[Len(s)] = f
        BY <4>1, InstKnown, OneMore
      <4>3. inst'[i].stage = "done" /\ inst'[i].filter = f /\ inst'[i].saves = s
        BY <3>5 DEF Seeded, TypeOK, InstType
      <4>4. Covers(f)
        BY <1>0, <2>1, <3>5 DEF Seeded, StageInv, Covers, Has
      <4>5. CoversNext(f)
        BY <2>4, <4>4
      <4> HIDE DEF f, s
      <4> QED
        BY <4>2, <4>3, <4>5 DEF StageInv, Latest, Covers, CoversNext
    <3> QED
      BY <2>0, <3>1, <3>2, <3>3, <3>4, <3>5 DEF Loaded
  <2> QED
    BY <2>3, <2>6
<1>3. ASSUME NEW i \in Instances, Save(i)
      PROVE  Alone' /\ Quiet' /\ \A j \in Instances : StageInv(j)'
  <2> DEFINE s == inst[i].saves
  <2>1. /\ Running(i) /\ inst[i].stage = "done" /\ s # <<>>
        /\ registered' = registered /\ stored' = Value(Head(s))
    <3>1. Running(i)
      BY <1>3, InstKnown DEF Save, Running, Down
    <3> QED
      BY <1>0, <1>3, <3>1 DEF Save, StageInv
  <2>2. /\ Running(i)' /\ inst'[i].saves = Tail(s) /\ inst'[i].stage = "done"
        /\ inst'[i].filter = inst[i].filter
        /\ inst'[i].verifying = inst[i].verifying /\ inst'[i].verified = inst[i].verified
        /\ \A j \in Instances : j # i => inst'[j] = inst[j]
    BY <1>3, <2>1, InstKnown DEF Save, TypeOK, InstType, Running
  <2>3. /\ Alone' /\ Quiet' /\ \A j \in Instances : j # i => StageInv(j)'
        /\ \A e \in Emails : InFlight(e)' <=> InFlight(e)
    BY <1>0, <2>1, <2>2, OwnStep
  <2>4. \A f : Covers(f) => CoversNext(f)
    BY <1>r, <2>1, <2>3 DEF Covers, CoversNext
  <2>5. CoversNext(inst[i].filter) /\ CoversNext(s[Len(s)])
    BY <1>0, <2>1, <2>4 DEF StageInv, Latest
  <2>6. s \in Seq(Filters)
    BY InstKnown
  <2>7. /\ Tail(s) # <<>> => Tail(s)[Len(Tail(s))] = s[Len(s)]
        /\ Tail(s) = <<>> => Head(s) = s[Len(s)]
    BY <2>1, <2>6, FirstGone
  <2>8. stored'.there /\ stored'.bits = Head(s)
    BY <2>1 DEF Value
  <2> HIDE DEF s
  <2>9. StageInv(i)'
    BY <2>2, <2>5, <2>7, <2>8 DEF StageInv, Latest, Covers, CoversNext
  <2> QED
    BY <2>3, <2>9
<1>4. ASSUME NEW i \in Instances, Stop(i)
      PROVE  Alone' /\ Quiet' /\ \A j \in Instances : StageInv(j)'
  <2>1. /\ Running(i) /\ UNCHANGED <<registered, stored>>
        /\ ~stored.there \/ (inst[i].saves = <<>> /\ ~inst[i].verified)
    BY <1>4 DEF Stop
  <2>2. /\ inst'[i] = Down
        /\ \A j \in Instances : j # i => inst'[j] = inst[j] /\ ~Running(j)
    BY <1>0, <1>4, <2>1 DEF Stop, TypeOK, Alone
  <2>3. \A j \in Instances : ~Running(j)'
    BY <2>2 DEF Running, Down
  <2>4. StoredComplete'
    <3>1. CASE ~stored.there
      BY <2>1, <3>1 DEF StoredComplete
    <3>2. CASE inst[i].saves = <<>> /\ ~inst[i].verified
      <4>1. \A j \in Instances : ~inst[j].verified
        BY <2>2, <3>2 DEF TypeOK, Running, Down
      <4>2. StoredComplete
        BY <1>0, <2>1, <3>2 DEF StageInv, Latest, StoredComplete
      <4> QED
        BY <2>1, <4>1, <4>2 DEF StoredComplete, Covers, InFlight
    <3> QED
      BY <2>1, <3>1, <3>2
  <2> QED
    BY <2>3, <2>4 DEF Alone, Quiet, StageInv
<1>5. ASSUME NEW i \in Instances, NEW e \in Emails, StartVerify(i, e)
      PROVE  Alone' /\ Quiet' /\ \A j \in Instances : StageInv(j)'
  <2>1. /\ Running(i) /\ ~inst[i].verified /\ UNCHANGED <<registered, stored>>
    BY <1>5, InstKnown, EmailAssumption DEF StartVerify, TypeOK
  <2>2. /\ Running(i)' /\ ~inst'[i].verified
        /\ inst'[i].stage = inst[i].stage /\ inst'[i].filter = inst[i].filter
        /\ inst'[i].saves = inst[i].saves /\ inst'[i].got = inst[i].got
        /\ \A j \in Instances : j # i => inst'[j] = inst[j]
    BY <1>5, <2>1, InstKnown DEF StartVerify, TypeOK, InstType, Running
  <2>3. /\ Alone' /\ Quiet' /\ \A j \in Instances : j # i => StageInv(j)'
        /\ \A d \in Emails : InFlight(d)' <=> InFlight(d)
    BY <1>0, <2>1, <2>2, OwnStep
  <2>4. StageInv(i)'
    BY <1>0, <1>r, <2>1, <2>2, <2>3 DEF StageInv, StoredComplete, Latest, Covers
  <2> QED
    BY <2>3, <2>4
<1>6. ASSUME NEW i \in Instances, VerifyApplies(i)
      PROVE  Alone' /\ Quiet' /\ \A j \in Instances : StageInv(j)'
  <2> DEFINE e == inst[i].verifying
  <2>1. /\ Running(i) /\ ~inst[i].verified /\ stored' = stored
        /\ registered' = registered \cup {e}
    BY <1>6, InstKnown DEF VerifyApplies, Running, Down
  <2>2. /\ Running(i)' /\ inst'[i].verified /\ inst'[i].verifying = e
        /\ inst'[i].stage = inst[i].stage /\ inst'[i].filter = inst[i].filter
        /\ inst'[i].saves = inst[i].saves /\ inst'[i].got = inst[i].got
        /\ \A j \in Instances : j # i => inst'[j] = inst[j]
    BY <1>6, <2>1, InstKnown DEF VerifyApplies, TypeOK, InstType, Running
  <2>3. /\ Alone' /\ Quiet' /\ \A j \in Instances : j # i => StageInv(j)'
        /\ \A d \in Emails : ~InFlight(d) /\ (InFlight(d)' <=> d = e)
    BY <1>0, <2>1, <2>2, OwnStep
  <2>4. \A f : Covers(f) => CoversNext(f)
    BY <1>r, <2>1, <2>3 DEF Covers, CoversNext
  <2>5. StageInv(i)'
    BY <1>0, <2>1, <2>2, <2>4 DEF StageInv, StoredComplete, Latest, Covers, CoversNext
  <2> QED
    BY <2>3, <2>5
<1>7. ASSUME NEW i \in Instances, Add(i)
      PROVE  Alone' /\ Quiet' /\ \A j \in Instances : StageInv(j)'
  <2> DEFINE e == inst[i].verifying
             f == inst[i].filter \cup BitsOf[e]
             s == Persist(inst[i].saves, f)
  <2>1. /\ Running(i) /\ inst[i].stage = "done" /\ e \in Emails
        /\ inst[i].verified /\ UNCHANGED <<registered, stored>>
    <3>1. inst[i].verified /\ UNCHANGED <<registered, stored>>
      BY <1>7 DEF Add
    <3>2. Running(i)
      BY <3>1, InstKnown DEF Running, Down
    <3>3. calm' = (calm /\ inst[i].stage = "done")
      BY <1>7 DEF Add
    <3>4. inst[i].stage = "done"
      BY <3>3, Zenon
    <3>5. e \in Emails
      BY <3>1, <1>r DEF TypeOK
    <3> QED
      BY <3>1, <3>2, <3>4, <3>5
  <2>2. f \in Filters
    BY <2>1, InstKnown, BitsTyped DEF Filters
  <2>3. s # <<>> /\ s[Len(s)] = f
    BY <2>2, InstKnown, OneMore
  <2>4. /\ Running(i)' /\ ~inst'[i].verified /\ inst'[i].stage = "done"
        /\ inst'[i].filter = f /\ inst'[i].saves = s
        /\ \A j \in Instances : j # i => inst'[j] = inst[j]
    BY <1>7, <2>1, InstKnown DEF Add, SavedAfterAdd, TypeOK, InstType, Running
  <2>5. /\ Alone' /\ Quiet' /\ \A j \in Instances : j # i => StageInv(j)'
        /\ \A d \in Emails : ~InFlight(d)' /\ (InFlight(d) <=> d = e)
    BY <1>0, <2>1, <2>4, OwnStep
  <2>6. \A d \in registered : Has(f, d)
    BY <1>0, <1>r, <2>1, <2>5 DEF StageInv, Covers, Has
  <2>7. CoversNext(f)
    BY <2>1, <2>6 DEF CoversNext
  <2> HIDE DEF f, s
  <2>8. StageInv(i)'
    BY <2>3, <2>4, <2>7 DEF StageInv, Latest, Covers, CoversNext
  <2> QED
    BY <2>5, <2>8
<1>8. ASSUME NEW i \in Instances, VerifyFails(i)
      PROVE  Alone' /\ Quiet' /\ \A j \in Instances : StageInv(j)'
  <2>1. /\ Running(i) /\ ~inst[i].verified /\ UNCHANGED <<registered, stored>>
    <3>1. inst[i].verifying # None /\ UNCHANGED <<registered, stored>>
      BY <1>8 DEF VerifyFails
    <3>2. Running(i)
      BY <3>1, InstKnown DEF Running, Down
    <3>3. calm' = (calm /\ ~inst[i].verified)
      BY <1>8 DEF VerifyFails
    <3>4. ~inst[i].verified
      BY <3>3, Zenon
    <3> QED
      BY <3>1, <3>2, <3>4
  <2>2. /\ Running(i)' /\ ~inst'[i].verified
        /\ inst'[i].stage = inst[i].stage /\ inst'[i].filter = inst[i].filter
        /\ inst'[i].saves = inst[i].saves /\ inst'[i].got = inst[i].got
        /\ \A j \in Instances : j # i => inst'[j] = inst[j]
    BY <1>8, <2>1, InstKnown DEF VerifyFails, TypeOK, InstType, Running
  <2>3. /\ Alone' /\ Quiet' /\ \A j \in Instances : j # i => StageInv(j)'
        /\ \A d \in Emails : InFlight(d)' <=> InFlight(d)
    BY <1>0, <2>1, <2>2, OwnStep
  <2>4. StageInv(i)'
    BY <1>0, <1>r, <2>1, <2>2, <2>3 DEF StageInv, StoredComplete, Latest, Covers
  <2> QED
    BY <2>3, <2>4
<1>9. ASSUME NEW e \in Emails, RegisterPast(e)
      PROVE  Alone' /\ Quiet' /\ \A j \in Instances : StageInv(j)'
  BY <1>9 DEF RegisterPast, Alone, Quiet, StageInv, StoredComplete, Running
<1>10. CASE UNCHANGED <<registered, stored, inst>>
  BY <1>0, <1>10 DEF Alone, Quiet, StageInv, StoredComplete, Latest, Covers, InFlight, Running
<1>11. ASSUME NEW i \in Instances, SaveFails(i)
       PROVE  FALSE
  BY <1>11 DEF SaveFails
<1> QED
  BY <1>1, <1>2, <1>3, <1>4, <1>5, <1>6, <1>7, <1>8, <1>9, <1>10, <1>11
     DEF Next, VerifyStep, Ask, Confirmed, CheckFails, CheckEnds, vars

LEMMA EmailInvInit == Init => EmailInv
  BY DEF Init, EmailInv, Alone, Quiet, StageInv, StoredComplete, Nothing, Down, Running

(* No check has been answered "available" that was due to find its address *)
(* in the filter.                                                          *)
LEMMA CalmStep ==
    TypeOK /\ EmailInv /\ CalmNeverForgets /\ [Next]_vars => CalmNeverForgets'
<1> SUFFICES ASSUME TypeOK, EmailInv, CalmNeverForgets, [Next]_vars
             PROVE  CalmNeverForgets'
  OBVIOUS
<1>1. ASSUME NEW c \in Checks, NEW i \in Instances, NEW e \in Emails, Ask(c, i, e)
      PROVE  CalmNeverForgets'
  <2>1. CASE calm /\ Ready(i) /\ e \in registered /\ ~InFlight(e)
    <3>1. Has(inst[i].filter, e)
      BY <2>1 DEF EmailInv, StageInv, Ready, Running, Covers
    <3> QED
      BY <1>1, <3>1 DEF Ask, CalmNeverForgets, TypeOK
  <2>2. CASE ~(calm /\ Ready(i) /\ e \in registered /\ ~InFlight(e))
    BY <1>1, <2>2 DEF Ask, CalmNeverForgets, TypeOK
  <2> QED
    BY <2>1, <2>2
<1>2. ASSUME NEW c \in Checks, Confirmed(c) \/ CheckFails(c) \/ CheckEnds(c)
      PROVE  CalmNeverForgets'
  BY <1>2 DEF Confirmed, CheckFails, CheckEnds, IdleCheck, CalmNeverForgets, TypeOK, CheckType
<1>3. ASSUME NEW i \in Instances, Stop(i)
      PROVE  CalmNeverForgets'
  BY <1>3 DEF Stop, IdleCheck, CalmNeverForgets
<1>4. CASE UNCHANGED chk
  BY <1>4 DEF CalmNeverForgets
<1> QED
  BY <1>1, <1>2, <1>3, <1>4
     DEF Next, InitStep, VerifyStep, Start, LoadRead, Loaded, SeedRead, Seeded, InitFails,
         Save, SaveFails, StartVerify, VerifyApplies, Add, VerifyFails, RegisterPast, vars

(* While nothing has happened that can lose an address, an instance that   *)
(* has finished initializing never calls a registered one available.       *)
THEOREM CalmCorrect == Spec => []CalmNeverForgets
<1>1. Init => CalmNeverForgets
  BY DEF Init, CalmNeverForgets, IdleCheck
<1> QED
  BY <1>1, TypeCorrect, TypeOKStep, EmailInvInit, EmailInvStep, CalmStep, PTL DEF Spec

(* And what Redis holds covers the registered addresses whenever no write  *)
(* is on its way.                                                          *)
THEOREM StoredCorrect == Spec => []StoredCatchesUp
<1>1. EmailInv => StoredCatchesUp
  <2> SUFFICES ASSUME EmailInv, calm, stored.there,
                      \A i \in Instances : inst[i].saves = <<>>
               PROVE  Covers(stored.bits)
    BY DEF StoredCatchesUp, Covers
  <2>1. CASE \E i \in Instances : Running(i)
    BY <2>1 DEF EmailInv, StageInv, Latest, StoredComplete
  <2>2. CASE \A i \in Instances : ~Running(i)
    BY <2>2 DEF EmailInv, Quiet, StoredComplete
  <2> QED
    BY <2>1, <2>2
<1> QED
  BY <1>1, TypeCorrect, TypeOKStep, EmailInvInit, EmailInvStep, PTL DEF Spec

------------------------------------------------------------------------------
(* What the filters never hold.                                            *)

(* More registered addresses have more bits.                               *)
LEMMA BitsGrow ==
    ASSUME NEW R, NEW S, R \subseteq S
    PROVE  BitsOfAll(R) \subseteq BitsOfAll(S)
  BY DEF BitsOfAll

LEMMA BitsOfMember ==
    ASSUME NEW S, NEW e \in S
    PROVE  BitsOf[e] \subseteq BitsOfAll(S)
  BY DEF BitsOfAll

(* The step changes at most the instance i, and puts nothing there but     *)
(* bits of addresses that are registered afterwards.                       *)
LEMMA OwnBits ==
    ASSUME TypeOK, NoForeignBits, NEW i \in Instances,
           registered \subseteq registered', stored' = stored,
           \A j \in Instances : j # i => inst'[j] = inst[j],
           inst'[i].filter \cup inst'[i].got.bits \subseteq BitsOfAll(registered'),
           inst'[i].saves = inst[i].saves
              \/ \A n \in DOMAIN inst'[i].saves :
                    inst'[i].saves[n] \subseteq BitsOfAll(registered')
    PROVE  NoForeignBits'
<1>1. BitsOfAll(registered) \subseteq BitsOfAll(registered')
  BY BitsGrow
<1>2. stored'.bits \subseteq BitsOfAll(registered')
  BY <1>1 DEF NoForeignBits
<1>3. ASSUME NEW j \in Instances
      PROVE  /\ inst'[j].filter \cup inst'[j].got.bits \subseteq BitsOfAll(registered')
             /\ \A n \in DOMAIN inst'[j].saves :
                   inst'[j].saves[n] \subseteq BitsOfAll(registered')
  BY <1>1 DEF NoForeignBits
<1>4. BitsOfAll(registered)' = BitsOfAll(registered')
  BY DEF BitsOfAll
<1> QED
  BY <1>2, <1>3, <1>4 DEF NoForeignBits

(* The writes under way after one more, and after the first is gone.       *)
LEMMA SavesStayCovered ==
    ASSUME NEW s \in Seq(Filters), NEW K,
           \A n \in DOMAIN s : s[n] \subseteq K
    PROVE  /\ \A f \in Filters : f \subseteq K =>
                 \A n \in DOMAIN Persist(s, f) : Persist(s, f)[n] \subseteq K
           /\ s # <<>> => /\ Head(s) \subseteq K
                          /\ \A n \in DOMAIN Tail(s) : Tail(s)[n] \subseteq K
<1>1. ASSUME NEW f \in Filters, f \subseteq K,
             NEW n \in DOMAIN Persist(s, f)
      PROVE  Persist(s, f)[n] \subseteq K
  <2>1. n \in 1..(Len(s) + 1) /\ DOMAIN s = 1..Len(s)
    BY <1>1 DEF Persist
  <2>2. CASE n = Len(s) + 1
    BY <1>1, <2>2 DEF Persist
  <2>3. CASE n \in 1..Len(s)
    <3>1. Append(s, f)[n] = s[n]
      BY <2>3
    <3> QED
      BY <2>1, <2>3, <3>1 DEF Persist
  <2> QED
    BY <2>1, <2>2, <2>3
<1>2. ASSUME s # <<>>
      PROVE  Head(s) \subseteq K /\ \A n \in DOMAIN Tail(s) : Tail(s)[n] \subseteq K
  <2>1. /\ Len(s) \in Nat \ {0} /\ DOMAIN s = 1..Len(s) /\ Head(s) = s[1]
        /\ DOMAIN Tail(s) = 1..(Len(s) - 1)
        /\ \A n \in 1..(Len(s) - 1) : Tail(s)[n] = s[n + 1]
    BY <1>2
  <2>2. \A n \in DOMAIN Tail(s) : n + 1 \in DOMAIN s
    BY <2>1
  <2> QED
    BY <2>1, <2>2
<1> QED
  BY <1>1, <1>2

LEMMA NoForeignStep == TypeOK /\ NoForeignBits /\ [Next]_vars => NoForeignBits'
<1> SUFFICES ASSUME TypeOK, NoForeignBits, [Next]_vars
             PROVE  NoForeignBits'
  OBVIOUS
<1> DEFINE K == BitsOfAll(registered)
<1>k. /\ stored.bits \subseteq K
      /\ \A i \in Instances :
            /\ inst[i].filter \subseteq K /\ inst[i].got.bits \subseteq K
            /\ \A n \in DOMAIN inst[i].saves : inst[i].saves[n] \subseteq K
  BY DEF NoForeignBits
<1>n. Nothing.bits = {} /\ Down.filter = {} /\ Down.got = Nothing /\ Down.saves = <<>>
  BY DEF Nothing, Down
<1>1. ASSUME NEW i \in Instances, Start(i) \/ Stop(i)
      PROVE  NoForeignBits'
  <2>1. /\ inst'[i].filter = {} /\ inst'[i].got.bits = {} /\ inst'[i].saves = <<>>
        /\ \A j \in Instances : j # i => inst'[j] = inst[j]
        /\ registered' = registered /\ stored' = stored
    BY <1>1, <1>n DEF Start, Stop, Started, Down, TypeOK
  <2> QED
    BY <2>1, OwnBits
<1>2. ASSUME NEW i \in Instances, InitStep(i)
      PROVE  NoForeignBits'
  <2>1. /\ registered' = registered /\ stored' = stored
        /\ \A j \in Instances : j # i => inst'[j] = inst[j]
    BY <1>2 DEF InitStep, LoadRead, Loaded, SeedRead, Seeded, InitFails, TypeOK
  <2>2. CASE LoadRead(i)
    <3>1. /\ inst'[i].filter = inst[i].filter /\ inst'[i].got = stored
          /\ inst'[i].saves = inst[i].saves
      BY <2>2 DEF LoadRead, TypeOK, InstType
    <3> QED
      BY <1>k, <2>1, <3>1, OwnBits
  <2>3. CASE Loaded(i)
    <3>1. /\ inst'[i].filter \subseteq K /\ inst'[i].got.bits \subseteq K
          /\ inst'[i].saves = inst[i].saves
      BY <1>k, <1>n, <2>3 DEF Loaded, LoadedFilter, TypeOK, InstType
    <3> QED
      BY <2>1, <3>1, OwnBits
  <2>4. CASE SeedRead(i)
    <3>1. /\ inst'[i].filter = inst[i].filter /\ inst'[i].got.bits = K
          /\ inst'[i].saves = inst[i].saves
      BY <2>4 DEF SeedRead, Listing, Value, TypeOK, InstType
    <3> QED
      BY <1>k, <2>1, <3>1, OwnBits
  <2>5. CASE Seeded(i)
    <3> DEFINE f == inst[i].filter \cup inst[i].got.bits
    <3>1. f \in Filters /\ f \subseteq K
      BY <1>k, InstKnown DEF Filters
    <3>2. /\ inst'[i].filter = f /\ inst'[i].got = Nothing
          /\ inst'[i].saves = Persist(inst[i].saves, f)
      BY <2>5 DEF Seeded, TypeOK, InstType
    <3>3. \A n \in DOMAIN Persist(inst[i].saves, f) : Persist(inst[i].saves, f)[n] \subseteq K
      <4>1. /\ inst[i].saves \in Seq(Filters)
            /\ \A n \in DOMAIN inst[i].saves : inst[i].saves[n] \subseteq K
        BY <1>k, InstKnown
      <4> HIDE DEF f, K
      <4> QED
        BY <3>1, <4>1, SavesStayCovered
    <3> HIDE DEF f
    <3> QED
      BY <1>n, <2>1, <3>1, <3>2, <3>3, OwnBits
  <2>6. CASE InitFails(i)
    <3>1. /\ inst'[i].filter = inst[i].filter /\ inst'[i].got = Nothing
          /\ inst'[i].saves = inst[i].saves
      BY <2>6 DEF InitFails, TypeOK, InstType
    <3> QED
      BY <1>k, <1>n, <2>1, <3>1, OwnBits
  <2> QED
    BY <1>2, <2>2, <2>3, <2>4, <2>5, <2>6 DEF InitStep
<1>3. ASSUME NEW i \in Instances, Save(i) \/ SaveFails(i)
      PROVE  NoForeignBits'
  <2>1. /\ inst[i].saves # <<>> /\ registered' = registered
        /\ inst' = [inst EXCEPT ![i].saves = Tail(inst[i].saves)]
        /\ stored' = stored \/ stored' = Value(Head(inst[i].saves))
    BY <1>3 DEF Save, SaveFails
  <2>0. /\ inst'[i].filter = inst[i].filter /\ inst'[i].got = inst[i].got
        /\ inst'[i].saves = Tail(inst[i].saves)
        /\ \A j \in Instances : j # i => inst'[j] = inst[j]
    BY <2>1 DEF TypeOK, InstType
  <2>2. /\ Head(inst[i].saves) \subseteq K
        /\ \A n \in DOMAIN Tail(inst[i].saves) : Tail(inst[i].saves)[n] \subseteq K
    BY <1>k, <2>1, InstKnown, SavesStayCovered
  <2>3. stored'.bits \subseteq K
    BY <1>k, <2>1, <2>2 DEF Value
  <2>4. ASSUME NEW j \in Instances
        PROVE  /\ inst'[j].filter \cup inst'[j].got.bits \subseteq K
               /\ \A n \in DOMAIN inst'[j].saves : inst'[j].saves[n] \subseteq K
    BY <1>k, <2>0, <2>2
  <2>5. BitsOfAll(registered)' = K
    BY <2>1 DEF BitsOfAll
  <2> QED
    BY <2>3, <2>4, <2>5 DEF NoForeignBits
<1>4. ASSUME NEW i \in Instances,
             (\E e \in Emails : StartVerify(i, e)) \/ VerifyApplies(i) \/ VerifyFails(i)
      PROVE  NoForeignBits'
  <2>1. /\ registered \subseteq registered' /\ stored' = stored
        /\ inst'[i].filter = inst[i].filter /\ inst'[i].got = inst[i].got
        /\ inst'[i].saves = inst[i].saves
        /\ \A j \in Instances : j # i => inst'[j] = inst[j]
    BY <1>4 DEF StartVerify, VerifyApplies, VerifyFails, TypeOK, InstType
  <2>2. K \subseteq BitsOfAll(registered')
    BY <2>1, BitsGrow
  <2>3. inst'[i].filter \cup inst'[i].got.bits \subseteq BitsOfAll(registered')
    BY <1>k, <2>1, <2>2
  <2> QED
    BY <2>1, <2>3, OwnBits
<1>5. ASSUME NEW i \in Instances, Add(i)
      PROVE  NoForeignBits'
  <2> DEFINE e == inst[i].verifying
             f == inst[i].filter \cup BitsOf[e]
  <2>1. e \in registered /\ registered \subseteq Emails
    BY <1>5, InstKnown DEF Add, TypeOK
  <2>2. f \in Filters /\ f \subseteq K
    BY <1>k, <2>1, InstKnown, BitsTyped, BitsOfMember DEF Filters
  <2>3. /\ inst'[i].filter = f /\ inst'[i].got = inst[i].got
        /\ inst'[i].saves = Persist(inst[i].saves, f)
        /\ registered' = registered /\ stored' = stored
        /\ \A j \in Instances : j # i => inst'[j] = inst[j]
    BY <1>5 DEF Add, SavedAfterAdd, TypeOK, InstType
  <2>4. \A n \in DOMAIN Persist(inst[i].saves, f) : Persist(inst[i].saves, f)[n] \subseteq K
    <3>1. /\ inst[i].saves \in Seq(Filters)
          /\ \A n \in DOMAIN inst[i].saves : inst[i].saves[n] \subseteq K
      BY <1>k, InstKnown
    <3> HIDE DEF f, K
    <3> QED
      BY <2>2, <3>1, SavesStayCovered
  <2> HIDE DEF f
  <2> QED
    BY <1>k, <2>2, <2>3, <2>4, OwnBits
<1>6. ASSUME NEW e \in Emails, RegisterPast(e)
      PROVE  NoForeignBits'
  <2>1. registered \subseteq registered' /\ stored' = stored /\ inst' = inst
    BY <1>6 DEF RegisterPast
  <2>2. K \subseteq BitsOfAll(registered') /\ BitsOfAll(registered)' = BitsOfAll(registered')
    BY <2>1, BitsGrow DEF BitsOfAll
  <2> QED
    BY <1>k, <2>1, <2>2 DEF NoForeignBits
<1>7. CASE UNCHANGED <<registered, stored, inst>>
  BY <1>7 DEF NoForeignBits, BitsOfAll
<1> QED
  BY <1>1, <1>2, <1>3, <1>4, <1>5, <1>6, <1>7
     DEF Next, VerifyStep, Ask, Confirmed, CheckFails, CheckEnds, vars

LEMMA NoForeignInit == Init => NoForeignBits
  BY DEF Init, NoForeignBits, Nothing, Down

(* A check in progress has an address whose bits registered ones cover: it *)
(* was a hit of a filter without foreign bits, and registrations only add. *)
LEMMA TakenStep ==
    TypeOK /\ NoForeignBits /\ TakenIsCovered /\ [Next]_vars => TakenIsCovered'
<1> SUFFICES ASSUME TypeOK, NoForeignBits, TakenIsCovered, [Next]_vars,
                    NEW c \in Checks, chk'[c].pc \in {"asking", "taken"}
             PROVE  BitsOf[chk'[c].email] \subseteq BitsOfAll(registered')
  BY DEF TakenIsCovered, Has, BitsOfAll
<1>0. BitsOfAll(registered) \subseteq BitsOfAll(registered')
  <2>1. registered \subseteq registered'
    BY DEF Next, InitStep, VerifyStep, Start, LoadRead, Loaded, SeedRead, Seeded, InitFails,
           Save, SaveFails, Stop, StartVerify, VerifyApplies, Add, VerifyFails,
           RegisterPast, Ask, Confirmed, CheckFails, CheckEnds, vars
  <2> QED
    BY <2>1, BitsGrow
<1>1. CASE chk[c].pc \in {"asking", "taken"} /\ chk'[c].email = chk[c].email
  BY <1>0, <1>1 DEF TakenIsCovered, Has
<1>2. ASSUME NEW i \in Instances, NEW e \in Emails, Ask(c, i, e)
      PROVE  BitsOf[chk'[c].email] \subseteq BitsOfAll(registered')
  <2>1. Has(inst[i].filter, e) /\ chk'[c].email = e
    BY <1>2 DEF Ask, TypeOK
  <2> QED
    BY <1>0, <2>1 DEF NoForeignBits, Has
<1>3. \/ chk[c].pc \in {"asking", "taken"} /\ chk'[c].email = chk[c].email
      \/ \E i \in Instances, e \in Emails : Ask(c, i, e)
  <2>1. CASE UNCHANGED chk
    BY <2>1
  <2>2. CASE \E i \in Instances : Stop(i)
    BY <2>2 DEF Stop, IdleCheck
  <2>3. ASSUME NEW d \in Checks,
               (\E i \in Instances, e \in Emails : Ask(d, i, e))
                  \/ Confirmed(d) \/ CheckFails(d) \/ CheckEnds(d)
        PROVE  \/ chk[c].pc \in {"asking", "taken"} /\ chk'[c].email = chk[c].email
               \/ \E i \in Instances, e \in Emails : Ask(c, i, e)
    BY <2>3 DEF Ask, Confirmed, CheckFails, CheckEnds, IdleCheck, TypeOK, CheckType
  <2> QED
    BY <2>1, <2>2, <2>3
       DEF Next, InitStep, VerifyStep, Start, LoadRead, Loaded, SeedRead, Seeded, InitFails,
           Save, SaveFails, StartVerify, VerifyApplies, Add, VerifyFails, RegisterPast, vars
<1> QED
  BY <1>1, <1>2, <1>3

(* isEmailAvailable says "taken" only of an address whose bits registered  *)
(* addresses cover, for any hashes, restarts, races and lost writes.       *)
THEOREM TakenCorrect == Spec => []TakenIsCovered
<1>1. Init => TakenIsCovered
  BY DEF Init, TakenIsCovered, IdleCheck
<1> QED
  BY <1>1, TypeCorrect, TypeOKStep, NoForeignInit, NoForeignStep, TakenStep, PTL DEF Spec

(* A check in progress is about an address.                                *)
CheckHasAddress == \A c \in Checks : chk[c].pc # "idle" => chk[c].email \in Emails

LEMMA CheckHasAddressStep ==
    TypeOK /\ CheckHasAddress /\ [Next]_vars => CheckHasAddress'
<1> SUFFICES ASSUME TypeOK, CheckHasAddress, [Next]_vars
             PROVE  CheckHasAddress'
  OBVIOUS
<1>1. CASE UNCHANGED chk
  BY <1>1 DEF CheckHasAddress
<1>2. ASSUME NEW i \in Instances, Stop(i)
      PROVE  CheckHasAddress'
  BY <1>2 DEF Stop, IdleCheck, CheckHasAddress
<1>3. ASSUME NEW d \in Checks,
             (\E i \in Instances, e \in Emails : Ask(d, i, e))
                \/ Confirmed(d) \/ CheckFails(d) \/ CheckEnds(d)
      PROVE  CheckHasAddress'
  BY <1>3 DEF Ask, Confirmed, CheckFails, CheckEnds, IdleCheck, TypeOK, CheckType,
              CheckHasAddress
<1> QED
  BY <1>1, <1>2, <1>3
     DEF Next, InitStep, VerifyStep, Start, LoadRead, Loaded, SeedRead, Seeded, InitFails,
         Save, SaveFails, StartVerify, VerifyApplies, Add, VerifyFails, RegisterPast, vars

(* Without false positives, an address called taken is registered: the     *)
(* false positives of the hashes are the only way in which the answer      *)
(* EMAIL_TAKEN can be wrong.                                               *)
THEOREM OnlyFalsePositivesMislead ==
    ASSUME \A S \in SUBSET Emails, e \in Emails : Has(BitsOfAll(S), e) => e \in S
    PROVE  Spec => []TakenIsRegistered
<1>1. TypeOK /\ TakenIsCovered /\ CheckHasAddress => TakenIsRegistered
  BY DEF TypeOK, CheckType, TakenIsCovered, TakenIsRegistered, CheckHasAddress
<1>2. Init => CheckHasAddress
  BY DEF Init, CheckHasAddress, IdleCheck
<1> QED
  BY <1>1, <1>2, TypeCorrect, TypeOKStep, TakenCorrect,
     CheckHasAddressStep, PTL DEF Spec
==============================================================================
