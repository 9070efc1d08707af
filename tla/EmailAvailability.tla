-------------------------- MODULE EmailAvailability --------------------------
(***************************************************************************)
(* The e-mail availability check (BloomFilterFacade over                   *)
(* EmailAvailabilityStrategy).  Every gateway instance holds a Bloom       *)
(* filter of the registered addresses.  It starts listening while the      *)
(* filter is still being loaded from Redis or, when Redis has none, seeded *)
(* from the user service; it adds each address it verifies and writes the  *)
(* whole filter back without waiting for the write.  A miss of the filter  *)
(* is answered at once, a hit asks the user service.                       *)
(*                                                                         *)
(* A filter is the set of its bits.  Everything between two awaits is one  *)
(* step; the commands of one instance reach Redis in the order it sent     *)
(* them; instances stop at any point and start again empty.                *)
(***************************************************************************)
EXTENDS Naturals, Sequences

CONSTANTS
    Instances,  \* gateway instances
    Checks,     \* availability checks that can be in progress at once
    Emails,     \* addresses, lower-cased and trimmed
    Bits,       \* bits of the filter
    BitsOf,     \* BitsOf[e]: the bits the hashes of e name
    MaxSaves,   \* bound on the writes of one instance on their way to Redis
    None        \* no address, no instance

ASSUME EmailAssumption ==
    /\ BitsOf \in [Emails -> SUBSET Bits]
    /\ MaxSaves \in Nat \ {0}
    /\ None \notin Emails \cup Instances

VARIABLES
    registered,  \* addresses the user service holds (external)
    stored,      \* the value under redisKey: Nothing or Value(filter)
    inst,        \* inst[i]: the instance i
    chk,         \* chk[c]: the check c
    \* History, read by no guard:
    calm         \* nothing has happened yet that can lose an address

vars == <<registered, stored, inst, chk, calm>>

Filters  == SUBSET Bits
Nothing  == [there |-> FALSE, bits |-> {}]
Value(f) == [there |-> TRUE, bits |-> f]
Values   == {Nothing} \cup {Value(f) : f \in Filters}

(* The stages of initialize(); at "done" it has ended, well or not.        *)
Stages == {"loading", "loaded", "seeding", "listed", "done"}

Down    == [up |-> FALSE, stage |-> "done", filter |-> {}, got |-> Nothing,
            saves |-> <<>>, verifying |-> None, verified |-> FALSE]
Started == [Down EXCEPT !.up = TRUE, !.stage = "loading"]
IdleCheck == [pc |-> "idle", at |-> None, email |-> None, due |-> FALSE]

BitsOfAll(S)   == UNION {BitsOf[e] : e \in S}
Has(f, e)      == BitsOf[e] \subseteq f
Running(i)     == inst[i].up
Ready(i)       == inst[i].up /\ inst[i].stage = "done"

(* Its registration is done, its add at the instance still to come.        *)
InFlight(e) == \E i \in Instances : inst[i].verifying = e /\ inst[i].verified

Init ==
    /\ registered \in SUBSET Emails
    /\ stored = Nothing
    /\ inst   = [i \in Instances |-> Down]
    /\ chk    = [c \in Checks |-> IdleCheck]
    /\ calm   = TRUE

------------------------------------------------------------------------------
(* Start-up.  initializeUtils does not wait for it.                        *)

Start(i) ==
    /\ ~Running(i)
    /\ inst' = [inst EXCEPT ![i] = Started]
    /\ calm' = (calm /\ \A j \in Instances : ~Running(j))
    /\ UNCHANGED <<registered, stored, chk>>

(* GET redisKey.                                                           *)
LoadRead(i) ==
    /\ inst[i].stage = "loading"
    /\ inst' = [inst EXCEPT ![i].stage = "loaded", ![i].got = stored]
    /\ UNCHANGED <<registered, stored, chk, calm>>

\* Mutant: what Redis has is ignored.
LoadedFilterLost(f, got) == f

(* fromJSON: a NEW filter, whatever has been added to the one before.      *)
LoadedFilter(f, got) == got.bits

(* The reply of the GET: the filter is there, or it must be seeded.        *)
Loaded(i) ==
    /\ inst[i].stage = "loaded"
    /\ \/ /\ inst[i].got.there
          /\ inst' = [inst EXCEPT ![i].stage = "done", ![i].got = Nothing,
                         ![i].filter = LoadedFilter(inst[i].filter, inst[i].got)]
       \/ /\ ~inst[i].got.there
          /\ inst' = [inst EXCEPT ![i].stage = "seeding"]
    /\ UNCHANGED <<registered, stored, chk, calm>>

\* Mutant: a reply without emails is not refused.
ListingOfNone == Nothing

Listing == Value(BitsOfAll(registered))

(* getUserEmails at the user service.                                      *)
SeedRead(i) ==
    /\ inst[i].stage = "seeding"
    /\ inst' = [inst EXCEPT ![i].stage = "listed", ![i].got = Listing]
    /\ UNCHANGED <<registered, stored, chk, calm>>

(* SET redisKey is sent; the snapshot is taken now.                        *)
Persist(saves, f) == Append(saves, f)

CanSave(i) == Len(inst[i].saves) < MaxSaves

(* The reply of getUserEmails: every address is added, the filter saved.   *)
Seeded(i) ==
    LET f == inst[i].filter \cup inst[i].got.bits IN
    /\ inst[i].stage = "listed"
    /\ CanSave(i)
    /\ inst' = [inst EXCEPT ![i].stage = "done", ![i].got = Nothing, ![i].filter = f,
                            ![i].saves = Persist(@, f)]
    /\ UNCHANGED <<registered, stored, chk, calm>>

(* The GET, the call or the parsing fails: initialize() swallows it, so    *)
(* withRetry has nothing to retry, and the instance goes on as it is.      *)
InitFails(i) ==
    /\ Running(i)
    /\ inst[i].stage # "done"
    /\ inst' = [inst EXCEPT ![i].stage = "done", ![i].got = Nothing]
    /\ calm' = FALSE
    /\ UNCHANGED <<registered, stored, chk>>

(* The first write on its way reaches Redis, behind the GET.               *)
Save(i) ==
    /\ inst[i].saves # <<>>
    /\ inst[i].stage # "loading"
    /\ stored' = Value(Head(inst[i].saves))
    /\ inst' = [inst EXCEPT ![i].saves = Tail(@)]
    /\ UNCHANGED <<registered, chk, calm>>

(* The write fails; nobody awaits it and unhandledRejection only logs it.  *)
SaveFails(i) ==
    /\ inst[i].saves # <<>>
    /\ inst' = [inst EXCEPT ![i].saves = Tail(@)]
    /\ calm' = FALSE
    /\ UNCHANGED <<registered, stored, chk>>

(* The instance stops, with all it was doing.                              *)
Stop(i) ==
    /\ Running(i)
    /\ inst' = [inst EXCEPT ![i] = Down]
    /\ chk' = [c \in Checks |-> IF chk[c].at = i THEN IdleCheck ELSE chk[c]]
    /\ calm' = (calm /\ \/ ~stored.there
                        \/ inst[i].saves = <<>> /\ ~inst[i].verified)
    /\ UNCHANGED <<registered, stored>>

------------------------------------------------------------------------------
(* Registration.  An instance verifies one address at a time, and one that *)
(* is not registered yet (two bounds).                                     *)

StartVerify(i, e) ==
    /\ Running(i)
    /\ inst[i].verifying = None
    /\ e \notin registered
    /\ inst' = [inst EXCEPT ![i].verifying = e]
    /\ UNCHANGED <<registered, stored, chk, calm>>

(* The user service registers the address.                                 *)
VerifyApplies(i) ==
    /\ inst[i].verifying # None
    /\ ~inst[i].verified
    /\ registered' = registered \cup {inst[i].verifying}
    /\ inst' = [inst EXCEPT ![i].verified = TRUE]
    /\ UNCHANGED <<stored, chk, calm>>

\* Mutant: the snapshot is taken before the address is added.
SavedAfterAddEarly(f, e) == f

SavedAfterAdd(f, e) == f \cup BitsOf[e]

\* Mutant: the handler adds the address without waiting for verifyUser.
AddAtOnce(i) ==
    LET e == inst[i].verifying IN
    /\ e # None
    /\ CanSave(i)
    /\ inst' = [inst EXCEPT ![i].filter = @ \cup BitsOf[e],
                   ![i].saves = Persist(@, SavedAfterAdd(inst[i].filter, e)),
                   ![i].verifying = None, ![i].verified = FALSE]
    /\ calm' = (calm /\ inst[i].stage = "done")
    /\ UNCHANGED <<registered, stored, chk>>

(* The reply: addEmail puts the address in the filter and sends the filter *)
(* to Redis, awaited by nobody.                                            *)
Add(i) ==
    LET e == inst[i].verifying IN
    /\ inst[i].verified
    /\ CanSave(i)
    /\ inst' = [inst EXCEPT ![i].filter = @ \cup BitsOf[e],
                   ![i].saves = Persist(@, SavedAfterAdd(inst[i].filter, e)),
                   ![i].verifying = None, ![i].verified = FALSE]
    /\ calm' = (calm /\ inst[i].stage = "done")
    /\ UNCHANGED <<registered, stored, chk>>

(* The call fails, applied or not: the handler throws and adds nothing.    *)
VerifyFails(i) ==
    /\ inst[i].verifying # None
    /\ inst' = [inst EXCEPT ![i].verifying = None, ![i].verified = FALSE]
    /\ calm' = (calm /\ ~inst[i].verified)
    /\ UNCHANGED <<registered, stored, chk>>

(* An address is registered past the filter: by an OAuth sign-in, which    *)
(* adds nothing, or by a call the gateway has given up.                    *)
RegisterPast(e) ==
    /\ e \notin registered
    /\ registered' = registered \cup {e}
    /\ calm' = (calm /\ ~stored.there /\ \A i \in Instances : ~Running(i))
    /\ UNCHANGED <<stored, inst, chk>>

------------------------------------------------------------------------------
(* The check: isEmailAvailable.                                            *)

(* The filter is asked; a miss is the answer.                              *)
Ask(c, i, e) ==
    /\ chk[c].pc = "idle"
    /\ Running(i)
    /\ chk' = [chk EXCEPT ![c] =
                 [pc |-> IF Has(inst[i].filter, e) THEN "asking" ELSE "available",
                  at |-> i, email |-> e,
                  due |-> calm /\ Ready(i) /\ e \in registered /\ ~InFlight(e)]]
    /\ UNCHANGED <<registered, stored, inst, calm>>

(* A hit: checkUserEmailExist.  Whatever message its reply holds, there is *)
(* a reply, and that is what checkInDatabase looks at.                     *)
Confirmed(c) ==
    /\ chk[c].pc = "asking"
    /\ chk' = [chk EXCEPT ![c].pc = "taken"]
    /\ UNCHANGED <<registered, stored, inst, calm>>

CheckFails(c) ==
    /\ chk[c].pc = "asking"
    /\ chk' = [chk EXCEPT ![c].pc = "failed"]
    /\ UNCHANGED <<registered, stored, inst, calm>>

CheckEnds(c) ==
    /\ chk[c].pc \in {"available", "taken", "failed"}
    /\ chk' = [chk EXCEPT ![c] = IdleCheck]
    /\ UNCHANGED <<registered, stored, inst, calm>>

InitStep(i) ==
    \/ LoadRead(i) \/ Loaded(i) \/ SeedRead(i) \/ Seeded(i) \/ InitFails(i)

VerifyStep(i) == VerifyApplies(i) \/ Add(i) \/ VerifyFails(i)

Next ==
    \/ \E i \in Instances :
          \/ Start(i) \/ InitStep(i) \/ Save(i) \/ SaveFails(i) \/ Stop(i)
          \/ (\E e \in Emails : StartVerify(i, e)) \/ VerifyStep(i)
    \/ \E e \in Emails : RegisterPast(e)
    \/ \E c \in Checks :
          \/ \E i \in Instances, e \in Emails : Ask(c, i, e)
          \/ Confirmed(c) \/ CheckFails(c) \/ CheckEnds(c)

Spec == Init /\ [][Next]_vars

------------------------------------------------------------------------------
(* Properties.                                                             *)

InstType == [up : BOOLEAN, stage : Stages, filter : Filters,
             got : Values, saves : Seq(Filters),
             verifying : Emails \cup {None}, verified : BOOLEAN]
CheckType == [pc : {"idle", "asking", "available", "taken", "failed"},
              at : Instances \cup {None}, email : Emails \cup {None},
              due : BOOLEAN]

(* The variables have their types; an instance that is down does nothing,  *)
(* and what it is said to have verified is an address.                     *)
TypeOK ==
    /\ registered \subseteq Emails
    /\ stored \in Values
    /\ inst \in [Instances -> InstType]
    /\ \A i \in Instances :
          /\ Len(inst[i].saves) <= MaxSaves
          /\ inst[i].verified => inst[i].verifying \in registered
          /\ ~Running(i) => inst[i] = Down
          /\ inst[i].stage = "listed" => inst[i].got.there
    /\ chk \in [Checks -> CheckType]
    /\ calm \in BOOLEAN

(* A registered address is not called available by an instance that has    *)
(* finished initializing, through any number of restarts, loads and seeds, *)
(* as long as one instance runs at a time, every registration goes through *)
(* its add while the instance is not initializing, no write to Redis and   *)
(* no initialization fails, and no instance stops with a write under way.  *)
CalmNeverForgets ==
    \A c \in Checks : chk[c].due => chk[c].pc # "available"

(* As long as that is so, what Redis holds covers every registered address *)
(* whose add is done as soon as no write is on its way: an instance that   *)
(* starts then starts complete.                                            *)
StoredCatchesUp ==
    calm /\ stored.there /\ (\A i \in Instances : inst[i].saves = <<>>)
        => \A e \in registered : InFlight(e) \/ Has(stored.bits, e)

(* No bit reaches a filter, a write under way or Redis but those of        *)
(* registered addresses: verifyUser adds only after the reply, and what is *)
(* loaded or seeded was written or listed before.                          *)
NoForeignBits ==
    LET Known == BitsOfAll(registered) IN
    /\ stored.bits \subseteq Known
    /\ \A i \in Instances :
          /\ inst[i].filter \cup inst[i].got.bits \subseteq Known
          /\ \A n \in DOMAIN inst[i].saves : inst[i].saves[n] \subseteq Known

(* An address is asked about, and called taken, only if registered         *)
(* addresses cover its bits: a failed or refused registration, a crash and *)
(* a late write to Redis leave nothing behind that blocks the address.     *)
TakenIsCovered ==
    \A c \in Checks :
       chk[c].pc \in {"asking", "taken"} => Has(BitsOfAll(registered), chk[c].email)

(* What the answer EMAIL_TAKEN says ("The provided email address is        *)
(* already in use"): an address called taken is registered.                *)
TakenIsRegistered ==
    \A c \in Checks : chk[c].pc = "taken" => chk[c].email \in registered
==============================================================================
