------------------------- MODULE ResponseCacheProofs -------------------------
(***************************************************************************)
(* Proofs about ResponseCache, for any sets of readers, writers and keys,  *)
(* any lifetime of an entry and any number of changes.                     *)
(***************************************************************************)
EXTENDS ResponseCache, TLAPS

LEMMA ListedTyped == TypeOK => \A r \in Readers : Listed(r) \in Responses
  BY CacheAssumption DEF TypeOK, Listed, Responses

LEMMA AgedTyped ==
    ASSUME NEW e \in EntryType
    PROVE  /\ Aged(e) \in EntryType
           /\ Aged(e).ttl > 0 => e.ttl > 0 /\ Aged(e).v = e.v
<1>1. CASE e.ttl > 1
  BY <1>1, CacheAssumption DEF Aged, EntryType
<1>2. CASE ~(e.ttl > 1)
  BY <1>2, CacheAssumption DEF Aged, EntryType, Absent
<1> QED
  BY <1>1, <1>2

(* A reader that a writer overlaps.                                        *)
LEMMA DisturbedTyped ==
    ASSUME NEW q \in ReadType
    PROVE  /\ [q EXCEPT !.calm = FALSE] \in ReadType
           /\ [q EXCEPT !.calm = FALSE].pc = q.pc
           /\ [q EXCEPT !.calm = FALSE].key = q.key
           /\ [q EXCEPT !.calm = FALSE].v = q.v
  BY DEF ReadType

LEMMA TypeOKStep == TypeOK /\ [Next]_vars => TypeOK'
<1> SUFFICES ASSUME TypeOK, [Next]_vars
             PROVE  TypeOK'
  OBVIOUS
<1> USE CacheAssumption DEF TypeOK, service, redis, Live, Reading
<1>1. ASSUME NEW r \in Readers, NEW k \in Keys, Miss(r, k)
      PROVE  TypeOK'
  <2> DEFINE calm == \A w \in Writers : ~Writing(w)
  <2>1. calm \in BOOLEAN
    OBVIOUS
  <2>2. PICK valid \in BOOLEAN :
            rd' = [rd EXCEPT ![r] = [pc |-> "fetch", key |-> k, v |-> None,
                                     valid |-> valid, calm |-> calm]]
    BY <1>1 DEF Miss
  <2> HIDE DEF calm
  <2>3. [pc |-> "fetch", key |-> k, v |-> None, valid |-> valid, calm |-> calm] \in ReadType
    BY <2>1 DEF ReadType
  <2>4. rd' \in [Readers -> ReadType]
    BY <2>2, <2>3
  <2>5. \A q \in Readers : /\ rd'[q].pc # "idle" => rd'[q].key \in Keys
                           /\ rd'[q].pc \in {"set", "tag"} => rd'[q].v \in Responses
    BY <2>2
  <2>6. wr' \in [Writers -> WriteType]
    BY <1>1 DEF Miss, WriteType
  <2> QED
    BY <1>1, <2>4, <2>5, <2>6 DEF Miss
<1>2. ASSUME NEW r \in Readers, ReaderStep(r)
      PROVE  TypeOK'
  <2> USE DEF ReadType, IdleRead
  <2>1. CASE Fetch(r)
    <3>1. /\ Listed(r) \in Responses
          /\ rd[r] \in ReadType /\ rd[r].key \in Keys
      BY <2>1, ListedTyped DEF Fetch
    <3>2. [rd[r] EXCEPT !.pc = "set", !.v = Listed(r), !.valid = TRUE] \in ReadType
      BY <3>1
    <3>3. rd' = [rd EXCEPT ![r] = [rd[r] EXCEPT !.pc = "set", !.v = Listed(r), !.valid = TRUE]]
      BY <2>1 DEF Fetch
    <3>4. rd' \in [Readers -> ReadType]
      BY <3>2, <3>3
    <3>5. \A q \in Readers : /\ rd'[q].pc # "idle" => rd'[q].key \in Keys
                             /\ rd'[q].pc \in {"set", "tag"} => rd'[q].v \in Responses
      BY <3>1, <3>3
    <3> QED
      BY <2>1, <3>4, <3>5 DEF Fetch
  <2>2. CASE FillDropped(r)
    BY <2>2 DEF FillDropped
  <2>3. CASE Fill(r)
    BY <2>3 DEF Fill, Stored, EntryType
  <2>4. CASE Tag(r)
    BY <2>4 DEF Tag
  <2>5. CASE TagFails(r)
    BY <2>5 DEF TagFails
  <2> QED
    BY <1>2, <2>1, <2>2, <2>3, <2>4, <2>5 DEF ReaderStep
<1>3. ASSUME NEW w \in Writers, StartWrite(w)
      PROVE  TypeOK'
  <2> DEFINE calm == \A r \in Readers : ~Reading(r)
  <2>1. calm \in BOOLEAN
    OBVIOUS
  <2>2. wr' = [wr EXCEPT ![w] = [pc |-> "call", v |-> 0, keys |-> {}, calm |-> calm]]
    BY <1>3 DEF StartWrite
  <2> HIDE DEF calm
  <2>3. [pc |-> "call", v |-> 0, keys |-> {}, calm |-> calm] \in WriteType
    BY <2>1 DEF WriteType, Versions
  <2>4. wr' \in [Writers -> WriteType]
    BY <2>2, <2>3
  <2>5. /\ rd' \in [Readers -> ReadType]
        /\ \A q \in Readers : /\ rd'[q].pc # "idle" => rd'[q].key \in Keys
                              /\ rd'[q].pc \in {"set", "tag"} => rd'[q].v \in Responses
    <3>1. ASSUME NEW q \in Readers
          PROVE  /\ [rd[q] EXCEPT !.calm = FALSE] \in ReadType
                 /\ [rd[q] EXCEPT !.calm = FALSE].pc = rd[q].pc
                 /\ [rd[q] EXCEPT !.calm = FALSE].key = rd[q].key
                 /\ [rd[q] EXCEPT !.calm = FALSE].v = rd[q].v
      <4>1. rd[q] \in ReadType
        OBVIOUS
      <4> QED
        BY <4>1, DisturbedTyped
    <3>2. ASSUME NEW q \in Readers
          PROVE  rd'[q] = [rd[q] EXCEPT !.calm = FALSE] \/ rd'[q] = rd[q]
      BY <1>3, Zenon DEF StartWrite
    <3>3. rd' = [q \in Readers |-> rd'[q]]
      BY <1>3 DEF StartWrite
    <3>4. ASSUME NEW q \in Readers
          PROVE  /\ rd'[q] \in ReadType /\ rd'[q].pc = rd[q].pc
                 /\ rd'[q].key = rd[q].key /\ rd'[q].v = rd[q].v
      BY <3>1, <3>2
    <3>5. rd' \in [Readers -> ReadType]
      BY <3>3, <3>4
    <3> QED
      BY <3>4, <3>5
  <2> QED
    BY <1>3, <2>4, <2>5 DEF StartWrite
<1>4. ASSUME NEW w \in Writers,
             Apply(w) \/ Members(w) \/ Delete(w) \/ DropTag(w) \/ WriteFails(w)
      PROVE  TypeOK'
  <2>0. IdleWrite \in WriteType /\ wr[w] \in WriteType
    <3>1. 0 \in Versions
      BY DEF Versions
    <3> QED
      BY <3>1 DEF WriteType, IdleWrite
  <2>1. CASE Apply(w)
    <3>1. version' \in Versions
      BY <2>1 DEF Apply, Change, Versions
    <3>2. [wr[w] EXCEPT !.pc = "members", !.v = version'] \in WriteType
      BY <2>0, <3>1 DEF WriteType
    <3>3. wr' = [wr EXCEPT ![w] = [wr[w] EXCEPT !.pc = "members", !.v = version']]
      BY <2>1 DEF Apply
    <3> QED
      BY <2>1, <3>1, <3>2, <3>3 DEF Apply, Change
  <2>2. CASE Members(w)
    BY <2>2 DEF Members, Found, WriteType
  <2>3. CASE Delete(w)
    BY <2>3 DEF Delete, EntryType, Absent, Kept, WriteType
  <2>4. CASE DropTag(w)
    <3>1. wr[w].v \in Versions /\ floor' \in Versions
      BY <2>0, <2>4 DEF DropTag, WriteType
    <3> QED
      BY <2>0, <2>4, <3>1 DEF DropTag
  <2>5. CASE WriteFails(w)
    BY <2>0, <2>5 DEF WriteFails
  <2> QED
    BY <1>4, <2>1, <2>2, <2>3, <2>4, <2>5
<1>5. CASE SilentWrite
  BY <1>5 DEF SilentWrite, Change, Versions
<1>6. CASE Outage
  BY <1>6 DEF Outage
<1>7. CASE Tick
  BY <1>7, AgedTyped DEF Tick
<1>8. CASE UNCHANGED vars
  BY <1>8 DEF vars
<1> QED
  BY <1>1, <1>2, <1>3, <1>4, <1>5, <1>6, <1>7, <1>8 DEF Next

(* The variables have their types in every reachable state.                *)
THEOREM TypeCorrect == Spec => []TypeOK
<1>1. Init => TypeOK
  BY CacheAssumption DEF Init, TypeOK, Versions, Absent, EntryType, IdleRead, ReadType,
                         IdleWrite, WriteType, Live, Reading
<1> QED
  BY <1>1, TypeOKStep, PTL DEF Spec

------------------------------------------------------------------------------
(* A calm reader is alone with other readers, and a calm writer with other *)
(* writers.                                                                *)
CalmAlone ==
    \A r \in Readers, w \in Writers :
        Reading(r) /\ Writing(w) => ~rd[r].calm /\ ~wr[w].calm

(* How far an invalidation has come with the entries it must not miss:     *)
(* after SMEMBERS it knows them, after DEL there is none of them left.     *)
Gathered ==
    \A w \in Writers, k \in Keys :
        Live(k) /\ k \notin lost /\ ~Tagging(k) =>
            /\ wr[w].pc = "del" => k \in wr[w].keys
            /\ wr[w].pc # "drop"

(* Nothing older than the floor is on its way into the cache, or is found  *)
(* under the key of a reader that has missed it.                           *)
FillsFresh ==
    \A r \in Readers :
        /\ rd[r].pc \in {"set", "tag"} /\ rd[r].v \in Versions => rd[r].v >= floor
        /\ Reading(r) /\ Live(rd[r].key) /\ cache[rd[r].key].v \in Versions
              => cache[rd[r].key].v >= floor

FloorKnown == floor <= version /\ \A w \in Writers : wr[w].v <= version

TagInv  == CalmAlone /\ TaggedUnlessLost /\ Gathered
CacheInv == TagInv /\ FloorKnown /\ FillsFresh /\ InvalidatedIsGone

LEMMA TagInvStep == TypeOK /\ TagInv /\ [Next]_vars => TagInv'
<1> SUFFICES ASSUME TypeOK, TagInv, [Next]_vars
             PROVE  TagInv'
  OBVIOUS
<1> USE DEF service, redis
<1>1. ASSUME NEW r \in Readers, NEW k \in Keys, Miss(r, k)
      PROVE  TagInv'
  <2>1. /\ \A q \in Readers : q # r => rd'[q] = rd[q]
        /\ rd'[r].pc = "fetch"
        /\ rd'[r].calm => \A w \in Writers : ~Writing(w)
    BY <1>1 DEF Miss, TypeOK
  <2>2. \A w \in Writers : /\ wr'[w].pc = wr[w].pc /\ wr'[w].keys = wr[w].keys
                           /\ wr'[w].calm => wr[w].calm
                           /\ Writing(w) => ~wr'[w].calm
    BY <1>1 DEF Miss, TypeOK, WriteType
  <2>3. \A j \in Keys : Tagging(j)' <=> Tagging(j)
    BY <1>1, <2>1 DEF Tagging, Miss, Reading
  <2>4. CalmAlone'
    BY <2>1, <2>2 DEF TagInv, CalmAlone, Reading, Writing
  <2>5. TaggedUnlessLost' /\ Gathered'
    BY <1>1, <2>2, <2>3 DEF Miss, TagInv, TaggedUnlessLost, Gathered, Live
  <2> QED
    BY <2>4, <2>5 DEF TagInv
<1>2. ASSUME NEW r \in Readers, Fetch(r) \/ FillDropped(r)
      PROVE  TagInv'
  <2>1. /\ \A q \in Readers : q # r => rd'[q] = rd[q]
        /\ Reading(r) /\ rd[r].pc # "tag" /\ rd'[r].pc # "tag"
        /\ rd'[r].calm => rd[r].calm
    BY <1>2 DEF Fetch, FillDropped, IdleRead, TypeOK, ReadType, Reading
  <2>2. \A j \in Keys : Tagging(j)' <=> Tagging(j)
    BY <2>1 DEF Tagging
  <2>3. CalmAlone'
    BY <1>2, <2>1 DEF Fetch, FillDropped, TagInv, CalmAlone, Reading, Writing
  <2>4. TaggedUnlessLost' /\ Gathered'
    BY <1>2, <2>2 DEF Fetch, FillDropped, TagInv, TaggedUnlessLost, Gathered, Live
  <2> QED
    BY <2>3, <2>4 DEF TagInv
<1>3. ASSUME NEW r \in Readers, Fill(r)
      PROVE  TagInv'
  <2> DEFINE k == rd[r].key
  <2>1. /\ \A q \in Readers : q # r => rd'[q] = rd[q]
        /\ Reading(r) /\ k \in Keys
        /\ rd'[r].pc = "tag" /\ rd'[r].key = k /\ rd'[r].calm = rd[r].calm
    BY <1>3 DEF Fill, TypeOK, ReadType, Reading
  <2>2. \A j \in Keys : /\ Tagging(j) => Tagging(j)'
                        /\ j = k => Tagging(j)'
    BY <1>3, <2>1 DEF Tagging, Fill
  <2>3. CalmAlone'
    BY <1>3, <2>1 DEF Fill, TagInv, CalmAlone, Reading, Writing
  <2>4. ASSUME NEW j \in Keys, Live(j)', j \notin lost', ~Tagging(j)'
        PROVE  Live(j) /\ j \notin lost /\ ~Tagging(j)
    <3>1. j # k /\ ~Tagging(j)
      BY <2>2, <2>4
    <3> QED
      BY <1>3, <2>4, <3>1 DEF Fill, Live, TypeOK
  <2>5. TaggedUnlessLost' /\ Gathered'
    BY <1>3, <2>4 DEF Fill, TagInv, TaggedUnlessLost, Gathered
  <2> QED
    BY <2>3, <2>5 DEF TagInv
<1>4. ASSUME NEW r \in Readers, Tag(r) \/ TagFails(r)
      PROVE  TagInv'
  <2> DEFINE k == rd[r].key
  <2>1. /\ \A q \in Readers : q # r => rd'[q] = rd[q]
        /\ Reading(r) /\ k \in Keys /\ ~Reading(r)' /\ rd'[r].pc # "tag"
        /\ UNCHANGED <<cache, wr>>
    BY <1>4 DEF Tag, TagFails, IdleRead, TypeOK, Reading
  <2>2. \A j \in Keys : j # k => (Tagging(j)' <=> Tagging(j))
    BY <2>1 DEF Tagging
  <2>3. CalmAlone'
    BY <2>1 DEF TagInv, CalmAlone, Reading, Writing
  <2>4. \A j \in Keys : j # k => (j \in lost' <=> j \in lost) /\ (j \in tagSet' <=> j \in tagSet)
    BY <1>4 DEF Tag, TagFails
  <2>5. k \in lost' \/ (k \in tagSet' /\ rd[r].calm)
    BY <1>4 DEF Tag, TagFails
  <2>6. rd[r].calm => \A w \in Writers : ~Writing(w)
    BY <2>1 DEF TagInv, CalmAlone
  <2>7. TaggedUnlessLost'
    BY <2>1, <2>2, <2>4, <2>5 DEF TagInv, TaggedUnlessLost, Live
  <2>8. Gathered'
    BY <2>1, <2>2, <2>4, <2>5, <2>6 DEF TagInv, Gathered, Live, Writing
  <2> QED
    BY <2>3, <2>7, <2>8 DEF TagInv
<1>5. ASSUME NEW w \in Writers, StartWrite(w)
      PROVE  TagInv'
  <2>1. /\ \A x \in Writers : x # w => wr'[x] = wr[x]
        /\ wr'[w].pc = "call"
        /\ wr'[w].calm => \A r \in Readers : ~Reading(r)
    BY <1>5 DEF StartWrite, TypeOK
  <2>2. \A r \in Readers : /\ rd'[r].pc = rd[r].pc /\ rd'[r].key = rd[r].key
                           /\ rd'[r].calm => rd[r].calm
                           /\ Reading(r) => ~rd'[r].calm
    BY <1>5 DEF StartWrite, TypeOK, ReadType
  <2>3. \A j \in Keys : Tagging(j)' <=> Tagging(j)
    BY <2>2 DEF Tagging
  <2>4. CalmAlone'
    BY <2>1, <2>2 DEF TagInv, CalmAlone, Reading, Writing
  <2>5. TaggedUnlessLost'
    BY <1>5, <2>3 DEF StartWrite, TagInv, TaggedUnlessLost, Live
  <2>6. Gathered'
    BY <1>5, <2>1, <2>3 DEF StartWrite, TagInv, Gathered, Live
  <2> QED
    BY <2>4, <2>5, <2>6 DEF TagInv
<1>6. ASSUME NEW w \in Writers, Apply(w) \/ Members(w) \/ Delete(w) \/ DropTag(w)
                                \/ WriteFails(w)
      PROVE  TagInv'
  <2>1. /\ \A x \in Writers : x # w => wr'[x] = wr[x]
        /\ Writing(w) /\ (wr'[w].calm => wr[w].calm)
        /\ UNCHANGED <<rd, lost>>
    BY <1>6 DEF Apply, Members, Delete, DropTag, WriteFails, IdleWrite, TypeOK,
                WriteType, Writing
  <2>2. \A j \in Keys : Tagging(j)' <=> Tagging(j)
    BY <2>1 DEF Tagging
  <2>3. CalmAlone'
    BY <2>1 DEF TagInv, CalmAlone, Reading, Writing
  <2>4. \A j \in Keys : Live(j)' => Live(j)
    BY <1>6 DEF Apply, Members, Delete, DropTag, WriteFails, Absent, Live, Kept, TypeOK
  <2>5. TaggedUnlessLost'
    <3>1. CASE DropTag(w)
      BY <2>1, <2>2, <2>4, <3>1 DEF DropTag, TagInv, TaggedUnlessLost, Gathered
    <3>2. CASE ~DropTag(w)
      BY <1>6, <2>1, <2>2, <2>4, <3>2
         DEF Apply, Members, Delete, WriteFails, TagInv, TaggedUnlessLost
    <3> QED
      BY <3>1, <3>2
  <2>6. ASSUME NEW j \in Keys, Live(j)', j \notin lost', ~Tagging(j)'
        PROVE  /\ wr'[w].pc = "del" => j \in wr'[w].keys
               /\ wr'[w].pc # "drop"
    <3>1. Live(j) /\ j \notin lost /\ ~Tagging(j) /\ j \in tagSet
      BY <2>1, <2>2, <2>4, <2>6 DEF TagInv, TaggedUnlessLost
    <3>2. CASE Apply(w) \/ DropTag(w) \/ WriteFails(w)
      BY <3>2 DEF Apply, DropTag, WriteFails, IdleWrite, TypeOK, WriteType
    <3>3. CASE Members(w)
      BY <3>1, <3>3 DEF Members, Found, TypeOK, WriteType
    <3>4. CASE Delete(w)
      <4>1. j \in wr[w].keys
        BY <3>1, <3>4 DEF Delete, TagInv, Gathered
      <4>2. ~Live(j)'
        BY <3>4, <4>1 DEF Delete, Kept, Absent, Live
      <4> QED
        BY <2>6, <4>2
    <3> QED
      BY <1>6, <3>2, <3>3, <3>4
  <2>7. Gathered'
    BY <2>1, <2>2, <2>4, <2>6 DEF TagInv, Gathered
  <2> QED
    BY <2>3, <2>5, <2>7 DEF TagInv
<1>7. CASE SilentWrite \/ Outage \/ UNCHANGED vars
  BY <1>7 DEF SilentWrite, Outage, vars, TagInv, CalmAlone, TaggedUnlessLost, Gathered,
              Tagging, Live, Reading, Writing
<1>8. CASE Tick
  <2>1. \A j \in Keys : Live(j)' => Live(j)
    BY <1>8, AgedTyped DEF Tick, Live, TypeOK
  <2> QED
    BY <1>8, <2>1 DEF Tick, TagInv, CalmAlone, TaggedUnlessLost, Gathered, Tagging,
                      Reading, Writing
<1> QED
  BY <1>1, <1>2, <1>3, <1>4, <1>5, <1>6, <1>7, <1>8 DEF Next, ReaderStep

LEMMA CacheInvStep == TypeOK /\ CacheInv /\ [Next]_vars => CacheInv'
<1> SUFFICES ASSUME TypeOK, CacheInv, [Next]_vars
             PROVE  FloorKnown' /\ FillsFresh' /\ InvalidatedIsGone'
  BY TagInvStep DEF CacheInv
<1> USE DEF service, redis
<1>a. /\ version \in Nat /\ floor \in Nat /\ floor <= version
      /\ Versions \subseteq Nat
      /\ \A w \in Writers : wr[w].v \in Nat /\ wr[w].v <= version
  BY CacheAssumption DEF TypeOK, CacheInv, FloorKnown, Versions, WriteType
<1>1. ASSUME NEW r \in Readers, NEW k \in Keys, Miss(r, k)
      PROVE  FloorKnown' /\ FillsFresh' /\ InvalidatedIsGone'
  <2>1. /\ \A q \in Readers : q # r => rd'[q] = rd[q]
        /\ rd'[r].pc = "fetch" /\ rd'[r].key = k /\ ~Live(k)
        /\ UNCHANGED <<version, cache, floor, lost>>
    BY <1>1 DEF Miss, TypeOK
  <2>2. \A w \in Writers : wr'[w].v = wr[w].v
    BY <1>1 DEF Miss, TypeOK, WriteType
  <2> QED
    BY <2>1, <2>2 DEF CacheInv, FloorKnown, FillsFresh, InvalidatedIsGone, Live, Reading
<1>2. ASSUME NEW r \in Readers, Fetch(r)
      PROVE  FloorKnown' /\ FillsFresh' /\ InvalidatedIsGone'
  <2>1. /\ \A q \in Readers : q # r => rd'[q] = rd[q]
        /\ Reading(r) /\ rd'[r].key = rd[r].key
        /\ rd'[r].v = version \/ rd'[r].v = Error
        /\ UNCHANGED <<version, cache, wr, floor, lost>>
    BY <1>2 DEF Fetch, Listed, TypeOK, ReadType, Reading
  <2>2. Error \notin Versions
    BY <1>a, CacheAssumption
  <2> QED
    BY <1>a, <2>1, <2>2 DEF CacheInv, FloorKnown, FillsFresh, InvalidatedIsGone, Live, Reading
<1>3. ASSUME NEW r \in Readers, Fill(r)
      PROVE  FloorKnown' /\ FillsFresh' /\ InvalidatedIsGone'
  <2> DEFINE k == rd[r].key
  <2>1. /\ rd[r].pc = "set" /\ k \in Keys
        /\ rd[r].v \in Versions => rd[r].v >= floor
        /\ UNCHANGED <<version, wr, floor>>
    BY <1>3 DEF Fill, TypeOK, Reading, CacheInv, FillsFresh
  <2>2. \A q \in Readers : /\ rd'[q].key = rd[q].key /\ rd'[q].v = rd[q].v
                           /\ q # r => rd'[q].pc = rd[q].pc
    BY <1>3 DEF Fill, TypeOK, ReadType
  <2>3. cache'[k].v = rd[r].v /\ \A j \in Keys : j # k => cache'[j] = cache[j]
    BY <1>3, <2>1 DEF Fill, Stored, TypeOK
  <2>4. \A j \in Keys : j \notin lost' => j \notin lost
    BY <1>3 DEF Fill
  <2>5. FloorKnown'
    BY <2>1 DEF CacheInv, FloorKnown
  <2>6. FillsFresh'
    <3> SUFFICES ASSUME NEW q \in Readers
                 PROVE  /\ rd'[q].pc \in {"set", "tag"} /\ rd'[q].v \in Versions
                              => rd'[q].v >= floor'
                        /\ Reading(q)' /\ cache'[rd[q].key].ttl > 0
                              /\ cache'[rd[q].key].v \in Versions
                              => cache'[rd[q].key].v >= floor'
      BY <2>2 DEF FillsFresh, Live
    <3>1. Reading(q)' => Reading(q) /\ rd[q].key \in Keys
      BY <2>1, <2>2 DEF Reading, TypeOK
    <3>2. rd'[q].pc \in {"set", "tag"} /\ rd'[q].v \in Versions => rd'[q].v >= floor'
      BY <2>1, <2>2 DEF CacheInv, FillsFresh
    <3>3. CASE rd[q].key = k
      BY <2>1, <2>3, <3>2, <3>3
    <3>4. CASE rd[q].key # k
      BY <2>1, <2>3, <3>1, <3>2, <3>4 DEF CacheInv, FillsFresh, Live
    <3> QED
      BY <3>3, <3>4
  <2>7. InvalidatedIsGone'
    BY <2>1, <2>3, <2>4 DEF CacheInv, InvalidatedIsGone, Live
  <2> QED
    BY <2>5, <2>6, <2>7
<1>4. ASSUME NEW r \in Readers, Tag(r) \/ TagFails(r)
      PROVE  FloorKnown' /\ FillsFresh' /\ InvalidatedIsGone'
  <2>1. /\ \A q \in Readers : q # r => rd'[q] = rd[q]
        /\ Reading(r) /\ rd'[r].pc = "idle"
        /\ \A j \in Keys : j \notin lost' => j \notin lost \/ j = rd[r].key
        /\ UNCHANGED <<version, cache, wr, floor>>
    BY <1>4 DEF Tag, TagFails, IdleRead, TypeOK, Reading
  <2>2. FloorKnown' /\ FillsFresh'
    BY <2>1 DEF CacheInv, FloorKnown, FillsFresh, Live, Reading
  <2>3. InvalidatedIsGone'
    BY <2>1 DEF CacheInv, FillsFresh, InvalidatedIsGone, Live
  <2> QED
    BY <2>2, <2>3
<1>5. ASSUME NEW r \in Readers, FillDropped(r)
      PROVE  FloorKnown' /\ FillsFresh' /\ InvalidatedIsGone'
  <2>1. /\ \A q \in Readers : q # r => rd'[q] = rd[q]
        /\ rd'[r].pc = "idle"
        /\ UNCHANGED <<version, cache, wr, floor, lost>>
    BY <1>5 DEF FillDropped, IdleRead, TypeOK
  <2> QED
    BY <2>1 DEF CacheInv, FloorKnown, FillsFresh, InvalidatedIsGone, Live, Reading
<1>6. ASSUME NEW w \in Writers, StartWrite(w)
      PROVE  FloorKnown' /\ FillsFresh' /\ InvalidatedIsGone'
  <2>1. /\ \A x \in Writers : wr'[x].v = wr[x].v \/ wr'[x].v = 0
        /\ UNCHANGED <<version, cache, floor, lost>>
    BY <1>6 DEF StartWrite, TypeOK
  <2>2. \A q \in Readers : /\ rd'[q].pc = rd[q].pc /\ rd'[q].key = rd[q].key
                           /\ rd'[q].v = rd[q].v
    BY <1>6 DEF StartWrite, TypeOK, ReadType
  <2> QED
    BY <1>a, <2>1, <2>2 DEF CacheInv, FloorKnown, FillsFresh, InvalidatedIsGone, Live, Reading
<1>7. ASSUME NEW w \in Writers, Apply(w)
      PROVE  FloorKnown' /\ FillsFresh' /\ InvalidatedIsGone'
  <2>1. /\ version' = version + 1
        /\ \A x \in Writers : wr'[x].v = wr[x].v \/ wr'[x].v = version'
        /\ UNCHANGED <<cache, rd, floor, lost>>
    BY <1>7 DEF Apply, Change, TypeOK, WriteType
  <2>2. FloorKnown'
    BY <1>a, <2>1 DEF FloorKnown
  <2>3. FillsFresh' /\ InvalidatedIsGone'
    BY <2>1 DEF CacheInv, FillsFresh, InvalidatedIsGone, Live, Reading
  <2> QED
    BY <2>2, <2>3
<1>8. ASSUME NEW w \in Writers, Members(w) \/ Delete(w) \/ WriteFails(w)
      PROVE  FloorKnown' /\ FillsFresh' /\ InvalidatedIsGone'
  <2>1. /\ \A x \in Writers : wr'[x].v = wr[x].v \/ wr'[x].v = 0
        /\ UNCHANGED <<version, rd, floor, lost>>
        /\ \A k \in Keys : cache'[k] = cache[k] \/ cache'[k].ttl = 0
    BY <1>8 DEF Members, Delete, WriteFails, IdleWrite, Absent, TypeOK, WriteType
  <2>2. FloorKnown'
    BY <1>a, <2>1 DEF FloorKnown
  <2>3. \A k \in Keys : Live(k)' => Live(k) /\ cache'[k] = cache[k]
    BY <2>1 DEF Live
  <2>4. FillsFresh' /\ InvalidatedIsGone'
    BY <2>1, <2>3 DEF CacheInv, FillsFresh, InvalidatedIsGone, Reading, TypeOK
  <2> QED
    BY <2>2, <2>4
<1>9. ASSUME NEW w \in Writers, DropTag(w)
      PROVE  FloorKnown' /\ FillsFresh' /\ InvalidatedIsGone'
  <2>1. /\ \A x \in Writers : wr'[x].v = wr[x].v \/ wr'[x].v = 0
        /\ UNCHANGED <<version, cache, rd, lost>>
        /\ floor' = floor \/ (wr[w].calm /\ floor' = wr[w].v)
    BY <1>9 DEF DropTag, IdleWrite, TypeOK
  <2>2. FloorKnown'
    BY <1>a, <2>1 DEF FloorKnown
  <2>3. CASE floor' = floor
    BY <2>1, <2>2, <2>3 DEF CacheInv, FillsFresh, InvalidatedIsGone, Live, Reading
  <2>4. CASE wr[w].calm
    <3>1. \A q \in Readers : ~Reading(q)
      BY <1>9, <2>4 DEF DropTag, CacheInv, TagInv, CalmAlone, Writing
    <3>2. \A k \in Keys : ~(Live(k) /\ k \notin lost)
      BY <1>9, <3>1 DEF DropTag, CacheInv, TagInv, Gathered, Tagging, Reading
    <3> QED
      BY <2>1, <2>2, <3>1, <3>2 DEF FillsFresh, InvalidatedIsGone, Live, Reading
  <2> QED
    BY <2>1, <2>3, <2>4
<1>10. CASE SilentWrite \/ Outage \/ UNCHANGED vars
  <2>1. /\ version' = version \/ version' = version + 1
        /\ UNCHANGED <<cache, rd, wr, floor, lost>>
    BY <1>10 DEF SilentWrite, Change, Outage, vars
  <2>2. FloorKnown'
    BY <1>a, <2>1 DEF FloorKnown
  <2> QED
    BY <2>1, <2>2 DEF CacheInv, FillsFresh, InvalidatedIsGone, Live, Reading
<1>11. CASE Tick
  <2>1. /\ UNCHANGED <<version, rd, wr, floor, lost>>
        /\ \A k \in Keys : Live(k)' => Live(k) /\ cache'[k].v = cache[k].v
    BY <1>11, AgedTyped DEF Tick, Live, TypeOK
  <2> QED
    BY <2>1 DEF CacheInv, FloorKnown, FillsFresh, InvalidatedIsGone, Reading, TypeOK
<1> QED
  BY <1>1, <1>2, <1>3, <1>4, <1>5, <1>6, <1>7, <1>8, <1>9, <1>10, <1>11
     DEF Next, ReaderStep

LEMMA CacheInvariant == Spec => []CacheInv
<1>1. Init => CacheInv
  <2> SUFFICES ASSUME Init
               PROVE  CacheInv
    OBVIOUS
  <2>1. /\ \A k \in Keys : ~Live(k)
        /\ \A r \in Readers : ~Reading(r) /\ rd[r].pc = "idle"
        /\ \A w \in Writers : ~Writing(w) /\ wr[w].pc = "idle" /\ wr[w].v = 0
        /\ floor = 0 /\ version = 0
    BY DEF Init, Absent, Live, IdleRead, Reading, IdleWrite, Writing
  <2> QED
    BY <2>1 DEF CacheInv, TagInv, CalmAlone, TaggedUnlessLost, Gathered, FillsFresh,
                FloorKnown, InvalidatedIsGone
<1> QED
  BY <1>1, TypeCorrect, CacheInvStep, PTL DEF Spec

(* An entry whose fill neither failed nor overlapped a writer is found by  *)
(* the next invalidation (cacheMiddleware, invalidateTag).                 *)
THEOREM TaggedCorrect == Spec => []TaggedUnlessLost
<1>1. CacheInv => TaggedUnlessLost
  BY DEF CacheInv, TagInv
<1> QED
  BY <1>1, CacheInvariant, PTL

(* After an invalidation that overlapped no fill, no undisturbed entry     *)
(* holds a listing older than the change that was invalidated.             *)
THEOREM InvalidationCorrect == Spec => []InvalidatedIsGone
<1>1. CacheInv => InvalidatedIsGone
  BY DEF CacheInv
<1> QED
  BY <1>1, CacheInvariant, PTL

------------------------------------------------------------------------------
(* The refinement.                                                         *)

(* The copies of answers: in the cache, and on their way to it.            *)
copies ==
    {cache[k].v : k \in {j \in Keys : Live(j)}}
    \cup {rd[r].v : r \in {q \in Readers : rd[q].pc \in {"set", "tag"}}}

(* A step that brings nothing that could not be served before.             *)
BringsNothing ==
    /\ UNCHANGED version
    /\ failing' => failing
    /\ copies' \subseteq servable

(* A step that may begin a failure and copies nothing.                     *)
CopiesNothing == UNCHANGED version /\ copies' = copies

LEMMA CopiesSame ==
    ASSUME UNCHANGED cache,
           \A q \in Readers : /\ rd'[q].pc \in {"set", "tag"} <=> rd[q].pc \in {"set", "tag"}
                              /\ rd[q].pc \in {"set", "tag"} => rd'[q].v = rd[q].v
    PROVE  copies' = copies
  BY DEF copies, Live

(* Only a change brings a new listing, and only an outage or a malformed   *)
(* query a new failure.                                                    *)
LEMMA ServableStep ==
    TypeOK /\ [Next]_vars =>
        BringsNothing \/ (Change /\ UNCHANGED <<cache, rd>>) \/ CopiesNothing
<1> SUFFICES ASSUME TypeOK, [Next]_vars
             PROVE  BringsNothing \/ (Change /\ UNCHANGED <<cache, rd>>) \/ CopiesNothing
  OBVIOUS
<1> USE DEF service, redis
<1>1. ASSUME NEW r \in Readers, Fetch(r)
      PROVE  BringsNothing
  <2>1. /\ \A q \in Readers : q # r => rd'[q] = rd[q]
        /\ rd'[r].v = (IF up /\ rd[r].valid THEN version ELSE Error)
        /\ rd'[r].valid
        /\ UNCHANGED <<version, up, cache>>
    BY <1>1 DEF Fetch, Listed, TypeOK, ReadType
  <2>2. copies' \subseteq servable
    BY <2>1 DEF copies, servable, failing, Live
  <2>3. failing' => failing
    BY <2>1 DEF failing
  <2> QED
    BY <2>1, <2>2, <2>3 DEF BringsNothing
<1>2. ASSUME NEW r \in Readers, Fill(r)
      PROVE  BringsNothing
  <2>1. /\ rd[r].pc = "set" /\ rd[r].key \in Keys
        /\ \A q \in Readers : /\ rd'[q].v = rd[q].v /\ rd'[q].valid = rd[q].valid
                              /\ rd'[q].pc \in {"set", "tag"} => rd[q].pc \in {"set", "tag"}
        /\ \A k \in Keys : cache'[k] = cache[k] \/ cache'[k].v = rd[r].v
        /\ UNCHANGED <<version, up>>
    BY <1>2 DEF Fill, Stored, TypeOK, ReadType, Reading
  <2>2. copies' \subseteq servable
    BY <2>1 DEF copies, servable, Live
  <2>3. failing' => failing
    BY <2>1 DEF failing
  <2> QED
    BY <2>1, <2>2, <2>3 DEF BringsNothing
<1>3. ASSUME NEW r \in Readers, FillDropped(r) \/ Tag(r) \/ TagFails(r)
      PROVE  BringsNothing
  <2>1. /\ UNCHANGED <<version, up, cache>>
        /\ \A q \in Readers : q # r => rd'[q] = rd[q]
        /\ rd'[r].pc = "idle" /\ rd'[r].valid
    BY <1>3 DEF FillDropped, Tag, TagFails, IdleRead, TypeOK
  <2>2. copies' \subseteq servable
    BY <2>1 DEF copies, servable, Live
  <2>3. failing' => failing
    BY <2>1 DEF failing
  <2> QED
    BY <2>1, <2>2, <2>3 DEF BringsNothing
<1>4. ASSUME NEW w \in Writers, Members(w) \/ Delete(w) \/ DropTag(w) \/ WriteFails(w)
      PROVE  BringsNothing
  <2>1. UNCHANGED <<version, up, rd>>
    BY <1>4 DEF Members, Delete, DropTag, WriteFails
  <2>2. \A k \in Keys : Live(k)' => Live(k) /\ cache'[k].v = cache[k].v
    BY <1>4 DEF Members, Delete, DropTag, WriteFails, Absent, Live, TypeOK
  <2>3. copies' \subseteq servable
    BY <2>1, <2>2 DEF copies, servable
  <2> QED
    BY <2>1, <2>3 DEF BringsNothing, failing
<1>5. ASSUME Tick
      PROVE  BringsNothing
  <2>1. \A k \in Keys : Live(k)' => Live(k) /\ cache'[k].v = cache[k].v
    BY <1>5, AgedTyped DEF Tick, Live, TypeOK
  <2>2. UNCHANGED <<version, up, rd>>
    BY <1>5 DEF Tick
  <2>3. copies' \subseteq servable
    BY <2>1, <2>2 DEF copies, servable
  <2> QED
    BY <2>2, <2>3 DEF BringsNothing, failing
<1>6. ASSUME Outage \/ (UNCHANGED vars) \/ (\E w \in Writers : StartWrite(w))
             \/ (\E r \in Readers, k \in Keys : Miss(r, k))
      PROVE  CopiesNothing
  <2>1. UNCHANGED <<version, cache>>
    BY <1>6 DEF Outage, vars, StartWrite, Miss
  <2>2. ASSUME NEW q \in Readers
        PROVE  /\ rd'[q].pc \in {"set", "tag"} <=> rd[q].pc \in {"set", "tag"}
               /\ rd[q].pc \in {"set", "tag"} => rd'[q].v = rd[q].v
    <3>1. ASSUME NEW r \in Readers, NEW k \in Keys, Miss(r, k)
          PROVE  rd'[q] = rd[q] \/ (rd'[q].pc = "fetch" /\ rd[q].pc = "idle")
      BY <3>1 DEF Miss, TypeOK, Reading
    <3>2. ASSUME NEW w \in Writers, StartWrite(w)
          PROVE  rd'[q].pc = rd[q].pc /\ rd'[q].v = rd[q].v
      BY <3>2 DEF StartWrite, TypeOK, ReadType
    <3>3. CASE Outage \/ UNCHANGED vars
      BY <3>3 DEF Outage, vars
    <3> QED
      BY <1>6, <3>1, <3>2, <3>3
  <2> QED
    BY <2>1, <2>2, CopiesSame DEF CopiesNothing
<1>7. ASSUME SilentWrite \/ \E w \in Writers : Apply(w)
      PROVE  Change /\ UNCHANGED <<cache, rd>>
  BY <1>7 DEF SilentWrite, Apply
<1> QED
  BY <1>1, <1>2, <1>3, <1>4, <1>5, <1>6, <1>7 DEF Next, ReaderStep

LEMMA PromiseStep ==
    TypeOK /\ [Next]_vars => Promise!Next
<1> SUFFICES ASSUME TypeOK, [Next]_vars
             PROVE  Promise!Next
  OBVIOUS
<1>0. servable = {version} \cup (IF failing THEN {Error} ELSE {}) \cup copies
  BY DEF servable, copies
<1>1. servable' = {version'} \cup (IF failing' THEN {Error} ELSE {}) \cup copies'
  BY DEF servable, copies
<1>2. Promise!Current'
  BY <1>1 DEF Promise!Current
<1>3. CASE UNCHANGED version /\ (failing' => failing) /\ copies' \subseteq servable
  BY <1>0, <1>1, <1>2, <1>3 DEF Promise!Next, Promise!Forget
<1>4. CASE Change /\ UNCHANGED <<cache, rd>>
  <2>1. UNCHANGED failing /\ copies' = copies
    BY <1>4 DEF Change, failing, copies, Live
  <2>2. servable' \subseteq servable \cup {version'}
    BY <1>0, <1>1, <2>1
  <2> QED
    BY <1>2, <1>4, <2>1, <2>2 DEF Change, Promise!Next, Promise!Publish
<1>5. CASE CopiesNothing /\ failing' /\ ~failing
  <2>1. servable' = servable \cup {Error}
    BY <1>0, <1>1, <1>5 DEF CopiesNothing
  <2>2. failing' = TRUE
    BY <1>5 DEF failing
  <2> QED
    BY <1>5, <2>1, <2>2 DEF CopiesNothing, Promise!Next, Promise!Break
<1>6. CASE CopiesNothing /\ (failing' => failing)
  BY <1>0, <1>3, <1>6 DEF CopiesNothing
<1> QED
  BY <1>3, <1>4, <1>5, <1>6, ServableStep DEF BringsNothing

(* The cache implements the promise: an outdated listing that nobody keeps *)
(* any more never comes back, and an error that nobody keeps any more only *)
(* with a new outage or a new malformed query.                             *)
THEOREM PromiseKept == Spec => KeepsPromise
<1>1. Init => Promise!Init
  <2> SUFFICES ASSUME Init
               PROVE  Promise!Init
    OBVIOUS
  <2>1. ~failing /\ failing = FALSE
    BY DEF Init, IdleRead, failing
  <2> QED
    BY <2>1 DEF Init, Promise!Init, servable, Absent, Live, IdleRead
<1>2. TypeOK /\ [Next]_vars => [Promise!Next]_(Promise!vars)
  BY PromiseStep
<1> QED
  BY <1>1, <1>2, TypeCorrect, PTL DEF Spec, KeepsPromise, Promise!Spec

------------------------------------------------------------------------------
(* What is outdated only gets older.                                       *)

(* A step that fills nothing and lets no reader read.                      *)
LEMMA QuietStale ==
    ASSUME TypeOK,
           \A r \in Readers : rd'[r].pc = "set" =>
               rd[r].pc = "set" /\ rd'[r].v = rd[r].v /\ rd'[r].key = rd[r].key,
           \A k \in Keys : Live(k)' =>
               Live(k) /\ cache'[k].v = cache[k].v /\ cache'[k].ttl <= cache[k].ttl,
           Tick => \A k \in Keys : Live(k) => cache'[k].ttl < cache[k].ttl
    PROVE  StaleStep
  BY DEF StaleStep

(* A tick takes time from every entry that has some.                       *)
LEMMA AgedLess ==
    ASSUME NEW e \in EntryType, e.ttl > 0
    PROVE  Aged(e).ttl \in Nat /\ Aged(e).ttl < e.ttl
<1>1. e.ttl \in Nat
  BY CacheAssumption DEF EntryType
<1> QED
  BY <1>1 DEF Aged, Absent, EntryType

LEMMA StaleStepHolds == TypeOK /\ [Next]_vars => [StaleStep]_vars
<1> SUFFICES ASSUME TypeOK, Next
             PROVE  StaleStep
  OBVIOUS
<1> USE DEF service, redis
<1>0. \A k \in Keys : cache[k].ttl \in Nat /\ cache[k] \in EntryType
  BY CacheAssumption DEF TypeOK, EntryType
<1>t. ASSUME UNCHANGED cache
      PROVE  /\ \A k \in Keys : Live(k)' =>
                   Live(k) /\ cache'[k].v = cache[k].v /\ cache'[k].ttl <= cache[k].ttl
             /\ Tick => \A k \in Keys : Live(k) => cache'[k].ttl < cache[k].ttl
  <2>1. \A k \in Keys : cache'[k] = cache[k] /\ (Live(k)' <=> Live(k))
    BY <1>t DEF Live
  <2>2. ~Tick
    <3> SUFFICES ASSUME Tick
                 PROVE  FALSE
      OBVIOUS
    <3>1. PICK k \in Keys : Live(k) /\ cache'[k] = Aged(cache[k])
      BY DEF Tick
    <3>2. cache'[k].ttl < cache[k].ttl
      BY <1>0, <3>1, AgedLess DEF Live
    <3> QED
      BY <1>0, <2>1, <3>2
  <2> QED
    BY <1>0, <2>1, <2>2
<1>1. ASSUME NEW r \in Readers, NEW k \in Keys, Miss(r, k)
      PROVE  StaleStep
  <2>1. UNCHANGED cache /\ \A q \in Readers : rd'[q] = rd[q] \/ rd'[q].pc = "fetch"
    BY <1>1 DEF Miss, TypeOK
  <2> QED
    BY <1>t, <2>1, QuietStale
<1>2. ASSUME NEW r \in Readers, Fetch(r)
      PROVE  StaleStep
  <2>1. /\ UNCHANGED <<cache, version>>
        /\ \A q \in Readers : q # r => rd'[q] = rd[q]
        /\ rd'[r].v \in {version, Error}
    BY <1>2 DEF Fetch, Listed, TypeOK, ReadType
  <2> QED
    BY <1>t, <2>1 DEF StaleStep, Outdated
<1>3. ASSUME NEW r \in Readers, FillDropped(r) \/ Tag(r) \/ TagFails(r)
      PROVE  StaleStep
  <2>1. UNCHANGED cache /\ \A q \in Readers : rd'[q] = rd[q] \/ rd'[q].pc = "idle"
    BY <1>3 DEF FillDropped, Tag, TagFails, IdleRead, TypeOK
  <2> QED
    BY <1>t, <2>1, QuietStale
<1>4. ASSUME NEW r \in Readers, Fill(r)
      PROVE  StaleStep
  <2> DEFINE k == rd[r].key
  <2>1. /\ rd[r].pc = "set" /\ k \in Keys /\ rd'[r].pc = "tag"
        /\ \A q \in Readers : q # r => rd'[q] = rd[q]
        /\ cache'[k].v = rd[r].v /\ cache'[k].ttl = CacheTTL
        /\ \A j \in Keys : j # k => cache'[j] = cache[j]
    BY <1>4 DEF Fill, Stored, TypeOK, ReadType, Reading
  <2>2. ~Tick
    <3> SUFFICES ASSUME Tick
                 PROVE  FALSE
      OBVIOUS
    <3>1. rd' = rd
      BY DEF Tick
    <3> QED
      BY <2>1, <3>1
  <2>3. ASSUME NEW j \in Keys, Live(j)'
        PROVE  \/ /\ Live(j) /\ cache'[j].v = cache[j].v
                  /\ cache'[j].ttl <= cache[j].ttl
               \/ \E q \in Readers :
                     /\ rd[q].pc = "set" /\ rd[q].key = j /\ rd[q].v = cache'[j].v
                     /\ rd'[q].pc = "tag"
    <3>1. CASE j = k
      BY <2>1, <3>1
    <3>2. CASE j # k
      BY <1>0, <2>1, <2>3, <3>2 DEF Live
    <3> QED
      BY <3>1, <3>2
  <2>4. \A q \in Readers : rd'[q].pc = "set" =>
            rd[q].pc = "set" /\ rd'[q].v = rd[q].v /\ rd'[q].key = rd[q].key
    BY <2>1
  <2> QED
    BY <2>2, <2>3, <2>4 DEF StaleStep
<1>5. ASSUME NEW w \in Writers, StartWrite(w)
      PROVE  StaleStep
  <2>1. UNCHANGED cache
        /\ \A q \in Readers : /\ rd'[q].pc = rd[q].pc /\ rd'[q].v = rd[q].v
                               /\ rd'[q].key = rd[q].key
    BY <1>5 DEF StartWrite, TypeOK, ReadType
  <2> QED
    BY <1>t, <2>1, QuietStale
<1>6. ASSUME NEW w \in Writers, Delete(w)
      PROVE  StaleStep
  <2>1. UNCHANGED rd /\ \A k \in Keys : cache'[k] = cache[k] \/ cache'[k].ttl = 0
    BY <1>6 DEF Delete, Absent
  <2>2. ~Tick
    <3> SUFFICES ASSUME Tick
                 PROVE  FALSE
      OBVIOUS
    <3>1. wr' = wr /\ wr[w].pc = "del" /\ wr'[w].pc = "drop"
      BY <1>6 DEF Tick, Delete, TypeOK
    <3> QED
      BY <3>1
  <2> QED
    BY <1>0, <2>1, <2>2, QuietStale DEF Live
<1>7. CASE \/ SilentWrite \/ Outage
           \/ \E w \in Writers : Apply(w) \/ Members(w) \/ DropTag(w) \/ WriteFails(w)
  <2>1. UNCHANGED <<cache, rd>>
    BY <1>7 DEF SilentWrite, Outage, Apply, Members, DropTag, WriteFails
  <2> QED
    BY <1>t, <2>1, QuietStale
<1>8. CASE Tick
  <2>1. \A k \in Keys : /\ Live(k)' => Live(k) /\ cache'[k].v = cache[k].v
                        /\ Live(k) => cache'[k].ttl \in Nat /\ cache'[k].ttl < cache[k].ttl
    BY <1>0, <1>8, AgedTyped, AgedLess DEF Tick, Live
  <2>2. UNCHANGED rd
    BY <1>8 DEF Tick
  <2>3. \A k \in Keys : Live(k)' => cache'[k].ttl <= cache[k].ttl
    BY <1>0, <2>1
  <2> QED
    BY <2>1, <2>2, <2>3, QuietStale
<1> QED
  BY <1>1, <1>2, <1>3, <1>4, <1>5, <1>6, <1>7, <1>8 DEF Next, ReaderStep

(* While the users do not change, outdated entries only age and no fill    *)
(* begins to bring one: what EventuallyFresh rests on, for any lifetime.   *)
THEOREM StaleAges == Spec => StaleOnlyAges
  BY TypeCorrect, StaleStepHolds, PTL DEF Spec, StaleOnlyAges

(* An outdated listing that nobody keeps any more is never served again,   *)
(* whatever fills, invalidations and failures follow (ListingPromise).     *)
THEOREM GoneForGood ==
    ASSUME NEW v \in Nat
    PROVE  Spec => [](v < version /\ v \notin servable => [](v \notin servable))
<1> DEFINE Gone == v < version /\ v \notin servable
           Known == version \in Nat
<1>1. Promise!Init => Known
  BY DEF Promise!Init
<1>2. Known /\ [Promise!Next]_(Promise!vars) => Known'
  BY DEF Promise!Next, Promise!Publish, Promise!Break, Promise!Forget, Promise!vars
<1>3. Known /\ Gone /\ [Promise!Next]_(Promise!vars) => Gone'
  <2> SUFFICES ASSUME Known, Gone, [Promise!Next]_(Promise!vars)
               PROVE  Gone'
    OBVIOUS
  <2>1. CASE Promise!Publish
    BY <2>1 DEF Promise!Publish
  <2>2. CASE Promise!Break
    BY <2>2, CacheAssumption DEF Promise!Break
  <2>3. CASE Promise!Forget \/ UNCHANGED Promise!vars
    BY <2>3 DEF Promise!Forget, Promise!vars
  <2> QED
    BY <2>1, <2>2, <2>3 DEF Promise!Next
<1>4. Gone => v \notin servable
  OBVIOUS
<1> HIDE DEF Gone, Known
<1>5. Spec => [](Gone => [](v \notin servable))
  BY <1>1, <1>2, <1>3, <1>4, PromiseKept, PTL DEF KeepsPromise, Promise!Spec
<1> QED
  BY <1>5 DEF Gone

(* While the user service stays up and no malformed query is under way, an *)
(* error that is not served any more stays away: only an outage or a       *)
(* malformed query can bring one back into the cache.                      *)
THEOREM ErrorsStayAway ==
    Spec => []([]~failing => (Error \notin servable => [](Error \notin servable)))
<1> DEFINE Known == version \in Nat
           Faded == Error \notin servable
           Fails == failing
<1>1. Promise!Init => Known
  BY DEF Promise!Init
<1>2. Known /\ [Promise!Next]_(Promise!vars) => Known'
  BY DEF Promise!Next, Promise!Publish, Promise!Break, Promise!Forget, Promise!vars
<1>3. Known /\ ~Fails /\ ~Fails' /\ Faded /\ [Promise!Next]_(Promise!vars) => Faded'
  <2> SUFFICES ASSUME Known, ~failing', Faded, [Promise!Next]_(Promise!vars)
               PROVE  Faded'
    OBVIOUS
  <2>1. CASE Promise!Publish
    BY <2>1, CacheAssumption DEF Promise!Publish
  <2>2. CASE Promise!Break
    BY <2>2 DEF Promise!Break
  <2>3. CASE Promise!Forget \/ UNCHANGED Promise!vars
    BY <2>3 DEF Promise!Forget, Promise!vars
  <2> QED
    BY <2>1, <2>2, <2>3 DEF Promise!Next
<1> HIDE DEF Known, Faded, Fails
<1>4. Spec => []([]~Fails => (Faded => []Faded))
  BY <1>1, <1>2, <1>3, PromiseKept, PTL DEF KeepsPromise, Promise!Spec
<1> QED
  BY <1>4 DEF Faded, Fails
==============================================================================
