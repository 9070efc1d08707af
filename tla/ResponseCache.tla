---------------------------- MODULE ResponseCache ----------------------------
(***************************************************************************)
(* The response cache of the user listing (GET /admin/users): a reader     *)
(* that misses fills it after it has been answered (cacheMiddleware), and  *)
(* a writer that has changed a user empties it by tag after it has been    *)
(* answered (invalidateCacheMiddleware).                                   *)
(*                                                                         *)
(* A fill is a Redis GET, the gRPC read, a SET with a lifetime and a SADD  *)
(* of the key to the set of the tag; an invalidation is SMEMBERS, DEL of   *)
(* the members and DEL of the set.  Nothing orders these commands: every   *)
(* one of them is a step, and all requests interleave.  A listing is the   *)
(* number of changes the user service had applied when it was read.        *)
(***************************************************************************)
EXTENDS Naturals

CONSTANTS
    Readers,    \* GET requests that can be in progress at once
    Writers,    \* PATCH requests that can be in progress at once
    Keys,       \* cache keys, all tagged users:list; a query and a malformed one
                \* can have the same (no page, and a page that is not a number)
    CacheTTL,   \* lifetime of an entry, in ticks
    MaxVersion, \* bound on the changes to the users
    Error,      \* the response of a reader whose query is refused by the schema
                \* or whose gRPC call failed
    None        \* no response, no key

ASSUME CacheAssumption ==
    /\ CacheTTL \in Nat \ {0}
    /\ MaxVersion \in Nat
    /\ Error \notin Nat \cup {None}
    /\ None \notin Nat \cup Keys

VARIABLES
    version,  \* changes the user service has applied (external)
    up,       \* the user service answers (external)
    cache,    \* cache[k]: the response under k and the ticks it has left
    tagSet,   \* the members of tag:users:list
    rd,       \* rd[r]: the reader r, once it has missed
    wr,       \* wr[w]: the writer w
    \* History, read by no guard:
    floor,    \* the last change that a calm writer has invalidated
    lost      \* keys whose entry an invalidation may have missed

service == <<version, up>>
redis   == <<cache, tagSet>>
vars    == <<version, up, cache, tagSet, rd, wr, floor, lost>>

Versions  == 0..MaxVersion
Responses == Versions \cup {Error}
Absent    == [v |-> None, ttl |-> 0]
IdleRead  == [pc |-> "idle", key |-> None, v |-> None, valid |-> TRUE, calm |-> FALSE]
IdleWrite == [pc |-> "idle", v |-> 0, keys |-> {}, calm |-> FALSE]

Live(k)    == cache[k].ttl > 0
Reading(r) == rd[r].pc # "idle"
Writing(w) == wr[w].pc # "idle"

(* A reader has filled k and its SADD is still to come.                    *)
Tagging(k) == \E r \in Readers : rd[r].pc = "tag" /\ rd[r].key = k

Init ==
    /\ version = 0
    /\ up      = TRUE
    /\ cache   = [k \in Keys |-> Absent]
    /\ tagSet  = {}
    /\ rd      = [r \in Readers |-> IdleRead]
    /\ wr      = [w \in Writers |-> IdleWrite]
    /\ floor   = 0
    /\ lost    = {}

------------------------------------------------------------------------------
(* Readers.  A hit answers from the entry and changes nothing.             *)

(* The GET finds nothing: the handler runs, its response wrapped.  The key *)
(* is computed before the query is validated, so a malformed query gets    *)
(* here too.  The writers and readers under way are calm no more (history).*)
Miss(r, k) ==
    /\ ~Reading(r)
    /\ ~Live(k)
    /\ \E valid \in BOOLEAN :
          rd' = [rd EXCEPT ![r] = [pc |-> "fetch", key |-> k, v |-> None, valid |-> valid,
                                   calm |-> \A w \in Writers : ~Writing(w)]]
    /\ wr' = [w \in Writers |-> IF Writing(w) THEN [wr[w] EXCEPT !.calm = FALSE]
                                ELSE wr[w]]
    /\ UNCHANGED <<service, redis, floor, lost>>

\* Mutant: a failure answered with the listing a fresh service would have.
ListedEmpty(r) == IF up /\ rd[r].valid THEN version ELSE 0

\* Mutant: a listing without changes is falsy, and taken for a failure.
ListedFalsy(r) == IF up /\ rd[r].valid /\ version # 0 THEN version ELSE Error

(* What the handler of r answers: the listing, or the error the            *)
(* errorHandler writes through the same wrapped response, be it the        *)
(* gRPC call that failed or validateSchema that refused the query.         *)
Listed(r) == IF up /\ rd[r].valid THEN version ELSE Error

(* The query is validated and the users are read; the client is answered.  *)
Fetch(r) ==
    /\ rd[r].pc = "fetch"
    /\ rd' = [rd EXCEPT ![r].pc = "set", ![r].v = Listed(r), ![r].valid = TRUE]
    /\ UNCHANGED <<service, redis, wr, floor, lost>>

(* No finish event (the client has gone), or a SET that fails: the rest of *)
(* the fill does not happen.                                               *)
FillDropped(r) ==
    /\ rd[r].pc \in {"fetch", "set"}
    /\ rd' = [rd EXCEPT ![r] = IdleRead]
    /\ UNCHANGED <<service, redis, wr, floor, lost>>

\* Mutant: a lifetime off by one.
StoredTooLong(v) == [v |-> v, ttl |-> CacheTTL + 1]

Stored(v) == [v |-> v, ttl |-> CacheTTL]

(* SET key response EX ttl, whatever the status of the response.           *)
Fill(r) ==
    LET k == rd[r].key IN
    /\ rd[r].pc = "set"
    /\ cache' = [cache EXCEPT ![k] = Stored(rd[r].v)]
    /\ rd' = [rd EXCEPT ![r].pc = "tag"]
    /\ lost' = IF rd[r].calm THEN lost ELSE lost \cup {k}
    /\ UNCHANGED <<service, tagSet, wr, floor>>

(* SADD tag:users:list key.                                                *)
Tag(r) ==
    LET k == rd[r].key IN
    /\ rd[r].pc = "tag"
    /\ tagSet' = tagSet \cup {k}
    /\ rd' = [rd EXCEPT ![r] = IdleRead]
    /\ lost' = IF rd[r].calm THEN lost \ {k} ELSE lost \cup {k}
    /\ UNCHANGED <<service, cache, wr, floor>>

(* The gateway stops, or the connection fails, between SET and SADD.       *)
TagFails(r) ==
    /\ rd[r].pc = "tag"
    /\ rd' = [rd EXCEPT ![r] = IdleRead]
    /\ lost' = lost \cup {rd[r].key}
    /\ UNCHANGED <<service, redis, wr, floor>>

ReaderStep(r) == Fetch(r) \/ FillDropped(r) \/ Fill(r) \/ Tag(r) \/ TagFails(r)

------------------------------------------------------------------------------
(* Writers that invalidate: PATCH /users/:userId.                          *)

StartWrite(w) ==
    /\ ~Writing(w)
    /\ wr' = [wr EXCEPT ![w] = [pc |-> "call", v |-> 0, keys |-> {},
                                calm |-> \A r \in Readers : ~Reading(r)]]
    /\ rd' = [r \in Readers |-> IF Reading(r) THEN [rd[r] EXCEPT !.calm = FALSE]
                                ELSE rd[r]]
    /\ UNCHANGED <<service, redis, floor, lost>>

Change == version < MaxVersion /\ version' = version + 1 /\ UNCHANGED up

(* The user service applies the change; the client is answered.            *)
Apply(w) ==
    /\ wr[w].pc = "call"
    /\ Change
    /\ wr' = [wr EXCEPT ![w].pc = "members", ![w].v = version']
    /\ UNCHANGED <<redis, rd, floor, lost>>

\* Mutant: an invalidation that finds no member.
FoundNone == {}

Found == tagSet

(* SMEMBERS of the set; with no members there is nothing to DEL.           *)
Members(w) ==
    /\ wr[w].pc = "members"
    /\ wr' = [wr EXCEPT ![w].keys = Found, ![w].pc = IF Found = {} THEN "drop" ELSE "del"]
    /\ UNCHANGED <<service, redis, rd, floor, lost>>

\* Mutant: all members but one are deleted.
KeptOne(k, keys) == k \notin keys \/ k = CHOOSE j \in keys : TRUE

Kept(k, keys) == k \notin keys

(* DEL of the keys SMEMBERS gave.                                          *)
Delete(w) ==
    /\ wr[w].pc = "del"
    /\ cache' = [k \in Keys |-> IF Kept(k, wr[w].keys) THEN cache[k] ELSE Absent]
    /\ wr' = [wr EXCEPT ![w].pc = "drop"]
    /\ UNCHANGED <<service, tagSet, rd, floor, lost>>

(* DEL of the set, whoever has been added to it since SMEMBERS.            *)
DropTag(w) ==
    /\ wr[w].pc = "drop"
    /\ tagSet' = {}
    /\ wr' = [wr EXCEPT ![w] = IdleWrite]
    /\ floor' = IF wr[w].calm /\ wr[w].v > floor THEN wr[w].v ELSE floor
    /\ UNCHANGED <<service, cache, rd, lost>>

(* The gRPC call, the handler's own invalidateTag or a Redis command       *)
(* fails, the client has gone before finish, or the gateway stops: what is *)
(* left of the invalidation does not happen, and nothing retries it.       *)
WriteFails(w) ==
    /\ Writing(w)
    /\ wr' = [wr EXCEPT ![w] = IdleWrite]
    /\ UNCHANGED <<service, redis, rd, floor, lost>>

------------------------------------------------------------------------------
(* Changes to users that invalidate nothing: an administrator's block or   *)
(* unblock, a registration, a call applied after its writer has given up.  *)
SilentWrite == Change /\ UNCHANGED <<redis, rd, wr, floor, lost>>

(* The user service goes down or comes back.                               *)
Outage == up' = ~up /\ UNCHANGED <<version, redis, rd, wr, floor, lost>>

\* Mutant: an entry at its last tick stays.
AgedNever(e) == IF e.ttl > 1 THEN [e EXCEPT !.ttl = @ - 1] ELSE e

Aged(e) == IF e.ttl > 1 THEN [e EXCEPT !.ttl = @ - 1] ELSE Absent

(* A tick of Redis time.                                                   *)
Tick ==
    /\ \E k \in Keys : Live(k)
    /\ cache' = [k \in Keys |-> Aged(cache[k])]
    /\ UNCHANGED <<service, tagSet, rd, wr, floor, lost>>

Next ==
    \/ \E r \in Readers : (\E k \in Keys : Miss(r, k)) \/ ReaderStep(r)
    \/ \E w \in Writers : \/ StartWrite(w) \/ Apply(w) \/ Members(w)
                          \/ Delete(w) \/ DropTag(w) \/ WriteFails(w)
    \/ SilentWrite
    \/ Outage
    \/ Tick

Spec == Init /\ [][Next]_vars

(* A gRPC call ends by its deadline and a Redis command is answered or     *)
(* fails, so a fill that has begun ends; and time passes.  Nothing is      *)
(* assumed of the writers.                                                 *)
FairSpec == Spec /\ WF_vars(Tick) /\ \A r \in Readers : WF_vars(ReaderStep(r))

------------------------------------------------------------------------------
(* Properties.                                                             *)

EntryType == [v : Responses \cup {None}, ttl : 0..CacheTTL]
ReadType  == [pc : {"idle", "fetch", "set", "tag"}, key : Keys \cup {None},
              v : Responses \cup {None}, valid : BOOLEAN, calm : BOOLEAN]
WriteType == [pc : {"idle", "call", "members", "del", "drop"}, v : Versions,
              keys : SUBSET Keys, calm : BOOLEAN]

(* The variables have their types; an entry with time left has a response, *)
(* and a reader in progress a key and, once answered, a response.          *)
TypeOK ==
    /\ version \in Versions
    /\ up \in BOOLEAN
    /\ cache \in [Keys -> EntryType]
    /\ \A k \in Keys : Live(k) => cache[k].v \in Responses
    /\ tagSet \subseteq Keys
    /\ rd \in [Readers -> ReadType]
    /\ \A r \in Readers :
          /\ Reading(r) => rd[r].key \in Keys
          /\ rd[r].pc \in {"set", "tag"} => rd[r].v \in Responses
    /\ wr \in [Writers -> WriteType]
    /\ floor \in Versions
    /\ lost \subseteq Keys

(* An entry that no invalidation will find (it lives, but the set of its   *)
(* tag lacks its key) is there only because its fill failed before SADD or *)
(* overlapped a writer: fills and invalidations that do not overlap, in    *)
(* whatever order they come, never lose a key from the set.                *)
TaggedUnlessLost ==
    \A k \in Keys : Live(k) /\ k \notin lost => k \in tagSet \/ Tagging(k)

(* Once a writer that overlapped no fill has finished its invalidation, no *)
(* entry holds a listing from before its change, unless the entry's own    *)
(* fill was disturbed: later readers, whoever they overlap, bring nothing  *)
(* older back.                                                             *)
InvalidatedIsGone ==
    \A k \in Keys :
        Live(k) /\ k \notin lost /\ cache[k].v \in Versions => cache[k].v >= floor

(* An outdated listing only gets older.  As long as the users do not       *)
(* change, a fill that has not read yet reads the current listing, an      *)
(* entry that is outdated was there before with no less time left, or      *)
(* comes from a fill that had already read, and every tick takes time from *)
(* every entry.                                                            *)
Outdated(v) == v \notin {version, Error}
StaleStep ==
    /\ version' = version =>
          /\ \A r \in Readers :
                rd'[r].pc = "set" /\ Outdated(rd'[r].v) =>
                    rd[r].pc = "set" /\ rd'[r].v = rd[r].v /\ rd'[r].key = rd[r].key
          /\ \A k \in Keys :
                Live(k)' /\ Outdated(cache'[k].v) =>
                    \/ /\ Live(k) /\ cache'[k].v = cache[k].v
                       /\ cache'[k].ttl <= cache[k].ttl
                    \/ \E r \in Readers :
                          /\ rd[r].pc = "set" /\ rd[r].key = k /\ rd[r].v = cache'[k].v
                          /\ rd'[r].pc = "tag"
    /\ Tick => \A k \in Keys : Live(k) => cache'[k].ttl < cache[k].ttl
StaleOnlyAges == [][StaleStep]_vars

(* When the users change no more, the cache ends up holding nothing but    *)
(* the current listing (or errors), even for the changes that invalidated  *)
(* nothing: the lifetime makes up for it.                                  *)
EventuallyFresh ==
    <>[](\A k \in Keys : Live(k) => cache[k].v \in {version, Error})

(* An error is being given out: the user service is down, or a malformed   *)
(* query is under way.                                                     *)
failing == ~up \/ \E r \in Readers : ~rd[r].valid

(* An error response is cached like any other, that of a malformed query   *)
(* too, under a key other queries share; when the user service stays up    *)
(* and nobody sends a malformed query any more, readers stop being         *)
(* answered with errors.                                                   *)
ErrorsFade ==
    <>[]~failing => <>[](\A k \in Keys : cache[k].v # Error)

(* The cache keeps the promise of ListingPromise: what can be served is    *)
(* the current answer of the service, the error while there is a reason    *)
(* for one, the live entries and the responses on their way to become      *)
(* entries.                                                                *)
servable ==
    {version}
    \cup (IF failing THEN {Error} ELSE {})
    \cup {cache[k].v : k \in {j \in Keys : Live(j)}}
    \cup {rd[r].v : r \in {q \in Readers : rd[q].pc \in {"set", "tag"}}}

Promise == INSTANCE ListingPromise WITH version <- version, servable <- servable,
                                       failing <- failing,
                                       MaxVersion <- MaxVersion, Error <- Error

KeepsPromise == Promise!Spec
==============================================================================
