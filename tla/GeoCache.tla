------------------------------ MODULE GeoCache ------------------------------
(***************************************************************************)
(* The public geo lists of apps/backend/geo and the Redis cache in front   *)
(* of them.  A list is cached under a key that holds a version number, and *)
(* an administrator's change makes the cached lists unreachable by writing *)
(* the next number.  Every call to Redis and every database statement is a *)
(* step; nothing locks the two stores together.                            *)
(***************************************************************************)
EXTENDS Integers, FiniteSets

CONSTANTS
    Readers,            \* public list requests
    Writers,            \* administrators' requests and the loading command
    Filters,            \* what selects the rows: parent area, search text, page
    Orders,             \* values of the ordering parameter, which order them and
                        \* so decide which rows are on a page
    InitialVersion,     \* the version number in Redis, or 0 for none
    WriterOps,          \* "save": a request on one area; "import": of villages;
                        \* "load": the loading command without a villages file
    MaxVersion,         \* bound: version numbers written
    MaxContent          \* bound: changes committed

(* A request.  One that is not valid has no number for its page or page size, or    *)
(* an unknown ordering, which is found out only when the rows are read; its filter  *)
(* is the one whose text in the key is the same (an empty page size is written like *)
(* a missing one, and "5:search=a" with "b" like 5 with "a:search=b").              *)
Query   == [filter : Filters, order : Orders, valid : BOOLEAN]
Key     == [version : 1..MaxVersion, filter : Filters]

\* The rows as of some number of committed changes, selected for a query.
Payload == [content : 0..MaxContent, query : Query]
Nothing == [content |-> -1]     \* no list, or no query

VARIABLES
    content,    \* how many changes the database has committed
    version,    \* GEO_CACHE_VERSION_KEY in Redis, 0 when unset
    entries,    \* the cached lists
    pc,         \* the next step of each reader and writer
    query,      \* what each reader asked for
    got,        \* the version number each process read from Redis
    payload,    \* the list each reader is about to answer
    op,         \* what each writer does
    mine,       \* the change each writer committed, 0 for none
    settled,    \* history: the newest change of an answered writer that wrote a number
    floor,      \* history: settled when each reader's request arrived
    raced       \* history: a number was written over one its writer had not read,
                \* or rows were read between the bump and the commit of an import

readerVars == <<query, payload, floor>>
writerVars == <<content, op, mine, settled>>
vars == <<content, version, entries, pc, query, got, payload, op, mine, settled, floor, raced>>

Processes == Readers \cup Writers

KeyWithoutFilter(v, q) == [version |-> v, filter |-> CHOOSE f \in Filters : TRUE]
(* build_geo_cache_key.  The ordering is not part of the key.  The texts are joined *)
(* without quoting, and the search text comes last: of valid requests, whose page   *)
(* and page size are numbers, no two with different filters have the same key.      *)
KeyOf(v, q) == [version |-> v, filter |-> q.filter]

Init ==
    /\ content = 0
    /\ version = InitialVersion
    /\ entries = [k \in Key |-> Nothing]
    /\ pc = [p \in Processes |-> "idle"]
    /\ query = [r \in Readers |-> Nothing]
    /\ got = [p \in Processes |-> 0]
    /\ payload = [r \in Readers |-> Nothing]
    /\ op = [w \in Writers |-> "save"]
    /\ mine = [w \in Writers |-> 0]
    /\ settled = 0
    /\ floor = [r \in Readers |-> 0]
    /\ raced = FALSE

Goto(p, place) == pc' = [pc EXCEPT ![p] = place]

-----------------------------------------------------------------------------
(* get_geo_cache_version, called by readers and writers.                   *)

\* The place a process goes on from once it knows the version.
AfterVersion(p) == IF p \in Readers THEN "lookup" ELSE "bump"

ReadVersion(p) ==
    /\ pc[p] = "version"
    /\ got' = [got EXCEPT ![p] = IF version = 0 THEN 1 ELSE version]
    /\ Goto(p, IF version = 0 THEN "initialise" ELSE AfterVersion(p))
    /\ UNCHANGED <<version, entries, readerVars, writerVars, raced>>

InitialiseVersion(p) ==
    /\ pc[p] = "initialise"
    /\ version' = 1
    /\ raced' = (raced \/ version > 1)
    /\ Goto(p, AfterVersion(p))
    /\ UNCHANGED <<entries, got, readerVars, writerVars>>

-----------------------------------------------------------------------------
(* A public list request: the key first, the rows only on a miss.  It ends *)
(* at "answer" with a cached list, at "reply" with the rows it read.       *)

Ask(r) ==
    /\ pc[r] = "idle"
    /\ \E q \in Query : query' = [query EXCEPT ![r] = q]
    /\ floor' = [floor EXCEPT ![r] = settled]
    /\ Goto(r, "version")
    /\ UNCHANGED <<version, entries, got, payload, writerVars, raced>>

Lookup(r) ==
    LET k == KeyOf(got[r], query[r]) IN
    /\ pc[r] = "lookup"
    /\ payload' = [payload EXCEPT ![r] = entries[k]]
    /\ Goto(r, IF entries[k] = Nothing THEN "query" ELSE "answer")
    /\ UNCHANGED <<version, entries, got, query, floor, writerVars, raced>>

QueryRows(r) ==
    /\ pc[r] = "query" /\ query[r].valid
    /\ payload' = [payload EXCEPT ![r] = [content |-> content, query |-> query[r]]]
    /\ raced' = (raced \/ \E w \in Writers : op[w] = "import" /\ pc[w] = "commit")
    /\ Goto(r, "store")
    /\ UNCHANGED <<version, entries, got, query, floor, writerVars>>

StoreUnderLatest(r) ==
    /\ pc[r] = "store"
    /\ entries' = [entries EXCEPT ![KeyOf(version, query[r])] = payload[r]]
    /\ Goto(r, "reply")
    /\ UNCHANGED <<version, got, readerVars, writerVars, raced>>

Store(r) ==
    /\ pc[r] = "store"
    /\ entries' = [entries EXCEPT ![KeyOf(got[r], query[r])] = payload[r]]
    /\ Goto(r, "reply")
    /\ UNCHANGED <<version, got, readerVars, writerVars, raced>>

EndRead(r) ==
    /\ Goto(r, "idle")
    /\ payload' = [payload EXCEPT ![r] = Nothing]
    /\ query' = [query EXCEPT ![r] = Nothing]
    /\ floor' = [floor EXCEPT ![r] = 0]
    /\ got' = [got EXCEPT ![r] = 0]
    /\ UNCHANGED <<version, entries, writerVars, raced>>

Answer(r) == pc[r] \in {"answer", "reply"} /\ EndRead(r)

\* 400: only a request that missed is tested, by the ordering and the paginator.
Refuse(r) == pc[r] = "query" /\ ~query[r].valid /\ EndRead(r)

\* GEO_CACHE_TTL_SECONDS have passed.
Expire(k) ==
    /\ entries[k] # Nothing
    /\ entries' = [entries EXCEPT ![k] = Nothing]
    /\ UNCHANGED <<version, pc, got, readerVars, writerVars, raced>>

-----------------------------------------------------------------------------
(* A change: perform_create, perform_update and destroy commit it and then *)
(* bump the version; commit_village_import bumps inside its transaction,   *)
(* or inside that of the loading command, which without a villages file    *)
(* commits its areas and writes no number at all.                          *)

FirstOf(o) == IF o = "import" THEN "version" ELSE "commit"

BeginWrite(w) ==
    /\ pc[w] = "idle"
    /\ content + Cardinality({v \in Writers : pc[v] # "idle"}) < MaxContent
    /\ \E o \in WriterOps :
          /\ op' = [op EXCEPT ![w] = o]
          /\ Goto(w, FirstOf(o))
    /\ UNCHANGED <<version, entries, got, readerVars, content, mine, settled, raced>>

\* The last step of a writer, by which the given change is to be seen.
Settle(w, change) ==
    /\ settled' = IF change > settled THEN change ELSE settled
    /\ mine' = [mine EXCEPT ![w] = 0]
    /\ op' = [op EXCEPT ![w] = "save"]
    /\ got' = [got EXCEPT ![w] = 0]
    /\ Goto(w, "idle")

CommitSave(w) ==
    /\ pc[w] = "commit" /\ op[w] = "save"
    /\ content < MaxContent
    /\ content' = content + 1
    /\ mine' = [mine EXCEPT ![w] = content + 1]
    /\ Goto(w, "version")
    /\ UNCHANGED <<version, entries, got, readerVars, op, settled, raced>>

\* Only the expiry of a list shows what was loaded, or the bump of a later writer.
CommitLoad(w) ==
    /\ pc[w] = "commit" /\ op[w] = "load"
    /\ content < MaxContent
    /\ content' = content + 1
    /\ Settle(w, 0)
    /\ UNCHANGED <<version, entries, readerVars, raced>>

SameVersion(v) == v
BumpedTwice(v) == v + 2
NextVersion(v) == v + 1

BumpAfterSave(w) ==
    /\ pc[w] = "bump" /\ op[w] = "save"
    /\ got[w] < MaxVersion
    /\ version' = NextVersion(got[w])
    /\ raced' = (raced \/ version # got[w])
    /\ Settle(w, mine[w])
    /\ UNCHANGED <<entries, readerVars, content>>

BumpInImport(w) ==
    /\ pc[w] = "bump" /\ op[w] = "import"
    /\ got[w] < MaxVersion
    /\ version' = NextVersion(got[w])
    /\ raced' = (raced \/ version # got[w])
    /\ Goto(w, "commit")
    /\ UNCHANGED <<entries, got, readerVars, writerVars>>

CommitImport(w) ==
    /\ pc[w] = "commit" /\ op[w] = "import"
    /\ content < MaxContent
    /\ content' = content + 1
    /\ Settle(w, content + 1)
    /\ UNCHANGED <<version, entries, readerVars, raced>>

-----------------------------------------------------------------------------
Reads(r) == Ask(r) \/ ReadVersion(r) \/ InitialiseVersion(r) \/ Lookup(r)
            \/ QueryRows(r) \/ Store(r) \/ Answer(r) \/ Refuse(r)

Writes(w) == BeginWrite(w) \/ CommitSave(w) \/ CommitLoad(w) \/ ReadVersion(w)
             \/ InitialiseVersion(w) \/ BumpAfterSave(w) \/ BumpInImport(w) \/ CommitImport(w)

Next ==
    \/ \E r \in Readers : Reads(r)
    \/ \E w \in Writers : Writes(w)
    \/ \E k \in Key : Expire(k)

Spec == Init /\ [][Next]_vars

-----------------------------------------------------------------------------
(* Correctness.                                                            *)

TypeOK ==
    /\ content \in 0..MaxContent
    /\ version \in 0..MaxVersion
    /\ entries \in [Key -> Payload \cup {Nothing}]
    /\ pc \in [Processes -> {"idle", "version", "initialise", "lookup", "query", "store",
                             "answer", "reply", "commit", "bump"}]
    /\ query \in [Readers -> Query \cup {Nothing}]
    /\ \A r \in Readers : pc[r] # "idle" => query[r] \in Query
    /\ got \in [Processes -> 0..MaxVersion]
    /\ payload \in [Readers -> Payload \cup {Nothing}]
    /\ op \in [Writers -> {"save", "import", "load"}]
    /\ mine \in [Writers -> 0..MaxContent]
    /\ settled \in 0..MaxContent
    /\ floor \in [Readers -> 0..MaxContent]
    /\ raced \in BOOLEAN

Answering(r) == pc[r] \in {"answer", "reply"}

\* The answer holds every change whose request had been answered when it was asked for.
ReflectsSettledChanges ==
    \A r \in Readers : Answering(r) => payload[r].content >= floor[r]

(* A list older than a change that wrote a number is always the work of a race over *)
(* the number, or of a read inside an import: the version is read before the rows   *)
(* and bumped after the commit, so nothing else, no slow reader and no expiry, gives *)
(* an old answer.  What the loading command changes without a villages file is not  *)
(* promised: it writes no number.                                                   *)
StaleOnlyAfterRace == ~raced => ReflectsSettledChanges

(* Without such a race a list cached under the current version holds every settled  *)
(* change, so a later request cannot be given an older one, even by a reader that   *)
(* was slow to store.                                                               *)
CurrentEntriesFresh ==
    ~raced => \A k \in Key : k.version = version /\ entries[k] # Nothing =>
                 entries[k].content >= settled

(* What a key serves: rows that were selected by the filter whose text was asked    *)
(* for, for a request that was valid.  Only the rows a request read itself are in   *)
(* the order it asked for; a cached list, which rows are on its page included, is   *)
(* in the order of whoever put it there, and answers a request that would be        *)
(* refused.                                                                         *)
AnswersTheFilter ==
    \A r \in Readers :
        /\ Answering(r) => /\ payload[r].query.filter = query[r].filter
                           /\ payload[r].query.valid
        /\ pc[r] = "reply" => payload[r].query = query[r]
CachedListsServe == CurrentEntriesFresh /\ AnswersTheFilter

=============================================================================
