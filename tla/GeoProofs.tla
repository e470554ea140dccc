----------------------------- MODULE GeoProofs -----------------------------
(***************************************************************************)
(* Theorems about Geo, for every value of its constants: first what every  *)
(* step keeps of the cache, then what it keeps of the areas of any kinds   *)
(* K, then both together.                                                  *)
(***************************************************************************)
EXTENDS Geo, FiniteSetTheorems, TLAPS

-----------------------------------------------------------------------------
(* The cache.  CacheInvariant is inductive.                                *)

CacheConstants ==
    /\ MaxVersion \in Nat \ {0} /\ MaxContent \in Nat
    /\ InitialVersion \in {0, 1}
    /\ WriterOps \subseteq {"save", "import", "load"}
    /\ Filters # {} /\ Orders # {}
    /\ Readers \cap Writers = {}

\* The number that a process reading the version is given.
Current == IF version = 0 THEN 1 ELSE version

\* A list under version v, or about to be put there, holds at least the change m.
ShowsAtLeast(v, m) ==
    /\ \A k \in Cache!Key : k.version = v /\ entries[k] # Cache!Nothing => entries[k].content >= m
    /\ \A r \in Readers : pc[r] = "store" /\ got[r] = v => payload[r].content >= m

\* There is no list under version v, and none on its way.
Empty(v) ==
    /\ \A k \in Cache!Key : k.version = v => entries[k] = Cache!Nothing
    /\ \A r \in Readers : pc[r] = "store" => got[r] # v

\* The places where a process knows a version, and those where a reader has a list.
KnowsVersion(p) == pc[p] \in {"initialise", "lookup", "query", "store", "answer", "reply", "bump"}
HasList(r) == pc[r] \in {"store", "answer", "reply"}
Importing == \E w \in Writers : op[w] = "import" /\ pc[w] = "commit"

Known ==
    /\ \A p \in Readers \cup Writers : KnowsVersion(p) => got[p] >= 1
    /\ settled <= content
    /\ \A w \in Writers : mine[w] <= content
    /\ \A r \in Readers : floor[r] <= settled

Filtered ==
    /\ \A k \in Cache!Key : entries[k] # Cache!Nothing =>
          entries[k].query.filter = k.filter /\ entries[k].query.valid
    /\ \A r \in Readers : HasList(r) => /\ payload[r] \in Cache!Payload
                                        /\ payload[r].query.filter = query[r].filter
                                        /\ payload[r].query.valid
    /\ \A r \in Readers : pc[r] \in {"store", "reply"} => payload[r].query = query[r]

(* Until the version number is raced over: a list under the current version holds  *)
(* every settled change, one under the version a reader knows holds those it is to *)
(* show, nothing is under a version to come, and nothing is under the current one  *)
(* while an import has bumped it and not committed.                                *)
Fresh ==
    /\ ShowsAtLeast(Current, settled)
    /\ \A r \in Readers : KnowsVersion(r) => got[r] <= Current /\ ShowsAtLeast(got[r], floor[r])
    /\ \A k \in Cache!Key : k.version > Current => entries[k] = Cache!Nothing
    /\ Importing => Empty(Current)
    /\ \A r \in Readers : pc[r] \in {"answer", "reply"} => payload[r].content >= floor[r]

CacheInvariant ==
    /\ Cache!TypeOK
    /\ Known
    /\ Filtered
    /\ ~raced => Fresh

-----------------------------------------------------------------------------
LEMMA InitCached == CacheConstants /\ Cache!Init => CacheInvariant
<1> SUFFICES ASSUME CacheConstants, Cache!Init PROVE CacheInvariant
  OBVIOUS
<1>1. Cache!TypeOK
  <2>1. content \in 0..MaxContent /\ version \in 0..MaxVersion /\ settled \in 0..MaxContent
    BY DEF Cache!Init, CacheConstants
  <2>2. /\ got \in [Cache!Processes -> 0..MaxVersion]
        /\ mine \in [Writers -> 0..MaxContent] /\ floor \in [Readers -> 0..MaxContent]
    BY DEF Cache!Init, CacheConstants
  <2>3. query \in [Readers -> Cache!Query \cup {Cache!Nothing}]
    BY DEF Cache!Init
  <2> QED
    BY <2>1, <2>2, <2>3 DEF Cache!Init, Cache!TypeOK, Cache!Processes
<1>2. Known /\ Filtered
  BY DEF Cache!Init, Known, Filtered, KnowsVersion, HasList, Cache!Processes
<1>3. Fresh
  BY DEF Cache!Init, Fresh, ShowsAtLeast, Empty, KnowsVersion, Importing, Cache!Processes
<1> QED
  BY <1>1, <1>2, <1>3 DEF CacheInvariant

LEMMA KeyTyped ==
    ASSUME Cache!TypeOK, Known, NEW r \in Readers, KnowsVersion(r)
    PROVE  /\ Cache!KeyOf(got[r], query[r]) \in Cache!Key
           /\ Cache!KeyOf(got[r], query[r]).version = got[r]
           /\ Cache!KeyOf(got[r], query[r]).filter = query[r].filter
<1>1. got[r] \in 1..MaxVersion
  BY DEF Cache!TypeOK, Known, Cache!Processes
<1>2. query[r].filter \in Filters
  BY DEF Cache!TypeOK, Cache!Query, KnowsVersion
<1> QED
  BY <1>1, <1>2 DEF Cache!KeyOf, Cache!Key

\* What holds a change holds the ones before it.
LEMMA ShowsLess ==
    ASSUME Cache!TypeOK, Filtered, NEW v, NEW m \in Int, NEW n \in Int,
           n <= m, ShowsAtLeast(v, m)
    PROVE  ShowsAtLeast(v, n)
<1>1. \A k \in Cache!Key : entries[k] # Cache!Nothing => entries[k].content \in Int
  BY DEF Cache!TypeOK, Cache!Payload
<1>2. \A r \in Readers : pc[r] = "store" => payload[r].content \in Int
  BY DEF Filtered, HasList, Cache!Payload
<1> QED
  BY <1>1, <1>2 DEF ShowsAtLeast

LEMMA ReadVersionKeeps ==
    ASSUME CacheConstants, CacheInvariant, NEW p \in Readers \cup Writers, Cache!ReadVersion(p)
    PROVE  CacheInvariant'
<1> USE DEF Cache!ReadVersion, Cache!AfterVersion, Cache!Goto, Cache!Processes,
  Cache!readerVars, Cache!writerVars
<1>0. Cache!TypeOK /\ Known /\ Filtered /\ (~raced => Fresh)
  BY DEF CacheInvariant
<1>1. Cache!TypeOK'
  BY <1>0 DEF Cache!TypeOK, CacheConstants
<1>2. Known'
  BY <1>0 DEF Cache!TypeOK, Known, KnowsVersion
<1>3. Filtered'
  BY <1>0 DEF Cache!TypeOK, Filtered, HasList
<1>4. ASSUME ~raced' PROVE Fresh'
  <2>1. Fresh /\ UNCHANGED <<version, entries, floor, payload, settled, op>>
    BY <1>0, <1>4
  <2>2. /\ \A q \in Readers : pc'[q] = "store" => pc[q] = "store" /\ got'[q] = got[q]
        /\ \A q \in Writers : pc'[q] = "commit" => pc[q] = "commit"
        /\ \A q \in Readers : pc'[q] \in {"answer", "reply"} => pc[q] \in {"answer", "reply"}
    BY <1>0 DEF Cache!TypeOK
  <2>3. \A v, m : ShowsAtLeast(v, m) => ShowsAtLeast(v, m)'
    BY <2>1, <2>2 DEF ShowsAtLeast
  <2>4. ASSUME NEW q \in Readers, KnowsVersion(q)'
        PROVE  (got[q] <= Current /\ ShowsAtLeast(got[q], floor[q]))'
    <3>1. CASE q = p
      <4>1. got'[q] = Current /\ floor'[q] = floor[q] /\ floor[q] <= settled
        BY <1>0, <2>1, <3>1 DEF Cache!TypeOK, Current, Known
      <4>2. got'[q] <= Current'
        BY <1>0, <2>1, <4>1 DEF Cache!TypeOK, Current
      <4>3. ShowsAtLeast(Current, floor[q])
        <5>1. ShowsAtLeast(Current, settled) /\ settled \in Int /\ floor[q] \in Int
          BY <1>0, <2>1 DEF Fresh, Cache!TypeOK
        <5> QED
          BY <1>0, <4>1, <5>1, ShowsLess
      <4> QED
        BY <2>1, <2>3, <4>1, <4>2, <4>3 DEF ShowsAtLeast
    <3>2. CASE q # p
      <4>1. got'[q] = got[q] /\ KnowsVersion(q)
        BY <1>0, <2>4, <3>2 DEF Cache!TypeOK, KnowsVersion
      <4> QED
        BY <2>1, <2>3, <4>1 DEF Fresh, Current, ShowsAtLeast
    <3> QED
      BY <3>1, <3>2
  <2>5. ShowsAtLeast(Current, settled)'
    BY <2>1, <2>3 DEF Fresh, Current, ShowsAtLeast
  <2>6. \A k \in Cache!Key : k.version > Current' => entries'[k] = Cache!Nothing
    BY <2>1 DEF Fresh, Current
  <2>7. Importing' => Empty(Current)'
    BY <2>1, <2>2 DEF Fresh, Importing, Empty, Current
  <2>8. \A q \in Readers : pc'[q] \in {"answer", "reply"} => payload'[q].content >= floor'[q]
    BY <2>1, <2>2 DEF Fresh
  <2> QED
    BY <2>4, <2>5, <2>6, <2>7, <2>8 DEF Fresh
<1> QED
  BY <1>1, <1>2, <1>3, <1>4 DEF CacheInvariant

LEMMA InitialiseVersionKeeps ==
    ASSUME CacheConstants, CacheInvariant, NEW p \in Readers \cup Writers,
           Cache!InitialiseVersion(p)
    PROVE  CacheInvariant'
<1> USE DEF Cache!InitialiseVersion, Cache!AfterVersion, Cache!Goto, Cache!Processes,
  Cache!readerVars, Cache!writerVars
<1>0. Cache!TypeOK /\ Known /\ Filtered /\ (~raced => Fresh)
  BY DEF CacheInvariant
<1>1. Cache!TypeOK'
  BY <1>0 DEF Cache!TypeOK, CacheConstants
<1>2. Known'
  BY <1>0 DEF Cache!TypeOK, Known, KnowsVersion
<1>3. Filtered'
  BY <1>0 DEF Cache!TypeOK, Filtered, HasList
<1>4. ASSUME ~raced' PROVE Fresh'
  <2>1. ~raced /\ ~ (version > 1)
    BY <1>4
  <2>2. Fresh /\ UNCHANGED <<entries, got, floor, payload, settled, op>> /\ Current' = Current
    BY <1>0, <2>1 DEF Cache!TypeOK, Current
  <2>3. /\ \A q \in Readers : pc'[q] = "store" => pc[q] = "store"
        /\ \A q \in Writers : pc'[q] = "commit" => pc[q] = "commit"
        /\ \A q \in Readers : pc'[q] \in {"answer", "reply"} => pc[q] \in {"answer", "reply"}
        /\ \A q \in Readers : KnowsVersion(q)' => KnowsVersion(q)
    BY <1>0 DEF Cache!TypeOK, KnowsVersion
  <2> QED
    BY <2>2, <2>3 DEF Fresh, ShowsAtLeast, Empty, Importing
<1> QED
  BY <1>1, <1>2, <1>3, <1>4 DEF CacheInvariant

LEMMA AskKeeps ==
    ASSUME CacheConstants, CacheInvariant, NEW r \in Readers, Cache!Ask(r)
    PROVE  CacheInvariant'
<1> USE DEF Cache!Ask, Cache!Goto, Cache!Processes, Cache!readerVars, Cache!writerVars
<1>0. Cache!TypeOK /\ Known /\ Filtered /\ (~raced => Fresh)
  BY DEF CacheInvariant
<1>1. Cache!TypeOK'
  BY <1>0 DEF Cache!TypeOK
<1>2. Known'
  BY <1>0 DEF Cache!TypeOK, Known, KnowsVersion
<1>3. Filtered'
  BY <1>0 DEF Cache!TypeOK, Filtered, HasList
<1>4. ASSUME ~raced' PROVE Fresh'
  BY <1>0, <1>4 DEF Cache!TypeOK, Known, Fresh, ShowsAtLeast, Empty, KnowsVersion, Importing,
     Current
<1> QED
  BY <1>1, <1>2, <1>3, <1>4 DEF CacheInvariant

LEMMA LookupKeeps ==
    ASSUME CacheConstants, CacheInvariant, NEW r \in Readers, Cache!Lookup(r)
    PROVE  CacheInvariant'
<1> USE DEF Cache!Lookup, Cache!Goto, Cache!Processes, Cache!readerVars, Cache!writerVars
<1>0. Cache!TypeOK /\ Known /\ Filtered /\ (~raced => Fresh)
  BY DEF CacheInvariant
<1>k. /\ Cache!KeyOf(got[r], query[r]) \in Cache!Key
      /\ Cache!KeyOf(got[r], query[r]).version = got[r]
      /\ Cache!KeyOf(got[r], query[r]).filter = query[r].filter
  BY <1>0, KeyTyped DEF KnowsVersion
<1> DEFINE key == Cache!KeyOf(got[r], query[r])
<1> HIDE DEF key
<1>1. Cache!TypeOK'
  BY <1>0, <1>k DEF Cache!TypeOK
<1>2. Known'
  BY <1>0, <1>k DEF Cache!TypeOK, Known, KnowsVersion
<1>3. Filtered'
  BY <1>0, <1>k DEF Cache!TypeOK, Filtered, HasList
<1>4. ASSUME ~raced' PROVE Fresh'
  BY <1>0, <1>k, <1>4
     DEF Cache!TypeOK, Known, Fresh, ShowsAtLeast, Empty, KnowsVersion, Importing, Current
<1> QED
  BY <1>1, <1>2, <1>3, <1>4 DEF CacheInvariant

LEMMA QueryRowsKeeps ==
    ASSUME CacheConstants, CacheInvariant, NEW r \in Readers, Cache!QueryRows(r)
    PROVE  CacheInvariant'
<1> USE DEF Cache!QueryRows, Cache!Goto, Cache!Processes, Cache!readerVars, Cache!writerVars
<1>0. Cache!TypeOK /\ Known /\ Filtered /\ (~raced => Fresh)
  BY DEF CacheInvariant
<1>q. query[r] \in Cache!Query /\ query[r].valid
  BY <1>0 DEF Cache!TypeOK
<1>r. PICK rows \in Cache!Payload : rows = [content |-> content, query |-> query[r]]
  BY <1>0, <1>q DEF Cache!TypeOK, Cache!Payload
<1>p. payload' = [payload EXCEPT ![r] = rows] /\ rows.content = content /\ rows.query = query[r]
  BY <1>r
<1>1. Cache!TypeOK'
  BY <1>0, <1>p DEF Cache!TypeOK
<1>2. Known'
  BY <1>0 DEF Cache!TypeOK, Known, KnowsVersion
<1>3. Filtered'
  BY <1>0, <1>p, <1>q DEF Cache!TypeOK, Filtered, HasList
<1>4. ASSUME ~raced' PROVE Fresh'
  <2>1. ShowsAtLeast(Current, settled)'
    BY <1>0, <1>p, <1>4 DEF Cache!TypeOK, Known, Fresh, ShowsAtLeast, KnowsVersion, Current
  <2>2. ASSUME NEW q \in Readers, KnowsVersion(q)'
        PROVE  (got[q] <= Current /\ ShowsAtLeast(got[q], floor[q]))'
    BY <1>0, <1>p, <1>4, <2>2 DEF Cache!TypeOK, Known, Fresh, ShowsAtLeast, KnowsVersion, Current
  <2>3. \A k \in Cache!Key : k.version > Current' => entries'[k] = Cache!Nothing
    BY <1>0, <1>p, <1>4 DEF Cache!TypeOK, Known, Fresh, KnowsVersion, Current
  <2>4. Importing' => Empty(Current)'
    BY <1>0, <1>p, <1>4 DEF Cache!TypeOK, Known, Fresh, Empty, Importing, KnowsVersion, Current
  <2>5. \A q \in Readers : pc'[q] \in {"answer", "reply"} => payload'[q].content >= floor'[q]
    BY <1>0, <1>p, <1>4 DEF Cache!TypeOK, Known, Fresh, ShowsAtLeast, KnowsVersion, Current
  <2> QED
    BY <2>1, <2>2, <2>3, <2>4, <2>5 DEF Fresh
<1> QED
  BY <1>1, <1>2, <1>3, <1>4 DEF CacheInvariant

LEMMA StoreKeeps ==
    ASSUME CacheConstants, CacheInvariant, NEW r \in Readers, Cache!Store(r)
    PROVE  CacheInvariant'
<1> USE DEF Cache!Store, Cache!Goto, Cache!Processes, Cache!readerVars, Cache!writerVars
<1>0. Cache!TypeOK /\ Known /\ Filtered /\ (~raced => Fresh)
  BY DEF CacheInvariant
<1>k. /\ Cache!KeyOf(got[r], query[r]) \in Cache!Key
      /\ Cache!KeyOf(got[r], query[r]).version = got[r]
      /\ Cache!KeyOf(got[r], query[r]).filter = query[r].filter
  BY <1>0, KeyTyped DEF KnowsVersion
<1> DEFINE key == Cache!KeyOf(got[r], query[r])
<1> HIDE DEF key
<1>1. Cache!TypeOK'
  BY <1>0, <1>k DEF Cache!TypeOK
<1>2. Known'
  BY <1>0, <1>k DEF Cache!TypeOK, Known, KnowsVersion
<1>3. Filtered'
  BY <1>0, <1>k DEF Cache!TypeOK, Filtered, HasList
<1>4. ASSUME ~raced' PROVE Fresh'
  BY <1>0, <1>k, <1>4
     DEF Cache!TypeOK, Known, Fresh, ShowsAtLeast, Empty, KnowsVersion, Importing, Current
<1> QED
  BY <1>1, <1>2, <1>3, <1>4 DEF CacheInvariant

LEMMA EndReadKeeps ==
    ASSUME CacheConstants, CacheInvariant, NEW r \in Readers, Cache!EndRead(r)
    PROVE  CacheInvariant'
<1> USE DEF Cache!EndRead, Cache!Goto, Cache!Processes, Cache!readerVars, Cache!writerVars
<1>0. Cache!TypeOK /\ Known /\ Filtered /\ (~raced => Fresh)
  BY DEF CacheInvariant
<1>1. Cache!TypeOK'
  BY <1>0 DEF Cache!TypeOK, CacheConstants
<1>2. Known'
  BY <1>0 DEF Cache!TypeOK, Known, KnowsVersion
<1>3. Filtered'
  BY <1>0 DEF Cache!TypeOK, Filtered, HasList
<1>4. ASSUME ~raced' PROVE Fresh'
  BY <1>0, <1>4 DEF Cache!TypeOK, Known, Fresh, ShowsAtLeast, Empty, KnowsVersion, Importing,
     Current
<1> QED
  BY <1>1, <1>2, <1>3, <1>4 DEF CacheInvariant

LEMMA ExpireKeeps ==
    ASSUME CacheConstants, CacheInvariant, NEW k \in Cache!Key, Cache!Expire(k)
    PROVE  CacheInvariant'
<1> USE DEF Cache!Expire, Cache!Processes, Cache!readerVars, Cache!writerVars
<1>0. Cache!TypeOK /\ Known /\ Filtered /\ (~raced => Fresh)
  BY DEF CacheInvariant
<1>1. Cache!TypeOK'
  BY <1>0 DEF Cache!TypeOK
<1>2. Known'
  BY <1>0 DEF Cache!TypeOK, Known, KnowsVersion
<1>3. Filtered'
  BY <1>0 DEF Cache!TypeOK, Filtered, HasList
<1>4. ASSUME ~raced' PROVE Fresh'
  BY <1>0, <1>4 DEF Cache!TypeOK, Known, Fresh, ShowsAtLeast, Empty, KnowsVersion, Importing,
     Current
<1> QED
  BY <1>1, <1>2, <1>3, <1>4 DEF CacheInvariant

LEMMA BeginWriteKeeps ==
    ASSUME CacheConstants, CacheInvariant, NEW w \in Writers, Cache!BeginWrite(w)
    PROVE  CacheInvariant'
<1> USE DEF Cache!BeginWrite, Cache!Goto, Cache!FirstOf, Cache!Processes, Cache!readerVars,
  Cache!writerVars
<1>0. Cache!TypeOK /\ Known /\ Filtered /\ (~raced => Fresh)
  BY DEF CacheInvariant
<1>1. Cache!TypeOK'
  BY <1>0 DEF Cache!TypeOK, CacheConstants
<1>2. Known'
  BY <1>0 DEF Cache!TypeOK, Known, KnowsVersion
<1>3. Filtered'
  BY <1>0 DEF Cache!TypeOK, Filtered, HasList
<1>4. ASSUME ~raced' PROVE Fresh'
  BY <1>0, <1>4 DEF Cache!TypeOK, Known, Fresh, ShowsAtLeast, Empty, KnowsVersion, Importing,
     Current
<1> QED
  BY <1>1, <1>2, <1>3, <1>4 DEF CacheInvariant

LEMMA CommitSaveKeeps ==
    ASSUME CacheConstants, CacheInvariant, NEW w \in Writers, Cache!CommitSave(w)
    PROVE  CacheInvariant'
<1> USE DEF Cache!CommitSave, Cache!Goto, Cache!Processes, Cache!readerVars, Cache!writerVars
<1>0. Cache!TypeOK /\ Known /\ Filtered /\ (~raced => Fresh)
  BY DEF CacheInvariant
<1>1. Cache!TypeOK'
  BY <1>0 DEF Cache!TypeOK, CacheConstants
<1>2. Known'
  BY <1>0 DEF Cache!TypeOK, Known, KnowsVersion
<1>3. Filtered'
  BY <1>0 DEF Cache!TypeOK, Filtered, HasList
<1>4. ASSUME ~raced' PROVE Fresh'
  BY <1>0, <1>4 DEF Cache!TypeOK, Known, Fresh, ShowsAtLeast, Empty, KnowsVersion, Importing,
     Current
<1> QED
  BY <1>1, <1>2, <1>3, <1>4 DEF CacheInvariant

LEMMA BumpAfterSaveKeeps ==
    ASSUME CacheConstants, CacheInvariant, NEW w \in Writers, Cache!BumpAfterSave(w)
    PROVE  CacheInvariant'
<1> USE DEF Cache!BumpAfterSave, Cache!Settle, Cache!Goto, Cache!NextVersion, Cache!Processes,
  Cache!readerVars, Cache!writerVars
<1>0. Cache!TypeOK /\ Known /\ Filtered /\ (~raced => Fresh)
  BY DEF CacheInvariant
<1>1. Cache!TypeOK'
  BY <1>0 DEF Cache!TypeOK, CacheConstants
<1>2. Known'
  BY <1>0 DEF Cache!TypeOK, Known, KnowsVersion
<1>3. Filtered'
  BY <1>0 DEF Cache!TypeOK, Filtered, HasList
<1>4. ASSUME ~raced' PROVE Fresh'
  <2>1. ~raced /\ version = got[w]
    BY <1>4
  <2>2. got[w] \in Nat /\ got[w] >= 1
    BY <1>0 DEF Cache!TypeOK, Known, KnowsVersion
  <2>3. Fresh /\ Current' = Current + 1 /\ Current \in Nat
    BY <1>0, <2>1, <2>2 DEF Current
  <2>4. \A q \in Readers : q # w /\ pc'[q] = pc[q] /\ got'[q] = got[q]
    BY <1>0 DEF Cache!TypeOK, CacheConstants
  <2>5. UNCHANGED <<entries, floor, payload>>
    OBVIOUS
  <2>6. \A k \in Cache!Key : k.version \in Nat
    BY DEF Cache!Key
  <2>7. Empty(Current)'
    <3>1. \A k \in Cache!Key : k.version = Current + 1 => entries[k] = Cache!Nothing
      BY <2>3, <2>6 DEF Fresh
    <3>2. \A q \in Readers : pc[q] = "store" => got[q] # Current + 1
      <4>1. \A q \in Readers : pc[q] = "store" => got[q] <= Current /\ got[q] \in Nat
        BY <1>0, <2>3 DEF Fresh, KnowsVersion, Cache!TypeOK
      <4> QED
        BY <2>3, <4>1
    <3> QED
      BY <2>3, <2>4, <2>5, <3>1, <3>2 DEF Empty
  <2>8. ShowsAtLeast(Current, settled)'
    BY <2>7 DEF Empty, ShowsAtLeast
  <2>9. ASSUME NEW q \in Readers, KnowsVersion(q)'
        PROVE  (got[q] <= Current /\ ShowsAtLeast(got[q], floor[q]))'
    <3>1. KnowsVersion(q) /\ got[q] \in Nat
      BY <1>0, <2>4, <2>9 DEF KnowsVersion, Cache!TypeOK
    <3>2. got[q] <= Current /\ ShowsAtLeast(got[q], floor[q])
      BY <2>3, <3>1 DEF Fresh
    <3> QED
      BY <2>3, <2>4, <2>5, <3>1, <3>2 DEF ShowsAtLeast
  <2>10. \A k \in Cache!Key : k.version > Current' => entries'[k] = Cache!Nothing
    BY <2>3, <2>5, <2>6 DEF Fresh
  <2>11. \A q \in Readers : pc'[q] \in {"answer", "reply"} => payload'[q].content >= floor'[q]
    BY <2>3, <2>4, <2>5 DEF Fresh
  <2> QED
    BY <2>7, <2>8, <2>9, <2>10, <2>11 DEF Fresh
<1> QED
  BY <1>1, <1>2, <1>3, <1>4 DEF CacheInvariant

LEMMA BumpInImportKeeps ==
    ASSUME CacheConstants, CacheInvariant, NEW w \in Writers, Cache!BumpInImport(w)
    PROVE  CacheInvariant'
<1> USE DEF Cache!BumpInImport, Cache!Goto, Cache!NextVersion, Cache!Processes,
  Cache!readerVars, Cache!writerVars
<1>0. Cache!TypeOK /\ Known /\ Filtered /\ (~raced => Fresh)
  BY DEF CacheInvariant
<1>1. Cache!TypeOK'
  BY <1>0 DEF Cache!TypeOK, CacheConstants
<1>2. Known'
  BY <1>0 DEF Cache!TypeOK, Known, KnowsVersion
<1>3. Filtered'
  BY <1>0 DEF Cache!TypeOK, Filtered, HasList
<1>4. ASSUME ~raced' PROVE Fresh'
  <2>1. ~raced /\ version = got[w]
    BY <1>4
  <2>2. got[w] \in Nat /\ got[w] >= 1
    BY <1>0 DEF Cache!TypeOK, Known, KnowsVersion
  <2>3. Fresh /\ Current' = Current + 1 /\ Current \in Nat
    BY <1>0, <2>1, <2>2 DEF Current
  <2>4. \A q \in Readers : q # w /\ pc'[q] = pc[q] /\ got'[q] = got[q]
    BY <1>0 DEF Cache!TypeOK, CacheConstants
  <2>5. UNCHANGED <<entries, floor, payload>>
    OBVIOUS
  <2>6. \A k \in Cache!Key : k.version \in Nat
    BY DEF Cache!Key
  <2>7. Empty(Current)'
    <3>1. \A k \in Cache!Key : k.version = Current + 1 => entries[k] = Cache!Nothing
      BY <2>3, <2>6 DEF Fresh
    <3>2. \A q \in Readers : pc[q] = "store" => got[q] # Current + 1
      <4>1. \A q \in Readers : pc[q] = "store" => got[q] <= Current /\ got[q] \in Nat
        BY <1>0, <2>3 DEF Fresh, KnowsVersion, Cache!TypeOK
      <4> QED
        BY <2>3, <4>1
    <3> QED
      BY <2>3, <2>4, <2>5, <3>1, <3>2 DEF Empty
  <2>8. ShowsAtLeast(Current, settled)'
    BY <2>7 DEF Empty, ShowsAtLeast
  <2>9. ASSUME NEW q \in Readers, KnowsVersion(q)'
        PROVE  (got[q] <= Current /\ ShowsAtLeast(got[q], floor[q]))'
    <3>1. KnowsVersion(q) /\ got[q] \in Nat
      BY <1>0, <2>4, <2>9 DEF KnowsVersion, Cache!TypeOK
    <3>2. got[q] <= Current /\ ShowsAtLeast(got[q], floor[q])
      BY <2>3, <3>1 DEF Fresh
    <3> QED
      BY <2>3, <2>4, <2>5, <3>1, <3>2 DEF ShowsAtLeast
  <2>10. \A k \in Cache!Key : k.version > Current' => entries'[k] = Cache!Nothing
    BY <2>3, <2>5, <2>6 DEF Fresh
  <2>11. \A q \in Readers : pc'[q] \in {"answer", "reply"} => payload'[q].content >= floor'[q]
    BY <2>3, <2>4, <2>5 DEF Fresh
  <2> QED
    BY <2>7, <2>8, <2>9, <2>10, <2>11 DEF Fresh
<1> QED
  BY <1>1, <1>2, <1>3, <1>4 DEF CacheInvariant

LEMMA CommitImportKeeps ==
    ASSUME CacheConstants, CacheInvariant, NEW w \in Writers, Cache!CommitImport(w)
    PROVE  CacheInvariant'
<1> USE DEF Cache!CommitImport, Cache!Settle, Cache!Goto, Cache!Processes, Cache!readerVars,
  Cache!writerVars
<1>0. Cache!TypeOK /\ Known /\ Filtered /\ (~raced => Fresh)
  BY DEF CacheInvariant
<1>1. Cache!TypeOK'
  BY <1>0 DEF Cache!TypeOK, CacheConstants
<1>2. Known'
  BY <1>0 DEF Cache!TypeOK, Known, KnowsVersion
<1>3. Filtered'
  BY <1>0 DEF Cache!TypeOK, Filtered, HasList
<1>4. ASSUME ~raced' PROVE Fresh'
  BY <1>0, <1>4 DEF Cache!TypeOK, Known, Fresh, ShowsAtLeast, Empty, KnowsVersion, Importing,
     Current
<1> QED
  BY <1>1, <1>2, <1>3, <1>4 DEF CacheInvariant

LEMMA CommitLoadKeeps ==
    ASSUME CacheConstants, CacheInvariant, NEW w \in Writers, Cache!CommitLoad(w)
    PROVE  CacheInvariant'
<1> USE DEF Cache!CommitLoad, Cache!Settle, Cache!Goto, Cache!Processes, Cache!readerVars,
  Cache!writerVars
<1>0. Cache!TypeOK /\ Known /\ Filtered /\ (~raced => Fresh)
  BY DEF CacheInvariant
<1>1. Cache!TypeOK'
  BY <1>0 DEF Cache!TypeOK, CacheConstants
<1>2. Known'
  BY <1>0 DEF Cache!TypeOK, Known, KnowsVersion
<1>3. Filtered'
  BY <1>0 DEF Cache!TypeOK, Filtered, HasList
<1>4. ASSUME ~raced' PROVE Fresh'
  BY <1>0, <1>4 DEF Cache!TypeOK, Known, Fresh, ShowsAtLeast, Empty, KnowsVersion, Importing,
     Current
<1> QED
  BY <1>1, <1>2, <1>3, <1>4 DEF CacheInvariant

-----------------------------------------------------------------------------
(* Every step.                                                             *)

LEMMA StepCached ==
    ASSUME CacheConstants, CacheInvariant, Cache!Next
    PROVE  CacheInvariant'
<1>1. CASE \E r \in Readers : Cache!Reads(r)
  BY <1>1, AskKeeps, ReadVersionKeeps, InitialiseVersionKeeps, LookupKeeps, QueryRowsKeeps,
     StoreKeeps, EndReadKeeps DEF Cache!Reads, Cache!Answer, Cache!Refuse
<1>2. CASE \E w \in Writers : Cache!Writes(w)
  BY <1>2, BeginWriteKeeps, CommitSaveKeeps, ReadVersionKeeps, InitialiseVersionKeeps,
     BumpAfterSaveKeeps, BumpInImportKeeps, CommitImportKeeps, CommitLoadKeeps DEF Cache!Writes
<1>3. CASE \E k \in Cache!Key : Cache!Expire(k)
  BY <1>3, ExpireKeeps
<1> QED
  BY <1>1, <1>2, <1>3 DEF Cache!Next

LEMMA RestCached ==
    ASSUME CacheInvariant, UNCHANGED Cache!vars
    PROVE  CacheInvariant'
<1> USE DEF Cache!vars
<1>1. Cache!TypeOK' /\ Known' /\ Filtered'
  BY DEF CacheInvariant, Cache!TypeOK, Known, Filtered, KnowsVersion, HasList
<1>2. ASSUME ~raced' PROVE Fresh'
  <2>1. Fresh
    BY <1>2 DEF CacheInvariant
  <2> QED
    BY <2>1 DEF Fresh, ShowsAtLeast, Empty, Importing, KnowsVersion, Current
<1> QED
  BY <1>1, <1>2 DEF CacheInvariant

LEMMA InvariantServes ==
    ASSUME CacheInvariant
    PROVE  Cache!StaleOnlyAfterRace /\ Cache!CachedListsServe
<1>1. Cache!StaleOnlyAfterRace
  BY DEF CacheInvariant, Fresh, Cache!StaleOnlyAfterRace, Cache!ReflectsSettledChanges,
         Cache!Answering
<1>2. Cache!CurrentEntriesFresh
  <2>1. \A k \in Cache!Key : k.version = version => version = Current
    BY DEF Cache!Key, Current
  <2> QED
    BY <2>1 DEF CacheInvariant, Fresh, ShowsAtLeast, Cache!CurrentEntriesFresh
<1>3. Cache!AnswersTheFilter
  BY DEF CacheInvariant, Filtered, HasList, Cache!AnswersTheFilter, Cache!Answering
<1> QED
  BY <1>1, <1>2, <1>3 DEF Cache!CachedListsServe

-----------------------------------------------------------------------------
(* The areas of some kinds: the levels, or villages alone.                 *)

RegistryConstants(K) ==
    /\ MaxId \in Nat \ {0}
    /\ "none" \notin Names
    /\ K \subseteq {"division", "district", "upazila", "union", "village"}
    /\ \A k \in K : Areas(K)!ParentField(k) => Areas(K)!ParentKind[k] \in K

-----------------------------------------------------------------------------
(* What a request in progress is about to do, and what it still knows.     *)

AreasTyped(K) ==
    /\ areas \in [K -> [Areas(K)!Ids -> [name : Names \cup {"none"},
       parent : Areas(K)!Ids \cup {0}]]]
    /\ \A k \in K : \A i \in Areas(K)!Ids : areas[k][i] \in Areas(K)!Rows(k) \cup {Areas(K)!Nothing}

Creation(K, t) ==
    \E k \in K : \E row \in Areas(K)!Rows(k), i \in 1..(MaxId + 1) :
        t = [op |-> "create", kind |-> k, id |-> i, row |-> row]
Update(K, t) ==
    \E k \in K : \E i \in Areas(K)!Ids, to \in Areas(K)!Ids, sent \in SUBSET {"name",
        "parent"}, row \in Areas(K)!Rows(k) :
        t = [op |-> "update", kind |-> k, id |-> i, to |-> to, sent |-> sent, row |-> row]
Deletion(K, t) ==
    \E k \in K, i \in Areas(K)!Ids : t = [op |-> "destroy", kind |-> k, id |-> i]
FileOfVillages(K, t) ==
    /\ "village" \in K
    /\ \E listed \in SUBSET Areas(K)!Ids : \E file \in [listed -> Areas(K)!Rows("village")],
       n \in Int :
          t = [op |-> "import", file |-> file, wouldCreate |-> n]

Tasked(K, p) ==
    /\ \/ task[p] = Areas(K)!Idle
       \/ Creation(K, task[p]) \/ Update(K, task[p]) \/ Deletion(K,
          task[p]) \/ FileOfVillages(K, task[p])
    /\ task[p] = Areas(K)!Idle => ~overtaken[p]

\* What a request read when it began, as long as no other has changed the areas.
StillTrue(K, t) ==
    /\ t.op = "create" => (t.id \in Areas(K)!Ids => t.id \notin Areas(K)!Used(t.kind)) /\ Areas(K)!Parented(t.kind, t.row)
    /\ t.op = "update" =>
          /\ Areas(K)!Parented(t.kind, t.row)
          /\ \A f \in {"name", "parent"} \ t.sent : t.row[f] = areas[t.kind][t.id][f]
    /\ t.op = "destroy" => Areas(K)!Children(t.kind, t.id) = {}
    /\ t.op = "import" => t.wouldCreate = Areas(K)!Cardinality(DOMAIN t.file \ Areas(K)!Used("village"))
Knows(K, p) == ~overtaken[p] => StillTrue(K, task[p])

(* Every area has its parent, and a request that nobody overtook still knows the   *)
(* areas as they are.                                                              *)
RegistryInvariant(K) ==
    /\ AreasTyped(K)
    /\ task = [p \in Requests |-> task[p]]
    /\ overtaken \in [Requests -> BOOLEAN]
    /\ \A p \in Requests : Tasked(K, p) /\ Knows(K, p)
    /\ Areas(K)!ParentsExist

-----------------------------------------------------------------------------
(* The next number of a level is a free one.                               *)

\* A set of identifiers that is not empty has a greatest element.
LEMMA GreatestExists ==
    ASSUME NEW K, RegistryConstants(K), NEW U \in SUBSET Areas(K)!Ids, U # {}
    PROVE  \E m \in U : \A j \in U : j <= m
<1> DEFINE From(i) == {j \in U : i <= j}
           Tails == {From(i) : i \in U}
<1>1. IsFiniteSet(Areas(K)!Ids)
  BY FS_Interval DEF Areas!Ids, RegistryConstants
<1>2. IsWellFoundedOn(StrictSubsetOrdering(Areas(K)!Ids), SUBSET Areas(K)!Ids)
  BY <1>1, FS_FiniteSubsetsOfFinite, FS_StrictSubsetOrderingWellFounded
<1>3. Tails \subseteq SUBSET Areas(K)!Ids /\ Tails # {}
  OBVIOUS
<1>4. PICK T \in Tails : \A S \in Tails : ~ (<<S, T>> \in StrictSubsetOrdering(Areas(K)!Ids))
  <2> HIDE DEF Tails
  <2> QED
    BY <1>2, <1>3, WFMin
<1>5. PICK m \in U : T = From(m)
  BY <1>4
<1>6. ASSUME NEW j \in U, ~ (j <= m)
      PROVE  FALSE
  <2>1. m < j /\ m \in Int /\ j \in Int
    BY <1>6 DEF Areas!Ids, RegistryConstants
  <2>2. From(j) \subseteq From(m) /\ m \in From(m) /\ m \notin From(j)
    <3>1. \A x \in U : x \in Int
      BY DEF Areas!Ids, RegistryConstants
    <3>2. \A x \in U : j <= x => m <= x
      BY <2>1, <3>1
    <3>3. m <= m /\ ~ (j <= m)
      BY <1>6, <2>1
    <3> QED
      BY <3>2, <3>3
  <2>3. <<From(j), From(m)>> \in StrictSubsetOrdering(Areas(K)!Ids)
    <3>1. From(j) \in SUBSET Areas(K)!Ids /\ From(m) \in SUBSET Areas(K)!Ids /\ From(j) # From(m)
      BY <2>2
    <3> HIDE DEF From
    <3> QED
      BY <3>1, <2>2 DEF StrictSubsetOrdering
  <2>4. From(j) \in Tails
    OBVIOUS
  <2> QED
    BY <1>4, <1>5, <2>3, <2>4
<1> QED
  BY <1>6

LEMMA NextNumberFree ==
    ASSUME NEW K, RegistryConstants(K), NEW k
    PROVE  Areas(K)!next_geo_id(k) \in 1..(MaxId + 1) /\ Areas(K)!next_geo_id(k) \notin Areas(K)!Used(k)
<1>1. CASE Areas(K)!Used(k) = {}
  BY <1>1 DEF Areas!next_geo_id, RegistryConstants
<1>2. CASE Areas(K)!Used(k) # {}
  <2>1. Areas(K)!Used(k) \in SUBSET Areas(K)!Ids
    BY DEF Areas!Used
  <2>2. PICK m \in Areas(K)!Used(k) : \A j \in Areas(K)!Used(k) : j <= m
    BY <1>2, <2>1, GreatestExists
  <2> DEFINE m0 == CHOOSE i \in Areas(K)!Used(k) : \A j \in Areas(K)!Used(k) : j <= i
  <2>3. m0 \in Areas(K)!Used(k) /\ \A j \in Areas(K)!Used(k) : j <= m0
    BY <2>2
  <2>4. Areas(K)!next_geo_id(k) = 1 + m0
    BY <1>2 DEF Areas!next_geo_id
  <2> HIDE DEF m0
  <2> QED
    BY <2>1, <2>3, <2>4 DEF Areas!Ids, RegistryConstants
<1> QED
  BY <1>1, <1>2

-----------------------------------------------------------------------------
(* A request that begins.                                                  *)

\* What a request is about to do, and that it knows it.
LEMMA BeginKeeps ==
    ASSUME NEW K, RegistryInvariant(K), NEW p \in Requests, NEW t,
           Areas(K)!Begin(p, t), t # Areas(K)!Idle, StillTrue(K, t),
           Creation(K, t) \/ Update(K, t) \/ Deletion(K, t) \/ FileOfVillages(K, t)
    PROVE  RegistryInvariant(K)' /\ Areas(K)!DoneAsAsked
<1>1. /\ task' = [q \in Requests |-> IF q = p THEN t ELSE task[q]]
      /\ areas' = areas /\ overtaken' = overtaken /\ ~overtaken[p]
  BY DEF RegistryInvariant, Areas!Begin, Tasked
<1>2. AreasTyped(K)' /\ Areas(K)!ParentsExist' /\ (overtaken \in [Requests -> BOOLEAN])'
      /\ (task = [q \in Requests |-> task[q]])'
  BY <1>1 DEF RegistryInvariant, AreasTyped, Areas!ParentsExist, Areas!Used, Areas!Parented
<1>3. ASSUME NEW q \in Requests PROVE Tasked(K, q)' /\ Knows(K, q)'
  <2>1. Tasked(K, q) /\ Knows(K, q)
    BY DEF RegistryInvariant
  <2>2. CASE q = p
    <3>1. Tasked(K, q)'
      BY <1>1, <2>2 DEF Tasked, Creation, Update, Deletion, FileOfVillages
    <3>2. Knows(K, q)'
      BY <1>1, <2>2 DEF Knows, StillTrue, Areas!Used, Areas!Parented, Areas!Children
    <3> QED
      BY <3>1, <3>2
  <2>3. CASE q # p
    <3>1. Tasked(K, q)'
      BY <1>1, <2>1, <2>3 DEF Tasked, Creation, Update, Deletion, FileOfVillages
    <3>2. Knows(K, q)'
      BY <1>1, <2>1, <2>3 DEF Knows, StillTrue, Areas!Used, Areas!Parented, Areas!Children
    <3> QED
      BY <3>1, <3>2
  <2> QED
    BY <2>2, <2>3
<1>4. Areas(K)!DoneAsAsked
  BY <1>1 DEF Areas!DoneAsAsked, Areas!Ends
<1> QED
  BY <1>2, <1>3, <1>4 DEF RegistryInvariant

LEMMA CreateKeeps ==
    ASSUME NEW K, RegistryConstants(K), RegistryInvariant(K), NEW p \in Requests,
           Areas(K)!Create(p)
    PROVE  RegistryInvariant(K)' /\ Areas(K)!DoneAsAsked
<1>1. PICK k \in K : \E row \in Areas(K)!Rows(k),
  i \in (Areas(K)!Ids \ Areas(K)!Used(k)) \cup {Areas(K)!next_geo_id(k)} :
                /\ Areas(K)!Parented(k, row)
                /\ Areas(K)!Begin(p, [op |-> "create", kind |-> k, id |-> i, row |-> row])
  BY DEF Areas!Create
<1>2. PICK row \in Areas(K)!Rows(k), i \in 1..(MaxId + 1) :
          /\ i \notin Areas(K)!Used(k)
          /\ Areas(K)!Parented(k, row)
          /\ Areas(K)!Begin(p, [op |-> "create", kind |-> k, id |-> i, row |-> row])
  <2>1. Areas(K)!next_geo_id(k) \in 1..(MaxId + 1) /\ Areas(K)!next_geo_id(k) \notin Areas(K)!Used(k)
    BY NextNumberFree
  <2>2. Areas(K)!Ids \subseteq 1..(MaxId + 1)
    BY DEF Areas!Ids, RegistryConstants
  <2> QED
    BY <1>1, <2>1, <2>2
<1>3. PICK t : t = [op |-> "create", kind |-> k, id |-> i, row |-> row]
  OBVIOUS
<1>4. t # Areas(K)!Idle /\ StillTrue(K, t)
  BY <1>2, <1>3 DEF Areas!Idle, StillTrue
<1>5. Creation(K, t)
  BY <1>2, <1>3 DEF Creation
<1> QED
  BY <1>2, <1>3, <1>4, <1>5, BeginKeeps

LEMMA SaveFieldsKeeps ==
    ASSUME NEW K, RegistryConstants(K), RegistryInvariant(K), NEW p \in Requests,
           Areas(K)!SaveFields(p)
    PROVE  RegistryInvariant(K)' /\ Areas(K)!DoneAsAsked
<1>1. PICK k \in K : \E i \in Areas(K)!Used(k), to \in Areas(K)!Ids,
  sent \in SUBSET Areas(K)!Fields(k) \ {{}} :
          \E name \in IF "name" \in sent THEN Names ELSE {areas[k][i].name},
             parent \in IF "parent" \in sent THEN Areas(K)!Used(Areas(K)!ParentKind[k]) ELSE {areas[k][i].parent} :
              Areas(K)!Begin(p, [op |-> "update", kind |-> k, id |-> i, to |-> to, sent |-> sent,
                        row |-> [name |-> name, parent |-> parent]])
  BY DEF Areas!SaveFields
<1>2. PICK i \in Areas(K)!Used(k), to \in Areas(K)!Ids,
  sent \in SUBSET Areas(K)!Fields(k) \ {{}} :
          \E name \in IF "name" \in sent THEN Names ELSE {areas[k][i].name},
             parent \in IF "parent" \in sent THEN Areas(K)!Used(Areas(K)!ParentKind[k]) ELSE {areas[k][i].parent} :
              Areas(K)!Begin(p, [op |-> "update", kind |-> k, id |-> i, to |-> to, sent |-> sent,
                        row |-> [name |-> name, parent |-> parent]])
  BY <1>1
<1>3. PICK name \in IF "name" \in sent THEN Names ELSE {areas[k][i].name},
           parent \in IF "parent" \in sent THEN Areas(K)!Used(Areas(K)!ParentKind[k]) ELSE {areas[k][i].parent} :
          Areas(K)!Begin(p, [op |-> "update", kind |-> k, id |-> i, to |-> to, sent |-> sent,
                    row |-> [name |-> name, parent |-> parent]])
  BY <1>2
<1>4. PICK row : row = [name |-> name, parent |-> parent]
  OBVIOUS
<1>5. PICK t : t = [op |-> "update", kind |-> k, id |-> i, to |-> to, sent |-> sent, row |-> row]
  OBVIOUS
<1>6. i \in Areas(K)!Ids /\ areas[k][i] \in Areas(K)!Rows(k)
  BY DEF Areas!Used, RegistryInvariant, AreasTyped
<1>7. row \in Areas(K)!Rows(k)
  <2>1. name \in Names
    BY <1>3, <1>6 DEF Areas!Rows
  <2>2. parent \in IF Areas(K)!ParentField(k) THEN Areas(K)!Ids ELSE {0}
    BY <1>3, <1>6 DEF Areas!Rows, Areas!Fields, Areas!Used
  <2> QED
    BY <1>4, <2>1, <2>2 DEF Areas!Rows
<1>8. Areas(K)!Parented(k, row)
  BY <1>3, <1>4 DEF Areas!Parented, RegistryInvariant, Areas!ParentsExist
<1>9. t # Areas(K)!Idle /\ StillTrue(K, t)
  <2>1. \A f \in {"name", "parent"} \ sent : row[f] = areas[k][i][f]
    BY <1>3, <1>4
  <2> QED
    BY <1>5, <1>8, <2>1 DEF Areas!Idle, StillTrue
<1>10. Update(K, t)
  <2>1. sent \in SUBSET {"name", "parent"}
    BY DEF Areas!Fields
  <2> QED
    BY <1>5, <1>6, <1>7, <2>1 DEF Update
<1> QED
  BY <1>3, <1>4, <1>5, <1>9, <1>10, BeginKeeps

LEMMA DestroyKeeps ==
    ASSUME NEW K, RegistryInvariant(K), NEW p \in Requests, Areas(K)!Destroy(p)
    PROVE  RegistryInvariant(K)' /\ Areas(K)!DoneAsAsked
<1>1. PICK k \in K : \E i \in Areas(K)!Used(k) :
          Areas(K)!MayDelete(k, i) /\ Areas(K)!Begin(p, [op |-> "destroy", kind |-> k, id |-> i])
  BY DEF Areas!Destroy
<1>2. PICK i \in Areas(K)!Ids :
          Areas(K)!MayDelete(k, i) /\ Areas(K)!Begin(p, [op |-> "destroy", kind |-> k, id |-> i])
  BY <1>1 DEF Areas!Used
<1>3. PICK t : t = [op |-> "destroy", kind |-> k, id |-> i]
  OBVIOUS
<1>4. t # Areas(K)!Idle /\ StillTrue(K, t) /\ Deletion(K, t)
  BY <1>2, <1>3 DEF Areas!Idle, StillTrue, Areas!MayDelete, Deletion
<1> QED
  BY <1>2, <1>3, <1>4, BeginKeeps

LEMMA ImportKeeps ==
    ASSUME NEW K, RegistryConstants(K), RegistryInvariant(K), NEW p \in Requests,
           Areas(K)!Import(p)
    PROVE  RegistryInvariant(K)' /\ Areas(K)!DoneAsAsked
<1>1. PICK listed \in SUBSET Areas(K)!Ids : \E file \in [listed -> Areas(K)!Rows("village")] :
          Areas(K)!Begin(p, [op |-> "import", file |-> file,
                    wouldCreate |-> Areas(K)!Cardinality(listed \ Areas(K)!Used("village"))])
  BY DEF Areas!Import
<1>2. PICK file \in [listed -> Areas(K)!Rows("village")] :
          Areas(K)!Begin(p, [op |-> "import", file |-> file,
                    wouldCreate |-> Areas(K)!Cardinality(listed \ Areas(K)!Used("village"))])
  BY <1>1
<1>3. PICK n : n = Areas(K)!Cardinality(listed \ Areas(K)!Used("village"))
  OBVIOUS
<1>4. PICK t : t = [op |-> "import", file |-> file, wouldCreate |-> n]
  OBVIOUS
<1>5. n \in Int
  <2>1. IsFiniteSet(Areas(K)!Ids)
    BY FS_Interval DEF Areas!Ids, RegistryConstants
  <2>2. IsFiniteSet(listed \ Areas(K)!Used("village"))
    BY <2>1, FS_Subset
  <2> DEFINE new == listed \ Areas(K)!Used("village")
  <2>3. Areas(K)!Cardinality(new) = Cardinality(new)
    <3> HIDE DEF new
    <3> QED
      BY DEF Areas!Cardinality, Cardinality
  <2>4. Cardinality(new) \in Nat
    BY <2>2, FS_CardinalityType
  <2> QED
    BY <1>3, <2>3, <2>4
<1>6. t # Areas(K)!Idle /\ StillTrue(K, t)
  BY <1>3, <1>4 DEF Areas!Idle, StillTrue
<1>7. FileOfVillages(K, t)
  BY <1>4, <1>5 DEF FileOfVillages, Areas!Import
<1> QED
  BY <1>2, <1>3, <1>4, <1>6, <1>7, BeginKeeps

-----------------------------------------------------------------------------
(* A request that ends.                                                    *)

\* The request is answered, whatever it has written.
Ended(K, p) ==
    /\ task' = [task EXCEPT ![p] = Areas(K)!Idle]
    /\ overtaken' = [q \in Requests |->
                        q # p /\ task[q] # Areas(K)!Idle /\ (overtaken[q] \/ areas' # areas)]

LEMMA OthersStillKnow ==
    ASSUME NEW K, RegistryInvariant(K), NEW p \in Requests, Ended(K, p), AreasTyped(K)',
           Areas(K)!ParentsExist'
    PROVE  RegistryInvariant(K)'
<1>1. /\ task' = [q \in Requests |-> IF q = p THEN Areas(K)!Idle ELSE task[q]]
      /\ \A q \in Requests : overtaken[q] \in BOOLEAN
      /\ \A q \in Requests : q # p => task'[q] = task[q]
      /\ task'[p] = Areas(K)!Idle
  BY DEF RegistryInvariant, Ended
<1>2. (overtaken \in [Requests -> BOOLEAN])' /\ (task = [q \in Requests |-> task[q]])'
  BY <1>1 DEF Ended
<1>3. ASSUME NEW q \in Requests PROVE Tasked(K, q)' /\ Knows(K, q)'
  <2>1. Tasked(K, q) /\ Knows(K, q)
    BY DEF RegistryInvariant
  <2>2. CASE task'[q] = Areas(K)!Idle
    <3>1. Tasked(K, q)'
      BY <1>1, <2>2 DEF Tasked, Ended
    <3>2. Knows(K, q)'
      BY <2>2 DEF Knows, StillTrue, Areas!Idle
    <3> QED
      BY <3>1, <3>2
  <2>3. CASE task'[q] # Areas(K)!Idle
    <3>1. q # p /\ task'[q] = task[q] /\ task[q] # Areas(K)!Idle
      BY <1>1, <2>3
    <3>2. Tasked(K, q)'
      BY <2>1, <2>3, <3>1 DEF Tasked, Creation, Update, Deletion, FileOfVillages
    <3>3. ~overtaken'[q] => ~overtaken[q] /\ areas' = areas
      BY <1>1, <3>1 DEF Ended
    <3>4. Knows(K, q)'
      BY ZenonT(60), <2>1, <3>1, <3>3 DEF Knows, StillTrue, Areas!Used, Areas!Parented,
         Areas!Children
    <3> QED
      BY <3>2, <3>4
  <2> QED
    BY <2>2, <2>3
<1> QED
  BY <1>2, <1>3 DEF RegistryInvariant

\* The one request that ends is the one whose promise is tested.
LEMMA OneEnds ==
    ASSUME NEW K, NEW p \in Requests, Ended(K, p), task = [q \in Requests |-> task[q]],
           task[p].op = "create" /\ areas' # areas => task[p].id \notin Areas(K)!Used(task[p].kind),
           ~overtaken[p] =>
              /\ areas' = Areas(K)!Effect(task[p])
              /\ task[p].op = "import" =>
                    task[p].wouldCreate = Areas(K)!Cardinality(DOMAIN task[p].file \ Areas(K)!Used("village"))
    PROVE  Areas(K)!DoneAsAsked
<1>1. \A q \in Requests : Areas(K)!Ends(q) => q = p
  BY DEF Ended, Areas!Ends
<1> QED
  BY <1>1 DEF Areas!DoneAsAsked

LEMMA KnowsWhatItRead ==
    ASSUME NEW K, RegistryInvariant(K), NEW p \in Requests, ~overtaken[p]
    PROVE  StillTrue(K, task[p])
  BY DEF RegistryInvariant, Knows

\* One row is written, under one identifier.
LEMMA RowWritten ==
    ASSUME NEW K, RegistryConstants(K), AreasTyped(K), Areas(K)!ParentsExist,
           NEW k \in K, NEW i \in Areas(K)!Ids, NEW row \in Areas(K)!Rows(k),
           Areas(K)!Parented(k, row),
           areas' = [areas EXCEPT ![k][i] = row]
    PROVE  AreasTyped(K)' /\ Areas(K)!ParentsExist'
<1>1. row \in [name : Names \cup {"none"}, parent : Areas(K)!Ids \cup {0}]
  BY DEF Areas!Rows
<1>2. /\ areas'[k][i] = row
      /\ \A l \in K, j \in Areas(K)!Ids : l # k \/ j # i => areas'[l][j] = areas[l][j]
  BY DEF AreasTyped
<1>3. AreasTyped(K)'
  BY <1>1, <1>2 DEF AreasTyped
<1>4. row # Areas(K)!Nothing
  BY DEF Areas!Rows, Areas!Nothing, RegistryConstants
<1>5. \A l \in K : Areas(K)!Used(l) \subseteq Areas(K)!Used(l)'
  BY <1>2, <1>4 DEF Areas!Used
<1>6. ASSUME NEW l \in K, NEW j \in Areas(K)!Used(l)'
      PROVE  Areas(K)!Parented(l, areas[l][j])'
  <2>1. CASE l = k /\ j = i
    BY <1>2, <1>5, <2>1 DEF Areas!Parented, RegistryConstants
  <2>2. CASE ~ (l = k /\ j = i)
    BY <1>2, <1>5, <2>2 DEF Areas!Parented, RegistryConstants, Areas!ParentsExist, Areas!Used
  <2> QED
    BY <2>1, <2>2
<1> QED
  BY <1>3, <1>6 DEF Areas!ParentsExist

LEMMA InsertKeeps ==
    ASSUME NEW K, RegistryConstants(K), RegistryInvariant(K), NEW p \in Requests,
           Areas(K)!Insert(p)
    PROVE  RegistryInvariant(K)' /\ Areas(K)!DoneAsAsked
<1> DEFINE t == task[p]
<1>1. t.op = "create" /\ Ended(K, p)
  BY DEF Areas!Insert, Areas!End, Ended
<1>a. PICK k \in K : \E row \in Areas(K)!Rows(k), i \in 1..(MaxId + 1) :
          t = [op |-> "create", kind |-> k, id |-> i, row |-> row]
  BY <1>1 DEF RegistryInvariant, Tasked, Areas!Idle, Creation, Update, Deletion, FileOfVillages
<1>2. PICK row \in Areas(K)!Rows(k), i \in 1..(MaxId + 1) :
          t = [op |-> "create", kind |-> k, id |-> i, row |-> row]
  BY <1>a
<1>b. t.op = "create" /\ t.kind = k /\ t.id = i /\ t.row = row
  BY <1>2
<1>3. areas' = IF i \in Areas(K)!Ids \ Areas(K)!Used(k) /\ Areas(K)!Parented(k, row)
               THEN [areas EXCEPT ![k][i] = row] ELSE areas
  BY <1>b DEF Areas!Insert, Areas!End
<1>4. AreasTyped(K)' /\ Areas(K)!ParentsExist'
  <2>1. CASE i \in Areas(K)!Ids \ Areas(K)!Used(k) /\ Areas(K)!Parented(k, row)
    BY <1>3, <2>1, RowWritten DEF RegistryInvariant
  <2>2. CASE ~ (i \in Areas(K)!Ids \ Areas(K)!Used(k) /\ Areas(K)!Parented(k, row))
    BY <1>3, <2>2 DEF RegistryInvariant, AreasTyped, Areas!ParentsExist, Areas!Used,
       Areas!Parented
  <2> QED
    BY <2>1, <2>2
<1>5. ASSUME ~overtaken[p] PROVE areas' = Areas(K)!Effect(t)
  <2>1. StillTrue(K, t)
    BY <1>5, KnowsWhatItRead
  <2> HIDE DEF t
  <2>2. (i \in Areas(K)!Ids => i \notin Areas(K)!Used(k)) /\ Areas(K)!Parented(k, row)
    BY <1>b, <2>1 DEF StillTrue
  <2> QED
    BY <1>b, <1>3, <2>2 DEF Areas!Effect
<1>6. areas' # areas => i \notin Areas(K)!Used(k)
  BY <1>3
<1>7. Areas(K)!DoneAsAsked
  <2>1. task = [q \in Requests |-> task[q]]
    BY DEF RegistryInvariant
  <2> QED
    BY <1>1, <1>b, <1>5, <1>6, <2>1, OneEnds
<1> QED
  BY <1>1, <1>4, <1>7, OthersStillKnow

LEMMA SaveKeeps ==
    ASSUME NEW K, RegistryConstants(K), RegistryInvariant(K), NEW p \in Requests, Areas(K)!Save(p)
    PROVE  RegistryInvariant(K)' /\ Areas(K)!DoneAsAsked
<1> DEFINE t == task[p]
<1>1. t.op = "update" /\ Ended(K, p)
  BY DEF Areas!Save, Areas!End, Ended
<1>a. PICK k \in K :
          \E i \in Areas(K)!Ids, to \in Areas(K)!Ids, sent \in SUBSET {"name", "parent"},
              row \in Areas(K)!Rows(k) :
              t = [op |-> "update", kind |-> k, id |-> i, to |-> to, sent |-> sent, row |-> row]
  BY <1>1 DEF RegistryInvariant, Tasked, Areas!Idle, Creation, Update, Deletion, FileOfVillages
<1>2. PICK i \in Areas(K)!Ids, to \in Areas(K)!Ids, sent \in SUBSET {"name", "parent"},
  row \in Areas(K)!Rows(k) :
          t = [op |-> "update", kind |-> k, id |-> i, to |-> to, sent |-> sent, row |-> row]
  BY <1>a
<1>b. t.op = "update" /\ t.kind = k /\ t.id = i /\ t.to = to /\ t.sent = sent /\ t.row = row
  BY <1>2
<1>3. areas' = IF Areas(K)!Parented(k, row) THEN [areas EXCEPT ![k][to] = row] ELSE areas
  BY <1>b DEF Areas!Save, Areas!End
<1>4. AreasTyped(K)' /\ Areas(K)!ParentsExist'
  <2>1. CASE Areas(K)!Parented(k, row)
    BY <1>3, <2>1, RowWritten DEF RegistryInvariant
  <2>2. CASE ~ Areas(K)!Parented(k, row)
    BY <1>3, <2>2 DEF RegistryInvariant, AreasTyped, Areas!ParentsExist, Areas!Used,
       Areas!Parented
  <2> QED
    BY <2>1, <2>2
<1>5. ASSUME ~overtaken[p] PROVE areas' = Areas(K)!Effect(t)
  <2>1. StillTrue(K, t)
    BY <1>5, KnowsWhatItRead
  <2> HIDE DEF t
  <2>2. Areas(K)!Parented(k, row) /\ \A f \in {"name", "parent"} \ sent : row[f] = areas[k][i][f]
    BY <1>b, <2>1 DEF StillTrue
  <2>3. row = [f \in {"name", "parent"} |-> IF f \in sent THEN row[f] ELSE areas[k][i][f]]
    BY <2>2 DEF Areas!Rows
  <2>4. Areas(K)!Effect(t) = [areas EXCEPT ![k][to] =
                        [f \in {"name", "parent"} |->
                            IF f \in sent THEN row[f] ELSE areas[k][i][f]]]
    BY <1>b DEF Areas!Effect
  <2> QED
    BY <1>3, <2>2, <2>3, <2>4
<1>6. Areas(K)!DoneAsAsked
  <2>1. task = [q \in Requests |-> task[q]]
    BY DEF RegistryInvariant
  <2> QED
    BY <1>1, <1>b, <1>5, <2>1, OneEnds
<1> QED
  BY <1>1, <1>4, <1>6, OthersStillKnow

LEMMA DeleteKeeps ==
    ASSUME NEW K, RegistryConstants(K), RegistryInvariant(K), NEW p \in Requests,
           Areas(K)!Delete(p)
    PROVE  RegistryInvariant(K)' /\ Areas(K)!DoneAsAsked
<1> DEFINE t == task[p]
<1>1. t.op = "destroy" /\ Ended(K, p)
  BY DEF Areas!Delete, Areas!End, Ended
<1>2. PICK k \in K, i \in Areas(K)!Ids : t = [op |-> "destroy", kind |-> k, id |-> i]
  BY <1>1 DEF RegistryInvariant, Tasked, Areas!Idle, Creation, Update, Deletion, FileOfVillages
<1>b. t.op = "destroy" /\ t.kind = k /\ t.id = i
  BY <1>2
<1>3. areas' = IF Areas(K)!Children(k,
  i) = {} THEN [areas EXCEPT ![k][i] = Areas(K)!Nothing] ELSE areas
  BY <1>b DEF Areas!Delete, Areas!End
<1>4. AreasTyped(K)' /\ Areas(K)!ParentsExist'
  <2>1. CASE Areas(K)!Children(k, i) = {}
    <3>1. /\ areas'[k][i] = Areas(K)!Nothing
          /\ \A l \in K, j \in Areas(K)!Ids : l # k \/ j # i => areas'[l][j] = areas[l][j]
      BY <1>3, <2>1 DEF RegistryInvariant, AreasTyped
    <3>2. AreasTyped(K)'
      BY <1>3, <2>1, <3>1 DEF RegistryInvariant, AreasTyped, Areas!Nothing
    <3>3. ASSUME NEW l \in K, NEW j \in Areas(K)!Used(l)', Areas(K)!ParentField(l)
          PROVE  (areas[l][j].parent \in Areas(K)!Used(Areas(K)!ParentKind[l]))'
      <4>1. j \in Areas(K)!Ids /\ ~ (l = k /\ j = i) /\ areas'[l][j] = areas[l][j] /\ j \in Areas(K)!Used(l)
        BY <3>1 DEF Areas!Used
      <4>2. areas[l][j].parent \in Areas(K)!Used(Areas(K)!ParentKind[l])
        BY <3>3, <4>1 DEF RegistryInvariant, Areas!ParentsExist, Areas!Parented
      <4>3. ~ (Areas(K)!ParentKind[l] = k /\ areas[l][j].parent = i)
        <5>1. <<l, j>> \in K \X Areas(K)!Ids /\ <<l, j>>[1] = l /\ <<l, j>>[2] = j
          BY <4>1
        <5>2. <<l, j>> \notin Areas(K)!Children(k, i)
          BY <2>1
        <5> QED
          BY <5>1, <5>2 DEF Areas!Children
      <4>4. Areas(K)!ParentKind[l] \in K
        BY <3>3 DEF RegistryConstants
      <4> QED
        BY <3>1, <4>1, <4>2, <4>3, <4>4 DEF Areas!Used
    <3> QED
      BY <3>2, <3>3 DEF Areas!ParentsExist, Areas!Parented
  <2>2. CASE Areas(K)!Children(k, i) # {}
    BY <1>3, <2>2 DEF RegistryInvariant, AreasTyped, Areas!ParentsExist, Areas!Used,
       Areas!Parented
  <2> QED
    BY <2>1, <2>2
<1>5. ASSUME ~overtaken[p] PROVE areas' = Areas(K)!Effect(t)
  <2>1. StillTrue(K, t)
    BY <1>5, KnowsWhatItRead
  <2> HIDE DEF t
  <2>2. Areas(K)!Children(k, i) = {}
    BY <1>b, <2>1 DEF StillTrue
  <2> QED
    BY <1>b, <1>3, <2>2 DEF Areas!Effect
<1>6. Areas(K)!DoneAsAsked
  <2>1. task = [q \in Requests |-> task[q]]
    BY DEF RegistryInvariant
  <2> QED
    BY <1>1, <1>b, <1>5, <2>1, OneEnds
<1> QED
  BY <1>1, <1>4, <1>6, OthersStillKnow

LEMMA FileKeeps ==
    ASSUME NEW K, RegistryConstants(K), RegistryInvariant(K), NEW p \in Requests,
           Areas(K)!commit_village_import(p)
    PROVE  RegistryInvariant(K)' /\ Areas(K)!DoneAsAsked
<1> DEFINE t == task[p]
<1>1. t.op = "import" /\ Ended(K, p) /\ areas' = Areas(K)!Stored("village", t.file)
  BY DEF Areas!commit_village_import, Areas!End, Ended
<1>2. PICK listed \in SUBSET Areas(K)!Ids : \E file \in [listed -> Areas(K)!Rows("village")],
  n \in Int :
          t = [op |-> "import", file |-> file, wouldCreate |-> n]
  BY <1>1 DEF RegistryInvariant, Tasked, Areas!Idle, Creation, Update, Deletion, FileOfVillages
<1>3. PICK file \in [listed -> Areas(K)!Rows("village")], n \in Int :
          t = [op |-> "import", file |-> file, wouldCreate |-> n]
  BY <1>2
<1>4. t.file = file
  BY <1>3
<1>5. "village" \in K
  BY <1>1 DEF RegistryInvariant, Tasked, Areas!Idle, Creation, Update, Deletion, FileOfVillages
<1>6. /\ \A i \in Areas(K)!Ids : areas'["village"][i] =
            IF i \in listed THEN file[i] ELSE areas["village"][i]
      /\ areas' = [areas EXCEPT !["village"] = areas'["village"]]
      /\ areas'["village"] = [i \in Areas(K)!Ids |-> areas'["village"][i]]
      /\ \A l \in K : l # "village" => areas'[l] = areas[l]
  BY <1>1, <1>4, <1>5 DEF Areas!Stored, RegistryInvariant, AreasTyped
<1>7. \A i \in Areas(K)!Ids :
          /\ areas'["village"][i] \in [name : Names \cup {"none"}, parent : Areas(K)!Ids \cup {0}]
          /\ areas'["village"][i] \in Areas(K)!Rows("village") \cup {Areas(K)!Nothing}
  <2>1. \A i \in listed : file[i] \in Areas(K)!Rows("village")
    OBVIOUS
  <2>2. Areas(K)!Rows("village") \subseteq [name : Names \cup {"none"},
    parent : Areas(K)!Ids \cup {0}]
    BY DEF Areas!Rows
  <2>3. \A i \in Areas(K)!Ids :
            /\ areas["village"][i] \in [name : Names \cup {"none"},
               parent : Areas(K)!Ids \cup {0}]
            /\ areas["village"][i] \in Areas(K)!Rows("village") \cup {Areas(K)!Nothing}
    BY <1>5 DEF RegistryInvariant, AreasTyped
  <2> QED
    BY <1>6, <2>1, <2>2, <2>3
<1>8. AreasTyped(K)'
  BY <1>5, <1>6, <1>7 DEF RegistryInvariant, AreasTyped
<1>9. Areas(K)!ParentsExist'
  <2>1. SUFFICES ASSUME NEW l \in K, NEW j \in Areas(K)!Used(l)', Areas(K)!ParentField(l)
                 PROVE  (areas[l][j].parent \in Areas(K)!Used(Areas(K)!ParentKind[l]))'
    BY DEF Areas!ParentsExist, Areas!Parented
  <2>2. l # "village" /\ Areas(K)!ParentKind[l] # "village" /\ Areas(K)!ParentKind[l] \in K
    BY <2>1 DEF Areas!ParentField, Areas!ParentKind, RegistryConstants
  <2> QED
    BY <1>6, <2>1, <2>2 DEF RegistryInvariant, Areas!ParentsExist, Areas!Parented, Areas!Used
<1>10. Areas(K)!DoneAsAsked
  <2>1. task = [q \in Requests |-> task[q]]
    BY DEF RegistryInvariant
  <2>2. ASSUME ~overtaken[p]
        PROVE  areas' = Areas(K)!Effect(t) /\ t.wouldCreate = Areas(K)!Cardinality(DOMAIN t.file \ Areas(K)!Used("village"))
    <3>1. StillTrue(K, t)
      BY <2>2, KnowsWhatItRead
    <3> HIDE DEF t
    <3> QED
      BY <1>1, <3>1 DEF StillTrue, Areas!Effect
  <2> QED
    BY <1>1, <2>1, <2>2, OneEnds
<1> QED
  BY <1>1, <1>8, <1>9, <1>10, OthersStillKnow

LEMMA LoadKeeps ==
    ASSUME NEW K, RegistryConstants(K), RegistryInvariant(K), NEW p \in Requests, Areas(K)!Load(p)
    PROVE  RegistryInvariant(K)' /\ Areas(K)!DoneAsAsked
<1> DEFINE kept(clear) == IF clear THEN [k \in K |-> [j \in Areas(K)!Ids |-> Areas(K)!Nothing]] ELSE areas
           line(name, parent, k) ==
               [name |-> name, parent |-> IF Areas(K)!ParentField(k) THEN parent ELSE 0]
<1>1. PICK clear \in BOOLEAN, i \in Areas(K)!Ids, name \in Names, parent \in Areas(K)!Ids :
          LET after == [k \in K |-> [kept(clear)[k] EXCEPT ![i] = line(name, parent, k)]]
          IN  /\ \A k \in K : Areas(K)!ParentField(k) => after[Areas(K)!ParentKind[k]][parent] # Areas(K)!Nothing
              /\ Areas(K)!End(p, after)
  BY DEF Areas!Load
<1>2. areas' = [k \in K |-> [kept(clear)[k] EXCEPT ![i] = line(name, parent, k)]]
  BY <1>1 DEF Areas!End
<1>3. \A k \in K : Areas(K)!ParentField(k) => areas'[Areas(K)!ParentKind[k]][parent] # Areas(K)!Nothing
  BY <1>1, <1>2
<1>4. Ended(K, p)
  BY <1>1, <1>2 DEF Areas!End, Ended
<1>5. kept(clear) \in [K -> [Areas(K)!Ids -> [name : Names \cup {"none"},
  parent : Areas(K)!Ids \cup {0}]]]
  BY DEF RegistryInvariant, AreasTyped, Areas!Nothing
<1>6. ASSUME NEW k \in K
      PROVE  /\ line(name, parent, k) \in [name : Names \cup {"none"},
                                             parent : Areas(K)!Ids \cup {0}]
             /\ line(name, parent, k) \in Areas(K)!Rows(k)
             /\ line(name, parent, k) # Areas(K)!Nothing
  BY DEF Areas!Rows, Areas!Nothing, RegistryConstants
<1>7. \A k \in K, j \in Areas(K)!Ids :
          kept(clear)[k][j] \in Areas(K)!Rows(k) \cup {Areas(K)!Nothing} /\ kept(clear)[k][j] \in {Areas(K)!Nothing, areas[k][j]}
  BY DEF RegistryInvariant, AreasTyped
<1>8. \A k \in K, j \in Areas(K)!Ids :
          areas'[k][j] = IF j = i THEN line(name, parent, k) ELSE kept(clear)[k][j]
  <2> HIDE DEF kept, line
  <2> QED
    BY <1>2, <1>5
<1>9. AreasTyped(K)'
  <2> HIDE DEF kept, line
  <2> QED
    BY <1>2, <1>5, <1>6, <1>7, <1>8 DEF AreasTyped
<1>10. ASSUME NEW l \in K, NEW j \in Areas(K)!Used(l)', Areas(K)!ParentField(l)
       PROVE  (areas[l][j].parent \in Areas(K)!Used(Areas(K)!ParentKind[l]))'
  <2>1. Areas(K)!ParentKind[l] \in K /\ j \in Areas(K)!Ids
    BY <1>10 DEF RegistryConstants, Areas!Used
  <2>2. CASE j = i
    <3>1. areas'[l][j].parent = parent
      <4>1. areas'[l][j] = line(name, parent, l)
        BY <1>8, <2>1, <2>2
      <4> QED
        BY <1>10, <4>1
    <3> QED
      BY <1>3, <1>10, <2>1, <3>1 DEF Areas!Used
  <2>3. CASE j # i
    <3>1. areas'[l][j] = areas[l][j] /\ areas[l][j] # Areas(K)!Nothing /\ ~clear
      <4>1. areas'[l][j] # Areas(K)!Nothing
        BY DEF Areas!Used
      <4>2. areas'[l][j] = kept(clear)[l][j]
        BY <1>8, <2>1, <2>3
      <4> QED
        BY <2>1, <4>1, <4>2
    <3>2. areas[l][j].parent \in Areas(K)!Used(Areas(K)!ParentKind[l])
      BY <1>10, <2>1, <3>1 DEF RegistryInvariant, Areas!ParentsExist, Areas!Parented, Areas!Used
    <3>3. Areas(K)!Used(Areas(K)!ParentKind[l]) \subseteq Areas(K)!Used(Areas(K)!ParentKind[l])'
      <4>1. \A m \in Areas(K)!Ids : areas'[Areas(K)!ParentKind[l]][m] =
                IF m = i THEN line(name, parent,
                Areas(K)!ParentKind[l]) ELSE areas[Areas(K)!ParentKind[l]][m]
        BY <1>8, <2>1, <3>1
      <4> HIDE DEF line
      <4> QED
        BY <1>6, <2>1, <4>1 DEF Areas!Used
    <3> QED
      BY <3>1, <3>2, <3>3
  <2> QED
    BY <2>2, <2>3
<1>11. Areas(K)!ParentsExist'
  BY <1>10 DEF Areas!ParentsExist, Areas!Parented
<1>12. Areas(K)!DoneAsAsked
  <2>1. task[p] = Areas(K)!Idle
    BY DEF Areas!Load
  <2>2. \A q \in Requests : ~Areas(K)!Ends(q)
    BY <1>4, <2>1 DEF Areas!Ends, Ended
  <2> QED
    BY <2>2 DEF Areas!DoneAsAsked
<1> QED
  BY <1>4, <1>9, <1>11, <1>12, OthersStillKnow

-----------------------------------------------------------------------------
(* Every step.                                                             *)

LEMMA InitKnows ==
    ASSUME NEW K, RegistryConstants(K), Areas(K)!Init
    PROVE  RegistryInvariant(K)
<1>1. AreasTyped(K)
  BY DEF Areas!Init, AreasTyped, Areas!Nothing
<1>2. Areas(K)!ParentsExist
  BY DEF Areas!Init, Areas!ParentsExist, Areas!Used
<1>3. \A p \in Requests : Tasked(K, p) /\ Knows(K, p)
  BY DEF Areas!Init, Tasked, Knows, StillTrue, Areas!Idle
<1> QED
  BY <1>1, <1>2, <1>3 DEF Areas!Init, RegistryInvariant

LEMMA StepKeeps ==
    ASSUME NEW K, RegistryConstants(K), RegistryInvariant(K), Areas(K)!Next
    PROVE  RegistryInvariant(K)' /\ Areas(K)!DoneAsAsked
<1> PICK p \in Requests :
        \/ Areas(K)!Create(p) \/ Areas(K)!Insert(p)
        \/ Areas(K)!SaveFields(p) \/ Areas(K)!Save(p)
        \/ Areas(K)!Destroy(p) \/ Areas(K)!Delete(p)
        \/ Areas(K)!Import(p) \/ Areas(K)!commit_village_import(p)
        \/ Areas(K)!Load(p)
  BY DEF Areas!Next
<1> QED
  BY CreateKeeps, InsertKeeps, SaveFieldsKeeps, SaveKeeps, DestroyKeeps, DeleteKeeps,
     ImportKeeps, FileKeeps, LoadKeeps

LEMMA RestKeeps ==
    ASSUME NEW K, RegistryInvariant(K), UNCHANGED Areas(K)!vars
    PROVE  RegistryInvariant(K)' /\ Areas(K)!DoneAsAsked
<1> USE DEF Areas!vars
<1>1. AreasTyped(K)' /\ Areas(K)!ParentsExist'
  BY DEF RegistryInvariant, AreasTyped, Areas!ParentsExist, Areas!Used, Areas!Parented
<1>2. ASSUME NEW p \in Requests PROVE Tasked(K, p)' /\ Knows(K, p)'
  <2>1. Tasked(K, p) /\ Knows(K, p)
    BY DEF RegistryInvariant
  <2>2. Tasked(K, p)'
    BY <2>1 DEF Tasked, Creation, Update, Deletion, FileOfVillages
  <2>3. Knows(K, p)'
    BY <2>1 DEF Knows, StillTrue, Areas!Used, Areas!Parented, Areas!Children
  <2> QED
    BY <2>2, <2>3
<1>3. Areas(K)!DoneAsAsked
  BY DEF Areas!DoneAsAsked, Areas!Ends
<1> QED
  BY <1>1, <1>2, <1>3 DEF RegistryInvariant

LEMMA InvariantGivesTypes ==
    ASSUME NEW K, RegistryConstants(K), RegistryInvariant(K)
    PROVE  Areas(K)!TypeOK
<1>1. \A k \in K : areas[k] \in [Areas(K)!Ids -> Areas(K)!Rows(k) \cup {Areas(K)!Nothing}]
  BY DEF RegistryInvariant, AreasTyped
<1>2. ASSUME NEW p \in Requests
      PROVE  /\ task[p].op \in {"none", "create", "update", "destroy", "import"}
             /\ task[p] = Areas(K)!Idle => ~overtaken[p]
             /\ task[p].op = "create" => task[p].id \in 1..(MaxId + 1)
  <2>1. Tasked(K, p)
    BY DEF RegistryInvariant
  <2>2. CASE Creation(K, task[p])
    <3>1. PICK k \in K : \E row \in Areas(K)!Rows(k), i \in 1..(MaxId + 1) :
              task[p] = [op |-> "create", kind |-> k, id |-> i, row |-> row]
      BY <2>2 DEF Creation
    <3> QED
      BY <2>1, <3>1 DEF Tasked
  <2>3. CASE task[p] = Areas(K)!Idle
    BY <2>1, <2>3 DEF Tasked, Areas!Idle
  <2>4. CASE Update(K, task[p])
    <3>1. task[p].op = "update"
      BY <2>4 DEF Update
    <3> QED
      BY <2>1, <3>1 DEF Tasked
  <2>5. CASE Deletion(K, task[p])
    <3>1. task[p].op = "destroy"
      BY <2>5 DEF Deletion
    <3> QED
      BY <2>1, <3>1 DEF Tasked
  <2>6. CASE FileOfVillages(K, task[p])
    <3>1. task[p].op = "import"
      BY <2>6 DEF FileOfVillages
    <3> QED
      BY <2>1, <3>1 DEF Tasked
  <2> QED
    BY <2>1, <2>2, <2>3, <2>4, <2>5, <2>6 DEF Tasked
<1> QED
  BY <1>1, <1>2 DEF Areas!TypeOK

LEMMA InstancesTyped ==
    CacheConstants /\ RegistryConstants(Levels) /\ RegistryConstants({"village"})
  BY GeoConstants DEF CacheConstants, RegistryConstants, Areas!ParentField, Areas!ParentKind

-----------------------------------------------------------------------------
(* The composition.                                                        *)

(* In the part that is looked at, a request, a reader or a writer that nobody      *)
(* overtook or raced still knows what it read.                                     *)
GeoInvariant ==
    /\ part = "cache" => CacheInvariant
    /\ part = "tree" => RegistryInvariant(Levels)
    /\ part = "villages" => RegistryInvariant({"village"})

\* What a step does to the part that is looked at.
Kept ==
    /\ GeoInvariant'
    /\ part = "tree" => Areas(Levels)!DoneAsAsked
    /\ part = "villages" => Areas({"village"})!DoneAsAsked

LEMMA InitKept == Init => GeoInvariant
  BY InstancesTyped, InitCached,
     InitKnows DEF Init, GeoInvariant

LEMMA StepKept ==
    ASSUME GeoInvariant, [Next]_vars
    PROVE  Kept
<1>1. CASE part = "cache" /\ Cache!Next /\ UNCHANGED <<part, registryVars>>
  BY <1>1, InstancesTyped, StepCached DEF GeoInvariant, Kept
<1>2. CASE part = "tree" /\ Areas(Levels)!Next /\ UNCHANGED <<part, cacheVars>>
  BY <1>2, InstancesTyped, StepKeeps DEF GeoInvariant, Kept
<1>3. CASE part = "villages" /\ Areas({"village"})!Next /\ UNCHANGED <<part, cacheVars>>
  BY <1>3, InstancesTyped, StepKeeps
     DEF GeoInvariant, Kept
<1>4. CASE UNCHANGED vars
  <2>1. /\ part' = part /\ UNCHANGED Cache!vars
        /\ UNCHANGED Areas(Levels)!vars /\ UNCHANGED Areas({"village"})!vars
    BY <1>4 DEF vars, cacheVars, registryVars, Cache!vars, Areas!vars
  <2> QED
    BY <2>1, RestCached, RestKeeps DEF GeoInvariant, Kept
<1> QED
  BY <1>1, <1>2, <1>3, <1>4 DEF Next

\* The inductive invariant that the theorems below rest on.
THEOREM GeoInvariantHolds == Spec => []GeoInvariant
<1>1. Init => GeoInvariant
  BY InitKept
<1>2. GeoInvariant /\ [Next]_vars => GeoInvariant'
  BY StepKept DEF Kept
<1> QED
  BY <1>1, <1>2, PTL DEF Spec

\* Rows, tasks, cached lists and version numbers keep their types.
THEOREM GeoTypes == Spec => []TypeOK
<1>1. GeoInvariant => TypeOK
  BY InstancesTyped, InvariantGivesTypes DEF GeoInvariant, TypeOK, CacheInvariant
<1> QED
  BY GeoInvariantHolds, <1>1, PTL

(* With any number of readers and writers, an answer older than a settled change   *)
(* is the work of a race over the version number or of a read inside an import; a  *)
(* list under the current version is fresh, and answers its filter.                *)
THEOREM StaleListsAreRaces == Spec => []ListsServe
<1>1. GeoInvariant => ListsServe
  BY InvariantServes DEF GeoInvariant, ListsServe
<1> QED
  BY GeoInvariantHolds, <1>1, PTL

(* With any number of requests no area is ever without its parent, no creation     *)
(* replaces an area, and a request that no other overtook does what it was asked   *)
(* and counted what it wrote.                                                      *)
THEOREM RequestsDoAsAsked == Spec => RegistryKept
<1>1. GeoInvariant => (part = "tree" => Areas(Levels)!ParentsExist)
  BY DEF GeoInvariant, RegistryInvariant
<1>2. GeoInvariant /\ [Next]_vars => [part = "tree" => Areas(Levels)!DoneAsAsked]_vars
  BY StepKept DEF Kept
<1>3. GeoInvariant /\ [Next]_vars => [part = "villages" => Areas({"village"})!DoneAsAsked]_vars
  BY StepKept DEF Kept
<1> QED
  BY GeoInvariantHolds, <1>1, <1>2, <1>3, PTL DEF Spec, RegistryKept

=============================================================================
