-------------------------------- MODULE Geo --------------------------------
(***************************************************************************)
(* The geo application: the cached public lists (GeoCache), the areas with *)
(* a level above and the villages (GeoRegistry, for each of them).  What   *)
(* the cache holds does not depend on which areas are changed, nor what a  *)
(* request does to the areas on the cache, and villages stand alone: each  *)
(* is looked at with the others at rest.                                   *)
(***************************************************************************)
EXTENDS Integers

CONSTANTS
    Readers, Writers, Filters, Orders, InitialVersion, WriterOps, MaxVersion, MaxContent,
    Requests, Levels, Names, MaxId

VARIABLES
    part,           \* which of them
    content, version, entries, pc, query, got, payload, op, mine, settled, floor, raced,
    areas, task, overtaken

cacheVars == <<content, version, entries, pc, query, got, payload, op, mine, settled, floor, raced>>
registryVars == <<areas, task, overtaken>>
vars == <<part, cacheVars, registryVars>>

Cache == INSTANCE GeoCache
\* The areas of these kinds: of the levels, or villages alone.
Areas(Kinds) == INSTANCE GeoRegistry

ASSUME GeoConstants ==
    /\ MaxVersion \in Nat \ {0} /\ MaxContent \in Nat
    /\ InitialVersion \in {0, 1}
    /\ WriterOps \subseteq {"save", "import", "load"}
    /\ Filters # {} /\ Orders # {}
    /\ Readers \cap Writers = {}
    /\ Levels \subseteq DOMAIN Areas(Levels)!ParentKind
    /\ \A k \in Levels : Areas(Levels)!ParentField(k) => Areas(Levels)!ParentKind[k] \in Levels
    /\ MaxId \in Nat \ {0}
    /\ Names # {} /\ "none" \notin Names

Init ==
    /\ part \in {"cache", "tree", "villages"}
    /\ Cache!Init
    /\ IF part = "villages" THEN Areas({"village"})!Init ELSE Areas(Levels)!Init

Next ==
    \/ part = "cache" /\ Cache!Next /\ UNCHANGED <<part, registryVars>>
    \/ part = "tree" /\ Areas(Levels)!Next /\ UNCHANGED <<part, cacheVars>>
    \/ part = "villages" /\ Areas({"village"})!Next /\ UNCHANGED <<part, cacheVars>>

Spec == Init /\ [][Next]_vars

-----------------------------------------------------------------------------
(* Correctness.                                                            *)

TypeOK ==
    /\ part = "cache" => Cache!TypeOK
    /\ part = "tree" => Areas(Levels)!TypeOK
    /\ part = "villages" => Areas({"village"})!TypeOK

(* The lists: an answer older than a settled change is always the work of a race   *)
(* over the version number or of a read inside an import (StaleOnlyAfterRace); a   *)
(* list under the current version is fresh, and answers the filter asked for, in   *)
(* the order of whoever read it (CachedListsServe).                                *)
ListsServe == part = "cache" => Cache!StaleOnlyAfterRace /\ Cache!CachedListsServe

(* The areas: none is without its parent (ParentsExist), and what a request does   *)
(* not do as it was asked is the work of another at the same time (DoneAsAsked).   *)
RegistryKept ==
    /\ [](part = "tree" => Areas(Levels)!ParentsExist)
    /\ [][part = "tree" => Areas(Levels)!DoneAsAsked]_vars
    /\ [][part = "villages" => Areas({"village"})!DoneAsAsked]_vars

=============================================================================
