---------------------------- MODULE GeoRegistry ----------------------------
(***************************************************************************)
(* The areas of apps/backend/geo: divisions, districts, upazilas and       *)
(* unions, each in one of the level above, and villages.  An               *)
(* administrator's request reads what it needs, then writes; no            *)
(* transaction holds the two together, only the constraints of the tables  *)
(* are tested with the write.  What a write does to the cached lists is in *)
(* GeoCache.                                                               *)
(***************************************************************************)
EXTENDS Integers, FiniteSets

CONSTANTS
    Requests,       \* administrators' requests, and the loading command
    Kinds,          \* the levels looked at, with the level above of each
    Names,          \* names of an area, in both languages
    MaxId           \* the largest identifier the column holds

ParentKind == [division |-> "none", district |-> "division", upazila |-> "district",
               union |-> "upazila", village |-> "none"]
ParentField(k) == ParentKind[k] # "none"

Ids == 1..MaxId
Nothing == [name |-> "none", parent |-> 0]
Rows(k) == [name : Names, parent : IF ParentField(k) THEN Ids ELSE {0}]
Fields(k) == IF ParentField(k) THEN {"name", "parent"} ELSE {"name"}

VARIABLES
    areas,      \* the row of every identifier of every level
    task,       \* what each request has read and is about to write
    overtaken   \* history: another request has changed the areas since it read them

vars == <<areas, task, overtaken>>

Idle == [op |-> "none"]

Init ==
    /\ areas = [k \in Kinds |-> [i \in Ids |-> Nothing]]
    /\ task = [p \in Requests |-> Idle]
    /\ overtaken = [p \in Requests |-> FALSE]

Used(k) == {i \in Ids : areas[k][i] # Nothing}
Parented(k, row) == ParentField(k) => row.parent \in Used(ParentKind[k])
Children(k, i) ==
    {c \in Kinds \X Ids : ParentKind[c[1]] = k /\ areas[c[1]][c[2]].parent = i}

Begin(p, t) ==
    /\ task[p] = Idle
    /\ task' = [task EXCEPT ![p] = t]
    /\ UNCHANGED <<areas, overtaken>>

\* The request is answered, and the others are overtaken if it changed anything.
End(p, new) ==
    /\ areas' = new
    /\ task' = [task EXCEPT ![p] = Idle]
    /\ overtaken' = [q \in Requests |->
                        /\ q # p /\ task[q] # Idle
                        /\ overtaken[q] \/ new # areas]

-----------------------------------------------------------------------------
(* A creation: the identifier first, then the row.                         *)

next_geo_id_by_count(k) == Cardinality(Used(k)) + 1
next_geo_id(k) == IF Used(k) = {} THEN 1
                  ELSE 1 + CHOOSE i \in Used(k) : \A j \in Used(k) : j <= i

\* assign_id_on_create: a free number that was sent, or the next one, even past the column's.
Create(p) ==
    \E k \in Kinds : \E row \in Rows(k), i \in (Ids \ Used(k)) \cup {next_geo_id(k)} :
        /\ Parented(k, row)
        /\ Begin(p, [op |-> "create", kind |-> k, id |-> i, row |-> row])

\* A number taken or too large, or a parent gone, meanwhile is an error of the database.
InsertOver(p) ==
    LET t == task[p] IN
    /\ t.op = "create"
    /\ End(p, IF t.id \in Ids /\ Parented(t.kind, t.row)
              THEN [areas EXCEPT ![t.kind][t.id] = t.row] ELSE areas)
Insert(p) ==
    LET t == task[p] IN
    /\ t.op = "create"
    /\ End(p, IF t.id \in Ids \ Used(t.kind) /\ Parented(t.kind, t.row)
              THEN [areas EXCEPT ![t.kind][t.id] = t.row] ELSE areas)

-----------------------------------------------------------------------------
(* A partial update: the row is read, the fields sent are put in it, and   *)
(* all of it is saved, under the identifier sent if there was one.         *)

SaveFields(p) ==
    \E k \in Kinds : \E i \in Used(k), to \in Ids, sent \in SUBSET Fields(k) \ {{}} :
    \E name \in IF "name" \in sent THEN Names ELSE {areas[k][i].name},
       parent \in IF "parent" \in sent THEN Used(ParentKind[k]) ELSE {areas[k][i].parent} :
        Begin(p, [op |-> "update", kind |-> k, id |-> i, to |-> to, sent |-> sent,
                  row |-> [name |-> name, parent |-> parent]])

\* The row is updated, or inserted when there is none.
SaveNothingNew(p) ==
    LET t == task[p] IN
    /\ t.op = "update"
    /\ End(p, IF Parented(t.kind, t.row) /\ t.to \in Used(t.kind)
              THEN [areas EXCEPT ![t.kind][t.to] = t.row] ELSE areas)
Save(p) ==
    LET t == task[p] IN
    /\ t.op = "update"
    /\ End(p, IF Parented(t.kind, t.row) THEN [areas EXCEPT ![t.kind][t.to] = t.row] ELSE areas)

-----------------------------------------------------------------------------
(* A deletion is refused while the area has children; one that got a child *)
(* since it was asked is an error of the database.                         *)

UnprotectedDelete(k, i) == TRUE
MayDelete(k, i) == Children(k, i) = {}

Destroy(p) ==
    \E k \in Kinds : \E i \in Used(k) :
        MayDelete(k, i) /\ Begin(p, [op |-> "destroy", kind |-> k, id |-> i])

Delete(p) ==
    LET t == task[p] IN
    /\ t.op = "destroy"
    /\ End(p, IF Children(t.kind, t.id) = {} THEN [areas EXCEPT ![t.kind][t.id] = Nothing]
              ELSE areas)

-----------------------------------------------------------------------------
(* A file of villages: the rows are counted, new ones apart, and stored in *)
(* one transaction unless one of them is invalid.                          *)

Stored(k, file) == [areas EXCEPT ![k] = [i \in Ids |-> IF i \in DOMAIN file THEN file[i] ELSE @[i]]]

\* A preview, or a file with an invalid row, ends with the count: neither writes.
Import(p) ==
    /\ "village" \in Kinds
    /\ \E listed \in SUBSET Ids \ {{}} : \E file \in [listed -> Rows("village")] :
          Begin(p, [op |-> "import", file |-> file,
                    wouldCreate |-> Cardinality(listed \ Used("village"))])

commit_village_import(p) ==
    /\ task[p].op = "import"
    /\ End(p, Stored("village", task[p].file))

\* load_bd_geo_code, in one transaction; a row without its parent undoes all of it.
\* Bound: its files hold one area of each level, under one identifier.
Load(p) ==
    /\ task[p] = Idle
    /\ \E clear \in BOOLEAN, i \in Ids, name \in Names, parent \in Ids :
          LET kept == IF clear THEN [k \in Kinds |-> [j \in Ids |-> Nothing]] ELSE areas
              row(k) == [name |-> name, parent |-> IF ParentField(k) THEN parent ELSE 0]
              after == [k \in Kinds |-> [kept[k] EXCEPT ![i] = row(k)]]
          IN  /\ \A k \in Kinds : ParentField(k) => after[ParentKind[k]][parent] # Nothing
              /\ End(p, after)

Next ==
    \E p \in Requests :
        \/ Create(p) \/ Insert(p)
        \/ SaveFields(p) \/ Save(p)
        \/ Destroy(p) \/ Delete(p)
        \/ Import(p) \/ commit_village_import(p)
        \/ Load(p)

-----------------------------------------------------------------------------
(* Correctness.                                                            *)

TypeOK ==
    /\ \A k \in Kinds : areas[k] \in [Ids -> Rows(k) \cup {Nothing}]
    /\ \A p \in Requests : /\ task[p].op \in {"none", "create", "update", "destroy", "import"}
                           /\ task[p] = Idle => ~overtaken[p]
                           /\ task[p].op = "create" => task[p].id \in 1..(MaxId + 1)

\* No request, whatever the order of its steps and of others', leaves an area without its parent.
ParentsExist ==
    \A k \in Kinds : \A i \in Used(k) : Parented(k, areas[k][i])

Ends(p) == task[p] # Idle /\ task'[p] = Idle

\* What a request is to do to the areas: nothing to any but the one it names.
Effect(t) ==
    CASE t.op = "create"     -> IF t.id \in Ids THEN [areas EXCEPT ![t.kind][t.id] = t.row] ELSE areas
      [] t.op = "update"     -> [areas EXCEPT ![t.kind][t.to] =
                                    [f \in {"name", "parent"} |->
                                        IF f \in t.sent THEN t.row[f] ELSE areas[t.kind][t.id][f]]]
      [] t.op = "destroy"    -> [areas EXCEPT ![t.kind][t.id] = Nothing]
      [] t.op = "import"     -> Stored("village", t.file)

(* A creation never replaces an area, though two of them took the same number; and *)
(* a request that no other overtook does just what it was asked, its numbers were  *)
(* free and its count of new villages is true: what is lost, refused by the        *)
(* database, counted wrongly or back after a deletion is always the work of two    *)
(* requests at the same time.                                                      *)
DoneAsAsked ==
    \A p \in Requests : Ends(p) =>
        LET t == task[p] IN
        /\ t.op = "create" /\ areas' # areas => t.id \notin Used(t.kind)
        /\ ~overtaken[p] =>
              /\ areas' = Effect(t)
              /\ t.op = "import" => t.wouldCreate = Cardinality(DOMAIN t.file \ Used("village"))

=============================================================================
