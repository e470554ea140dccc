--------------------------- MODULE RegistryProofs ---------------------------
(***************************************************************************)
(* Theorems about Registry, for every value of its constants.              *)
(***************************************************************************)
EXTENDS Registry, SequenceTheorems, TLAPS

-----------------------------------------------------------------------------
(* What the requests in progress know and hold.                            *)

Request == [op : AllOps, cust : Customers, phone : Phones \cup {NoPhone}, picture : Image]

Typed ==
    /\ rows \in [Customers -> Row]
    /\ versions \in [Customers -> Seq(Version)]
    /\ custLock \in [Customers -> Workers \cup {NoWorker}]
    /\ pc \in [Workers -> {"idle", "received", "locked", "checked", "marked", "written"}]
    /\ req \in [Workers -> Request]
    /\ draft \in [Workers -> Row]
    /\ added \in [Workers -> Seq(Version)]
    /\ formSaved \in [Customers -> BOOLEAN]

\* A statement has written the customer, the number entered in the index or not.
Wrote(w) == pc[w] \in {"marked", "written"}

\* An edit that has locked its customer, or anything that has written.
Holding(w) ==
    \/ pc[w] = "locked"
    \/ pc[w] = "checked" /\ req[w].op = "edit"
    \/ Wrote(w)

\* A row the request found is still there; the places of an operation; a phone to write.
InPlace(w) ==
    /\ pc[w] # "idle" /\ req[w].op \in {"edit", "archive", "adminSave"} => Born(req[w].cust)
    /\ pc[w] # "idle" /\ req[w].op # "archive" => req[w].phone \in Phones
    /\ pc[w] = "locked" => req[w].op = "edit"
    /\ pc[w] = "checked" => req[w].op \in {"create", "edit"}
    /\ pc[w] = "marked" => /\ req[w].op \in {"edit", "adminSave"}
                           /\ draft[w].phone = req[w].phone
    /\ pc[w] = "written" /\ req[w].op \in {"create", "adminAdd"} => ~Born(req[w].cust)
    /\ ~Wrote(w) => added[w] = <<>>
    /\ Holding(w) => custLock[req[w].cust] = w

\* The row read under the lock is the committed one, and not archived.
ReadUnderLock(w) ==
    pc[w] \in {"locked", "checked"} /\ req[w].op = "edit" =>
        /\ draft[w] = rows[req[w].cust]
        /\ ~rows[req[w].cust].archived

\* v is the version that comes after the history h.
Follows(h, v) ==
    /\ v.number = Len(h) + 1
    /\ v.prev = Len(h)
    /\ v.current
    /\ h # <<>> /\ v.picture = NoPicture => h[Len(h)].picture = NoPicture

\* What has been written fits the rows it is to be committed over.
Written(w) ==
    LET c == req[w].cust IN
    Wrote(w) =>
        /\ draft[w].phone \in Phones
        /\ req[w].op \in Versioned =>
              /\ ~rows[c].archived
              /\ Len(added[w]) = 1
              /\ Follows(versions[c], added[w][1])
              /\ draft[w].phone = added[w][1].phone
              /\ added[w][1].picture # NoPicture => draft[w].picture = added[w][1].picture
        /\ req[w].op \notin Versioned => added[w] = <<>>
        /\ req[w].op = "archive" => /\ draft[w].phone = rows[c].phone
                                    /\ draft[w].picture = rows[c].picture

\* A number in the index that is not committed is nobody else's.
PhoneClaimed(w) ==
    pc[w] = "written" =>
        /\ \A d \in Customers \ {req[w].cust} : rows[d].phone # draft[w].phone
        /\ \A v \in Workers \ {w} : pc[v] = "written" => draft[v].phone # draft[w].phone

(* Some edit of any that hold their customers wants no number of the others': to    *)
(* want one is to have found it at no customer that is not archived.                *)
Wants(w, v) ==
    v # w /\ pc[w] \in {"checked", "marked", "written"} /\ req[w].phone = rows[req[v].cust].phone
EditsApart ==
    \A S \in SUBSET {w \in Workers : Holding(w) /\ req[w].op = "edit"} :
        S # {} => \E w \in S : \A v \in S : ~Wants(w, v)

\* A row has a phone number, and a key without a row has no history.
RowsBorn ==
    \A c \in Customers : IF Born(c) THEN rows[c].phone \in Phones ELSE versions[c] = <<>>

(* The customers are consistent, every request in progress holds the lock of what  *)
(* it read or wrote, and what it has written follows what is committed.            *)
RegistryInvariant ==
    /\ CustomersConsistent
    /\ RowsBorn
    /\ \A w \in Workers : InPlace(w) /\ ReadUnderLock(w) /\ Written(w) /\ PhoneClaimed(w)

-----------------------------------------------------------------------------
(* Types.                                                                  *)

LEMMA DefaultsTyped == NoRequest \in Request /\ NoRow \in Row
  BY RegistryConstants DEF NoRequest, Request, NoRow, Row, AllOps, Image

LEMMA InitTyped == Init => Typed
<1> SUFFICES ASSUME Init PROVE Typed
  OBVIOUS
<1>1. <<>> \in Seq(Version)
  OBVIOUS
<1> QED
  BY <1>1, DefaultsTyped DEF Init, Typed

LEMMA AbortTyped ==
    ASSUME Typed, NEW w \in Workers, Finish(w)
    PROVE  /\ custLock' \in [Customers -> Workers \cup {NoWorker}]
           /\ pc' \in [Workers -> {"idle", "received", "locked", "checked", "marked", "written"}]
           /\ req' \in [Workers -> Request]
           /\ draft' \in [Workers -> Row]
           /\ added' \in [Workers -> Seq(Version)]
<1>1. <<>> \in Seq(Version)
  OBVIOUS
<1> QED
  BY <1>1, DefaultsTyped DEF Finish, Goto, Typed

LEMMA ReceiveTyped ==
    ASSUME Typed, NEW w \in Workers, Receive(w)
    PROVE  Typed'
<1>1. ASSUME NEW q \in Request, NEW r \in Row, Begin(w, q, r)
      PROVE  Typed'
  BY <1>1 DEF Begin, Goto, Typed
<1> USE DefaultsTyped DEF NoRequest, Request, Profile, AllOps
<1>2. CASE ReceiveNew(w)
  BY <1>1, <1>2 DEF ReceiveNew
<1>3. CASE ReceiveEdit(w)
  BY <1>1, <1>3 DEF ReceiveEdit
<1>4. CASE ReceiveArchive(w)
  BY <1>1, <1>4 DEF ReceiveArchive
<1>5. CASE ReceiveAdminSave(w)
  BY <1>1, <1>5 DEF ReceiveAdminSave, Typed
<1> QED
  BY <1>2, <1>3, <1>4, <1>5 DEF Receive

-----------------------------------------------------------------------------
(* The shared part of every step but a commit: nothing is published, one   *)
(* request goes on, and the other requests keep what they hold.            *)

\* Request w is the only one whose own state changes.
OnlyOne(w) ==
    /\ UNCHANGED <<rows, versions, formSaved>>
    /\ \A v \in Workers \ {w} :
          /\ pc'[v] = pc[v] /\ req'[v] = req[v] /\ draft'[v] = draft[v] /\ added'[v] = added[v]
          /\ Holding(v) => custLock'[req[v].cust] = v

LEMMA ConsistencyKept ==
    ASSUME UNCHANGED <<rows, versions, formSaved>>,
           CustomersConsistent, RowsBorn
    PROVE  CustomersConsistent' /\ RowsBorn'
  BY DEF CustomersConsistent, VersionsFormALine, RowShowsCurrent, PhonesDistinct,
         PictureCarriedOver, RowsBorn, Born, CurrentOf

LEMMA OthersKept ==
    ASSUME Typed, RegistryInvariant, NEW w \in Workers, OnlyOne(w),
           InPlace(w)', ReadUnderLock(w)', Written(w)',
           pc'[w] = "written" =>
               /\ \A d \in Customers \ {req'[w].cust} : rows[d].phone # draft'[w].phone
               /\ \A v \in Workers \ {w} : pc[v] = "written" => draft[v].phone # draft'[w].phone
    PROVE  RegistryInvariant'
<1>1. CustomersConsistent' /\ RowsBorn'
  BY ConsistencyKept DEF OnlyOne, RegistryInvariant
<1>2. ASSUME NEW v \in Workers, v # w
      PROVE  InPlace(v)' /\ ReadUnderLock(v)' /\ Written(v)'
  <2>1. InPlace(v) /\ ReadUnderLock(v) /\ Written(v)
    BY DEF RegistryInvariant
  <2>2. InPlace(v)'
    BY <1>2, <2>1 DEF OnlyOne, InPlace, Holding, Wrote, Born
  <2>3. ReadUnderLock(v)'
    BY <1>2, <2>1 DEF OnlyOne, ReadUnderLock
  <2>4. Written(v)'
    BY SMTT(60), <1>2, <2>1 DEF OnlyOne, Written, Wrote, Follows
  <2> QED
    BY <2>2, <2>3, <2>4
<1>3. ASSUME NEW v \in Workers
      PROVE  PhoneClaimed(v)'
  BY <1>3 DEF RegistryInvariant, PhoneClaimed, OnlyOne
<1> QED
  BY <1>1, <1>2, <1>3 DEF RegistryInvariant

\* Two requests that hold a customer each hold another one.
LEMMA HoldersApart ==
    ASSUME RegistryInvariant, NEW v \in Workers, NEW w \in Workers, v # w,
           Holding(v), custLock[req[w].cust] = w \/ custLock[req[w].cust] = NoWorker
    PROVE  req[v].cust # req[w].cust
  BY RegistryConstants DEF RegistryInvariant, InPlace

LEMMA UnbornPhone ==
    ASSUME NEW c \in Customers, ~Born(c)
    PROVE  rows[c].phone \notin Phones
  BY RegistryConstants DEF Born, NoRow

LEMMA AbortKeeps ==
    ASSUME Typed, RegistryInvariant, NEW w \in Workers, Abort(w)
    PROVE  Typed' /\ RegistryInvariant'
<1>1. Typed'
  BY AbortTyped DEF Abort, Typed
<1>2. pc'[w] = "idle" /\ added'[w] = <<>>
  BY DEF Abort, Finish, Goto, Typed
<1>3. OnlyOne(w)
  <2>1. ASSUME NEW v \in Workers \ {w}, Holding(v)
        PROVE  custLock'[req[v].cust] = v
    BY <2>1 DEF Abort, Finish, Typed, Request, RegistryInvariant, InPlace
  <2> QED
    BY <2>1 DEF Abort, Finish, Goto, Typed, OnlyOne
<1>4. InPlace(w)' /\ ReadUnderLock(w)' /\ Written(w)'
  BY <1>2 DEF InPlace, ReadUnderLock, Written, Holding, Wrote
<1> QED
  BY <1>1, <1>2, <1>3, <1>4, OthersKept

LEMMA ReceiveKeeps ==
    ASSUME Typed, RegistryInvariant, NEW w \in Workers, Receive(w)
    PROVE  RegistryInvariant'
<1>1. ASSUME NEW q \in Request, NEW r \in Row, Begin(w, q, r),
             q.op \in {"edit", "archive", "adminSave"} => Born(q.cust),
             q.op # "archive" => q.phone \in Phones
      PROVE  RegistryInvariant'
  <2>1. OnlyOne(w)
    BY <1>1 DEF Begin, Goto, Typed, OnlyOne, RegistryInvariant, InPlace
  <2>2. pc'[w] = "received" /\ req'[w] = q /\ added'[w] = <<>> /\ rows' = rows
    BY <1>1 DEF Begin, Goto, Typed, RegistryInvariant, InPlace, Wrote
  <2>3. InPlace(w)' /\ ReadUnderLock(w)' /\ Written(w)'
    BY <1>1, <2>2 DEF InPlace, ReadUnderLock, Written, Holding, Wrote, Born
  <2> QED
    BY <2>1, <2>2, <2>3, OthersKept
<1> USE DefaultsTyped DEF NoRequest, Request, Profile, AllOps
<1>2. CASE ReceiveNew(w)
  BY <1>1, <1>2 DEF ReceiveNew
<1>3. CASE ReceiveEdit(w)
  BY <1>1, <1>3 DEF ReceiveEdit
<1>4. CASE ReceiveArchive(w)
  BY <1>1, <1>4 DEF ReceiveArchive
<1>5. CASE ReceiveAdminSave(w)
  BY <1>1, <1>5 DEF ReceiveAdminSave, Typed
<1> QED
  BY <1>2, <1>3, <1>4, <1>5 DEF Receive

-----------------------------------------------------------------------------
(* The steps under the lock of a customer.                                 *)

LEMMA LockKeeps ==
    ASSUME Typed, RegistryInvariant, NEW w \in Workers, LockCustomer(w)
    PROVE  Typed' /\ RegistryInvariant'
<1> DEFINE c == req[w].cust
<1>0. c \in Customers /\ rows[c] \in Row
  BY DEF Typed, Request
<1>1. Typed'
  BY <1>0 DEF LockCustomer, Goto, Typed
<1>2. OnlyOne(w)
  BY <1>0, HoldersApart
     DEF LockCustomer, CustomerFree, Goto, Typed, OnlyOne, RegistryInvariant, InPlace
<1>3. /\ pc'[w] = "locked" /\ req' = req /\ rows' = rows /\ added' = added
      /\ draft'[w] = rows[c] /\ custLock'[c] = w /\ req[w].op = "edit" /\ ~rows[c].archived
      /\ pc[w] = "received"
  BY <1>0 DEF LockCustomer, Editable, Goto, Typed
<1>4. InPlace(w)' /\ ReadUnderLock(w)' /\ Written(w)'
  BY <1>3 DEF RegistryInvariant, InPlace, ReadUnderLock, Written, Holding, Wrote, Born
<1> QED
  BY <1>1, <1>2, <1>3, <1>4, OthersKept

LEMMA ArchiveKeeps ==
    ASSUME Typed, RegistryInvariant, NEW w \in Workers, WriteArchive(w)
    PROVE  Typed' /\ RegistryInvariant'
<1> DEFINE c == req[w].cust
<1>0. c \in Customers /\ rows[c] \in Row
  BY DEF Typed, Request
<1>1. Typed'
  BY <1>0 DEF WriteArchive, Goto, Typed, Row
<1>2. OnlyOne(w)
  BY <1>0, HoldersApart
     DEF WriteArchive, CustomerFree, Goto, Typed, OnlyOne, RegistryInvariant, InPlace
<1>3. /\ pc'[w] = "written" /\ req' = req /\ rows' = rows /\ added' = added
      /\ draft'[w].phone = rows[c].phone /\ draft'[w].picture = rows[c].picture
      /\ custLock'[c] = w /\ req[w].op = "archive" /\ pc[w] = "received"
      /\ custLock[c] = NoWorker /\ versions' = versions
  BY <1>0 DEF WriteArchive, CustomerFree, Goto, Typed, Row
<1>4. Born(c) /\ rows[c].phone \in Phones
  BY <1>0, <1>3 DEF RegistryInvariant, InPlace, RowsBorn
<1>5. InPlace(w)' /\ ReadUnderLock(w)' /\ Written(w)'
  BY <1>3, <1>4 DEF RegistryInvariant, InPlace, ReadUnderLock, Written, Holding, Wrote, Born,
     Versioned
<1>6. \A d \in Customers \ {c} : rows[d].phone # rows[c].phone
  BY <1>0, <1>4, UnbornPhone DEF RegistryInvariant, CustomersConsistent, PhonesDistinct
<1>7. ASSUME NEW v \in Workers \ {w}, pc[v] = "written"
      PROVE  draft[v].phone # rows[c].phone
  BY <1>0, <1>3, <1>7, HoldersApart DEF RegistryInvariant, PhoneClaimed, Holding, Wrote
<1> QED
  BY <1>1, <1>2, <1>3, <1>5, <1>6, <1>7, OthersKept

LEMMA ValidateKeeps ==
    ASSUME Typed, RegistryInvariant, NEW w \in Workers, ValidatePhone(w)
    PROVE  Typed' /\ RegistryInvariant'
<1>1. Typed'
  BY DEF ValidatePhone, Goto, Typed
<1>2. OnlyOne(w)
  BY DEF ValidatePhone, Goto, Typed, OnlyOne, RegistryInvariant, InPlace
<1>3. /\ pc'[w] = "checked"
      /\ UNCHANGED <<rows, versions, custLock, req, draft, added, formSaved>>
      /\ \/ pc[w] = "received" /\ req[w].op = "create"
         \/ pc[w] = "locked"
  BY DEF ValidatePhone, Validating, Goto, Typed
<1>4. InPlace(w)' /\ ReadUnderLock(w)' /\ Written(w)'
  BY <1>3 DEF RegistryInvariant, InPlace, ReadUnderLock, Written, Holding, Wrote, Born
<1> QED
  BY <1>1, <1>2, <1>3, <1>4, OthersKept

-----------------------------------------------------------------------------
(* The steps that write a number.                                          *)

LEMMA NumberClaimed ==
    ASSUME Typed, RegistryInvariant, NEW w \in Workers, NEW p \in Phones, NEW c \in Customers,
           IndexAdmits(w, p, c),
           \A v \in Workers \ {w} : pc[v] = "written" => req[v].cust # c
    PROVE  /\ \A d \in Customers \ {c} : rows[d].phone # p
           /\ \A v \in Workers \ {w} : pc[v] = "written" => draft[v].phone # p
  BY DEF IndexAdmits, IndexWaits, Taken, Undecided

LEMMA InsertKeeps ==
    ASSUME Typed, RegistryInvariant, NEW w \in Workers, InsertCustomer(w)
    PROVE  Typed' /\ RegistryInvariant'
<1>1. PICK c \in FreshKeys :
          /\ Inserting(w)
          /\ IndexAdmits(w, req[w].phone, c)
          /\ req' = [req EXCEPT ![w].cust = c]
          /\ draft' = [draft EXCEPT ![w] = [phone |-> req[w].phone, picture |-> req[w].picture,
                                            archived |-> FALSE]]
          /\ added' = [added EXCEPT ![w] =
                IF req[w].op = "create" THEN <<FirstVersion(req[w])>> ELSE <<>>]
          /\ custLock' = [custLock EXCEPT ![c] = w]
          /\ pc' = [pc EXCEPT ![w] = "written"]
          /\ UNCHANGED <<rows, versions, formSaved>>
  BY DEF InsertCustomer, Goto
<1>2. /\ c \in Customers /\ ~Born(c) /\ versions[c] = <<>> /\ ~rows[c].archived
      /\ \A v \in Workers : pc[v] = "written" => req[v].cust # c
  <2>1. /\ c \in Customers /\ ~Born(c)
        /\ \A v \in Workers : pc[v] = "written" => req[v].cust # c
    BY DEF FreshKeys
  <2>2. versions[c] = <<>>
    BY <2>1 DEF RegistryInvariant, RowsBorn
  <2>3. ~rows[c].archived
    BY <2>1 DEF Born, NoRow
  <2> QED
    BY <2>1, <2>2, <2>3
<1>3. /\ req[w] \in Request /\ req[w].phone \in Phones /\ req[w].op \in {"create", "adminAdd"}
      /\ pc[w] # "written"
  BY <1>1 DEF Typed, Inserting, RegistryInvariant, InPlace
<1>4. FirstVersion(req[w]) \in Version
  BY <1>3 DEF FirstVersion, Version, Request
<1>5. Typed'
  <2>1. <<FirstVersion(req[w])>> \in Seq(Version) /\ <<>> \in Seq(Version)
    BY <1>4
  <2>2. [phone |-> req[w].phone, picture |-> req[w].picture, archived |-> FALSE] \in Row
    BY <1>3 DEF Row, Request
  <2>3. req' \in [Workers -> Request]
    BY <1>1, <1>2 DEF Typed, Request
  <2> QED
    BY <1>1, <1>2, <2>1, <2>2, <2>3 DEF Typed
<1>6. OnlyOne(w)
  <2>1. ASSUME NEW v \in Workers \ {w}, Holding(v)
        PROVE  req[v].cust # c /\ custLock'[req[v].cust] = v
    <3>1. req[v].cust # c
      BY <1>2, <2>1 DEF RegistryInvariant, InPlace, Holding, Wrote
    <3> QED
      BY <1>1, <2>1, <3>1 DEF Typed, RegistryInvariant, InPlace
  <2> QED
    BY <1>1, <2>1 DEF Typed, OnlyOne
<1>7. /\ pc'[w] = "written" /\ req'[w].cust = c /\ req'[w].op = req[w].op
      /\ req'[w].phone = req[w].phone /\ draft'[w].phone = req[w].phone
      /\ draft'[w].picture = req[w].picture /\ custLock'[c] = w
      /\ req[w].op = "create" => added'[w] = <<FirstVersion(req[w])>>
      /\ req[w].op # "create" => added'[w] = <<>>
      /\ rows' = rows /\ versions' = versions
  BY <1>1, <1>2, <1>3 DEF Typed, Request
<1>8. Follows(versions[c], FirstVersion(req[w])) /\ FirstVersion(req[w]).phone = req[w].phone
      /\ FirstVersion(req[w]).picture = req[w].picture
  BY <1>2 DEF Follows, FirstVersion
<1>9. InPlace(w)' /\ ReadUnderLock(w)' /\ Written(w)'
  <2>1. InPlace(w)' /\ ReadUnderLock(w)'
    BY <1>2, <1>3, <1>7 DEF InPlace, ReadUnderLock, Holding, Wrote, Born
  <2>2. ASSUME req[w].op = "create"
        PROVE  Written(w)'
    <3>1. Len(added'[w]) = 1 /\ added'[w][1] = FirstVersion(req[w])
      BY <1>7, <2>2
    <3>2. Follows(versions'[c], added'[w][1])
      BY <1>7, <1>8, <3>1
    <3> QED
      BY <1>2, <1>3, <1>7, <1>8, <2>2, <3>1, <3>2 DEF Written, Wrote, Versioned, Follows
  <2>3. ASSUME req[w].op = "adminAdd"
        PROVE  Written(w)'
    BY <1>2, <1>3, <1>7, <2>3 DEF Written, Wrote, Versioned
  <2> QED
    BY <1>3, <2>1, <2>2, <2>3
<1>10. /\ \A d \in Customers \ {c} : rows[d].phone # req[w].phone
       /\ \A v \in Workers \ {w} : pc[v] = "written" => draft[v].phone # req[w].phone
  BY <1>1, <1>2, <1>3, NumberClaimed
<1> QED
  BY <1>5, <1>6, <1>7, <1>9, <1>10, OthersKept

LEMMA NextVersionFollows ==
    ASSUME Typed, RegistryInvariant, NEW w \in Workers, pc[w] = "checked", req[w].op = "edit"
    PROVE  /\ NextVersion(w) \in Version
           /\ Follows(versions[req[w].cust], NextVersion(w))
           /\ NextVersion(w).phone = req[w].phone
<1> DEFINE c == req[w].cust
           h == versions[c]
<1>1. c \in Customers /\ h \in Seq(Version) /\ req[w] \in Request /\ req[w].phone \in Phones
      /\ draft[w] \in Row
  BY DEF Typed, Request, RegistryInvariant, InPlace
<1>2. DOMAIN h = 1..Len(h) /\ Len(h) \in Nat /\ \A i \in 1..Len(h) : h[i] \in Version
  BY <1>1
<1>3. \A i \in 1..Len(h) : h[i].number = i /\ (h[i].current <=> i = Len(h))
  BY <1>1, <1>2 DEF RegistryInvariant, CustomersConsistent, VersionsFormALine
<1>4. CASE CurrentOf(c) = {}
  <2>1. Len(h) = 0 /\ h = <<>>
    BY <1>1, <1>2, <1>3, <1>4 DEF CurrentOf
  <2>2. NextVersion(w) = [FirstVersion(req[w]) EXCEPT
                             !.picture = PictureOf(req[w], draft[w].picture)]
    BY <1>4 DEF NextVersion
  <2>3. PictureOf(req[w], draft[w].picture) \in Image
    BY <1>1 DEF PictureOf, Request, Row
  <2>4. NextVersion(w) = [number |-> 1, prev |-> 0, current |-> TRUE, phone |-> req[w].phone,
                          picture |-> PictureOf(req[w], draft[w].picture)]
    BY <2>2 DEF FirstVersion
  <2>5. NextVersion(w) \in Version
    BY <1>1, <2>3, <2>4 DEF Version
  <2>6. Follows(<<>>, NextVersion(w))
    BY <2>4 DEF Follows
  <2> QED
    BY <2>1, <2>4, <2>5, <2>6
<1>5. CASE CurrentOf(c) # {}
  <2>1. CurrentOf(c) = {Len(h)} /\ Len(h) \in 1..Len(h)
    BY <1>2, <1>3, <1>5 DEF CurrentOf
  <2>2. (CHOOSE i \in CurrentOf(c) : TRUE) = Len(h)
    BY <2>1
  <2>3. NextVersion(w) =
          [number |-> h[Len(h)].number + 1, prev |-> Len(h), current |-> TRUE,
           phone |-> req[w].phone, picture |-> PictureOf(req[w], h[Len(h)].picture)]
    BY <1>5, <2>2 DEF NextVersion
  <2>4. h[Len(h)] \in Version /\ h[Len(h)].number = Len(h)
    BY <1>2, <1>3, <2>1
  <2> QED
    BY <1>1, <1>2, <2>3, <2>4 DEF Version, PictureOf, Follows, Request
<1> QED
  BY <1>4, <1>5

LEMMA WriteVersionKeeps ==
    ASSUME Typed, RegistryInvariant, NEW w \in Workers, WriteVersion(w)
    PROVE  Typed' /\ RegistryInvariant'
<1> DEFINE c == req[w].cust
           v == NextVersion(w)
<1>1. /\ pc[w] = "checked" /\ req[w].op = "edit"
      /\ c \in Customers /\ req[w].phone \in Phones /\ draft[w] \in Row
      /\ draft[w] = rows[c] /\ ~rows[c].archived /\ custLock[c] = w /\ Born(c)
  BY DEF WriteVersion, Typed, Request, RegistryInvariant, InPlace, ReadUnderLock, Holding, Wrote
<1>2. v \in Version /\ Follows(versions[c], v) /\ v.phone = req[w].phone
  BY <1>1, NextVersionFollows
<1>3. /\ Denormalized(draft[w], v) \in Row
      /\ Denormalized(draft[w], v).phone = v.phone
      /\ v.picture # NoPicture => Denormalized(draft[w], v).picture = v.picture
  BY <1>1, <1>2 DEF Denormalized, Row, Version
<1>4. <<v>> \in Seq(Version) /\ Len(<<v>>) = 1 /\ <<v>>[1] = v
  BY <1>2
<1>5. /\ UNCHANGED <<rows, versions, custLock, req, formSaved>>
      /\ pc' = [pc EXCEPT ![w] = "marked"]
      /\ added' = [added EXCEPT ![w] = <<v>>]
      /\ draft' = [draft EXCEPT ![w] = Denormalized(draft[w], v)]
  BY DEF WriteVersion, Goto
<1>6. Typed'
  BY <1>3, <1>4, <1>5 DEF Typed
<1>7. OnlyOne(w)
  BY <1>5 DEF Typed, OnlyOne, RegistryInvariant, InPlace
<1>8. pc'[w] = "marked" /\ added'[w] = <<v>> /\ draft'[w] = Denormalized(draft[w], v)
  BY <1>5 DEF Typed
<1>9. InPlace(w)' /\ ReadUnderLock(w)'
  BY <1>1, <1>2, <1>3, <1>5, <1>8 DEF InPlace, ReadUnderLock, Holding, Wrote, Born
<1>10. Written(w)'
  <2>1. draft'[w].phone \in Phones
    BY <1>1, <1>2, <1>3, <1>8
  <2>2. Len(added'[w]) = 1 /\ added'[w][1] = v
    BY <1>4, <1>8
  <2>3. Follows(versions'[c], added'[w][1])
    BY <1>2, <1>5, <2>2
  <2> QED
    BY <1>1, <1>2, <1>3, <1>5, <1>8, <2>1, <2>2, <2>3 DEF Written, Wrote, Versioned, Follows
<1> QED
  BY <1>6, <1>7, <1>8, <1>9, <1>10, OthersKept

LEMMA AdminSaveKeeps ==
    ASSUME Typed, RegistryInvariant, NEW w \in Workers, WriteAdminSave(w)
    PROVE  Typed' /\ RegistryInvariant'
<1> DEFINE c == req[w].cust
<1>1. PICK image \in PicturesOfForm(w) :
          draft' = [draft EXCEPT ![w].phone = req[w].phone, ![w].picture = image]
  BY DEF WriteAdminSave
<1>2. /\ pc[w] = "received" /\ req[w].op = "adminSave" /\ custLock[c] = NoWorker
      /\ custLock' = [custLock EXCEPT ![c] = w]
      /\ pc' = [pc EXCEPT ![w] = "marked"]
      /\ UNCHANGED <<rows, versions, req, added, formSaved>>
  BY DEF WriteAdminSave, CustomerFree, Goto
<1>3. /\ c \in Customers /\ req[w] \in Request /\ req[w].phone \in Phones /\ draft[w] \in Row
      /\ Born(c) /\ added[w] = <<>>
  BY <1>2 DEF Typed, Request, RegistryInvariant, InPlace, Wrote
<1>4. image \in Image
  BY <1>3 DEF PicturesOfForm, PictureOf, Request, Row, Image
<1>5. draft'[w] = [draft[w] EXCEPT !.phone = req[w].phone, !.picture = image]
      /\ draft'[w].phone = req[w].phone /\ draft'[w] \in Row
  BY <1>1, <1>3, <1>4 DEF Typed, Row
<1>6. Typed'
  BY <1>1, <1>2, <1>3, <1>5 DEF Typed
<1>7. ASSUME NEW v \in Workers \ {w}, Holding(v)
      PROVE  req[v].cust # c
  BY <1>2, <1>7, HoldersApart
<1>8. OnlyOne(w)
  BY <1>1, <1>2, <1>3, <1>7 DEF Typed, Request, OnlyOne, RegistryInvariant, InPlace
<1>9. pc'[w] = "marked" /\ custLock'[c] = w
  BY <1>2, <1>3 DEF Typed
<1>10. InPlace(w)' /\ ReadUnderLock(w)' /\ Written(w)'
  BY <1>2, <1>3, <1>5, <1>9 DEF InPlace, ReadUnderLock, Written, Holding, Wrote, Born, Versioned
<1> QED
  BY <1>6, <1>8, <1>9, <1>10, OthersKept

LEMMA EnterKeeps ==
    ASSUME Typed, RegistryInvariant, NEW w \in Workers, EnterPhone(w)
    PROVE  Typed' /\ RegistryInvariant'
<1> DEFINE c == req[w].cust
<1>1. /\ pc[w] = "marked" /\ IndexAdmits(w, req[w].phone, c)
      /\ pc' = [pc EXCEPT ![w] = "written"]
      /\ UNCHANGED <<rows, versions, custLock, req, draft, added, formSaved>>
  BY DEF EnterPhone, Goto
<1>2. /\ c \in Customers /\ req[w].phone \in Phones /\ draft[w].phone = req[w].phone
      /\ req[w].op \in {"edit", "adminSave"} /\ custLock[c] = w
  BY <1>1 DEF Typed, Request, RegistryInvariant, InPlace, Holding, Wrote
<1>3. Typed' /\ pc'[w] = "written"
  BY <1>1 DEF Typed
<1>4. OnlyOne(w)
  BY <1>1 DEF Typed, OnlyOne, RegistryInvariant, InPlace
<1>5. InPlace(w)' /\ ReadUnderLock(w)' /\ Written(w)'
  BY <1>1, <1>2, <1>3
     DEF RegistryInvariant, InPlace, ReadUnderLock, Written, Follows, Holding, Wrote, Born
<1>6. \A v \in Workers \ {w} : pc[v] = "written" => req[v].cust # c
  BY <1>2, HoldersApart DEF Holding, Wrote
<1>7. /\ \A d \in Customers \ {c} : rows[d].phone # req[w].phone
      /\ \A v \in Workers \ {w} : pc[v] = "written" => draft[v].phone # req[w].phone
  BY <1>1, <1>2, <1>6, NumberClaimed
<1> QED
  BY <1>1, <1>2, <1>3, <1>4, <1>5, <1>7, OthersKept

-----------------------------------------------------------------------------
(* The commit.                                                             *)

\* The history a commit leaves: the old versions, none of them current, and the new one.
LEMMA HistoryGrows ==
    ASSUME NEW h \in Seq(Version), NEW v \in Version
    PROVE  /\ WithVersion(h, <<v>>) \in Seq(Version)
           /\ Len(WithVersion(h, <<v>>)) = Len(h) + 1
           /\ \A i \in 1..Len(h) :
                 WithVersion(h, <<v>>)[i] = [h[i] EXCEPT !.current = FALSE]
           /\ WithVersion(h, <<v>>)[Len(h) + 1] = v
<1> DEFINE old == [i \in 1..Len(h) |-> [h[i] EXCEPT !.current = FALSE]]
<1>1. Len(h) \in Nat /\ DOMAIN h = 1..Len(h)
  OBVIOUS
<1>2. ASSUME NEW i \in 1..Len(h)
      PROVE  [h[i] EXCEPT !.current = FALSE] \in Version
  <2>1. h[i] \in Version
    BY <1>1, <1>2
  <2> QED
    BY <2>1 DEF Version
<1>3. old \in [1..Len(h) -> Version]
  BY <1>2
<1>4. old \in Seq(Version) /\ Len(old) = Len(h)
  BY <1>1, <1>3
<1>5. WithVersion(h, <<v>>) = old \o <<v>>
  BY <1>1 DEF WithVersion
<1>6. <<v>> \in Seq(Version) /\ Len(<<v>>) = 1 /\ <<v>>[1] = v
  OBVIOUS
<1>7. /\ old \o <<v>> \in Seq(Version)
      /\ Len(old \o <<v>>) = Len(h) + 1
      /\ \A i \in 1..Len(h) : (old \o <<v>>)[i] = old[i]
      /\ (old \o <<v>>)[Len(h) + 1] = v
  BY <1>1, <1>4, <1>6, ConcatProperties
<1> QED
  BY <1>5, <1>7

\* The parts of VersionsFormALine and PictureCarriedOver that are about one history.
Line(h) ==
    \A i \in DOMAIN h : h[i].number = i /\ h[i].prev = i - 1 /\ (h[i].current <=> i = Len(h))
Carried(h) ==
    \A i, j \in DOMAIN h : i < j /\ h[i].picture # NoPicture => h[j].picture # NoPicture

LEMMA LineGrows ==
    ASSUME NEW h \in Seq(Version), NEW v \in Version, Follows(h, v), Line(h), Carried(h)
    PROVE  LET n == WithVersion(h, <<v>>) IN
           /\ Line(n) /\ Carried(n)
           /\ Len(n) \in DOMAIN n /\ n[Len(n)] = v
<1> DEFINE n == WithVersion(h, <<v>>)
           k == Len(h)
<1>1. /\ n \in Seq(Version) /\ Len(n) = k + 1
      /\ \A i \in 1..k : n[i] = [h[i] EXCEPT !.current = FALSE]
      /\ n[k + 1] = v
  BY HistoryGrows
<1>2. k \in Nat /\ DOMAIN h = 1..k /\ DOMAIN n = 1..(k + 1)
  BY <1>1
<1> HIDE DEF n
<1>3. ASSUME NEW i \in 1..k
      PROVE  /\ n[i].number = h[i].number /\ n[i].prev = h[i].prev /\ ~n[i].current
             /\ n[i].picture = h[i].picture
  <2>1. h[i] \in Version /\ n[i] = [h[i] EXCEPT !.current = FALSE]
    BY <1>1, <1>2, <1>3
  <2> QED
    BY <2>1 DEF Version
<1> HIDE DEF k
<1>4. Line(n)
  BY <1>1, <1>2, <1>3 DEF Line, Follows, k
<1>5. ASSUME NEW i \in 1..k, h[i].picture # NoPicture
      PROVE  v.picture # NoPicture
  <2>1. k \in 1..k /\ h # <<>>
    BY <1>2, <1>5 DEF k
  <2>2. h[k].picture # NoPicture
    BY <1>2, <1>5, <2>1 DEF Carried
  <2> QED
    BY <2>1, <2>2 DEF Follows, k
<1>6. Carried(n)
  BY <1>1, <1>2, <1>3, <1>5 DEF Carried
<1> QED
  BY <1>1, <1>2, <1>4, <1>6 DEF n

\* What a commit does to its customer, and what of it the other requests rely on.
LEMMA CommitPublishes ==
    ASSUME Typed, RegistryInvariant, NEW w \in Workers, Commit(w)
    PROVE  LET c == req[w].cust IN
           /\ c \in Customers /\ rows'[c] = draft[w] /\ draft[w] \in Row
           /\ draft[w].phone \in Phones
           /\ versions'[c] \in Seq(Version)
           /\ Line(versions'[c]) /\ Carried(versions'[c])
           /\ added[w] = <<>> => versions'[c] = versions[c]
           /\ \A d \in Customers \ {c} :
                 rows'[d] = rows[d] /\ versions'[d] = versions[d] /\ formSaved'[d] = formSaved[d]
<1> DEFINE c == req[w].cust
           h == versions[c]
<1>1. /\ pc[w] = "written"
      /\ rows' = [rows EXCEPT ![c] = draft[w]]
      /\ versions' = [versions EXCEPT ![c] = WithVersion(h, added[w])]
      /\ formSaved' = [formSaved EXCEPT ![c] =
            IF req[w].op \in Versioned THEN FALSE ELSE @ \/ req[w].op # "archive"]
  BY DEF Commit
<1>2. /\ c \in Customers /\ draft[w] \in Row /\ h \in Seq(Version)
      /\ added[w] \in Seq(Version)
  BY DEF Typed, Request
<1>3. Written(w) /\ Line(h) /\ Carried(h)
  BY <1>2 DEF RegistryInvariant, CustomersConsistent, VersionsFormALine, PictureCarriedOver,
              Line, Carried
<1>4. versions'[c] = WithVersion(h, added[w])
  BY <1>1, <1>2 DEF Typed
<1>5. /\ versions'[c] \in Seq(Version)
      /\ Line(versions'[c]) /\ Carried(versions'[c])
      /\ added[w] = <<>> => versions'[c] = h
  <2>1. CASE added[w] = <<>>
    BY <1>2, <1>3, <1>4, <2>1 DEF WithVersion
  <2>2. CASE added[w] # <<>>
    <3> DEFINE v == added[w][1]
    <3>1. Len(added[w]) = 1 /\ Follows(h, v)
      BY <1>1, <1>3, <2>2 DEF Written, Wrote
    <3>2. v \in Version /\ added[w] = <<v>>
      BY <1>2, <3>1
    <3> HIDE DEF v
    <3> QED
      BY <1>2, <1>3, <1>4, <2>2, <3>1, <3>2, HistoryGrows, LineGrows
  <2> QED
    BY <2>1, <2>2
<1>6. draft[w].phone \in Phones
  BY <1>1, <1>3 DEF Written, Wrote
<1> QED
  BY <1>1, <1>2, <1>5, <1>6 DEF Typed

LEMMA CommitTyped ==
    ASSUME Typed, RegistryInvariant, NEW w \in Workers, Commit(w)
    PROVE  Typed'
<1> DEFINE c == req[w].cust
<1>1. /\ c \in Customers /\ draft[w] \in Row /\ versions'[c] \in Seq(Version)
      /\ \A d \in Customers \ {c} : versions'[d] = versions[d]
  BY CommitPublishes
<1>2. /\ Finish(w) /\ rows' = [rows EXCEPT ![c] = draft[w]]
      /\ versions' = [versions EXCEPT ![c] = WithVersion(versions[c], added[w])]
      /\ formSaved' = [formSaved EXCEPT ![c] =
            IF req[w].op \in Versioned THEN FALSE ELSE @ \/ req[w].op # "archive"]
  BY DEF Commit
<1>3. rows' \in [Customers -> Row] /\ formSaved' \in [Customers -> BOOLEAN]
  BY <1>1, <1>2 DEF Typed
<1>4. versions' \in [Customers -> Seq(Version)]
  <2>1. \A d \in Customers : versions'[d] \in Seq(Version)
    BY <1>1 DEF Typed
  <2>2. versions' = [d \in Customers |-> versions'[d]]
    BY <1>2 DEF Typed
  <2> QED
    BY <2>1, <2>2
<1> QED
  BY <1>2, <1>3, <1>4, AbortTyped DEF Typed

LEMMA CommitShows ==
    ASSUME Typed, RegistryInvariant, NEW w \in Workers, Commit(w),
           rows'[req[w].cust] # NoRow, ~formSaved'[req[w].cust]
    PROVE  LET c == req[w].cust
               n == versions'[c]
           IN  \E i \in DOMAIN n :
                  /\ n[i].current /\ rows'[c].phone = n[i].phone
                  /\ n[i].picture # NoPicture => rows'[c].picture = n[i].picture
<1> DEFINE c == req[w].cust
           h == versions[c]
           n == versions'[c]
<1>1. /\ c \in Customers /\ rows'[c] = draft[w] /\ n \in Seq(Version) /\ Line(n)
      /\ added[w] = <<>> => n = h
  BY CommitPublishes
<1>2. /\ h \in Seq(Version) /\ added[w] \in Seq(Version) /\ req[w] \in Request
      /\ Written(w) /\ InPlace(w) /\ Line(h) /\ Carried(h)
  BY <1>1 DEF Typed, RegistryInvariant, CustomersConsistent, VersionsFormALine,
              PictureCarriedOver, Line, Carried
<1>3. pc[w] = "written"
  BY DEF Commit
<1>4. CASE req[w].op \in Versioned
  <2> DEFINE v == added[w][1]
  <2>1. /\ Len(added[w]) = 1 /\ Follows(h, v) /\ draft[w].phone = v.phone
        /\ v.picture # NoPicture => draft[w].picture = v.picture
    BY <1>2, <1>3, <1>4 DEF Written, Wrote
  <2>2. v \in Version /\ added[w] = <<v>>
    BY <1>2, <2>1
  <2>3. n = WithVersion(h, <<v>>)
    BY <1>1, <2>2 DEF Commit, Typed
  <2> HIDE DEF v
  <2>4. Len(n) \in DOMAIN n /\ n[Len(n)] = v
    BY <1>2, <2>1, <2>2, <2>3, LineGrows
  <2>5. n[Len(n)].current
    BY <2>1, <2>4 DEF Follows
  <2> QED
    BY <1>1, <2>1, <2>4, <2>5
<1>5. CASE req[w].op \notin Versioned
  <2>1. formSaved'[c] = (formSaved[c] \/ req[w].op # "archive")
    BY <1>1, <1>5 DEF Commit, Typed
  <2>2. req[w].op = "archive" /\ ~formSaved[c]
    BY <2>1
  <2>3. Born(c) /\ draft[w].phone = rows[c].phone /\ draft[w].picture = rows[c].picture
    BY <1>2, <1>3, <1>5, <2>2 DEF InPlace, Written, Wrote
  <2>4. n = h
    BY <1>1, <1>2, <1>3, <1>5 DEF Written, Wrote
  <2>5. PICK x \in {h[i] : i \in CurrentOf(c)} :
            rows[c].phone = x.phone /\ (x.picture # NoPicture => rows[c].picture = x.picture)
    BY <1>1, <2>2, <2>3 DEF RegistryInvariant, CustomersConsistent, RowShowsCurrent
  <2>6. PICK i \in DOMAIN h : x = h[i] /\ h[i].current
    BY <2>5 DEF CurrentOf
  <2> QED
    BY ZenonT(60), <1>1, <2>3, <2>4, <2>5, <2>6
<1> QED
  BY <1>4, <1>5

LEMMA CommitConsistent ==
    ASSUME Typed, RegistryInvariant, NEW w \in Workers, Commit(w)
    PROVE  CustomersConsistent' /\ RowsBorn'
<1> DEFINE c == req[w].cust
<1>1. /\ c \in Customers /\ rows'[c] = draft[w] /\ draft[w].phone \in Phones
      /\ Line(versions'[c]) /\ Carried(versions'[c])
      /\ \A d \in Customers \ {c} :
            rows'[d] = rows[d] /\ versions'[d] = versions[d] /\ formSaved'[d] = formSaved[d]
  BY CommitPublishes
<1>2. VersionsFormALine /\ RowShowsCurrent /\ PhonesDistinct /\ PictureCarriedOver
  BY DEF RegistryInvariant, CustomersConsistent
<1>3. \A d \in Customers : Line(versions'[d]) /\ Carried(versions'[d])
  BY <1>1, <1>2 DEF VersionsFormALine, PictureCarriedOver, Line, Carried
<1>4. VersionsFormALine' /\ PictureCarriedOver'
  BY <1>3 DEF VersionsFormALine, PictureCarriedOver, Line, Carried
<1>5. RowShowsCurrent'
  <2>1. ASSUME NEW d \in Customers, Born(d)', ~formSaved'[d]
        PROVE  \E v \in {versions[d][i] : i \in CurrentOf(d)}' :
                  /\ rows'[d].phone = v.phone
                  /\ v.picture # NoPicture => rows'[d].picture = v.picture
    <3>1. CASE d = c
      <4>1. PICK i \in DOMAIN versions'[d] :
              LET v == versions'[d][i] IN
              /\ v.current /\ rows'[d].phone = v.phone
              /\ v.picture # NoPicture => rows'[d].picture = v.picture
        BY <2>1, <3>1, CommitShows DEF Born
      <4>2. versions'[d][i] \in {versions[d][j] : j \in CurrentOf(d)}'
        BY <4>1 DEF CurrentOf
      <4> QED
        BY <4>1, <4>2
    <3>2. CASE d # c
      BY <1>1, <1>2, <2>1, <3>2 DEF RowShowsCurrent, CurrentOf, Born
    <3> QED
      BY <3>1, <3>2
  <2> QED
    BY <2>1 DEF RowShowsCurrent
<1>6. \A d \in Customers \ {c} : rows[d].phone # draft[w].phone
  BY DEF RegistryInvariant, PhoneClaimed, Commit
<1>7. PhonesDistinct'
  BY <1>1, <1>2, <1>6 DEF PhonesDistinct, Born
<1>8. RowsBorn'
  <2>1. rows'[c] # NoRow
    BY <1>1, RegistryConstants DEF NoRow
  <2> QED
    BY <1>1, <2>1 DEF RegistryInvariant, RowsBorn, Born
<1> QED
  BY <1>4, <1>5, <1>7, <1>8 DEF CustomersConsistent

LEMMA CommitKeeps ==
    ASSUME Typed, RegistryInvariant, NEW w \in Workers, Commit(w)
    PROVE  RegistryInvariant'
<1> DEFINE c == req[w].cust
<1>1. /\ c \in Customers /\ rows'[c] = draft[w] /\ draft[w].phone \in Phones
      /\ \A d \in Customers \ {c} : rows'[d] = rows[d] /\ versions'[d] = versions[d]
  BY CommitPublishes
<1>2. pc[w] = "written" /\ custLock[c] = w /\ Finish(w)
  BY DEF Commit, RegistryInvariant, InPlace, Holding, Wrote
<1>3. rows'[c] # NoRow
  BY <1>1, RegistryConstants DEF NoRow
<1>4. \A v \in Workers \ {w} :
         /\ pc'[v] = pc[v] /\ req'[v] = req[v] /\ draft'[v] = draft[v] /\ added'[v] = added[v]
         /\ req[v] \in Request
  BY <1>2 DEF Finish, Goto, Typed
<1>5. pc'[w] = "idle" /\ added'[w] = <<>>
  BY <1>2 DEF Finish, Goto, Typed
<1>6. ASSUME NEW v \in Workers \ {w}
      PROVE  InPlace(v)' /\ ReadUnderLock(v)' /\ Written(v)' /\ PhoneClaimed(v)'
  <2>1. InPlace(v) /\ ReadUnderLock(v) /\ Written(v) /\ PhoneClaimed(v) /\ PhoneClaimed(w)
    BY DEF RegistryInvariant
  <2>2. req[v].cust \in Customers /\ (Holding(v) => req[v].cust # c)
    BY <1>2, <1>4, HoldersApart DEF Request
  <2>3. /\ Born(req[v].cust) => rows'[req[v].cust] # NoRow
        /\ Holding(v) => /\ rows'[req[v].cust] = rows[req[v].cust]
                         /\ versions'[req[v].cust] = versions[req[v].cust]
    BY <1>1, <1>3, <2>2 DEF Born
  <2>4. Holding(v) => custLock'[req[v].cust] = v
    BY <1>2, <2>1, <2>2 DEF Finish, InPlace
  <2>5. InPlace(v)'
    BY <1>4, <2>1, <2>3, <2>4 DEF InPlace, Holding, Wrote, Born
  <2>6. ReadUnderLock(v)'
    BY <1>4, <2>1, <2>3 DEF ReadUnderLock, Holding, Wrote
  <2>7. Written(v)'
    BY <1>4, <2>1, <2>3 DEF Written, Holding, Wrote
  <2>8. PhoneClaimed(v)'
    BY <1>1, <1>2, <1>4, <1>5, <2>1 DEF PhoneClaimed
  <2> QED
    BY <2>5, <2>6, <2>7, <2>8
<1>7. InPlace(w)' /\ ReadUnderLock(w)' /\ Written(w)' /\ PhoneClaimed(w)'
  BY <1>5 DEF InPlace, ReadUnderLock, Written, PhoneClaimed, Holding, Wrote
<1> QED
  BY <1>6, <1>7, CommitConsistent DEF RegistryInvariant

-----------------------------------------------------------------------------
(* The invariant and the theorems.                                         *)

LEMMA InitConsistent == Init => RegistryInvariant
<1> SUFFICES ASSUME Init PROVE RegistryInvariant
  OBVIOUS
<1>1. \A c \in Customers : ~Born(c) /\ versions[c] = <<>>
  BY DEF Init, Born
<1>2. CustomersConsistent
  BY <1>1 DEF CustomersConsistent, VersionsFormALine, RowShowsCurrent, PhonesDistinct,
              PictureCarriedOver
<1>3. \A w \in Workers : pc[w] = "idle" /\ added[w] = <<>>
  BY DEF Init
<1> QED
  BY <1>1, <1>2, <1>3 DEF RegistryInvariant, RowsBorn, InPlace, ReadUnderLock, Written, Wrote,
                          PhoneClaimed, Holding

LEMMA StepKeeps ==
    ASSUME Typed, RegistryInvariant, [Next]_vars
    PROVE  Typed' /\ RegistryInvariant'
<1>1. ASSUME NEW w \in Workers, Receive(w)
      PROVE  Typed' /\ RegistryInvariant'
  BY <1>1, ReceiveTyped, ReceiveKeeps
<1>2. ASSUME NEW w \in Workers, Steps(w)
      PROVE  Typed' /\ RegistryInvariant'
  <2>1. CASE Abort(w)
    BY <2>1, AbortKeeps
  <2>2. CASE LockCustomer(w)
    BY <2>2, LockKeeps
  <2>3. CASE WriteArchive(w)
    BY <2>3, ArchiveKeeps
  <2>4. CASE ValidatePhone(w)
    BY <2>4, ValidateKeeps
  <2>5. CASE InsertCustomer(w)
    BY <2>5, InsertKeeps
  <2>6. CASE WriteVersion(w)
    BY <2>6, WriteVersionKeeps
  <2>7. CASE WriteAdminSave(w)
    BY <2>7, AdminSaveKeeps
  <2>8. CASE Commit(w)
    BY <2>8, CommitTyped, CommitKeeps
  <2>9. CASE EnterPhone(w)
    BY <2>9, EnterKeeps
  <2> QED
    BY <1>2, <2>1, <2>2, <2>3, <2>4, <2>5, <2>6, <2>7, <2>8, <2>9
       DEF Steps, RefuseArchived, RefusePhone, InsertRefused, EntryRefused
<1>3. ASSUME NEW w \in Workers, Rollback(w)
      PROVE  Typed' /\ RegistryInvariant'
  BY <1>3, AbortKeeps DEF Rollback
<1>4. ASSUME UNCHANGED vars
      PROVE  Typed' /\ RegistryInvariant'
  BY <1>4 DEF vars, Typed, RegistryInvariant, CustomersConsistent, VersionsFormALine,
              RowShowsCurrent, PhonesDistinct, PictureCarriedOver, RowsBorn, Born, CurrentOf,
              InPlace, ReadUnderLock, Written, PhoneClaimed, Holding, Wrote, Follows
<1> QED
  BY <1>1, <1>2, <1>3, <1>4 DEF Next

(* The inductive invariant holds in every state.                                   *)
THEOREM RegistryInvariantHolds == Spec => [](Typed /\ RegistryInvariant)
<1>1. Init => Typed /\ RegistryInvariant
  BY InitTyped, InitConsistent
<1>2. Typed /\ RegistryInvariant /\ [Next]_vars => (Typed /\ RegistryInvariant)'
  BY StepKeeps
<1> QED
  BY <1>1, <1>2, PTL DEF Spec

(* The registry's state has its types, and a request that has locked or written    *)
(* its customer holds the customer's lock.                                         *)
THEOREM RegistryTypes == Spec => []TypeOK
<1>1. Typed /\ RegistryInvariant => TypeOK
  BY DEF Typed, RegistryInvariant, InPlace, Holding, Wrote, TypeOK
<1> QED
  BY <1>1, RegistryInvariantHolds, PTL

(* Histories are one numbered line, a row shows the current version, phone numbers *)
(* are distinct and pictures are carried over, whatever requests interleave.       *)
THEOREM CustomersStayConsistent == Spec => []CustomersConsistent
<1>1. RegistryInvariant => CustomersConsistent
  BY DEF RegistryInvariant
<1> QED
  BY <1>1, RegistryInvariantHolds, PTL

(* No step adds a version to an archived customer.                                 *)
THEOREM ArchivedCustomersKeepTheirHistory == Spec => ArchivedHistoryFrozen
<1>1. ASSUME Typed, RegistryInvariant, [Next]_vars,
             NEW d \in Customers, rows[d].archived
      PROVE  versions'[d] = versions[d]
  <2>1. CASE \E w \in Workers : Commit(w)
    <3>1. PICK w \in Workers : Commit(w)
      BY <2>1
    <3>0. /\ \A e \in Customers \ {req[w].cust} : versions'[e] = versions[e]
          /\ added[w] = <<>> => versions'[req[w].cust] = versions[req[w].cust]
      BY <1>1, <3>1, CommitPublishes
    <3>2. CASE req[w].cust # d
      BY <3>0, <3>2
    <3>3. CASE req[w].cust = d
      <4>1. added[w] = <<>>
        BY <1>1, <3>1, <3>3 DEF Commit, RegistryInvariant, Written, Wrote, Typed
      <4> QED
        BY <3>0, <3>3, <4>1
    <3> QED
      BY <3>2, <3>3
  <2>2. CASE ~\E w \in Workers : Commit(w)
    BY ZenonT(60), <1>1, <2>2
       DEF Next, Receive, ReceiveNew, ReceiveEdit, ReceiveArchive, ReceiveAdminSave, Begin,
           Steps, LockCustomer, WriteArchive, RefuseArchived, ValidatePhone, RefusePhone,
           InsertCustomer, InsertRefused, WriteVersion, WriteAdminSave, EnterPhone,
           EntryRefused, Rollback, Abort, vars
  <2> QED
    BY <2>1, <2>2
<1>2. Typed /\ RegistryInvariant /\ [Next]_vars
        => [\A c \in Customers : rows[c].archived => versions'[c] = versions[c]]_vars
  BY <1>1
<1> QED
  BY <1>2, RegistryInvariantHolds, PTL DEF ArchivedHistoryFrozen, Spec

-----------------------------------------------------------------------------
(* The waits for phone numbers.                                            *)

\* Request x changes alone, and no edit loses the numbers it was to keep apart.
LEMMA ApartKept ==
    ASSUME EditsApart, NEW x \in Workers,
           \A v \in Workers \ {x} :
               /\ pc'[v] = pc[v] /\ req'[v] = req[v]
               /\ Holding(v) => rows'[req[v].cust] = rows[req[v].cust],
           \/ ~(Holding(x)' /\ req'[x].op = "edit")
           \/ \A v \in Workers \ {x} : Holding(v) /\ req[v].op = "edit" => ~Wants(x, v)'
           \/ /\ Holding(x) /\ pc[x] \in {"checked", "marked", "written"}
              /\ req'[x] = req[x] /\ rows' = rows
    PROVE  EditsApart'
<1> DEFINE E == {w \in Workers : Holding(w) /\ req[w].op = "edit"}
<1>1. SUFFICES ASSUME NEW S \in SUBSET {w \in Workers : Holding(w)' /\ req'[w].op = "edit"},
                      S # {}
               PROVE  \E w \in S : \A v \in S : ~Wants(w, v)'
  BY DEF EditsApart
<1>2. \A v \in S \ {x} : v \in E /\ rows'[req'[v].cust] = rows[req[v].cust]
  BY <1>1 DEF Holding, Wrote
<1>3. CASE x \notin S
  <2>1. S \in SUBSET E
    BY <1>2, <1>3
  <2>2. PICK w \in S : \A v \in S : ~Wants(w, v)
    BY <1>1, <2>1 DEF EditsApart
  <2>3. \A v \in S : ~Wants(w, v)'
    BY <1>2, <1>3, <2>1, <2>2 DEF Wants
  <2> QED
    BY <2>2, <2>3
<1>4. CASE x \in S
  <2>1. CASE \A v \in Workers \ {x} : Holding(v) /\ req[v].op = "edit" => ~Wants(x, v)'
    <3>1. \A v \in S : ~Wants(x, v)'
      BY <1>2, <2>1 DEF Wants
    <3> QED
      BY <1>4, <3>1
  <2>2. CASE /\ Holding(x) /\ pc[x] \in {"checked", "marked", "written"}
             /\ req'[x] = req[x] /\ rows' = rows
    <3>1. S \in SUBSET E
      BY <1>1, <1>2, <1>4, <2>2
    <3>2. PICK w \in S : \A v \in S : ~Wants(w, v)
      BY <1>1, <3>1 DEF EditsApart
    <3>3. \A v \in S : ~Wants(w, v)'
      BY <1>1, <2>2, <3>1, <3>2 DEF Wants
    <3> QED
      BY <3>2, <3>3
  <2> QED
    BY <1>1, <1>4, <2>1, <2>2
<1> QED
  BY <1>3, <1>4

LEMMA StepApart ==
    ASSUME Typed, RegistryInvariant, EditsApart, [Next]_vars
    PROVE  EditsApart'
<1>1. ASSUME NEW x \in Workers, Abort(x)
      PROVE  EditsApart'
  <2>1. pc'[x] = "idle" /\ rows' = rows
        /\ \A v \in Workers \ {x} : pc'[v] = pc[v] /\ req'[v] = req[v]
    BY <1>1 DEF Abort, Finish, Goto, Typed
  <2> QED
    BY <2>1, ApartKept DEF Holding, Wrote
<1>2. ASSUME NEW x \in Workers, NEW q, NEW r, Begin(x, q, r)
      PROVE  EditsApart'
  <2>1. pc'[x] = "received" /\ rows' = rows
        /\ \A v \in Workers \ {x} : pc'[v] = pc[v] /\ req'[v] = req[v]
    BY <1>2 DEF Begin, Goto, Typed
  <2> QED
    BY <2>1, ApartKept DEF Holding, Wrote
<1>3. ASSUME NEW x \in Workers, LockCustomer(x)
      PROVE  EditsApart'
  <2>1. pc'[x] = "locked" /\ rows' = rows
        /\ \A v \in Workers \ {x} : pc'[v] = pc[v] /\ req'[v] = req[v]
    BY <1>3 DEF LockCustomer, Goto, Typed
  <2>2. \A v : ~Wants(x, v)'
    BY <2>1 DEF Wants
  <2> QED
    BY <2>1, <2>2, ApartKept
<1>4. ASSUME NEW x \in Workers, ValidatePhone(x)
      PROVE  EditsApart'
  <2>1. /\ pc'[x] = "checked" /\ rows' = rows /\ req' = req
        /\ \A v \in Workers \ {x} : pc'[v] = pc[v]
        /\ PhoneValid(x)
        /\ pc[x] = "locked" \/ req[x].op = "create"
    BY <1>4 DEF ValidatePhone, Validating, Goto, Typed
  <2>2. CASE req[x].op = "create"
    BY <2>1, <2>2, ApartKept
  <2>3. CASE pc[x] = "locked"
    <3>1. ASSUME NEW v \in Workers \ {x}, Holding(v), req[v].op = "edit"
          PROVE  ~Wants(x, v)'
      <4>1. req[v].cust \in Customers /\ ~rows[req[v].cust].archived
        BY <3>1 DEF Typed, Request, RegistryInvariant, ReadUnderLock, Written, Wrote, Holding,
                    Versioned
      <4>2. custLock[req[x].cust] = x /\ req[x].op = "edit"
        BY <2>3 DEF RegistryInvariant, InPlace, Holding
      <4>3. req[v].cust # req[x].cust
        BY <3>1, <4>2, HoldersApart
      <4> QED
        BY <2>1, <4>1, <4>2, <4>3 DEF PhoneValid, Wants
    <3> QED
      BY <2>1, <3>1, ApartKept
  <2> QED
    BY <2>1, <2>2, <2>3
<1>5. ASSUME NEW x \in Workers, WriteVersion(x) \/ EnterPhone(x)
      PROVE  EditsApart'
  <2>1. /\ (pc[x] = "checked" /\ req[x].op = "edit") \/ pc[x] = "marked"
        /\ rows' = rows /\ req' = req
        /\ \A v \in Workers \ {x} : pc'[v] = pc[v]
    BY <1>5 DEF WriteVersion, EnterPhone, Goto, Typed
  <2>2. Holding(x) /\ pc[x] \in {"checked", "marked", "written"}
    BY <2>1 DEF Holding, Wrote
  <2> QED
    BY <2>1, <2>2, ApartKept
<1>6. ASSUME NEW x \in Workers, WriteArchive(x) \/ WriteAdminSave(x) \/ InsertCustomer(x)
      PROVE  EditsApart'
  <2>1. /\ rows' = rows /\ req'[x].op # "edit"
        /\ \A v \in Workers \ {x} : pc'[v] = pc[v] /\ req'[v] = req[v]
    <3>1. CASE WriteArchive(x) \/ WriteAdminSave(x)
      BY <3>1 DEF WriteArchive, WriteAdminSave, Goto, Typed
    <3>2. CASE InsertCustomer(x)
      <4>1. PICK c \in FreshKeys : /\ Inserting(x) /\ rows' = rows
                                   /\ req' = [req EXCEPT ![x].cust = c]
                                   /\ pc' = [pc EXCEPT ![x] = "written"]
        BY <3>2 DEF InsertCustomer, Goto
      <4>2. req'[x].op = req[x].op
        BY <4>1 DEF Typed, Request
      <4> QED
        BY <4>1, <4>2 DEF Inserting, Typed
    <3> QED
      BY <1>6, <3>1, <3>2
  <2> QED
    BY <2>1, ApartKept
<1>7. ASSUME NEW x \in Workers, Commit(x)
      PROVE  EditsApart'
  <2>1. /\ pc'[x] = "idle"
        /\ \A v \in Workers \ {x} : pc'[v] = pc[v] /\ req'[v] = req[v]
        /\ custLock[req[x].cust] = x
    BY <1>7 DEF Commit, Finish, Goto, Typed, RegistryInvariant, InPlace, Holding, Wrote
  <2>2. \A d \in Customers \ {req[x].cust} : rows'[d] = rows[d]
    BY <1>7, CommitPublishes
  <2>3. \A v \in Workers \ {x} : Holding(v) => rows'[req[v].cust] = rows[req[v].cust]
    BY <2>1, <2>2, HoldersApart DEF Typed, Request
  <2>4. ~Holding(x)'
    BY <2>1 DEF Holding, Wrote
  <2> QED
    BY <2>1, <2>3, <2>4, ApartKept
<1>8. ASSUME UNCHANGED vars
      PROVE  EditsApart'
  BY <1>8 DEF vars, EditsApart, Wants, Holding, Wrote
<1> QED
  BY <1>1, <1>2, <1>3, <1>4, <1>5, <1>6, <1>7, <1>8
     DEF Next, Receive, ReceiveNew, ReceiveEdit, ReceiveArchive, ReceiveAdminSave, Steps,
         RefuseArchived, RefusePhone, InsertRefused, EntryRefused, Rollback

(* Whatever requests interleave, saves that wait for each other's numbers have a    *)
(* form of the admin site among them: edits of the API alone never deadlock.        *)
THEOREM EditsNeverDeadlock == Spec => []OnlyFormsDeadlock
<1>1. Init => EditsApart
  BY DEF Init, EditsApart, Holding, Wrote
<1>2. ASSUME Typed, RegistryInvariant, EditsApart
      PROVE  OnlyFormsDeadlock
  <2>1. SUFFICES ASSUME NEW S \in SUBSET {w \in Workers : pc[w] = "marked"}, S # {},
                        \A w \in S : \E v \in S : WaitsFor(w, v),
                        \A w \in S : req[w].op # "adminSave"
                 PROVE  FALSE
    BY DEF OnlyFormsDeadlock
  <2>2. \A w \in S : Holding(w) /\ req[w].op = "edit"
    BY <1>2, <2>1 DEF RegistryInvariant, InPlace, Holding, Wrote
  <2>3. PICK w \in S : \A v \in S : ~Wants(w, v)
    BY <1>2, <2>1, <2>2 DEF EditsApart
  <2>4. PICK v \in S : WaitsFor(w, v)
    BY <2>1, <2>3
  <2>5. Wants(w, v)
    BY <2>1, <2>3, <2>4 DEF WaitsFor, Wants, Undecided
  <2> QED
    BY <2>3, <2>5
<1>3. Typed /\ RegistryInvariant /\ EditsApart /\ [Next]_vars => EditsApart'
  BY StepApart
<1> QED
  BY <1>1, <1>2, <1>3, RegistryInvariantHolds, PTL DEF Spec

=============================================================================
