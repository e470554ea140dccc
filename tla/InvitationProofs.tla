-------------------------- MODULE InvitationProofs --------------------------
(***************************************************************************)
(* Theorems about Invitations, for every value of its constants.           *)
(***************************************************************************)
EXTENDS Invitations, FiniteSetTheorems, TLAPS

Request == [halkhata : Halkhatas, mode : Modes, chosen : SUBSET Customers,
            status : {"active", "closed"}]

Typed ==
    /\ TypeOK
    /\ generations \in Seq(Generation)
    /\ req \in [Workers -> Request]
    /\ cards \in [Workers -> UNION {[S -> Balances] : S \in SUBSET Customers}]
    /\ moments \in [Workers -> SUBSET Book]

-----------------------------------------------------------------------------
(* What a request in progress knows.                                       *)

\* The customer table is one that the request has lived through.
Remembers(w) == pc[w] # "idle" => book \in moments[w]

\* The customers resolved are those to be selected in one table.
SelectedAtOnce(w) ==
    pc[w] \in {"resolved", "read"} =>
        /\ \E b \in moments[w] : ids[w] = RecipientsIn(req[w], b)
        /\ req[w].chosen \subseteq ids[w]

\* The cards show the customers resolved, all of them as they were in one table.
CardsShow(w, b) ==
    \A c \in ids[w] : ~b[c].archived /\ cards[w][c] = b[c].due
ReadAtOnce(w) ==
    pc[w] = "read" => /\ DOMAIN cards[w] = ids[w]
                      /\ \E b \in moments[w] : CardsShow(w, b)

Fits(w) == Remembers(w) /\ SelectedAtOnce(w) /\ ReadAtOnce(w)

InvitationInvariant ==
    /\ Typed
    /\ CountIsRecipients
    /\ \A w \in Workers : Fits(w)

-----------------------------------------------------------------------------
LEMMA NoRequestTyped == NoRequest \in Request
  BY InvitationConstants DEF NoRequest, Request, Modes

LEMMA NoCardsTyped == NoCards \in UNION {[S -> Balances] : S \in SUBSET Customers}
<1>1. NoCards \in [{} -> Balances]
  BY DEF NoCards
<1> QED
  BY <1>1

LEMMA SelectableTyped ==
    ASSUME NEW q \in Request
    PROVE  Selectable(q) \subseteq Customers
  BY DEF Selectable, Active, Request, Modes

\* As many resolved customers as before are active only when all of them are.
LEMMA NobodyWasLost ==
    ASSUME TypeOK, NEW w \in Workers, StillAllActive(w)
    PROVE  ids[w] \subseteq Active
<1>1. ids[w] \in SUBSET Customers
  BY DEF TypeOK
<1>2. IsFiniteSet(ids[w])
  BY <1>1, InvitationConstants, FS_Subset
<1>3. ids[w] \cap Active \in SUBSET ids[w]
  OBVIOUS
<1>4. ids[w] = ids[w] \cap Active
  BY <1>2, <1>3, FS_Subset DEF StillAllActive
<1> QED
  BY <1>4

LEMMA InitFits == Init => InvitationInvariant
<1> SUFFICES ASSUME Init PROVE InvitationInvariant
  OBVIOUS
<1>1. Typed
  <2>1. book \in Book
    BY InvitationConstants DEF Init, Book
  <2>2. generations = <<>> /\ generations \in Seq(Generation)
    BY DEF Init
  <2>3. TypeOK
    BY <2>1, <2>2 DEF Init, TypeOK
  <2> QED
    BY <2>2, <2>3, NoRequestTyped, NoCardsTyped DEF Init, Typed
<1>2. CountIsRecipients
  BY DEF Init, CountIsRecipients
<1>3. \A w \in Workers : Fits(w)
  BY DEF Init, Fits, Remembers, SelectedAtOnce, ReadAtOnce
<1> QED
  BY <1>1, <1>2, <1>3 DEF InvitationInvariant

-----------------------------------------------------------------------------
(* A step of one request.                                                  *)

\* A request other than the one that moves still fits.
LEMMA OthersFit ==
    ASSUME NEW v \in Workers, Fits(v), book' = book, pc'[v] = pc[v], req'[v] = req[v],
           ids'[v] = ids[v], cards'[v] = cards[v], moments'[v] = moments[v]
    PROVE  Fits(v)'
  BY DEF Fits, Remembers, SelectedAtOnce, ReadAtOnce, CardsShow

LEMMA FinishFits ==
    ASSUME InvitationInvariant, NEW w \in Workers, Finish(w), UNCHANGED <<book, status>>,
           generations' \in Seq(Generation), CountIsRecipients'
    PROVE  InvitationInvariant'
<1>0. Typed /\ \A v \in Workers : Fits(v)
  BY DEF InvitationInvariant
<1>1. Typed'
  BY <1>0, NoRequestTyped, NoCardsTyped DEF Finish, Goto, Typed, TypeOK
<1>2. ASSUME NEW v \in Workers PROVE Fits(v)'
  <2>1. CASE v = w
    BY <1>0, <2>1 DEF Finish, Goto, Typed, TypeOK, Fits, Remembers, SelectedAtOnce, ReadAtOnce
  <2>2. CASE v # w
    BY <1>0, <2>2, OthersFit DEF Finish, Goto, Typed, TypeOK
  <2> QED
    BY <2>1, <2>2
<1> QED
  BY <1>1, <1>2 DEF InvitationInvariant

LEMMA ReceiveFits ==
    ASSUME InvitationInvariant, NEW w \in Workers, Receive(w)
    PROVE  InvitationInvariant'
<1>0. Typed /\ CountIsRecipients /\ \A v \in Workers : Fits(v)
  BY DEF InvitationInvariant
<1>1. PICK h \in Halkhatas, mode \in Modes, chosen \in SUBSET Customers :
        /\ req' = [req EXCEPT ![w] = [halkhata |-> h, mode |-> mode, chosen |-> chosen,
                                      status |-> status[h]]]
        /\ moments' = [moments EXCEPT ![w] = {book}]
        /\ Goto(w, "received")
        /\ UNCHANGED <<tables, ids, cards>>
  BY DEF Receive
<1>2. Typed'
  BY <1>0, <1>1 DEF Goto, Typed, TypeOK, Request, tables
<1>3. CountIsRecipients'
  BY <1>0, <1>1 DEF CountIsRecipients, tables
<1>4. ASSUME NEW v \in Workers PROVE Fits(v)'
  <2>1. CASE v = w
    BY <1>0, <1>1, <2>1
       DEF Goto, tables, Typed, TypeOK, Fits, Remembers, SelectedAtOnce, ReadAtOnce
  <2>2. CASE v # w
    BY <1>0, <1>1, <2>2, OthersFit DEF Goto, tables, Typed, TypeOK
  <2> QED
    BY <2>1, <2>2
<1> QED
  BY <1>2, <1>3, <1>4 DEF InvitationInvariant

LEMMA ResolveIdsFits ==
    ASSUME InvitationInvariant, NEW w \in Workers, ResolveIds(w)
    PROVE  InvitationInvariant'
<1>0. Typed /\ CountIsRecipients /\ \A v \in Workers : Fits(v)
  BY DEF InvitationInvariant
<1>1. /\ ids' = [ids EXCEPT ![w] = Selectable(req[w])]
      /\ Goto(w, "resolved") /\ pc[w] = "received"
      /\ UNCHANGED <<tables, req, cards, moments>>
  BY DEF ResolveIds
<1>2. Selectable(req[w]) \subseteq Customers
  BY <1>0, SelectableTyped DEF Typed
<1>3. Typed'
  BY <1>0, <1>1, <1>2 DEF Goto, Typed, TypeOK, tables
<1>4. CountIsRecipients'
  BY <1>0, <1>1 DEF CountIsRecipients, tables
<1>5. ASSUME NEW v \in Workers PROVE Fits(v)'
  <2>1. CASE v = w
    <3>1. /\ ids'[w] = Selectable(req[w]) /\ pc'[w] = "resolved" /\ book' = book
          /\ req'[w] = req[w] /\ moments'[w] = moments[w] /\ book \in moments[w]
      BY <1>0, <1>1 DEF Goto, tables, Typed, TypeOK, Fits, Remembers
    <3>2. ids'[w] = RecipientsIn(req[w], book) /\ req[w].chosen \subseteq ids'[w]
      <4>1. req[w] \in Request /\ req[w].chosen \subseteq Selectable(req[w])
        BY <1>0 DEF Typed, ResolveIds, Acceptable
      <4>2. Selectable(req[w]) = RecipientsIn(req[w], book)
        BY <4>1 DEF Selectable, RecipientsIn, Active, Request, Modes
      <4> QED
        BY <3>1, <4>1, <4>2
    <3>3. SelectedAtOnce(w)'
      BY <3>1, <3>2 DEF SelectedAtOnce
    <3> QED
      BY <2>1, <3>1, <3>3 DEF Fits, Remembers, ReadAtOnce
  <2>2. CASE v # w
    BY <1>0, <1>1, <2>2, OthersFit DEF Goto, tables, Typed, TypeOK
  <2> QED
    BY <2>1, <2>2
<1> QED
  BY <1>3, <1>4, <1>5 DEF InvitationInvariant

LEMMA ReadCustomersFits ==
    ASSUME InvitationInvariant, NEW w \in Workers, ReadCustomers(w)
    PROVE  InvitationInvariant'
<1>0. Typed /\ CountIsRecipients /\ \A v \in Workers : Fits(v)
  BY DEF InvitationInvariant
<1> DEFINE shown == [c \in ids[w] \cap Active |-> book[c].due]
<1>1. /\ cards' = [cards EXCEPT ![w] = shown]
      /\ Goto(w, "read") /\ pc[w] = "resolved"
      /\ UNCHANGED <<tables, req, ids, moments>>
  BY DEF ReadCustomers
<1>2. ids[w] \cap Active = ids[w] /\ ids[w] \subseteq Customers
  BY <1>0, NobodyWasLost DEF ReadCustomers, Typed, TypeOK
<1>3. shown \in [ids[w] -> Balances] /\ \A c \in ids[w] : shown[c] = book[c].due
  BY <1>0, <1>2 DEF Typed, TypeOK, Book
<1>4. \A c \in ids[w] : ~book[c].archived
  BY <1>2 DEF Active
<1> HIDE DEF shown
<1>5. Typed'
  BY <1>0, <1>1, <1>2, <1>3 DEF Goto, Typed, TypeOK, tables
<1>6. CountIsRecipients'
  BY <1>0, <1>1 DEF CountIsRecipients, tables
<1>7. ASSUME NEW v \in Workers PROVE Fits(v)'
  <2>1. CASE v = w
    <3>1. /\ cards'[w] = shown /\ pc'[w] = "read" /\ book' = book /\ ids'[w] = ids[w]
          /\ req'[w] = req[w] /\ moments'[w] = moments[w] /\ book \in moments[w]
      BY <1>0, <1>1 DEF Goto, tables, Typed, TypeOK, Fits, Remembers
    <3>2. SelectedAtOnce(w)'
      BY <1>0, <1>1, <3>1 DEF Fits, SelectedAtOnce
    <3>3. ReadAtOnce(w)'
      BY <1>3, <1>4, <3>1 DEF ReadAtOnce, CardsShow
    <3> QED
      BY <2>1, <3>1, <3>2, <3>3 DEF Fits, Remembers
  <2>2. CASE v # w
    BY <1>0, <1>1, <2>2, OthersFit DEF Goto, tables, Typed, TypeOK
  <2> QED
    BY <2>1, <2>2
<1> QED
  BY <1>5, <1>6, <1>7 DEF InvitationInvariant

LEMMA NewGenerationTyped ==
    ASSUME Typed, NEW w \in Workers, DOMAIN cards[w] = ids[w]
    PROVE  /\ NewGeneration(w) \in Generation
           /\ NewGeneration(w).selected = DOMAIN NewGeneration(w).dues
           /\ NewGeneration(w).count = Cardinality(DOMAIN NewGeneration(w).dues)
           /\ NewGeneration(w).dues = cards[w]
<1> DEFINE dues == [c \in DOMAIN cards[w] |-> SnapshotOf(w, c)]
<1>1. ids[w] \in SUBSET Customers /\ cards[w] \in [ids[w] -> Balances]
  BY DEF Typed, TypeOK
<1>2. dues = cards[w] /\ DOMAIN dues = ids[w]
  BY <1>1 DEF SnapshotOf
<1>3. Cardinality(ids[w]) \in Nat
  BY <1>1, InvitationConstants, FS_Subset, FS_CardinalityType
<1>4. dues \in UNION {[S -> Balances] : S \in SUBSET Customers}
  BY <1>1, <1>2
<1>5. req[w].halkhata \in Halkhatas /\ req[w].mode \in Modes
  BY DEF Typed, Request
<1>6. NewGeneration(w) = [halkhata |-> req[w].halkhata, mode |-> req[w].mode,
                          selected |-> ids[w], count |-> Cardinality(ids[w]), dues |-> dues]
  BY DEF NewGeneration
<1> HIDE DEF dues
<1> QED
  BY <1>1, <1>2, <1>3, <1>4, <1>5, <1>6 DEF Generation

LEMMA StoreGenerationFits ==
    ASSUME InvitationInvariant, NEW w \in Workers, StoreGeneration(w)
    PROVE  InvitationInvariant'
<1>0. Typed /\ CountIsRecipients /\ ReadAtOnce(w)
  BY DEF InvitationInvariant, Fits
<1> DEFINE g == NewGeneration(w)
<1>1. generations' = Append(generations, g) /\ Finish(w) /\ UNCHANGED <<book, status>>
  BY DEF StoreGeneration
<1>2. /\ g \in Generation /\ g.selected = DOMAIN g.dues
      /\ g.count = Cardinality(DOMAIN g.dues)
  BY <1>0, NewGenerationTyped DEF StoreGeneration, ReadAtOnce
<1> HIDE DEF g
<1>3. generations' \in Seq(Generation)
  BY <1>0, <1>1, <1>2 DEF Typed
<1>4. ASSUME NEW i \in DOMAIN generations'
      PROVE  \/ i \in DOMAIN generations /\ generations'[i] = generations[i]
             \/ generations'[i] = g
  BY <1>0, <1>1, <1>2 DEF Typed
<1>5. CountIsRecipients'
  BY <1>0, <1>2, <1>4 DEF CountIsRecipients
<1> QED
  BY <1>1, <1>3, <1>5, FinishFits

-----------------------------------------------------------------------------
(* What other requests commit.                                             *)

LEMMA PublishFits ==
    ASSUME InvitationInvariant, NEW b \in Book, Publish(b)
    PROVE  InvitationInvariant'
<1>0. Typed /\ CountIsRecipients /\ \A v \in Workers : Fits(v)
  BY DEF InvitationInvariant
<1>1. /\ book' = b
      /\ moments' = [v \in Workers |-> IF pc[v] = "idle" THEN {} ELSE moments[v] \cup {b}]
      /\ UNCHANGED <<status, generations, pc, req, ids, cards>>
  BY DEF Publish
<1>2. Typed'
  <2>1. TypeOK'
    BY <1>0, <1>1 DEF Typed, TypeOK
  <2>2. moments' \in [Workers -> SUBSET Book]
    BY <1>0, <1>1 DEF Typed
  <2> QED
    BY <1>0, <1>1, <2>1, <2>2 DEF Typed
<1>3. CountIsRecipients'
  BY <1>0, <1>1 DEF CountIsRecipients
<1>4. ASSUME NEW v \in Workers PROVE Fits(v)'
  <2>1. Remembers(v)'
    BY <1>1 DEF Remembers
  <2>2. pc[v] # "idle" => moments[v] \subseteq moments'[v]
    BY <1>1
  <2>3. SelectedAtOnce(v)'
    BY <1>0, <1>1, <2>2 DEF Fits, SelectedAtOnce
  <2>4. ReadAtOnce(v)'
    BY <1>0, <1>1, <2>2 DEF Fits, ReadAtOnce, CardsShow
  <2> QED
    BY <2>1, <2>3, <2>4 DEF Fits
<1> QED
  BY <1>2, <1>3, <1>4 DEF InvitationInvariant

LEMMA CommitStatusFits ==
    ASSUME InvitationInvariant, CommitStatus
    PROVE  InvitationInvariant'
<1>0. Typed /\ CountIsRecipients /\ \A v \in Workers : Fits(v)
  BY DEF InvitationInvariant
<1>1. Typed'
  BY <1>0 DEF CommitStatus, Typed, TypeOK
<1>2. CountIsRecipients'
  BY <1>0 DEF CommitStatus, CountIsRecipients
<1>3. \A v \in Workers : Fits(v)'
  BY <1>0, OthersFit DEF CommitStatus
<1> QED
  BY <1>1, <1>2, <1>3 DEF InvitationInvariant

LEMMA StepFits ==
    ASSUME InvitationInvariant, [Next]_vars
    PROVE  InvitationInvariant'
<1>0. Typed /\ CountIsRecipients /\ \A v \in Workers : Fits(v)
  BY DEF InvitationInvariant
<1>1. ASSUME NEW w \in Workers, Serve(w) PROVE InvitationInvariant'
  <2>1. CASE Refuse(w) \/ CustomersChanged(w)
    <3>1. Finish(w) /\ UNCHANGED tables
      BY <2>1 DEF Refuse, CustomersChanged
    <3>2. generations' \in Seq(Generation) /\ CountIsRecipients'
      BY <1>0, <3>1 DEF tables, Typed, CountIsRecipients
    <3> QED
      BY <3>1, <3>2, FinishFits DEF tables
  <2> QED
    BY <1>1, <2>1, ReceiveFits, ResolveIdsFits, ReadCustomersFits, StoreGenerationFits
       DEF Serve
<1>2. CASE CommitBalance
  <2>1. PICK c \in Customers, due \in Balances : Publish([book EXCEPT ![c].due = due])
    BY <1>2 DEF CommitBalance
  <2>2. [book EXCEPT ![c].due = due] \in Book
    BY <1>0 DEF Typed, TypeOK, Book
  <2> QED
    BY <2>1, <2>2, PublishFits
<1>3. CASE CommitArchive
  <2>1. PICK c \in Active : Publish([book EXCEPT ![c].archived = TRUE])
    BY <1>3 DEF CommitArchive
  <2>2. [book EXCEPT ![c].archived = TRUE] \in Book
    BY <1>0 DEF Typed, TypeOK, Book, Active
  <2> QED
    BY <2>1, <2>2, PublishFits
<1>4. CASE UNCHANGED vars
  <2>1. Typed'
    BY <1>0, <1>4 DEF vars, tables, Typed, TypeOK
  <2>2. CountIsRecipients'
    BY <1>0, <1>4 DEF vars, tables, CountIsRecipients
  <2>3. \A v \in Workers : Fits(v)'
    BY <1>0, <1>4, OthersFit DEF vars, tables
  <2> QED
    BY <2>1, <2>2, <2>3 DEF InvitationInvariant
<1> QED
  BY <1>1, <1>2, <1>3, <1>4, CommitStatusFits DEF Next

\* The inductive invariant that the theorems below rest on.
THEOREM InvitationInvariantHolds == Spec => []InvitationInvariant
<1>1. InvitationInvariant /\ [Next]_vars => InvitationInvariant'
  BY StepFits
<1> QED
  BY <1>1, InitFits, PTL DEF Spec

\* The customer table, the generations and each request's places keep their types.
THEOREM InvitationTypes == Spec => []TypeOK
<1>1. InvitationInvariant => TypeOK
  BY DEF InvitationInvariant, Typed
<1> QED
  BY InvitationInvariantHolds, <1>1, PTL

(* However balances change and customers are archived between the two SELECTs of   *)
(* create_invitation_generation: the count and the selection stored are the        *)
(* recipients, the selection is what the mode asks for in one customer table of    *)
(* the request's lifetime, and the cards show its customers as they were in one.   *)
THEOREM CardsAlwaysFit == Spec => []CardsFitTheCustomers
<1>1. InvitationInvariant => CardsFitTheCustomers
  <2> SUFFICES ASSUME InvitationInvariant PROVE CardsFitTheCustomers
    OBVIOUS
  <2>0. Typed /\ CountIsRecipients /\ \A w \in Workers : Fits(w)
    BY DEF InvitationInvariant
  <2>1. ASSUME NEW w \in Workers, pc[w] = "read"
        PROVE  \E b \in moments[w] : \A c \in ids[w] :
                   ~b[c].archived /\ NewGeneration(w).dues[c] = b[c].due
    <3>1. DOMAIN cards[w] = ids[w] /\ \E b \in moments[w] : CardsShow(w, b)
      BY <2>0, <2>1 DEF Fits, ReadAtOnce
    <3>2. NewGeneration(w).dues = cards[w]
      BY <2>0, <3>1, NewGenerationTyped
    <3> QED
      BY <3>1, <3>2 DEF CardsShow
  <2>2. SelectionOfOneMoment
    BY <2>0 DEF SelectionOfOneMoment, Fits, SelectedAtOnce
  <2> QED
    BY <2>0, <2>1, <2>2 DEF CardsFitTheCustomers, CardsOfOneMoment
<1> QED
  BY InvitationInvariantHolds, <1>1, PTL

=============================================================================
