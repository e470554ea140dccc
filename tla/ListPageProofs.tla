---------------------------- MODULE ListPageProofs ----------------------------
(***************************************************************************)
(* A list page's invariants, proved for every set of searches and pages.   *)
(***************************************************************************)
EXTENDS ListPage, SequenceTheorems, TLAPS

-----------------------------------------------------------------------------
(* The inductive invariant.                                                *)

\* The debounce: a timer runs while the field and its debounced value differ, and the list
\* was asked for with that value and the page in the address.
ListInStep ==
    /\ ~armed => input = debounced
    /\ asked = [search |-> debounced, page |-> url.page]
    /\ list.status = "success" => list.data = asked

\* No entry of the history is the address after it, and only the first has a message.
TrailFits(s, address) ==
    \A i \in 1..Len(s) : /\ s[i] # IF i = Len(s) THEN address ELSE s[i + 1]
                         /\ s[i].success => i = 1
\* A navigation leads to an address without a message, and replaces only one that has it.
TrailOfMoves ==
    /\ url.success => trail = <<>>
    /\ TrailFits(trail, url)
    /\ pending # None => ~pending.to.success /\ (pending.replaces => url.success)

\* A search that is not in the address is on its way there, or was forgotten.
OnItsWay == debounced # url.search => pending # None /\ pending.to # url
SearchUnderway == OnItsWay \/ forgotten

\* What a user who crossed nothing asked for is in the field, and nothing else is on its way.
AskedForInTheField ==
    crossed = "no" =>
        /\ wanted = input /\ OnItsWay
        /\ debounced # url.search => debounced = input
        /\ pending # None /\ pending.to.search # url.search => pending.to.search = debounced

ListInvariant == TypeOK /\ ListInStep /\ TrailOfMoves /\ SearchUnderway /\ AskedForInTheField

-----------------------------------------------------------------------------
(* The history behind the page.                                            *)

\* Remembering the address left keeps the history in shape.
LEMMA TrailGrows ==
    ASSUME NEW s \in Seq(Address), NEW u \in Address, NEW v \in Address,
           TrailFits(s, u), u.success => s = <<>>, u # v
    PROVE  Remembered(Append(s, u)) \in Seq(Address) /\ TrailFits(Remembered(Append(s, u)), v)
<1> DEFINE t == Append(s, u)
<1>1. t \in Seq(Address) /\ Len(t) = Len(s) + 1 /\ t[Len(s) + 1] = u /\ Len(s) \in Nat
      /\ \A i \in 1..Len(s) : t[i] = s[i]
  BY AppendProperties, LenProperties
<1>2. s = <<>> => Len(s) = 0
  BY EmptySeq
<1>3. TrailFits(t, v)
  BY <1>1, <1>2 DEF TrailFits
<1>4. t # <<>>
  <2> HIDE DEF t
  <2>1. Len(<<>>) = 0
    BY EmptySeq
  <2> QED BY <1>1, <2>1
<1>5. Tail(t) \in Seq(Address) /\ Len(Tail(t)) = Len(t) - 1
      /\ \A i \in 1..Len(Tail(t)) : Tail(t)[i] = t[i + 1]
  BY <1>1, <1>4, HeadTailProperties
<1>6. TrailFits(Tail(t), v)
  <2> SUFFICES ASSUME NEW i \in 1..Len(Tail(t))
               PROVE  /\ Tail(t)[i] # IF i = Len(Tail(t)) THEN v ELSE Tail(t)[i + 1]
                      /\ Tail(t)[i].success => i = 1
    BY DEF TrailFits
  <2> HIDE DEF t
  <2>1. i + 1 \in 1..Len(t) /\ Tail(t)[i] = t[i + 1] /\ (i = Len(Tail(t)) <=> i + 1 = Len(t))
    BY <1>1, <1>5
  <2>2. i # Len(Tail(t)) => Tail(t)[i + 1] = t[i + 1 + 1]
    BY <1>1, <1>5
  <2> QED BY <1>1, <1>3, <2>1, <2>2 DEF TrailFits
<1> HIDE DEF t
<1> QED BY <1>1, <1>3, <1>5, <1>6 DEF Remembered, t

\* So does going back, to another address.
LEMMA TrailShrinks ==
    ASSUME NEW s \in Seq(Address), NEW u \in Address, s # <<>>, TrailFits(s, u)
    PROVE  /\ Front(s) \in Seq(Address) /\ Last(s) \in Address /\ Last(s) # u
           /\ TrailFits(Front(s), Last(s)) /\ (Last(s).success => Front(s) = <<>>)
<1>1. Len(s) \in Nat \ {0} /\ \A i \in 1..Len(s) : s[i] \in Address
  BY EmptySeq, LenProperties, ElementOfSeq
<1>2. Front(s) \in Seq(Address) /\ Len(Front(s)) = Len(s) - 1
      /\ \A i \in 1..Len(Front(s)) : Front(s)[i] = s[i]
  <2>1. \A i \in 1..(Len(s) - 1) : s[i] \in Address
    BY <1>1
  <2>2. /\ SubSeq(s, 1, Len(s) - 1) \in Seq(Address)
        /\ Len(SubSeq(s, 1, Len(s) - 1)) = IF 1 <= Len(s) - 1 THEN Len(s) - 1 - 1 + 1 ELSE 0
        /\ \A i \in 1..(Len(s) - 1 - 1 + 1) : SubSeq(s, 1, Len(s) - 1)[i] = s[1 + i - 1]
    BY <1>1, <2>1, SubSeqProperties
  <2> DEFINE f == SubSeq(s, 1, Len(s) - 1)
  <2>3. f \in Seq(Address) /\ Len(f) = Len(s) - 1 /\ \A i \in 1..(Len(s) - 1) : f[i] = s[i]
    <3> HIDE DEF f
    <3>1. /\ f \in Seq(Address)
          /\ Len(f) = IF 1 <= Len(s) - 1 THEN Len(s) - 1 - 1 + 1 ELSE 0
          /\ \A i \in 1..(Len(s) - 1 - 1 + 1) : f[i] = s[1 + i - 1]
      BY <2>2 DEF f
    <3>2. Len(f) = Len(s) - 1
      <4> DEFINE n == Len(s)
      <4>1. n \in Nat \ {0} /\ Len(f) = IF 1 <= n - 1 THEN n - 1 - 1 + 1 ELSE 0
        BY <1>1, <3>1
      <4> HIDE DEF n
      <4>2. Len(f) = n - 1
        BY <4>1
      <4> QED BY <4>2 DEF n
    <3>3. \A i \in 1..(Len(s) - 1) : i \in 1..(Len(s) - 1 - 1 + 1) /\ 1 + i - 1 = i
      BY <1>1
    <3> QED BY <3>1, <3>2, <3>3
  <2>4. Front(s) = f
    BY DEF Front
  <2> HIDE DEF f
  <2> QED BY <2>3, <2>4
<1>3. Last(s) \in Address /\ Last(s) # u
  BY <1>1 DEF Last, TrailFits
<1>4. TrailFits(Front(s), Last(s))
  <2> SUFFICES ASSUME NEW i \in 1..Len(Front(s))
               PROVE  /\ Front(s)[i] # IF i = Len(Front(s)) THEN Last(s) ELSE Front(s)[i + 1]
                      /\ Front(s)[i].success => i = 1
    BY DEF TrailFits
  <2>1. i \in 1..Len(s) /\ i # Len(s) /\ Front(s)[i] = s[i]
        /\ (i = Len(Front(s)) <=> i + 1 = Len(s))
    BY <1>1, <1>2
  <2>2. i # Len(Front(s)) => Front(s)[i + 1] = s[i + 1]
    BY <1>1, <1>2
  <2> QED BY <2>1, <2>2 DEF TrailFits, Last
<1>5. Last(s).success => Front(s) = <<>>
  BY <1>1, <1>2, EmptySeq DEF Last, TrailFits
<1> QED BY <1>2, <1>3, <1>4, <1>5

-----------------------------------------------------------------------------
(* The steps.                                                              *)

\* The addresses that navigations lead to.
LEMMA Navigations ==
    ASSUME NEW q, q \in Query \/ q \in Address
    PROVE  /\ Push(q) \in Navigation /\ Replace(q) \in Navigation
           /\ Push(q).to = ListUrl(q) /\ Replace(q).to = ListUrl(q)
           /\ ~Push(q).replaces /\ Replace(q).replaces
           /\ ListUrl(q) \in Address /\ ~ListUrl(q).success
           /\ ListUrl(q).search = q.search /\ ListUrl(q).page = q.page
<1>1. q.search \in Searches /\ q.page \in Pages
  BY DEF Query, Address
<1> QED BY <1>1 DEF Push, Replace, ListUrl, Address, Navigation

\* A new address comes into force with its effects.
LEMMA ComeToKeeps ==
    ASSUME ListInvariant, NEW address \in Address, ComeTo(address),
           UNCHANGED <<kind, dismissed>>,
           trail' \in Seq(Address), TrailFits(trail', address),
           address.success => trail' = <<>>,
           address = url => pending # None /\ pending.to = url,
           \/ /\ wanted' = wanted /\ crossed' = crossed
              /\ \/ address.search = url.search
                 \/ pending # None /\ address = pending.to
           \/ wanted' \in Searches /\ crossed' = "back"
    PROVE  ListInvariant'
<1>1. url' = address /\ debounced' = debounced /\ forgotten' = (forgotten /\ address = url)
  BY DEF ComeTo
<1>2. TypeOK
  BY DEF ListInvariant
<1> DEFINE q == [search |-> debounced, page |-> FirstPage]
<1>3. q \in Query /\ q.search = debounced
  BY <1>2, ListPageConstants DEF TypeOK, Query
<1>4. \/ pending' = None /\ (address = url \/ debounced = address.search)
      \/ pending' = Push(q) /\ debounced # address.search /\ address # url
  BY <1>1, Zenon DEF ComeTo, PushSearch
<1>5. pending' \in {None} \cup Navigation
      /\ (pending' # None => pending'.to.search = debounced /\ debounced # address.search
                             /\ ~pending'.to.success /\ ~pending'.replaces)
      /\ (address # url /\ debounced # address.search => pending' # None)
  BY <1>3, <1>4, Navigations, ListPageConstants
<1>6. /\ input' \in Searches /\ armed' \in BOOLEAN
      /\ address.search = url.search => input' = input /\ armed' = armed
      /\ address.search # url.search =>
           input' = address.search /\ armed' = (armed \/ address.search # input)
  BY <1>1, <1>2 DEF ComeTo, SyncInput, SetInput, TypeOK, Address
<1>7. \/ UNCHANGED <<list, asked, late>> /\ address.page = url.page
      \/ /\ asked' = [search |-> debounced, page |-> address.page]
         /\ late' = (IF list.status = "loading" THEN asked ELSE late)
         /\ list' = [list EXCEPT !.status = "loading"]
  BY <1>1 DEF ComeTo, ReloadIfChanged, Reload, QueryNow, listVars
<1>8. /\ list' \in [status : {"loading", "success", "error"}, data : {None} \cup Query]
      /\ asked' \in Query /\ late' \in {None} \cup Query
  BY <1>2, <1>7 DEF TypeOK, Query, Address
<1>9. TypeOK'
  <2>1. forgotten' \in BOOLEAN
    BY <1>1, <1>2 DEF TypeOK
  <2>2. wanted' \in Searches /\ crossed' \in {"no", "typing", "clearing", "back"}
    BY <1>2 DEF TypeOK
  <2>3. kind' \in Kinds /\ dismissed' \in BOOLEAN
    BY <1>2 DEF TypeOK
  <2> QED BY <1>1, <1>2, <1>5, <1>6, <1>8, <2>1, <2>2, <2>3 DEF TypeOK
<1>10. ListInStep'
  <2>1. ~armed' => input' = debounced'
    BY <1>1, <1>2, <1>6 DEF ListInvariant, ListInStep, TypeOK
  <2>2. asked' = [search |-> debounced', page |-> url'.page]
    BY <1>1, <1>7 DEF ListInvariant, ListInStep
  <2>3. list'.status = "success" => list'.data = asked'
    BY <1>2, <1>7 DEF ListInvariant, ListInStep, TypeOK
  <2> QED BY <2>1, <2>2, <2>3 DEF ListInStep
<1>11. TrailOfMoves'
  BY <1>1, <1>5 DEF TrailOfMoves, TrailFits
<1>12. address = url => debounced = address.search \/ forgotten
  BY <1>1 DEF ListInvariant, SearchUnderway, OnItsWay
<1>13. SearchUnderway'
  BY <1>1, <1>5, <1>12 DEF SearchUnderway, OnItsWay
<1>14. AskedForInTheField'
  <2> SUFFICES ASSUME crossed' = "no"
               PROVE  /\ wanted' = input' /\ OnItsWay'
                      /\ debounced' # url'.search => debounced' = input'
                      /\ pending' # None /\ pending'.to.search # url'.search =>
                            pending'.to.search = debounced'
    BY DEF AskedForInTheField
  <2>1. wanted' = wanted /\ crossed = "no"
        /\ (address.search = url.search \/ (pending # None /\ address = pending.to))
    OBVIOUS
  <2>2. /\ wanted = input /\ OnItsWay
        /\ debounced # url.search => debounced = input
        /\ pending # None /\ pending.to.search # url.search => pending.to.search = debounced
    BY <2>1 DEF ListInvariant, AskedForInTheField
  <2>3. OnItsWay'
    <3>1. address = url => debounced = address.search
      BY <2>2 DEF OnItsWay
    <3> QED BY <1>1, <1>5, <3>1 DEF OnItsWay
  <2>4. wanted' = input'
    BY <1>6, <2>1, <2>2
  <2> QED BY <1>1, <1>5, <1>6, <2>1, <2>2, <2>3, <2>4
<1> QED BY <1>9, <1>10, <1>11, <1>13, <1>14 DEF ListInvariant

\* The steps that leave the address and the history as they are.
LEMMA FieldStepsKeep ==
    ASSUME ListInvariant,
           \/ \E s \in Searches : Type(s)
           \/ TimerFires
           \/ \E p \in Pages : Clear(p)
    PROVE  ListInvariant'
<1>1. TypeOK
  BY DEF ListInvariant
<1>2. ASSUME NEW s \in Searches, Type(s)
      PROVE  ListInvariant'
  <2>1. UNCHANGED <<url, trail, pending, debounced, kind, dismissed, list, asked, late, forgotten>>
        /\ input' = s /\ armed' = (armed \/ s # input) /\ wanted' = s
        /\ crossed' = (IF Underway THEN "typing" ELSE IF Quiet THEN "no" ELSE crossed)
    BY <1>2 DEF Type, SetInput, pageVars, listVars
  <2>2. TypeOK'
    <3>1. armed' \in BOOLEAN
      BY <2>1, <1>1 DEF TypeOK
    <3>2. crossed' \in {"no", "typing", "clearing", "back"}
      BY <2>1, <1>1 DEF TypeOK
    <3> QED BY <2>1, <1>1, <3>1, <3>2 DEF TypeOK
  <2>3. ListInStep'
    BY <2>1, <1>1 DEF ListInvariant, ListInStep, TypeOK
  <2>4. TrailOfMoves'
    BY <2>1 DEF ListInvariant, TrailOfMoves, TrailFits
  <2>5. SearchUnderway'
    BY <2>1 DEF ListInvariant, SearchUnderway, OnItsWay
  <2>6. AskedForInTheField'
    BY <2>1 DEF AskedForInTheField, OnItsWay, Underway
  <2> QED BY <2>2, <2>3, <2>4, <2>5, <2>6 DEF ListInvariant
<1>3. CASE TimerFires
  <2>1. UNCHANGED <<url, trail, input, kind, dismissed, wanted, crossed, forgotten>>
        /\ armed' = FALSE /\ debounced' = input
    BY <1>3 DEF TimerFires
  <2>2. input = debounced => UNCHANGED <<pending, list, asked, late>>
    BY <1>3 DEF TimerFires, listVars
  <2> DEFINE q == [search |-> input, page |-> FirstPage]
  <2>3. q \in Query /\ q.search = input
    BY <1>1, ListPageConstants DEF TypeOK, Query
  <2>4. input # debounced =>
          pending' = IF input # url.search THEN Push(q) ELSE pending
    BY <1>3, <2>1 DEF TimerFires, PushSearch
  <2>5. input # debounced =>
          /\ asked' = [search |-> input, page |-> url.page]
          /\ late' = (IF list.status = "loading" THEN asked ELSE late)
          /\ list' = [list EXCEPT !.status = "loading"]
    BY <1>3, <2>1 DEF TimerFires, ReloadIfChanged, Reload, QueryNow
  <2>6. Push(q) \in Navigation /\ Push(q) # None /\ Push(q).to.search = input
        /\ ~Push(q).to.success /\ ~Push(q).replaces
    BY <2>3, Navigations, ListPageConstants
  <2>7. TypeOK'
    <3>1. pending' \in {None} \cup Navigation
      BY <1>1, <2>2, <2>4, <2>6 DEF TypeOK
    <3>2. /\ list' \in [status : {"loading", "success", "error"}, data : {None} \cup Query]
          /\ asked' \in Query /\ late' \in {None} \cup Query
      BY <1>1, <2>2, <2>5 DEF TypeOK, Query, Address
    <3> QED BY <1>1, <2>1, <3>1, <3>2 DEF TypeOK
  <2>8. ListInStep'
    <3>1. CASE input = debounced
      BY <2>1, <2>2, <3>1 DEF ListInvariant, ListInStep
    <3>2. CASE input # debounced
      BY <1>1, <2>1, <2>5, <3>2 DEF ListInvariant, ListInStep, TypeOK
    <3> QED BY <3>1, <3>2
  <2>9. TrailOfMoves'
    BY <2>1, <2>2, <2>4, <2>6 DEF ListInvariant, TrailOfMoves, TrailFits
  <2>10. SearchUnderway'
    BY <2>1, <2>2, <2>4, <2>6 DEF ListInvariant, SearchUnderway, OnItsWay
  <2>11. AskedForInTheField'
    <3>1. CASE input = debounced
      BY <2>1, <2>2, <3>1 DEF ListInvariant, AskedForInTheField, OnItsWay
    <3>2. CASE input # debounced
      BY <2>1, <2>4, <2>6, <3>2 DEF ListInvariant, AskedForInTheField, OnItsWay
    <3> QED BY <3>1, <3>2
  <2> QED BY <2>7, <2>8, <2>9, <2>10, <2>11 DEF ListInvariant
<1>4. ASSUME NEW p \in Pages, Clear(p)
      PROVE  ListInvariant'
  <2> DEFINE q == [search |-> NoSearch, page |-> p]
  <2>1. UNCHANGED <<kind, url, trail, debounced, dismissed, list, asked, late>>
        /\ input' = NoSearch /\ armed' = (armed \/ NoSearch # input) /\ wanted' = NoSearch
        /\ pending' = Push(q) /\ crossed' = "clearing"
        /\ forgotten' = (forgotten \/ (Push(q).to = url /\ debounced # NoSearch))
    BY <1>4 DEF Clear, SetInput, listVars
  <2>2. q \in Query /\ q.search = NoSearch
    BY ListPageConstants DEF Query
  <2>3. Push(q) \in Navigation /\ Push(q) # None /\ Push(q).to.search = NoSearch
        /\ ~Push(q).to.success /\ ~Push(q).replaces
    BY <2>2, Navigations, ListPageConstants
  <2>4. TypeOK'
    <3>1. armed' \in BOOLEAN /\ forgotten' \in BOOLEAN
      BY <2>1, <1>1 DEF TypeOK
    <3> QED BY <2>1, <2>3, <1>1, <3>1, ListPageConstants DEF TypeOK
  <2>5. ListInStep'
    BY <2>1, <1>1 DEF ListInvariant, ListInStep, TypeOK
  <2>6. TrailOfMoves'
    BY <2>1, <2>3 DEF ListInvariant, TrailOfMoves, TrailFits
  <2>7. SearchUnderway'
    BY <2>1, <2>3 DEF ListInvariant, SearchUnderway, OnItsWay
  <2>8. AskedForInTheField'
    BY <2>1 DEF AskedForInTheField
  <2> QED BY <2>4, <2>5, <2>6, <2>7, <2>8 DEF ListInvariant
<1> QED BY <1>2, <1>3, <1>4

\* Another page asked for, the message dismissed, and what comes from the server.
LEMMA OtherStepsKeep ==
    ASSUME ListInvariant,
           \/ \E p \in Pages : Turn(p)
           \/ DismissBanner \/ Retry \/ Answered \/ Failed \/ AnsweredLate
    PROVE  ListInvariant'
<1>1. TypeOK
  BY DEF ListInvariant
<1>2. ASSUME NEW n \in Navigation, n.to # url, n.to.search = url.search, ~n.to.success,
             n.replaces => url.success, pending' = n, dismissed' \in BOOLEAN,
             UNCHANGED <<url, trail, fieldVars, kind, listVars, wanted, crossed, forgotten>>
      PROVE  ListInvariant'
  <2>1. UNCHANGED <<input, debounced, armed, list, asked, late>> /\ n # None
    BY <1>2, ListPageConstants DEF fieldVars, listVars
  <2>2. TypeOK'
    BY <1>1, <1>2, <2>1 DEF TypeOK
  <2>3. ListInStep'
    BY <1>2, <2>1 DEF ListInvariant, ListInStep
  <2>4. TrailOfMoves'
    BY <1>2, <2>1 DEF ListInvariant, TrailOfMoves, TrailFits
  <2>5. SearchUnderway'
    BY <1>2, <2>1 DEF ListInvariant, SearchUnderway, OnItsWay
  <2>6. AskedForInTheField'
    BY <1>2, <2>1 DEF ListInvariant, AskedForInTheField, OnItsWay
  <2> QED BY <2>2, <2>3, <2>4, <2>5, <2>6 DEF ListInvariant
<1>3. ASSUME NEW p \in Pages, Turn(p)
      PROVE  ListInvariant'
  <2> DEFINE q == [url EXCEPT !.page = p]
  <2>1. q \in Address /\ q.search = url.search /\ q.page = p
    BY <1>1 DEF TypeOK, Address
  <2>2. Push(q) \in Navigation /\ Push(q).to # url /\ Push(q).to.search = url.search
        /\ ~Push(q).to.success /\ ~Push(q).replaces
    <3> HIDE DEF q
    <3>1. Push(q) \in Navigation /\ Push(q).to = ListUrl(q) /\ ~Push(q).replaces
          /\ ~ListUrl(q).success /\ ListUrl(q).search = q.search /\ ListUrl(q).page = q.page
      BY <2>1, Navigations
    <3>2. q.page # url.page
      BY <1>3, <2>1 DEF Turn
    <3>3. Push(q).to # url
      BY <3>1, <3>2
    <3> QED BY <2>1, <3>1, <3>3
  <2> QED BY <1>1, <1>2, <1>3, <2>2 DEF Turn, TypeOK
<1>4. CASE DismissBanner
  <2>1. Replace(url) \in Navigation /\ Replace(url).to # url /\ Replace(url).to.search = url.search
        /\ ~Replace(url).to.success
    BY <1>1, <1>4, Navigations DEF DismissBanner, TypeOK
  <2> QED BY <1>2, <1>4, <2>1 DEF DismissBanner
<1>5. ASSUME UNCHANGED <<pageVars, fieldVars, kind, dismissed, wanted, crossed, forgotten>>,
             list' \in [status : {"loading", "success", "error"}, data : {None} \cup Query],
             late' \in {None} \cup Query, asked' = asked,
             list'.status = "success" => list'.data = asked
      PROVE  ListInvariant'
  <2>1. UNCHANGED <<url, trail, pending, input, debounced, armed>>
    BY <1>5 DEF pageVars, fieldVars
  <2>2. TypeOK'
    BY <1>1, <1>5, <2>1 DEF TypeOK
  <2>3. ListInStep'
    BY <1>5, <2>1 DEF ListInvariant, ListInStep
  <2>4. TrailOfMoves'
    BY <1>5, <2>1 DEF ListInvariant, TrailOfMoves, TrailFits
  <2>5. SearchUnderway'
    BY <1>5, <2>1 DEF ListInvariant, SearchUnderway, OnItsWay
  <2>6. AskedForInTheField'
    BY <1>5, <2>1 DEF ListInvariant, AskedForInTheField, OnItsWay
  <2> QED BY <2>2, <2>3, <2>4, <2>5, <2>6 DEF ListInvariant
<1>6. CASE Retry
  <2>1. asked' = [search |-> debounced, page |-> url.page]
        /\ late' = (IF list.status = "loading" THEN asked ELSE late)
        /\ list' = [list EXCEPT !.status = "loading"]
    BY <1>6 DEF Retry, Reload, QueryNow, pageVars, fieldVars
  <2>2. asked' = asked
    BY <2>1 DEF ListInvariant, ListInStep
  <2>3. list' \in [status : {"loading", "success", "error"}, data : {None} \cup Query]
        /\ list'.status # "success"
    BY <1>1, <2>1 DEF TypeOK
  <2>4. late' \in {None} \cup Query
    BY <1>1, <2>1 DEF TypeOK
  <2> QED BY <1>5, <1>6, <2>2, <2>3, <2>4 DEF Retry
<1>7. CASE Answered
  BY <1>1, <1>5, <1>7 DEF Answered, TypeOK
<1>8. CASE Failed
  <2>1. list' \in [status : {"loading", "success", "error"}, data : {None} \cup Query]
        /\ list'.status # "success"
    BY <1>1, <1>8 DEF TypeOK, Failed
  <2> QED BY <1>1, <1>5, <1>8, <2>1 DEF Failed, TypeOK
<1>9. CASE AnsweredLate
  BY <1>1, <1>5, <1>9 DEF AnsweredLate, DropLate, TypeOK, ListInvariant, ListInStep
<1> QED BY <1>3, <1>4, <1>6, <1>7, <1>8, <1>9

LEMMA BackKeeps ==
    ASSUME ListInvariant, Back
    PROVE  ListInvariant'
<1>1. trail \in Seq(Address) /\ url \in Address /\ trail # <<>> /\ TrailFits(trail, url)
  BY DEF ListInvariant, TypeOK, TrailOfMoves, Back
<1>2. /\ Front(trail) \in Seq(Address) /\ Last(trail) \in Address /\ Last(trail) # url
      /\ TrailFits(Front(trail), Last(trail)) /\ (Last(trail).success => Front(trail) = <<>>)
  BY <1>1, TrailShrinks
<1> DEFINE address == Last(trail)
<1>3. ComeTo(address) /\ UNCHANGED <<kind, dismissed>> /\ trail' = Front(trail)
      /\ url' = address
  BY DEF Back, ComeTo
<1>4. \/ wanted' = wanted /\ crossed' = crossed /\ address.search = url.search
      \/ wanted' \in Searches /\ crossed' = "back"
  BY <1>2, <1>3 DEF Back, Address
<1> HIDE DEF address
<1>5. address \in Address /\ address # url /\ TrailFits(trail', address)
      /\ trail' \in Seq(Address) /\ (address.success => trail' = <<>>)
  BY <1>2, <1>3 DEF address
<1> QED BY <1>3, <1>4, <1>5, ComeToKeeps

LEMMA NavigatedKeeps ==
    ASSUME ListInvariant, Navigated
    PROVE  ListInvariant'
<1>1. pending \in Navigation /\ pending # None /\ ~pending.to.success
      /\ (pending.replaces => url.success)
  BY DEF ListInvariant, TypeOK, TrailOfMoves, Navigated
<1>2. trail \in Seq(Address) /\ url \in Address /\ TrailFits(trail, url)
      /\ (url.success => trail = <<>>)
  BY DEF ListInvariant, TypeOK, TrailOfMoves
<1> DEFINE address == pending.to
<1>3. ComeTo(address) /\ UNCHANGED <<kind, dismissed, wanted, crossed>>
      /\ trail' = (IF pending.replaces \/ address = url THEN trail
                   ELSE Remembered(Append(trail, url)))
  BY DEF Navigated
<1>4. address \in Address
  BY <1>1 DEF Navigation
<1>5. trail' \in Seq(Address) /\ TrailFits(trail', address)
  <2>1. CASE address = url
    BY <1>2, <1>3, <2>1
  <2>2. CASE address # url /\ pending.replaces
    <3>1. trail' = <<>> /\ trail = <<>>
      BY <1>1, <1>2, <1>3, <2>2
    <3>2. Len(trail') = 0
      BY <3>1, EmptySeq
    <3> QED BY <1>2, <3>1, <3>2 DEF TrailFits
  <2>3. CASE address # url /\ ~pending.replaces
    <3>1. trail' = Remembered(Append(trail, url))
      BY <1>3, <2>3
    <3> HIDE DEF address
    <3> QED BY <1>2, <1>4, <2>3, <3>1, TrailGrows
  <2> QED BY <2>1, <2>2, <2>3
<1>6. /\ address.success => trail' = <<>>
      /\ address = url => pending # None /\ pending.to = url
      /\ wanted' = wanted /\ crossed' = crossed /\ pending # None /\ address = pending.to
  BY <1>1, <1>3
<1> HIDE DEF address
<1>7. UNCHANGED <<kind, dismissed>>
  BY <1>3
<1> QED BY <1>3, <1>4, <1>5, <1>6, <1>7, ComeToKeeps

-----------------------------------------------------------------------------
(* The theorems.                                                           *)

LEMMA ListInit == Init => ListInvariant
<1> SUFFICES ASSUME Init PROVE ListInvariant
  OBVIOUS
<1>1. url \in Address /\ url.search = NoSearch /\ url.page = FirstPage
  <2> DEFINE u == ListUrl(Start)
  <2>1. u \in Address /\ u.search = NoSearch /\ u.page = FirstPage
    BY ListPageConstants DEF ListUrl, Start, Address
  <2>2. url = u \/ url = [u EXCEPT !.success = TRUE]
    BY DEF Init
  <2> HIDE DEF u
  <2> QED BY <2>1, <2>2 DEF Address
<1>2. asked = Start /\ Start \in Query /\ Start.search = NoSearch /\ Start.page = FirstPage
  BY ListPageConstants DEF Init, Start, Query
<1>3. trail \in Seq(Address) /\ Len(trail) = 0 /\ trail = <<>>
  BY EmptySeq DEF Init
<1>4. TypeOK
  BY <1>1, <1>2, <1>3, ListPageConstants DEF Init, TypeOK
<1>5. ListInStep
  BY <1>1, <1>2 DEF Init, ListInStep, Start
<1>6. TrailOfMoves
  BY <1>3 DEF Init, TrailOfMoves, TrailFits
<1>7. SearchUnderway
  BY <1>1 DEF Init, SearchUnderway, OnItsWay
<1>8. AskedForInTheField
  BY <1>1 DEF Init, AskedForInTheField, OnItsWay
<1> QED BY <1>4, <1>5, <1>6, <1>7, <1>8 DEF ListInvariant

LEMMA ListStepKeeps == ListInvariant /\ [Next]_vars => ListInvariant'
<1> SUFFICES ASSUME ListInvariant, [Next]_vars PROVE ListInvariant'
  OBVIOUS
<1>1. CASE Next
  BY <1>1, FieldStepsKeep, OtherStepsKeep, BackKeeps, NavigatedKeeps DEF Next, User, System
<1>2. CASE UNCHANGED vars
  BY <1>2 DEF vars, pageVars, fieldVars, listVars, ListInvariant, TypeOK, ListInStep,
              TrailOfMoves, TrailFits, SearchUnderway, OnItsWay, AskedForInTheField
<1> QED BY <1>1, <1>2

(* Every variable of a list page keeps its type.                                    *)
THEOREM ListPageTypes == Spec => []TypeOK
<1>1. ListInvariant => TypeOK
  BY DEF ListInvariant
<1> QED BY <1>1, ListInit, ListStepKeeps, PTL DEF Spec

(* A list page at rest shows the list of the text in its field and of the page in   *)
(* its address, whatever answers came late and whatever navigations the effects of  *)
(* the field and the router discarded; and a search that crossed nothing gets       *)
(* there.  The exceptions are those ListPage names.                                 *)
THEOREM ListPageFollows == Spec => []ListFollowsTheUser
<1>1. ListInvariant => ListFollowsTheUser
  <2> SUFFICES ASSUME ListInvariant PROVE ListFollowsTheUser
    OBVIOUS
  <2>1. RestingPageAgrees
    BY DEF ListInvariant, ListInStep, SearchUnderway, OnItsWay, RestingPageAgrees, Quiet
  <2>2. TypingReachesTheAddress
    BY DEF ListInvariant, ListInStep, AskedForInTheField, OnItsWay, TypingReachesTheAddress, Quiet
  <2> QED BY <2>1, <2>2 DEF ListFollowsTheUser
<1> QED BY <1>1, ListInit, ListStepKeeps, PTL DEF Spec

=============================================================================
