----------------------------- MODULE CustomerPicker -----------------------------
(***************************************************************************)
(* How a customer is chosen in apps/frontend-admin: in the form of a sale  *)
(* (TransactionCustomerSelect), where the address may name one already, or *)
(* for a payment of a halkhata (HalkhataCustomerSearchBox and the recent   *)
(* customers beside it).  The options found and the customer looked up are *)
(* answers the picker waits for, and the effect that asked can be          *)
(* cancelled.  The customer named is asked for by the page as well         *)
(* (CustomerTransactionCreatePage): its answer is put on display and fixes *)
(* the choice.                                                             *)
(***************************************************************************)
EXTENDS Integers, Sequences, SequencesExt

CONSTANTS
    MaxCustomers,   \* customers are 1..MaxCustomers; 0 is none
    MaxSearch,      \* searches are 0..MaxSearch; 0 is the empty one
    MaxRecent,      \* MAX_RECENT
    None            \* no request, no options

VARIABLES
    use,            \* "sale" or "payment"
    named,          \* the customer in the address
    preselected,    \* the page's own request for him: "no", "awaited", or its answer is
                    \* "shown"; "imposed": it was when the form had another choice
    search, debounced,
    options,        \* the search whose answer the options are
    asked,          \* the search under way
    cancelled,      \* one that was cancelled and not answered yet
    failed,         \* the last search failed: the options stay
    customerId,     \* what the form will send
    selected,       \* the customer on display
    looking,        \* getCustomer under way
    forsaken,       \* one that was cancelled
    recents,        \* sessionStorage: the customers picked, latest first
    picked,         \* history: the last of them
    unstored        \* history: the storage did not take it

searchVars == <<search, debounced, options, asked, cancelled, failed>>
choiceVars == <<customerId, selected, looking, forsaken>>
recentVars == <<recents, picked, unstored>>
vars == <<use, named, preselected, searchVars, choiceVars, recentVars>>

Customers == 1..MaxCustomers

Init ==
    /\ use \in {"sale", "payment"}
    /\ named \in 0..MaxCustomers /\ (use = "payment" => named = 0)
    /\ preselected = (IF named = 0 THEN "no" ELSE "awaited")
    /\ search = 0 /\ debounced = 0 /\ options = None
    /\ asked = (IF use = "sale" THEN 0 ELSE None) /\ cancelled = None /\ failed = FALSE
    /\ customerId = named /\ selected = 0
    /\ looking = named /\ forsaken = 0
    /\ recents = <<>> /\ picked = 0 /\ unstored = FALSE

-----------------------------------------------------------------------------
(* The search.                                                             *)

Type(text) ==
    /\ selected = 0 \/ use = "payment"
    /\ text # search /\ search' = text
    /\ UNCHANGED <<use, named, preselected, debounced, options, asked, cancelled, failed,
                   choiceVars, recentVars>>

\* The effect on the debounced text: the request before is cancelled; a payment's empty
\* search has no options and asks nothing.
TimerFires ==
    /\ search # debounced /\ debounced' = search
    /\ cancelled' = IF asked # None THEN asked ELSE cancelled
    /\ failed' = FALSE
    /\ IF use = "payment" /\ search = 0 THEN options' = None /\ asked' = None
       ELSE asked' = search /\ UNCHANGED options
    /\ UNCHANGED <<use, named, preselected, search, choiceVars, recentVars>>

\* New options run the effect on the customer: he is among them, or is looked up again.
LookAgain ==
    IF customerId = 0 \/ selected = customerId THEN UNCHANGED choiceVars
    ELSE /\ UNCHANGED customerId
         /\ forsaken' = IF looking # 0 THEN looking ELSE forsaken
         /\ \/ selected' = customerId /\ looking' = 0
            \/ looking' = customerId /\ UNCHANGED selected

Found ==
    /\ asked # None
    /\ options' = asked /\ asked' = None
    /\ LookAgain
    /\ UNCHANGED <<use, named, preselected, search, debounced, cancelled, failed, recentVars>>

NotFound ==
    /\ asked # None
    /\ asked' = None /\ failed' = TRUE
    /\ UNCHANGED <<use, named, preselected, search, debounced, options, cancelled, choiceVars,
                   recentVars>>

ShowCancelled == options' = cancelled
DropCancelled == UNCHANGED options
FoundLate ==
    /\ cancelled # None
    /\ DropCancelled
    /\ cancelled' = None
    /\ UNCHANGED <<use, named, preselected, search, debounced, asked, failed, choiceVars,
                   recentVars>>

-----------------------------------------------------------------------------
(* The customer.                                                           *)

LookedUp ==
    /\ looking # 0 /\ looking' = 0
    /\ selected' \in {looking, selected}        \* or the request fails
    /\ UNCHANGED <<use, named, preselected, searchVars, customerId, forsaken, recentVars>>

\* The page's answer: the effect on preselectedCustomer shows him; then the effect on the
\* customer may find the form's among the options, or look him up.
Preselect ==
    /\ preselected = "awaited"
    /\ preselected' = IF customerId = named THEN "shown" ELSE "imposed"
    /\ forsaken' = IF looking # 0 THEN looking ELSE forsaken
    /\ \/ /\ selected' = named
          /\ looking' = IF customerId = named THEN 0 ELSE customerId
       \/ customerId # 0 /\ selected' = customerId /\ looking' = 0
    /\ UNCHANGED <<use, named, searchVars, customerId, recentVars>>

NotPreselected ==
    /\ preselected = "awaited" /\ preselected' = "no"
    /\ UNCHANGED <<use, named, searchVars, choiceVars, recentVars>>

ShowForsaken == selected' = forsaken
DropForsaken == UNCHANGED selected
LookedUpLate ==
    /\ forsaken # 0 /\ forsaken' = 0
    /\ DropForsaken
    /\ UNCHANGED <<use, named, preselected, searchVars, customerId, looking, recentVars>>

\* addRecentCustomer.  The filter takes out one customer or none: nobody is there twice.
Without(s, customer) ==
    IF Contains(s, customer) THEN RemoveAt(s, CHOOSE i \in DOMAIN s : s[i] = customer) ELSE s
RecentTwice(customer) ==
    LET all == <<customer>> \o recents IN SubSeq(all, 1,
                                                 IF Len(all) < MaxRecent THEN Len(all) ELSE MaxRecent)
RecentUncut(customer) == <<customer>> \o Without(recents, customer)
Recent(customer) ==
    LET all == <<customer>> \o Without(recents, customer) IN
    IF Len(all) > MaxRecent THEN Front(all) ELSE all

Select(customer) ==
    /\ customerId' = customer /\ selected' = customer
    /\ looking' = 0 /\ forsaken' = IF looking # 0 THEN looking ELSE forsaken

\* From the options, whichever search they are of; the search of a sale is emptied.
handleSelect(customer) ==
    /\ options # None /\ selected = 0
    /\ Select(customer)
    /\ search' = IF use = "sale" THEN 0 ELSE search
    /\ IF use = "sale" THEN UNCHANGED recentVars
       ELSE \E stored \in BOOLEAN :
                /\ recents' = IF stored THEN Recent(customer) ELSE recents
                /\ picked' = customer /\ unstored' = ~stored
    /\ UNCHANGED <<use, named, preselected, debounced, options, asked, cancelled, failed>>

SelectRecent(customer) ==
    /\ use = "payment" /\ selected = 0 /\ Contains(recents, customer)
    /\ Select(customer)
    /\ recents' = Recent(customer) /\ picked' = customer /\ unstored' = FALSE
    /\ UNCHANGED <<use, named, preselected, searchVars>>

\* "Change" in a sale, not there once the page has the customer named; the payment's
\* dialog is closed.
handleClear ==
    /\ selected # 0 /\ preselected \in {"no", "awaited"}
    /\ selected' = 0 /\ customerId' = 0
    /\ looking' = 0 /\ forsaken' = IF looking # 0 THEN looking ELSE forsaken
    /\ search' = IF use = "sale" THEN 0 ELSE search
    /\ UNCHANGED <<use, named, preselected, debounced, options, asked, cancelled, failed,
                   recentVars>>

\* A payment was taken: customerSearchResetKey mounts the search anew.
Reset ==
    /\ use = "payment" /\ selected # 0
    /\ selected' = 0 /\ customerId' = 0
    /\ search' = 0 /\ debounced' = 0 /\ options' = None /\ asked' = None /\ failed' = FALSE
    /\ cancelled' = IF asked # None THEN asked ELSE cancelled
    /\ UNCHANGED <<use, named, preselected, looking, forsaken, recentVars>>

Next ==
    \/ (\E text \in 0..MaxSearch : Type(text)) \/ TimerFires
    \/ Found \/ NotFound \/ FoundLate \/ LookedUp \/ LookedUpLate
    \/ Preselect \/ NotPreselected
    \/ (\E c \in Customers : handleSelect(c) \/ SelectRecent(c)) \/ handleClear \/ Reset

Spec == Init /\ [][Next]_vars

TypeOK ==
    /\ use \in {"sale", "payment"} /\ preselected \in {"no", "awaited", "shown", "imposed"}
    /\ {named, customerId, selected, looking, forsaken, picked} \subseteq 0..MaxCustomers
    /\ {search, debounced} \subseteq 0..MaxSearch
    /\ {options, asked, cancelled} \subseteq {None} \cup 0..MaxSearch
    /\ {failed, unstored} \subseteq BOOLEAN
    /\ recents \in BoundedSeq(Customers, MaxRecent)

(* A sale or a payment is entered for the customer on display; with none on display *)
(* only for the one the address named, whom the page has not got.  Only the page's  *)
(* answer that came after another choice, or after "Change", shows another than is  *)
(* sent: the one named.                                                             *)
Imposed == preselected = "imposed" /\ selected = named
ShownIsSent ==
    /\ customerId # 0 => selected = customerId \/ (selected = 0 /\ customerId = named) \/ Imposed
    /\ selected # 0 => customerId = selected \/ Imposed

(* At rest the options are those of the text in the field, in whatever order the    *)
(* answers came, unless the last request failed.                                    *)
OptionsFit ==
    search = debounced /\ asked = None =>
        \/ options = (IF use = "payment" /\ search = 0 THEN None ELSE search)
        \/ failed

(* The recent customers are each there once, the last picked first unless the       *)
(* browser did not store it.                                                        *)
RecentsInOrder ==
    /\ IsInjective(recents)
    /\ picked # 0 => unstored \/ recents[1] = picked

=============================================================================
