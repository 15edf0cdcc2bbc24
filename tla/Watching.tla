------------------------------- MODULE Watching -------------------------------
(***************************************************************************)
(* The watchlist: the star of a stock page (apps/web/components/            *)
(* watchlist-toggle.tsx), the watchlist page with its form and its rows      *)
(* (apps/web/app/(product)/(authed)/watchlist, components/watchlist-         *)
(* controls.tsx), and the items at the API (routers/watchlist.py).          *)
(***************************************************************************)
EXTENDS Integers, FiniteSets

CONSTANTS
  Watchable,      \* tracked symbols
  Starred,      \* the symbol of the stock page
  MaxToggles    \* bound: buttons pressed

ASSUME WatchingAssumption ==
  /\ Starred \in Watchable /\ MaxToggles \in Nat
  /\ {"star", "add"} \cap Watchable = {}   \* a row's button bears its symbol

VARIABLES
  items,      \* the symbols on the list, and what wrote each symbol last
  toggles,    \* server actions under way, and the number of buttons pressed
  watchPage   \* the page in the tab: what it rendered, the star's last answer, its calls

watchVars == <<items, toggles, watchPage>>

NoOne == 0
NotPressed == [answered |-> FALSE, on |-> FALSE, by |-> NoOne]

\* What a page reads; the stock page shows an unreadable list as one without the symbol,
\* the watchlist page leaves the form empty when the universe is unreadable.
StockRead(readable) ==
  [at |-> "stock", listed |-> IF readable THEN items.listed ELSE {}, addable |-> {}]
WatchlistRead(readable) ==
  [at |-> "watchlist", listed |-> items.listed,
   addable |-> IF readable THEN Watchable \ items.listed ELSE {}]

Mounted_(read) == [read |-> read, star |-> NotPressed, pending |-> {}, error |-> FALSE]

\* Mutation: only what the page was rendered with.
StarServed(page) == Starred \in page.read.listed

\* The star's own last answer goes before what the page was rendered with.
StarOn(page) ==
  IF page.star.answered THEN page.star.on ELSE Starred \in page.read.listed

WatchingFrom(listed) ==
  /\ items = [listed |-> listed, writer |-> [s \in Watchable |-> NoOne]]
  /\ toggles = [calls |-> {}, count |-> 0]
  /\ watchPage = Mounted_([at |-> "stock", listed |-> listed, addable |-> {}])

WatchingInit == \E listed \in SUBSET Watchable : WatchingFrom(listed)

-----------------------------------------------------------------------------
\* A form submits its symbol and an intent; its button is disabled until the answer.
Submit_(button, symbol, wantOn) ==
  /\ ~ watchPage.error /\ toggles.count < MaxToggles
  /\ \A c \in toggles.calls : c.button = button => c.id \notin watchPage.pending
  /\ toggles' = [count |-> toggles.count + 1,
                 calls |-> toggles.calls \cup
                   {[id |-> toggles.count + 1, button |-> button, symbol |-> symbol,
                     wantOn |-> wantOn, status |-> "sent"]}]
  /\ watchPage' = [watchPage EXCEPT !.pending = @ \cup {toggles.count + 1}]
  /\ UNCHANGED items

PressStar ==
  /\ watchPage.read.at = "stock"
  /\ Submit_("star", Starred, ~ StarOn(watchPage))

\* Without a symbol to add there is a sentence in place of the form.
AddSymbol(s) ==
  /\ watchPage.read.at = "watchlist" /\ s \in watchPage.read.addable
  /\ Submit_("add", s, TRUE)

RemoveRow(s) ==
  /\ watchPage.read.at = "watchlist" /\ s \in watchPage.read.listed
  /\ Submit_(s, s, FALSE)

-----------------------------------------------------------------------------
ToggleAnswered(c, status) ==
  toggles' = [toggles EXCEPT !.calls = (@ \ {c}) \cup {[c EXCEPT !.status = status]}]

\* POST keeps an item that is there, DELETE answers 404 when there is none.
ApiToggles(c) ==
  /\ c.status = "sent"
  /\ items' = [listed |-> IF c.wantOn THEN items.listed \cup {c.symbol}
                          ELSE items.listed \ {c.symbol},
               writer |-> [items.writer EXCEPT ![c.symbol] = c.id]]
  /\ ToggleAnswered(c, IF c.wantOn \/ c.symbol \in items.listed THEN "done" ELSE "404")
  /\ UNCHANGED watchPage

\* No session any more, or an error of the API.
ApiRejects(c) ==
  /\ c.status = "sent"
  /\ ToggleAnswered(c, "refused")
  /\ UNCHANGED <<items, watchPage>>

\* Another tab or device of the user.
ToggledElsewhere(s) ==
  /\ items' = [listed |-> IF s \in items.listed THEN items.listed \ {s}
                          ELSE items.listed \cup {s},
               writer |-> [items.writer EXCEPT ![s] = NoOne]]
  /\ UNCHANGED <<toggles, watchPage>>

ReadAgain(at, readable) == IF at = "stock" THEN StockRead(readable) ELSE WatchlistRead(readable)

\* Gone already is success.  The page is rendered again, and a form that is still mounted
\* keeps the answer.
ToggleReturns(c, readable) ==
  /\ c.status \in {"done", "404"} /\ ~ watchPage.error
  /\ toggles' = [toggles EXCEPT !.calls = @ \ {c}]
  /\ watchPage' =
       [watchPage EXCEPT
          !.read = ReadAgain(watchPage.read.at, readable),
          !.pending = @ \ {c.id},
          !.star = IF c.button = "star" /\ c.id \in watchPage.pending
                   THEN [answered |-> TRUE, on |-> c.wantOn, by |-> c.id] ELSE @]
  /\ UNCHANGED items

\* A refusal is the form's new answer, which names no symbol.
ToggleRefused(c) ==
  /\ c.status = "refused" /\ ~ watchPage.error
  /\ toggles' = [toggles EXCEPT !.calls = @ \ {c}]
  /\ watchPage' = [watchPage EXCEPT !.pending = @ \ {c.id},
                     !.star = IF c.button = "star" /\ c.id \in watchPage.pending THEN NotPressed ELSE @]
  /\ UNCHANGED items

\* The connection breaks before or after the write: the error boundary takes the page when
\* the form is still mounted.
ToggleLost(c) ==
  /\ toggles' = [toggles EXCEPT !.calls = @ \ {c}]
  /\ watchPage' = [watchPage EXCEPT !.error = @ \/ c.id \in watchPage.pending]
  /\ UNCHANGED items

\* A link to either page, or Try again: the components are mounted anew.
OpenPage(at, readable) ==
  /\ at # watchPage.read.at
  /\ watchPage' = Mounted_(ReadAgain(at, readable))
  /\ UNCHANGED <<items, toggles>>

TryWatchlistAgain ==
  /\ watchPage.error
  /\ watchPage' = Mounted_(watchPage.read)
  /\ UNCHANGED <<items, toggles>>

\* Another timeframe of the chart renders the stock page with its star mounted.
RenderStock(readable) ==
  /\ watchPage.read.at = "stock" /\ ~ watchPage.error
  /\ watchPage' = [watchPage EXCEPT !.read = StockRead(readable)]
  /\ UNCHANGED <<items, toggles>>

WatchingNext ==
  \/ PressStar \/ TryWatchlistAgain
  \/ \E s \in Watchable : AddSymbol(s) \/ RemoveRow(s) \/ ToggledElsewhere(s)
  \/ \E c \in toggles.calls :
       ApiToggles(c) \/ ApiRejects(c) \/ ToggleRefused(c) \/ ToggleLost(c)
  \/ \E readable \in BOOLEAN :
       \/ RenderStock(readable)
       \/ \E at \in {"stock", "watchlist"} : OpenPage(at, readable)
       \/ \E c \in toggles.calls : ToggleReturns(c, readable)

WatchingSpec == WatchingInit /\ [][WatchingNext]_watchVars

-----------------------------------------------------------------------------
\* The star tells whether its symbol is on the list as long as no other press, tab or page
\* has written it since the press the star answers, also when a later read of the list
\* fails (watchlist-toggle.tsx:24-27, stocks/[ticker]/page.tsx:124).
StarTells ==
  LET star == watchPage.star
  IN  star.answered /\ items.writer[Starred] = star.by
      => StarOn(watchPage) = (Starred \in items.listed)

=============================================================================
