---------------------------- MODULE TickerSearch ----------------------------
(***************************************************************************)
(* The global ticker search (apps/web/components/global-ticker-search.tsx): *)
(* a palette whose query is debounced, sent to the server, and answered     *)
(* late, out of order or not at all, while the user types, moves the        *)
(* highlight and picks.                                                     *)
(*                                                                          *)
(* An event handler and the effects of the render it causes are one step;   *)
(* a timeout and the answer to a request are steps of their own.            *)
(***************************************************************************)
EXTENDS Integers, Sequences

CONSTANTS
  Texts,         \* what the input may hold
  Empty,         \* the empty text
  Trimmed,       \* Trimmed[t]: t without surrounding blanks
  Matches,       \* Matches[q]: the server's answer to a search for q
  Tickers,       \* symbols
  Popular,       \* the symbols offered before anything is typed
  Nowhere,       \* no stock page
  MaxSearches    \* bound: the text changes at most so often

ASSUME SearchAssumption ==
  /\ Empty \in Texts
  /\ Trimmed \in [Texts -> Texts]
  /\ Trimmed[Empty] = Empty
  /\ DOMAIN Matches = Texts \ {Empty}
  /\ \A q \in DOMAIN Matches : Matches[q] \in Seq(Tickers) /\ Len(Matches[q]) <= 8
  /\ Popular \in Seq(Tickers) /\ Popular # <<>>
  /\ MaxSearches \in Nat

VARIABLES
  palette,       \* open, mounted, query, status, results, active, request
  timeout,       \* the debounce: the search that is due, or NoSearch
  searching,     \* the requests in flight
  visited        \* the stock page last navigated to

searchVars == <<palette, timeout, searching, visited>>

NoSearch == [id |-> 0, query |-> Empty]

HasQuery == Trimmed[palette.query] # Empty

\* The options the arrow keys move over.
Navigable == IF HasQuery THEN palette.results ELSE Popular

\* The options on the screen: none while the search runs or after it failed.
Listed ==
  IF palette.status = "ready" THEN palette.results
  ELSE IF ~ HasQuery /\ palette.status = "idle" THEN Popular
  ELSE <<>>

SearchInit ==
  /\ palette = [open |-> FALSE, mounted |-> FALSE, query |-> Empty, status |-> "idle",
                results |-> <<>>, active |-> -1, request |-> 0]
  /\ timeout = NoSearch
  /\ searching = {}
  /\ visited = Nowhere

-----------------------------------------------------------------------------
\* The trigger, Ctrl-K, or / outside a field.
OpenPalette ==
  /\ palette' = [palette EXCEPT !.open = TRUE, !.mounted = TRUE]
  /\ UNCHANGED <<timeout, searching, visited>>

\* Escape, or a click outside.  Query and results stay for the next time.
ClosePalette ==
  /\ palette.open
  /\ palette' = [palette EXCEPT !.open = FALSE, !.active = -1]
  /\ UNCHANGED <<timeout, searching, visited>>

\* The closing animation ends; until then the list can still be clicked.
Unmount ==
  /\ palette.mounted /\ ~ palette.open
  /\ palette' = [palette EXCEPT !.mounted = FALSE]
  /\ UNCHANGED <<timeout, searching, visited>>

\* Mutation: a blank query leaves the request before it current.
NextRequestWhenTyped(text) ==
  IF Trimmed[text] = Empty THEN palette.request ELSE palette.request + 1

\* Every change of the query outdates the requests before it.
NextRequest(text) == palette.request + 1

\* The effect of a changed query: the pending timeout is dropped, a new one is set.
Search(text, id) ==
  timeout' = IF Trimmed[text] = Empty THEN NoSearch ELSE [id |-> id, query |-> Trimmed[text]]

Type(text) ==
  LET id == NextRequest(text)
      cleared == IF Trimmed[text] = Empty
                 THEN [palette EXCEPT !.results = <<>>, !.status = "idle"] ELSE palette
  IN  /\ palette.open
      /\ text # palette.query
      /\ palette.request < MaxSearches
      /\ palette' = [cleared EXCEPT !.query = text, !.request = id, !.active = -1]
      /\ Search(text, id)
      /\ UNCHANGED <<searching, visited>>

SendSearch ==
  /\ timeout # NoSearch
  /\ searching' = searching \cup {timeout}
  /\ timeout' = NoSearch
  /\ palette' = [palette EXCEPT !.status = "loading"]
  /\ UNCHANGED visited

IsCurrent(r) == r.id = palette.request

SearchAnswered(r) ==
  /\ r \in searching
  /\ searching' = searching \ {r}
  /\ palette' = IF IsCurrent(r)
                THEN [palette EXCEPT !.results = Matches[r.query], !.status = "ready"]
                ELSE palette
  /\ UNCHANGED <<timeout, visited>>

SearchFailed(r) ==
  /\ r \in searching
  /\ searching' = searching \ {r}
  /\ palette' = IF IsCurrent(r)
                THEN [palette EXCEPT !.results = <<>>, !.status = "error"]
                ELSE palette
  /\ UNCHANGED <<timeout, visited>>

-----------------------------------------------------------------------------
\* selectResult: the palette closes, and clearing the query outdates its requests.
Picked ==
  [open |-> FALSE, mounted |-> TRUE, query |-> Empty, status |-> "idle", results |-> <<>>,
   active |-> -1, request |-> IF palette.query = Empty THEN palette.request ELSE NextRequest(Empty)]

Select(ticker) ==
  /\ palette' = Picked
  /\ timeout' = NoSearch
  /\ visited' = ticker
  /\ UNCHANGED searching

\* A click on an option, also while the palette closes.
Click(i) ==
  /\ palette.mounted
  /\ i \in DOMAIN Listed
  /\ Select(Listed[i])

Hover(i) ==
  /\ palette.mounted
  /\ i \in DOMAIN Listed
  /\ palette' = [palette EXCEPT !.active = i - 1]
  /\ UNCHANGED <<timeout, searching, visited>>

ArrowDown ==
  /\ palette.open /\ Navigable # <<>>
  /\ palette' = [palette EXCEPT !.active = (@ + 1) % Len(Navigable)]
  /\ UNCHANGED <<timeout, searching, visited>>

ArrowUp ==
  /\ palette.open /\ Navigable # <<>>
  /\ palette' = [palette EXCEPT !.active = IF @ <= 0 THEN Len(Navigable) - 1 ELSE @ - 1]
  /\ UNCHANGED <<timeout, searching, visited>>

\* A highlight that an answer has left beyond the end of the list selects undefined: the
\* handler fails after it has cleared the palette, and navigates nowhere.
Enter ==
  LET chosen == palette.active + 1
  IN  /\ palette.open /\ Navigable # <<>>
      /\ palette.active >= 0
      /\ Select(IF chosen \in DOMAIN Navigable THEN Navigable[chosen] ELSE visited)

SearchNext ==
  \/ OpenPalette \/ ClosePalette \/ Unmount
  \/ \E text \in Texts : Type(text)
  \/ SendSearch
  \/ \E r \in searching : SearchAnswered(r) \/ SearchFailed(r)
  \/ \E i \in 1..8 : Click(i) \/ Hover(i)
  \/ ArrowDown \/ ArrowUp \/ Enter

SearchSpec == SearchInit /\ [][SearchNext]_searchVars

-----------------------------------------------------------------------------
\* Once the debounce is over, the list on the screen answers what is typed, whatever order
\* the answers of earlier searches arrive in; with nothing typed no answer shows
\* (global-ticker-search.tsx:138-167, test "keeps the newest results ...").
ListAnswersQuery ==
  /\ palette.status = "ready" /\ timeout = NoSearch =>
       HasQuery /\ palette.results = Matches[Trimmed[palette.query]]
  /\ ~ HasQuery => palette.status = "idle" /\ palette.results = <<>>

=============================================================================
