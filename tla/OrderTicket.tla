----------------------------- MODULE OrderTicket -----------------------------
(***************************************************************************)
(* Placing paper orders: the ticket of the trade page                       *)
(* (apps/web/components/order-ticket.tsx), the ticket of a stock's page in  *)
(* its mobile sheet (contextual-trade-ticket.tsx, mobile-trade-sheet.tsx),  *)
(* and the server actions that post to the API (trade/actions.ts,           *)
(* lib/api/server.ts), whose answer may be lost after the API has booked.   *)
(*                                                                          *)
(* The symbol of the trade page lives twice: in the ticket and in the URL.  *)
(***************************************************************************)
EXTENDS Integers, Sequences

CONSTANTS
  Options,        \* the tracked symbols in alphabetical order
  NoUrl,          \* the trade page's address without a ticker
  Cash,           \* the account's available cash as rendered
  Shares,         \* the available shares of the sheet's symbol, in 1/Scale
  Close,          \* the symbol's stored close
  Prices,         \* trigger prices that may be typed
  Scale,          \* quantities are multiples of 1/Scale
  MaxSubmissions, \* bound: submissions
  MaxMounts       \* bound: times a ticket is mounted

ASSUME TicketAssumption ==
  /\ Options # <<>>
  /\ "staying" \notin {Options[i] : i \in DOMAIN Options} \cup {NoUrl}
  /\ {Cash, Shares} \subseteq Nat
  /\ {Close, Scale} \cup Prices \subseteq Nat \ {0}

VARIABLES
  ticket,    \* the form: symbol, side, mode, quantity and price, which mount, alive
  trade,     \* the page around it: kind, url, symbol, account known, a pick overtaken
  going,     \* the URL a pending navigation leads to, or Nowhere
  requests,  \* the server actions under way
  book,      \* for each submission so far, how often the API has booked it
  owned      \* the symbols held at the API

ticketVars == <<ticket, trade, going, requests, book, owned>>

Listed_ == {Options[i] : i \in DOMAIN Options}
Modes == {"market", "limit", "stop_loss", "take_profit"}
Protective == {"stop_loss", "take_profit"}
Staying == "staying"
NoQuantity == 0

\* Held symbols come first; the first option serves an address without a known ticker.
Foremost(held) ==
  LET first == {i \in DOMAIN Options : Options[i] \in held}
      among == IF first = {} THEN DOMAIN Options ELSE first
  IN  Options[CHOOSE i \in among : \A j \in among : i <= j]

Active(url, held) == IF url \in Listed_ THEN url ELSE Foremost(held)

Fresh(symbol, side, mount) ==
  [ticker |-> symbol, side |-> side, mode |-> "market", quantity |-> Scale, price |-> NoQuantity,
   mount |-> mount, alive |-> TRUE]

OpenedOn(kind, account, held) ==
  /\ trade = [kind |-> kind, url |-> NoUrl, ticker |-> Foremost(held), account |-> account,
              overtaken |-> FALSE]
  /\ ticket = Fresh(Foremost(held), "buy", 1)
  /\ going = Staying
  /\ requests = {}
  /\ book = <<>>
  /\ owned = held

TicketInit ==
  \E held \in SUBSET Listed_ : \/ OpenedOn("page", TRUE, held)
                                \/ \E account \in BOOLEAN : OpenedOn("sheet", account, held)

-----------------------------------------------------------------------------
\* The fields of the form.
EffectiveSide == IF ticket.mode \in Protective THEN "sell" ELSE ticket.side

ChooseSide(side) ==
  /\ ticket.alive /\ ticket.mode \notin Protective
  /\ ticket' = [ticket EXCEPT !.side = side]
  /\ UNCHANGED <<trade, going, requests, book, owned>>

InMode(mode) ==
  /\ ticket' = [ticket EXCEPT !.mode = mode,
                              !.side = IF mode \in Protective THEN "sell" ELSE @]
  /\ UNCHANGED <<trade, going, requests, book, owned>>

ChooseMode(mode) ==
  /\ ticket.alive
  /\ trade.kind = "sheet" => mode \notin Protective
  /\ InMode(mode)

\* The sheet offers the protective modes only where there are shares to protect.
Protect(mode) ==
  /\ trade.kind = "sheet" /\ ticket.alive
  /\ trade.account /\ Shares > 0
  /\ InMode(mode)

TypePrice(price) ==
  /\ ticket.alive /\ ticket.mode # "market"
  /\ ticket' = [ticket EXCEPT !.price = price]
  /\ UNCHANGED <<trade, going, requests, book, owned>>

EffectivePrice == IF ticket.mode = "market" THEN Close ELSE ticket.price

Floored(n, d) == n \div d

\* A quarter, a half, three quarters or all of the buying power or of the shares.
Shortcut(quarters) ==
  IF EffectiveSide = "sell" THEN Floored(Shares * quarters, 4)
  ELSE IF EffectivePrice = 0 THEN NoQuantity
  ELSE Floored(Cash * quarters * Scale, 4 * EffectivePrice)

UseShortcut(quarters) ==
  /\ ticket.alive /\ trade.kind = "sheet" /\ trade.account
  /\ Shortcut(quarters) # NoQuantity
  /\ ticket' = [ticket EXCEPT !.quantity = Shortcut(quarters)]
  /\ UNCHANGED <<trade, going, requests, book, owned>>

-----------------------------------------------------------------------------
\* The trade page's symbol.  A pick shows at once in the ticket and later in the URL; a link
\* of the page, or Back, replaces a navigation that is still pending.
PickTicker(symbol) ==
  /\ trade.kind = "page" /\ ticket.alive
  /\ ticket' = [ticket EXCEPT !.ticker = symbol]
  /\ going' = symbol
  /\ UNCHANGED <<trade, requests, book, owned>>

FollowLink(url) ==
  /\ trade.kind = "page"
  /\ going' = url
  /\ trade' = [trade EXCEPT !.overtaken = @ \/ going # Staying]
  /\ UNCHANGED <<ticket, requests, book, owned>>

\* Mutation: the effect compares with the ticket's first symbol only.
NeverSynced(was, symbol) == ticket

\* The effect on a changed starting symbol.
Synced(was, symbol) == IF symbol # was THEN [ticket EXCEPT !.ticker = symbol] ELSE ticket

\* The page is rendered on the server from the URL and the portfolio of that moment.
Render(url) ==
  LET symbol == Active(url, owned)
  IN  /\ ticket' = Synced(trade.ticker, symbol)
      /\ trade' = [trade EXCEPT !.url = url, !.ticker = symbol,
                                !.overtaken = @ /\ ticket'.ticker # symbol]

Arrive ==
  /\ going # Staying
  /\ Render(going)
  /\ going' = Staying
  /\ UNCHANGED <<requests, book, owned>>

-----------------------------------------------------------------------------
\* The mobile sheet keys its ticket by side and open state: each opening is a new ticket.
OpenSheet(side) ==
  /\ trade.kind = "sheet" /\ ticket.mount < MaxMounts
  /\ ticket' = Fresh(trade.ticker, side, ticket.mount + 1)
  /\ UNCHANGED <<trade, going, requests, book, owned>>

\* Try again, on the error boundary.
TryAgain ==
  /\ ~ ticket.alive /\ ticket.mount < MaxMounts
  /\ ticket' = Fresh(trade.ticker, "buy", ticket.mount + 1)
  /\ UNCHANGED <<trade, going, requests, book, owned>>

HookOf(mode) == IF mode = "market" THEN "market" ELSE "order"

Running(hook) == \E r \in requests : r.mount = ticket.mount /\ r.hook = hook

PendingOnPage == Running("market") \/ Running("order")

PendingOnSheet == Running(HookOf(ticket.mode))

\* A form posts to the hook of its mode; the browser requires a typed price.
Send ==
  /\ ticket.alive
  /\ ticket.mode = "market" \/ ticket.price # NoQuantity
  /\ Len(book) < MaxSubmissions
  /\ book' = Append(book, 0)
  /\ requests' = requests \cup
       {[id |-> Len(book'), hook |-> HookOf(ticket.mode), ticker |-> ticket.ticker,
         side |-> EffectiveSide, mount |-> ticket.mount, stage |-> "parsed", attempt |-> 1]}
  /\ UNCHANGED <<ticket, trade, going, owned>>

SubmitOnPage ==
  /\ trade.kind = "page"
  /\ ~ PendingOnPage
  /\ Send

\* Without the account's balances the sheet takes no order.
SubmitOnSheet ==
  /\ trade.kind = "sheet" /\ trade.account
  /\ ~ PendingOnSheet
  /\ Send

\* Mutation: authenticated posts are sent three times, as the client's reads are.
AttemptsOfReads == 3

Attempts == 1

\* The action ends with an answer, which a ticket that is still mounted announces.
Settle(r) == requests' = requests \ {r}

Step(r, stage, attempt) ==
  requests' = (requests \ {r}) \cup {[r EXCEPT !.stage = stage, !.attempt = attempt]}

\* The fields do not parse, or nobody is signed in.
Rejected(r) ==
  /\ r.stage = "parsed"
  /\ Settle(r)
  /\ UNCHANGED <<ticket, trade, going, book, owned>>

Post(r) ==
  /\ r.stage = "parsed"
  /\ Step(r, "posted", 1)
  /\ UNCHANGED <<ticket, trade, going, book, owned>>

\* The API commits the trade or the order; a market fill changes what is held.
ApiBooks(r) ==
  /\ r.stage = "posted"
  /\ r.side = "sell" => r.ticker \in owned
  /\ Step(r, "booked", r.attempt)
  /\ book' = [book EXCEPT ![r.id] = @ + 1]
  /\ IF r.hook = "order" THEN UNCHANGED owned
     ELSE IF r.side = "buy" THEN owned' = owned \cup {r.ticker}
     ELSE owned' \in {owned, owned \ {r.ticker}}
  /\ UNCHANGED <<ticket, trade, going>>

\* The API refuses, or a proxy in front of it answers for it, booked or not.
ApiErrors(r) ==
  /\ r.stage \in {"posted", "booked"}
  /\ Settle(r)
  /\ UNCHANGED <<ticket, trade, going, book, owned>>

\* The connection breaks, before or after the booking: the action throws, and the error
\* boundary takes the place of the ticket that waits for it.
ConnectionLost(r) ==
  /\ r.stage \in {"posted", "booked"}
  /\ IF r.attempt < Attempts
     THEN Step(r, "posted", r.attempt + 1) /\ UNCHANGED ticket
     ELSE /\ requests' = requests \ {r}
          /\ ticket' = [ticket EXCEPT !.alive = @ /\ r.mount # ticket.mount]
  /\ UNCHANGED <<trade, going, book, owned>>

\* Success revalidates the paths: the page is rendered again around the unkeyed ticket.
Answered(r) ==
  /\ r.stage = "booked"
  /\ Settle(r)
  /\ IF trade.kind = "page" /\ ticket.alive
     THEN Render(trade.url)
     ELSE UNCHANGED <<ticket, trade>>
  /\ UNCHANGED <<going, book, owned>>

TicketNext ==
  \/ \E side \in {"buy", "sell"} : ChooseSide(side) \/ OpenSheet(side)
  \/ \E mode \in Modes : ChooseMode(mode)
  \/ \E mode \in Protective : Protect(mode)
  \/ \E price \in Prices : TypePrice(price)
  \/ \E quarters \in 1..4 : UseShortcut(quarters)
  \/ \E symbol \in Listed_ : PickTicker(symbol)
  \/ \E url \in Listed_ \cup {NoUrl} : FollowLink(url)
  \/ Arrive
  \/ TryAgain
  \/ SubmitOnPage \/ SubmitOnSheet
  \/ \E r \in requests : \/ Rejected(r) \/ Post(r)
                         \/ ApiBooks(r) \/ ApiErrors(r) \/ ConnectionLost(r)
                         \/ Answered(r)

TicketSpec == TicketInit /\ [][TicketNext]_ticketVars

-----------------------------------------------------------------------------
\* Nothing is booked twice for one submission, whatever answer was lost: a write is never
\* repeated (lib/api/client.ts:108, "replaying it could duplicate a trade").
BookedOnce == \A id \in DOMAIN book : book[id] <= 1

\* The trade page has one order under way at a time, whichever mode is chosen meanwhile
\* (order-ticket.tsx:105).  What it announces then is not stated here: answers are not kept.
OneSubmissionAtATime ==
  trade.kind = "page" =>
    \A r, s \in requests : r.mount = ticket.mount /\ s.mount = ticket.mount => r = s

\* No submission is lost track of: each is booked at most once, and the page waits for one.
SubmissionsAreSafe == BookedOnce /\ OneSubmissionAtATime

\* With no navigation pending the ticket is for the symbol whose quote, position and orders
\* the page shows, unless another link overtook the navigation of a pick: then the starting
\* symbol has not changed and the effect leaves the pick in the ticket
\* (order-ticket.tsx:87-92).
TicketFollowsUrl ==
  trade.kind = "page" /\ ticket.alive /\ going = Staying =>
    ticket.ticker = trade.ticker \/ trade.overtaken

=============================================================================
