----------------------------- MODULE OrderBlotter -----------------------------
(***************************************************************************)
(* Lists with a button per row: the orders page, and the portfolio's orders *)
(* and options (apps/web/app/(product)/(authed)/orders, components/         *)
(* portfolio-orders.tsx, portfolio-options.tsx).  A row is ended by a       *)
(* server action, while settlement, expiry or another tab may end it first. *)
(*                                                                          *)
(* A page reaches the screen in two steps: the server reads its rows, and   *)
(* the router shows it later.  A page under way, of an action or of a       *)
(* navigation, may therefore show a row as it was before another answer.    *)
(***************************************************************************)
EXTENDS Integers

CONSTANTS
  OrderRows,    \* pending orders
  OptionRows,   \* open option positions
  Filters,      \* the statuses the orders page is filtered by
  MaxClicks     \* bound: clicks on a row's button

ASSUME BlotterAssumption ==
  /\ OrderRows \cap OptionRows = {}
  /\ "pending" \in Filters /\ Filters \subseteq {"pending", "filled", "cancelled", "all"}
  /\ MaxClicks \in Nat

VARIABLES
  blotter,   \* the list on the screen: which, its filter, the rows as they were read, the
             \* rows it missed (their actions came back after that), an error
  heading,   \* the navigation under way, and its page once the server has read it
  ending,    \* the server actions under way, each with its page once that is read
  ledgerRow, \* the rows at the API
  ended      \* rows whose action has returned to the list, the number of clicks, and
             \* whether the user has navigated

blotterVars == <<blotter, heading, ending, ledgerRow, ended>>

Rows == OrderRows \cup OptionRows
Lists == {"orders", "portfolio"}

AllPending == [row \in Rows |-> "pending"]

Settled == [stage |-> "none", to |-> "pending", read |-> FALSE, rows |-> AllPending, missed |-> {}]

BlotterOn(list) ==
  /\ ledgerRow = AllPending
  /\ blotter = [list |-> list, filter |-> "pending", shown |-> ledgerRow, missed |-> {}, error |-> FALSE]
  /\ heading = Settled
  /\ ending = {}
  /\ ended = [rows |-> {}, clicks |-> 0, navigated |-> FALSE]

BlotterInit == \E list \in Lists : BlotterOn(list)

\* What the lists hold: the orders page filters by status, the portfolio shows what is open.
InOrders(row) ==
  row \in OrderRows /\ (blotter.filter = "all" \/ blotter.shown[row] = blotter.filter)

InPortfolio(row) == blotter.shown[row] = "pending"

\* The orders page disables the button of a row while its action runs; the portfolio does not.
OfferedInOrders(row) ==
  /\ blotter.list = "orders"
  /\ InOrders(row) /\ blotter.shown[row] = "pending"
  /\ \A a \in ending : a.row # row

OfferedInPortfolio(row) == blotter.list = "portfolio" /\ InPortfolio(row)

Started(id, row) ==
  [id |-> id, row |-> row, status |-> "sent", outrun |-> FALSE,
   read |-> FALSE, rows |-> AllPending, missed |-> {}]

ClickRow(row) ==
  /\ ~ blotter.error
  /\ OfferedInOrders(row) \/ OfferedInPortfolio(row)
  /\ ended.clicks < MaxClicks
  /\ ended' = [ended EXCEPT !.clicks = @ + 1]
  /\ ending' = ending \cup {Started(ended.clicks + 1, row)}
  /\ UNCHANGED <<blotter, heading, ledgerRow>>

-----------------------------------------------------------------------------
\* The router sends actions one at a time, a navigation lets the next one go.
Sent(a) == a.status = "sent" /\ \A b \in ending : b.id < a.id => b.outrun

Reply(a, status) == ending' = (ending \ {a}) \cup {[a EXCEPT !.status = status]}

\* DELETE /v1/orders/{id}: an order that is pending no more is a 400.
ApiCancels(a) ==
  /\ Sent(a) /\ a.row \in OrderRows
  /\ IF ledgerRow[a.row] = "pending"
     THEN Reply(a, "204") /\ ledgerRow' = [ledgerRow EXCEPT ![a.row] = "cancelled"]
     ELSE Reply(a, "400") /\ UNCHANGED ledgerRow
  /\ UNCHANGED <<blotter, heading, ended>>

\* POST /v1/options with action close: a position that was closed or settled is kept and is
\* a 400, and so is one past its expiry; without market data it is a 422.
ApiCloses(a) ==
  /\ Sent(a) /\ a.row \in OptionRows
  /\ \/ /\ ledgerRow[a.row] = "pending"
        /\ Reply(a, "200") /\ ledgerRow' = [ledgerRow EXCEPT ![a.row] = "closed"]
     \/ /\ ledgerRow[a.row] = "pending"
        /\ \E status \in {"400", "422"} : Reply(a, status)
        /\ UNCHANGED ledgerRow
     \/ /\ ledgerRow[a.row] # "pending"
        /\ Reply(a, "400") /\ UNCHANGED ledgerRow
  /\ UNCHANGED <<blotter, heading, ended>>

\* Settlement fills or cancels an order, expiry settles an option, or another tab is faster.
\* What the list never holds does not matter to it.
EndsElsewhere(row) ==
  /\ row \in OrderRows \/ blotter.list = "portfolio"
  /\ ledgerRow[row] = "pending"
  /\ \E status \in (IF row \in OrderRows THEN {"filled", "cancelled"} ELSE {"closed"}) :
       ledgerRow' = [ledgerRow EXCEPT ![row] = status]
  /\ UNCHANGED <<blotter, heading, ending, ended>>

-----------------------------------------------------------------------------
\* Which answers an action takes for done.  An order that is gone is a 404 or a 400; of an
\* option only a 404 is, while the API answers 400 for a row that was closed or settled.
Done(a) ==
  a.status \in (IF a.row \in OrderRows THEN {"204", "400", "404"} ELSE {"200", "404"})

\* The paths are revalidated: the server renders the page again, from the rows as they are.
Revalidate(a) ==
  /\ Done(a) /\ ~ a.read
  /\ ending' = (ending \ {a}) \cup {[a EXCEPT !.read = TRUE, !.rows = ledgerRow]}
  /\ UNCHANGED <<blotter, heading, ledgerRow, ended>>

\* A page under way that was read before the action on row came back has missed it.
MissedBy(page, row) == [page EXCEPT !.missed = IF page.read THEN @ \cup {row} ELSE @]

\* Mutation: an order that had already ended is left as it is on the screen.
OnlyWhenCancelled(a, rows) == IF a.status = "400" THEN blotter.shown ELSE rows
AfterRevalidation(a, rows) == rows

\* The action comes back with its page.  The router shows it, or drops it when the user has
\* navigated since the click.
Return(a) ==
  /\ Done(a) /\ a.read
  /\ \/ blotter' = [blotter EXCEPT !.shown = AfterRevalidation(a, a.rows), !.missed = a.missed]
     \/ a.outrun /\ blotter' = [blotter EXCEPT !.missed = @ \cup {a.row}]
  /\ heading' = MissedBy(heading, a.row)
  /\ ending' = {MissedBy(b, a.row) : b \in ending \ {a}}
  /\ ended' = [ended EXCEPT !.rows = @ \cup {a.row}]
  /\ UNCHANGED ledgerRow

\* An error the action rethrows reaches the error boundary.
Throw(a) ==
  /\ blotter' = [blotter EXCEPT !.error = TRUE]
  /\ ending' = ending \ {a}
  /\ UNCHANGED <<heading, ledgerRow, ended>>

Refused(a) == a.status # "sent" /\ ~ Done(a) /\ Throw(a)

\* Nobody is signed in: nothing is sent and nothing revalidated.
SignedOut(a) ==
  /\ Sent(a)
  /\ ending' = ending \ {a}
  /\ UNCHANGED <<blotter, heading, ledgerRow, ended>>

\* The connection breaks, before or after the row has ended.
ReplyLost(a) == (Sent(a) \/ a.status # "sent") /\ Throw(a)

-----------------------------------------------------------------------------
\* A status of the orders page and a tab of the portfolio are navigations.  A newer one takes
\* the place of one under way, and goes before the page of an action under way.
Choose(filter) ==
  /\ ~ blotter.error
  /\ blotter.list = "portfolio" => filter = blotter.filter
  /\ heading' = [Settled EXCEPT !.stage = "asked", !.to = filter]
  /\ ending' = {[a EXCEPT !.outrun = TRUE] : a \in ending}
  /\ ended' = [ended EXCEPT !.navigated = TRUE]
  /\ UNCHANGED <<blotter, ledgerRow>>

\* The server reads the rows of the page.
ReadRows ==
  /\ heading.stage = "asked" /\ ~ heading.read
  /\ heading' = [heading EXCEPT !.read = TRUE, !.rows = ledgerRow]
  /\ UNCHANGED <<blotter, ending, ledgerRow, ended>>

\* The router shows the page.
ShowPage ==
  /\ heading.read
  /\ blotter' = [blotter EXCEPT !.filter = heading.to, !.shown = heading.rows, !.missed = heading.missed]
  /\ heading' = Settled
  /\ UNCHANGED <<ending, ledgerRow, ended>>

\* Try again renders the segment again from what the browser has.
Reset ==
  /\ blotter.error
  /\ blotter' = [blotter EXCEPT !.error = FALSE]
  /\ UNCHANGED <<heading, ending, ledgerRow, ended>>

BlotterNext ==
  \/ \E row \in Rows : ClickRow(row) \/ EndsElsewhere(row)
  \/ \E a \in ending : \/ ApiCancels(a) \/ ApiCloses(a)
                       \/ Revalidate(a) \/ Return(a) \/ Refused(a)
                       \/ SignedOut(a) \/ ReplyLost(a)
  \/ \E filter \in Filters : Choose(filter)
  \/ ReadRows \/ ShowPage
  \/ Reset

BlotterSpec == BlotterInit /\ [][BlotterNext]_blotterVars

-----------------------------------------------------------------------------
\* A row whose action has come back is offered no more, also when it had ended before the
\* action got there (orders/actions.ts:8-30), except by a page that was read before it came
\* back.  Such a page takes a navigation beside the action: without one, none is shown.
EndedRowsAreNotOffered ==
  /\ \A row \in ended.rows \ blotter.missed : ~ OfferedInOrders(row) /\ ~ OfferedInPortfolio(row)
  /\ blotter.missed # {} => ended.navigated

=============================================================================
