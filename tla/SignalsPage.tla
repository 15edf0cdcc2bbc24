----------------------------- MODULE SignalsPage -----------------------------
(***************************************************************************)
(* The signals workspace (apps/web/app/(product)/recommendations/page.tsx,  *)
(* components/signals-table.tsx, lib/signals-workspace.ts): a list rendered  *)
(* by the server for an address, and a detail beside it whose selection is   *)
(* written to the browser's history and read back from it.                  *)
(*                                                                          *)
(* A handler or an effect and the effects of the render it causes are one    *)
(* step; the router's render of a new address, the end of the closing       *)
(* transition, and the server's answer are steps of their own.              *)
(***************************************************************************)
EXTENDS Integers, Sequences, SequencesExt

CONSTANTS
  Recommended,     \* Recommended[t]: score, votes passed, rationale, order keys of symbol t
  VoteIds,         \* the checks of the rule set
  Thresholds,      \* minimum scores the page links to
  Unknown,         \* a symbol the server does not list, as a shared address may hold
  Unselected,      \* the address selects nothing
  MaxHistory       \* bound: length of the browser's history

ASSUME SignalsAssumption ==
  /\ \A t \in DOMAIN Recommended :
       /\ Recommended[t].score \in 0..7
       /\ Recommended[t].votes \subseteq VoteIds /\ Recommended[t].rationale \subseteq VoteIds
       /\ Recommended[t].rank \in Int
  /\ Thresholds \subseteq 0..7
  /\ {Unknown, Unselected} \cap DOMAIN Recommended = {}
  /\ MaxHistory \in Nat \ {0}

VARIABLES
  trail,       \* the browser's history: addresses, and the one it is at
  signals,     \* what the server rendered: parameters, and the symbols in order
  detail,      \* the client's state: selection, detail, transition, timer, expectation
  following    \* the address of a navigation the server has not answered, or <<>>

signalVars == <<trail, signals, detail, following>>

SignalTickers == DOMAIN Recommended
SortKeys == {"score", "ticker"}

-----------------------------------------------------------------------------
\* A score is read as a class, and missing checks are failures.
ClassifySignal(t) == IF Recommended[t].score >= 4 THEN "bullish" ELSE "neutral"

CompleteVotes(t) ==
  LET passed == IF Recommended[t].votes # {} THEN Recommended[t].votes
                ELSE Recommended[t].rationale
  IN  [id \in VoteIds |-> id \in passed]

\* What a row of the list says of a symbol.
RowShown(t) ==
  [signal |-> ClassifySignal(t), score |-> Recommended[t].score,
   supporting |-> {id \in VoteIds : CompleteVotes(t)[id]}]

\* The address read back: what it does not say, or says wrongly, is the default.
ParseSignals(address) ==
  LET sort == IF address.sort \in SortKeys THEN address.sort ELSE "score"
  IN  [min |-> address.min,
       signal |-> IF address.signal = "" THEN "all" ELSE address.signal,
       sort |-> sort,
       dir |-> IF address.dir # "" THEN address.dir
               ELSE IF sort = "ticker" THEN "asc" ELSE "desc"]

\* buildSignalsHref leaves out the defaults.
BuildHref(p, selected) ==
  [min |-> p.min,
   signal |-> IF p.signal = "all" THEN "" ELSE p.signal,
   sort |-> IF p.sort = "score" THEN "" ELSE p.sort,
   dir |-> IF p.sort = "score" /\ p.dir = "desc" THEN "" ELSE p.dir,
   selected |-> selected]

FilterSignals(p) ==
  {t \in SignalTickers : /\ Recommended[t].score >= p.min
                         /\ p.signal = "all" \/ ClassifySignal(t) = p.signal}

\* Equal scores are in the order of their symbols, whatever the direction.
Precedes(p, t, u) ==
  LET rank(x) == Recommended[x].rank
      score(x) == Recommended[x].score
  IN  IF p.sort = "ticker"
      THEN IF p.dir = "asc" THEN rank(t) < rank(u) ELSE rank(u) < rank(t)
      ELSE IF score(t) = score(u) THEN rank(t) < rank(u)
      ELSE IF p.dir = "asc" THEN score(t) < score(u) ELSE score(u) < score(t)

SortSignals(p) == SetToSortSeq(FilterSignals(p), LAMBDA t, u : Precedes(p, t, u))

\* The page of an address; what it selects is kept for its links when it is listed.
RenderSignals(address) ==
  LET p == ParseSignals(address)
  IN  [params |-> p, rows |-> SortSignals(p),
       facts |-> [t \in FilterSignals(p) |-> RowShown(t)],
       selected |-> IF address.selected \in FilterSignals(p) THEN address.selected
                    ELSE Unselected]

Known(page) == DOMAIN page.facts
Here == trail.entries[trail.at]

-----------------------------------------------------------------------------
OpenDetail(d, ticker) ==
  [d EXCEPT !.closing = FALSE, !.timer = FALSE, !.shown = ticker, !.selected = ticker]

CloseDetail(d) ==
  IF d.selected = Unselected THEN [d EXCEPT !.shown = Unselected, !.closing = FALSE]
  ELSE IF d.shown = Unselected THEN [d EXCEPT !.closing = TRUE, !.selected = Unselected]
  ELSE [d EXCEPT !.closing = TRUE, !.timer = TRUE]

\* Mutation: an address that selects nothing listed leaves the detail as it is.
SyncKnown(d, page) ==
  IF d.expected \notin {<<>>, <<d.rendered>>} THEN d
  ELSE LET free == [d EXCEPT !.expected = <<>>]
       IN  IF d.rendered \in Known(page) THEN OpenDetail(free, d.rendered) ELSE free

\* What the effects do with the selection of the address as it was last rendered: a render
\* from before an explicit change is ignored; a symbol not listed closes the detail.
SyncOnce(d, page) ==
  IF d.expected \notin {<<>>, <<d.rendered>>} THEN d
  ELSE LET free == [d EXCEPT !.expected = <<>>]
       IN  IF d.rendered \in Known(page) THEN OpenDetail(free, d.rendered) ELSE CloseDetail(free)

\* A change of the selection runs the effect again.
Synced_(d, page) == SyncOnce(SyncOnce(d, page), page)

\* The table is mounted anew when there was none: no rows, or a new document.
Mounted(page, address) ==
  [selected |-> page.selected, shown |-> page.selected, closing |-> FALSE, timer |-> FALSE,
   expected |-> <<>>, rendered |-> address.selected]

LandedOn(address) ==
  /\ trail = [entries |-> <<address>>, at |-> 1]
  /\ signals = RenderSignals(address)
  /\ detail = Mounted(signals, address)
  /\ following = <<>>

SharedAddress(selected) ==
  [min |-> 0, signal |-> "", sort |-> "", dir |-> "", selected |-> selected]

SignalsInit ==
  \E selected \in SignalTickers \cup {Unknown, Unselected} : LandedOn(SharedAddress(selected))

-----------------------------------------------------------------------------
Listed__ == Known(signals) # {}

\* pushState adds an entry, replaceState changes the one it is at; both drop a navigation
\* that is under way.
PushSelection(address) ==
  trail' = [entries |-> Append(SubSeq(trail.entries, 1, trail.at), address), at |-> trail.at + 1]

\* The rows to press, and the checks of the detail beside them.
Rows_ == {t \in Known(signals) : t # detail.selected}
DetailShown == IF detail.shown \in Known(signals) THEN CompleteVotes(detail.shown) ELSE <<>>

SelectRow(ticker) ==
  /\ ticker \in Rows_
  /\ trail.at < MaxHistory
  /\ PushSelection([Here EXCEPT !.selected = ticker])
  /\ detail' = Synced_(OpenDetail([detail EXCEPT !.expected = <<ticker>>], ticker), signals)
  /\ following' = <<>>
  /\ UNCHANGED signals

\* Escape while a row is selected, or Back to signals in the detail.
CloseSelected ==
  /\ Listed__
  /\ detail.selected \in Known(signals) \/ DetailShown # <<>>
  /\ trail' = [trail EXCEPT !.entries[trail.at].selected = Unselected]
  /\ detail' = CloseDetail([detail EXCEPT !.expected = <<Unselected>>])
  /\ following' = <<>>
  /\ UNCHANGED signals

\* The router renders the address the browser is at; an address in between may be skipped.
AddressRendered ==
  /\ Listed__ /\ detail.rendered # Here.selected
  /\ detail' = Synced_([detail EXCEPT !.rendered = Here.selected], signals)
  /\ UNCHANGED <<trail, signals, following>>

\* The closing transition is over.
TransitionEnds ==
  /\ Listed__ /\ detail.timer
  /\ detail' = Synced_([detail EXCEPT !.timer = FALSE, !.closing = FALSE,
                                      !.shown = Unselected, !.selected = Unselected], signals)
  /\ UNCHANGED <<trail, signals, following>>

\* The rows of another address; the table stays mounted while there are rows.
Show(page, address) ==
  /\ signals' = page
  /\ detail' = IF Listed__ /\ Known(page) # {}
               THEN Synced_([detail EXCEPT !.rendered = address.selected], page)
               ELSE Mounted(page, address)

\* Back and Forward: the address is authoritative, and the router has its page.
Traverse_(at) ==
  LET address == trail.entries[at]
      page == IF ParseSignals(address) = signals.params THEN signals ELSE RenderSignals(address)
      freed == [detail EXCEPT !.expected = <<>>]
      sync == IF address.selected \in Known(signals) THEN OpenDetail(freed, address.selected)
              ELSE CloseDetail(freed)
  IN  /\ at \in DOMAIN trail.entries /\ at # trail.at
      /\ trail' = [trail EXCEPT !.at = at]
      /\ following' = <<>>
      /\ IF Listed__ /\ page = signals
         THEN detail' = Synced_(sync, signals) /\ UNCHANGED signals
         ELSE signals' = page /\ detail' =
                IF Listed__ /\ Known(page) # {}
                THEN Synced_([sync EXCEPT !.rendered = address.selected], page)
                ELSE Mounted(page, address)

\* The links were rendered by the server: they keep the selection it knew, not the one
\* made since.
SortHref(key) ==
  LET p == signals.params
  IN  BuildHref([p EXCEPT !.sort = key,
                   !.dir = IF p.sort = key THEN (IF @ = "desc" THEN "asc" ELSE "desc")
                           ELSE IF key = "ticker" THEN "asc" ELSE "desc"],
                signals.selected)

MinHref(min) == BuildHref([signals.params EXCEPT !.min = min], signals.selected)

FollowHref(address) ==
  /\ following = <<>> /\ trail.at < MaxHistory
  /\ following' = <<address>>
  /\ UNCHANGED <<trail, signals, detail>>

LinkArrives ==
  /\ following # <<>>
  /\ PushSelection(following[1])
  /\ following' = <<>>
  /\ Show(RenderSignals(following[1]), following[1])

\* The form sends the direction only when it is not descending, and no selection; it loads a
\* new document.
ApplyFilter(signal) ==
  LET p == signals.params
      address == [min |-> p.min, signal |-> signal, selected |-> Unselected,
                  sort |-> IF p.sort = "score" THEN "" ELSE p.sort,
                  dir |-> IF p.dir = "desc" THEN "" ELSE p.dir]
  IN  /\ trail.at < MaxHistory
      /\ PushSelection(address)
      /\ signals' = RenderSignals(address)
      /\ detail' = Mounted(signals', address)
      /\ following' = <<>>

SignalsNext ==
  \/ \E ticker \in SignalTickers : SelectRow(ticker)
  \/ CloseSelected \/ AddressRendered \/ TransitionEnds \/ LinkArrives
  \/ \E at \in 1..MaxHistory : Traverse_(at)
  \/ \E key \in SortKeys : FollowHref(SortHref(key))
  \/ \E min \in Thresholds : FollowHref(MinHref(min))
  \/ \E signal \in {"all", "bullish", "neutral"} : ApplyFilter(signal)

SignalsSpec == SignalsInit /\ [][SignalsNext]_signalVars

-----------------------------------------------------------------------------
\* Once the address is rendered, no transition runs and no explicit change is expected, the
\* detail shows what the address selects when the list has it, and nothing otherwise, after
\* any mix of rows, Escape, Back, Forward and links (signals-table.tsx:102-174).
SelectionFollowsAddress ==
  /\ Listed__ /\ detail.rendered = Here.selected
  /\ ~ detail.timer /\ detail.expected = <<>>
  =>
    /\ detail.selected = IF Here.selected \in Known(signals) THEN Here.selected ELSE Unselected
    /\ detail.shown = detail.selected /\ ~ detail.closing

=============================================================================
