-------------------------- MODULE CompareWorkspace --------------------------
(***************************************************************************)
(* The comparison page (apps/web: app/(product)/compare/page.tsx,           *)
(* components/compare-*.tsx, lib/compare-workspace.ts).  The basket lives   *)
(* in the URL: the picker pushes a new URL and keeps drawing the basket it  *)
(* was given until the server has answered with the next one.               *)
(***************************************************************************)
EXTENDS Integers, Sequences, FiniteSets, SequencesExt

CONSTANTS
  Symbols,       \* the tickers of the universe, a sequence
  CompareMax,    \* COMPARE_MAX_SYMBOLS
  SampleTickers, \* SAMPLE_COMPARE_TICKERS
  Spelled,       \* Spelled[w]: the ticker a word of a URL spells, or Blank
  Blank,
  Typed,         \* Typed[q]: what a search for q finds, in the server's order
  NoQuery,
  Watched,       \* the watchlist, a sequence of tickers
  Addresses,     \* the addresses the page is entered at: sequences of words
  Windows,       \* the timeframes
  Histories,     \* the series a ticker may have in a window
  MaxQueries     \* bound on the searches started

Universe == ToSet(Symbols)

ASSUME CompareAssumption ==
  /\ Symbols \in Seq(Universe) /\ Blank \notin Universe
  /\ CompareMax \in Nat /\ MaxQueries \in Nat
  /\ Spelled \in [Universe \cup (DOMAIN Spelled \ Universe) -> Universe \cup {Blank}]
  /\ \A t \in Universe : Spelled[t] = t
  /\ Addresses \subseteq Seq(DOMAIN Spelled)
  /\ \A q \in DOMAIN Typed : Typed[q] \in Seq(Universe)
  /\ NoQuery \notin DOMAIN Typed
  /\ Watched \in Seq(Universe)
  /\ SampleTickers \in Seq(Universe) /\ Len(SampleTickers) <= CompareMax
  /\ \A i, j \in DOMAIN SampleTickers : SampleTickers[i] = SampleTickers[j] => i = j
  /\ <<>> \in Histories /\ Histories \subseteq Seq(Nat)

VARIABLES
  compared,      \* the page on the screen: tickers, window, bars of each ticker
  pushed,        \* the URL on its way, or NoPush
  picker,        \* query, results, status, focused, universe
  asked          \* the searches in flight, with the basket they were typed over

compareVars == <<compared, pushed, picker, asked>>

NoPush == [tickers |-> <<Blank>>, window |-> Blank]

-----------------------------------------------------------------------------
\* The loops of the page are recursive functions on the positions of a sequence, which a
\* proof can follow; the folds of the community modules take operators, which it cannot.

\* Array.filter.
OnlyIn(seq, S) ==
  LET kept[i \in 0..Len(seq)] ==
        IF i = 0 THEN <<>>
        ELSE IF seq[i] \in S THEN Append(kept[i - 1], seq[i]) ELSE kept[i - 1]
  IN  kept[Len(seq)]

\* Array.from(new Set): each member where it first occurs.
Distinct(seq) ==
  LET kept[i \in 0..Len(seq)] ==
        IF i = 0 THEN <<>>
        ELSE IF Contains(kept[i - 1], seq[i]) THEN kept[i - 1] ELSE Append(kept[i - 1], seq[i])
  IN  kept[Len(seq)]

\* parseCompareTickers: blanks and repetitions dropped, then the first six.
ParseTickers(words) ==
  LET kept == Distinct(OnlyIn([i \in DOMAIN words |-> Spelled[words[i]]], Universe))
  IN  SubSeq(kept, 1, IF Len(kept) < CompareMax THEN Len(kept) ELSE CompareMax)

NewTo(basket, tickers) == OnlyIn(tickers, Universe \ ToSet(basket))

\* loadSeries: an API error leaves the ticker in the basket without bars.
Series(basket) == [ToSet(basket) -> Histories]

CompareOn(basket, w, bars) ==
  /\ compared = [tickers |-> basket, window |-> w, bars |-> bars]
  /\ pushed = NoPush
  /\ picker = [query |-> NoQuery, results |-> <<>>, status |-> "idle", focused |-> FALSE,
               universe |-> "idle"]
  /\ asked = {}

CompareInit ==
  \E address \in Addresses, w \in Windows : \E bars \in Series(ParseTickers(address)) :
    CompareOn(ParseTickers(address), w, bars)

Push(tickers, w) == pushed' = [tickers |-> tickers, window |-> w]

\* The server has rendered the pushed URL; the picker keeps its own state.
Land ==
  /\ pushed # NoPush
  /\ \E bars \in Series(ParseTickers(pushed.tickers)) :
       compared' = [tickers |-> ParseTickers(pushed.tickers), window |-> pushed.window,
                    bars |-> bars]
  /\ pushed' = NoPush
  /\ UNCHANGED <<picker, asked>>

ChooseWindow(w) ==
  /\ Push(compared.tickers, w)
  /\ UNCHANGED <<compared, picker, asked>>

\* The sample set is offered on an empty page only.
LoadSample ==
  /\ compared.tickers = <<>>
  /\ Push(SampleTickers, compared.window)
  /\ UNCHANGED <<compared, picker, asked>>

-----------------------------------------------------------------------------
Remaining == CompareMax - Len(compared.tickers)

BrowseRows ==
  IF picker.universe = "ready" THEN NewTo(compared.tickers, Symbols) ELSE <<>>

VisibleRows == IF picker.query # NoQuery THEN picker.results ELSE BrowseRows

FocusInput ==
  /\ Remaining > 0 /\ ~ picker.focused
  /\ picker' = [picker EXCEPT !.focused = TRUE,
                              !.universe = IF @ \in {"idle", "error"} THEN "loading" ELSE @]
  /\ UNCHANGED <<compared, pushed, asked>>

BlurInput ==
  /\ picker.focused
  /\ picker' = [picker EXCEPT !.focused = FALSE]
  /\ UNCHANGED <<compared, pushed, asked>>

UniverseLoaded ==
  /\ picker.universe = "loading"
  /\ \E outcome \in {"ready", "error"} : picker' = [picker EXCEPT !.universe = outcome]
  /\ UNCHANGED <<compared, pushed, asked>>

\* A query is sent at once and carries no number: a later one does not outdate it.
TypeQuery(q) ==
  /\ picker.focused /\ q # picker.query
  /\ IF q = NoQuery
     THEN /\ picker' = [picker EXCEPT !.query = q, !.results = <<>>, !.status = "idle"]
          /\ UNCHANGED asked
     ELSE /\ Cardinality(asked) < MaxQueries
          /\ picker' = [picker EXCEPT !.query = q, !.status = "loading"]
          /\ asked' = asked \cup {[query |-> q, basket |-> compared.tickers]}
  /\ UNCHANGED <<compared, pushed>>

QueryAnswered(a) ==
  /\ a \in asked
  /\ asked' = asked \ {a}
  /\ picker' = [picker EXCEPT !.results = NewTo(a.basket, Typed[a.query]), !.status = "ready"]
  /\ UNCHANGED <<compared, pushed>>

QueryFailed(a) ==
  /\ a \in asked
  /\ asked' = asked \ {a}
  /\ picker' = [picker EXCEPT !.results = <<>>, !.status = "error"]
  /\ UNCHANGED <<compared, pushed>>

\* Mutation: the list is trusted to hold new symbols only.
AddUnlessFull(ticker) ==
  /\ Remaining > 0
  /\ picker' = [picker EXCEPT !.query = NoQuery, !.results = <<>>, !.status = "idle"]
  /\ Push(Append(compared.tickers, ticker), compared.window)
  /\ UNCHANGED <<compared, asked>>

AddTicker(ticker) ==
  /\ ~ Contains(compared.tickers, ticker) /\ Remaining > 0
  /\ picker' = [picker EXCEPT !.query = NoQuery, !.results = <<>>, !.status = "idle"]
  /\ Push(Append(compared.tickers, ticker), compared.window)
  /\ UNCHANGED <<compared, asked>>

\* A row of the dropdown; Enter takes the first one.
PickRow ==
  /\ picker.focused
  /\ \E i \in DOMAIN VisibleRows : AddTicker(VisibleRows[i])

PickWatched == \E i \in DOMAIN Watched : AddTicker(Watched[i])

RemoveTicker(ticker) ==
  /\ Contains(compared.tickers, ticker)
  /\ Push(OnlyIn(compared.tickers, Universe \ {ticker}), compared.window)
  /\ UNCHANGED <<compared, picker, asked>>

CompareNext ==
  \/ Land \/ LoadSample
  \/ \E w \in Windows : ChooseWindow(w)
  \/ FocusInput \/ BlurInput \/ UniverseLoaded
  \/ \E q \in DOMAIN Typed \cup {NoQuery} : TypeQuery(q)
  \/ \E a \in asked : QueryAnswered(a) \/ QueryFailed(a)
  \/ PickRow \/ PickWatched
  \/ \E t \in Universe : RemoveTicker(t)

CompareSpec == CompareInit /\ [][CompareNext]_compareVars

-----------------------------------------------------------------------------
\* The figures of the page.  A share is a fraction, or NoValue (a dash in the table).
NoValue == [num |-> 0, den |-> 0]
Above(a, b) == a.num * b.den > b.num * a.den

RangeReturn(closes) ==
  IF Len(closes) < 2 \/ closes[1] = 0 THEN NoValue
  ELSE [num |-> closes[Len(closes)] - closes[1], den |-> closes[1]]

MaxDrawdown(closes) ==
  LET run[i \in 0..Len(closes)] ==
        IF i = 0 THEN [peak |-> closes[1], worst |-> [num |-> 0, den |-> 1]]
        ELSE LET peak == IF closes[i] > run[i - 1].peak THEN closes[i] ELSE run[i - 1].peak
                 fall == [num |-> peak - closes[i], den |-> peak]
             IN  [peak |-> peak,
                  worst |-> IF peak > 0 /\ Above(fall, run[i - 1].worst) THEN fall
                            ELSE run[i - 1].worst]
  IN  IF Len(closes) < 2 THEN NoValue ELSE run[Len(closes)].worst

\* The table of the page, in the order of the basket.
MetricsTable ==
  [i \in DOMAIN compared.tickers |->
     LET bars == compared.bars[compared.tickers[i]]
     IN  [ticker |-> compared.tickers[i], bars |-> bars,
          returnPct |-> RangeReturn(bars), maxDrawdownPct |-> MaxDrawdown(bars)]]

\* The rows with a return, and which of two a stable sort puts first.
Ranked(rows) == {i \in DOMAIN rows : rows[i].returnPct # NoValue}
RanksBefore(rows, i, j) ==
  \/ Above(rows[i].returnPct, rows[j].returnPct)
  \/ ~ Above(rows[j].returnPct, rows[i].returnPct) /\ i < j

Leader(rows) == CHOOSE i \in Ranked(rows) : \A j \in Ranked(rows) \ {i} : RanksBefore(rows, i, j)
Laggard(rows) == CHOOSE i \in Ranked(rows) : \A j \in Ranked(rows) \ {i} : RanksBefore(rows, j, i)

\* The observations under the table: leader and laggard by return, ties in basket order,
\* and the symbols without history.
Insights ==
  LET rows == MetricsTable
      compares == Len(rows) >= 2 /\ Ranked(rows) # {}
  IN  [leader |-> IF compares THEN rows[Leader(rows)].ticker ELSE Blank,
       laggard |-> IF compares /\ Laggard(rows) # Leader(rows) THEN rows[Laggard(rows)].ticker
                   ELSE Blank,
       missing |-> {rows[i].ticker : i \in {k \in DOMAIN rows : rows[k].bars = <<>>}}]

\* The line of a symbol ends where its table row says: rebased to 100 at the first close.
ChartEnd(closes) ==
  IF closes = <<>> \/ closes[1] = 0 THEN NoValue
  ELSE [num |-> closes[Len(closes)], den |-> closes[1]]

-----------------------------------------------------------------------------
\* A URL the page pushes reads back as the very basket it was pushed for: no repetition and
\* no seventh symbol, although the dropdown may still list answers to a query typed before
\* the basket changed (compare-symbol-picker.tsx:67-96, compare-workspace.ts:51-90).
PushReadsBack == pushed # NoPush => ParseTickers(pushed.tickers) = pushed.tickers

\* The drawdown of the table is the worst fall from any close to a later one, and the chart,
\* the table and the observations rank the basket alike (compare-workspace.ts:100-193).
WindowFactsAgree ==
  /\ \A t \in ToSet(compared.tickers) :
       LET c == compared.bars[t]
           falls == {[num |-> c[p[1]] - c[p[2]], den |-> c[p[1]]] :
                       p \in {q \in (DOMAIN c) \X (DOMAIN c) : q[1] <= q[2] /\ c[q[1]] > 0}}
           worst == MaxDrawdown(c)
       IN  worst # NoValue =>
             /\ \A f \in falls : ~ Above(f, worst)
             /\ worst.num > 0 => \E f \in falls : ~ Above(worst, f)
  /\ Insights.leader # Blank =>
       \A t \in {s \in ToSet(compared.tickers) : Len(compared.bars[s]) > 1} :
         ~ Above(ChartEnd(compared.bars[t]), ChartEnd(compared.bars[Insights.leader]))

\* The page is shown for the basket it was asked for, and its figures agree.
ComparisonIsRight == PushReadsBack /\ WindowFactsAgree

=============================================================================
