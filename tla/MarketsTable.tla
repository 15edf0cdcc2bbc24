----------------------------- MODULE MarketsTable -----------------------------
(***************************************************************************)
(* The markets page (apps/web/app/(product)/markets/page.tsx,                *)
(* lib/markets-table.ts): a table whose sort and sector live in the address, *)
(* whose headers are links, and whose rows come from answers of              *)
(* GET /v1/markets/summary that Next keeps for an hour, one per sector.      *)
(***************************************************************************)
EXTENDS Integers, FiniteSets, SequencesExt

CONSTANTS
  Traded,    \* the active symbols, numbered in the order of their tickers
  SectorOf,   \* SectorOf[s]: the sector of a symbol, or NoSector
  Figures,    \* Figures[day][column][s]: a number, or Unknown when bars are missing
  NoFigure,
  NoSector,   \* a symbol without sector; an address without one shows every symbol
  Absent      \* a parameter the address does not name

ASSUME MarketsAssumption ==
  /\ Traded \subseteq Nat \ {0} /\ IsFiniteSet(Traded)
  /\ DOMAIN SectorOf = Traded
  /\ NoFigure \notin Int
  /\ \A d \in DOMAIN Figures : Figures[d] \in [{"price", "change"} -> [Traded -> Int \cup {NoFigure}]]
  /\ 1 \in DOMAIN Figures /\ 0 \notin DOMAIN Figures
  /\ Absent \notin {"ticker", "price", "change", "other", "asc", "desc"}

VARIABLES
  address,    \* sort, dir and sector of the address
  day,        \* the day whose figures the page shows, 0 when reading them failed
  today,      \* the newest day with stored bars
  kept        \* kept[sector]: the day of the answer Next holds, 0 for none

marketVars == <<address, day, today, kept>>

Columns == {"ticker", "price", "change"}
Directions == {"asc", "desc"}
Sectors == {SectorOf[s] : s \in Traded} \cup {NoSector}

\* Directions and columns are read from the address without a check.
MarketAddresses ==
  [sort : Columns \cup {"other", Absent}, dir : Directions \cup {"other", Absent},
   sector : Sectors]

SortOf(a) == IF a.sort = Absent THEN "ticker" ELSE a.sort
DirOf(a) ==
  IF a.dir # Absent THEN a.dir ELSE IF SortOf(a) = "ticker" THEN "asc" ELSE "desc"

\* The rows the API answers with, in the order of their tickers.
Members(sector) == {s \in Traded : sector \in {NoSector, SectorOf[s]}}

\* Where the sort puts a symbol before another: unknown figures last in either direction,
\* equal ones as the API had them, and a column it does not know leaves that order.
GoesBefore(sort, dir, figures, s, t) ==
  IF sort = "ticker" THEN IF dir = "asc" THEN s < t ELSE t < s
  ELSE IF sort = "other" THEN s < t
  ELSE LET x == figures[sort][s]  y == figures[sort][t] IN
    \/ x # NoFigure /\ y = NoFigure
    \/ x # NoFigure /\ y # NoFigure /\ IF dir = "asc" THEN x < y ELSE y < x
    \/ x = y /\ s < t

\* A row stands behind those that go before it.
compare(sector, sort, dir, figures) ==
  LET rows == Members(sector)
      ahead(s) == Cardinality({t \in rows : GoesBefore(sort, dir, figures, t, s)})
  IN  [i \in 1..Cardinality(rows) |-> CHOOSE s \in rows : ahead(s) = i - 1]

Shown(a, d) == compare(a.sector, SortOf(a), DirOf(a), Figures[d])

\* What the header of a column says of the order.
SortDirection(a, column) == IF SortOf(a) = column THEN DirOf(a) ELSE "none"

-----------------------------------------------------------------------------
LandedOnMarkets(a) ==
  /\ address = a
  /\ today = 1
  /\ day = 1
  /\ kept = [s \in Sectors |-> IF s = a.sector THEN 1 ELSE 0]

MarketsInit == \E a \in MarketAddresses : LandedOnMarkets(a)

\* A page is rendered: from the kept answer, which may be replaced behind it once it is an
\* hour old, or from a new one; without an answer the route's error page stands.
Load(a) ==
  /\ address' = a
  /\ \/ /\ kept[a.sector] # 0
        /\ day' = kept[a.sector]
        /\ \E d \in {kept[a.sector], today} : kept' = [kept EXCEPT ![a.sector] = d]
     \/ /\ kept[a.sector] = 0
        /\ day' = today
        /\ kept' = [kept EXCEPT ![a.sector] = today]
     \/ /\ kept[a.sector] = 0
        /\ day' = 0
        /\ UNCHANGED kept
  /\ UNCHANGED today

flipDir(current, target, dir) ==
  IF current # target THEN IF target = "ticker" THEN "asc" ELSE "desc"
  ELSE IF dir = "asc" THEN "desc" ELSE "asc"

\* Mutation: the header's link forgets the sector.
HrefWithoutSector(target, a) ==
  [sort |-> target, sector |-> NoSector,
   dir |-> flipDir(a.sort, target, IF a.dir = Absent THEN "desc" ELSE a.dir)]

sortHref(target, a) ==
  [sort |-> target, sector |-> a.sector,
   dir |-> flipDir(a.sort, target, IF a.dir = Absent THEN "desc" ELSE a.dir)]

PressHeader(column) == day # 0 /\ Load(sortHref(column, address))

\* A chip keeps no sort.
ChooseSector(sector) ==
  /\ day # 0
  /\ Load([sort |-> Absent, dir |-> Absent, sector |-> sector])

OpenAddress == \E a \in MarketAddresses : Load(a)

TryPageAgain == day = 0 /\ Load(address)

NewBars ==
  /\ today + 1 \in DOMAIN Figures
  /\ today' = today + 1
  /\ UNCHANGED <<address, day, kept>>

MarketsNext ==
  \/ \E c \in Columns : PressHeader(c)
  \/ \E s \in Sectors : ChooseSector(s)
  \/ OpenAddress \/ TryPageAgain \/ NewBars

MarketsSpec == MarketsInit /\ [][MarketsNext]_marketVars

-----------------------------------------------------------------------------
Position(rows, s) == CHOOSE i \in DOMAIN rows : rows[i] = s
ListedAbove(rows, s, t) == Position(rows, s) < Position(rows, t)

\* The table is ascending by ticker because the address does not name both, as on the page
\* without parameters and on ?sort=ticker.  Its header then leads to the order it has:
\* sortHref takes an absent direction for "desc", and an absent column for none.
AscendingByDefault(a) ==
  SortOf(a) = "ticker" /\ DirOf(a) = "asc" /\ Absent \in {a.sort, a.dir}

\* What a press of a column's header makes of the table.
SortsOrTurns(c) ==
  LET before == Shown(address, day)  after == Shown(address', day')
      Value(s) == IF c = "ticker" THEN s ELSE Figures[day'][c][s]
  IN /\ ToSet(after) = ToSet(before)
     /\ SortDirection(address', c) \in Directions
     /\ \A s, t \in ToSet(after) : s # t =>
          /\ Value(s) # NoFigure /\ Value(t) = NoFigure => ListedAbove(after, s, t)
          /\ NoFigure \notin {Value(s), Value(t)} /\ Value(s) # Value(t) =>
               /\ ListedAbove(after, s, t) <=> (SortDirection(address', c) = "asc" <=> Value(s) < Value(t))
               /\ SortOf(address) = c /\ day' = day =>
                    (ListedAbove(after, s, t) <=> (ListedAbove(before, s, t) <=> AscendingByDefault(address)))

\* Pressing a header shows the same symbols, sorted the way the header then says, those
\* without a figure last.  A press on the column the table is sorted by turns the others
\* around while the figures stay, whatever direction the address names or leaves out, but for
\* a table that is ascending by default: that one stays as it is, and only the second press
\* turns it (markets-table.ts:54-97, page.tsx:45-64).
PressTurnsTheTable ==
  [][\A c \in Columns : PressHeader(c) /\ day' # 0 => SortsOrTurns(c)]_marketVars

=============================================================================
