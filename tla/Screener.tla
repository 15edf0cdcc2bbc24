------------------------------- MODULE Screener -------------------------------
(***************************************************************************)
(* The screener (apps/web/app/(product)/screener/page.tsx): filters live in  *)
(* the address, a plain GET form writes them, and the server component asks  *)
(* GET /v1/symbols/screen for the rows (routers/screener.py).                *)
(***************************************************************************)
EXTENDS Integers, FiniteSets

CONSTANTS
  Screened,      \* the active symbols with metrics, numbered in the order of their tickers
  Metrics,       \* Metrics[s]: sector (NotNamed for none), rsi, momentum, nearHigh, nearLow
  NoMetric,      \* a metric that could not be computed
  Numbers,         \* the numbers a number field may hold, as it shows them
  ReadAs,          \* texts that Number() reads and a number field shows as empty, such as
                   \* " ", "+30" or "0x1f", with the number they are read as
  Emptied, Junk,   \* a parameter present but empty, and one that is no number
  NotNamed,        \* a parameter the address does not name
  Retired,       \* a sector an address may name and no symbol has
  MaxResults,    \* rows the API reads before the momentum filter
  MaxEdits       \* bound: fields edited between two documents

ASSUME ScreenerAssumption ==
  /\ Screened \subseteq Nat /\ IsFiniteSet(Screened) /\ DOMAIN Metrics = Screened
  /\ Numbers \subseteq Int /\ {Emptied, Junk, NotNamed} \cap Int = {}
  /\ DOMAIN ReadAs \cap (Int \cup {Emptied, Junk, NotNamed}) = {}
  /\ \A text \in DOMAIN ReadAs : ReadAs[text] \in Int
  /\ Emptied # NotNamed /\ Retired \notin {Emptied, NotNamed}
  /\ \A s \in Screened : Metrics[s].sector \notin {Retired, Emptied}
  /\ MaxResults \in Nat \ {0} /\ MaxEdits \in Nat

VARIABLES
  filters,    \* the parameters of the address
  form,       \* what the fields hold
  edited,     \* the fields changed by hand since the document was loaded
  listing     \* the rows, or why there are none

screenVars == <<filters, form, edited, listing>>

NumberFields == {"rsi_min", "rsi_max", "momentum_days", "momentum_min", "momentum_max"}
Boxes == {"near_52w_high", "near_52w_low"}
Fields_ == NumberFields \cup Boxes \cup {"sector"}
Offered == {Metrics[s].sector : s \in Screened} \ {NotNamed}

NoFilters ==
  [f \in Fields_ |-> IF f \in Boxes THEN FALSE ELSE NotNamed]

\* What Number() makes of a text: the empty one is zero, and NotNamed stands for NaN.
NumberOf(text) ==
  IF text = Emptied THEN 0
  ELSE IF text \in Numbers THEN text
  ELSE IF text \in DOMAIN ReadAs THEN ReadAs[text] ELSE NotNamed

\* Mutation: the empty text is not looked for.
NumOfAnyText(text) == NumberOf(text)

num(text) == IF text = Emptied THEN NotNamed ELSE NumberOf(text)

\* The arguments of the request: the sector when there is one, numbers that are numbers.
Params(a) ==
  [f \in Fields_ |->
     IF f \in NumberFields THEN num(a[f])
     ELSE IF f = "sector" /\ a[f] = Emptied THEN NotNamed ELSE a[f]]

ActiveFilters(a) ==
  Cardinality({f \in Fields_ : Params(a)[f] \notin {NotNamed, FALSE}})

-----------------------------------------------------------------------------
Bounds(f) ==
  IF f \in {"rsi_min", "rsi_max"} THEN 0..100
  ELSE IF f = "momentum_days" THEN 1..252 ELSE Int

Accepted(p) == \A f \in NumberFields : p[f] # NotNamed => p[f] \in Bounds(f)

AtLeast(value, bound) == bound # NotNamed => value # NoMetric /\ value >= bound
AtMost(value, bound) == bound # NotNamed => value # NoMetric /\ value <= bound

\* The first MaxResults symbols that pass the indexed filters, in the order of tickers.
Candidates(p) ==
  LET pass == {s \in Screened :
        /\ p["sector"] # NotNamed => Metrics[s].sector = p["sector"]
        /\ AtLeast(Metrics[s].rsi, p["rsi_min"])
        /\ AtMost(Metrics[s].rsi, p["rsi_max"])
        /\ p["near_52w_high"] => Metrics[s].nearHigh
        /\ p["near_52w_low"] => Metrics[s].nearLow}
  IN {s \in pass : Cardinality({t \in pass : t <= s}) <= MaxResults}

\* Momentum is applied to those, and only with a window.
screen_symbols(p) ==
  {s \in Candidates(p) : p["momentum_days"] # NotNamed =>
     /\ Metrics[s].momentum # NoMetric
     /\ AtLeast(Metrics[s].momentum, p["momentum_min"])
     /\ AtMost(Metrics[s].momentum, p["momentum_max"])}

Listings(symbols) == [kind |-> "rows", symbols |-> symbols]
NoRows(kind) == [kind |-> kind, symbols |-> {}]

\* The page: rows; the message of an API error, which a request out of bounds always gets;
\* or the route's error page, when the sectors or the rows could not be read at all.
RenderRows(a) ==
  \/ /\ Accepted(Params(a))
     /\ listing' = Listings(screen_symbols(Params(a)))
  \/ \E kind \in {"message", "error page"} : listing' = NoRows(kind)

-----------------------------------------------------------------------------
\* A number field shows only what is written as a number, and the list of sectors starts at all of them when it does
\* not have the one the address names.
FieldOf(a, f) ==
  IF f \in NumberFields THEN IF a[f] \in Numbers THEN a[f] ELSE Emptied
  ELSE IF f = "sector" THEN IF a[f] \in Offered THEN a[f] ELSE Emptied
  ELSE a[f]

FormOf(a) == [f \in Fields_ |-> FieldOf(a, f)]

\* A document: the form starts from the address.
LoadDocument(a) ==
  /\ filters' = a
  /\ form' = FormOf(a)
  /\ edited' = {}
  /\ RenderRows(a)

ScreenerOn(a, rows) ==
  /\ filters = a /\ form = FormOf(a) /\ edited = {} /\ listing = rows

ScreenerInit == ScreenerOn(NoFilters, Listings(screen_symbols(Params(NoFilters))))

\* A link of another page or typed by hand, naming at most one parameter.  What the form
\* held is lost, so that it is enough to follow links from a form nobody has changed.
OpenLink ==
  edited = {} /\ \E f \in Fields_ :
    \E value \in IF f \in Boxes THEN BOOLEAN
                 ELSE IF f = "sector" THEN Offered \cup {Retired, Emptied}
                 ELSE Numbers \cup DOMAIN ReadAs \cup {Emptied, Junk} :
      LoadDocument([NoFilters EXCEPT ![f] = value])

EditField(f) ==
  /\ listing.kind # "error page"
  /\ Cardinality(edited) < MaxEdits
  /\ \E value \in IF f \in Boxes THEN BOOLEAN
                  ELSE IF f = "sector" THEN Offered \cup {Emptied}
                  ELSE Numbers \cup {Emptied} :
       form' = [form EXCEPT ![f] = value]
  /\ edited' = edited \cup {f}
  /\ UNCHANGED <<filters, listing>>

\* The browser refuses numbers out of bounds; an unchecked box is not sent.
Apply ==
  /\ listing.kind # "error page"
  /\ \A f \in NumberFields : form[f] # Emptied => form[f] \in Bounds(f)
  /\ LoadDocument(form)

ResetFilters == LoadDocument(NoFilters)

\* The navigation's link to the screener keeps the document: fields changed by hand and the
\* list of sectors keep what they show.
FollowNavigation ==
  /\ listing.kind # "error page"
  /\ filters' = NoFilters
  /\ form' = [f \in Fields_ |->
       IF f \in edited \cup {"sector"} THEN form[f] ELSE FieldOf(NoFilters, f)]
  /\ UNCHANGED edited
  /\ RenderRows(NoFilters)

ScreenerNext ==
  \/ OpenLink \/ Apply \/ ResetFilters \/ FollowNavigation
  \/ \E f \in Fields_ : EditField(f)

ScreenerSpec == ScreenerInit /\ [][ScreenerNext]_screenVars

-----------------------------------------------------------------------------
\* What the form cannot show of an address, though the request has it: a retired sector, and
\* a text that only Number() reads.
Hidden(a) ==
  {f \in Fields_ : IF f = "sector" THEN a[f] = Retired
                   ELSE f \in NumberFields /\ a[f] \in DOMAIN ReadAs}

\* Applying the form as it was rendered asks for what the page asked for, but for the filters
\* the form cannot show, which it drops; so the rows are those that were listed when the
\* address has no such filter: absent and empty parameters, and those that are no number,
\* filter nothing before and after (screener/page.tsx:38-103, 140-252).
ApplyKeepsRows ==
  [][Apply /\ form = FormOf(filters) =>
       /\ \A f \in Fields_ :
            Params(filters')[f] = IF f \in Hidden(filters) THEN NotNamed ELSE Params(filters)[f]
       /\ Hidden(filters) = {} /\ listing.kind = "rows" /\ listing'.kind = "rows" =>
            listing' = listing]_screenVars

=============================================================================
