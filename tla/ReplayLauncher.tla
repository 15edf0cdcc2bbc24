---------------------------- MODULE ReplayLauncher ----------------------------
(***************************************************************************)
(* The launcher of the Replay Lab (apps/web/components/replay-launcher.tsx): *)
(* choosing a symbol asks a server action for its stored range, whose       *)
(* answers may come in another order, or never.                             *)
(***************************************************************************)
EXTENDS Integers

CONSTANTS
  Stored,       \* Stored[t]: first and last stored daily bar of symbol t, or Missing
  Missing,      \* no stored bars
  NoRange,      \* no range is on the screen
  MaxRanges     \* bound: availability requests

ASSUME LauncherAssumption ==
  /\ DOMAIN Stored # {}
  /\ \A t \in DOMAIN Stored :
       Stored[t] # Missing => 0 < Stored[t].first /\ Stored[t].first <= Stored[t].last
  /\ MaxRanges \in Nat

VARIABLES
  launcher,   \* symbol, dates, range on the screen, error, the request awaited, opening
  ranges      \* availability requests without an answer

launcherVars == <<launcher, ranges>>

LauncherOn(symbol) ==
  /\ launcher = [ticker |-> symbol, start |-> 0, end |-> 0, range |-> NoRange,
                 error |-> FALSE, awaited |-> 1, opening |-> FALSE]
  /\ ranges = {[id |-> 1, ticker |-> symbol]}

\* The symbol comes from the address when it is known.
LauncherInit == \E symbol \in DOMAIN Stored : LauncherOn(symbol)

\* The effect of a changed symbol asks for its range and ignores the answer to the request
\* before; the range on the screen stays until the answer is there.
ChooseSymbol(symbol) ==
  LET id == launcher.awaited + 1
  IN  /\ symbol # launcher.ticker /\ id <= MaxRanges
      /\ launcher' = [launcher EXCEPT !.ticker = symbol, !.error = FALSE, !.awaited = id]
      /\ ranges' = ranges \cup {[id |-> id, ticker |-> symbol]}

\* Mutation: the clean-up of the effect sets no flag.
LateIsTaken(r) == TRUE

Awaited(r) == r.id = launcher.awaited

\* Dates outside the new range move to its ends, each against its own end only.
WithRange(range) ==
  [launcher EXCEPT !.range = range,
     !.start = IF @ # 0 /\ @ >= range.first THEN @ ELSE range.first,
     !.end = IF @ # 0 /\ @ <= range.last THEN @ ELSE range.last]

RangeAnswered(r) ==
  /\ Awaited(r) /\ Stored[r.ticker] # Missing
  /\ ranges' = ranges \ {r}
  /\ launcher' = WithRange(Stored[r.ticker])

\* The API refuses, or has no bars: the error takes the place of the range.
RangeRefused(r) ==
  /\ Awaited(r)
  /\ ranges' = ranges \ {r}
  /\ launcher' = [launcher EXCEPT !.range = NoRange, !.error = TRUE]

RangeIgnored(r) ==
  /\ ~ Awaited(r)
  /\ ranges' = ranges \ {r}
  /\ UNCHANGED launcher

TypeDates(start, end) ==
  /\ launcher.range # NoRange
  /\ launcher' = [launcher EXCEPT !.start = start, !.end = end]
  /\ UNCHANGED ranges

\* The form is sent with the dates it shows, inside the range its fields allow; the action
\* opens the session's page or comes back with a message.
Open ==
  /\ ~ launcher.opening
  /\ launcher.start # 0 /\ launcher.end # 0
  /\ launcher.range # NoRange =>
       {launcher.start, launcher.end} \subseteq launcher.range.first..launcher.range.last
  /\ launcher' = [launcher EXCEPT !.opening = TRUE]
  /\ UNCHANGED ranges

OpenFails ==
  /\ launcher.opening
  /\ launcher' = [launcher EXCEPT !.opening = FALSE]
  /\ UNCHANGED ranges

LauncherNext ==
  \/ \E symbol \in DOMAIN Stored : ChooseSymbol(symbol)
  \/ \E r \in ranges : RangeAnswered(r) \/ RangeRefused(r) \/ RangeIgnored(r)
  \/ launcher.range # NoRange /\
       \E start, end \in launcher.range.first..launcher.range.last : TypeDates(start, end)
  \/ Open \/ OpenFails

LauncherSpec == LauncherInit /\ [][LauncherNext]_launcherVars

-----------------------------------------------------------------------------
\* Once the request for it has an answer, the range on the screen is the chosen symbol's,
\* in whatever order answers arrive (replay-launcher.tsx:40-61).
RangeIsOfTicker ==
  launcher.range # NoRange /\ (\A r \in ranges : ~ Awaited(r)) =>
    launcher.range = Stored[launcher.ticker]

=============================================================================
