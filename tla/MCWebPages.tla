------------------------------ MODULE MCWebPages ------------------------------
(***************************************************************************)
(* The parts of the web client, each explored on a page of its own: the page  *)
(* is chosen at the start, its part takes the steps and the others rest in    *)
(* one of their initial states.                                              *)
(***************************************************************************)
EXTENDS TickerSearch, CompareWorkspace, JournalPanel, JournalCalendar, OrderTicket,
  OrderBlotter, ReplayLauncher, ReplayDesk, SignalsPage, Watching, StockPage, BacktestForm,
  MarketsTable, Screener, SignIn, TLC

CONSTANTS
  Missing_,               \* a symbol of the launcher without bars
  SpaceText, SignedText   \* " " and "+2" in the address of the screener

VARIABLE page

Pages == {"search", "compare", "journal", "calendar", "ticket", "blotter", "launcher", "desk", "signals",
          "watchlist", "stock", "backtest", "markets", "screener", "accounts"}

webVars == <<page, searchVars, compareVars, journalVars, calendarVars, ticketVars, blotterVars,
            launcherVars, deskVars, signalVars, watchVars, stockVars, backtestVars, marketVars,
            screenVars, signInVars>>

-----------------------------------------------------------------------------
\* Values of the constants.
MCTexts == {"", " ", "a", "b"}
MCTrimmed == [t \in MCTexts |-> IF t = " " THEN "" ELSE t]
MCMatches ==
  [q \in {" ", "a", "b"} |-> IF q = "a" THEN <<"A", "B">> ELSE IF q = "b" THEN <<"B">> ELSE <<>>]
MCPopular == <<"A", "C">>

MCSymbols == <<"A", "B", "C">>
MCSample == <<"A", "C">>
MCWatched == <<"A">>
MCSpelled == ("A" :> "A") @@ ("B" :> "B") @@ ("C" :> "C") @@ ("a" :> "A") @@ ("_" :> "-")
MCTyped == ("x" :> <<"B", "A">>) @@ ("y" :> <<"C">>)
MCAddresses == {<<>>, <<"B", "a", "_", "A", "C">>}
MCHistories == {<<>>, <<2, 3>>, <<2, 3, 1>>}

MCDatesOf == ("jul" :> {"j1"}) @@ ("aug" :> {"a1", "a2"})
MCWeeksOf == ("jul" :> {"j1"}) @@ ("aug" :> {"a1"})

MCOptions == <<"A", "B">>

MCStored == ("A" :> [first |-> 1, last |-> 3]) @@ ("B" :> [first |-> 2, last |-> 2])
            @@ ("C" :> Missing_)

MCRecommended ==
  ("A" :> [score |-> 5, votes |-> {1, 2}, rationale |-> {}, rank |-> 1])
  @@ ("B" :> [score |-> 3, votes |-> {}, rationale |-> {1}, rank |-> 2])

MCTested == <<"A", "B">>
MCHasBars == ("A" :> TRUE) @@ ("B" :> FALSE)

MCSectorOf == <<"tech", "tech", "none", "energy">>
MCFigures ==
  <<[price |-> <<20, NoFigure, 10, 5>>, change |-> <<NoFigure, NoFigure, 1, 1>>],
    [price |-> <<20, 30, 10, 5>>, change |-> <<1, NoFigure, 2, 1>>]>>
Everything == [sort |-> Absent, dir |-> Absent, sector |-> "none"]

Measured(sector, rsi, momentum, high, low) ==
  [sector |-> sector, rsi |-> rsi, momentum |-> momentum, nearHigh |-> high, nearLow |-> low]
MCMetrics ==
  <<Measured("tech", 2, 1, TRUE, FALSE), Measured("energy", NoMetric, 7, FALSE, FALSE),
    Measured("tech", 60, NoMetric, FALSE, TRUE)>>

MCReadAs == (SpaceText :> 0) @@ (SignedText :> 2)

MCLowerCase == [Ann |-> "ann", ann |-> "ann"]

-----------------------------------------------------------------------------
\* The part of the chosen page starts anywhere, the others where they rest.
WebInit ==
  /\ page \in Pages
  /\ SearchInit
  /\ IF page = "compare" THEN CompareInit ELSE CompareOn(<<>>, "1M", <<>>)
  /\ IF page = "journal" THEN JournalInit ELSE JournalOn(NoKey, NoKey, FALSE)
  /\ IF page = "calendar" THEN CalendarInit ELSE CalendarOn(ThisMonth)
  /\ IF page = "ticket" THEN TicketInit ELSE OpenedOn("page", TRUE, {})
  /\ IF page = "blotter" THEN BlotterInit ELSE BlotterOn("orders")
  /\ IF page = "launcher" THEN LauncherInit ELSE LauncherOn("A")
  /\ DeskInit
  /\ IF page = "signals" THEN SignalsInit ELSE LandedOn(SharedAddress(Unselected))
  /\ IF page = "watchlist" THEN WatchingInit ELSE WatchingFrom({})
  /\ StockInit
  /\ IF page = "backtest" THEN BacktestInit ELSE BacktestFrom("A")
  /\ IF page = "markets" THEN MarketsInit ELSE LandedOnMarkets(Everything)
  /\ ScreenerInit
  /\ SignInInit

WebNext ==
  \/ /\ page = "search" /\ SearchNext
     /\ UNCHANGED <<page, compareVars, journalVars, calendarVars, ticketVars, blotterVars,
                    launcherVars, deskVars, signalVars, watchVars, stockVars, backtestVars,
                    marketVars, screenVars, signInVars>>
  \/ /\ page = "compare" /\ CompareNext
     /\ UNCHANGED <<page, searchVars, journalVars, calendarVars, ticketVars, blotterVars,
                    launcherVars, deskVars, signalVars, watchVars, stockVars, backtestVars,
                    marketVars, screenVars, signInVars>>
  \/ /\ page = "journal" /\ JournalNext
     /\ UNCHANGED <<page, searchVars, compareVars, calendarVars, ticketVars, blotterVars,
                    launcherVars, deskVars, signalVars, watchVars, stockVars, backtestVars,
                    marketVars, screenVars, signInVars>>
  \/ /\ page = "calendar" /\ CalendarNext
     /\ UNCHANGED <<page, searchVars, compareVars, journalVars, ticketVars, blotterVars,
                    launcherVars, deskVars, signalVars, watchVars, stockVars, backtestVars,
                    marketVars, screenVars, signInVars>>
  \/ /\ page = "ticket" /\ TicketNext
     /\ UNCHANGED <<page, searchVars, compareVars, journalVars, calendarVars, blotterVars,
                    launcherVars, deskVars, signalVars, watchVars, stockVars, backtestVars,
                    marketVars, screenVars, signInVars>>
  \/ /\ page = "blotter" /\ BlotterNext
     /\ UNCHANGED <<page, searchVars, compareVars, journalVars, calendarVars, ticketVars,
                    launcherVars, deskVars, signalVars, watchVars, stockVars, backtestVars,
                    marketVars, screenVars, signInVars>>
  \/ /\ page = "launcher" /\ LauncherNext
     /\ UNCHANGED <<page, searchVars, compareVars, journalVars, calendarVars, ticketVars,
                    blotterVars, deskVars, signalVars, watchVars, stockVars, backtestVars,
                    marketVars, screenVars, signInVars>>
  \/ /\ page = "desk" /\ DeskNext
     /\ UNCHANGED <<page, searchVars, compareVars, journalVars, calendarVars, ticketVars,
                    blotterVars, launcherVars, signalVars, watchVars, stockVars, backtestVars,
                    marketVars, screenVars, signInVars>>
  \/ /\ page = "signals" /\ SignalsNext
     /\ UNCHANGED <<page, searchVars, compareVars, journalVars, calendarVars, ticketVars,
                    blotterVars, launcherVars, deskVars, watchVars, stockVars, backtestVars,
                    marketVars, screenVars, signInVars>>
  \/ /\ page = "watchlist" /\ WatchingNext
     /\ UNCHANGED <<page, searchVars, compareVars, journalVars, calendarVars, ticketVars,
                    blotterVars, launcherVars, deskVars, signalVars, stockVars, backtestVars,
                    marketVars, screenVars, signInVars>>
  \/ /\ page = "stock" /\ StockNext
     /\ UNCHANGED <<page, searchVars, compareVars, journalVars, calendarVars, ticketVars,
                    blotterVars, launcherVars, deskVars, signalVars, watchVars, backtestVars,
                    marketVars, screenVars, signInVars>>
  \/ /\ page = "backtest" /\ BacktestNext
     /\ UNCHANGED <<page, searchVars, compareVars, journalVars, calendarVars, ticketVars,
                    blotterVars, launcherVars, deskVars, signalVars, watchVars, stockVars,
                    marketVars, screenVars, signInVars>>
  \/ /\ page = "markets" /\ MarketsNext
     /\ UNCHANGED <<page, searchVars, compareVars, journalVars, calendarVars, ticketVars,
                    blotterVars, launcherVars, deskVars, signalVars, watchVars, stockVars,
                    backtestVars, screenVars, signInVars>>
  \/ /\ page = "screener" /\ ScreenerNext
     /\ UNCHANGED <<page, searchVars, compareVars, journalVars, calendarVars, ticketVars,
                    blotterVars, launcherVars, deskVars, signalVars, watchVars, stockVars,
                    backtestVars, marketVars, signInVars>>
  \/ /\ page = "accounts" /\ SignInNext
     /\ UNCHANGED <<page, searchVars, compareVars, journalVars, calendarVars, ticketVars,
                    blotterVars, launcherVars, deskVars, signalVars, watchVars, stockVars,
                    backtestVars, marketVars, screenVars>>

WebSpec == WebInit /\ [][WebNext]_webVars

===============================================================================
