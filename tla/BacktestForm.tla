----------------------------- MODULE BacktestForm -----------------------------
(***************************************************************************)
(* The backtest page (apps/web/app/(product)/backtest/page.tsx,              *)
(* components/backtest-form.tsx): an experiment composed in the browser, run  *)
(* by POST /v1/backtest, and shown with the costs and the symbol of its run.  *)
(* The strategy and its numbers are left out: what they make the API answer   *)
(* is one of its answers, and no result says them.                           *)
(***************************************************************************)
EXTENDS Integers, FiniteSets

CONSTANTS
  Tested,       \* symbols of the list, in its order: a nonempty sequence without repeats
  Untracked,    \* a symbol an address may name that is not in the list
  CostTexts,    \* what a cost field may hold
  NoText,       \* the empty field
  HasBars,       \* Stored[t]: whether bars of symbol t are stored in the window
  NoRun         \* no result, or nothing submitted

ASSUME BacktestAssumption ==
  /\ DOMAIN Tested = 1..Cardinality(DOMAIN Tested) /\ DOMAIN Tested # {}
  /\ DOMAIN HasBars = {Tested[i] : i \in DOMAIN Tested} /\ Untracked \notin DOMAIN HasBars
  /\ CostTexts \subseteq Nat /\ NoText \notin CostTexts

VARIABLES
  setup,      \* the fields of the form
  run,        \* pending, the error, the result and the costs beside it
  request,    \* what was submitted and is not answered, with its answer, or NoRun
  lastRun     \* what was submitted last

backtestVars == <<setup, run, request, lastRun>>

WindowOrders == {"ordered", "reversed"}

\* An address that names an unknown symbol prefills the first of the list.
StartingTicker(address) == IF address \in DOMAIN HasBars THEN address ELSE Tested[1]

Fields(t) == [ticker |-> t, window |-> "ordered", commission |-> 0, slippage |-> 0]

BacktestFrom(address) ==
  /\ setup = Fields(StartingTicker(address))
  /\ run = [pending |-> FALSE, error |-> "none", result |-> NoRun, costs |-> <<0, 0>>]
  /\ request = NoRun
  /\ lastRun = NoRun

BacktestInit == \E address \in DOMAIN HasBars \cup {Untracked} : BacktestFrom(address)

\* A cost that is not a number costs nothing.
Cost(text) == IF text = NoText THEN 0 ELSE text

-----------------------------------------------------------------------------
\* The fields stay editable while a run is pending.
ChooseTicker(t) ==
  /\ t # setup.ticker
  /\ setup' = [setup EXCEPT !.ticker = t]
  /\ UNCHANGED <<run, request, lastRun>>

EditFields ==
  /\ \E window \in WindowOrders, c, s \in CostTexts \cup {NoText} :
       setup' = [setup EXCEPT !.window = window, !.commission = c, !.slippage = s]
  /\ UNCHANGED <<run, request, lastRun>>

\* What is sent; the costs are kept for the page with the answer.
RequestOf(f) ==
  [ticker |-> f.ticker, window |-> f.window,
   costs |-> <<Cost(f.commission), Cost(f.slippage)>>, answer |-> "none"]

SubmitRun ==
  /\ ~ run.pending
  /\ run' = [run EXCEPT !.pending = TRUE, !.error = "none"]
  /\ request' = RequestOf(setup)
  /\ lastRun' = request'
  /\ UNCHANGED setup

-----------------------------------------------------------------------------
\* The API checks the symbol and the window, and needs no bar to answer.
ApiRuns ==
  /\ request # NoRun /\ request.answer = "none"
  /\ request' = [request EXCEPT !.answer =
       IF request.window = "reversed" THEN "400" ELSE IF HasBars[request.ticker] THEN "curve"
       ELSE "no bars"]
  /\ UNCHANGED <<setup, run, lastRun>>

\* Too many runs in a minute, a strategy the engine refuses, or an error of the server.
ApiDeclines ==
  /\ request # NoRun /\ request.answer = "none"
  /\ \E status \in {"400", "429", "500"} : request' = [request EXCEPT !.answer = status]
  /\ UNCHANGED <<setup, run, lastRun>>

RunAnswered ==
  /\ request # NoRun /\ request.answer \in {"curve", "no bars"}
  /\ run' = [pending |-> FALSE, error |-> "none", costs |-> request.costs,
             result |-> [ticker |-> request.ticker, answer |-> request.answer]]
  /\ request' = NoRun
  /\ UNCHANGED <<setup, lastRun>>

ErrorKind(status) == IF status \in {"400", "429"} THEN "validation" ELSE "system"

\* Mutation: the result of an earlier run stays.
RunFailsKeeping(status) ==
  /\ run' = [run EXCEPT !.pending = FALSE, !.error = ErrorKind(status)]
  /\ request' = NoRun
  /\ UNCHANGED <<setup, lastRun>>

RunFails(status) ==
  /\ run' = [run EXCEPT !.pending = FALSE, !.error = ErrorKind(status), !.result = NoRun]
  /\ request' = NoRun
  /\ UNCHANGED <<setup, lastRun>>

RunRefused ==
  /\ request # NoRun /\ request.answer \in {"400", "429", "500"}
  /\ RunFails(request.answer)

\* The request fails in the network, before or after the run: 503 to the form.
RunLost == request # NoRun /\ RunFails("503")

BacktestNext ==
  \/ \E t \in DOMAIN HasBars : ChooseTicker(t)
  \/ EditFields \/ SubmitRun
  \/ ApiRuns \/ ApiDeclines \/ RunAnswered \/ RunRefused \/ RunLost

BacktestSpec == BacktestInit /\ [][BacktestNext]_backtestVars

-----------------------------------------------------------------------------
\* What stands beside the form: nothing, a run under way, or a result with the symbol and
\* the costs it says it was run with.
Results == <<run.result.ticker, run.costs>>
View ==
  IF run.pending THEN "running" ELSE IF run.result = NoRun THEN "no experiment"
  ELSE IF run.result.answer = "curve" THEN "results" ELSE "no bars"

\* Results are those of the last submission, with the symbol and the costs it was run with
\* whatever the fields say by now, and never stand beside an error
\* (backtest-form.tsx:112-158).
ResultsSayTheirRun ==
  View \in {"results", "no bars"} =>
    /\ run.error = "none"
    /\ Results = <<lastRun.ticker, lastRun.costs>>

=============================================================================
