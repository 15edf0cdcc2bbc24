------------------------------ MODULE AlertsBell ------------------------------
(***************************************************************************)
(* Price alerts: the bell of the header, which polls (apps/web/components/  *)
(* alerts-bell.tsx), the alerts page and its form (apps/web/app/(product)/   *)
(* (authed)/alerts), and the rows the API keeps, which an evaluation pass   *)
(* triggers (routers/alerts.py, services/alerts.py).                        *)
(***************************************************************************)
EXTENDS Integers, FiniteSets

CONSTANTS
  Alerts,        \* alert rows, by id: an id is used once
  MaxActive,     \* alerts a user may have that have not triggered
  MaxPolls,      \* bound: polls without an answer at a time
  MaxPresses     \* bound: buttons pressed

ASSUME AlertsAssumption ==
  IsFiniteSet(Alerts) /\ {MaxActive, MaxPolls, MaxPresses} \subseteq Nat

VARIABLES
  alertRow,      \* the rows at the API
  evaluating,    \* what the evaluation pass has read as pending, or NotEvaluating
  bell,          \* signed in, and the alerts of the last poll that landed
  polls,         \* the polls without an answer
  alertPage,     \* the alerts page: the view, the rows as rendered, the form, an error
  presses        \* server actions under way, and the number of buttons pressed

alertVars == <<alertRow, evaluating, bell, polls, alertPage, presses>>

RowStates == {"unset", "pending", "triggered", "dismissed", "deleted"}
Views == {"active", "triggered", "all"}
NoAlerts == [a \in Alerts |-> "unset"]
NotEvaluating == {"no pass"}

IsRow(state) == state \in {"pending", "triggered", "dismissed"}
ActiveAlerts == {a \in Alerts : alertRow[a] = "pending"}

AlertsWhen(signedIn) ==
  /\ alertRow = NoAlerts
  /\ evaluating = NotEvaluating
  /\ bell = [enabled |-> signedIn, rows |-> NoAlerts]
  /\ polls = {}
  /\ alertPage = [view |-> "active", rows |-> NoAlerts, form |-> "new", error |-> FALSE]
  /\ presses = [calls |-> {}, count |-> 0]

AlertsInit == AlertsWhen(TRUE)

-----------------------------------------------------------------------------
\* Every minute, and when the bell appears, whether or not the poll before is answered.
Tick ==
  /\ bell.enabled /\ Cardinality(polls) < MaxPolls
  /\ polls' = polls \cup {[id |-> CHOOSE i \in 1..MaxPolls : \A p \in polls : p.id # i,
                           status |-> "sent", rows |-> NoAlerts]}
  /\ UNCHANGED <<alertRow, evaluating, bell, alertPage, presses>>

\* Mutation: one poll, when the bell appears.
TickOnce == Tick /\ presses.count = 0 /\ bell.rows = NoAlerts

\* The interval of the bell.
Interval == Tick

\* The route asks the API with the session's token and passes a status on with no alerts.
PollServed(p) ==
  /\ p.status = "sent"
  /\ polls' = (polls \ {p}) \cup {[p EXCEPT !.status = "ok", !.rows = alertRow]}
  /\ UNCHANGED <<alertRow, evaluating, bell, alertPage, presses>>

PollRefused(p) ==
  /\ p.status = "sent"
  /\ polls' = (polls \ {p}) \cup {[p EXCEPT !.status = "refused"]}
  /\ UNCHANGED <<alertRow, evaluating, bell, alertPage, presses>>

\* The answers land in any order; a refusal empties the bell.
PollLands(p) ==
  /\ p.status # "sent"
  /\ polls' = polls \ {p}
  /\ bell' = [bell EXCEPT !.rows = IF p.status = "ok" THEN p.rows ELSE NoAlerts]
  /\ UNCHANGED <<alertRow, evaluating, alertPage, presses>>

\* The request itself fails: the promise is rejected and the bell keeps its rows.
PollLost(p) ==
  /\ polls' = polls \ {p}
  /\ UNCHANGED <<alertRow, evaluating, bell, alertPage, presses>>

-----------------------------------------------------------------------------
\* What the page lists in a view, and what its badge calls unread.
Matches_(a) ==
  CASE alertPage.view = "active"    -> alertPage.rows[a] = "pending"
    [] alertPage.view = "triggered" -> alertPage.rows[a] \in {"triggered", "dismissed"}
    [] alertPage.view = "all"       -> IsRow(alertPage.rows[a])

Unread(a) == bell.rows[a] = "triggered"

\* The bell and the page offer their buttons by what they have on the screen.
OfferedIn(kind, a, state) ==
  IF kind = "dismiss" THEN state = "triggered" ELSE kind = "delete" /\ IsRow(state)

Press(kind, a) ==
  /\ presses.count < MaxPresses
  /\ \/ bell.enabled /\ OfferedIn(kind, a, bell.rows[a])
     \/ ~ alertPage.error /\ Matches_(a) /\ OfferedIn(kind, a, alertPage.rows[a])
  /\ presses' = [count |-> presses.count + 1,
                 calls |-> presses.calls \cup {[id |-> presses.count, kind |-> kind,
                                                alert |-> a, status |-> "sent"]}]
  /\ UNCHANGED <<alertRow, evaluating, bell, polls, alertPage>>

\* The form: its button is disabled while its action is pending.
CreateAlert(a) ==
  /\ presses.count < MaxPresses
  /\ ~ alertPage.error /\ alertPage.form # "pending" /\ alertRow[a] = "unset"
  /\ \A c \in presses.calls : c.alert # a
  /\ alertPage' = [alertPage EXCEPT !.form = "pending"]
  /\ presses' = [count |-> presses.count + 1,
                 calls |-> presses.calls \cup {[id |-> presses.count, kind |-> "create",
                                                alert |-> a, status |-> "sent"]}]
  /\ UNCHANGED <<alertRow, evaluating, bell, polls>>

ChooseView(view) ==
  /\ ~ alertPage.error /\ view # alertPage.view
  /\ alertPage' = [alertPage EXCEPT !.view = view, !.rows = alertRow]
  /\ UNCHANGED <<alertRow, evaluating, bell, polls, presses>>

-----------------------------------------------------------------------------
Reply_(c, status) ==
  presses' = [presses EXCEPT !.calls = (@ \ {c}) \cup {[c EXCEPT !.status = status]}]

\* POST /v1/alerts counts the active alerts, then inserts the row: another tab may insert
\* between the two.  Input the form lets through may be refused too.
ApiCounts(c) ==
  /\ c.kind = "create" /\ c.status = "sent"
  /\ \/ Reply_(c, IF Cardinality(ActiveAlerts) < MaxActive THEN "counted" ELSE "409")
     \/ Reply_(c, "404")
  /\ UNCHANGED <<alertRow, evaluating, bell, polls, alertPage>>

ApiInserts(c) ==
  /\ c.kind = "create" /\ c.status = "counted"
  /\ alertRow' = [alertRow EXCEPT ![c.alert] = "pending"]
  /\ Reply_(c, "201")
  /\ UNCHANGED <<evaluating, bell, polls, alertPage>>

\* Another tab or the stock page sets an alert.
SetElsewhere(a) ==
  /\ alertRow[a] = "unset" /\ \A c \in presses.calls : c.alert # a
  /\ Cardinality(ActiveAlerts) < MaxActive
  /\ alertRow' = [alertRow EXCEPT ![a] = "pending"]
  /\ UNCHANGED <<evaluating, bell, polls, alertPage, presses>>

ApiDismisses(c) ==
  /\ c.kind = "dismiss" /\ c.status = "sent"
  /\ IF IsRow(alertRow[c.alert]) /\ alertRow[c.alert] # "pending"
     THEN Reply_(c, "200") /\ alertRow' = [alertRow EXCEPT ![c.alert] = "dismissed"]
     ELSE /\ Reply_(c, IF alertRow[c.alert] = "pending" THEN "422" ELSE "404")
          /\ UNCHANGED alertRow
  /\ UNCHANGED <<evaluating, bell, polls, alertPage>>

ApiDeletes(c) ==
  /\ c.kind = "delete" /\ c.status = "sent"
  /\ IF IsRow(alertRow[c.alert])
     THEN Reply_(c, "204") /\ alertRow' = [alertRow EXCEPT ![c.alert] = "deleted"]
     ELSE Reply_(c, "404") /\ UNCHANGED alertRow
  /\ UNCHANGED <<evaluating, bell, polls, alertPage>>

\* The pass reads the pending alerts without a lock, then writes the ones that hit.
ReadPending ==
  /\ evaluating = NotEvaluating /\ ActiveAlerts # {}
  /\ evaluating' = ActiveAlerts
  /\ UNCHANGED <<alertRow, bell, polls, alertPage, presses>>

\* An UPDATE that finds its row deleted fails the pass, and no alert of it triggers.
CommitHits(hits) ==
  /\ evaluating # NotEvaluating /\ hits \subseteq evaluating
  /\ evaluating' = NotEvaluating
  /\ alertRow' = IF \A a \in hits : IsRow(alertRow[a])
                 THEN [a \in Alerts |-> IF a \in hits /\ alertRow[a] = "pending"
                                        THEN "triggered" ELSE alertRow[a]]
                 ELSE alertRow
  /\ UNCHANGED <<bell, polls, alertPage, presses>>

-----------------------------------------------------------------------------
Finish(c) == presses' = [presses EXCEPT !.calls = @ \ {c}]

\* Dismiss and delete take a row that is gone, or not triggered, for done.  The page is
\* rendered again; the bell waits for its next poll.
PressReturns(c) ==
  /\ c.kind \in {"dismiss", "delete"} /\ c.status # "sent"
  /\ Finish(c)
  /\ alertPage' = [alertPage EXCEPT !.rows = alertRow]
  /\ UNCHANGED <<alertRow, evaluating, bell, polls>>

CreateReturns(c) ==
  /\ c.kind = "create" /\ c.status \notin {"sent", "counted"}
  /\ Finish(c)
  /\ alertPage' = IF c.status = "201"
                  THEN [alertPage EXCEPT !.rows = alertRow, !.form = "created"]
                  ELSE [alertPage EXCEPT !.form = "refused"]
  /\ UNCHANGED <<alertRow, evaluating, bell, polls>>

\* Nobody is signed in any more.
PressSignedOut(c) ==
  /\ c.status = "sent"
  /\ Finish(c)
  /\ alertPage' = IF c.kind = "create" THEN [alertPage EXCEPT !.form = "refused"] ELSE alertPage
  /\ UNCHANGED <<alertRow, evaluating, bell, polls>>

\* The connection to the API breaks, before or after the write: the error boundary.
PressLost(c) ==
  /\ Finish(c)
  /\ alertPage' = [alertPage EXCEPT !.error = TRUE]
  /\ UNCHANGED <<alertRow, evaluating, bell, polls>>

\* Try again mounts the form anew and renders the rows the browser has.
ResetAlerts ==
  /\ alertPage.error
  /\ alertPage' = [alertPage EXCEPT !.error = FALSE, !.form = "new"]
  /\ UNCHANGED <<alertRow, evaluating, bell, polls, presses>>

AlertsNext ==
  \/ Interval
  \/ \E p \in polls : PollServed(p) \/ PollRefused(p) \/ PollLands(p) \/ PollLost(p)
  \/ \E a \in Alerts : CreateAlert(a) \/ SetElsewhere(a)
                       \/ \E kind \in {"dismiss", "delete"} : Press(kind, a)
  \/ \E c \in presses.calls :
       \/ ApiCounts(c) \/ ApiInserts(c) \/ ApiDismisses(c) \/ ApiDeletes(c)
       \/ PressReturns(c) \/ CreateReturns(c) \/ PressSignedOut(c) \/ PressLost(c)
  \/ ReadPending \/ \E hits \in SUBSET Alerts : CommitHits(hits)
  \/ \E view \in Views : ChooseView(view)
  \/ ResetAlerts

\* The interval goes on, every request ends, and requests are not refused or lost for ever.
Delivered(p) == p.status = "ok" /\ PollLands(p)
PollOf(i, Step_(_)) == \E p \in polls : p.id = i /\ Step_(p)
AlertsFairness ==
  /\ WF_alertVars(Interval)
  /\ \A i \in 1..MaxPolls :
       /\ SF_alertVars(PollOf(i, PollServed))
       /\ WF_alertVars(PollOf(i, PollLands))
       /\ SF_alertVars(PollOf(i, Delivered))

AlertsSpec == AlertsInit /\ [][AlertsNext]_alertVars /\ AlertsFairness

-----------------------------------------------------------------------------
\* An alert that has triggered gets to the bell, unless it is dismissed or deleted first,
\* also when polls overlap, land out of order, are refused or fail (alerts-bell.tsx:52-70).
BellCatchesUp ==
  \A a \in Alerts : alertRow[a] = "triggered" ~> Unread(a) \/ alertRow[a] # "triggered"

=============================================================================
