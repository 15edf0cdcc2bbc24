------------------------------ MODULE ReplayDesk ------------------------------
(***************************************************************************)
(* The workspace of a replay session in the browser                         *)
(* (apps/web/app/(product)/(authed)/replay/[sessionId]/page.tsx): market    *)
(* ticket, advance and cancel controls, decision journal.  The page is      *)
(* rendered on the server, the forms post server actions                    *)
(* (replay/actions.ts), and another tab may work on the same session.       *)
(***************************************************************************)
EXTENDS Integers, FiniteSets

CONSTANTS
  LastBar,      \* the session's bars are 1..LastBar
  MaxFills,     \* bound: fills of the session
  MaxViews,     \* bound: times the forms are mounted
  MaxCalls      \* bound: server actions under way at once

ASSUME DeskAssumption == {LastBar, MaxFills, MaxViews, MaxCalls} \subseteq Nat \ {0}

VARIABLES
  session,    \* the session at the API
  desk,       \* the workspace: the session as rendered, view, mounted forms, error
  calls,      \* the forms' server actions under way
  said        \* what the forms announce

deskVars == <<session, desk, calls, said>>

Nothing == [order |-> 0, from |-> 0, to |-> 0, error |-> "none"]

DeskInit ==
  /\ session = [clock |-> 1, status |-> "active", fills |-> 0, reflection |-> FALSE]
  /\ desk = [shown |-> session, view |-> "replay", mount |-> 1, confirming |-> FALSE, alive |-> TRUE]
  /\ calls = {}
  /\ said = Nothing

-----------------------------------------------------------------------------
\* The workspace as the server renders it from the API's session.
Rendered == session

ReadOnly == desk.shown.status # "active"

Busy(kind) == \E c \in calls : c.kind = kind /\ c.mount = desk.mount

\* The other view mounts other forms; what the ones before announced is gone.
SwitchView(view) ==
  /\ desk.alive /\ view # desk.view /\ desk.mount < MaxViews
  /\ desk' = [desk EXCEPT !.shown = Rendered, !.view = view, !.mount = @ + 1, !.confirming = FALSE]
  /\ said' = Nothing
  /\ UNCHANGED <<session, calls>>

Call(kind, body) ==
  /\ desk.alive
  /\ ~ Busy(kind)
  /\ Cardinality(calls) < MaxCalls
  /\ calls' = calls \cup {[kind |-> kind, mount |-> desk.mount, from |-> desk.shown.clock,
                           body |-> body, is |-> "sent", got |-> 0]}
  /\ UNCHANGED <<session, desk, said>>

SubmitOrder ==
  /\ desk.view = "replay" /\ ~ ReadOnly
  /\ session.fills < MaxFills
  /\ Call("order", FALSE)

\* The button is off at the last bar that was rendered.
SubmitAdvance ==
  /\ desk.view = "replay" /\ ~ ReadOnly
  /\ desk.shown.clock < LastBar
  /\ Call("advance", FALSE)

AskCancel(confirming) ==
  /\ desk.alive /\ desk.view = "replay" /\ ~ ReadOnly
  /\ desk' = [desk EXCEPT !.confirming = confirming]
  /\ UNCHANGED <<session, calls, said>>

ConfirmCancel ==
  /\ desk.view = "replay" /\ ~ ReadOnly /\ desk.confirming
  /\ Call("cancel", FALSE)

\* The reflection has a field once the session is completed or the thesis locked; without
\* the field the form sends none.
ReflectionField == desk.shown.status = "completed" \/ desk.shown.fills > 0

SaveJournal(reflection) ==
  /\ desk.view = "forensics"
  /\ reflection => ReflectionField
  /\ Call("journal", reflection)

-----------------------------------------------------------------------------
\* What the API does with a request: the session after it and the status code.
Advanced == [session EXCEPT !.clock = @ + 1,
                            !.status = IF session.clock + 1 = LastBar THEN "completed" ELSE @]

Executed(c) ==
  CASE c.kind = "order" -> [session EXCEPT !.fills = @ + 1]
    [] c.kind = "advance" -> Advanced
    [] c.kind = "cancel" -> [session EXCEPT !.status = "cancelled"]
    [] OTHER -> [session EXCEPT !.reflection = c.body]

Allowed(c) ==
  CASE c.kind = "journal" -> TRUE
    [] c.kind = "cancel" -> session.status # "completed"
    [] OTHER -> session.status = "active"

Outcome(c, is, got) == calls' = (calls \ {c}) \cup {[c EXCEPT !.is = is, !.got = got]}

ApiExecutes(c) ==
  /\ c.is = "sent" /\ Allowed(c)
  /\ session' = Executed(c)
  /\ Outcome(c, "done", IF c.kind = "advance" THEN session'.clock ELSE session'.fills)
  /\ UNCHANGED <<desk, said>>

\* 409 for a session that is no longer active, 422 for cash or shares, 5xx.
ApiRefuses(c) ==
  /\ c.is = "sent"
  /\ Outcome(c, "refused", 0)
  /\ UNCHANGED <<session, desk, said>>

\* Mutation: only the list of sessions is revalidated.
ListOnly == desk.shown

\* An action that succeeds revalidates the session's page.
Revalidated == Rendered

Announced(c) ==
  IF c.mount # desk.mount \/ ~ desk.alive THEN said
  ELSE CASE c.kind = "order" -> [said EXCEPT !.order = c.got, !.error = "none"]
         [] c.kind = "advance" -> [said EXCEPT !.from = c.from, !.to = c.got, !.error = "none"]
         [] OTHER -> [said EXCEPT !.error = "none"]

ActionReturns(c) ==
  /\ c.is = "done"
  /\ calls' = calls \ {c}
  /\ desk' = [desk EXCEPT !.shown = Revalidated]
  /\ said' = Announced(c)
  /\ UNCHANGED session

\* mapError: a message for the form, and nothing is revalidated.
ActionFails(c) ==
  /\ c.is = "refused"
  /\ calls' = calls \ {c}
  /\ said' = IF c.mount = desk.mount /\ desk.alive THEN [said EXCEPT !.error = c.kind] ELSE said
  /\ UNCHANGED <<session, desk>>

\* The connection breaks: the action throws into the error boundary.
ActionLost(c) ==
  /\ calls' = calls \ {c}
  /\ desk' = [desk EXCEPT !.alive = @ /\ c.mount # desk.mount]
  /\ UNCHANGED <<session, said>>

ResetDesk ==
  /\ ~ desk.alive /\ desk.mount < MaxViews
  /\ desk' = [desk EXCEPT !.alive = TRUE, !.mount = @ + 1, !.confirming = FALSE]
  /\ said' = Nothing
  /\ UNCHANGED <<session, calls>>

\* Another tab works on the session.
OtherTab ==
  /\ \E c \in [kind : {"order", "advance", "cancel", "journal"}, body : BOOLEAN] :
       /\ Allowed(c)
       /\ c.kind = "order" => session.fills < MaxFills
       /\ session' = Executed(c)
  /\ UNCHANGED <<desk, calls, said>>

DeskNext ==
  \/ \E view \in {"replay", "forensics"} : SwitchView(view)
  \/ SubmitOrder \/ SubmitAdvance \/ ConfirmCancel
  \/ \E b \in BOOLEAN : AskCancel(b) \/ SaveJournal(b)
  \/ \E c \in calls : \/ ApiExecutes(c) \/ ApiRefuses(c)
                      \/ ActionReturns(c) \/ ActionFails(c) \/ ActionLost(c)
  \/ ResetDesk
  \/ OtherTab

DeskSpec == DeskInit /\ [][DeskNext]_deskVars

-----------------------------------------------------------------------------
\* A fill or an advance that is announced is also what the page around it shows, and an
\* advance leads on from the date its button stood under (replay/actions.ts:110-128, 182-193).
AnnouncedIsShown ==
  desk.alive =>
    /\ said.order <= desk.shown.fills
    /\ said.to # 0 => said.from < said.to /\ said.to <= desk.shown.clock

=============================================================================
