--------------------------- MODULE WebFormsProofs ---------------------------
(***************************************************************************)
(* Proofs about what the web client types, submits and is answered, for     *)
(* every number of texts, submissions, browsers and calls under way.        *)
(***************************************************************************)
EXTENDS TickerSearch, SignIn, Watching, OrderTicket, StockPage, TLAPS

-----------------------------------------------------------------------------
(* The ticker search.                                                        *)

PaletteFields == {"open", "mounted", "query", "status", "results", "active", "request"}

\* A search that is due or under way with the newest number is for what is typed; a list
\* that is ready answers it, unless another search is due.
SearchSound ==
  /\ DOMAIN palette = PaletteFields
  /\ palette.query \in Texts /\ palette.request \in Nat
  /\ timeout # NoSearch =>
       HasQuery /\ timeout = [id |-> palette.request, query |-> Trimmed[palette.query]]
  /\ \A r \in searching :
       /\ r.id \in Nat /\ r.id <= palette.request
       /\ r.id = palette.request =>
            HasQuery /\ r.query = Trimmed[palette.query] /\ timeout = NoSearch
  /\ ListAnswersQuery

LEMMA InitSearchSound == SearchInit => SearchSound
BY SearchAssumption
   DEF SearchInit, SearchSound, PaletteFields, HasQuery, NoSearch, ListAnswersQuery

LEMMA TypeSound ==
  ASSUME SearchSound, NEW text \in Texts, Type(text)
  PROVE  SearchSound'
<1>1. /\ palette' = [(IF Trimmed[text] = Empty
                      THEN [palette EXCEPT !.results = <<>>, !.status = "idle"] ELSE palette)
                     EXCEPT !.query = text, !.request = palette.request + 1, !.active = -1]
      /\ timeout' = (IF Trimmed[text] = Empty THEN NoSearch
                     ELSE [id |-> palette.request + 1, query |-> Trimmed[text]])
      /\ searching' = searching
  BY DEF Type, Search, NextRequest
<1>2. /\ DOMAIN palette' = PaletteFields /\ palette'.query = text
      /\ palette'.request = palette.request + 1
      /\ Trimmed[text] = Empty => palette'.results = <<>> /\ palette'.status = "idle"
      /\ Trimmed[text] # Empty => palette'.results = palette.results /\ palette'.status = palette.status
  BY <1>1 DEF SearchSound, PaletteFields
<1>3. HasQuery' <=> Trimmed[text] # Empty
  BY <1>2 DEF HasQuery
<1>4. \A r \in searching' : r.id \in Nat /\ r.id < palette'.request
  BY <1>1, <1>2 DEF SearchSound
<1>5. Trimmed[text] # Empty => timeout' # NoSearch
  BY <1>1 DEF NoSearch
<1>6. ListAnswersQuery'
  BY <1>1, <1>2, <1>3, <1>5 DEF ListAnswersQuery
<1>7. palette'.request \in Nat
  BY <1>2 DEF SearchSound
<1>. QED
  BY <1>1, <1>2, <1>3, <1>4, <1>6, <1>7 DEF SearchSound

LEMMA SelectSound ==
  ASSUME SearchSound, NEW ticker, Select(ticker)
  PROVE  SearchSound'
<1>1. palette' = Picked /\ timeout' = NoSearch /\ searching' = searching
  BY DEF Select
<1>2. /\ DOMAIN palette' = PaletteFields /\ palette'.query = Empty /\ palette'.status = "idle"
      /\ palette'.results = <<>>
      /\ palette'.request = IF palette.query = Empty THEN palette.request ELSE palette.request + 1
  BY <1>1 DEF Picked, NextRequest, PaletteFields
<1>3. ~ HasQuery'
  BY <1>2, SearchAssumption DEF HasQuery
<1>4. palette'.request \in Nat
  BY <1>2 DEF SearchSound
<1>5. \A r \in searching' : r.id \in Nat /\ r.id <= palette'.request /\ r.id # palette'.request
  BY <1>1, <1>2, SearchAssumption DEF SearchSound, HasQuery
<1>6. ListAnswersQuery'
  BY <1>2, <1>3 DEF ListAnswersQuery
<1>. QED
  BY <1>1, <1>2, <1>4, <1>5, <1>6, SearchAssumption DEF SearchSound

LEMMA StepSearchSound == SearchSound /\ [SearchNext]_searchVars => SearchSound'
<1> SUFFICES ASSUME SearchSound, [SearchNext]_searchVars PROVE SearchSound'
  OBVIOUS
<1>1. CASE OpenPalette \/ ClosePalette \/ Unmount \/ ArrowDown \/ ArrowUp
           \/ \E i \in 1..8 : Hover(i)
  BY <1>1 DEF OpenPalette, ClosePalette, Unmount, ArrowDown, ArrowUp, Hover, SearchSound,
              PaletteFields, HasQuery, ListAnswersQuery
<1>2. CASE SendSearch
  BY <1>2 DEF SendSearch, SearchSound, PaletteFields, HasQuery, ListAnswersQuery
<1>3. ASSUME NEW r \in searching, SearchAnswered(r) PROVE SearchSound'
  BY <1>3 DEF SearchAnswered, IsCurrent, SearchSound, PaletteFields, HasQuery, ListAnswersQuery
<1>4. ASSUME NEW r \in searching, SearchFailed(r) PROVE SearchSound'
  BY <1>4 DEF SearchFailed, IsCurrent, SearchSound, PaletteFields, HasQuery, ListAnswersQuery
<1>5. CASE (\E i \in 1..8 : Click(i)) \/ Enter
  BY <1>5, SelectSound DEF Click, Enter
<1>6. CASE UNCHANGED searchVars
  BY <1>6 DEF searchVars, SearchSound, HasQuery, ListAnswersQuery
<1>. QED
  BY <1>1, <1>2, <1>3, <1>4, <1>5, <1>6, TypeSound DEF SearchNext

\* Once the debounce is over the list answers what is typed, for any texts, any number of
\* searches under way and any order of their answers.
THEOREM SearchSafe == SearchSpec => []ListAnswersQuery
<1>1. SearchSound => ListAnswersQuery
  BY DEF SearchSound
<1>. QED
  BY <1>1, InitSearchSound, StepSearchSound, PTL DEF SearchSpec

-----------------------------------------------------------------------------
(* Accounts and sessions.                                                    *)

Rows == [email : Spellings, password : Passwords \cup {NoPassword}]
BrowserFields == {"at", "target", "session", "message"}
ActionFields == {"kind", "email", "password", "step"}

\* Every address is stored in lower case.
TableSound ==
  /\ users \in Seq(Rows)
  /\ \A i \in DOMAIN users : LowerCase[users[i].email] = users[i].email
  /\ \A i, j \in DOMAIN users : users[i].email = users[j].email => i = j

\* A session names a row, and the proxy lets nobody pass without one.
SessionsSound ==
  /\ DOMAIN browsers = Browsers
  /\ \A b \in Browsers :
       /\ DOMAIN browsers[b] = BrowserFields
       /\ browsers[b].session \in {0} \cup DOMAIN users
       /\ browsers[b].at = ProtectedPage => browsers[b].session # 0

FormsSound ==
  /\ DOMAIN underway = Browsers
  /\ \A b \in Browsers :
       /\ DOMAIN underway[b] = ActionFields
       /\ underway[b].kind # "none" =>
            underway[b].email \in Spellings /\ underway[b].password \in Passwords \cup {NoPassword}

SignInSound == TableSound /\ SessionsSound /\ FormsSound

LEMMA InitSignInSound == SignInInit => SignInSound
<1> SUFFICES ASSUME SignInInit PROVE SignInSound
  OBVIOUS
<1>1. TableSound
  BY DEF SignInInit, TableSound
<1>2. SessionsSound
  BY SignInAssumption DEF SignInInit, SessionsSound, BrowserFields
<1>3. FormsSound
  BY DEF SignInInit, FormsSound, ActionFields, Idle
<1>. QED
  BY <1>1, <1>2, <1>3 DEF SignInSound

\* A row whose lower-case address is free is added at the end.
LEMMA InsertSound ==
  ASSUME SignInSound, NEW email \in Spellings, NEW password \in Passwords \cup {NoPassword},
         ~ Taken(NewRow(email, password)), users' = Append(users, NewRow(email, password))
  PROVE  TableSound' /\ DOMAIN users' = DOMAIN users \cup {Len(users) + 1} /\ Len(users) + 1 # 0
<1> DEFINE row == NewRow(email, password)
<1>1. row \in Rows /\ LowerCase[row.email] = row.email
  BY SignInAssumption DEF NewRow, Rows, Spellings
<1>2. users \in Seq(Rows) /\ Len(users) \in Nat /\ DOMAIN users = 1..Len(users)
  BY DEF SignInSound, TableSound
<1>3. \A i \in DOMAIN users : users[i].email # row.email
  BY DEF Taken
<1>4. users' = Append(users, row)
  OBVIOUS
<1> HIDE DEF row
<1>5. /\ users' \in Seq(Rows) /\ DOMAIN users' = 1..(Len(users) + 1)
      /\ \A i \in DOMAIN users : users'[i] = users[i]
      /\ users'[Len(users) + 1] = row
  BY <1>1, <1>2, <1>4
<1>6. \A i \in DOMAIN users' : i \in DOMAIN users \/ i = Len(users) + 1
  BY <1>2, <1>5
<1>7. \A i \in DOMAIN users' : LowerCase[users'[i].email] = users'[i].email
  BY <1>1, <1>5, <1>6 DEF SignInSound, TableSound
<1>8. \A i, j \in DOMAIN users' : users'[i].email = users'[j].email => i = j
  BY <1>3, <1>5, <1>6 DEF SignInSound, TableSound
<1>. QED
  BY <1>2, <1>5, <1>7, <1>8 DEF TableSound

\* Answers, and a session for a row that exists, keep the rest.
LEMMA AnswerSound ==
  ASSUME SignInSound, TableSound', DOMAIN users \subseteq DOMAIN users', NEW b \in Browsers,
         \/ \E text : Message(b, text)
         \/ Throws(b)
         \/ \E id \in DOMAIN users' : id # 0 /\ StartSession(b, id)
         \/ \E step : Goes(b, step) /\ UNCHANGED browsers
  PROVE  SignInSound'
<1>1. \A c \in Browsers \ {b} : browsers'[c] = browsers[c] /\ underway'[c] = underway[c]
  BY DEF SignInSound, SessionsSound, FormsSound, Message, Throws, StartSession, Goes
<1>2. DOMAIN browsers' = Browsers /\ DOMAIN underway' = Browsers
  BY DEF SignInSound, SessionsSound, FormsSound, Message, Throws, StartSession, Goes
<1>3. CASE \E text : Message(b, text)
  <2>1. underway'[b] = Idle
    BY <1>3 DEF Message, SignInSound, FormsSound
  <2>2. DOMAIN browsers'[b] = BrowserFields
    BY <1>3 DEF Message, SignInSound, SessionsSound
  <2>3. browsers'[b].session = browsers[b].session /\ browsers'[b].at = browsers[b].at
    BY <1>3 DEF Message, SignInSound, SessionsSound, BrowserFields
  <2>. QED
    BY <1>1, <1>2, <2>1, <2>2, <2>3
       DEF SignInSound, SessionsSound, FormsSound, ActionFields, Idle
<1>4. CASE Throws(b)
  <2>0. underway'[b] = Idle
    BY <1>4 DEF Throws, SignInSound, FormsSound
  <2>1. /\ DOMAIN browsers'[b] = BrowserFields
        /\ browsers'[b].session = browsers[b].session /\ browsers'[b].at = "error page"
    BY <1>4 DEF Throws, SignInSound, SessionsSound, BrowserFields
  <2>2. ProtectedPage # "error page"
    BY SignInAssumption
  <2>3. SessionsSound'
    BY <1>1, <1>2, <2>1, <2>2 DEF SignInSound, SessionsSound
  <2>4. FormsSound'
    BY <1>1, <1>2, <2>0 DEF SignInSound, FormsSound, ActionFields, Idle
  <2>. QED
    BY <2>3, <2>4 DEF SignInSound
<1>5. CASE \E id \in DOMAIN users' : id # 0 /\ StartSession(b, id)
  <2>1. PICK id \in DOMAIN users' : id # 0 /\ StartSession(b, id)
    BY <1>5
  <2>2. /\ underway'[b] = Idle /\ DOMAIN browsers'[b] = BrowserFields
        /\ browsers'[b].session = id
    BY <2>1 DEF StartSession, SignInSound, SessionsSound, FormsSound, BrowserFields
  <2>. QED
    BY <1>1, <1>2, <2>1, <2>2
       DEF SignInSound, SessionsSound, FormsSound, ActionFields, Idle
<1>6. CASE \E step : Goes(b, step) /\ UNCHANGED browsers
  <2>1. /\ browsers' = browsers /\ DOMAIN underway'[b] = ActionFields
        /\ underway'[b].kind = underway[b].kind /\ underway'[b].email = underway[b].email
        /\ underway'[b].password = underway[b].password
    BY <1>6 DEF Goes, SignInSound, FormsSound, ActionFields
  <2>. QED
    BY <1>1, <1>2, <2>1 DEF SignInSound, SessionsSound, FormsSound
<1>. QED
  BY <1>3, <1>4, <1>5, <1>6

LEMMA StepSignInSound == SignInSound /\ [SignInNext]_signInVars => SignInSound'
<1> SUFFICES ASSUME SignInSound, [SignInNext]_signInVars PROVE SignInSound'
  OBVIOUS
<1>0. \A id \in DOMAIN users : id # 0
  BY DEF SignInSound, TableSound
<1>1. ASSUME NEW b \in Browsers, NEW page, Visit(b, page) PROVE SignInSound'
  BY <1>1, SignInAssumption
     DEF Visit, SignInSound, TableSound, SessionsSound, FormsSound, BrowserFields
<1>2. ASSUME NEW b \in Browsers, NEW page \in {"login", "signup"}, OpenForm(b, page)
      PROVE  SignInSound'
  BY <1>2, SignInAssumption
     DEF OpenForm, SignInSound, TableSound, SessionsSound, FormsSound, BrowserFields
<1>3. ASSUME NEW b \in Browsers, SubmitForm(b) \/ ContinueWithGoogle(b) PROVE SignInSound'
  BY <1>3 DEF SubmitForm, ContinueWithGoogle, SignInSound, TableSound, SessionsSound,
              FormsSound, ActionFields
<1>4. UNCHANGED users => TableSound'
  BY DEF SignInSound, TableSound
<1>5. ASSUME NEW b \in Browsers, Gate(b) \/ SignupFinds(b) \/ SignInFails(b) \/ TableFails(b)
      PROVE  SignInSound'
  BY <1>4, <1>5, AnswerSound DEF Gate, SignupFinds, SignInFails, TableFails
<1>6. ASSUME NEW b \in Browsers, SignupInserts(b) PROVE SignInSound'
  <2>1. underway[b].email \in Spellings /\ underway[b].password \in Passwords \cup {NoPassword}
    BY <1>6 DEF SignupInserts, At, SignInSound, FormsSound
  <2>2. CASE Taken(NewRow(underway[b].email, underway[b].password))
    BY <1>4, <1>6, <2>2, AnswerSound DEF SignupInserts
  <2>3. CASE ~ Taken(NewRow(underway[b].email, underway[b].password))
    BY <1>6, <2>1, <2>3, InsertSound, AnswerSound DEF SignupInserts
  <2>. QED
    BY <2>2, <2>3
<1>7. ASSUME NEW b \in Browsers, SignsIn(b) PROVE SignInSound'
  <2>1. (CHOOSE id \in authorize(underway[b]) : TRUE) \in DOMAIN users
    BY <1>7 DEF SignsIn, authorize, findUserByEmail
  <2>. QED
    BY <1>0, <1>4, <1>7, <2>1, AnswerSound DEF SignsIn
<1>8. ASSUME NEW b \in Browsers, GoogleFinds(b) PROVE SignInSound'
  <2> DEFINE found == findUserByEmail(underway[b].email)
  <2>1. found # {} => (CHOOSE id \in found : TRUE) \in DOMAIN users
    BY DEF findUserByEmail
  <2>. QED
    BY <1>0, <1>4, <1>8, <2>1, AnswerSound DEF GoogleFinds
<1>9. ASSUME NEW b \in Browsers, GoogleInserts(b) PROVE SignInSound'
  <2>1. underway[b].email \in Spellings
    BY <1>9 DEF GoogleInserts, At, SignInSound, FormsSound
  <2>2. CASE Taken(NewRow(underway[b].email, NoPassword))
    BY <1>4, <1>9, <2>2, AnswerSound DEF GoogleInserts
  <2>3. CASE ~ Taken(NewRow(underway[b].email, NoPassword))
    BY <1>9, <2>1, <2>3, InsertSound, AnswerSound DEF GoogleInserts
  <2>. QED
    BY <2>2, <2>3
<1>10. ASSUME NEW b \in Browsers, SignOut(b) PROVE SignInSound'
  BY <1>10, SignInAssumption
     DEF SignOut, SignInSound, TableSound, SessionsSound, FormsSound, BrowserFields
<1>11. CASE (\E k \in Keys : WindowEnds(k)) \/ UNCHANGED signInVars
  BY <1>11 DEF WindowEnds, signInVars, SignInSound, TableSound, SessionsSound, FormsSound
<1>. QED
  BY <1>1, <1>2, <1>3, <1>5, <1>6, <1>7, <1>8, <1>9, <1>10, <1>11 DEF SignInNext

\* One account per address and no protected page without one, for any browsers, spellings,
\* limits and interleavings of sign-ups and Google sign-ins.
THEOREM AccountsSafe == SignInSpec => []OneAccountPerAddress
<1>1. SignInSound => OneAccountPerAddress
  BY DEF SignInSound, TableSound, SessionsSound, OneAccountPerAddress
<1>. QED
  BY <1>1, InitSignInSound, StepSignInSound, PTL DEF SignInSpec

-----------------------------------------------------------------------------
(* The watchlist's star.                                                     *)

CallFields == {"id", "button", "symbol", "wantOn", "status"}

\* Calls are numbered as their buttons are pressed, and only a call that the API has carried
\* out is named as a writer.
CallsSound ==
  /\ DOMAIN toggles = {"calls", "count"} /\ toggles.count \in Nat
  /\ \A c \in toggles.calls :
       /\ DOMAIN c = CallFields
       /\ c.id \in 1..toggles.count /\ c.symbol \in Watchable /\ c.wantOn \in BOOLEAN
       /\ c.button = "star" => c.symbol = Starred
  /\ \A c, d \in toggles.calls : c.id = d.id => c = d

ItemsSound ==
  /\ DOMAIN items = {"listed", "writer"} /\ DOMAIN items.writer = Watchable
  /\ \A s \in Watchable : items.writer[s] \in 0..toggles.count
  /\ \A c \in toggles.calls, s \in Watchable :
       items.writer[s] = c.id =>
         c.status # "sent" /\ c.symbol = s /\ (c.wantOn <=> s \in items.listed)

\* The press a star answers is over, and the list still says what it asked for unless
\* another has written the symbol since.
StarSound ==
  /\ DOMAIN watchPage = {"read", "star", "pending", "error"}
  /\ DOMAIN watchPage.read = {"at", "listed", "addable"}
  /\ watchPage.star.answered =>
       /\ watchPage.star.by \in 1..toggles.count /\ watchPage.star.on \in BOOLEAN
       /\ \A c \in toggles.calls : c.id # watchPage.star.by
       /\ items.writer[Starred] = watchPage.star.by =>
            (watchPage.star.on <=> Starred \in items.listed)

WatchingSound == CallsSound /\ ItemsSound /\ StarSound

LEMMA InitWatchingSound == WatchingInit => WatchingSound
BY DEF WatchingInit, WatchingFrom, WatchingSound, CallsSound, ItemsSound, StarSound,
       Mounted_, NotPressed, NoOne

LEMMA SubmitSound ==
  ASSUME WatchingSound, NEW button, NEW symbol \in Watchable, NEW wantOn \in BOOLEAN,
         button = "star" => symbol = Starred, Submit_(button, symbol, wantOn)
  PROVE  WatchingSound'
<1> DEFINE call == [id |-> toggles.count + 1, button |-> button, symbol |-> symbol,
                    wantOn |-> wantOn, status |-> "sent"]
<1>1. /\ toggles' = [count |-> toggles.count + 1, calls |-> toggles.calls \cup {call}]
      /\ watchPage' = [watchPage EXCEPT !.pending = @ \cup {toggles.count + 1}]
      /\ items' = items
  BY DEF Submit_
<1>2. DOMAIN call = CallFields /\ call.id = toggles.count + 1 /\ call.symbol = symbol
      /\ call.button = button /\ call.wantOn = wantOn
  BY DEF CallFields
<1> HIDE DEF call
<1>3. /\ toggles.count \in Nat /\ toggles'.count = toggles.count + 1
      /\ toggles'.calls = toggles.calls \cup {call} /\ DOMAIN toggles' = {"calls", "count"}
      /\ watchPage'.star = watchPage.star /\ watchPage'.read = watchPage.read
      /\ DOMAIN watchPage' = DOMAIN watchPage
  BY <1>1 DEF WatchingSound, CallsSound, StarSound
<1>4. CallsSound'
  BY <1>2, <1>3 DEF WatchingSound, CallsSound
<1>5. ItemsSound'
  BY <1>1, <1>2, <1>3 DEF WatchingSound, CallsSound, ItemsSound
<1>6. StarSound'
  BY <1>1, <1>2, <1>3 DEF WatchingSound, CallsSound, StarSound
<1>. QED
  BY <1>4, <1>5, <1>6 DEF WatchingSound

\* A call gets an outcome; its identity stays.
LEMMA OutcomeOfCall ==
  ASSUME WatchingSound, NEW c \in toggles.calls, NEW status, ToggleAnswered(c, status)
  PROVE  /\ CallsSound' /\ toggles'.count = toggles.count
         /\ \A d \in toggles'.calls :
              \/ d \in toggles.calls \ {c}
              \/ d.id = c.id /\ d.symbol = c.symbol /\ d.wantOn = c.wantOn /\ d.status = status
<1> DEFINE answered == [c EXCEPT !.status = status]
<1>1. toggles' = [toggles EXCEPT !.calls = (@ \ {c}) \cup {answered}]
  BY DEF ToggleAnswered
<1>2. /\ DOMAIN answered = CallFields /\ answered.id = c.id /\ answered.button = c.button
      /\ answered.symbol = c.symbol /\ answered.wantOn = c.wantOn /\ answered.status = status
  BY DEF WatchingSound, CallsSound, CallFields
<1> HIDE DEF answered
<1>3. /\ toggles'.count = toggles.count /\ DOMAIN toggles' = {"calls", "count"}
      /\ toggles'.calls = (toggles.calls \ {c}) \cup {answered}
  BY <1>1 DEF WatchingSound, CallsSound
<1>. QED
  BY <1>2, <1>3 DEF WatchingSound, CallsSound

LEMMA ApiTogglesSound ==
  ASSUME WatchingSound, NEW c \in toggles.calls, ApiToggles(c)
  PROVE  WatchingSound'
<1>1. PICK status \in {"done", "404"} : ToggleAnswered(c, status)
  BY DEF ApiToggles
<1>2. /\ CallsSound' /\ toggles'.count = toggles.count
      /\ \A d \in toggles'.calls :
           \/ d \in toggles.calls \ {c}
           \/ d.id = c.id /\ d.symbol = c.symbol /\ d.wantOn = c.wantOn /\ d.status # "sent"
  BY <1>1, OutcomeOfCall
<1>3. /\ DOMAIN items' = {"listed", "writer"} /\ DOMAIN items'.writer = Watchable
      /\ items'.writer[c.symbol] = c.id /\ (c.symbol \in items'.listed <=> c.wantOn)
      /\ \A s \in Watchable \ {c.symbol} :
           items'.writer[s] = items.writer[s] /\ (s \in items'.listed <=> s \in items.listed)
  BY DEF ApiToggles, WatchingSound, CallsSound, ItemsSound
<1>4. /\ c.symbol \in Watchable /\ c.id \in 1..toggles.count /\ c.status = "sent"
      /\ \A d \in toggles.calls \ {c} : d.id # c.id
  BY DEF ApiToggles, WatchingSound, CallsSound
<1>5. ItemsSound'
  BY <1>2, <1>3, <1>4 DEF WatchingSound, ItemsSound
<1>6. StarSound'
  <2>1. watchPage' = watchPage
    BY DEF ApiToggles
  <2>. QED
    BY <1>2, <1>3, <1>4, <2>1, WatchingAssumption DEF WatchingSound, StarSound
<1>. QED
  BY <1>2, <1>5, <1>6 DEF WatchingSound

\* A call is over, and the page keeps its star, mounts a new one or takes the answer.
LEMMA OverSound ==
  ASSUME WatchingSound, NEW c \in toggles.calls,
         toggles' = [toggles EXCEPT !.calls = @ \ {c}], items' = items,
         DOMAIN watchPage' = {"read", "star", "pending", "error"},
         DOMAIN watchPage'.read = {"at", "listed", "addable"},
         \/ watchPage'.star = watchPage.star
         \/ watchPage'.star = NotPressed
         \/ /\ c.status # "sent" /\ c.button = "star"
            /\ watchPage'.star = [answered |-> TRUE, on |-> c.wantOn, by |-> c.id]
  PROVE  WatchingSound'
<1>1. /\ toggles'.count = toggles.count /\ DOMAIN toggles' = {"calls", "count"}
      /\ toggles'.calls = toggles.calls \ {c}
  BY DEF WatchingSound, CallsSound
<1>2. CallsSound'
  BY <1>1 DEF WatchingSound, CallsSound
<1>3. ItemsSound'
  BY <1>1 DEF WatchingSound, ItemsSound
<1>4. /\ c.id \in 1..toggles.count /\ c.wantOn \in BOOLEAN /\ (c.button = "star" => c.symbol = Starred)
      /\ \A d \in toggles'.calls : d.id # c.id
  BY <1>1 DEF WatchingSound, CallsSound
<1>5. c.button = "star" /\ items.writer[Starred] = c.id => (c.wantOn <=> Starred \in items.listed)
  BY WatchingAssumption DEF WatchingSound, ItemsSound
<1>6. StarSound'
  BY <1>1, <1>4, <1>5 DEF WatchingSound, StarSound, NotPressed
<1>. QED
  BY <1>2, <1>3, <1>6 DEF WatchingSound

LEMMA StepWatchingSound == WatchingSound /\ [WatchingNext]_watchVars => WatchingSound'
<1> SUFFICES ASSUME WatchingSound, [WatchingNext]_watchVars PROVE WatchingSound'
  OBVIOUS
<1>1. CASE PressStar
  BY <1>1, SubmitSound, WatchingAssumption DEF PressStar
<1>2. ASSUME NEW s \in Watchable, AddSymbol(s) PROVE WatchingSound'
  BY <1>2, SubmitSound DEF AddSymbol
<1>3. ASSUME NEW s \in Watchable, RemoveRow(s) PROVE WatchingSound'
  BY <1>3, SubmitSound, WatchingAssumption DEF RemoveRow
<1>4. ASSUME NEW s \in Watchable, ToggledElsewhere(s) PROVE WatchingSound'
  BY <1>4 DEF ToggledElsewhere, WatchingSound, CallsSound, ItemsSound, StarSound, NoOne
<1>5. ASSUME NEW c \in toggles.calls, ApiRejects(c) PROVE WatchingSound'
  <2>1. items' = items /\ watchPage' = watchPage /\ c.status = "sent"
    BY <1>5 DEF ApiRejects
  <2>2. /\ CallsSound' /\ toggles'.count = toggles.count
        /\ \A d \in toggles'.calls : d \in toggles.calls \/ (d.id = c.id /\ d.symbol = c.symbol)
    BY <1>5, OutcomeOfCall DEF ApiRejects
  <2>3. \A s \in Watchable : items.writer[s] # c.id
    BY <2>1 DEF WatchingSound, ItemsSound
  <2>. QED
    BY <2>1, <2>2, <2>3 DEF WatchingSound, ItemsSound, StarSound
<1>6. ASSUME NEW c \in toggles.calls, ToggleRefused(c) PROVE WatchingSound'
  BY <1>6, OverSound DEF ToggleRefused, WatchingSound, StarSound
<1>7. ASSUME NEW c \in toggles.calls, ToggleLost(c) PROVE WatchingSound'
  BY <1>7, OverSound DEF ToggleLost, WatchingSound, StarSound
<1>8. ASSUME NEW c \in toggles.calls, NEW readable \in BOOLEAN, ToggleReturns(c, readable)
      PROVE  WatchingSound'
  BY <1>8, OverSound DEF ToggleReturns, WatchingSound, StarSound, ReadAgain, StockRead, WatchlistRead
<1>9. ASSUME NEW readable \in BOOLEAN,
             RenderStock(readable) \/ \E at \in {"stock", "watchlist"} : OpenPage(at, readable)
      PROVE  WatchingSound'
  BY <1>9 DEF RenderStock, OpenPage, Mounted_, NotPressed, ReadAgain, StockRead, WatchlistRead,
              WatchingSound, CallsSound, ItemsSound, StarSound
<1>10. CASE TryWatchlistAgain \/ UNCHANGED watchVars
  BY <1>10 DEF TryWatchlistAgain, watchVars, Mounted_, NotPressed, WatchingSound, CallsSound, ItemsSound, StarSound
<1>11. CASE \E readable \in BOOLEAN :
              \/ RenderStock(readable)
              \/ \E at \in {"stock", "watchlist"} : OpenPage(at, readable)
              \/ \E c \in toggles.calls : ToggleReturns(c, readable)
  <2>1. PICK readable \in BOOLEAN :
              \/ RenderStock(readable)
              \/ \E at \in {"stock", "watchlist"} : OpenPage(at, readable)
              \/ \E c \in toggles.calls : ToggleReturns(c, readable)
    BY <1>11
  <2>. QED
    BY <1>8, <1>9, <2>1
<1>. QED
  BY <1>1, <1>2, <1>3, <1>4, <1>5, <1>6, <1>7, <1>10, <1>11, ApiTogglesSound
     DEF WatchingNext

\* The star tells the truth until somebody else writes its symbol, for any number of presses,
\* tabs, renders, refusals and lost answers.
THEOREM StarSafe == WatchingSpec => []StarTells
<1>1. WatchingSound => StarTells
  BY DEF WatchingSound, StarSound, StarTells, StarOn
<1>. QED
  BY <1>1, InitWatchingSound, StepWatchingSound, PTL DEF WatchingSpec

-----------------------------------------------------------------------------
(* Order tickets.                                                            *)

TicketFields == {"ticker", "side", "mode", "quantity", "price", "mount", "alive"}
TradeFields == {"kind", "url", "ticker", "account", "overtaken"}
RequestFields == {"id", "hook", "ticker", "side", "mount", "stage", "attempt"}

\* A request is numbered by the submission it carries and belongs to a ticket mounted so far.
RequestsSound ==
  /\ \A r \in requests :
       /\ DOMAIN r = RequestFields
       /\ r.id \in 1..Len(book) /\ r.hook \in {"market", "order"} /\ r.attempt = 1
       /\ r.mount \in Nat /\ r.mount <= ticket.mount
  /\ \A r, s \in requests : r.id = s.id => r = s
  /\ OneSubmissionAtATime

\* Only a request that the API has not answered yet may still be booked.
BookSound ==
  /\ book \in Seq({0, 1})
  /\ \A r \in requests : r.stage \in {"parsed", "posted"} => book[r.id] = 0

FormSound ==
  /\ DOMAIN ticket = TicketFields /\ ticket.mount \in Nat
  /\ DOMAIN trade = TradeFields

SubmissionsSound == FormSound /\ BookSound /\ RequestsSound

LEMMA InitSubmissionsSound == TicketInit => SubmissionsSound
<1>1. ASSUME NEW kind, NEW account, NEW held, OpenedOn(kind, account, held)
      PROVE  SubmissionsSound
  <2>1. FormSound
    BY <1>1 DEF OpenedOn, Fresh, FormSound, TicketFields, TradeFields
  <2>2. requests = {} /\ book \in Seq({0, 1})
    BY <1>1 DEF OpenedOn
  <2>. QED
    BY <2>1, <2>2 DEF SubmissionsSound, BookSound, RequestsSound, OneSubmissionAtATime
<1>. QED
  BY <1>1 DEF TicketInit

\* A ticket that is edited, synchronised or unmounted is the same mount; one that is opened
\* has a mount of its own.
LEMMA TicketChanges ==
  ASSUME SubmissionsSound, UNCHANGED <<requests, book>>, FormSound', trade'.kind = trade.kind,
         ticket'.mount \in {ticket.mount, ticket.mount + 1}
  PROVE  SubmissionsSound'
<1>1. BookSound'
  BY DEF SubmissionsSound, BookSound
<1>2. RequestsSound'
  BY DEF SubmissionsSound, FormSound, RequestsSound, OneSubmissionAtATime
<1>. QED
  BY <1>1, <1>2 DEF SubmissionsSound

\* The page is rendered around the ticket: its kind, and which mount the ticket is, stay.
LEMMA RenderKeeps ==
  ASSUME FormSound, NEW url, Render(url)
  PROVE  /\ DOMAIN ticket' = TicketFields /\ ticket'.mount = ticket.mount
         /\ DOMAIN trade' = TradeFields /\ trade'.kind = trade.kind
BY DEF Render, Synced, FormSound, TicketFields, TradeFields

\* A submission adds a request of its own, to a page only when it has none.
LEMMA SendSound ==
  ASSUME SubmissionsSound, Send,
         trade.kind = "page" => \A r \in requests : r.mount # ticket.mount
  PROVE  SubmissionsSound'
<1> DEFINE sent == [id |-> Len(book'), hook |-> HookOf(ticket.mode), ticker |-> ticket.ticker,
                    side |-> EffectiveSide, mount |-> ticket.mount, stage |-> "parsed",
                    attempt |-> 1]
<1>1. /\ requests' = requests \cup {sent} /\ book' = Append(book, 0)
      /\ ticket' = ticket /\ trade' = trade
  BY DEF Send
<1>2. /\ DOMAIN sent = RequestFields /\ sent.id = Len(book') /\ sent.hook \in {"market", "order"}
      /\ sent.mount = ticket.mount /\ sent.attempt = 1
  BY DEF RequestFields, HookOf
<1> HIDE DEF sent
<1>3. book \in Seq({0, 1}) /\ Len(book) \in Nat
  BY DEF SubmissionsSound, BookSound
<1>4. /\ book' \in Seq({0, 1}) /\ Len(book') = Len(book) + 1 /\ book'[Len(book) + 1] = 0
      /\ \A i \in 1..Len(book) : book'[i] = book[i]
  BY <1>1, <1>3
<1>5. \A r \in requests : r.id \in 1..Len(book)
  BY DEF SubmissionsSound, RequestsSound
<1>6. BookSound'
  BY <1>1, <1>2, <1>3, <1>4, <1>5 DEF SubmissionsSound, BookSound
<1>7. RequestsSound'
  BY <1>1, <1>2, <1>3, <1>4, <1>5
     DEF SubmissionsSound, FormSound, RequestsSound, OneSubmissionAtATime
<1>. QED
  BY <1>1, <1>6, <1>7 DEF SubmissionsSound, FormSound

\* A request ends; the ticket it leaves is the same mount.
LEMMA SettleSound ==
  ASSUME SubmissionsSound, NEW r \in requests, requests' = requests \ {r}, book' = book,
         FormSound', ticket'.mount = ticket.mount, trade'.kind = trade.kind
  PROVE  SubmissionsSound'
BY DEF SubmissionsSound, BookSound, RequestsSound, OneSubmissionAtATime

\* A request goes on to a stage; the API books it in the one that says so.
LEMMA StageSound ==
  ASSUME SubmissionsSound, NEW r \in requests, NEW stage, Step(r, stage, 1),
         UNCHANGED <<ticket, trade>>,
         \/ stage = "posted" /\ r.stage = "parsed" /\ book' = book
         \/ stage = "booked" /\ r.stage = "posted" /\ book' = [book EXCEPT ![r.id] = @ + 1]
  PROVE  SubmissionsSound'
<1> DEFINE next == [r EXCEPT !.stage = stage, !.attempt = 1]
<1>1. requests' = (requests \ {r}) \cup {next}
  BY DEF Step
<1>2. /\ DOMAIN next = RequestFields /\ next.id = r.id /\ next.hook = r.hook
      /\ next.mount = r.mount /\ next.stage = stage /\ next.attempt = 1
  BY DEF SubmissionsSound, RequestsSound, RequestFields
<1> HIDE DEF next
<1>3. /\ book \in Seq({0, 1}) /\ r.id \in 1..Len(book) /\ book[r.id] = 0
      /\ \A s \in requests \ {r} : s.id # r.id /\ s.id \in 1..Len(book)
  BY DEF SubmissionsSound, BookSound, RequestsSound
<1>4. /\ book' \in Seq({0, 1}) /\ Len(book') = Len(book)
      /\ \A i \in 1..Len(book) \ {r.id} : book'[i] = book[i]
      /\ stage = "posted" => book'[r.id] = 0
  BY <1>3
<1>5. BookSound'
  BY <1>1, <1>2, <1>3, <1>4 DEF SubmissionsSound, BookSound
<1>6. RequestsSound'
  BY <1>1, <1>2, <1>3, <1>4 DEF SubmissionsSound, RequestsSound, OneSubmissionAtATime
<1>. QED
  BY <1>5, <1>6 DEF SubmissionsSound, FormSound

LEMMA StepSubmissionsSound == SubmissionsSound /\ [TicketNext]_ticketVars => SubmissionsSound'
<1> SUFFICES ASSUME SubmissionsSound, [TicketNext]_ticketVars PROVE SubmissionsSound'
  OBVIOUS
<1> USE DEF FormSound
<1>0. FormSound
  BY DEF SubmissionsSound
<1>1. CASE \/ \E side \in {"buy", "sell"} : ChooseSide(side)
           \/ \E mode \in Modes : ChooseMode(mode)
           \/ \E mode \in Protective : Protect(mode)
           \/ \E price \in Prices : TypePrice(price)
           \/ \E quarters \in 1..4 : UseShortcut(quarters)
           \/ \E symbol \in Listed_ : PickTicker(symbol)
  <2>1. /\ UNCHANGED <<requests, book, trade>>
        /\ DOMAIN ticket' = DOMAIN ticket /\ ticket'.mount = ticket.mount
    BY <1>0, <1>1 DEF ChooseSide, ChooseMode, Protect, InMode, TypePrice, UseShortcut, PickTicker,
                      TicketFields
  <2>. QED
    BY <1>0, <2>1, TicketChanges
<1>2. CASE TryAgain \/ \E side \in {"buy", "sell"} : OpenSheet(side)
  <2>1. /\ UNCHANGED <<requests, book, trade>>
        /\ DOMAIN ticket' = TicketFields /\ ticket'.mount = ticket.mount + 1
    BY <1>0, <1>2 DEF OpenSheet, TryAgain, Fresh, TicketFields
  <2>. QED
    BY <1>0, <2>1, TicketChanges
<1>3. CASE \E url \in Listed_ \cup {NoUrl} : FollowLink(url)
  BY <1>0, <1>3, TicketChanges DEF FollowLink, TradeFields
<1>4. CASE Arrive
  BY <1>0, <1>4, RenderKeeps, TicketChanges DEF Arrive
<1>5. CASE SubmitOnPage \/ SubmitOnSheet
  <2>1. trade.kind = "page" => \A r \in requests : r.mount # ticket.mount
    BY <1>5 DEF SubmitOnPage, SubmitOnSheet, PendingOnPage, Running, SubmissionsSound, RequestsSound
  <2>. QED
    BY <1>5, <2>1, SendSound DEF SubmitOnPage, SubmitOnSheet
<1>6. ASSUME NEW r \in requests, Rejected(r) \/ ApiErrors(r) PROVE SubmissionsSound'
  BY <1>0, <1>6, SettleSound DEF Rejected, ApiErrors, Settle
<1>7. ASSUME NEW r \in requests, Post(r) PROVE SubmissionsSound'
  BY <1>7, StageSound DEF Post
<1>8. ASSUME NEW r \in requests, ApiBooks(r) PROVE SubmissionsSound'
  <2>1. r.attempt = 1
    BY DEF SubmissionsSound, RequestsSound
  <2>. QED
    BY <1>8, <2>1, StageSound DEF ApiBooks
<1>9. ASSUME NEW r \in requests, ConnectionLost(r) PROVE SubmissionsSound'
  <2>1. ~ (r.attempt < Attempts)
    BY DEF SubmissionsSound, RequestsSound, Attempts
  <2>. QED
    BY <1>0, <1>9, <2>1, SettleSound DEF ConnectionLost, TicketFields
<1>10. ASSUME NEW r \in requests, Answered(r) PROVE SubmissionsSound'
  BY <1>0, <1>10, RenderKeeps, SettleSound DEF Answered, Settle
<1>11. CASE UNCHANGED ticketVars
  BY <1>0, <1>11, TicketChanges DEF ticketVars
<1>. QED
  BY <1>1, <1>2, <1>3, <1>4, <1>5, <1>6, <1>7, <1>8, <1>9, <1>10, <1>11 DEF TicketNext

\* No submission is booked twice and the trade page has one under way, for any number of
\* submissions, mounts, lost answers and switches of the mode.
THEOREM SubmissionsSafe == TicketSpec => []SubmissionsAreSafe
<1>1. SubmissionsSound => SubmissionsAreSafe
  BY DEF SubmissionsSound, BookSound, RequestsSound, SubmissionsAreSafe, BookedOnce
<1>. QED
  BY <1>1, InitSubmissionsSound, StepSubmissionsSound, PTL DEF TicketSpec

-----------------------------------------------------------------------------
(* The trade page's symbol.                                                  *)

\* A ticket for another symbol than the page's is one a pick is navigating to, or one whose
\* navigation was overtaken.
SymbolSound ==
  /\ FormSound
  /\ trade.kind = "page" /\ ticket.alive =>
       \/ ticket.ticker = trade.ticker
       \/ trade.overtaken
       \/ going = ticket.ticker /\ going \in Listed_

LEMMA RenderFollows ==
  ASSUME FormSound, NEW url, Render(url), ticket.alive, trade.kind = "page",
         \/ ticket.ticker = trade.ticker
         \/ trade.overtaken
         \/ going = ticket.ticker /\ going \in Listed_ /\ going' = going
         \/ url = ticket.ticker /\ url \in Listed_
  PROVE  SymbolSound'
<1> DEFINE symbol == Active(url, owned)
<1>1. /\ DOMAIN ticket' = TicketFields /\ ticket'.mount = ticket.mount
      /\ DOMAIN trade' = TradeFields /\ trade'.kind = trade.kind
  BY RenderKeeps
<1>2. /\ trade'.ticker = symbol
      /\ trade'.overtaken = (trade.overtaken /\ ticket'.ticker # symbol)
      /\ ticket' = Synced(trade.ticker, symbol)
  BY DEF Render, FormSound, TradeFields
<1>3. url \in Listed_ => symbol = url
  BY DEF Active
<1> HIDE DEF symbol
<1>4. symbol # trade.ticker => ticket'.ticker = symbol
  BY <1>2 DEF Synced, FormSound, TicketFields
<1>5. symbol = trade.ticker => ticket' = ticket
  BY <1>2 DEF Synced
<1>. QED
  BY <1>1, <1>2, <1>3, <1>4, <1>5 DEF SymbolSound, FormSound

LEMMA InitSymbolSound == TicketInit => SymbolSound
BY DEF TicketInit, OpenedOn, Fresh, SymbolSound, FormSound, TicketFields, TradeFields

LEMMA StepSymbolSound == SymbolSound /\ [TicketNext]_ticketVars => SymbolSound'
<1> SUFFICES ASSUME SymbolSound, [TicketNext]_ticketVars PROVE SymbolSound'
  OBVIOUS
<1> USE DEF FormSound
<1>1. CASE \/ \E side \in {"buy", "sell"} : ChooseSide(side)
           \/ \E mode \in Modes : ChooseMode(mode)
           \/ \E mode \in Protective : Protect(mode)
           \/ \E price \in Prices : TypePrice(price)
           \/ \E quarters \in 1..4 : UseShortcut(quarters)
  BY <1>1 DEF SymbolSound, TicketFields, ChooseSide, ChooseMode, Protect, InMode, TypePrice,
              UseShortcut
<1>2. CASE \E symbol \in Listed_ : PickTicker(symbol)
  BY <1>2 DEF PickTicker, SymbolSound, TicketFields
<1>3. CASE \E url \in Listed_ \cup {NoUrl} : FollowLink(url)
  <2>1. Staying \notin Listed_
    BY TicketAssumption DEF Staying, Listed_
  <2>. QED
    BY <1>3, <2>1 DEF FollowLink, SymbolSound, TradeFields
<1>4. CASE Arrive
  <2>1. CASE ticket.alive /\ trade.kind = "page"
    BY <1>4, <2>1, RenderFollows DEF Arrive, SymbolSound
  <2>2. CASE ~ (ticket.alive /\ trade.kind = "page")
    <3>1. ticket'.alive = ticket.alive
      BY <1>4 DEF Arrive, Render, Synced, SymbolSound, TicketFields
    <3>. QED
      BY <1>4, <2>2, <3>1, RenderKeeps DEF Arrive, SymbolSound
  <2>. QED
    BY <2>1, <2>2
<1>5. CASE \/ TryAgain \/ SubmitOnPage \/ SubmitOnSheet
           \/ \E side \in {"buy", "sell"} : OpenSheet(side)
  BY <1>5 DEF TryAgain, SubmitOnPage, SubmitOnSheet, Send, OpenSheet, Fresh, SymbolSound, TicketFields
<1>6. ASSUME NEW r \in requests,
             Rejected(r) \/ Post(r) \/ ApiBooks(r) \/ ApiErrors(r) \/ ConnectionLost(r)
      PROVE  SymbolSound'
  BY <1>6 DEF Rejected, Post, ApiBooks, ApiErrors, ConnectionLost, SymbolSound, TicketFields
<1>7. ASSUME NEW r \in requests, Answered(r) PROVE SymbolSound'
  BY <1>7, RenderFollows DEF Answered, SymbolSound
<1>8. CASE UNCHANGED ticketVars
  BY <1>8 DEF ticketVars, SymbolSound
<1>. QED
  BY <1>1, <1>2, <1>3, <1>4, <1>5, <1>6, <1>7, <1>8 DEF TicketNext

\* With no navigation pending and no pick overtaken the ticket is for the symbol the page
\* shows, for any list of symbols, holdings, picks, links and renders.
THEOREM TicketSafe == TicketSpec => []TicketFollowsUrl
<1>1. SymbolSound => TicketFollowsUrl
  BY TicketAssumption DEF SymbolSound, TicketFollowsUrl, Listed_, Staying
<1>. QED
  BY <1>1, InitSymbolSound, StepSymbolSound, PTL DEF TicketSpec

-----------------------------------------------------------------------------
(* The discussion on a stock's page.                                         *)

CommentForms == AllComments \cup {TopLevel}
Pages_ == [readable : BOOLEAN, comments : SUBSET AllComments]
Views_ == [readable : BOOLEAN, comments : SUBSET AllComments, missed : SUBSET AllComments]
FormStates ==
  [open : BOOLEAN, says : {"nothing", "posted", "error"}, comment : CommentForms,
   pending : CommentForms]
CallStates ==
  [id : Int, kind : {"post", "delete"}, form : CommentForms, comment : Comments,
   status : {"sent", "done"}, outrun : BOOLEAN, read : BOOLEAN, page : Pages_,
   missed : SUBSET AllComments]

\* Comments with the threads they are in, and what a step may do to one that is there.
DiscussionTyped(d) ==
  /\ DOMAIN d = AllComments
  /\ \A c \in AllComments :
       /\ DOMAIN d[c] = {"state", "parent", "at"} /\ d[c].parent \in CommentForms
       /\ d[c].state \in {"unset", "written", "gone"}
       /\ d[c].state # "unset" /\ d[c].parent # TopLevel => d[d[c].parent].state # "unset"
       /\ d[c].state = "written" /\ d[c].parent # TopLevel =>
            d[d[c].parent].state = "written" /\ d[d[c].parent].parent = TopLevel

Grown(d, e) ==
  \A c \in AllComments : d[c].state # "unset" =>
    /\ e[c].parent = d[c].parent /\ e[c].at = d[c].at /\ e[c].state # "unset"
    /\ d[c].state = "gone" => e[c].state = "gone"

\* What a view shows of a comment, and what it may leave out.
ThreadIn(d, c) == IF d[c].parent = TopLevel THEN c ELSE d[c].parent
ThreadsOf(d, view) == {t \in view.comments : d[t].parent = TopLevel}
OffPage(d, view, c) ==
  /\ Cardinality(ThreadsOf(d, view)) = CommentLimit
  /\ \A t \in ThreadsOf(d, view) : d[t].at > d[ThreadIn(d, c)].at
Has(d, view, c) ==
  view.readable /\ c \notin view.missed =>
    c \in view.comments \/ d[c].state = "gone" \/ OffPage(d, view, c)

Known(d, comments) == \A c \in comments : c \in AllComments /\ d[c].state # "unset"

\* The page on the screen and the pages under way.
ViewOf(p) == RenderedFrom(p.page, p.missed)
Views == {stock} \cup {ViewOf(v) : v \in {p \in {navigation} \cup posts.calls : p.read}}

StockTyped ==
  /\ DiscussionTyped(discussion)
  /\ stock \in Views_
  /\ navigation \in [asked : BOOLEAN, read : BOOLEAN, page : Pages_, missed : SUBSET AllComments]
  /\ forms \in [CommentForms -> FormStates]
  /\ posts \in [calls : SUBSET CallStates, count : Int, navigated : BOOLEAN]

\* A post writes its comment once; its page is read after that.
CallsTrue ==
  /\ \A p \in posts.calls :
       /\ p.kind = "post" =>
            (p.status = "sent" <=> discussion[p.comment].state = "unset")
       /\ p.read => p.status = "done"
       /\ p.read /\ p.kind = "post" => Has(discussion, ViewOf(p), p.comment)
  /\ \A p, q \in posts.calls :
       p.kind = "post" /\ q.kind = "post" /\ p.comment = q.comment => p = q

\* What a form says is posted is on every page, but for the pages that missed it.
ViewsShow ==
  /\ \A view \in Views : Known(discussion, view.comments)
  /\ \A f \in CommentForms : forms[f].says = "posted" =>
       /\ forms[f].comment \in AllComments /\ discussion[forms[f].comment].state # "unset"
       /\ \A view \in Views : Has(discussion, view, forms[f].comment)

\* Without a navigation one action is at the API, and nothing is missed.
OneCall ==
  /\ \A p \in posts.calls : p.id <= posts.count
  /\ \A p, q \in posts.calls : p.id = q.id => p = q
  /\ ~ posts.navigated =>
       /\ ~ navigation.asked /\ ~ navigation.read /\ stock.missed = {}
       /\ \A p \in posts.calls : ~ p.outrun /\ p.missed = {}
       /\ \A p, q \in posts.calls : p.status # "sent" => p.id <= q.id

StockSound == StockTyped /\ CallsTrue /\ ViewsShow /\ OneCall

-----------------------------------------------------------------------------
LEMMA HasKept ==
  ASSUME NEW d, NEW e, DiscussionTyped(d), Grown(d, e), NEW view, Known(d, view.comments),
         NEW c \in AllComments, d[c].state # "unset", Has(d, view, c)
  PROVE  Has(e, view, c)
<1>1. ThreadsOf(e, view) = ThreadsOf(d, view)
  BY DEF ThreadsOf, Known, Grown
<1>2. d[c].parent # TopLevel => d[c].parent \in AllComments /\ d[d[c].parent].state # "unset"
  BY DEF DiscussionTyped, CommentForms
<1>3. e[ThreadIn(e, c)].at = d[ThreadIn(d, c)].at
  BY <1>2 DEF ThreadIn, Grown
<1>4. \A t \in ThreadsOf(d, view) : e[t].at = d[t].at
  BY DEF ThreadsOf, Known, Grown
<1>5. OffPage(d, view, c) => OffPage(e, view, c)
  BY <1>1, <1>3, <1>4 DEF OffPage
<1>. QED
  BY <1>5 DEF Has, Grown

LEMMA KnownKept ==
  ASSUME NEW d, NEW e, Grown(d, e), NEW comments, Known(d, comments)
  PROVE  Known(e, comments)
BY DEF Known, Grown

\* A page that is read has every comment, but for those that are off it.
LEMMA ReadPage ==
  ASSUME DiscussionTyped(discussion), NEW page \in PagesRead, NEW missed
  PROVE  /\ page \in Pages_
         /\ RenderedFrom(page, missed).comments = page.comments
         /\ Known(discussion, page.comments)
         /\ \A c \in AllComments : discussion[c].state # "unset" =>
              Has(discussion, RenderedFrom(page, missed), c)
<1> DEFINE view == RenderedFrom(page, missed)
<1>0. view.comments = page.comments /\ view.readable = page.readable
  BY DEF RenderedFrom
<1>1. CASE page = Unreadable
  BY <1>0, <1>1 DEF Unreadable, Pages_, Known, Has
<1>2. CASE page # Unreadable
  <2>1. PICK threads \in SUBSET Threads :
          Newest(threads) /\ page = [readable |-> TRUE, comments |-> ListedWith(threads)]
    BY <1>2 DEF PagesRead
  <2>2. page.comments = ListedWith(threads) /\ page \in Pages_ /\ Known(discussion, page.comments)
    BY <2>1 DEF ListedWith, Threads, Written, Pages_, Known
  <2>3. ThreadsOf(discussion, view) = threads
    <3>1. \A t \in threads : t \in AllComments /\ discussion[t].parent = TopLevel /\ t # TopLevel
      BY StockPageAssumption DEF Threads, Written, AllComments
    <3>. QED
      BY <1>0, <2>2, <3>1 DEF ThreadsOf, ListedWith
  <2>4. ASSUME NEW c \in AllComments, discussion[c].state = "written", c \notin page.comments
        PROVE  OffPage(discussion, view, c)
    <3>1. ThreadIn(discussion, c) \in Threads
      BY <2>4 DEF DiscussionTyped, ThreadIn, Threads, Written, CommentForms
    <3>2. ThreadIn(discussion, c) \notin threads
      BY <2>2, <2>4 DEF ThreadIn, ListedWith, Written
    <3>. QED
      BY <2>1, <2>3, <3>1, <3>2 DEF Newest, OffPage
  <2>5. \A c \in AllComments : discussion[c].state \in {"unset", "written", "gone"}
    BY DEF DiscussionTyped
  <2>. QED
    BY <1>0, <2>2, <2>4, <2>5 DEF Has
<1>. QED
  BY <1>0, <1>1, <1>2

\* Forms that a page leaves mounted say what they said.
LEMMA MountedForms ==
  ASSUME NEW fs \in [CommentForms -> FormStates], NEW view
  PROVE  /\ StillMounted(fs, view) \in [CommentForms -> FormStates]
         /\ \A f \in CommentForms : StillMounted(fs, view)[f].says = "posted" =>
              StillMounted(fs, view)[f] = fs[f]
<1>1. NoForm \in FormStates /\ NoForm.says # "posted"
  BY DEF NoForm, FormStates, CommentForms
<1>2. DOMAIN fs = CommentForms /\ \A f \in CommentForms : fs[f] \in FormStates
  OBVIOUS
<1>3. StillMounted(fs, view) = [f \in CommentForms |->
                                  IF f = TopLevel \/ f \in view.comments THEN fs[f] ELSE NoForm]
  BY <1>2 DEF StillMounted
<1>. QED
  BY <1>1, <1>2, <1>3

LEMMA FreshFormsQuiet ==
  FreshForms \in [CommentForms -> FormStates] /\ \A f \in CommentForms : FreshForms[f].says # "posted"
<1>1. /\ NoForm \in FormStates /\ NoForm.says = "nothing"
      /\ NewForm \in FormStates /\ NewForm.says = "nothing"
  BY DEF NoForm, NewForm, FormStates, CommentForms
<1>. QED
  BY <1>1 DEF FreshForms, CommentForms

\* The forms as they are told.
LEMMA ToldForms ==
  ASSUME StockTyped, NEW p \in posts.calls, NEW says \in {"posted", "error"},
         NEW comment \in CommentForms
  PROVE  /\ Told(p, says, comment) \in [CommentForms -> FormStates]
         /\ \A f \in CommentForms : Told(p, says, comment)[f].says = "posted" =>
              \/ Told(p, says, comment)[f] = forms[f]
              \/ p.kind = "post" /\ says = "posted" /\ Told(p, says, comment)[f].comment = comment
<1> DEFINE form == [NewForm EXCEPT !.says = says, !.comment = comment]
<1>1. form \in FormStates /\ form.says = says /\ form.comment = comment
  BY DEF NewForm, NoForm, FormStates, CommentForms
<1> HIDE DEF form
<1>2. p.form \in CommentForms /\ forms \in [CommentForms -> FormStates]
  BY DEF StockTyped, CallStates
<1>3. Told(p, says, comment) = forms
      \/ (p.kind = "post" /\ Told(p, says, comment) = [forms EXCEPT ![p.form] = form])
  BY DEF Told, form
<1>. QED
  BY <1>1, <1>2, <1>3

-----------------------------------------------------------------------------
\* Views that were there show what forms said.
LEMMA ViewsKept ==
  ASSUME StockSound, discussion' = discussion,
         \A view \in Views' : view \in Views,
         \A f \in CommentForms : forms'[f].says = "posted" => forms'[f] = forms[f]
  PROVE  ViewsShow'
BY DEF StockSound, ViewsShow

\* A view that was just read shows it too.
LEMMA ViewRead ==
  ASSUME StockSound, discussion' = discussion, forms' = forms,
         NEW fetched, Known(discussion, fetched.comments),
         \A c \in AllComments : discussion[c].state # "unset" => Has(discussion, fetched, c),
         \A view \in Views' : view \in Views \/ view = fetched
  PROVE  ViewsShow'
BY DEF StockSound, ViewsShow

\* A step of the discussion at the API.
LEMMA DiscussionGrown ==
  ASSUME StockSound, Grown(discussion, discussion'), forms' = forms,
         \A view \in Views' : view \in Views
  PROVE  ViewsShow'
<1>1. \A view \in Views : Known(discussion', view.comments)
  BY KnownKept DEF StockSound, ViewsShow
<1>2. ASSUME NEW f \in CommentForms, forms[f].says = "posted", NEW view \in Views
      PROVE  Has(discussion', view, forms[f].comment)
  <2>1. /\ forms[f].comment \in AllComments /\ discussion[forms[f].comment].state # "unset"
        /\ Has(discussion, view, forms[f].comment) /\ Known(discussion, view.comments)
        /\ DiscussionTyped(discussion)
    BY <1>2 DEF StockSound, ViewsShow, StockTyped
  <2>. QED
    BY <2>1, HasKept
<1>3. \A f \in CommentForms : forms[f].says = "posted" =>
        forms[f].comment \in AllComments /\ discussion'[forms[f].comment].state # "unset"
  BY DEF StockSound, ViewsShow, Grown
<1>. QED
  BY <1>1, <1>2, <1>3 DEF ViewsShow

LEMMA CreateGrows ==
  ASSUME DiscussionTyped(discussion), NEW c \in AllComments, discussion[c].state = "unset",
         NEW parent \in CommentForms, parent = TopLevel \/ parent \in Threads, Create(c, parent)
  PROVE  /\ DiscussionTyped(discussion') /\ Grown(discussion, discussion')
         /\ discussion'[c].state = "written"
         /\ \A d \in AllComments \ {c} : discussion'[d] = discussion[d]
<1> DEFINE row == [state |-> "written", parent |-> parent,
                   at |-> Cardinality({d \in AllComments : discussion[d].state # "unset"}) + 1]
<1>1. DOMAIN row = {"state", "parent", "at"} /\ row.state = "written" /\ row.parent = parent
  OBVIOUS
<1>2. discussion' = [discussion EXCEPT ![c] = row]
  BY DEF Create
<1> HIDE DEF row
<1>3. /\ DOMAIN discussion' = AllComments /\ discussion'[c] = row
      /\ \A d \in AllComments \ {c} : discussion'[d] = discussion[d]
  BY <1>2 DEF DiscussionTyped
<1>4. parent # TopLevel =>
        /\ parent \in AllComments \ {c} /\ discussion'[parent].state = "written"
        /\ discussion'[parent].parent = TopLevel
  BY <1>3 DEF Threads, Written
<1>5. \A d \in AllComments \ {c} : discussion[d].state # "unset" /\ discussion[d].parent # TopLevel =>
        discussion[d].parent \in AllComments \ {c}
  BY DEF DiscussionTyped, CommentForms
<1>6. DiscussionTyped(discussion')
  BY <1>1, <1>3, <1>4, <1>5 DEF DiscussionTyped
<1>7. Grown(discussion, discussion')
  BY <1>3 DEF Grown
<1>. QED
  BY <1>1, <1>3, <1>6, <1>7

LEMMA DropGrows ==
  ASSUME DiscussionTyped(discussion), NEW comment \in AllComments, Drop(comment)
  PROVE  /\ DiscussionTyped(discussion') /\ Grown(discussion, discussion')
         /\ \A c \in AllComments : discussion'[c].state = "unset" <=> discussion[c].state = "unset"
<1> DEFINE goes(c) == c \in Written /\ (c = comment \/ discussion[c].parent = comment)
<1>1. /\ DOMAIN discussion' = AllComments
      /\ \A c \in AllComments :
           discussion'[c] = IF goes(c) THEN [discussion[c] EXCEPT !.state = "gone"] ELSE discussion[c]
  BY DEF Drop
<1>2. \A c \in AllComments :
        /\ DOMAIN discussion'[c] = {"state", "parent", "at"}
        /\ discussion'[c].parent = discussion[c].parent /\ discussion'[c].at = discussion[c].at
        /\ discussion'[c].state = IF goes(c) THEN "gone" ELSE discussion[c].state
  BY <1>1 DEF DiscussionTyped
<1>3. \A c \in AllComments : goes(c) => discussion[c].state = "written"
  BY DEF Written
<1> HIDE DEF goes
<1>4. Grown(discussion, discussion')
  BY <1>2, <1>3 DEF Grown
<1>5. ASSUME NEW c \in AllComments, discussion'[c].state = "written", discussion[c].parent # TopLevel
      PROVE  /\ discussion[c].parent \in AllComments /\ ~ goes(discussion[c].parent)
             /\ discussion[discussion[c].parent].state = "written"
             /\ discussion[discussion[c].parent].parent = TopLevel
  <2>1. ~ goes(c) /\ discussion[c].state = "written"
    BY <1>2, <1>3, <1>5
  <2>2. /\ discussion[c].parent \in AllComments
        /\ discussion[discussion[c].parent].state = "written"
        /\ discussion[discussion[c].parent].parent = TopLevel
    BY <1>5, <2>1 DEF DiscussionTyped, CommentForms
  <2>3. TopLevel \notin AllComments
    BY StockPageAssumption DEF AllComments
  <2>. QED
    BY <2>1, <2>2, <2>3 DEF goes, Written
<1>6. \A c \in AllComments : discussion'[c].state = "unset" <=> discussion[c].state = "unset"
  BY <1>2, <1>3
<1>7. \A c \in AllComments : discussion[c].state # "unset" /\ discussion[c].parent # TopLevel =>
        discussion[c].parent \in AllComments /\ discussion'[discussion[c].parent].state # "unset"
  BY <1>6 DEF DiscussionTyped, CommentForms
<1>8. DiscussionTyped(discussion')
  BY <1>1, <1>2, <1>5, <1>6, <1>7 DEF DiscussionTyped
<1>. QED
  BY <1>4, <1>6, <1>8

\* One action replaced by what became of it.
LEMMA CallReplaced ==
  ASSUME StockSound, NEW p \in posts.calls, NEW q \in CallStates,
         q.id = p.id, q.outrun = p.outrun, q.missed = p.missed,
         p.status # "sent" \/ Reaches(p),
         posts' = [posts EXCEPT !.calls = (@ \ {p}) \cup {q}],
         UNCHANGED <<stock, navigation>>
  PROVE  /\ posts' \in [calls : SUBSET CallStates, count : Int, navigated : BOOLEAN]
         /\ posts'.calls = (posts.calls \ {p}) \cup {q}
         /\ OneCall'
<1>1. /\ posts' \in [calls : SUBSET CallStates, count : Int, navigated : BOOLEAN]
      /\ posts'.calls = (posts.calls \ {p}) \cup {q}
      /\ posts'.count = posts.count /\ posts'.navigated = posts.navigated
  BY DEF StockSound, StockTyped
<1>2. \A r \in posts'.calls : r = q \/ (r \in posts.calls /\ r # p)
  BY <1>1
<1>3. \A r \in posts.calls : r.id \in Int
  BY DEF StockSound, StockTyped, CallStates
<1>4. ~ posts.navigated => \A r \in posts.calls : p.id <= r.id
  BY <1>3 DEF StockSound, OneCall, Reaches
<1>5. OneCall'
  BY <1>1, <1>2, <1>3, <1>4 DEF StockSound, OneCall
<1>. QED
  BY <1>1, <1>5

LEMMA CallGone ==
  ASSUME StockSound, NEW p \in posts.calls, posts' = [posts EXCEPT !.calls = @ \ {p}],
         UNCHANGED <<discussion, stock, navigation>>
  PROVE  /\ posts' \in [calls : SUBSET CallStates, count : Int, navigated : BOOLEAN]
         /\ CallsTrue' /\ OneCall' /\ \A view \in Views' : view \in Views
<1>1. /\ posts' \in [calls : SUBSET CallStates, count : Int, navigated : BOOLEAN]
      /\ posts'.calls = posts.calls \ {p}
      /\ posts'.count = posts.count /\ posts'.navigated = posts.navigated
  BY DEF StockSound, StockTyped
<1>2. CallsTrue' /\ OneCall'
  BY <1>1 DEF StockSound, CallsTrue, OneCall
<1>3. \A view \in Views' : view \in Views
  BY <1>1 DEF Views
<1>. QED
  BY <1>1, <1>2, <1>3

LEMMA CallBegun ==
  ASSUME StockSound, NEW kind \in {"post", "delete"}, NEW form \in CommentForms,
         NEW c \in Comments, kind = "post" => Unused(c), Call_(kind, form, c),
         UNCHANGED <<discussion, stock, navigation>>
  PROVE  /\ posts' \in [calls : SUBSET CallStates, count : Int, navigated : BOOLEAN]
         /\ CallsTrue' /\ OneCall' /\ \A view \in Views' : view \in Views
<1> DEFINE new == NewCall(kind, form, c)
<1>1. /\ new.id = posts.count + 1 /\ new.status = "sent" /\ ~ new.read /\ ~ new.outrun
      /\ new.missed = {} /\ new.kind = kind /\ new.comment = c
  BY DEF NewCall
<1>2. new \in CallStates
  BY DEF NewCall, CallStates, StockSound, StockTyped, Unreadable, Pages_
<1>3. posts' = [posts EXCEPT !.count = @ + 1, !.calls = @ \cup {new}]
  BY DEF Call_
<1> HIDE DEF new
<1>4. /\ posts' \in [calls : SUBSET CallStates, count : Int, navigated : BOOLEAN]
      /\ posts'.calls = posts.calls \cup {new}
      /\ posts'.count = posts.count + 1 /\ posts'.navigated = posts.navigated
  <2>1. /\ posts \in [calls : SUBSET CallStates, count : Int, navigated : BOOLEAN]
        /\ posts.calls \cup {new} \subseteq CallStates /\ posts.count + 1 \in Int
    BY <1>2 DEF StockSound, StockTyped
  <2>2. posts' = [posts EXCEPT !.count = posts.count + 1, !.calls = posts.calls \cup {new}]
    BY <1>3
  <2>. QED
    BY <2>1, <2>2
<1>5. \A p \in posts.calls : p.id \in Int /\ p.id <= posts.count
  BY DEF StockSound, StockTyped, CallStates, OneCall
<1>6. OneCall'
  BY <1>1, <1>4, <1>5 DEF StockSound, StockTyped, OneCall
<1>7. kind = "post" => discussion[c].state = "unset" /\ \A p \in posts.calls : p.comment # c
  BY DEF Unused, Unwritten
<1>8. CallsTrue'
  BY <1>1, <1>4, <1>7 DEF StockSound, CallsTrue
<1>9. \A view \in Views' : view \in Views
  BY <1>1, <1>4 DEF Views
<1>. QED
  BY <1>4, <1>6, <1>8, <1>9

\* A call as it is once the API has done it.
LEMMA CallDone ==
  ASSUME StockSound, NEW p \in posts.calls, p.status = "sent"
  PROVE  \E q \in CallStates :
           /\ \A status : status = "done" => q = [p EXCEPT !.status = status]
           /\ q.id = p.id /\ q.outrun = p.outrun /\ q.missed = p.missed /\ q.kind = p.kind
           /\ q.form = p.form /\ q.comment = p.comment /\ q.status = "done" /\ ~ q.read
<1>1. p \in CallStates /\ ~ p.read
  BY DEF StockSound, StockTyped, CallsTrue
<1>2. [p EXCEPT !.status = "done"] \in CallStates
  BY <1>1 DEF CallStates
<1>. QED
  BY <1>1, <1>2 DEF CallStates

\* The API has done what an action asks for.
LEMMA ApiStepSound ==
  ASSUME StockSound, NEW p \in posts.calls, Reaches(p), Status(p, "done"),
         UNCHANGED <<stock, navigation, forms>>,
         DiscussionTyped(discussion'), Grown(discussion, discussion'),
         p.kind = "post" => discussion'[p.comment].state # "unset",
         \A c \in AllComments : discussion[c].state = "unset" /\ discussion'[c].state # "unset" =>
           p.kind = "post" /\ c = p.comment
  PROVE  StockSound'
<1>1. PICK q \in CallStates :
        /\ \A status : status = "done" => q = [p EXCEPT !.status = status]
        /\ q.id = p.id /\ q.outrun = p.outrun /\ q.missed = p.missed /\ q.kind = p.kind
        /\ q.form = p.form /\ q.comment = p.comment /\ q.status = "done" /\ ~ q.read
  BY CallDone DEF Reaches
<1>2. posts' = [posts EXCEPT !.calls = (@ \ {p}) \cup {q}]
  BY <1>1 DEF Status
<1>3. /\ posts' \in [calls : SUBSET CallStates, count : Int, navigated : BOOLEAN]
      /\ posts'.calls = (posts.calls \ {p}) \cup {q}
      /\ OneCall'
  BY <1>1, <1>2, CallReplaced
<1>4. p.status = "sent" /\ ~ p.read /\ \A r \in posts.calls : r \in CallStates
  BY DEF StockSound, StockTyped, CallsTrue, Reaches
<1>5. \A view \in Views' : view \in Views
  BY <1>1, <1>3 DEF Views
<1>6. ViewsShow'
  BY <1>5, DiscussionGrown
<1>7. ASSUME NEW r \in posts.calls \ {p}
      PROVE  /\ r.kind = "post" => (r.status = "sent" <=> discussion'[r.comment].state = "unset")
             /\ r.read => r.status = "done"
             /\ r.read /\ r.kind = "post" => Has(discussion', ViewOf(r), r.comment)
  <2>1. r.comment \in AllComments
    BY <1>4 DEF CallStates, AllComments
  <2>2. r.read => Known(discussion, ViewOf(r).comments)
    BY DEF StockSound, ViewsShow, Views
  <2>3. /\ r.kind = "post" => (r.status = "sent" <=> discussion[r.comment].state = "unset")
        /\ r.read => r.status = "done"
        /\ r.read /\ r.kind = "post" => Has(discussion, ViewOf(r), r.comment)
        /\ r.kind = "post" /\ p.kind = "post" => r.comment # p.comment
    BY DEF StockSound, CallsTrue
  <2>4. r.read /\ r.kind = "post" => discussion[r.comment].state # "unset"
    BY <2>3
  <2>5. r.read /\ r.kind = "post" => Has(discussion', ViewOf(r), r.comment)
    BY <2>1, <2>2, <2>3, <2>4, HasKept DEF StockSound, StockTyped
  <2>. QED
    BY <2>1, <2>3, <2>5 DEF Grown
<1>8. CallsTrue'
  <2>1. \A r \in posts'.calls : r = q \/ r \in posts.calls \ {p}
    BY <1>3
  <2>2. ViewOf(q)' = ViewOf(q) /\ \A r \in posts.calls : ViewOf(r)' = ViewOf(r)
    BY DEF ViewOf, RenderedFrom
  <2>3. \A r, t \in posts.calls : r.kind = "post" /\ t.kind = "post" /\ r.comment = t.comment => r = t
    BY DEF StockSound, CallsTrue
  <2>4. \A r, t \in posts'.calls : r.kind = "post" /\ t.kind = "post" /\ r.comment = t.comment => r = t
    BY <1>1, <2>1, <2>3
  <2>5. \A r \in posts'.calls :
          /\ r.kind = "post" => (r.status = "sent" <=> discussion'[r.comment].state = "unset")
          /\ r.read => r.status = "done"
          /\ r.read /\ r.kind = "post" => Has(discussion', ViewOf(r), r.comment)
    BY <1>1, <1>7, <2>1
  <2>. QED
    BY <2>4, <2>5 DEF CallsTrue, ViewOf, RenderedFrom
<1>9. StockTyped'
  BY <1>3 DEF StockSound, StockTyped
<1>. QED
  BY <1>3, <1>6, <1>8, <1>9 DEF StockSound

\* Others at the API.
LEMMA OthersSound ==
  ASSUME StockSound, UNCHANGED <<stock, navigation, forms, posts>>,
         DiscussionTyped(discussion'), Grown(discussion, discussion'),
         \A c \in Comments : discussion'[c].state = "unset" <=> discussion[c].state = "unset"
  PROVE  StockSound'
<1>1. ViewsShow'
  BY DiscussionGrown DEF Views
<1>2. ASSUME NEW r \in posts.calls, r.read, r.kind = "post"
      PROVE  Has(discussion', ViewOf(r), r.comment)
  <2>1. r.comment \in AllComments /\ DiscussionTyped(discussion)
    BY DEF StockSound, StockTyped, CallStates, AllComments
  <2>2. Known(discussion, ViewOf(r).comments)
    BY <1>2 DEF StockSound, ViewsShow, Views
  <2>3. Has(discussion, ViewOf(r), r.comment) /\ discussion[r.comment].state # "unset"
    BY <1>2 DEF StockSound, CallsTrue
  <2>. QED
    BY <2>1, <2>2, <2>3, HasKept
<1>3. \A r \in posts.calls : r.comment \in Comments
  BY DEF StockSound, StockTyped, CallStates
<1>4. CallsTrue'
  BY <1>2, <1>3 DEF StockSound, CallsTrue, ViewOf, RenderedFrom
<1>5. StockTyped' /\ OneCall'
  BY DEF StockSound, StockTyped, OneCall
<1>. QED
  BY <1>1, <1>4, <1>5 DEF StockSound

LEMMA ApiPostsSound ==
  ASSUME StockSound, NEW p \in posts.calls, ApiPosts(p)
  PROVE  StockSound'
<1>1. /\ p.comment \in AllComments /\ p.form \in CommentForms /\ p.kind = "post"
      /\ discussion[p.comment].state = "unset" /\ DiscussionTyped(discussion)
  BY DEF ApiPosts, Reaches, StockSound, StockTyped, CallStates, CallsTrue, AllComments
<1>2. /\ DiscussionTyped(discussion') /\ Grown(discussion, discussion')
      /\ discussion'[p.comment].state = "written"
      /\ \A d \in AllComments \ {p.comment} : discussion'[d] = discussion[d]
  BY <1>1, CreateGrows DEF ApiPosts
<1>. QED
  BY <1>1, <1>2, ApiStepSound DEF ApiPosts

LEMMA ApiDeletesSound ==
  ASSUME StockSound, NEW p \in posts.calls, ApiDeletes_(p)
  PROVE  StockSound'
<1>1. p.comment \in AllComments /\ p.kind = "delete" /\ DiscussionTyped(discussion)
  BY DEF ApiDeletes_, StockSound, StockTyped, CallStates, AllComments
<1>2. /\ DiscussionTyped(discussion') /\ Grown(discussion, discussion')
      /\ \A c \in AllComments : discussion'[c].state = "unset" <=> discussion[c].state = "unset"
  BY <1>1, DropGrows DEF ApiDeletes_
<1>. QED
  BY <1>1, <1>2, ApiStepSound DEF ApiDeletes_

LEMMA OthersStepSound ==
  ASSUME StockSound, NEW c \in OthersComments,
         OthersDelete(c) \/ \E parent \in DOMAIN forms : OthersPost(c, parent)
  PROVE  StockSound'
<1>0. /\ c \in AllComments /\ c \notin Comments /\ DiscussionTyped(discussion)
      /\ DOMAIN forms = CommentForms
  BY StockPageAssumption DEF AllComments, StockSound, StockTyped
<1>1. CASE OthersDelete(c)
  <2>1. /\ DiscussionTyped(discussion') /\ Grown(discussion, discussion')
        /\ \A d \in AllComments : discussion'[d].state = "unset" <=> discussion[d].state = "unset"
    BY <1>0, <1>1, DropGrows DEF OthersDelete
  <2>. QED
    BY <1>1, <2>1, OthersSound DEF OthersDelete, AllComments
<1>2. ASSUME NEW parent \in CommentForms, OthersPost(c, parent) PROVE StockSound'
  <2>1. discussion[c].state = "unset"
    BY <1>2 DEF OthersPost, Unwritten
  <2>2. /\ DiscussionTyped(discussion') /\ Grown(discussion, discussion')
        /\ \A d \in AllComments \ {c} : discussion'[d] = discussion[d]
    BY <1>0, <1>2, <2>1, CreateGrows DEF OthersPost
  <2>. QED
    BY <1>0, <1>2, <2>2, OthersSound DEF OthersPost, AllComments
<1>. QED
  BY <1>0, <1>1, <1>2

-----------------------------------------------------------------------------
LEMMA InitStockSound == StockInit => StockSound
<1> SUFFICES ASSUME StockInit PROVE StockSound
  OBVIOUS
<1>1. /\ discussion = [c \in AllComments |-> Unwritten] /\ posts.calls = {} /\ posts.count = 0
      /\ ~ navigation.asked /\ ~ navigation.read /\ ~ posts.navigated
      /\ stock.missed = {} /\ stock.comments = {}
      /\ forms = FreshForms
  BY DEF StockInit, Unasked
<1>2. DiscussionTyped(discussion)
  BY <1>1 DEF DiscussionTyped, Unwritten, CommentForms
<1>3. StockTyped
  BY <1>2, FreshFormsQuiet
     DEF StockInit, StockTyped, Unasked, Unreadable, Pages_, Views_
<1>4. Views = {stock}
  BY <1>1 DEF Views
<1>5. ViewsShow
  BY <1>1, <1>4, FreshFormsQuiet DEF ViewsShow, Known
<1>6. CallsTrue /\ OneCall
  BY <1>1 DEF CallsTrue, OneCall
<1>. QED
  BY <1>3, <1>5, <1>6 DEF StockSound

LEMMA ReadCommentsSound ==
  ASSUME StockSound, ReadComments
  PROVE  StockSound'
<1>1. PICK page \in PagesRead : navigation' = [navigation EXCEPT !.read = TRUE, !.page = page]
  BY DEF ReadComments
<1>2. UNCHANGED <<discussion, stock, forms, posts>> /\ navigation.asked
  BY DEF ReadComments
<1>3. /\ page \in Pages_ /\ Known(discussion, page.comments)
      /\ \A missed : /\ RenderedFrom(page, missed).comments = page.comments
                     /\ \A c \in AllComments : discussion[c].state # "unset" =>
                          Has(discussion, RenderedFrom(page, missed), c)
  BY ReadPage DEF StockSound, StockTyped
<1>4. /\ navigation' \in [asked : BOOLEAN, read : BOOLEAN, page : Pages_, missed : SUBSET AllComments]
      /\ navigation'.page = page /\ navigation'.asked
  BY <1>1, <1>2, <1>3 DEF StockSound, StockTyped
<1>5. StockTyped' /\ OneCall'
  BY <1>2, <1>4 DEF StockSound, StockTyped, OneCall
<1>6. CallsTrue'
  BY <1>2 DEF StockSound, CallsTrue, ViewOf, RenderedFrom
<1> DEFINE fetched == RenderedFrom(page, navigation'.missed)
<1>7. \A view \in Views' : view \in Views \/ view = fetched
  BY <1>2, <1>4 DEF Views, ViewOf
<1>8. /\ Known(discussion, fetched.comments)
      /\ \A c \in AllComments : discussion[c].state # "unset" => Has(discussion, fetched, c)
  BY <1>3
<1> HIDE DEF fetched
<1>9. ViewsShow'
  BY <1>2, <1>7, <1>8, ViewRead
<1>. QED
  BY <1>5, <1>6, <1>9 DEF StockSound

LEMMA RevalidateSound ==
  ASSUME StockSound, NEW p \in posts.calls, Revalidate_(p)
  PROVE  StockSound'
<1>1. PICK page \in PagesRead :
        posts' = [posts EXCEPT !.calls = (@ \ {p}) \cup {[p EXCEPT !.read = TRUE, !.page = page]}]
  BY DEF Revalidate_
<1>2. UNCHANGED <<discussion, stock, navigation, forms>> /\ p.status = "done" /\ ~ p.read
  BY DEF Revalidate_
<1>3. /\ page \in Pages_ /\ Known(discussion, page.comments)
      /\ \A missed : /\ RenderedFrom(page, missed).comments = page.comments
                     /\ \A c \in AllComments : discussion[c].state # "unset" =>
                          Has(discussion, RenderedFrom(page, missed), c)
  BY ReadPage DEF StockSound, StockTyped
<1>4. p \in CallStates
  BY DEF StockSound, StockTyped
<1> DEFINE q == [p EXCEPT !.read = TRUE, !.page = page]
           fetched == RenderedFrom(page, p.missed)
<1>5. /\ q \in CallStates /\ q.id = p.id /\ q.outrun = p.outrun /\ q.missed = p.missed
      /\ q.kind = p.kind /\ q.comment = p.comment /\ q.status = p.status /\ q.read
      /\ ViewOf(q) = fetched
  BY <1>3, <1>4 DEF CallStates, ViewOf
<1>6. posts' = [posts EXCEPT !.calls = (@ \ {p}) \cup {q}]
  BY <1>1
<1>7. /\ Known(discussion, fetched.comments)
      /\ \A c \in AllComments : discussion[c].state # "unset" => Has(discussion, fetched, c)
  BY <1>3
<1> HIDE DEF q, fetched
<1>8. /\ posts' \in [calls : SUBSET CallStates, count : Int, navigated : BOOLEAN]
      /\ posts'.calls = (posts.calls \ {p}) \cup {q}
      /\ OneCall'
  BY <1>2, <1>5, <1>6, CallReplaced
<1>9. StockTyped'
  BY <1>2, <1>8 DEF StockSound, StockTyped
<1>10. \A view \in Views' : view \in Views \/ view = fetched
  BY <1>2, <1>5, <1>8 DEF Views
<1>11. ViewsShow'
  BY <1>2, <1>7, <1>10, ViewRead
<1>12. CallsTrue'
  <2>1. p.comment \in AllComments /\ (p.kind = "post" => discussion[p.comment].state # "unset")
    BY <1>2, <1>4 DEF StockSound, CallsTrue, CallStates, AllComments
  <2>2. q.kind = "post" => Has(discussion, ViewOf(q), q.comment)
    BY <1>5, <1>7, <2>1
  <2>3. \A r \in posts'.calls : r = q \/ r \in posts.calls \ {p}
    BY <1>8
  <2>. QED
    BY <1>2, <1>5, <2>1, <2>2, <2>3 DEF StockSound, CallsTrue, ViewOf, RenderedFrom
<1>. QED
  BY <1>8, <1>9, <1>11, <1>12 DEF StockSound

LEMMA NavigateSound ==
  ASSUME StockSound, Navigate
  PROVE  StockSound'
<1>1. /\ posts' = [posts EXCEPT !.calls = {[p EXCEPT !.outrun = TRUE] : p \in posts.calls},
                                !.navigated = TRUE]
      /\ UNCHANGED <<discussion, stock, forms>>
      /\ navigation' = [Unasked EXCEPT !.asked = TRUE]
  BY DEF Navigate
<1>2. \A p \in CallStates : \A q : q = [p EXCEPT !.outrun = TRUE] =>
        /\ q \in CallStates /\ q.id = p.id /\ q.kind = p.kind /\ q.comment = p.comment
        /\ q.status = p.status /\ q.read = p.read /\ ViewOf(q) = ViewOf(p)
  BY DEF CallStates, ViewOf
<1>3. posts \in [calls : SUBSET CallStates, count : Int, navigated : BOOLEAN]
  BY DEF StockSound, StockTyped
<1>4. /\ posts'.calls = {[p EXCEPT !.outrun = TRUE] : p \in posts.calls}
      /\ posts'.count = posts.count /\ posts'.navigated
      /\ DOMAIN posts' = {"calls", "count", "navigated"}
      /\ posts' = [calls |-> posts'.calls, count |-> posts.count, navigated |-> TRUE]
  BY <1>1, <1>3
<1>5. ASSUME NEW q \in posts'.calls
      PROVE  /\ q \in CallStates
             /\ \E p \in posts.calls :
                  /\ q = [p EXCEPT !.outrun = TRUE] /\ q.id = p.id /\ q.kind = p.kind
                  /\ q.comment = p.comment
                  /\ q.status = p.status /\ q.read = p.read /\ ViewOf(q) = ViewOf(p)
  <2>1. PICK p \in posts.calls : q = [p EXCEPT !.outrun = TRUE]
    BY <1>4
  <2>2. p \in CallStates
    BY <1>3
  <2>3. /\ q \in CallStates /\ q.id = p.id /\ q.kind = p.kind /\ q.comment = p.comment
        /\ q.status = p.status /\ q.read = p.read /\ ViewOf(q) = ViewOf(p)
    BY <1>2, <2>1, <2>2
  <2>. QED
    BY <2>1, <2>3
<1>6. posts' \in [calls : SUBSET CallStates, count : Int, navigated : BOOLEAN]
  <2>1. posts'.calls \subseteq CallStates
    BY <1>5
  <2>. QED
    BY <1>3, <1>4, <2>1
<1>7. /\ navigation' \in [asked : BOOLEAN, read : BOOLEAN, page : Pages_, missed : SUBSET AllComments]
      /\ ~ navigation'.read
  BY <1>1 DEF Unasked, Unreadable, Pages_
<1>8. StockTyped'
  BY <1>1, <1>6, <1>7 DEF StockSound, StockTyped
<1>9. \A view \in Views' : view \in Views
  <2>1. \A view \in Views' : view = stock \/ \E q \in posts'.calls : q.read /\ view = ViewOf(q)
    BY <1>1, <1>7 DEF Views, ViewOf, RenderedFrom
  <2>2. \A q \in posts'.calls : q.read => ViewOf(q) \in Views
    BY <1>5 DEF Views
  <2>. QED
    BY <2>1, <2>2 DEF Views
<1>10. ViewsShow'
  BY <1>1, <1>9, ViewsKept
<1>11. CallsTrue'
  <2>1. \A q \in posts'.calls :
          /\ q.kind = "post" => (q.status = "sent" <=> discussion[q.comment].state = "unset")
          /\ q.read => q.status = "done"
          /\ q.read /\ q.kind = "post" => Has(discussion, ViewOf(q), q.comment)
    BY <1>5 DEF StockSound, CallsTrue
  <2>2. ASSUME NEW q \in posts'.calls, NEW r \in posts'.calls, q.kind = "post", r.kind = "post",
               q.comment = r.comment
        PROVE  q = r
    <3>1. PICK p \in posts.calls :
            q = [p EXCEPT !.outrun = TRUE] /\ p.kind = "post" /\ p.comment = q.comment
      BY <1>5, <2>2
    <3>2. PICK t \in posts.calls :
            r = [t EXCEPT !.outrun = TRUE] /\ t.kind = "post" /\ t.comment = r.comment
      BY <1>5, <2>2
    <3>. QED
      BY <2>2, <3>1, <3>2 DEF StockSound, CallsTrue
  <2>. QED
    BY <1>1, <2>1, <2>2 DEF CallsTrue, ViewOf, RenderedFrom
<1>12. OneCall'
  <2>1. \A q \in posts'.calls : q.id <= posts'.count
    BY <1>4, <1>5 DEF StockSound, OneCall
  <2>2. ASSUME NEW q \in posts'.calls, NEW r \in posts'.calls, q.id = r.id
        PROVE  q = r
    <3>1. PICK p \in posts.calls : q = [p EXCEPT !.outrun = TRUE] /\ p.id = q.id
      BY <1>5
    <3>2. PICK t \in posts.calls : r = [t EXCEPT !.outrun = TRUE] /\ t.id = r.id
      BY <1>5
    <3>. QED
      BY <2>2, <3>1, <3>2 DEF StockSound, OneCall
  <2>. QED
    BY <1>4, <2>1, <2>2 DEF OneCall
<1>. QED
  BY <1>8, <1>10, <1>11, <1>12 DEF StockSound

LEMMA NavigationArrivesSound ==
  ASSUME StockSound, NavigationArrives
  PROVE  StockSound'
<1>1. /\ stock' = ViewOf(navigation) /\ navigation' = Unasked /\ navigation.read
      /\ forms' = StillMounted(forms, navigation.page) /\ UNCHANGED <<discussion, posts>>
  BY DEF NavigationArrives, ViewOf
<1>2. /\ stock' \in Views_ /\ stock'.missed = navigation.missed
      /\ navigation' \in [asked : BOOLEAN, read : BOOLEAN, page : Pages_, missed : SUBSET AllComments]
      /\ ~ navigation'.read /\ ~ navigation'.asked
  BY <1>1 DEF StockSound, StockTyped, ViewOf, RenderedFrom, Views_, Pages_, Unasked, Unreadable
<1>3. /\ forms' \in [CommentForms -> FormStates]
      /\ \A f \in CommentForms : forms'[f].says = "posted" => forms'[f] = forms[f]
  BY <1>1, MountedForms DEF StockSound, StockTyped
<1>4. \A view \in Views' : view \in Views
  BY <1>1, <1>2 DEF Views
<1>5. ViewsShow'
  BY <1>1, <1>3, <1>4, ViewsKept
<1>6. StockTyped'
  BY <1>1, <1>2, <1>3 DEF StockSound, StockTyped
<1>7. CallsTrue'
  BY <1>1 DEF StockSound, CallsTrue, ViewOf, RenderedFrom
<1>8. OneCall'
  BY <1>1, <1>2 DEF StockSound, OneCall
<1>. QED
  BY <1>5, <1>6, <1>7, <1>8 DEF StockSound

\* A view that has missed one more comment.
Later(new, old, missed) ==
  new.readable = old.readable /\ new.comments = old.comments /\ new.missed = old.missed \cup missed

LEMMA LaterHas ==
  ASSUME NEW new, NEW old, NEW missed, Later(new, old, missed), NEW c
  PROVE  /\ Has(discussion, old, c) => Has(discussion, new, c)
         /\ c \in missed => Has(discussion, new, c)
BY DEF Later, Has, OffPage, ThreadsOf

\* What MissedByPage does to an action under way.
LEMMA MissedCall ==
  ASSUME NEW p \in CallStates, NEW q \in CallStates
  PROVE  \A r : r = MissedByPage(q, p) =>
           /\ r \in CallStates /\ r.id = q.id /\ r.kind = q.kind /\ r.comment = q.comment
           /\ r.status = q.status /\ r.outrun = q.outrun /\ r.read = q.read
           /\ r.missed = IF q.read THEN q.missed \cup PostedBy(p) ELSE q.missed
           /\ q.read => Later(ViewOf(r), ViewOf(q), PostedBy(p))
<1>1. PostedBy(p) \subseteq AllComments
  BY DEF PostedBy, CallStates, AllComments
<1> DEFINE missed == IF q.read THEN q.missed \cup PostedBy(p) ELSE q.missed
<1>2. missed \subseteq AllComments
  BY <1>1 DEF CallStates
<1>3. MissedByPage(q, p) = [q EXCEPT !.missed = missed]
  BY DEF MissedByPage
<1>4. q.read => missed = q.missed \cup PostedBy(p)
  OBVIOUS
<1> HIDE DEF missed
<1>5. \A r : r = [q EXCEPT !.missed = missed] =>
           /\ r \in CallStates /\ r.id = q.id /\ r.kind = q.kind /\ r.comment = q.comment
           /\ r.status = q.status /\ r.outrun = q.outrun /\ r.read = q.read /\ r.page = q.page
           /\ r.missed = missed
  BY <1>2 DEF CallStates
<1>. QED
  BY <1>3, <1>4, <1>5 DEF missed, Later, ViewOf, RenderedFrom

LEMMA ReturnSound ==
  ASSUME StockSound, NEW p \in posts.calls, Return_(p)
  PROVE  StockSound'
<1>1. /\ posts' = [posts EXCEPT !.calls = {MissedByPage(q, p) : q \in posts.calls \ {p}}]
      /\ navigation' = MissedByPage(navigation, p) /\ discussion' = discussion /\ p.read
      /\ forms' = StillMounted(Told(p, "posted", p.comment), stock')
      /\ stock' = ViewOf(p) \/ (p.outrun /\ stock' = [stock EXCEPT !.missed = @ \cup PostedBy(p)])
  BY DEF Return_, AfterAction, ViewOf
<1>2. p \in CallStates /\ p.comment \in AllComments /\ p.comment \in CommentForms
      /\ PostedBy(p) \subseteq AllComments /\ p.status = "done"
  BY <1>1 DEF StockSound, StockTyped, CallsTrue, CallStates, AllComments, CommentForms, PostedBy
<1>3. posts \in [calls : SUBSET CallStates, count : Int, navigated : BOOLEAN]
  BY DEF StockSound, StockTyped
<1>4. /\ posts'.calls = {MissedByPage(q, p) : q \in posts.calls \ {p}}
      /\ posts'.count = posts.count /\ posts'.navigated = posts.navigated
      /\ posts' = [calls |-> posts'.calls, count |-> posts.count, navigated |-> posts.navigated]
  BY <1>1, <1>3
<1>5. ASSUME NEW r \in posts'.calls
      PROVE  /\ r \in CallStates
             /\ \E q \in posts.calls \ {p} :
                  /\ r = MissedByPage(q, p) /\ r.id = q.id /\ r.kind = q.kind
                  /\ r.comment = q.comment
                  /\ r.status = q.status /\ r.outrun = q.outrun /\ r.read = q.read
                  /\ r.missed = IF q.read THEN q.missed \cup PostedBy(p) ELSE q.missed
                  /\ q.read => Later(ViewOf(r), ViewOf(q), PostedBy(p))
  <2>1. PICK q \in posts.calls \ {p} : r = MissedByPage(q, p)
    BY <1>4
  <2>2. q \in CallStates
    BY <1>3
  <2>3. /\ r \in CallStates /\ r.id = q.id /\ r.kind = q.kind /\ r.comment = q.comment
        /\ r.status = q.status /\ r.outrun = q.outrun /\ r.read = q.read
        /\ r.missed = IF q.read THEN q.missed \cup PostedBy(p) ELSE q.missed
        /\ q.read => Later(ViewOf(r), ViewOf(q), PostedBy(p))
    BY <1>2, <2>1, <2>2, MissedCall
  <2>. QED
    BY <2>1, <2>3
<1>6. /\ navigation' \in [asked : BOOLEAN, read : BOOLEAN, page : Pages_, missed : SUBSET AllComments]
      /\ navigation'.asked = navigation.asked /\ navigation'.read = navigation.read
      /\ navigation.read => Later(ViewOf(navigation'), ViewOf(navigation), PostedBy(p))
  <2>1. navigation \in [asked : BOOLEAN, read : BOOLEAN, page : Pages_, missed : SUBSET AllComments]
    BY DEF StockSound, StockTyped
  <2>2. /\ navigation.read =>
             navigation' = [navigation EXCEPT !.missed = navigation.missed \cup PostedBy(p)]
        /\ ~ navigation.read => navigation' = [navigation EXCEPT !.missed = navigation.missed]
    BY <1>1 DEF MissedByPage
  <2>. QED
    BY <1>2, <2>1, <2>2 DEF Later, ViewOf, RenderedFrom
<1>7. /\ stock' \in Views_
      /\ \/ stock' = ViewOf(p)
         \/ p.outrun /\ Later(stock', stock, PostedBy(p))
  <2>1. stock \in Views_ /\ ViewOf(p) \in Views_
    BY <1>2 DEF StockSound, StockTyped, ViewOf, RenderedFrom, Views_, CallStates, Pages_
  <2>2. stock' = [stock EXCEPT !.missed = stock.missed \cup PostedBy(p)] =>
          stock' \in Views_ /\ Later(stock', stock, PostedBy(p))
    BY <1>2, <2>1 DEF Views_, Later
  <2>. QED
    BY <1>1, <2>1, <2>2
<1>8. /\ forms' \in [CommentForms -> FormStates]
      /\ \A f \in CommentForms : forms'[f].says = "posted" =>
           forms'[f] = forms[f] \/ (p.kind = "post" /\ forms'[f].comment = p.comment)
  <2>1. StockTyped
    BY DEF StockSound
  <2>2. /\ Told(p, "posted", p.comment) \in [CommentForms -> FormStates]
        /\ \A f \in CommentForms : Told(p, "posted", p.comment)[f].says = "posted" =>
              \/ Told(p, "posted", p.comment)[f] = forms[f]
              \/ p.kind = "post" /\ Told(p, "posted", p.comment)[f].comment = p.comment
    BY <1>2, <2>1, ToldForms
  <2>. QED
    BY <1>1, <2>2, MountedForms
<1>9. \A view \in Views' :
        view = ViewOf(p) \/ \E old \in Views : Later(view, old, PostedBy(p))
  <2>1. ASSUME NEW view \in Views', view # stock',
               ~ (navigation'.read /\ view = ViewOf(navigation'))
        PROVE  \E r \in posts'.calls : r.read /\ view = ViewOf(r)
    <3>1. Views' = {stock'} \cup {ViewOf(v) : v \in {r \in {navigation'} \cup posts'.calls : r.read}}
      BY DEF Views, ViewOf, RenderedFrom
    <3>2. PICK v \in {navigation'} \cup posts'.calls : v.read /\ view = ViewOf(v)
      BY <2>1, <3>1
    <3>3. v # navigation'
      BY <2>1, <3>2
    <3>. QED
      BY <3>2, <3>3
  <2>2. ASSUME NEW r \in posts'.calls, r.read
        PROVE  \E old \in Views : Later(ViewOf(r), old, PostedBy(p))
    <3>1. PICK q \in posts.calls : q.read /\ Later(ViewOf(r), ViewOf(q), PostedBy(p))
      BY <1>5, <2>2
    <3>2. ViewOf(q) \in Views
      BY <3>1 DEF Views
    <3>. QED
      BY <3>1, <3>2
  <2>3. navigation'.read => \E old \in Views : Later(ViewOf(navigation'), old, PostedBy(p))
    BY <1>6 DEF Views
  <2>4. stock \in Views
    BY DEF Views
  <2>. QED
    BY <1>7, <2>1, <2>2, <2>3, <2>4
<1>10. ViewOf(p) \in Views
  BY <1>1 DEF Views
<1>11. ViewsShow'
  <2>1. \A view \in Views' : Known(discussion, view.comments)
    BY <1>9, <1>10 DEF StockSound, ViewsShow, Later
  <2>2. ASSUME NEW f \in CommentForms, forms'[f].says = "posted"
        PROVE  /\ forms'[f].comment \in AllComments
               /\ discussion[forms'[f].comment].state # "unset"
               /\ \A view \in Views' : Has(discussion, view, forms'[f].comment)
    <3>1. CASE forms'[f] = forms[f]
      <4>1. /\ forms[f].comment \in AllComments /\ discussion[forms[f].comment].state # "unset"
            /\ \A view \in Views : Has(discussion, view, forms[f].comment)
        BY <2>2, <3>1 DEF StockSound, ViewsShow
      <4>. QED
        BY <1>9, <1>10, <3>1, <4>1, LaterHas
    <3>2. CASE p.kind = "post" /\ forms'[f].comment = p.comment
      <4>1. Has(discussion, ViewOf(p), p.comment) /\ discussion[p.comment].state # "unset"
        BY <1>1, <1>2, <3>2 DEF StockSound, CallsTrue
      <4>2. p.comment \in PostedBy(p)
        BY <3>2 DEF PostedBy
      <4>. QED
        BY <1>2, <1>9, <3>2, <4>1, <4>2, LaterHas
    <3>. QED
      BY <1>8, <2>2, <3>1, <3>2
  <2>. QED
    BY <1>1, <2>1, <2>2 DEF ViewsShow
<1>12. CallsTrue'
  <2>1. ASSUME NEW r \in posts'.calls
        PROVE  /\ r.kind = "post" => (r.status = "sent" <=> discussion[r.comment].state = "unset")
               /\ r.read => r.status = "done"
               /\ r.read /\ r.kind = "post" => Has(discussion, ViewOf(r), r.comment)
    <3>1. PICK q \in posts.calls :
            /\ r.kind = q.kind /\ r.comment = q.comment /\ r.status = q.status /\ r.read = q.read
            /\ q.read => Later(ViewOf(r), ViewOf(q), PostedBy(p))
      BY <1>5
    <3>2. /\ q.kind = "post" => (q.status = "sent" <=> discussion[q.comment].state = "unset")
          /\ q.read => q.status = "done"
          /\ q.read /\ q.kind = "post" => Has(discussion, ViewOf(q), q.comment)
      BY DEF StockSound, CallsTrue
    <3>. QED
      BY <3>1, <3>2, LaterHas
  <2>2. ASSUME NEW r \in posts'.calls, NEW t \in posts'.calls, r.kind = "post", t.kind = "post",
               r.comment = t.comment
        PROVE  r = t
    <3>1. PICK q \in posts.calls :
            r = MissedByPage(q, p) /\ r.kind = q.kind /\ r.comment = q.comment
      BY <1>5
    <3>2. PICK u \in posts.calls :
            t = MissedByPage(u, p) /\ t.kind = u.kind /\ t.comment = u.comment
      BY <1>5
    <3>. QED
      BY <2>2, <3>1, <3>2 DEF StockSound, CallsTrue
  <2>. QED
    BY <1>1, <2>1, <2>2 DEF CallsTrue, ViewOf, RenderedFrom
<1>13. StockTyped'
  <2>1. posts'.calls \subseteq CallStates
    BY <1>5
  <2>2. posts' \in [calls : SUBSET CallStates, count : Int, navigated : BOOLEAN]
    BY <1>3, <1>4, <2>1
  <2>. QED
    BY <1>1, <1>6, <1>7, <1>8, <2>2 DEF StockSound, StockTyped
<1>14. OneCall'
  <2>1. \A r \in posts'.calls : r.id <= posts'.count
    BY <1>4, <1>5 DEF StockSound, OneCall
  <2>2. ASSUME NEW r \in posts'.calls, NEW t \in posts'.calls, r.id = t.id PROVE r = t
    <3>1. PICK q \in posts.calls : r = MissedByPage(q, p) /\ q.id = r.id
      BY <1>5
    <3>2. PICK u \in posts.calls : t = MissedByPage(u, p) /\ u.id = t.id
      BY <1>5
    <3>. QED
      BY <2>2, <3>1, <3>2 DEF StockSound, OneCall
  <2>3. ASSUME ~ posts.navigated, NEW q \in posts.calls \ {p} PROVE ~ q.read /\ q.status = "sent"
    <3>1. q.status # "sent" => p.id <= q.id /\ q.id <= p.id
      BY <1>2, <2>3 DEF StockSound, OneCall
    <3>2. p.id \in Int /\ q.id \in Int
      BY <1>3 DEF CallStates
    <3>3. q.id # p.id
      BY <2>3 DEF StockSound, OneCall
    <3>4. q.status = "sent"
      BY <3>1, <3>2, <3>3
    <3>. QED
      BY <3>4 DEF StockSound, CallsTrue
  <2>4. ~ posts.navigated => ~ navigation'.asked /\ ~ navigation'.read /\ stock'.missed = {}
    BY <1>6, <1>7 DEF StockSound, OneCall, ViewOf, RenderedFrom
  <2>5. ASSUME ~ posts.navigated, NEW r \in posts'.calls
        PROVE  ~ r.outrun /\ r.missed = {} /\ r.status = "sent"
    <3>1. PICK q \in posts.calls \ {p} :
            /\ r.outrun = q.outrun /\ r.status = q.status
            /\ r.missed = IF q.read THEN q.missed \cup PostedBy(p) ELSE q.missed
      BY <1>5
    <3>2. ~ q.outrun /\ q.missed = {} /\ ~ q.read /\ q.status = "sent"
      BY <2>3, <2>5 DEF StockSound, OneCall
    <3>. QED
      BY <3>1, <3>2
  <2>. QED
    BY <1>4, <2>1, <2>2, <2>4, <2>5 DEF OneCall
<1>. QED
  BY <1>11, <1>12, <1>13, <1>14 DEF StockSound

\* Steps of the forms beside the calls.
LEMMA FormsStep ==
  ASSUME StockSound, UNCHANGED <<discussion, stock, navigation>>,
         posts' \in [calls : SUBSET CallStates, count : Int, navigated : BOOLEAN],
         CallsTrue', OneCall', \A view \in Views' : view \in Views,
         forms' \in [CommentForms -> FormStates],
         \A f \in CommentForms : forms'[f].says = "posted" =>
           forms[f].says = "posted" /\ forms'[f].comment = forms[f].comment
  PROVE  StockSound'
<1>1. StockTyped'
  BY DEF StockSound, StockTyped
<1>2. ViewsShow'
  BY DEF StockSound, ViewsShow
<1>. QED
  BY <1>1, <1>2 DEF StockSound

LEMMA CallsRest ==
  ASSUME StockSound, UNCHANGED <<discussion, stock, navigation, posts>>
  PROVE  /\ posts' \in [calls : SUBSET CallStates, count : Int, navigated : BOOLEAN]
         /\ CallsTrue' /\ OneCall' /\ \A view \in Views' : view \in Views
BY DEF StockSound, StockTyped, CallsTrue, OneCall, Views, ViewOf, RenderedFrom

LEMMA StepStockSound == StockSound /\ [StockNext]_stockVars => StockSound'
<1> SUFFICES ASSUME StockSound, [StockNext]_stockVars PROVE StockSound'
  OBVIOUS
<1>0. /\ forms \in [CommentForms -> FormStates] /\ StockTyped
      /\ \A p \in posts.calls : p \in CallStates
      /\ Comments \subseteq AllComments /\ AllComments \subseteq CommentForms
      /\ TopLevel \in CommentForms
  BY DEF StockSound, StockTyped, AllComments, CommentForms
<1>1. CASE UNCHANGED stockVars
  BY <1>0, <1>1, CallsRest, FormsStep DEF stockVars
<1>2. CASE LeaveAndReturn
  BY <1>2, CallsRest, FormsStep, FreshFormsQuiet DEF LeaveAndReturn
<1>3. ASSUME NEW c \in AllComments, OpenReply(c) \/ CancelReply(c) PROVE StockSound'
  <2>1. /\ NoForm \in FormStates /\ NoForm.says = "nothing"
        /\ NewForm \in FormStates /\ NewForm.says = "nothing"
    BY DEF NoForm, NewForm, FormStates, CommentForms
  <2>2. UNCHANGED <<discussion, stock, navigation, posts>>
        /\ \E form \in {NoForm, NewForm} : forms' = [forms EXCEPT ![c] = form]
    BY <1>3 DEF OpenReply, CancelReply
  <2>3. PICK form \in {NoForm, NewForm} : forms' = [forms EXCEPT ![c] = form]
    BY <2>2
  <2>4. /\ forms' \in [CommentForms -> FormStates]
        /\ \A f \in CommentForms : forms'[f].says = "posted" => forms'[f] = forms[f]
    BY <1>0, <2>1, <2>3
  <2>. QED
    BY <2>2, <2>4, CallsRest, FormsStep
<1>4. ASSUME NEW c \in Comments, DeleteComment(c) PROVE StockSound'
  BY <1>0, <1>4, CallBegun, FormsStep DEF DeleteComment
<1>5. ASSUME NEW c \in Comments, NEW form \in DOMAIN forms, SubmitComment(form, c)
      PROVE  StockSound'
  <2>1. /\ forms' = [forms EXCEPT ![form].pending = c] /\ Call_("post", form, c) /\ Unused(c)
        /\ UNCHANGED <<discussion, stock, navigation>> /\ form \in CommentForms
    BY <1>0, <1>5 DEF SubmitComment
  <2>2. \A state \in FormStates : \A new : new = [state EXCEPT !.pending = c] =>
          new \in FormStates /\ new.says = state.says /\ new.comment = state.comment
    BY <1>0 DEF FormStates
  <2>3. PICK new \in FormStates : /\ forms' = [forms EXCEPT ![form] = new]
                                  /\ new.says = forms[form].says /\ new.comment = forms[form].comment
    BY <1>0, <2>1, <2>2
  <2>4. /\ forms' \in [CommentForms -> FormStates]
        /\ \A f \in CommentForms : forms'[f].says = "posted" =>
             forms[f].says = "posted" /\ forms'[f].comment = forms[f].comment
    BY <1>0, <2>3
  <2>. QED
    BY <2>1, <2>4, CallBegun, FormsStep
<1>6. ASSUME NEW p \in posts.calls, Refused_(p) PROVE StockSound'
  BY <1>0, <1>6, ToldForms, CallGone, FormsStep DEF Refused_
<1>7. ASSUME NEW p \in posts.calls, PostLost(p) PROVE StockSound'
  BY <1>0, <1>7, FreshFormsQuiet, CallGone, FormsStep DEF PostLost
<1>. QED
  BY <1>1, <1>2, <1>3, <1>4, <1>5, <1>6, <1>7, NavigateSound, ReadCommentsSound,
     NavigationArrivesSound, OthersStepSound, ApiPostsSound, ApiDeletesSound, RevalidateSound,
     ReturnSound DEF StockNext

\* A form that says Posted has its comment on the page until it is deleted or newer threads
\* fill the page, but for a page that could not be read or was read before the post came back,
\* which takes a navigation beside it: for any comments of anyone, any limit, replies, tabs,
\* navigations, renders and lost answers.
THEOREM DiscussionSafe == StockSpec => []PostedIsShown
<1>1. StockSound => PostedIsShown
  <2> SUFFICES ASSUME StockSound PROVE PostedIsShown
    OBVIOUS
  <2>1. DOMAIN forms = CommentForms /\ stock \in Views
    BY DEF StockSound, StockTyped, Views
  <2>2. \A c \in AllComments : OffPage(discussion, stock, c) => PushedOff(c)
    BY DEF OffPage, PushedOff, ThreadsOf, ThreadIn, Thread
  <2>3. stock.missed # {} => posts.navigated
    BY DEF StockSound, OneCall
  <2>. QED
    BY <2>1, <2>2, <2>3 DEF StockSound, ViewsShow, Has, PostedIsShown
<1>. QED
  BY <1>1, InitStockSound, StepStockSound, PTL DEF StockSpec

=============================================================================
