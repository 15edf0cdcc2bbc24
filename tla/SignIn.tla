-------------------------------- MODULE SignIn --------------------------------
(***************************************************************************)
(* Accounts and sessions of the web client (app/(public)/(auth)/actions.ts,  *)
(* auth.ts, lib/users.ts, lib/rate-limit.ts, proxy.ts): browsers that sign   *)
(* up, sign in and sign out against one table of users, which the Next.js    *)
(* server reads and writes itself.                                           *)
(***************************************************************************)
EXTENDS Integers, FiniteSets, Sequences

CONSTANTS
  Browsers,
  LowerCase,         \* Spelled[text]: the lower-case form of an address as it may be typed
  Passwords,       \* what may be typed as a password that is long enough
  NoPassword,      \* an account that came from Google
  PublicPage,      \* a page anybody may see; where a sign-in without a target ends
  ProtectedPage,   \* a page the proxy asks a session for
  SignupLimit, LoginLimit,
  MaxForms   \* bound: forms sent in a behaviour

ASSUME SignInAssumption ==
  /\ {SignupLimit, LoginLimit} \subseteq Nat \ {0} /\ MaxForms \in Nat
  /\ \A t \in DOMAIN LowerCase : LowerCase[t] \in DOMAIN LowerCase /\ LowerCase[LowerCase[t]] = LowerCase[t]
  /\ PublicPage # ProtectedPage /\ NoPassword \notin Passwords
  /\ ProtectedPage \notin {"prompt", "login", "signup", "error page"}

VARIABLES
  users,       \* the rows of the table, numbered by their ids
  browsers,    \* per browser: the page, the target it carries, its session and message
  underway,       \* per browser: the action under way on the server
  hits,        \* attempts counted per key in its window
  submitted    \* bound

signInVars == <<users, browsers, underway, hits, submitted>>

Spellings == DOMAIN LowerCase
Idle == [kind |-> "none", email |-> CHOOSE t \in Spellings : TRUE, password |-> NoPassword, step |-> "none"]
Keys == ({"signup", "address"} \X Browsers) \cup ({"email"} \X Spellings)

SignInInit ==
  /\ users = <<>>
  /\ browsers = [b \in Browsers |->
       [at |-> PublicPage, target |-> PublicPage, session |-> 0, message |-> "none"]]
  /\ underway = [b \in Browsers |-> Idle]
  /\ hits = [k \in Keys |-> 0]
  /\ submitted = 0

Pending(b) == underway[b].kind # "none"

-----------------------------------------------------------------------------
\* Navigation. The proxy sends a browser without a session to a prompt that remembers the path.
Visit(b, page) ==
  /\ ~ Pending(b)
  /\ browsers' = [browsers EXCEPT ![b] =
       IF page = ProtectedPage /\ @.session = 0
       THEN [@ EXCEPT !.at = "prompt", !.target = page, !.message = "none"]
       ELSE [@ EXCEPT !.at = page, !.target = PublicPage, !.message = "none"]]
  /\ UNCHANGED <<users, underway, hits, submitted>>

\* The prompt's link to the login keeps the target; the forms pass it to each other; the
\* prompt's link to the sign-up does not carry it.
OpenForm(b, page) ==
  /\ ~ Pending(b)
  /\ browsers' = [browsers EXCEPT ![b] =
       [@ EXCEPT !.at = page, !.message = "none",
                 !.target = IF browsers[b].at \in {"login", "signup"}
                               \/ (browsers[b].at = "prompt" /\ page = "login")
                            THEN @ ELSE PublicPage]]
  /\ UNCHANGED <<users, underway, hits, submitted>>

\* A browser is taken to wait for the action it started.
SubmitForm(b) ==
  /\ ~ Pending(b) /\ browsers[b].at \in {"login", "signup"}
  /\ submitted < MaxForms /\ submitted' = submitted + 1
  /\ \E email \in Spellings, password \in Passwords :
       underway' = [underway EXCEPT ![b] =
         [kind |-> browsers[b].at, email |-> email, password |-> password, step |-> "gate"]]
  /\ UNCHANGED <<users, browsers, hits>>

ContinueWithGoogle(b) ==
  /\ ~ Pending(b) /\ browsers[b].at \in {"login", "signup"}
  /\ submitted < MaxForms /\ submitted' = submitted + 1
  /\ \E email \in Spellings :
       underway' = [underway EXCEPT ![b] =
         [kind |-> "google", email |-> email, password |-> NoPassword, step |-> "find"]]
  /\ UNCHANGED <<users, browsers, hits>>

-----------------------------------------------------------------------------
At(b, kinds, step) == underway[b].kind \in kinds /\ underway[b].step = step
Goes(b, step) == underway' = [underway EXCEPT ![b].step = step]

\* The action returns a message to the form, or throws to the route's error page.
Message(b, text) ==
  /\ browsers' = [browsers EXCEPT ![b].message = text]
  /\ underway' = [underway EXCEPT ![b] = Idle]

Throws(b) ==
  /\ browsers' = [browsers EXCEPT ![b].at = "error page", ![b].message = "none"]
  /\ underway' = [underway EXCEPT ![b] = Idle]

hit(keys) == [k \in Keys |-> IF k \in keys THEN hits[k] + 1 ELSE hits[k]]
HasAttempts(key, limit) == hits[key] < limit

\* Attempts are counted whether they are allowed or not; the address of the client only when
\* the e-mail has attempts left.
Gate(b) ==
  LET c == underway[b]  k == <<"email", c.email>>
      mine == IF c.kind = "signup" THEN {<<"signup", b>>}
              ELSE IF HasAttempts(k, LoginLimit) THEN {k, <<"address", b>>} ELSE {k}
      allowed == IF c.kind = "signup" THEN HasAttempts(<<"signup", b>>, SignupLimit)
                 ELSE HasAttempts(k, LoginLimit) /\ HasAttempts(<<"address", b>>, 3 * LoginLimit)
  IN /\ At(b, {"signup", "login"}, "gate")
     /\ hits' = hit(mine)
     /\ IF ~ allowed THEN Message(b, "too many attempts")
        ELSE /\ Goes(b, IF c.kind = "signup" THEN "find" ELSE "sign in")
             /\ UNCHANGED browsers
     /\ UNCHANGED <<users, submitted>>

\* A window of the limiter is over.
WindowEnds(key) ==
  /\ hits[key] > 0
  /\ hits' = [hits EXCEPT ![key] = 0]
  /\ UNCHANGED <<users, browsers, underway, submitted>>

-----------------------------------------------------------------------------
findUserByEmail(email) == {id \in DOMAIN users : users[id].email = LowerCase[email]}

\* Mutation: the address is stored as it was typed.
RowAsTyped(email, password) == [email |-> email, password |-> password]

NewRow(email, password) == [email |-> LowerCase[email], password |-> password]

\* The unique index compares the stored addresses.
Taken(row) == \E id \in DOMAIN users : users[id].email = row.email

SignupFinds(b) ==
  /\ At(b, {"signup"}, "find")
  /\ IF findUserByEmail(underway[b].email) # {} THEN Message(b, "account exists")
     ELSE Goes(b, "insert") /\ UNCHANGED browsers
  /\ UNCHANGED <<users, hits, submitted>>

\* Another sign-up may have taken the address while the password was hashed.
SignupInserts(b) ==
  LET row == NewRow(underway[b].email, underway[b].password) IN
    /\ At(b, {"signup"}, "insert")
    /\ IF Taken(row) THEN Message(b, "account exists") /\ UNCHANGED users
       ELSE users' = Append(users, row) /\ Goes(b, "sign in") /\ UNCHANGED browsers
    /\ UNCHANGED <<hits, submitted>>

\* The session names the row, and the browser goes where it was going.
StartSession(b, id) ==
  /\ browsers' = [browsers EXCEPT ![b] =
       [at |-> @.target, target |-> PublicPage, session |-> id, message |-> "none"]]
  /\ underway' = [underway EXCEPT ![b] = Idle]

authorize(c) == {id \in findUserByEmail(c.email) : users[id].password = c.password}

\* A login that succeeds forgets the attempts before it.
SignsIn(b) ==
  LET c == underway[b] IN
    /\ At(b, {"signup", "login"}, "sign in")
    /\ authorize(c) # {}
    /\ StartSession(b, CHOOSE id \in authorize(c) : TRUE)
    /\ hits' = [k \in Keys |->
         IF c.kind = "login" /\ k \in {<<"email", c.email>>, <<"address", b>>} THEN 0 ELSE hits[k]]
    /\ UNCHANGED <<users, submitted>>

\* No such account or password, or the table could not be read: the login form says the
\* credentials are wrong, the sign-up, which does not expect it, throws.
SignInFails(b) ==
  /\ At(b, {"signup", "login"}, "sign in")
  /\ IF underway[b].kind = "login" THEN Message(b, "invalid") ELSE Throws(b)
  /\ UNCHANGED <<users, hits, submitted>>

\* Google vouches for an address; its row is found, or made.
GoogleFinds(b) ==
  /\ At(b, {"google"}, "find")
  /\ LET found == findUserByEmail(underway[b].email) IN
       IF found = {} THEN Goes(b, "insert") /\ UNCHANGED browsers
       ELSE StartSession(b, CHOOSE id \in found : TRUE)
  /\ UNCHANGED <<users, hits, submitted>>

GoogleInserts(b) ==
  LET row == NewRow(underway[b].email, NoPassword) IN
    /\ At(b, {"google"}, "insert")
    /\ IF Taken(row) THEN Throws(b) /\ UNCHANGED users
       ELSE users' = Append(users, row) /\ StartSession(b, Len(users) + 1)
    /\ UNCHANGED <<hits, submitted>>

\* The table cannot be reached, or Google declines.
TableFails(b) ==
  /\ underway[b].step \in {"find", "insert"}
  /\ Throws(b)
  /\ UNCHANGED <<users, hits, submitted>>

SignOut(b) ==
  /\ ~ Pending(b) /\ browsers[b].session # 0
  /\ browsers' = [browsers EXCEPT ![b] =
       [at |-> PublicPage, target |-> PublicPage, session |-> 0, message |-> "none"]]
  /\ UNCHANGED <<users, underway, hits, submitted>>

SignInNext ==
  \/ \E b \in Browsers :
       \/ \E page \in {PublicPage, ProtectedPage} : Visit(b, page)
       \/ \E page \in {"login", "signup"} : OpenForm(b, page)
       \/ SubmitForm(b) \/ ContinueWithGoogle(b) \/ Gate(b)
       \/ SignupFinds(b) \/ SignupInserts(b) \/ SignsIn(b) \/ SignInFails(b)
       \/ GoogleFinds(b) \/ GoogleInserts(b) \/ TableFails(b) \/ SignOut(b)
  \/ \E k \in Keys : WindowEnds(k)

SignInSpec == SignInInit /\ [][SignInNext]_signInVars

-----------------------------------------------------------------------------
\* However sign-ups and Google sign-ins overlap and however an address is spelled, it has
\* one account, and a protected page stands in front of a session of an account that exists,
\* which it then does for good: nothing in the code deletes a user (lib/users.ts:19-56,
\* actions.ts:62-92, proxy.ts:30-39).
OneAccountPerAddress ==
  /\ \A i, j \in DOMAIN users : LowerCase[users[i].email] = LowerCase[users[j].email] => i = j
  /\ \A b \in Browsers :
       browsers[b].at = ProtectedPage => browsers[b].session \in DOMAIN users

=============================================================================
