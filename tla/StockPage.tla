------------------------------ MODULE StockPage ------------------------------
(***************************************************************************)
(* The discussion on the page of a stock, for a user who is signed in        *)
(* (apps/web/app/(product)/stocks/[ticker]/page.tsx, comments-actions.ts,    *)
(* components/comments-section.tsx), and the comments at the API             *)
(* (routers/comments.py).                                                   *)
(*                                                                          *)
(* A page reaches the screen in two steps: the server reads the comments,    *)
(* and the router shows the page later.  A page under way, of an action or   *)
(* of a navigation, may therefore show the list as it was before another     *)
(* answer.                                                                  *)
(***************************************************************************)
EXTENDS Integers, FiniteSets

CONSTANTS
  Comments,      \* comments of the user, by id: an id is used once
  OthersComments,\* comments of other users
  TopLevel,      \* the parent of a comment that is no reply
  CommentLimit,  \* top-level comments on a page, 50 in the code
  MaxPosts       \* bound: forms submitted

ASSUME StockPageAssumption ==
  /\ Comments \cap OthersComments = {} /\ TopLevel \notin Comments \cup OthersComments
  /\ CommentLimit \in Nat \ {0} /\ MaxPosts \in Nat

VARIABLES
  discussion,    \* at the API: each comment's state, its parent and when it was created
  stock,         \* the page as rendered: the comments, whether they could be read, and those
                 \* it missed (their posts came back after they were read)
  navigation,       \* the navigation under way, and its page once the server has read it
  forms,         \* the comment forms
  posts          \* server actions under way, each with its page once that is read, the number
                 \* of submissions, and whether the user has navigated

stockVars == <<discussion, stock, navigation, forms, posts>>

AllComments == Comments \cup OthersComments
Unwritten == [state |-> "unset", parent |-> TopLevel, at |-> 0]

\* A form says nothing, Posted of a comment, or an error; a new answer is pending or not.
NoForm == [open |-> FALSE, says |-> "nothing", comment |-> TopLevel, pending |-> TopLevel]
NewForm == [NoForm EXCEPT !.open = TRUE]

\* A discussion that is mounted has its top form open.
FreshForms == [f \in AllComments \cup {TopLevel} |-> IF f = TopLevel THEN NewForm ELSE NoForm]

-----------------------------------------------------------------------------
Written == {c \in AllComments : discussion[c].state = "written"}
Threads == {c \in Written : discussion[c].parent = TopLevel}

\* The newest top-level comments, as many as the limit.
Newest(threads) ==
  /\ \A c \in threads, d \in Threads \ threads : discussion[c].at > discussion[d].at
  /\ threads = Threads \/ Cardinality(threads) = CommentLimit
  /\ Cardinality(threads) <= CommentLimit

ListedWith(threads) == threads \cup {c \in Written : discussion[c].parent \in threads}

\* What the server may read: the newest threads with their replies.  When the list cannot be
\* read the page says there are no comments.
Unreadable == [readable |-> FALSE, comments |-> {}]
PagesRead ==
  {Unreadable} \cup {[readable |-> TRUE, comments |-> ListedWith(threads)] :
                       threads \in {ts \in SUBSET Threads : Newest(ts)}}

Unasked == [asked |-> FALSE, read |-> FALSE, page |-> Unreadable, missed |-> {}]

StockInit ==
  /\ discussion = [c \in AllComments |-> Unwritten]
  /\ stock = [readable |-> TRUE, comments |-> {}, missed |-> {}]
  /\ navigation = Unasked
  /\ forms = FreshForms
  /\ posts = [calls |-> {}, count |-> 0, navigated |-> FALSE]

\* Comment forms stay mounted while their comments are listed.
StillMounted(fs, page) ==
  [f \in DOMAIN fs |-> IF f = TopLevel \/ f \in page.comments THEN fs[f] ELSE NoForm]

RenderedFrom(page, missed) == [readable |-> page.readable, comments |-> page.comments, missed |-> missed]

-----------------------------------------------------------------------------
\* The timeframe and the indicators are navigations.  A newer one takes the place of one under
\* way, and goes before the page of an action under way.
Navigate ==
  /\ navigation' = [Unasked EXCEPT !.asked = TRUE]
  /\ posts' = [posts EXCEPT !.calls = {[p EXCEPT !.outrun = TRUE] : p \in @}, !.navigated = TRUE]
  /\ UNCHANGED <<discussion, stock, forms>>

\* The server reads the page.
ReadComments ==
  /\ navigation.asked /\ ~ navigation.read
  /\ \E page \in PagesRead : navigation' = [navigation EXCEPT !.read = TRUE, !.page = page]
  /\ UNCHANGED <<discussion, stock, forms, posts>>

\* The router shows the page.
NavigationArrives ==
  /\ navigation.read
  /\ stock' = RenderedFrom(navigation.page, navigation.missed)
  /\ forms' = StillMounted(forms, navigation.page)
  /\ navigation' = Unasked
  /\ UNCHANGED <<discussion, posts>>

\* Another tab unmounts the discussion, with what its forms were told.
LeaveAndReturn ==
  /\ forms' = FreshForms
  /\ UNCHANGED <<discussion, stock, navigation, posts>>

-----------------------------------------------------------------------------
OpenReply(c) ==
  /\ c \in stock.comments /\ discussion[c].parent = TopLevel /\ ~ forms[c].open
  /\ forms' = [forms EXCEPT ![c] = NewForm]
  /\ UNCHANGED <<discussion, stock, navigation, posts>>

CancelReply(c) ==
  /\ forms[c].open
  /\ forms' = [forms EXCEPT ![c] = NoForm]
  /\ UNCHANGED <<discussion, stock, navigation, posts>>

NewCall(kind, form, c) ==
  [id |-> posts.count + 1, kind |-> kind, form |-> form, comment |-> c, status |-> "sent",
   outrun |-> FALSE, read |-> FALSE, page |-> Unreadable, missed |-> {}]

Call_(kind, form, c) ==
  /\ posts.count < MaxPosts
  /\ posts' = [posts EXCEPT !.count = @ + 1, !.calls = @ \cup {NewCall(kind, form, c)}]

Unused(c) == discussion[c] = Unwritten /\ \A p \in posts.calls : p.comment # c

\* A form that is pending cannot be submitted; what it says stays until the answer.
SubmitComment(form, c) ==
  /\ forms[form].open /\ forms[form].pending = TopLevel
  /\ Unused(c) /\ c = CHOOSE d \in Comments : Unused(d)
  /\ Call_("post", form, c)
  /\ forms' = [forms EXCEPT ![form].pending = c]
  /\ UNCHANGED <<discussion, stock, navigation>>

\* The comments of the user have a button, which nothing disables.
DeleteComment(c) ==
  /\ c \in stock.comments
  /\ Call_("delete", TopLevel, c)
  /\ UNCHANGED <<discussion, stock, navigation, forms>>

-----------------------------------------------------------------------------
\* The router sends actions one at a time, a navigation lets the next one go.
Reaches(p) == p.status = "sent" /\ \A q \in posts.calls : q.id < p.id => q.outrun

Status(p, status) ==
  posts' = [posts EXCEPT !.calls = (@ \ {p}) \cup {[p EXCEPT !.status = status]}]

\* Creation times are taken to be in the order of the commits.
Create(c, parent) ==
  discussion' = [discussion EXCEPT ![c] =
    [state |-> "written", parent |-> parent,
     at |-> Cardinality({d \in AllComments : discussion[d].state # "unset"}) + 1]]

\* A comment goes with the replies to it.
Drop(comment) ==
  discussion' = [c \in AllComments |->
    IF c \in Written /\ (c = comment \/ discussion[c].parent = comment)
    THEN [discussion[c] EXCEPT !.state = "gone"] ELSE discussion[c]]

\* A reply needs a top-level comment that is there.
ApiPosts(p) ==
  /\ p.kind = "post" /\ Reaches(p)
  /\ p.form = TopLevel \/ p.form \in Threads
  /\ Create(p.comment, p.form)
  /\ Status(p, "done")
  /\ UNCHANGED <<stock, navigation, forms>>

\* Gone already is success.
ApiDeletes_(p) ==
  /\ p.kind = "delete" /\ Reaches(p)
  /\ Drop(p.comment)
  /\ Status(p, "done")
  /\ UNCHANGED <<stock, navigation, forms>>

OthersPost(c, parent) ==
  /\ discussion[c] = Unwritten /\ (parent = TopLevel \/ parent \in Threads)
  /\ Create(c, parent)
  /\ UNCHANGED <<stock, navigation, forms, posts>>

OthersDelete(c) ==
  /\ c \in Written
  /\ Drop(c)
  /\ UNCHANGED <<stock, navigation, forms, posts>>

-----------------------------------------------------------------------------
\* An action that wrote revalidates the page: the server reads it again.
Revalidate_(p) ==
  /\ p.status = "done" /\ ~ p.read
  /\ \E page \in PagesRead :
       posts' = [posts EXCEPT !.calls = (@ \ {p}) \cup {[p EXCEPT !.read = TRUE, !.page = page]}]
  /\ UNCHANGED <<discussion, stock, navigation, forms>>

\* The answer is the form's when it still waits for it.
Told(p, says, comment) ==
  IF p.kind = "post" /\ forms[p.form].pending = p.comment
  THEN [forms EXCEPT ![p.form] = [NewForm EXCEPT !.says = says, !.comment = comment]]
  ELSE forms

\* A page under way that was read before a post came back has missed its comment.
PostedBy(p) == IF p.kind = "post" THEN {p.comment} ELSE {}
MissedByPage(page, p) == [page EXCEPT !.missed = IF page.read THEN @ \cup PostedBy(p) ELSE @]

\* Mutation: the page is not revalidated.
LeftAsItIs(p) == RenderedFrom(stock, stock.missed)

\* What an action that wrote leaves on the screen.
AfterAction(p) == RenderedFrom(p.page, p.missed)

\* The action comes back with its page.  The router shows it, or drops it when the user has
\* navigated since the click.
Return_(p) ==
  /\ p.read
  /\ \/ stock' = AfterAction(p)
     \/ p.outrun /\ stock' = [stock EXCEPT !.missed = @ \cup PostedBy(p)]
  /\ forms' = StillMounted(Told(p, "posted", p.comment), stock')
  /\ navigation' = MissedByPage(navigation, p)
  /\ posts' = [posts EXCEPT !.calls = {MissedByPage(q, p) : q \in @ \ {p}}]
  /\ UNCHANGED <<discussion>>

\* Nobody is signed in any more, the text is empty or too long, the parent is gone, or it is
\* one comment too many in a minute: nothing is written and nothing revalidated.
Refused_(p) ==
  /\ Reaches(p)
  /\ posts' = [posts EXCEPT !.calls = @ \ {p}]
  /\ forms' = Told(p, "error", TopLevel)
  /\ UNCHANGED <<discussion, stock, navigation>>

\* The connection breaks before or after the write.  When its form is still there, Try again
\* in the error boundary mounts the page anew from what the browser has.
Waiting(p) ==
  IF p.kind = "post" THEN forms[p.form].pending = p.comment
  ELSE p.comment \in stock.comments

PostLost(p) ==
  /\ Reaches(p) \/ p.status = "done"
  /\ posts' = [posts EXCEPT !.calls = @ \ {p}]
  /\ forms' = IF Waiting(p) THEN FreshForms ELSE forms
  /\ UNCHANGED <<discussion, stock, navigation>>

StockNext ==
  \/ Navigate \/ ReadComments \/ NavigationArrives
  \/ LeaveAndReturn
  \/ \E c \in AllComments : OpenReply(c) \/ CancelReply(c)
  \/ \E c \in Comments : \/ DeleteComment(c)
                         \/ \E form \in DOMAIN forms : SubmitComment(form, c)
  \/ \E c \in OthersComments : \/ OthersDelete(c)
                               \/ \E parent \in DOMAIN forms : OthersPost(c, parent)
  \/ \E p \in posts.calls : \/ ApiPosts(p) \/ ApiDeletes_(p)
                            \/ Revalidate_(p) \/ Return_(p) \/ Refused_(p) \/ PostLost(p)

StockSpec == StockInit /\ [][StockNext]_stockVars

-----------------------------------------------------------------------------
Thread(c) == IF discussion[c].parent = TopLevel THEN c ELSE discussion[c].parent

\* The page is full of newer threads.
PushedOff(c) ==
  LET threads == {t \in stock.comments : discussion[t].parent = TopLevel} IN
  /\ Cardinality(threads) = CommentLimit
  /\ \A t \in threads : discussion[t].at > discussion[Thread(c)].at

\* A form that says Posted has its comment on the page, until the comment is deleted or newer
\* threads fill the page, through any mix of posts, deletions, tabs, navigations and other
\* users (comments-actions.ts:48-54).  Two pages are left out: one that could not be read,
\* which says there are no comments, and one that was read before the post came back.  The
\* latter takes a navigation beside the action: without one, none is shown.
PostedIsShown ==
  /\ \A f \in DOMAIN forms :
       LET c == forms[f].comment IN
       forms[f].says = "posted" /\ stock.readable /\ c \notin stock.missed =>
         \/ c \in stock.comments
         \/ discussion[c].state = "gone"
         \/ PushedOff(c)
  /\ stock.missed # {} => posts.navigated

=============================================================================
