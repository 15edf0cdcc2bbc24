--------------------------- MODULE WebPagesProofs ---------------------------
(***************************************************************************)
(* Proofs about pages of the web client, for every number of rows, symbols, *)
(* bars, requests under way and fields: what an answer that comes late, or  *)
(* for something else, can do to a page.                                    *)
(***************************************************************************)
EXTENDS OrderBlotter, ReplayLauncher, BacktestForm, ReplayDesk, Screener, MarketsTable,
        FiniteSetTheorems, TLAPS

-----------------------------------------------------------------------------
(* Lists with a button per row.                                              *)

EndStatuses == {"sent", "204", "200", "400", "404", "422"}
RowStatuses == {"pending", "filled", "cancelled", "closed"}
RowMaps == [Rows -> RowStatuses]

Blotters == [list : Lists, filter : Filters, shown : RowMaps, missed : SUBSET Rows, error : BOOLEAN]
Headings == [stage : {"none", "asked"}, to : Filters, read : BOOLEAN, rows : RowMaps, missed : SUBSET Rows]
Endings ==
  [id : Int, row : Rows, status : EndStatuses, outrun : BOOLEAN, read : BOOLEAN, rows : RowMaps,
   missed : SUBSET Rows]

BlotterTyped ==
  /\ blotter \in Blotters
  /\ heading \in Headings
  /\ ending \subseteq Endings
  /\ ledgerRow \in RowMaps
  /\ ended \in [rows : SUBSET Rows, clicks : Int, navigated : BOOLEAN]

\* Rows that were read, but for what they missed, show no row whose action came back.
Fresh(rows, missed) == \A row \in ended.rows \ missed : rows[row] # "pending"

\* A row that an answer calls ended has ended at the API; a page under way was read after
\* the end of its own row.
AnswersTrue ==
  /\ \A row \in ended.rows : ledgerRow[row] # "pending"
  /\ \A a \in ending : Done(a) => ledgerRow[a.row] # "pending"
  /\ \A a \in ending : a.read => Done(a) /\ a.rows[a.row] # "pending" /\ Fresh(a.rows, a.missed)
  /\ heading.read => Fresh(heading.rows, heading.missed)
  /\ Fresh(blotter.shown, blotter.missed)

\* Without a navigation there is one action at the API, and nothing is missed.
OneAtATime ==
  /\ \A a \in ending : a.id <= ended.clicks
  /\ \A a, b \in ending : a.id = b.id => a = b
  /\ ~ ended.navigated =>
       /\ heading.stage = "none" /\ ~ heading.read /\ blotter.missed = {}
       /\ \A a \in ending : ~ a.outrun /\ a.missed = {}
       /\ \A a, b \in ending : a.status # "sent" => a.id <= b.id

BlotterSound == BlotterTyped /\ AnswersTrue /\ OneAtATime

LEMMA InitBlotterSound == BlotterInit => BlotterSound
BY BlotterAssumption
   DEF BlotterInit, BlotterOn, Settled, AllPending, BlotterSound, BlotterTyped, AnswersTrue, OneAtATime,
       Fresh, Blotters, Headings, RowMaps, RowStatuses, Lists

\* One action replaced by what became of it.
LEMMA ActionReplaced ==
  ASSUME BlotterSound, NEW a \in ending, NEW b \in Endings,
         b.id = a.id, b.row = a.row, b.outrun = a.outrun, b.missed = a.missed,
         a.status # "sent" \/ Sent(a),
         ending' = (ending \ {a}) \cup {b},
         UNCHANGED <<blotter, heading, ended>>,
         ledgerRow' \in RowMaps,
         \A row \in Rows : ledgerRow[row] # "pending" => ledgerRow'[row] # "pending",
         Done(b) => ledgerRow'[a.row] # "pending",
         b.read => Done(b) /\ b.rows[a.row] # "pending" /\ Fresh(b.rows, b.missed)
  PROVE  BlotterSound'
<1>1. BlotterTyped'
  BY DEF BlotterSound, BlotterTyped
<1>2. AnswersTrue'
  <2>1. \A c \in ending' : c = b \/ c \in ending
    OBVIOUS
  <2>2. ended.rows \subseteq Rows /\ \A c \in ending : c.row \in Rows
    BY DEF BlotterSound, BlotterTyped, Endings
  <2>. QED
    BY <2>1, <2>2 DEF BlotterSound, AnswersTrue, Fresh, Done
<1>3. OneAtATime'
  <2>1. ended' = ended /\ heading' = heading /\ blotter' = blotter
    OBVIOUS
  <2>2. \A c \in ending' : c = b \/ (c \in ending /\ c # a)
    OBVIOUS
  <2>3. \A c \in ending : c.id \in Int
    BY DEF BlotterSound, BlotterTyped, Endings
  <2>4. ~ ended.navigated => \A c \in ending : a.id <= c.id
    BY <2>3 DEF BlotterSound, OneAtATime, Sent
  <2>. QED
    BY <2>1, <2>2, <2>3, <2>4 DEF BlotterSound, OneAtATime
<1>. QED
  BY <1>1, <1>2, <1>3 DEF BlotterSound

\* One action gone without its page.
LEMMA ActionGone ==
  ASSUME BlotterSound, NEW a \in ending, ending' = ending \ {a},
         blotter' \in {blotter, [blotter EXCEPT !.error = TRUE]},
         UNCHANGED <<heading, ledgerRow, ended>>
  PROVE  BlotterSound'
<1>1. blotter' \in Blotters /\ blotter'.shown = blotter.shown /\ blotter'.missed = blotter.missed
  BY DEF BlotterSound, BlotterTyped, Blotters
<1>. QED
  BY <1>1 DEF BlotterSound, BlotterTyped, AnswersTrue, OneAtATime, Fresh, Done

\* What MissedBy does to an action under way.
LEMMA MissedAction ==
  ASSUME NEW b \in Endings, NEW row \in Rows
  PROVE  \A c : c = MissedBy(b, row) =>
            /\ c \in Endings
            /\ c.id = b.id /\ c.row = b.row /\ c.status = b.status /\ c.outrun = b.outrun
            /\ c.read = b.read /\ c.rows = b.rows
            /\ c.missed = IF b.read THEN b.missed \cup {row} ELSE b.missed
BY DEF MissedBy, Endings

LEMMA ReturnSound ==
  ASSUME BlotterSound, NEW a \in ending, Return(a)
  PROVE  BlotterSound'
<1> DEFINE row == a.row
<1>1. a \in Endings /\ row \in Rows /\ Done(a) /\ a.read /\ ledgerRow' = ledgerRow
  BY DEF BlotterSound, BlotterTyped, Endings, Return
<1>2. ended' \in [rows : SUBSET Rows, clicks : Int, navigated : BOOLEAN]
      /\ ended'.rows = ended.rows \cup {row} /\ ended'.clicks = ended.clicks
      /\ ended'.navigated = ended.navigated
  BY <1>1 DEF Return, BlotterSound, BlotterTyped
<1>3. heading' \in Headings /\ heading'.stage = heading.stage /\ heading'.read = heading.read
      /\ heading'.rows = heading.rows
      /\ heading'.missed = IF heading.read THEN heading.missed \cup {row} ELSE heading.missed
  BY <1>1 DEF Return, MissedBy, BlotterSound, BlotterTyped, Headings
<1>4. \A c \in ending' : c \in Endings /\ \E b \in ending \ {a} :
        /\ c.id = b.id /\ c.row = b.row /\ c.status = b.status /\ c.outrun = b.outrun
        /\ c.read = b.read /\ c.rows = b.rows
        /\ c.missed = IF b.read THEN b.missed \cup {row} ELSE b.missed
        /\ c = MissedBy(b, row)
  <2>1. ending' = {MissedBy(b, row) : b \in ending \ {a}}
    BY DEF Return
  <2>2. \A b \in ending : b \in Endings
    BY DEF BlotterSound, BlotterTyped
  <2>3. SUFFICES ASSUME NEW c \in ending'
                 PROVE  c \in Endings /\ \E b \in ending \ {a} :
                           /\ c.id = b.id /\ c.row = b.row /\ c.status = b.status /\ c.outrun = b.outrun
                           /\ c.read = b.read /\ c.rows = b.rows
                           /\ c.missed = IF b.read THEN b.missed \cup {row} ELSE b.missed
                           /\ c = MissedBy(b, row)
    OBVIOUS
  <2>4. PICK b \in ending \ {a} : c = MissedBy(b, row)
    BY <2>1
  <2>5. b \in Endings /\ row \in Rows
    BY <1>1, <2>2
  <2> HIDE DEF row
  <2>6. /\ c \in Endings
        /\ c.id = b.id /\ c.row = b.row /\ c.status = b.status /\ c.outrun = b.outrun
        /\ c.read = b.read /\ c.rows = b.rows
        /\ c.missed = IF b.read THEN b.missed \cup {row} ELSE b.missed
    BY <2>4, <2>5, MissedAction
  <2>. QED
    BY <2>4, <2>6
<1>5. blotter' \in Blotters
      /\ \/ blotter'.shown = a.rows /\ blotter'.missed = a.missed
         \/ a.outrun /\ blotter'.shown = blotter.shown /\ blotter'.missed = blotter.missed \cup {row}
  <2>1. a.rows \in RowMaps /\ a.missed \subseteq Rows /\ blotter \in Blotters
    BY <1>1 DEF Endings, BlotterSound, BlotterTyped
  <2>2. CASE blotter' = [blotter EXCEPT !.shown = a.rows, !.missed = a.missed]
    BY <2>1, <2>2 DEF Blotters
  <2>3. CASE a.outrun /\ blotter' = [blotter EXCEPT !.missed = blotter.missed \cup {row}]
    <3>1. blotter.missed \cup {row} \subseteq Rows
      BY <1>1, <2>1 DEF Blotters
    <3>. QED
      BY <2>1, <2>3, <3>1 DEF Blotters
  <2>. QED
    BY <2>2, <2>3 DEF Return, AfterRevalidation
<1>6. BlotterTyped'
  BY <1>1, <1>2, <1>3, <1>4, <1>5 DEF BlotterSound, BlotterTyped
<1>7. AnswersTrue'
  <2>1. \A r \in ended'.rows : ledgerRow'[r] # "pending"
    BY <1>1, <1>2 DEF BlotterSound, AnswersTrue
  <2>2. \A c \in ending' : /\ Done(c) => ledgerRow'[c.row] # "pending"
                           /\ c.read => Done(c) /\ c.rows[c.row] # "pending" /\ Fresh(c.rows, c.missed)'
    <3>1. SUFFICES ASSUME NEW c \in ending'
                   PROVE  /\ Done(c) => ledgerRow'[c.row] # "pending"
                          /\ c.read => Done(c) /\ c.rows[c.row] # "pending" /\ Fresh(c.rows, c.missed)'
      OBVIOUS
    <3>2. PICK b \in ending : /\ c.row = b.row /\ c.status = b.status /\ c.read = b.read
                              /\ c.rows = b.rows
                              /\ c.missed = IF b.read THEN b.missed \cup {row} ELSE b.missed
      BY <1>4
    <3>3. Done(b) => ledgerRow[b.row] # "pending"
      BY DEF BlotterSound, AnswersTrue
    <3>4. b.read => Done(b) /\ b.rows[b.row] # "pending" /\ Fresh(b.rows, b.missed)
      BY DEF BlotterSound, AnswersTrue
    <3>5. Done(c) <=> Done(b)
      BY <3>2 DEF Done
    <3>6. b.read => Fresh(c.rows, c.missed)'
      BY <1>2, <3>2, <3>4 DEF Fresh
    <3>. QED
      BY <1>1, <3>2, <3>3, <3>4, <3>5, <3>6
  <2>3. heading'.read => Fresh(heading.rows, heading.missed)'
    BY <1>2, <1>3 DEF BlotterSound, AnswersTrue, Fresh
  <2>4. Fresh(blotter.shown, blotter.missed)'
    BY <1>1, <1>2, <1>5 DEF BlotterSound, AnswersTrue, Fresh
  <2>. QED
    BY <2>1, <2>2, <2>3, <2>4 DEF AnswersTrue, Done
<1>8. OneAtATime'
  <2>1. \A b \in ending : b.id \in Int
    BY DEF BlotterSound, BlotterTyped, Endings
  <2>2. \A c \in ending' : c.id <= ended'.clicks
    <3>1. \A b \in ending : b.id <= ended.clicks
      BY DEF BlotterSound, OneAtATime
    <3>2. \A c \in ending' : \E b \in ending : c.id = b.id
      BY <1>4
    <3>. QED
      BY <1>2, <3>1, <3>2
  <2>3. \A c, d \in ending' : c.id = d.id => c = d
    <3>1. \A b, e \in ending : b.id = e.id => b = e
      BY DEF BlotterSound, OneAtATime
    <3>2. SUFFICES ASSUME NEW c \in ending', NEW d \in ending', c.id = d.id PROVE c = d
      OBVIOUS
    <3>3. PICK b \in ending : c.id = b.id /\ c = MissedBy(b, row)
      BY <1>4
    <3>4. PICK e \in ending : d.id = e.id /\ d = MissedBy(e, row)
      BY <1>4
    <3>. QED
      BY <3>1, <3>2, <3>3, <3>4
  <2>4. ~ ended.navigated => \A b \in ending \ {a} : ~ b.read /\ b.status = "sent"
    <3>1. SUFFICES ASSUME ~ ended.navigated, NEW b \in ending \ {a}, b.status # "sent" PROVE FALSE
      BY DEF BlotterSound, AnswersTrue, BlotterTyped, Endings, Done
    <3>2. a.status # "sent"
      BY <1>1 DEF Done
    <3>3. a.id <= b.id /\ b.id <= a.id
      BY <3>1, <3>2 DEF BlotterSound, OneAtATime
    <3>4. a.id = b.id
      BY <2>1, <3>3
    <3>. QED
      BY <3>1, <3>4 DEF BlotterSound, OneAtATime
  <2>5. ~ ended'.navigated => heading'.stage = "none" /\ ~ heading'.read /\ blotter'.missed = {}
    BY <1>2, <1>3, <1>5 DEF BlotterSound, OneAtATime
  <2>6. ~ ended'.navigated => /\ \A c \in ending' : ~ c.outrun /\ c.missed = {}
                              /\ \A c, d \in ending' : c.status # "sent" => c.id <= d.id
    <3>1. SUFFICES ASSUME ~ ended.navigated, NEW c \in ending'
                   PROVE  ~ c.outrun /\ c.missed = {} /\ c.status = "sent"
      BY <1>2
    <3>2. PICK b \in ending \ {a} :
            /\ c.status = b.status /\ c.outrun = b.outrun
            /\ c.missed = IF b.read THEN b.missed \cup {row} ELSE b.missed
      BY <1>4
    <3>3. ~ b.read /\ b.status = "sent"
      BY <2>4, <3>1
    <3>4. ~ b.outrun /\ b.missed = {}
      BY <3>1 DEF BlotterSound, OneAtATime
    <3>. QED
      BY <3>2, <3>3, <3>4
  <2>. QED
    BY <2>2, <2>3, <2>5, <2>6 DEF OneAtATime
<1>. QED
  BY <1>6, <1>7, <1>8 DEF BlotterSound

LEMMA ClickSound ==
  ASSUME BlotterSound, NEW row \in Rows, ClickRow(row)
  PROVE  BlotterSound'
<1> DEFINE new == Started(ended.clicks + 1, row)
<1>1. new \in Endings /\ new.id = ended.clicks + 1 /\ new.status = "sent" /\ ~ new.read
      /\ ~ new.outrun /\ new.missed = {}
  BY DEF Started, AllPending, Endings, EndStatuses, RowMaps, RowStatuses, BlotterSound, BlotterTyped
<1>2. ended' \in [rows : SUBSET Rows, clicks : Int, navigated : BOOLEAN]
      /\ ended'.rows = ended.rows /\ ended'.clicks = ended.clicks + 1
      /\ ended'.navigated = ended.navigated /\ ended.clicks \in Int
  BY DEF ClickRow, BlotterSound, BlotterTyped
<1>3. ending' = ending \cup {new} /\ UNCHANGED <<blotter, heading, ledgerRow>>
  BY DEF ClickRow
<1>4. \A b \in ending : b.id \in Int
  BY DEF BlotterSound, BlotterTyped, Endings
<1> HIDE DEF new
<1>5. BlotterTyped'
  BY <1>1, <1>2, <1>3 DEF BlotterSound, BlotterTyped
<1>6. AnswersTrue'
  BY <1>1, <1>2, <1>3 DEF BlotterSound, AnswersTrue, Fresh, Done
<1>7. OneAtATime'
  BY <1>1, <1>2, <1>3, <1>4 DEF BlotterSound, OneAtATime
<1>. QED
  BY <1>5, <1>6, <1>7 DEF BlotterSound

LEMMA StepBlotterSound == BlotterSound /\ [BlotterNext]_blotterVars => BlotterSound'
<1> SUFFICES ASSUME BlotterSound, [BlotterNext]_blotterVars PROVE BlotterSound'
  OBVIOUS
<1>0. \A a \in ending : a \in Endings
  BY DEF BlotterSound, BlotterTyped
<1>1. ASSUME NEW row \in Rows, EndsElsewhere(row) PROVE BlotterSound'
  <2>1. ledgerRow' \in RowMaps /\ UNCHANGED <<blotter, heading, ending, ended>>
        /\ \A r \in Rows : ledgerRow[r] # "pending" => ledgerRow'[r] # "pending"
    BY <1>1 DEF EndsElsewhere, BlotterSound, BlotterTyped, RowMaps, RowStatuses
  <2>2. ended.rows \subseteq Rows /\ \A a \in ending : a.row \in Rows
    BY DEF BlotterSound, BlotterTyped, Endings
  <2>. QED
    BY <2>1, <2>2 DEF BlotterSound, BlotterTyped, AnswersTrue, OneAtATime, Fresh, Done
<1>2. ASSUME NEW a \in ending, ApiCancels(a) \/ ApiCloses(a) PROVE BlotterSound'
  <2>1. PICK status \in EndStatuses :
          ending' = (ending \ {a}) \cup {[a EXCEPT !.status = status]}
          /\ (status \in {"204", "200"} \/ (status = "400" /\ a.row \in OrderRows)
                => ledgerRow'[a.row] # "pending")
          /\ status # "404" /\ (status = "204" => a.row \in OrderRows)
    <3>1. ledgerRow \in RowMaps /\ a.row \in Rows
      BY <1>0 DEF BlotterSound, BlotterTyped, Endings
    <3>2. CASE ApiCancels(a)
      BY <3>1, <3>2 DEF ApiCancels, Reply, EndStatuses, RowMaps
    <3>3. CASE ApiCloses(a)
      <4>1. a.row \notin OrderRows
        BY <3>3, BlotterAssumption DEF ApiCloses
      <4>2. CASE Reply(a, "200") /\ ledgerRow' = [ledgerRow EXCEPT ![a.row] = "closed"]
        BY <3>1, <4>1, <4>2 DEF Reply, EndStatuses, RowMaps
      <4>3. CASE \E status \in {"400", "422"} : Reply(a, status)
        BY <4>1, <4>3 DEF Reply, EndStatuses
      <4>. QED
        BY <3>3, <4>2, <4>3 DEF ApiCloses
    <3>. QED
      BY <1>2, <3>2, <3>3
  <2> DEFINE b == [a EXCEPT !.status = status]
  <2>2. b \in Endings /\ b.id = a.id /\ b.row = a.row /\ b.outrun = a.outrun /\ b.missed = a.missed
        /\ b.status = status /\ b.read = a.read
    BY <1>0, <2>1 DEF Endings
  <2>3. ~ a.read /\ Sent(a)
    BY <1>2 DEF ApiCancels, ApiCloses, Sent, BlotterSound, AnswersTrue, Done
  <2>4. ledgerRow' \in RowMaps /\ UNCHANGED <<blotter, heading, ended>>
        /\ \A r \in Rows : ledgerRow[r] # "pending" => ledgerRow'[r] # "pending"
    BY <1>0, <1>2 DEF ApiCancels, ApiCloses, BlotterSound, BlotterTyped, RowMaps, RowStatuses, Endings
  <2>5. Done(b) => ledgerRow'[a.row] # "pending"
    BY <2>1, <2>2 DEF Done
  <2> HIDE DEF b
  <2>6. ending' = (ending \ {a}) \cup {b}
    BY <2>1 DEF b
  <2>. QED
    BY <2>2, <2>3, <2>4, <2>5, <2>6, ActionReplaced
<1>3. ASSUME NEW a \in ending, Revalidate(a) PROVE BlotterSound'
  <2> DEFINE b == [a EXCEPT !.read = TRUE, !.rows = ledgerRow]
  <2>1. b \in Endings /\ b.id = a.id /\ b.row = a.row /\ b.outrun = a.outrun /\ b.missed = a.missed
        /\ b.status = a.status /\ b.rows = ledgerRow
    BY <1>0 DEF Endings, BlotterSound, BlotterTyped
  <2>2. Done(a) /\ ending' = (ending \ {a}) \cup {b} /\ UNCHANGED <<blotter, heading, ledgerRow, ended>>
    BY <1>3 DEF Revalidate
  <2>3. Done(b) /\ a.status # "sent" /\ ledgerRow[a.row] # "pending" /\ Fresh(ledgerRow, a.missed)
        /\ ledgerRow \in RowMaps
    BY <2>1, <2>2 DEF Done, BlotterSound, BlotterTyped, AnswersTrue, Fresh
  <2> HIDE DEF b
  <2>. QED
    BY <2>1, <2>2, <2>3, ActionReplaced
<1>4. ASSUME NEW a \in ending, Refused(a) \/ SignedOut(a) \/ ReplyLost(a) PROVE BlotterSound'
  BY <1>4, ActionGone DEF Refused, SignedOut, ReplyLost, Throw
<1>5. ASSUME NEW filter \in Filters, Choose(filter) PROVE BlotterSound'
  <2>1. heading' \in Headings /\ ~ heading'.read
    BY <1>5 DEF Choose, Settled, AllPending, Headings, RowMaps, RowStatuses
  <2>2. ended' \in [rows : SUBSET Rows, clicks : Int, navigated : BOOLEAN]
        /\ ended'.rows = ended.rows /\ ended'.clicks = ended.clicks /\ ended'.navigated
    BY <1>5 DEF Choose, BlotterSound, BlotterTyped
  <2>3. \A c \in ending' : c \in Endings /\ \E a \in ending :
          /\ c = [a EXCEPT !.outrun = TRUE]
          /\ c.id = a.id /\ c.row = a.row /\ c.status = a.status /\ c.read = a.read
          /\ c.rows = a.rows /\ c.missed = a.missed
    BY <1>0, <1>5 DEF Choose, Endings
  <2>4. UNCHANGED <<blotter, ledgerRow>>
    BY <1>5 DEF Choose
  <2>5. BlotterTyped'
    BY <2>1, <2>2, <2>3, <2>4 DEF BlotterSound, BlotterTyped
  <2>6. AnswersTrue'
    BY <2>1, <2>2, <2>3, <2>4 DEF BlotterSound, AnswersTrue, Fresh, Done
  <2>7. OneAtATime'
    <3>1. /\ \A b \in ending : b.id <= ended.clicks
          /\ \A b, e \in ending : b.id = e.id => b = e
      BY DEF BlotterSound, OneAtATime
    <3>2. \A c \in ending' : c.id <= ended'.clicks
      BY <2>2, <2>3, <3>1
    <3>3. \A c, d \in ending' : c.id = d.id => c = d
      <4>1. SUFFICES ASSUME NEW c \in ending', NEW d \in ending', c.id = d.id PROVE c = d
        OBVIOUS
      <4>2. PICK b \in ending : c.id = b.id /\ c = [b EXCEPT !.outrun = TRUE]
        BY <2>3
      <4>3. PICK e \in ending : d.id = e.id /\ d = [e EXCEPT !.outrun = TRUE]
        BY <2>3
      <4>. QED
        BY <3>1, <4>1, <4>2, <4>3
    <3>. QED
      BY <2>2, <3>2, <3>3 DEF OneAtATime
  <2>. QED
    BY <2>5, <2>6, <2>7 DEF BlotterSound
<1>6. CASE ReadRows
  <2>1. heading' \in Headings /\ heading'.rows = ledgerRow /\ UNCHANGED <<blotter, ending, ledgerRow, ended>>
    BY <1>6 DEF ReadRows, Headings, BlotterSound, BlotterTyped
  <2>2. ended.navigated
    BY <1>6 DEF ReadRows, BlotterSound, OneAtATime
  <2>. QED
    BY <2>1, <2>2 DEF BlotterSound, BlotterTyped, AnswersTrue, OneAtATime, Fresh, Done
<1>7. CASE ShowPage
  <2>1. blotter' \in Blotters /\ blotter'.shown = heading.rows /\ blotter'.missed = heading.missed
        /\ heading' \in Headings /\ heading'.stage = "none" /\ ~ heading'.read
        /\ UNCHANGED <<ending, ledgerRow, ended>>
    BY <1>7, BlotterAssumption DEF ShowPage, Settled, AllPending, Headings, RowMaps, RowStatuses, Blotters,
       BlotterSound, BlotterTyped
  <2>2. heading.read
    BY <1>7 DEF ShowPage
  <2>. QED
    BY <2>1, <2>2 DEF BlotterSound, BlotterTyped, AnswersTrue, OneAtATime, Fresh, Done
<1>8. CASE Reset
  <2>1. blotter' \in Blotters /\ blotter'.shown = blotter.shown /\ blotter'.missed = blotter.missed
        /\ UNCHANGED <<heading, ending, ledgerRow, ended>>
    BY <1>8 DEF Reset, Blotters, BlotterSound, BlotterTyped
  <2>. QED
    BY <2>1 DEF BlotterSound, BlotterTyped, AnswersTrue, OneAtATime, Fresh, Done
<1>9. CASE UNCHANGED blotterVars
  BY <1>9 DEF blotterVars, BlotterSound, BlotterTyped, AnswersTrue, OneAtATime, Fresh, Done
<1>. QED
  BY <1>1, <1>2, <1>3, <1>4, <1>5, <1>6, <1>7, <1>8, <1>9, ClickSound, ReturnSound DEF BlotterNext

\* A row whose action has come back is offered again, on the orders page or in the portfolio,
\* only by a page that was read before, which takes a navigation beside the action; whoever
\* ended the row first, and for any rows, clicks, navigations and order of answers.
THEOREM BlotterSafe == BlotterSpec => []EndedRowsAreNotOffered
<1>1. BlotterSound => EndedRowsAreNotOffered
  BY DEF BlotterSound, AnswersTrue, OneAtATime, Fresh, EndedRowsAreNotOffered, OfferedInOrders,
     OfferedInPortfolio, InPortfolio
<1>. QED
  BY <1>1, InitBlotterSound, StepBlotterSound, PTL DEF BlotterSpec

-----------------------------------------------------------------------------
(* The replay launcher.                                                      *)

\* The request awaited is the newest and is for the symbol on the screen; once it is
\* answered, so is the range.
LauncherSound ==
  /\ launcher.awaited \in Int /\ launcher.ticker \in DOMAIN Stored
  /\ launcher = [ticker |-> launcher.ticker, start |-> launcher.start, end |-> launcher.end,
                 range |-> launcher.range, error |-> launcher.error,
                 awaited |-> launcher.awaited, opening |-> launcher.opening]
  /\ \A r \in ranges :
       /\ r.id \in Int /\ r.id <= launcher.awaited
       /\ r.id = launcher.awaited => r.ticker = launcher.ticker
  /\ RangeIsOfTicker

LEMMA StepLauncherSound == LauncherSound /\ [LauncherNext]_launcherVars => LauncherSound'
<1> SUFFICES ASSUME LauncherSound, [LauncherNext]_launcherVars PROVE LauncherSound'
  OBVIOUS
<1>1. ASSUME NEW symbol \in DOMAIN Stored, ChooseSymbol(symbol) PROVE LauncherSound'
  <2> DEFINE new == [id |-> launcher.awaited + 1, ticker |-> symbol]
  <2>1. launcher' = [launcher EXCEPT !.ticker = symbol, !.error = FALSE, !.awaited = launcher.awaited + 1]
        /\ ranges' = ranges \cup {new}
    BY <1>1 DEF ChooseSymbol
  <2>2. /\ launcher'.awaited = launcher.awaited + 1 /\ launcher'.ticker = symbol
        /\ launcher' = [ticker |-> launcher'.ticker, start |-> launcher'.start, end |-> launcher'.end,
                         range |-> launcher'.range, error |-> launcher'.error,
                         awaited |-> launcher'.awaited, opening |-> launcher'.opening]
    BY <2>1 DEF LauncherSound
  <2>3. new.id = launcher'.awaited /\ new.ticker = launcher'.ticker /\ launcher'.awaited \in Int
    BY <2>2 DEF LauncherSound
  <2> HIDE DEF new
  <2>4. new \in ranges'
    BY <2>1
  <2>5. \A r \in ranges' :
          /\ r.id \in Int /\ r.id <= launcher'.awaited
          /\ r.id = launcher'.awaited => r.ticker = launcher'.ticker
    BY <2>1, <2>2, <2>3 DEF LauncherSound
  <2>. QED
    BY <2>2, <2>3, <2>4, <2>5 DEF LauncherSound, RangeIsOfTicker, Awaited
<1>2. ASSUME NEW r \in ranges, RangeAnswered(r) PROVE LauncherSound'
  BY <1>2 DEF RangeAnswered, WithRange, LauncherSound, RangeIsOfTicker, Awaited
<1>3. ASSUME NEW r \in ranges, RangeRefused(r) \/ RangeIgnored(r) PROVE LauncherSound'
  BY <1>3 DEF RangeRefused, RangeIgnored, LauncherSound, RangeIsOfTicker, Awaited
<1>4. ASSUME NEW start, NEW end, TypeDates(start, end) PROVE LauncherSound'
  BY <1>4 DEF TypeDates, LauncherSound, RangeIsOfTicker, Awaited
<1>5. CASE Open \/ OpenFails
  BY <1>5 DEF Open, OpenFails, LauncherSound, RangeIsOfTicker, Awaited
<1>6. CASE UNCHANGED launcherVars
  BY <1>6 DEF launcherVars, LauncherSound, RangeIsOfTicker, Awaited
<1>. QED
  BY <1>1, <1>2, <1>3, <1>4, <1>5, <1>6 DEF LauncherNext

\* The range the launcher shows, once the request for it is answered, is the chosen symbol's,
\* for any number of symbols chosen and any order of answers.
THEOREM LauncherSafe == LauncherSpec => []RangeIsOfTicker
<1>1. LauncherInit => LauncherSound
  BY DEF LauncherInit, LauncherOn, LauncherSound, RangeIsOfTicker, Awaited
<1>2. LauncherSound => RangeIsOfTicker
  BY DEF LauncherSound
<1>. QED
  BY <1>1, <1>2, StepLauncherSound, PTL DEF LauncherSpec

-----------------------------------------------------------------------------
(* The backtest page.                                                        *)

\* A request under way is the last submission, and a result on the screen is its answer.
BacktestSound ==
  /\ run \in [pending : BOOLEAN, error : {run.error}, result : {run.result}, costs : {run.costs}]
  /\ request # NoRun =>
       /\ run.pending
       /\ DOMAIN request = {"ticker", "window", "costs", "answer"}
       /\ request.ticker = lastRun.ticker /\ request.costs = lastRun.costs
  /\ ~ run.pending /\ run.result # NoRun =>
       /\ run.error = "none"
       /\ run.result.ticker = lastRun.ticker /\ run.costs = lastRun.costs

LEMMA StepBacktestSound == BacktestSound /\ [BacktestNext]_backtestVars => BacktestSound'
<1> SUFFICES ASSUME BacktestSound, [BacktestNext]_backtestVars PROVE BacktestSound'
  OBVIOUS
<1>1. CASE (\E t \in DOMAIN HasBars : ChooseTicker(t)) \/ EditFields \/ UNCHANGED backtestVars
  BY <1>1 DEF ChooseTicker, EditFields, backtestVars, BacktestSound
<1>2. CASE SubmitRun
  <2>1. run'.pending /\ lastRun' = request'
        /\ run' \in [pending : BOOLEAN, error : {run'.error}, result : {run'.result}, costs : {run'.costs}]
    BY <1>2 DEF SubmitRun, BacktestSound
  <2>2. DOMAIN request' = {"ticker", "window", "costs", "answer"}
    BY <1>2 DEF SubmitRun, RequestOf
  <2>. QED
    BY <2>1, <2>2 DEF BacktestSound
<1>3. CASE ApiRuns \/ ApiDeclines
  <2>1. PICK answer : request' = [request EXCEPT !.answer = answer]
    BY <1>3 DEF ApiRuns, ApiDeclines
  <2>2. request # NoRun /\ UNCHANGED <<run, lastRun>>
    BY <1>3 DEF ApiRuns, ApiDeclines
  <2>3. DOMAIN request' = {"ticker", "window", "costs", "answer"}
        /\ request'.ticker = request.ticker /\ request'.costs = request.costs
    BY <2>1, <2>2 DEF BacktestSound
  <2>. QED
    BY <2>2, <2>3 DEF BacktestSound
<1>4. CASE RunAnswered
  BY <1>4 DEF RunAnswered, BacktestSound
<1>5. CASE RunRefused \/ RunLost
  BY <1>5 DEF RunRefused, RunLost, RunFails, BacktestSound
<1>. QED
  BY <1>1, <1>2, <1>3, <1>4, <1>5 DEF BacktestNext

\* A backtest result is shown with the symbol and the costs of the submission it answers,
\* whatever was typed since, and never beside an error.
THEOREM BacktestSafe == BacktestSpec => []ResultsSayTheirRun
<1>1. BacktestInit => BacktestSound
  BY DEF BacktestInit, BacktestFrom, BacktestSound
<1>2. BacktestSound => ResultsSayTheirRun
  BY DEF BacktestSound, ResultsSayTheirRun, View, Results
<1>. QED
  BY <1>1, <1>2, StepBacktestSound, PTL DEF BacktestSpec

-----------------------------------------------------------------------------
(* The workspace of a replay session.                                        *)

Sessions ==
  [clock : Nat, status : {"active", "completed", "cancelled"}, fills : Nat, reflection : BOOLEAN]

Desks ==
  [shown : Sessions, view : {"replay", "forensics"}, mount : Int, confirming : BOOLEAN, alive : BOOLEAN]

Calls ==
  [kind : {"order", "advance", "cancel", "journal"}, mount : Int, from : Int, body : BOOLEAN,
   is : {"sent", "done", "refused"}, got : Int]

\* What a finished call was told is true of the session, which only moves on; an advance
\* was sent under a date the session had reached.
ToldTrue(c, s) ==
  /\ c \in Calls
  /\ c.from <= s.clock
  /\ (c.is = "done" /\ c.kind = "order") => c.got <= s.fills
  /\ (c.is = "done" /\ c.kind = "advance") => c.from < c.got /\ c.got <= s.clock

\* The page shows a state the session was in, with all that the forms announce.
DeskSound ==
  /\ session \in Sessions
  /\ desk \in Desks
  /\ desk.shown.clock <= session.clock /\ desk.shown.fills <= session.fills
  /\ \A c \in calls : ToldTrue(c, session)
  /\ said \in [order : Int, from : Int, to : Int, error : {said.error}]
  /\ said.order <= desk.shown.fills
  /\ said.to # 0 => said.from < said.to /\ said.to <= desk.shown.clock

\* The numbers of a state of the page.
LEMMA DeskNumbers ==
  ASSUME DeskSound
  PROVE  /\ session \in Sessions /\ session.clock \in Nat /\ session.fills \in Nat
         /\ desk.shown \in Sessions /\ desk.shown.clock \in Nat /\ desk.shown.fills \in Nat
         /\ said.order \in Int /\ said.from \in Int /\ said.to \in Int
<1>1. session \in Sessions /\ desk \in Desks
      /\ said \in [order : Int, from : Int, to : Int, error : {said.error}]
  BY DEF DeskSound
<1>2. desk.shown \in Sessions
  BY <1>1 DEF Desks
<1>. QED
  BY <1>1, <1>2 DEF Sessions

\* Forms that are mounted anew announce nothing, which every page shows.
LEMMA ForgetsSaid ==
  ASSUME said' = Nothing
  PROVE  /\ said' \in [order : Int, from : Int, to : Int, error : {said'.error}]
         /\ said'.order = 0 /\ said'.to = 0
BY DEF Nothing

LEMMA InitDeskSound == DeskInit => DeskSound
<1> SUFFICES ASSUME DeskInit PROVE DeskSound
  OBVIOUS
<1>1. session \in Sessions /\ session.clock = 1 /\ session.fills = 0
  BY DEF DeskInit, Sessions
<1>2. desk.shown = session /\ desk \in Desks
  BY <1>1 DEF DeskInit, Desks
<1>3. said \in [order : Int, from : Int, to : Int, error : {said.error}]
      /\ said.order = 0 /\ said.to = 0
  BY DEF DeskInit, Nothing
<1>. QED
  BY <1>1, <1>2, <1>3 DEF DeskInit, DeskSound

\* What the API does with a call moves the session on and nothing else.
LEMMA ExecutedMovesOn ==
  ASSUME session \in Sessions, NEW c, c.body \in BOOLEAN
  PROVE  /\ Executed(c) \in Sessions
         /\ session.clock <= Executed(c).clock /\ session.fills <= Executed(c).fills
         /\ c.kind = "advance" => Executed(c).clock = session.clock + 1
<1>1. CASE c.kind = "order"
  BY <1>1 DEF Executed, Sessions
<1>2. CASE c.kind = "advance"
  <2>1. Executed(c) = Advanced
    BY <1>2 DEF Executed
  <2>2. session.clock \in Nat /\ session.clock + 1 \in Nat
    BY DEF Sessions
  <2>3. Advanced.clock = session.clock + 1 /\ Advanced.fills = session.fills /\ Advanced \in Sessions
    BY <2>2 DEF Advanced, Sessions
  <2>. QED
    BY <2>1, <2>2, <2>3 DEF Sessions
<1>3. CASE c.kind \notin {"order", "advance"}
  BY <1>3 DEF Executed, Sessions
<1>. QED
  BY <1>1, <1>2, <1>3

\* Moving on keeps what was told true.
LEMMA ToldStaysTrue ==
  ASSUME NEW s \in Sessions, NEW t \in Sessions, s.clock <= t.clock, s.fills <= t.fills,
         NEW c, ToldTrue(c, s)
  PROVE  ToldTrue(c, t)
<1>1. s.clock \in Int /\ s.fills \in Int /\ t.clock \in Int /\ t.fills \in Int
  BY DEF Sessions
<1>2. c \in Calls /\ c.from \in Int /\ c.got \in Int
  BY DEF ToldTrue, Calls
<1>. QED
  BY <1>1, <1>2 DEF ToldTrue

LEMMA StepDeskSound == DeskSound /\ [DeskNext]_deskVars => DeskSound'
<1> SUFFICES ASSUME DeskSound, [DeskNext]_deskVars PROVE DeskSound'
  OBVIOUS
<1>1. ASSUME NEW view \in {"replay", "forensics"}, SwitchView(view) PROVE DeskSound'
  <2>1. /\ desk' = [desk EXCEPT !.shown = session, !.view = view, !.mount = desk.mount + 1,
                                !.confirming = FALSE]
        /\ said' = Nothing /\ UNCHANGED <<session, calls>>
    BY <1>1 DEF SwitchView, Rendered
  <2>2. desk' \in Desks /\ desk'.shown = session
    <3>1. desk \in Desks /\ desk.shown \in Sessions /\ desk.view \in {"replay", "forensics"}
          /\ desk.mount \in Int /\ desk.confirming \in BOOLEAN /\ desk.alive \in BOOLEAN
      BY DEF DeskSound, Desks
    <3>2. desk' = [shown |-> session, view |-> view, mount |-> desk.mount + 1,
                   confirming |-> FALSE, alive |-> desk.alive]
      BY <2>1 DEF DeskSound, Desks
    <3>3. session \in Sessions /\ view \in {"replay", "forensics"}
      BY DEF DeskSound
    <3>. QED
      BY <3>1, <3>2, <3>3 DEF Desks
  <2>. QED
    BY <2>1, <2>2, ForgetsSaid, DeskNumbers DEF DeskSound
<1>2. ASSUME NEW kind \in {"order", "advance", "cancel", "journal"}, NEW body \in BOOLEAN,
             Call(kind, body)
      PROVE  DeskSound'
  <2> DEFINE new == [kind |-> kind, mount |-> desk.mount, from |-> desk.shown.clock,
                     body |-> body, is |-> "sent", got |-> 0]
  <2>1. calls' = calls \cup {new} /\ UNCHANGED <<session, desk, said>>
    BY <1>2 DEF Call
  <2>2. ToldTrue(new, session)
    BY DEF ToldTrue, DeskSound, Sessions, Desks, Calls
  <2> HIDE DEF new
  <2>3. \A c \in calls' : ToldTrue(c, session)
    BY <2>1, <2>2 DEF DeskSound
  <2>. QED
    BY <2>1, <2>3 DEF DeskSound, ToldTrue
<1>3. ASSUME NEW b \in BOOLEAN, AskCancel(b) PROVE DeskSound'
  <2>1. UNCHANGED <<session, calls, said>> /\ desk' = [desk EXCEPT !.confirming = b]
    BY <1>3 DEF AskCancel
  <2>2. desk' \in Desks /\ desk'.shown = desk.shown
    BY <2>1 DEF DeskSound, Desks
  <2>. QED
    BY <2>1, <2>2 DEF DeskSound
<1>4. ASSUME NEW c \in calls, ApiExecutes(c) PROVE DeskSound'
  <2>1. ToldTrue(c, session) /\ session \in Sessions /\ UNCHANGED <<desk, said>>
    BY <1>4 DEF ApiExecutes, DeskSound
  <2>2. session' = Executed(c) /\ c.is = "sent" /\ c.body \in BOOLEAN
    <3>1. c \in Calls
      BY <2>1 DEF ToldTrue
    <3>. QED
      BY <1>4, <3>1 DEF ApiExecutes, Calls
  <2>3. /\ session' \in Sessions
        /\ session.clock <= session'.clock /\ session.fills <= session'.fills
        /\ c.kind = "advance" => session'.clock = session.clock + 1
    BY <2>1, <2>2, ExecutedMovesOn
  <2> DEFINE answered == [c EXCEPT !.is = "done",
               !.got = IF c.kind = "advance" THEN session'.clock ELSE session'.fills]
  <2>4. calls' = (calls \ {c}) \cup {answered}
    BY <1>4 DEF ApiExecutes, Outcome
  <2>5. ToldTrue(answered, session')
    <3>1. c \in Calls /\ c.from \in Int /\ c.from <= session.clock
      BY <2>1 DEF ToldTrue, Calls
    <3>2. session.clock \in Int /\ session'.clock \in Int /\ session'.fills \in Int
      BY <2>1, <2>3 DEF Sessions
    <3> DEFINE got == IF c.kind = "advance" THEN session'.clock ELSE session'.fills
    <3>3. got \in Int
      BY <3>2
    <3>4. answered = [c EXCEPT !.is = "done", !.got = got]
      OBVIOUS
    <3> HIDE DEF answered, got
    <3>5. answered \in Calls /\ answered.from = c.from /\ answered.kind = c.kind /\ answered.got = got
      BY <3>1, <3>3, <3>4 DEF Calls
    <3>. QED
      BY <2>3, <3>1, <3>2, <3>5 DEF ToldTrue, got
  <2> HIDE DEF answered
  <2>6. \A d \in calls : ToldTrue(d, session')
    BY <2>1, <2>3, ToldStaysTrue DEF DeskSound
  <2>7. \A d \in calls' : ToldTrue(d, session')
    BY <2>4, <2>5, <2>6
  <2>. QED
    <3>1. desk'.shown.clock <= session'.clock /\ desk'.shown.fills <= session'.fills
      BY <2>1, <2>3, DeskNumbers DEF DeskSound, Sessions
    <3>. QED
      BY <2>1, <2>3, <2>7, <3>1 DEF DeskSound
<1>5. ASSUME NEW c \in calls, ApiRefuses(c) PROVE DeskSound'
  <2> DEFINE answered == [c EXCEPT !.is = "refused", !.got = 0]
  <2>1. calls' = (calls \ {c}) \cup {answered} /\ UNCHANGED <<session, desk, said>>
    BY <1>5 DEF ApiRefuses, Outcome
  <2>2. ToldTrue(answered, session)
    <3>1. ToldTrue(c, session)
      BY DEF DeskSound
    <3>2. answered = [c EXCEPT !.is = "refused", !.got = 0] /\ c \in Calls
      BY <3>1 DEF ToldTrue
    <3> HIDE DEF answered
    <3>3. answered \in Calls
      <4>1. answered = [kind |-> c.kind, mount |-> c.mount, from |-> c.from, body |-> c.body,
                        is |-> "refused", got |-> 0]
        BY <3>2 DEF Calls
      <4>. QED
        BY <3>2, <4>1 DEF Calls
    <3>4. answered.from = c.from /\ answered.is = "refused"
      BY <3>2 DEF Calls
    <3>. QED
      BY <3>1, <3>3, <3>4 DEF ToldTrue
  <2> HIDE DEF answered
  <2>3. \A d \in calls' : ToldTrue(d, session)
    BY <2>1, <2>2 DEF DeskSound
  <2>. QED
    BY <2>1, <2>3 DEF DeskSound, ToldTrue
<1>6. ASSUME NEW c \in calls, ActionReturns(c) PROVE DeskSound'
  <2>1. /\ calls' = calls \ {c} /\ UNCHANGED session /\ ToldTrue(c, session) /\ c.is = "done"
        /\ desk' = [desk EXCEPT !.shown = session] /\ said' = Announced(c)
    BY <1>6 DEF ActionReturns, Revalidated, Rendered, DeskSound
  <2>2. desk' \in Desks /\ desk'.shown = session
    BY <2>1 DEF DeskSound, Desks
  <2>3. said.order <= session.fills
        /\ (said.to # 0 => said.from < said.to /\ said.to <= session.clock)
    BY DeskNumbers DEF DeskSound
  <2>4. /\ said' \in [order : Int, from : Int, to : Int, error : {said'.error}]
        /\ said'.order <= session.fills
        /\ said'.to # 0 => said'.from < said'.to /\ said'.to <= session.clock
    <3>0. c.from \in Int /\ c.got \in Int
      BY <2>1 DEF ToldTrue, Calls
    <3>1. CASE said' = said
      BY <2>3, <3>1 DEF DeskSound
    <3>2. CASE said' = [said EXCEPT !.order = c.got, !.error = "none"] /\ c.kind = "order"
      BY <2>1, <2>3, <3>2, <3>0 DEF DeskSound, ToldTrue
    <3>3. CASE said' = [said EXCEPT !.from = c.from, !.to = c.got, !.error = "none"]
               /\ c.kind = "advance"
      BY <2>1, <2>3, <3>3, <3>0 DEF DeskSound, ToldTrue
    <3>4. CASE said' = [said EXCEPT !.error = "none"]
      BY <2>3, <3>4 DEF DeskSound
    <3>. QED
      BY <2>1, <3>1, <3>2, <3>3, <3>4 DEF Announced
  <2>5. \A d \in calls' : ToldTrue(d, session')
    BY <2>1 DEF DeskSound, ToldTrue
  <2>. QED
    BY <2>1, <2>2, <2>4, <2>5 DEF DeskSound, Sessions
<1>7. ASSUME NEW c \in calls, ActionFails(c) PROVE DeskSound'
  BY <1>7 DEF ActionFails, DeskSound, ToldTrue
<1>8. ASSUME NEW c \in calls, ActionLost(c) PROVE DeskSound'
  <2>1. UNCHANGED <<session, said>> /\ calls' \subseteq calls
        /\ desk' = [desk EXCEPT !.alive = desk.alive /\ c.mount # desk.mount]
    BY <1>8 DEF ActionLost
  <2>2. desk' = [desk EXCEPT !.alive = FALSE] \/ desk' = desk
    BY <2>1 DEF DeskSound, Desks
  <2>3. desk' \in Desks /\ desk'.shown = desk.shown
    BY <2>2 DEF DeskSound, Desks
  <2>. QED
    BY <2>1, <2>3 DEF DeskSound
<1>9. CASE ResetDesk
  <2>1. /\ desk' = [desk EXCEPT !.alive = TRUE, !.mount = desk.mount + 1, !.confirming = FALSE]
        /\ said' = Nothing /\ UNCHANGED <<session, calls>>
    BY <1>9 DEF ResetDesk
  <2>2. desk' \in Desks /\ desk'.shown = desk.shown
    <3>1. desk \in Desks /\ desk.shown \in Sessions /\ desk.view \in {"replay", "forensics"}
          /\ desk.mount \in Int /\ desk.confirming \in BOOLEAN /\ desk.alive \in BOOLEAN
      BY DEF DeskSound, Desks
    <3>2. desk' = [shown |-> desk.shown, view |-> desk.view, mount |-> desk.mount + 1,
                   confirming |-> FALSE, alive |-> TRUE]
      BY <2>1 DEF DeskSound, Desks
    <3>. QED
      BY <3>1, <3>2 DEF Desks
  <2>. QED
    BY <2>1, <2>2, ForgetsSaid, DeskNumbers DEF DeskSound
<1>10. CASE OtherTab
  <2>1. PICK c \in [kind : {"order", "advance", "cancel", "journal"}, body : BOOLEAN] :
          session' = Executed(c)
    BY <1>10 DEF OtherTab
  <2>2. /\ session' \in Sessions
        /\ session.clock <= session'.clock /\ session.fills <= session'.fills
    BY <2>1, ExecutedMovesOn DEF DeskSound
  <2>3. \A d \in calls : ToldTrue(d, session')
    BY <2>2, ToldStaysTrue DEF DeskSound
  <2>. QED
    <3>1. UNCHANGED <<desk, calls, said>>
      BY <1>10 DEF OtherTab
    <3>2. desk'.shown.clock <= session'.clock /\ desk'.shown.fills <= session'.fills
      BY <2>2, <3>1, DeskNumbers DEF DeskSound, Sessions
    <3>. QED
      BY <2>2, <2>3, <3>1, <3>2 DEF DeskSound
<1>11. CASE UNCHANGED deskVars
  BY <1>11 DEF deskVars, DeskSound, ToldTrue
<1>12. CASE SubmitOrder \/ SubmitAdvance \/ ConfirmCancel \/ \E b \in BOOLEAN : SaveJournal(b)
  BY <1>2, <1>12 DEF SubmitOrder, SubmitAdvance, ConfirmCancel, SaveJournal
<1>. QED
  BY <1>1, <1>3, <1>4, <1>5, <1>6, <1>7, <1>8, <1>9, <1>10, <1>11, <1>12 DEF DeskNext

\* A fill or an advance that a form announces is on the page around it, for every number of
\* bars, fills, tabs and calls under way.
THEOREM DeskSafe == DeskSpec => []AnnouncedIsShown
<1>1. DeskSound => AnnouncedIsShown
  BY DEF DeskSound, AnnouncedIsShown
<1>. QED
  BY <1>1, InitDeskSound, StepDeskSound, PTL DEF DeskSpec

-----------------------------------------------------------------------------
(* The screener.                                                             *)

Addressed == Offered \cup {Retired, Emptied, NotNamed}

\* Rows on the screen are those of the address; the form names no sector that is not offered.
ScreenSound ==
  /\ DOMAIN filters = Fields_ /\ filters["sector"] \in Addressed
  /\ DOMAIN form = Fields_ /\ form["sector"] \in Offered \cup {Emptied}
  /\ listing.kind = "rows" => listing = Listings(screen_symbols(Params(filters)))

\* A form that shows an address asks for what the address asks for, but for what it hides.
LEMMA FormAsksTheSame ==
  ASSUME NEW a, DOMAIN a = Fields_, a["sector"] \in Addressed
  PROVE  /\ \A f \in Fields_ : Params(FormOf(a))[f] = IF f \in Hidden(a) THEN NotNamed ELSE Params(a)[f]
         /\ Hidden(a) = {} => Params(FormOf(a)) = Params(a)
<1> DEFINE b == FormOf(a)
<1>1. \A f \in Fields_ : b[f] = FieldOf(a, f)
  BY DEF FormOf
<1> HIDE DEF b
<1>2. \A f \in NumberFields : num(b[f]) = IF a[f] \in DOMAIN ReadAs THEN NotNamed ELSE num(a[f])
  <2>1. num(Emptied) = NotNamed
    BY DEF num
  <2> SUFFICES ASSUME NEW f \in NumberFields
               PROVE  num(b[f]) = IF a[f] \in DOMAIN ReadAs THEN NotNamed ELSE num(a[f])
    OBVIOUS
  <2>2. b[f] = IF a[f] \in Numbers THEN a[f] ELSE Emptied
    BY <1>1 DEF FieldOf, Fields_
  <2>3. CASE a[f] \in Numbers
    BY <2>2, <2>3, ScreenerAssumption
  <2>4. CASE a[f] \notin Numbers /\ a[f] \in DOMAIN ReadAs
    BY <2>1, <2>2, <2>4
  <2>5. CASE a[f] \notin Numbers /\ a[f] \notin DOMAIN ReadAs
    <3>1. num(a[f]) = NotNamed
      BY <2>5 DEF num, NumberOf
    <3>. QED
      BY <2>1, <2>2, <2>5, <3>1
  <2>. QED
    BY <2>3, <2>4, <2>5
<1>3. ASSUME NEW f \in Fields_
      PROVE  Params(b)[f] = IF f \in Hidden(a) THEN NotNamed ELSE Params(a)[f]
  <2>1. CASE f \in NumberFields
    <3>1. f # "sector" /\ (f \in Hidden(a) <=> a[f] \in DOMAIN ReadAs)
      BY <2>1 DEF NumberFields, Hidden, Fields_
    <3>. QED
      BY <1>2, <2>1, <3>1 DEF Params
  <2>2. CASE f = "sector"
    <3>1. f \in Hidden(a) <=> a[f] = Retired
      BY <2>2 DEF Hidden
    <3>2. Offered \cap {Retired, Emptied, NotNamed} = {}
      BY ScreenerAssumption DEF Offered
    <3>. QED
      BY <1>1, <2>2, <3>1, <3>2, ScreenerAssumption DEF Params, FieldOf, Addressed, NumberFields
  <2>3. CASE f \in Boxes
    <3>1. f \notin Hidden(a)
      BY <2>3 DEF Hidden, Boxes, NumberFields
    <3>. QED
      BY <1>1, <2>3, <3>1 DEF Params, FieldOf, Boxes, NumberFields
  <2>. QED
    BY <2>1, <2>2, <2>3 DEF Fields_
<1>4. Hidden(a) = {} => Params(b) = Params(a)
  BY <1>3 DEF Params
<1>. QED
  BY <1>3, <1>4 DEF b

\* What a document or a link of the navigation renders.
LEMMA RowsOfAddress ==
  ASSUME NEW a, RenderRows(a), listing'.kind = "rows"
  PROVE  listing' = Listings(screen_symbols(Params(a)))
<1>1. \A kind \in {"message", "error page"} : NoRows(kind).kind # "rows"
  BY DEF NoRows
<1>. QED
  BY <1>1 DEF RenderRows

LEMMA FormIsOffered ==
  ASSUME NEW a
  PROVE  DOMAIN FormOf(a) = Fields_ /\ FormOf(a)["sector"] \in Offered \cup {Emptied}
BY DEF FormOf, FieldOf, Fields_, NumberFields

LEMMA LoadSound ==
  ASSUME NEW a, DOMAIN a = Fields_, a["sector"] \in Addressed, LoadDocument(a)
  PROVE  ScreenSound'
BY RowsOfAddress, FormIsOffered DEF LoadDocument, ScreenSound, Addressed

LEMMA NoFiltersAddressed == DOMAIN NoFilters = Fields_ /\ NoFilters["sector"] \in Addressed
BY DEF NoFilters, Fields_, Boxes, Addressed

LEMMA InitScreenSound == ScreenerInit => ScreenSound
BY NoFiltersAddressed, FormIsOffered DEF ScreenerInit, ScreenerOn, ScreenSound

LEMMA StepScreenSound == ScreenSound /\ [ScreenerNext]_screenVars => ScreenSound'
<1> SUFFICES ASSUME ScreenSound, [ScreenerNext]_screenVars PROVE ScreenSound'
  OBVIOUS
<1>1. CASE OpenLink
  <2>1. PICK f \in Fields_ :
          \E value \in IF f \in Boxes THEN BOOLEAN
                       ELSE IF f = "sector" THEN Offered \cup {Retired, Emptied}
                       ELSE Numbers \cup DOMAIN ReadAs \cup {Emptied, Junk} :
            LoadDocument([NoFilters EXCEPT ![f] = value])
    BY <1>1 DEF OpenLink
  <2>2. PICK value \in IF f \in Boxes THEN BOOLEAN
                       ELSE IF f = "sector" THEN Offered \cup {Retired, Emptied}
                       ELSE Numbers \cup DOMAIN ReadAs \cup {Emptied, Junk} :
          LoadDocument([NoFilters EXCEPT ![f] = value])
    BY <2>1
  <2> DEFINE a == [NoFilters EXCEPT ![f] = value]
  <2>3. DOMAIN a = Fields_
    BY NoFiltersAddressed
  <2>4. a["sector"] \in Addressed
    <3>1. CASE f = "sector"
      BY <3>1, NoFiltersAddressed DEF Addressed, Boxes, Fields_
    <3>2. CASE f # "sector"
      BY <3>2, NoFiltersAddressed DEF Fields_
    <3>. QED
      BY <3>1, <3>2
  <2> HIDE DEF a
  <2>5. LoadDocument(a)
    BY <2>2 DEF a
  <2>. QED
    BY <2>3, <2>4, <2>5, LoadSound
<1>2. CASE Apply
  BY <1>2, LoadSound DEF Apply, ScreenSound, Addressed
<1>3. CASE ResetFilters
  BY <1>3, LoadSound, NoFiltersAddressed DEF ResetFilters
<1>4. CASE FollowNavigation
  <2>1. filters' = NoFilters /\ RenderRows(NoFilters)
    BY <1>4 DEF FollowNavigation
  <2>2. DOMAIN form' = Fields_ /\ form'["sector"] = form["sector"]
    BY <1>4 DEF FollowNavigation, Fields_
  <2>. QED
    BY <2>1, <2>2, NoFiltersAddressed, RowsOfAddress DEF ScreenSound
<1>5. ASSUME NEW f \in Fields_, EditField(f) PROVE ScreenSound'
  <2>1. PICK value \in IF f \in Boxes THEN BOOLEAN
                       ELSE IF f = "sector" THEN Offered \cup {Emptied}
                       ELSE Numbers \cup {Emptied} :
          form' = [form EXCEPT ![f] = value]
    BY <1>5 DEF EditField
  <2>2. UNCHANGED <<filters, listing>>
    BY <1>5 DEF EditField
  <2>3. DOMAIN form' = Fields_ /\ form'["sector"] \in Offered \cup {Emptied}
    BY <2>1 DEF ScreenSound, Fields_, Boxes
  <2>. QED
    BY <2>2, <2>3 DEF ScreenSound
<1>6. CASE UNCHANGED screenVars
  BY <1>6 DEF screenVars, ScreenSound
<1>. QED
  BY <1>1, <1>2, <1>3, <1>4, <1>5, <1>6 DEF ScreenerNext

\* Applying the screener's form as it was rendered drops the filters the form cannot show and
\* no other, and keeps the rows when there are none, for every set of symbols, numbers, texts
\* and addresses.
THEOREM ScreenerSafe == ScreenerSpec => ApplyKeepsRows
<1> DEFINE Kept ==
      Apply /\ form = FormOf(filters) =>
        /\ \A f \in Fields_ :
             Params(filters')[f] = IF f \in Hidden(filters) THEN NotNamed ELSE Params(filters)[f]
        /\ Hidden(filters) = {} /\ listing.kind = "rows" /\ listing'.kind = "rows" =>
             listing' = listing
<1>1. ScreenSound /\ [ScreenerNext]_screenVars => [Kept]_screenVars
  <2> SUFFICES ASSUME ScreenSound, Apply, form = FormOf(filters)
               PROVE  /\ \A f \in Fields_ :
                           Params(filters')[f] = IF f \in Hidden(filters) THEN NotNamed ELSE Params(filters)[f]
                      /\ Hidden(filters) = {} /\ listing.kind = "rows" /\ listing'.kind = "rows" =>
                           listing' = listing
    OBVIOUS
  <2>1. filters' = form /\ RenderRows(form)
    BY DEF Apply, LoadDocument
  <2>2. DOMAIN filters = Fields_ /\ filters["sector"] \in Addressed
    BY DEF ScreenSound
  <2>3. \A f \in Fields_ :
          Params(filters')[f] = IF f \in Hidden(filters) THEN NotNamed ELSE Params(filters)[f]
    BY <2>1, <2>2, FormAsksTheSame
  <2>4. ASSUME Hidden(filters) = {}, listing.kind = "rows", listing'.kind = "rows"
        PROVE  listing' = listing
    <3>1. Params(form) = Params(filters)
      BY <2>2, <2>4, FormAsksTheSame
    <3>2. listing' = Listings(screen_symbols(Params(form)))
      BY <2>1, <2>4, RowsOfAddress
    <3>. QED
      BY <2>4, <3>1, <3>2 DEF ScreenSound
  <2>. QED
    BY <2>3, <2>4
<1>. QED
  BY <1>1, InitScreenSound, StepScreenSound, PTL DEF ScreenerSpec, ApplyKeepsRows

-----------------------------------------------------------------------------
(* The markets table.                                                        *)

\* A strict order of all members of a set.
Orders(before, S) ==
  /\ \A s \in S : <<s, s>> \notin before
  /\ \A s, t \in S : s # t => <<s, t>> \in before \/ <<t, s>> \in before
  /\ \A s, t, u \in S : <<s, t>> \in before /\ <<t, u>> \in before => <<s, u>> \in before

\* The rows of a finite set, each behind those that an order puts before it, are in that order.
LEMMA RowsAreSorted ==
  ASSUME NEW S, IsFiniteSet(S), NEW before, Orders(before, S), NEW rows,
         DOMAIN rows = 1..Cardinality(S),
         \A i \in 1..Cardinality(S) :
           (\E s \in S : Cardinality({t \in S : <<t, s>> \in before}) = i - 1) =>
             rows[i] \in S /\ Cardinality({t \in S : <<t, rows[i]>> \in before}) = i - 1
  PROVE  /\ ToSet(rows) = S
         /\ \A s, t \in S : ListedAbove(rows, s, t) <=> <<s, t>> \in before
<1> DEFINE n == Cardinality(S)
           Ahead(s) == {t \in S : <<t, s>> \in before}
           rank == [s \in S |-> Cardinality(Ahead(s)) + 1]
<1>1. n \in Nat
  BY FS_CardinalityType
<1>2. ASSUME NEW s \in S PROVE IsFiniteSet(Ahead(s)) /\ Cardinality(Ahead(s)) \in Nat /\ Cardinality(Ahead(s)) < n
  <2>1. Ahead(s) \in SUBSET S /\ Ahead(s) # S
    BY DEF Orders
  <2> HIDE DEF Ahead
  <2>2. IsFiniteSet(Ahead(s)) /\ Cardinality(Ahead(s)) <= n /\ n # Cardinality(Ahead(s))
    BY <2>1, FS_Subset
  <2>. QED
    BY <1>1, <2>2, FS_CardinalityType
<1>3. ASSUME NEW s \in S, NEW t \in S, <<s, t>> \in before
      PROVE  Cardinality(Ahead(s)) < Cardinality(Ahead(t))
  <2>1. Ahead(s) \in SUBSET Ahead(t) /\ Ahead(s) # Ahead(t)
    BY <1>3 DEF Orders
  <2> HIDE DEF Ahead
  <2>2. Cardinality(Ahead(s)) <= Cardinality(Ahead(t)) /\ Cardinality(Ahead(t)) # Cardinality(Ahead(s))
    BY <1>2, <2>1, FS_Subset
  <2>. QED
    BY <1>2, <2>2
<1>4. /\ DOMAIN rows = 1..n
      /\ \A i \in 1..n : (\E s \in S : Cardinality(Ahead(s)) = i - 1) =>
                          rows[i] \in S /\ Cardinality(Ahead(rows[i])) = i - 1
  OBVIOUS
<1> HIDE DEF n, Ahead
<1>5. \A s, t \in S : rank[s] < rank[t] <=> <<s, t>> \in before
  <2> SUFFICES ASSUME NEW s \in S, NEW t \in S PROVE rank[s] < rank[t] <=> <<s, t>> \in before
    OBVIOUS
  <2>1. rank[s] = Cardinality(Ahead(s)) + 1 /\ rank[t] = Cardinality(Ahead(t)) + 1
    OBVIOUS
  <2> HIDE DEF rank
  <2>2. CASE s = t
    BY <1>2, <2>1, <2>2 DEF Orders
  <2>3. CASE s # t
    <3>1. Cardinality(Ahead(s)) \in Nat /\ Cardinality(Ahead(t)) \in Nat
      BY <1>2
    <3>2. <<s, t>> \in before => rank[s] < rank[t]
      BY <1>3, <2>1, <3>1
    <3>3. <<t, s>> \in before => ~ (rank[s] < rank[t])
      BY <1>3, <2>1, <3>1
    <3>. QED
      BY <2>3, <3>2, <3>3 DEF Orders
  <2>. QED
    BY <2>2, <2>3
<1>6. \A s \in S : rank[s] \in 1..n /\ rank[s] = Cardinality(Ahead(s)) + 1
  BY <1>1, <1>2
<1>7. rank \in [S -> 1..n]
  BY <1>6
<1> HIDE DEF rank
<1>8. \A s, t \in S : rank[s] = rank[t] => s = t
  BY <1>1, <1>5, <1>6 DEF Orders
<1>9. \A i \in 1..n : \E s \in S : rank[s] = i
  <2>1. rank \in Injection(S, 1..n)
    BY <1>7, <1>8 DEF Injection, IsInjective
  <2>2. IsFiniteSet(1..n) /\ Cardinality(1..n) = n
    BY <1>1, FS_Interval
  <2>3. rank \in Surjection(S, 1..n)
    BY <2>1, <2>2, FS_Injection DEF n
  <2>. QED
    BY <2>3 DEF Surjection
<1>10. ASSUME NEW i \in 1..n PROVE rows[i] \in S /\ rank[rows[i]] = i
  <2>1. ASSUME NEW s \in S PROVE Cardinality(Ahead(s)) = i - 1 <=> rank[s] = i
    <3>1. i \in Int /\ Cardinality(Ahead(s)) \in Nat /\ rank[s] = Cardinality(Ahead(s)) + 1
      BY <1>1, <1>2, <1>6
    <3>. QED
      BY ONLY <3>1
  <2>2. \E s \in S : Cardinality(Ahead(s)) = i - 1
    BY <1>9, <2>1
  <2>4. rows[i] \in S /\ Cardinality(Ahead(rows[i])) = i - 1
    BY <1>4, <2>2
  <2>. QED
    BY <2>1, <2>4
<1>11. DOMAIN rows = 1..n
  BY <1>4
<1>12. ASSUME NEW s \in S PROVE rank[s] \in 1..n /\ rows[rank[s]] = s
  BY <1>6, <1>8, <1>10
<1>13. ASSUME NEW s \in S PROVE Position(rows, s) = rank[s]
  <2>1. \E i \in DOMAIN rows : rows[i] = s
    BY <1>11, <1>12
  <2>2. Position(rows, s) \in DOMAIN rows /\ rows[Position(rows, s)] = s
    BY <2>1 DEF Position
  <2>. QED
    BY <1>10, <1>11, <2>2
<1>14. ToSet(rows) = S
  <2>1. \A s \in S : \E i \in DOMAIN rows : s = rows[i]
    BY <1>11, <1>12
  <2>2. \A i \in DOMAIN rows : rows[i] \in S
    BY <1>10, <1>11
  <2>3. ASSUME NEW s PROVE s \in ToSet(rows) <=> s \in S
    BY ONLY <2>1, <2>2 DEF ToSet
  <2>. QED
    BY ONLY <2>3
<1>. QED
  BY <1>5, <1>13, <1>14 DEF ListedAbove

\* The table's order, whatever the address asks for.
FiguresOfDay == [{"price", "change"} -> [Traded -> Int \cup {NoFigure}]]
SortKeys == Columns \cup {"other"}

InOrder(sort, dir, figures) ==
  {p \in Traded \X Traded : GoesBefore(sort, dir, figures, p[1], p[2])}

LEMMA TableIsOrdered ==
  ASSUME NEW sort \in SortKeys, NEW dir, NEW figures \in FiguresOfDay, NEW S \in SUBSET Traded
  PROVE  Orders(InOrder(sort, dir, figures), S)
<1> DEFINE B(s, t) == GoesBefore(sort, dir, figures, s, t)
<1>1. Traded \subseteq Int
  BY MarketsAssumption
<1>2. \A s, t \in Traded : <<s, t>> \in InOrder(sort, dir, figures) <=> B(s, t)
  BY DEF InOrder
<1>3. CASE sort \in {"ticker", "other"}
  BY <1>1, <1>2, <1>3 DEF Orders, GoesBefore
<1>4. CASE sort \in {"price", "change"}
  <2> DEFINE x == figures[sort]
  <2>1. x \in [Traded -> Int \cup {NoFigure}] /\ sort # "ticker" /\ sort # "other"
    BY <1>4 DEF FiguresOfDay
  <2>2. \A s, t \in Traded :
          B(s, t) <=> \/ x[s] # NoFigure /\ x[t] = NoFigure
                      \/ x[s] # NoFigure /\ x[t] # NoFigure
                           /\ IF dir = "asc" THEN x[s] < x[t] ELSE x[t] < x[s]
                      \/ x[s] = x[t] /\ s < t
    BY <2>1 DEF GoesBefore
  <2> HIDE DEF x, B
  <2>3. \A s \in Traded : x[s] # NoFigure => x[s] \in Int
    BY <2>1
  <2>4. ASSUME NEW s \in Traded PROVE ~ B(s, s)
    BY <1>1, <2>2, <2>3
  <2>5. ASSUME NEW s \in Traded, NEW t \in Traded, s # t PROVE B(s, t) \/ B(t, s)
    BY <1>1, <2>2, <2>3, <2>5
  <2>6. ASSUME NEW s \in Traded, NEW t \in Traded, NEW u \in Traded, B(s, t), B(t, u)
        PROVE  B(s, u)
    BY <1>1, <2>2, <2>3, <2>6
  <2>. QED
    BY <1>2, <2>4, <2>5, <2>6 DEF Orders
<1>. QED
  BY <1>3, <1>4 DEF SortKeys, Columns

LEMMA ShownIsSorted ==
  ASSUME NEW sector, NEW sort \in SortKeys, NEW dir, NEW figures \in FiguresOfDay
  PROVE  LET rows == compare(sector, sort, dir, figures)
         IN  /\ ToSet(rows) = Members(sector)
             /\ \A s, t \in Members(sector) :
                  ListedAbove(rows, s, t) <=> GoesBefore(sort, dir, figures, s, t)
<1> DEFINE S == Members(sector)
           before == InOrder(sort, dir, figures)
           rows == compare(sector, sort, dir, figures)
<1>1. S \in SUBSET Traded /\ IsFiniteSet(S)
  BY MarketsAssumption, FS_Subset DEF Members
<1>2. Orders(before, S)
  BY <1>1, TableIsOrdered
<1>3. \A s, t \in S : <<s, t>> \in before <=> GoesBefore(sort, dir, figures, s, t)
  BY <1>1 DEF InOrder
<1>4. rows = [i \in 1..Cardinality(S) |->
                CHOOSE s \in S : Cardinality({t \in S : GoesBefore(sort, dir, figures, t, s)}) = i - 1]
  BY DEF compare
<1> HIDE DEF S, before, rows
<1> DEFINE Ahead(s) == {t \in S : GoesBefore(sort, dir, figures, t, s)}
<1>5. \A s \in S : Ahead(s) = {t \in S : <<t, s>> \in before}
  BY <1>3
<1>6. /\ DOMAIN rows = 1..Cardinality(S)
      /\ \A i \in 1..Cardinality(S) :
           (\E s \in S : Cardinality({t \in S : <<t, s>> \in before}) = i - 1) =>
             rows[i] \in S /\ Cardinality({t \in S : <<t, rows[i]>> \in before}) = i - 1
  <2>1. /\ DOMAIN rows = 1..Cardinality(S)
        /\ \A i \in 1..Cardinality(S) : rows[i] = CHOOSE s \in S : Cardinality(Ahead(s)) = i - 1
    BY <1>4
  <2> HIDE DEF Ahead
  <2>2. ASSUME NEW i \in 1..Cardinality(S), \E s \in S : Cardinality(Ahead(s)) = i - 1
        PROVE  rows[i] \in S /\ Cardinality(Ahead(rows[i])) = i - 1
    BY <2>1, <2>2
  <2>. QED
    BY <1>5, <2>1, <2>2
<1>7. ToSet(rows) = S /\ \A s, t \in S : ListedAbove(rows, s, t) <=> <<s, t>> \in before
  BY <1>1, <1>2, <1>6, RowsAreSorted
<1>. QED
  BY <1>3, <1>7 DEF S, rows

-----------------------------------------------------------------------------
\* The page shows figures of a day with bars, or none.
MarketsSound ==
  /\ address \in MarketAddresses
  /\ today \in DOMAIN Figures /\ day \in DOMAIN Figures \cup {0}
  /\ kept \in [Sectors -> DOMAIN Figures \cup {0}]

LEMMA InitMarketsSound == MarketsInit => MarketsSound
<1> SUFFICES ASSUME NEW a \in MarketAddresses, LandedOnMarkets(a) PROVE MarketsSound
  BY DEF MarketsInit
<1>. QED
  BY MarketsAssumption DEF LandedOnMarkets, MarketsSound

LEMMA LoadMarketsSound ==
  ASSUME MarketsSound, NEW a \in MarketAddresses, Load(a)
  PROVE  MarketsSound'
<1>1. a.sector \in Sectors
  BY DEF MarketAddresses
<1>2. day' \in DOMAIN Figures \cup {0} /\ today' = today /\ address' = a
  BY <1>1 DEF Load, MarketsSound
<1>3. kept' \in [Sectors -> DOMAIN Figures \cup {0}]
  BY <1>1 DEF Load, MarketsSound
<1>. QED
  BY <1>2, <1>3 DEF MarketsSound

\* Where a header leads: to its column, in the direction it then says.
LEMMA HeaderLeads ==
  ASSUME NEW a \in MarketAddresses, NEW c \in Columns
  PROVE  LET to == sortHref(c, a)
         IN  /\ to \in MarketAddresses /\ to.sector = a.sector /\ to.sort = c
             /\ to.dir \in Directions /\ SortOf(to) = c /\ DirOf(to) = to.dir
             /\ SortOf(a) = c => (to.dir = "asc" <=> DirOf(a) # "asc" \/ AscendingByDefault(a))
<1> DEFINE dir == flipDir(a.sort, c, IF a.dir = Absent THEN "desc" ELSE a.dir)
<1>1. dir \in Directions
  BY DEF flipDir, Directions
<1>2. sortHref(c, a) = [sort |-> c, sector |-> a.sector, dir |-> dir]
  BY DEF sortHref
<1>3. SortOf(a) = c => (dir = "asc" <=> DirOf(a) # "asc" \/ AscendingByDefault(a))
  BY MarketsAssumption DEF flipDir, SortOf, DirOf, AscendingByDefault, Columns
<1>4. c # Absent /\ dir # Absent
  BY <1>1, MarketsAssumption DEF Columns, Directions
<1>5. a.sector \in Sectors
  BY DEF MarketAddresses
<1> HIDE DEF dir
<1>. QED
  BY <1>1, <1>2, <1>3, <1>4, <1>5 DEF MarketAddresses, SortOf, DirOf

LEMMA StepMarketsSound == MarketsSound /\ [MarketsNext]_marketVars => MarketsSound'
<1> SUFFICES ASSUME MarketsSound, [MarketsNext]_marketVars PROVE MarketsSound'
  OBVIOUS
<1>1. ASSUME NEW a \in MarketAddresses, Load(a) PROVE MarketsSound'
  BY <1>1, LoadMarketsSound
<1>2. ASSUME NEW c \in Columns, PressHeader(c) PROVE MarketsSound'
  <2>1. sortHref(c, address) \in MarketAddresses
    BY HeaderLeads DEF MarketsSound
  <2>. QED
    BY <1>1, <1>2, <2>1 DEF PressHeader
<1>3. ASSUME NEW s \in Sectors, ChooseSector(s) PROVE MarketsSound'
  BY <1>1, <1>3 DEF ChooseSector, MarketAddresses
<1>4. CASE OpenAddress
  BY <1>1, <1>4 DEF OpenAddress
<1>5. CASE TryPageAgain
  BY <1>1, <1>5 DEF TryPageAgain, MarketsSound
<1>6. CASE NewBars
  BY <1>6 DEF NewBars, MarketsSound
<1>7. CASE UNCHANGED marketVars
  BY <1>7 DEF marketVars, MarketsSound
<1>. QED
  BY <1>2, <1>3, <1>4, <1>5, <1>6, <1>7 DEF MarketsNext

LEMMA PressTurns ==
  ASSUME MarketsSound, NEW c \in Columns, PressHeader(c), day' # 0
  PROVE  SortsOrTurns(c)
<1> DEFINE before == Shown(address, day)
           after == Shown(address', day')
           sector == address.sector
           S == Members(sector)
           figures == Figures[day']
           dir == address'.dir
           Value(s) == IF c = "ticker" THEN s ELSE figures[c][s]
<1>1. /\ address' = sortHref(c, address) /\ day # 0 /\ address \in MarketAddresses
      /\ day \in DOMAIN Figures /\ day' \in DOMAIN Figures
  <2>1. MarketsSound'
    BY StepMarketsSound DEF MarketsNext
  <2>. QED
    BY <2>1 DEF PressHeader, Load, MarketsSound
<1>2. /\ address'.sector = sector /\ address'.sort = c /\ dir \in Directions
      /\ SortOf(address') = c /\ DirOf(address') = dir
      /\ SortOf(address) = c => (dir = "asc" <=> DirOf(address) # "asc" \/ AscendingByDefault(address))
  BY <1>1, HeaderLeads
<1>3. figures \in FiguresOfDay /\ Figures[day] \in FiguresOfDay
  BY <1>1, MarketsAssumption DEF FiguresOfDay
<1>4. /\ ToSet(after) = S
      /\ \A s, t \in S : ListedAbove(after, s, t) <=> GoesBefore(c, dir, figures, s, t)
  <2>1. after = compare(sector, c, dir, figures) /\ c \in SortKeys
    BY <1>2 DEF Shown, SortKeys
  <2> HIDE DEF figures, after, dir, sector
  <2>. QED
    BY <1>3, <2>1, ShownIsSorted
<1>5. /\ ToSet(before) = S
      /\ \A s, t \in S : ListedAbove(before, s, t) <=>
                           GoesBefore(SortOf(address), DirOf(address), Figures[day], s, t)
  <2>1. before = compare(sector, SortOf(address), DirOf(address), Figures[day])
    BY DEF Shown
  <2>2. SortOf(address) \in SortKeys
    BY <1>1 DEF SortOf, SortKeys, MarketAddresses, Columns
  <2> HIDE DEF before, sector
  <2>. QED
    BY <1>3, <2>1, <2>2, ShownIsSorted
<1>6. SortDirection(address', c) = dir
  BY <1>2 DEF SortDirection
<1> HIDE DEF before, after
<1>8. ASSUME NEW s \in S, NEW t \in S, s # t
      PROVE  /\ Value(s) # NoFigure /\ Value(t) = NoFigure => GoesBefore(c, dir, figures, s, t)
             /\ NoFigure \notin {Value(s), Value(t)} /\ Value(s) # Value(t) =>
                  \A d :
                    GoesBefore(c, d, figures, s, t) <=> (d = "asc" <=> Value(s) < Value(t))
  <2>1. s \in Int /\ t \in Int /\ s \in Traded /\ t \in Traded
    BY MarketsAssumption DEF Members
  <2>2. CASE c = "ticker"
    BY <2>1, <2>2, <1>8, MarketsAssumption DEF GoesBefore, Directions
  <2>3. CASE c # "ticker"
    <3>1. c \in {"price", "change"} /\ figures[c] \in [Traded -> Int \cup {NoFigure}]
      BY <1>3, <2>3 DEF Columns, FiguresOfDay
    <3> DEFINE x == figures[c]
    <3>2. Value(s) = x[s] /\ Value(t) = x[t] /\ x[s] \in Int \cup {NoFigure} /\ x[t] \in Int \cup {NoFigure}
      BY <2>1, <2>3, <3>1
    <3>3. \A d : GoesBefore(c, d, figures, s, t) <=>
                   \/ x[s] # NoFigure /\ x[t] = NoFigure
                   \/ x[s] # NoFigure /\ x[t] # NoFigure /\ IF d = "asc" THEN x[s] < x[t] ELSE x[t] < x[s]
                   \/ x[s] = x[t] /\ s < t
      BY <2>3, <3>1 DEF GoesBefore
    <3> HIDE DEF x, Value
    <3>. QED
      BY <3>2, <3>3 DEF Directions
  <2>. QED
    BY <2>2, <2>3
<1> HIDE DEF Value, dir, figures, S
<1>10. ASSUME NEW s \in ToSet(after), NEW t \in ToSet(after), s # t
       PROVE  /\ Value(s) # NoFigure /\ Value(t) = NoFigure => ListedAbove(after, s, t)
              /\ NoFigure \notin {Value(s), Value(t)} /\ Value(s) # Value(t) =>
                   /\ ListedAbove(after, s, t) <=> (SortDirection(address', c) = "asc" <=> Value(s) < Value(t))
                   /\ SortOf(address) = c /\ day' = day =>
                        (ListedAbove(after, s, t) <=> (ListedAbove(before, s, t) <=> AscendingByDefault(address)))
  <2>1. s \in S /\ t \in S
    BY <1>4
  <2>2. day' = day => Figures[day] = figures
    BY DEF figures
  <2>3. AscendingByDefault(address) => DirOf(address) = "asc"
    BY DEF AscendingByDefault
  <2>. QED
    BY <1>2, <1>4, <1>5, <1>6, <1>8, <1>10, <2>1, <2>2, <2>3
<1>11. ToSet(after) = ToSet(before) /\ SortDirection(address', c) \in Directions
  BY <1>2, <1>4, <1>5, <1>6
<1>. QED
  BY <1>10, <1>11 DEF SortsOrTurns, before, after, Value, figures

\* For any symbols, sectors and figures, a press sorts the rows the way its header then says,
\* and one on the sorted column turns them around, unless they are ascending by default.
THEOREM MarketsSafe == MarketsSpec => PressTurnsTheTable
<1>1. MarketsSound /\ [MarketsNext]_marketVars =>
        [\A c \in Columns : PressHeader(c) /\ day' # 0 => SortsOrTurns(c)]_marketVars
  BY PressTurns
<1>. QED
  BY <1>1, InitMarketsSound, StepMarketsSound, PTL DEF MarketsSpec, PressTurnsTheTable

=============================================================================
