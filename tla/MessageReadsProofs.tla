--------------------------- MODULE MessageReadsProofs ---------------------------
(* Proofs about MessageReads: what is read from a row is what would have been     *)
(* read from Gmail, a page is the list it was asked for, and a download that is   *)
(* reported is on disk, for any number of messages, calls and paths. Up to there  *)
(* the parsers stay opaque. The last two parts are about the parsers: the tree of *)
(* a forwarded message is complete to its depth, and a forwarded message reads as *)
(* a received one does, for every tree of parts.                                  *)
EXTENDS MessageReads, Induction, FiniteSetTheorems

--------------------------------------------------------------------------------
(* Rows *)

(* A row with a text is the row of the message as it was parsed: nothing lighter  *)
(* is ever put over it, and nothing stored under a position has one.              *)
RowOk(m) == row[m].text # Nothing => row[m] = FullRow(ParseMessage(mail[m]))

Rows == /\ row = [m \in Messages |-> row[m]]
        /\ \A m \in Messages : RowOk(m)

(* Calls *)

Stages == {"idle", "lookup", "fetch", "store", "download", "open", "write", "list", "hydrate", "done"}

CallShape(c) ==
  /\ call[c] = [at |-> call[c].at, asks |-> call[c].asks, order |-> call[c].order,
                 tasks |-> call[c].tasks, byId |-> call[c].byId, reply |-> call[c].reply]
  /\ call[c].at \in Stages
  /\ call[c].at # "done" => call[c].reply = NoReply
  /\ call[c].at # "idle" => call[c].asks \in Plans[c]

Calling == /\ call = [c \in Calls |-> call[c]]
           /\ \A c \in Calls : CallShape(c)

(* What the texts of a reply are. *)
ReadRight(c) ==
  LET read == ParseMessage(Msg(c)) IN
  /\ Replied(c, "read") => call[c].reply = Thread(read.body, read.attachments)
  /\ Replied(c, "bodies") /\ call[c].asks.want # "html" /\ TextLeaf(Msg(c), "plain") # 0
       => call[c].reply.text = AsSent(TextLeaf(Msg(c), "plain"))

ReadsInv == /\ Rows /\ Calling
            /\ \A c \in Calls : ReadRight(c)

--------------------------------------------------------------------------------
LEMMA ReadsInitially == Init => ReadsInv
<1> SUFFICES ASSUME Init PROVE ReadsInv OBVIOUS
<1>1. Rows BY DEF Init, Rows, RowOk, NoRow
<1>2. Calling BY DEF Init, Calling, CallShape, Stages, NoReply
<1>3. ASSUME NEW c \in Calls PROVE ReadRight(c) BY <1>3 DEF Init, ReadRight, Replied, NoReply
<1> QED BY <1>1, <1>2, <1>3 DEF ReadsInv

(* A step that moves one call c to a record that is as it should be, while the    *)
(* other calls and the mailbox stay as they are.                                  *)
LEMMA OneCallMoves ==
  ASSUME ReadsInv, NEW c \in Calls, NEW w,
         mail' = mail,
         call' = [call EXCEPT ![c] = w],
         w = [at |-> w.at, asks |-> w.asks, order |-> w.order, tasks |-> w.tasks, byId |-> w.byId, reply |-> w.reply],
         w.at \in Stages, w.at # "done" => w.reply = NoReply, w.at # "idle" => w.asks \in Plans[c],
         LET read == ParseMessage(mail[w.asks.msg]) IN
         /\ w.reply.kind = "read" => w.reply = Thread(read.body, read.attachments)
         /\ w.reply.kind = "bodies" /\ w.asks.want # "html" /\ TextLeaf(mail[w.asks.msg], "plain") # 0
              => w.reply.text = AsSent(TextLeaf(mail[w.asks.msg], "plain"))
  PROVE  Calling' /\ \A d \in Calls : ReadRight(d)'
<1>1. call'[c] = w /\ call' = [d \in Calls |-> call'[d]] BY DEF ReadsInv, Calling
<1>2. ASSUME NEW d \in Calls, d # c PROVE call'[d] = call[d] BY <1>2 DEF ReadsInv, Calling
<1>3. ASSUME NEW d \in Calls PROVE CallShape(d)'
  <2>1. CASE d = c BY <2>1, <1>1 DEF CallShape
  <2>2. CASE d # c BY <2>2, <1>2 DEF CallShape, ReadsInv, Calling
  <2> QED BY <2>1, <2>2
<1>4. ASSUME NEW d \in Calls PROVE ReadRight(d)'
  <2>1. CASE d = c BY <2>1, <1>1 DEF ReadRight, Replied, Msg
  <2>2. CASE d # c BY <2>2, <1>2 DEF ReadRight, Replied, Msg, ReadsInv
  <2> QED BY <2>1, <2>2
<1> QED BY <1>1, <1>3, <1>4 DEF Calling

(* A call that ends with an answer. *)
LEMMA OneCallEnds ==
  ASSUME ReadsInv, NEW c \in Calls, NEW r,
         mail' = mail, call[c].at # "idle", Reply(c, r),
         LET read == ParseMessage(Msg(c)) IN
         /\ r.kind = "read" => r = Thread(read.body, read.attachments)
         /\ r.kind = "bodies" /\ call[c].asks.want # "html" /\ TextLeaf(Msg(c), "plain") # 0
              => r.text = AsSent(TextLeaf(Msg(c), "plain"))
  PROVE  Calling' /\ \A d \in Calls : ReadRight(d)'
<1> DEFINE w == [call[c] EXCEPT !.at = "done", !.reply = r]
<1>1. CallShape(c) BY DEF ReadsInv, Calling
<1>2. w = [at |-> "done", asks |-> call[c].asks, order |-> call[c].order,
                 tasks |-> call[c].tasks, byId |-> call[c].byId, reply |-> r]
  <2>1. call[c] = [at |-> call[c].at, asks |-> call[c].asks, order |-> call[c].order,
                 tasks |-> call[c].tasks, byId |-> call[c].byId, reply |-> call[c].reply]
    BY <1>1 DEF CallShape
  <2> HIDE DEF w
  <2>2. w = [[call[c] EXCEPT !.at = "done"] EXCEPT !.reply = r] BY DEF w
  <2> QED BY <2>1, <2>2
<1>3. call' = [call EXCEPT ![c] = w] BY DEF Reply
<1>4. w.asks \in Plans[c] /\ w.at \in Stages BY <1>1, <1>2 DEF CallShape, Stages
<1>5. /\ w = [at |-> w.at, asks |-> w.asks, order |-> w.order, tasks |-> w.tasks, byId |-> w.byId, reply |-> w.reply]
      /\ w.at = "done" /\ w.asks = call[c].asks /\ w.reply = r
  BY <1>2
<1> HIDE DEF w
<1> QED BY <1>5, <1>3, <1>4, OneCallMoves DEF Msg

(* A call that goes on, with nothing to show yet. *)
LEMMA OneCallGoesOn ==
  ASSUME ReadsInv, NEW c \in Calls, NEW at \in Stages \ {"done", "idle"},
         mail' = mail, call[c].at \notin {"idle", "done"}, GoTo(c, at)
  PROVE  Calling' /\ \A d \in Calls : ReadRight(d)'
<1> DEFINE w == [call[c] EXCEPT !.at = at]
<1>1. CallShape(c) BY DEF ReadsInv, Calling
<1>2. /\ w = [at |-> w.at, asks |-> w.asks, order |-> w.order, tasks |-> w.tasks, byId |-> w.byId, reply |-> w.reply]
      /\ w.at = at /\ w.asks = call[c].asks /\ w.reply = NoReply
  BY <1>1 DEF CallShape
<1>3. call' = [call EXCEPT ![c] = w] BY DEF GoTo
<1>4. w.asks \in Plans[c] BY <1>1, <1>2 DEF CallShape
<1>5. w.reply.kind = "none" /\ w.at \in Stages /\ w.at # "done" BY <1>2 DEF NoReply
<1> HIDE DEF w
<1> QED BY <1>2, <1>3, <1>4, <1>5, OneCallMoves

(* Steps that do not touch a row; and steps that touch one.                       *)
LEMMA RowsRest == ASSUME ReadsInv, UNCHANGED <<mail, row>> PROVE Rows'
BY DEF ReadsInv, Rows, RowOk

LEMMA OneRowMoves ==
  ASSUME ReadsInv, NEW m \in Messages, NEW r, mail' = mail, row' = [row EXCEPT ![m] = r],
         r.text # Nothing => r = FullRow(ParseMessage(mail[m]))
  PROVE  Rows'
<1>1. row'[m] = r /\ row' = [k \in Messages |-> row'[k]] BY DEF ReadsInv, Rows
<1>2. ASSUME NEW k \in Messages, k # m PROVE row'[k] = row[k] BY <1>2 DEF ReadsInv, Rows
<1>3. ASSUME NEW k \in Messages PROVE RowOk(k)'
  <2>1. CASE k = m BY <2>1, <1>1 DEF RowOk
  <2>2. CASE k # m BY <2>2, <1>2 DEF RowOk, ReadsInv, Rows
  <2> QED BY <2>1, <2>2
<1> QED BY <1>1, <1>3 DEF Rows

LEMMA EmptyRows == NoRow.text = Nothing /\ \A i : [NoRow EXCEPT !.id = i].text = Nothing
BY DEF NoRow, Nothing

LEMMA SummaryRowOk ==
  ASSUME ReadsInv, NEW m \in Messages
  PROVE  SummaryRow(m).text # Nothing => SummaryRow(m) = FullRow(ParseMessage(mail[m]))
<1>1. CASE row[m].text # Nothing BY <1>1 DEF SummaryRow, ReadsInv, Rows, RowOk
<1>2. CASE row[m].text = Nothing BY <1>2, EmptyRows DEF SummaryRow
<1> QED BY <1>1, <1>2

(* A call past "idle" asks for one of the messages. *)
LEMMA AsksForMessage ==
  ASSUME ReadsInv, NEW c \in Calls, call[c].at # "idle"
  PROVE  /\ call[c].asks \in Plans[c] /\ call[c].asks.msg \in Messages
         /\ call[c].asks.tool = "get_full_body" => call[c].asks.want \in {"both", "text", "html"}
BY ReadsAssumption DEF ReadsInv, Calling, CallShape

--------------------------------------------------------------------------------
(* One lemma per action of a call *)

LEMMA BeginReads == ASSUME ReadsInv, NEW c \in Calls, Begin(c) PROVE ReadsInv'
<1>1. Rows' BY RowsRest DEF Begin, mailVars
<1>2. PICK asked \in Plans[c] :
        call' = [call EXCEPT ![c].asks = asked,
                             ![c].at = IF asked.tool = "search_threads" THEN "list"
                                       ELSE IF asked.tool = "download_attachment" THEN "download"
                                       ELSE IF caching /\ asked.tool \in CachedTools THEN "lookup" ELSE "fetch"]
  BY DEF Begin
<1> DEFINE at == IF asked.tool = "search_threads" THEN "list"
                 ELSE IF asked.tool = "download_attachment" THEN "download"
                 ELSE IF caching /\ asked.tool \in CachedTools THEN "lookup" ELSE "fetch"
           w == [at |-> at, asks |-> asked, order |-> call[c].order,
                 tasks |-> call[c].tasks, byId |-> call[c].byId, reply |-> call[c].reply]
<1>3. at \in Stages /\ at # "done" BY DEF Stages
<1>4. /\ call[c] = [at |-> call[c].at, asks |-> call[c].asks, order |-> call[c].order,
                 tasks |-> call[c].tasks, byId |-> call[c].byId, reply |-> call[c].reply]
      /\ call[c].reply = NoReply
  BY DEF ReadsInv, Calling, CallShape, Begin
<1> HIDE DEF at
<1>5. [call[c] EXCEPT !.asks = asked, !.at = at] = w
  <2> DEFINE v == [call[c] EXCEPT !.asks = asked, !.at = at]
  <2> HIDE DEF v
  <2>1. v = [[call[c] EXCEPT !.asks = asked] EXCEPT !.at = at] BY DEF v
  <2>2. v = w BY <2>1, <1>4
  <2> QED BY <2>2 DEF v
<1>6. call' = [call EXCEPT ![c] = w]
  <2>1. call' = [call EXCEPT ![c] = [call[c] EXCEPT !.asks = asked, !.at = at]] BY <1>2 DEF at
  <2> QED BY <2>1, <1>5
<1>7. /\ w = [at |-> w.at, asks |-> w.asks, order |-> w.order, tasks |-> w.tasks, byId |-> w.byId, reply |-> w.reply]
      /\ w.at = at /\ w.asks = asked /\ w.reply = NoReply /\ w.reply.kind = "none"
  BY <1>4 DEF NoReply
<1>8. mail' = mail BY DEF Begin, mailVars
<1> HIDE DEF w
<1>9. Calling' /\ \A d \in Calls : ReadRight(d)' BY <1>3, <1>6, <1>7, <1>8, OneCallMoves
<1> QED BY <1>1, <1>9 DEF ReadsInv

LEMMA HitThreadReads == ASSUME ReadsInv, NEW c \in Calls, HitThread(c) PROVE ReadsInv'
<1> DEFINE m == call[c].asks.msg
           r == Thread(row[m].text, row[m].attachments)
<1>1. Rows' BY RowsRest DEF HitThread, mailVars
<1>2. m \in Messages /\ row[m] = FullRow(ParseMessage(mail[m]))
  BY AsksForMessage DEF HitThread, ThreadHit, ReadsInv, Rows, RowOk
<1>3. /\ row[m].text = ParseMessage(mail[m]).body
      /\ row[m].attachments = ParseMessage(mail[m]).attachments
  BY <1>2 DEF FullRow
<1>4. r = Thread(ParseMessage(Msg(c)).body, ParseMessage(Msg(c)).attachments) /\ r.kind = "read"
  BY <1>3 DEF Msg, Thread
<1>5. Reply(c, r) /\ mail' = mail /\ call[c].at # "idle" BY DEF HitThread, mailVars
<1> HIDE DEF r
<1>6. Calling' /\ \A d \in Calls : ReadRight(d)' BY <1>4, <1>5, OneCallEnds
<1> QED BY <1>1, <1>6 DEF ReadsInv

LEMMA HitSummaryReads == ASSUME ReadsInv, NEW c \in Calls, HitSummary(c) PROVE ReadsInv'
<1> DEFINE r == Summary(row[call[c].asks.msg].id)
<1>1. Rows' BY RowsRest DEF HitSummary, mailVars
<1>2. r.kind = "summary" BY DEF Summary
<1>3. Reply(c, r) /\ mail' = mail /\ call[c].at # "idle" BY DEF HitSummary, mailVars
<1> HIDE DEF r
<1>4. Calling' /\ \A d \in Calls : ReadRight(d)' BY <1>2, <1>3, OneCallEnds
<1> QED BY <1>1, <1>4 DEF ReadsInv

(* A row keeps the text that get_full_body would show, when the message has one.  *)

LEMMA HitBodiesReads == ASSUME ReadsInv, NEW c \in Calls, HitBodies(c) PROVE ReadsInv'
<1> DEFINE m == call[c].asks.msg
           want == call[c].asks.want
           r == Bodies(row[m], want)
           text == TextLeaf(mail[m], "plain")
<1>1. Rows' BY RowsRest DEF HitBodies, mailVars
<1>2. m \in Messages /\ row[m] = FullRow(ParseMessage(mail[m])) /\ want \in {"both", "text", "html"}
  BY AsksForMessage DEF HitBodies, BodyHit, ReadsInv, Rows, RowOk, Asks
<1>3. row[m].text = BodyText(mail[m]) BY <1>2 DEF FullRow, ParseMessage
<1>4. text # 0 => BodyText(mail[m]) = <<"as is", text>> BY DEF BodyText, ExtractBodyParts, Rendered
<1>5. text # 0 => row[m].text = AsSent(text) BY <1>3, <1>4 DEF AsSent
<1>6. r.kind = "bodies" /\ (want # "html" => r.text = row[m].text) BY <1>2 DEF Bodies
<1>7. Reply(c, r) /\ mail' = mail /\ call[c].at # "idle" BY DEF HitBodies, mailVars
<1>8. r.kind = "bodies" /\ call[c].asks.want # "html" /\ TextLeaf(Msg(c), "plain") # 0
        => r.text = AsSent(TextLeaf(Msg(c), "plain"))
  BY <1>5, <1>6 DEF Msg
<1>9. r.kind # "read" BY <1>6
<1> HIDE DEF r, text, m, want
<1>10. Calling' /\ \A d \in Calls : ReadRight(d)' BY <1>7, <1>8, <1>9, OneCallEnds
<1> QED BY <1>1, <1>10 DEF ReadsInv

LEMMA MissReads == ASSUME ReadsInv, NEW c \in Calls, Miss(c) PROVE ReadsInv'
<1>1. Rows' BY RowsRest DEF Miss, mailVars
<1>2. GoTo(c, "fetch") /\ mail' = mail /\ call[c].at = "lookup" BY DEF Miss, mailVars
<1>3. Calling' /\ \A d \in Calls : ReadRight(d)' BY <1>2, OneCallGoesOn DEF Stages
<1> QED BY <1>1, <1>3 DEF ReadsInv

LEMMA FetchThreadReads == ASSUME ReadsInv, NEW c \in Calls, FetchThread(c) PROVE ReadsInv'
<1> DEFINE read == ParseMessage(Msg(c))
           r == Thread(read.body, read.attachments)
<1>1. Rows' BY RowsRest DEF FetchThread, mailVars
<1>2. mail' = mail /\ call[c].at = "fetch" BY DEF FetchThread, mailVars
<1>3. r.kind = "read" BY DEF Thread
<1>4. CASE GoTo(c, "store") BY <1>1, <1>2, <1>4, OneCallGoesOn DEF Stages, ReadsInv
<1>5. CASE Reply(c, r)
  <2> HIDE DEF r
  <2>1. r = Thread(ParseMessage(Msg(c)).body, ParseMessage(Msg(c)).attachments) BY DEF r
  <2>2. Calling' /\ \A d \in Calls : ReadRight(d)' BY <1>2, <1>3, <1>5, <2>1, OneCallEnds
  <2> QED BY <1>1, <2>2 DEF ReadsInv
<1> QED BY <1>4, <1>5 DEF FetchThread

LEMMA FetchSummaryReads == ASSUME ReadsInv, NEW c \in Calls, FetchSummary(c) PROVE ReadsInv'
<1> DEFINE r == Summary("message")
<1>1. Rows' BY RowsRest DEF FetchSummary, mailVars
<1>2. mail' = mail /\ call[c].at = "fetch" BY DEF FetchSummary, mailVars
<1>3. r.kind = "summary" BY DEF Summary
<1>4. CASE GoTo(c, "store") BY <1>1, <1>2, <1>4, OneCallGoesOn DEF Stages, ReadsInv
<1>5. CASE Reply(c, r)
  <2> HIDE DEF r
  <2>1. Calling' /\ \A d \in Calls : ReadRight(d)' BY <1>2, <1>3, <1>5, OneCallEnds
  <2> QED BY <1>1, <2>1 DEF ReadsInv
<1> QED BY <1>4, <1>5 DEF FetchSummary

LEMMA StoreThreadReads == ASSUME ReadsInv, NEW c \in Calls, StoreThread(c) PROVE ReadsInv'
<1> DEFINE m == call[c].asks.msg
           read == ParseMessage(Msg(c))
           r == Thread(read.body, read.attachments)
<1>1. m \in Messages /\ mail' = mail /\ call[c].at = "store" /\ Reply(c, r)
  BY AsksForMessage DEF StoreThread, mailVars
<1>2. Rows'
  <2>1. row' = [row EXCEPT ![m] = FullRow(ParseMessage(mail[m]))] BY DEF StoreThread, Msg
  <2> QED BY <2>1, <1>1, OneRowMoves
<1>3. r.kind = "read" /\ r = Thread(ParseMessage(Msg(c)).body, ParseMessage(Msg(c)).attachments) BY DEF Thread
<1> HIDE DEF r
<1>4. Calling' /\ \A d \in Calls : ReadRight(d)' BY <1>1, <1>3, OneCallEnds
<1> QED BY <1>2, <1>4 DEF ReadsInv

LEMMA StoreSummaryReads == ASSUME ReadsInv, NEW c \in Calls, StoreSummary(c) PROVE ReadsInv'
<1> DEFINE m == call[c].asks.msg
           r == Summary("message")
<1>1. m \in Messages /\ mail' = mail /\ call[c].at = "store" /\ Reply(c, r)
  BY AsksForMessage DEF StoreSummary, mailVars
<1>2. Rows'
  <2>1. row' = [row EXCEPT ![m] = SummaryRow(m)] BY DEF StoreSummary
  <2> QED BY <2>1, <1>1, OneRowMoves, SummaryRowOk
<1>3. r.kind = "summary" BY DEF Summary
<1> HIDE DEF r
<1>4. Calling' /\ \A d \in Calls : ReadRight(d)' BY <1>1, <1>3, OneCallEnds
<1> QED BY <1>2, <1>4 DEF ReadsInv

LEMMA FetchMessageReads == ASSUME ReadsInv, NEW c \in Calls, FetchMessage(c) PROVE ReadsInv'
<1> DEFINE read == ParseMessage(Msg(c))
           got == ParseFormat(Msg(c), call[c].asks.format)
           r == IF call[c].asks.format = "full" THEN Thread(got.body, got.attachments) ELSE Summary("message")
<1>1. Rows' BY RowsRest DEF FetchMessage, mailVars
<1>2. mail' = mail /\ call[c].at = "fetch" /\ Reply(c, r) BY DEF FetchMessage, mailVars
<1>3. r.kind \in {"read", "summary"} BY DEF Thread, Summary
<1>4. r.kind = "read" => r = Thread(read.body, read.attachments) BY DEF ParseFormat, Thread, Summary
<1> HIDE DEF r
<1>5. Calling' /\ \A d \in Calls : ReadRight(d)' BY <1>2, <1>3, <1>4, OneCallEnds
<1> QED BY <1>1, <1>5 DEF ReadsInv

LEMMA FetchBodiesReads == ASSUME ReadsInv, NEW c \in Calls, FetchBodies(c) PROVE ReadsInv'
<1> DEFINE want == call[c].asks.want
           text == TextLeaf(Msg(c), "plain")
           b == ExtractBodyParts(Msg(c))
           r == Bodies([text |-> AsSent(b.text), html |-> AsSent(b.html)], want)
<1>1. Rows' BY RowsRest DEF FetchBodies, mailVars
<1>2. mail' = mail /\ call[c].at = "fetch" /\ Reply(c, r) BY DEF FetchBodies, mailVars
<1>3. want \in {"both", "text", "html"} BY AsksForMessage DEF FetchBodies, Asks
<1>4. b.text = text BY DEF ExtractBodyParts
<1>5. r.kind = "bodies" /\ (want # "html" => r.text = AsSent(text)) BY <1>3, <1>4 DEF Bodies
<1> HIDE DEF r
<1>6. Calling' /\ \A d \in Calls : ReadRight(d)' BY <1>2, <1>5, OneCallEnds
<1> QED BY <1>1, <1>6 DEF ReadsInv

(* Answers that show no text: labels, errors, files, trees and pages.             *)
Wordless == {"labels", "error", "forwarded", "data", "saved", "page"}

LEMMA WordlessEnd ==
  ASSUME ReadsInv, NEW c \in Calls, NEW r, mail' = mail, call[c].at # "idle", Reply(c, r), r.kind \in Wordless
  PROVE  Calling' /\ \A d \in Calls : ReadRight(d)'
BY OneCallEnds DEF Wordless

LEMMA Failures == \A why : Failed(why).kind = "error" /\ Failed(why).kind \in Wordless
BY DEF Failed, Wordless

LEMMA FetchLabelsReads == ASSUME ReadsInv, NEW c \in Calls, FetchLabels(c) PROVE ReadsInv'
<1>1. Rows' BY RowsRest DEF FetchLabels, mailVars
<1>2. mail' = mail /\ call[c].at # "idle" /\ Reply(c, [kind |-> "labels"]) BY DEF FetchLabels, mailVars
<1>3. [kind |-> "labels"].kind \in Wordless BY DEF Wordless
<1>4. Calling' /\ \A d \in Calls : ReadRight(d)' BY <1>2, <1>3, WordlessEnd
<1> QED BY <1>1, <1>4 DEF ReadsInv

LEMMA FetchForwardedReads == ASSUME ReadsInv, NEW c \in Calls, FetchForwarded(c) PROVE ReadsInv'
<1>1. Rows' BY RowsRest DEF FetchForwarded, mailVars
<1>2. mail' = mail /\ call[c].at = "fetch" BY DEF FetchForwarded, mailVars
<1>3. CASE GoTo(c, "download") BY <1>1, <1>2, <1>3, OneCallGoesOn DEF Stages, ReadsInv
<1>4. CASE \E why : Reply(c, Failed(why))
  <2>1. Calling' /\ \A d \in Calls : ReadRight(d)' BY <1>2, <1>4, Failures, WordlessEnd
  <2> QED BY <1>1, <2>1 DEF ReadsInv
<1>5. \/ GoTo(c, "download")
      \/ Reply(c, Failed("NotFound"))
      \/ Reply(c, Failed("UnsupportedMimeType"))
  BY DEF FetchForwarded
<1> QED BY <1>3, <1>4, <1>5

LEMMA DownloadReads == ASSUME ReadsInv, NEW c \in Calls, Download(c) PROVE ReadsInv'
<1> DEFINE asked == call[c].asks
           tree == [kind |-> "forwarded",
                    tree |-> Forwarded(Msg(c), asked.part, ResolveMaxDepth(asked.depth, asked.ceiling))]
           data == [kind |-> "data", part |-> asked.part]
<1>1. Rows' BY RowsRest DEF Download, mailVars
<1>2. mail' = mail /\ call[c].at = "download" BY DEF Download, mailVars
<1>3. (\E why : Reply(c, Failed(why))) \/ Reply(c, tree) \/ Reply(c, data) \/ GoTo(c, "open") BY DEF Download
<1>4. tree.kind \in Wordless /\ data.kind \in Wordless BY DEF Wordless
<1> HIDE DEF tree, data
<1>5. Calling' /\ \A d \in Calls : ReadRight(d)'
  <2>1. CASE \E why : Reply(c, Failed(why)) BY <1>2, <2>1, Failures, WordlessEnd
  <2>2. CASE Reply(c, tree) BY <1>2, <1>4, <2>2, WordlessEnd
  <2>3. CASE Reply(c, data) BY <1>2, <1>4, <2>3, WordlessEnd
  <2>4. CASE GoTo(c, "open") BY <1>2, <2>4, OneCallGoesOn DEF Stages
  <2> QED BY <1>3, <2>1, <2>2, <2>3, <2>4
<1> QED BY <1>1, <1>5 DEF ReadsInv

LEMMA SaveReads == ASSUME ReadsInv, NEW c \in Calls, Save(c) PROVE ReadsInv'
<1> DEFINE saved == [kind |-> "saved", path |-> call[c].asks.path, part |-> call[c].asks.part]
<1>1. Rows' BY RowsRest DEF Save, mailVars
<1>2. mail' = mail /\ call[c].at \in {"open", "write"} BY DEF Save, OpenFile, WriteFile, mailVars
<1>3. saved.kind \in Wordless BY DEF Wordless
<1>4. (\E why : Reply(c, Failed(why))) \/ GoTo(c, "write") \/ Reply(c, saved)
  <2>1. CASE OpenFile(c) BY <2>1 DEF OpenFile
  <2>2. CASE WriteFile(c) BY <2>2 DEF WriteFile
  <2> QED BY <2>1, <2>2 DEF Save
<1> HIDE DEF saved
<1>5. Calling' /\ \A d \in Calls : ReadRight(d)'
  <2>1. CASE \E why : Reply(c, Failed(why)) BY <1>2, <2>1, Failures, WordlessEnd
  <2>2. CASE GoTo(c, "write") BY <1>2, <2>2, OneCallGoesOn DEF Stages
  <2>3. CASE Reply(c, saved) BY <1>2, <1>3, <2>3, WordlessEnd
  <2> QED BY <1>4, <2>1, <2>2, <2>3
<1> QED BY <1>1, <1>5 DEF ReadsInv

LEMMA BreakReads == ASSUME ReadsInv, NEW c \in Calls, Break(c) PROVE ReadsInv'
<1>1. Rows' BY RowsRest DEF Break, mailVars
<1>2. mail' = mail /\ call[c].at # "idle" /\ Reply(c, Failed("upstream or cache")) BY DEF Break, mailVars
<1>3. Calling' /\ \A d \in Calls : ReadRight(d)' BY <1>2, Failures, WordlessEnd
<1> QED BY <1>1, <1>3 DEF ReadsInv

(* The steps of a search. What List does to its call: *)
LEMMA ListIs ==
  ASSUME ReadsInv, NEW c \in Calls, List(c)
  PROVE  \E n \in Nat : \E listed \in [1 .. n -> Messages] : \E w :
           /\ call' = [call EXCEPT ![c] = w]
           /\ w = [at |-> IF n = 0 THEN "done" ELSE "hydrate", asks |-> call[c].asks, order |-> listed,
                   tasks |-> NewTasks(listed), byId |-> <<>>,
                   reply |-> IF n = 0 THEN [kind |-> "page", items |-> <<>>] ELSE NoReply]
<1>1. PICK n \in 0 .. MaxListed : \E listed \in [1 .. n -> Messages] :
        call' = [call EXCEPT ![c].order = listed,
                             ![c].tasks = NewTasks(listed),
                             ![c].byId = <<>>,
                             ![c].at = IF n = 0 THEN "done" ELSE "hydrate",
                             ![c].reply = IF n = 0 THEN [kind |-> "page", items |-> <<>>] ELSE @]
  BY DEF List
<1>2. PICK listed \in [1 .. n -> Messages] :
        call' = [call EXCEPT ![c].order = listed,
                             ![c].tasks = NewTasks(listed),
                             ![c].byId = <<>>,
                             ![c].at = IF n = 0 THEN "done" ELSE "hydrate",
                             ![c].reply = IF n = 0 THEN [kind |-> "page", items |-> <<>>] ELSE @]
  BY <1>1
<1> DEFINE at == IF n = 0 THEN "done" ELSE "hydrate"
           page == [kind |-> "page", items |-> <<>>]
           reply == IF n = 0 THEN page ELSE call[c].reply
           tasks == NewTasks(listed)
           none == <<>>
           v == [call[c] EXCEPT !.order = listed, !.tasks = tasks, !.byId = none, !.at = at, !.reply = reply]
           w == [at |-> at, asks |-> call[c].asks, order |-> listed, tasks |-> tasks, byId |-> none,
                 reply |-> reply]
<1>3. /\ call[c] = [at |-> call[c].at, asks |-> call[c].asks, order |-> call[c].order,
                    tasks |-> call[c].tasks, byId |-> call[c].byId, reply |-> call[c].reply]
      /\ call[c].reply = NoReply
  BY DEF ReadsInv, Calling, CallShape, List
<1>4. call' = [call EXCEPT ![c] = v] BY <1>2
<1>5. n \in Nat BY ReadsAssumption
<1> HIDE DEF at, page, tasks, none, v
<1>6. w = [at |-> at, asks |-> call[c].asks, order |-> listed, tasks |-> tasks, byId |-> none,
           reply |-> IF n = 0 THEN page ELSE NoReply]
  BY <1>3
<1> HIDE DEF reply
<1>7. v = [[[[[call[c] EXCEPT !.order = listed] EXCEPT !.tasks = tasks] EXCEPT !.byId = none]
            EXCEPT !.at = at] EXCEPT !.reply = reply]
  BY DEF v
<1>8. v = w BY <1>3, <1>7
<1> HIDE DEF w
<1>9. call' = [call EXCEPT ![c] = w] BY <1>4, <1>8
<1> QED BY <1>5, <1>6, <1>9 DEF at, page, tasks, none

(* What a step of a task does to its call. *)
Moved(c, tasks, byId) ==
  \E k \in DOMAIN call[c].order :
    /\ call[c].tasks[k].at # "back"
    /\ \/ /\ \E at \in {"fetch", "store"} : tasks = [call[c].tasks EXCEPT ![k].at = at]
          /\ byId = call[c].byId
       \/ \E got : /\ tasks = [call[c].tasks EXCEPT ![k] = [at |-> "back", got |-> got]]
                    /\ byId = Insert(call[c].byId, call[c].order[k], [snippet |-> k, outcome |-> got])

Hydrating(c, tasks, byId) ==
  [at |-> "hydrate", asks |-> call[c].asks, order |-> call[c].order, tasks |-> tasks, byId |-> byId,
   reply |-> NoReply]

LEMMA HydrateIs ==
  ASSUME ReadsInv, NEW c \in Calls, Hydrate(c)
  PROVE  \/ Reply(c, Failed("panicked"))
         \/ \E tasks, byId : /\ call' = [call EXCEPT ![c] = Hydrating(c, tasks, byId)]
                             /\ Moved(c, tasks, byId)
<1>1. PICK k \in DOMAIN call[c].order :
        \/ TaskHit(c, k) \/ TaskMiss(c, k) \/ TaskFetch(c, k) \/ TaskStore(c, k)
        \/ TaskBreaks(c, k) \/ TaskPanics(c, k)
  BY DEF Hydrate
<1>2. \/ Reply(c, Failed("panicked"))
      \/ /\ call[c].at = "hydrate" /\ call[c].tasks[k].at # "back"
         /\ (\E at \in {"fetch", "store"} : TaskGoesTo(c, k, at)) \/ \E got : TaskEnds(c, k, got)
  BY <1>1 DEF TaskHit, TaskMiss, TaskFetch, TaskStore, TaskBreaks, TaskPanics, TaskAt
<1>3. ASSUME call[c].at = "hydrate"
      PROVE  /\ call[c] = [at |-> "hydrate", asks |-> call[c].asks, order |-> call[c].order,
                           tasks |-> call[c].tasks, byId |-> call[c].byId, reply |-> NoReply]
  BY <1>3 DEF ReadsInv, Calling, CallShape
<1>4. ASSUME call[c].at = "hydrate", call[c].tasks[k].at # "back",
             NEW at \in {"fetch", "store"}, TaskGoesTo(c, k, at)
      PROVE  \E tasks, byId : /\ call' = [call EXCEPT ![c] = Hydrating(c, tasks, byId)]
                              /\ Moved(c, tasks, byId)
  <2> DEFINE tasks == [call[c].tasks EXCEPT ![k].at = at]
             v == [call[c] EXCEPT !.tasks = tasks]
  <2>1. call' = [call EXCEPT ![c] = v] BY <1>4 DEF TaskGoesTo
  <2>2. Moved(c, tasks, call[c].byId) BY <1>4 DEF Moved
  <2> HIDE DEF tasks
  <2>3. v = Hydrating(c, tasks, call[c].byId) BY <1>3, <1>4 DEF Hydrating
  <2> HIDE DEF v
  <2> QED BY <2>1, <2>2, <2>3
<1>5. ASSUME call[c].at = "hydrate", call[c].tasks[k].at # "back", NEW got, TaskEnds(c, k, got)
      PROVE  \E tasks, byId : /\ call' = [call EXCEPT ![c] = Hydrating(c, tasks, byId)]
                              /\ Moved(c, tasks, byId)
  <2> DEFINE tasks == [call[c].tasks EXCEPT ![k] = [at |-> "back", got |-> got]]
             byId == Insert(call[c].byId, call[c].order[k], [snippet |-> k, outcome |-> got])
             v == [call[c] EXCEPT !.tasks = tasks, !.byId = byId]
  <2>1. call' = [call EXCEPT ![c] = v] BY <1>5 DEF TaskEnds
  <2>2. Moved(c, tasks, byId) BY <1>5 DEF Moved
  <2> HIDE DEF tasks, byId, v
  <2>3. v = [[call[c] EXCEPT !.tasks = tasks] EXCEPT !.byId = byId] BY DEF v
  <2>4. call[c] = [at |-> "hydrate", asks |-> call[c].asks, order |-> call[c].order,
                   tasks |-> call[c].tasks, byId |-> call[c].byId, reply |-> NoReply]
    BY <1>3, <1>5
  <2>5. [call[c] EXCEPT !.tasks = tasks] = Hydrating(c, tasks, call[c].byId) BY <2>4 DEF Hydrating
  <2>6. v = [Hydrating(c, tasks, call[c].byId) EXCEPT !.byId = byId] BY <2>3, <2>5
  <2>7. v = Hydrating(c, tasks, byId) BY <2>6 DEF Hydrating
  <2> QED BY <2>1, <2>2, <2>7
<1> QED BY <1>2, <1>4, <1>5

(* The rows it leaves: one more summary, or those of the tasks that a panic ended.*)
LEMMA HydrateRows == ASSUME ReadsInv, NEW c \in Calls, Hydrate(c) PROVE Rows'
<1>1. PICK k \in DOMAIN call[c].order :
        \/ TaskHit(c, k) \/ TaskMiss(c, k) \/ TaskFetch(c, k) \/ TaskStore(c, k)
        \/ TaskBreaks(c, k) \/ TaskPanics(c, k)
  BY DEF Hydrate
<1>2. CASE UNCHANGED <<mail, row>> BY <1>2, RowsRest
<1>3. CASE TaskStore(c, k)
  <2> DEFINE m == call[c].order[k]
  <2>1. mail' = mail /\ row' = [row EXCEPT ![m] = SummaryRow(m)] BY <1>3 DEF TaskStore, mailVars
  <2> HIDE DEF m
  <2>2. CASE m \in Messages BY <2>1, <2>2, OneRowMoves, SummaryRowOk
  <2>3. CASE m \notin Messages
    <3>1. row' = row BY <2>1, <2>3 DEF ReadsInv, Rows
    <3> QED BY <2>1, <3>1, RowsRest
  <2> QED BY <2>2, <2>3
<1>4. CASE TaskPanics(c, k)
  <2>1. PICK late : row' = [m \in Messages |-> IF m \in late THEN SummaryRow(m) ELSE row[m]]
    BY <1>4 DEF TaskPanics
  <2>2. mail' = mail BY <1>4 DEF TaskPanics, mailVars
  <2>3. ASSUME NEW m \in Messages PROVE RowOk(m)'
    <3>1. row'[m] = row[m] \/ row'[m] = SummaryRow(m) BY <2>1
    <3>2. RowOk(m) BY DEF ReadsInv, Rows
    <3> QED BY <2>2, <3>1, <3>2, SummaryRowOk DEF RowOk
  <2>4. row' = [m \in Messages |-> row'[m]] BY <2>1
  <2> QED BY <2>3, <2>4 DEF Rows
<1> QED BY <1>1, <1>2, <1>3, <1>4 DEF TaskHit, TaskMiss, TaskFetch, TaskBreaks, mailVars

LEMMA AssembleReads == ASSUME ReadsInv, NEW c \in Calls, Assemble(c) PROVE ReadsInv'
<1> DEFINE page == [kind |-> "page", items |-> Page(c)]
<1>1. Rows' BY RowsRest DEF Assemble, mailVars
<1>2. mail' = mail /\ call[c].at = "hydrate" BY DEF Assemble, mailVars
<1>3. Reply(c, page) \/ Reply(c, Failed("hydration")) BY DEF Assemble
<1>4. page.kind \in Wordless BY DEF Wordless
<1> HIDE DEF page
<1>5. CASE Reply(c, page) BY <1>1, <1>2, <1>4, <1>5, WordlessEnd DEF ReadsInv
<1>6. CASE Reply(c, Failed("hydration")) BY <1>1, <1>2, <1>6, Failures, WordlessEnd DEF ReadsInv
<1> QED BY <1>3, <1>5, <1>6

LEMMA ListReads == ASSUME ReadsInv, NEW c \in Calls, List(c) PROVE ReadsInv'
<1>1. Rows' BY RowsRest DEF List, mailVars
<1>2. mail' = mail /\ call[c].asks \in Plans[c] BY DEF List, mailVars, ReadsInv, Calling, CallShape
<1>3. PICK n \in Nat : \E listed, w :
           /\ call' = [call EXCEPT ![c] = w]
           /\ w = [at |-> IF n = 0 THEN "done" ELSE "hydrate", asks |-> call[c].asks, order |-> listed,
                   tasks |-> NewTasks(listed), byId |-> <<>>,
                   reply |-> IF n = 0 THEN [kind |-> "page", items |-> <<>>] ELSE NoReply]
  BY ListIs
<1>6. PICK listed, w :
           /\ call' = [call EXCEPT ![c] = w]
           /\ w = [at |-> IF n = 0 THEN "done" ELSE "hydrate", asks |-> call[c].asks, order |-> listed,
                   tasks |-> NewTasks(listed), byId |-> <<>>,
                   reply |-> IF n = 0 THEN [kind |-> "page", items |-> <<>>] ELSE NoReply]
  BY <1>3
<1>4. /\ w = [at |-> w.at, asks |-> w.asks, order |-> w.order, tasks |-> w.tasks, byId |-> w.byId,
              reply |-> w.reply]
      /\ w.at \in Stages /\ w.asks = call[c].asks
      /\ w.at # "done" => w.reply = NoReply
      /\ w.reply.kind \in {"page", "none"}
  BY <1>6 DEF Stages, NoReply
<1>5. Calling' /\ \A d \in Calls : ReadRight(d)' BY <1>2, <1>4, <1>6, OneCallMoves
<1> QED BY <1>1, <1>5 DEF ReadsInv

LEMMA HydrateReads == ASSUME ReadsInv, NEW c \in Calls, Hydrate(c) PROVE ReadsInv'
<1>1. mail' = mail /\ call[c].at = "hydrate"
  BY DEF Hydrate, TaskHit, TaskMiss, TaskFetch, TaskStore, TaskBreaks, TaskPanics, TaskAt, mailVars
<1>2. call[c].asks \in Plans[c] BY <1>1 DEF ReadsInv, Calling, CallShape
<1>3. CASE Reply(c, Failed("panicked"))
  <2>1. Calling' /\ \A d \in Calls : ReadRight(d)' BY <1>1, <1>3, Failures, WordlessEnd
  <2> QED BY <2>1, HydrateRows DEF ReadsInv
<1>4. CASE \E tasks, byId : call' = [call EXCEPT ![c] = Hydrating(c, tasks, byId)]
  <2>1. PICK tasks, byId : call' = [call EXCEPT ![c] = Hydrating(c, tasks, byId)] BY <1>4
  <2> DEFINE w == Hydrating(c, tasks, byId)
  <2>2. /\ w = [at |-> w.at, asks |-> w.asks, order |-> w.order, tasks |-> w.tasks, byId |-> w.byId,
                reply |-> w.reply]
        /\ w.at \in Stages /\ w.at = "hydrate" /\ w.asks = call[c].asks
        /\ w.reply = NoReply /\ w.reply.kind = "none"
    BY DEF Hydrating, Stages, NoReply
  <2> HIDE DEF w
  <2>3. call' = [call EXCEPT ![c] = w] BY <2>1 DEF w
  <2>4. Calling' /\ \A d \in Calls : ReadRight(d)' BY <1>1, <1>2, <2>2, <2>3, OneCallMoves
  <2> QED BY <2>4, HydrateRows DEF ReadsInv
<1> QED BY <1>3, <1>4, HydrateIs

LEMMA StepReads == ASSUME ReadsInv, NEW c \in Calls, Step(c) \/ Break(c) PROVE ReadsInv'
BY BeginReads, HitThreadReads, HitSummaryReads, HitBodiesReads, MissReads, FetchThreadReads,
   FetchSummaryReads, StoreThreadReads, StoreSummaryReads, FetchMessageReads, FetchBodiesReads,
   FetchLabelsReads, FetchForwardedReads, DownloadReads, SaveReads, ListReads, HydrateReads,
   AssembleReads, BreakReads
   DEF Step

LEMMA UpkeepReads == ASSUME ReadsInv, NEW m \in Messages, PurgeBody(m) \/ DropRow(m) PROVE ReadsInv'
<1>1. mail' = mail /\ call' = call BY DEF PurgeBody, DropRow, mailVars
<1>2. PICK r : row' = [row EXCEPT ![m] = r] /\ r.text = Nothing BY EmptyRows DEF PurgeBody, DropRow
<1>3. Rows' BY <1>1, <1>2, OneRowMoves
<1>4. Calling' BY <1>1 DEF ReadsInv, Calling, CallShape
<1>5. \A c \in Calls : ReadRight(c)' BY <1>1 DEF ReadsInv, ReadRight, Replied, Msg
<1> QED BY <1>3, <1>4, <1>5 DEF ReadsInv

LEMMA ReadsAlways == Spec => []ReadsInv
<1>1. ReadsInv /\ [Next]_vars => ReadsInv'
  <2> SUFFICES ASSUME ReadsInv, [Next]_vars PROVE ReadsInv' OBVIOUS
  <2>1. CASE UNCHANGED vars
    BY <2>1 DEF ReadsInv, Rows, RowOk, Calling, CallShape, ReadRight, Replied, Msg, vars, mailVars
  <2>2. CASE \E c \in Calls : Step(c) \/ Break(c) BY <2>2, StepReads
  <2>3. CASE \E m \in Messages : PurgeBody(m) \/ DropRow(m) BY <2>3, UpkeepReads
  <2> QED BY <2>1, <2>2, <2>3 DEF Next
<1> QED BY <1>1, ReadsInitially, PTL DEF Spec

(* Whatever was stored, purged, dropped or stored over between the steps of a     *)
(* call, what it shows of a message is what Gmail's answer would have shown.      *)
THEOREM RowsReadLikeGmail == Spec => []HitsReadAsFetched
<1>1. ReadsInv => HitsReadAsFetched BY DEF ReadsInv, ReadRight, HitsReadAsFetched
<1> QED BY <1>1, ReadsAlways, PTL

--------------------------------------------------------------------------------
(* Files and pages *)

(* Between create_new and the last write a path belongs to one call, and what a   *)
(* call reported as saved is never opened again.                                  *)
FileOk(c) ==
  LET p == call[c].asks.path
      part == call[c].asks.part
  IN /\ call[c].at = "open" => p \in Paths
     /\ call[c].at = "write" => p \in Paths /\ file[p] = <<part, "partial">>
     /\ Replied(c, "saved") => p \in Paths /\ call[c].reply.path = p /\ file[p] = <<part, "whole">>

OneWriter == \A c, d \in Calls : /\ call[c].at = "write" /\ call[d].at = "write"
                                /\ call[c].asks.path = call[d].asks.path => c = d

(* What is in the map of a call r came from a task that is back, for the thread   *)
(* it read.                                                                       *)
Collected(r) ==
  /\ \E n \in Nat : r.order \in [1 .. n -> Messages]
  /\ r.tasks = [k \in DOMAIN r.order |-> r.tasks[k]]
  /\ \A id \in DOMAIN r.byId : \E k \in DOMAIN r.order :
       /\ r.order[k] = id /\ r.tasks[k].at = "back"
       /\ r.byId[id] = [snippet |-> k, outcome |-> r.tasks[k].got]

(* What PageInListOrder says of one call. *)
Paged(r) ==
  /\ DOMAIN r.reply.items = DOMAIN r.order
  /\ \A i \in DOMAIN r.order :
       LET task == r.tasks[i] IN
       /\ r.reply.items[i] = [thread |-> r.order[i], snippet |-> i, read |-> task.got]
       /\ task.at = "back" /\ task.got.kind = "summary"

PageOk(r) == /\ r.at = "hydrate" => Collected(r)
             /\ r.reply.kind = "page" => Paged(r)

SavesInv == /\ file = [p \in Paths |-> file[p]]
            /\ OneWriter
            /\ \A c \in Calls : FileOk(c) /\ PageOk(call[c])

LEMMA SavesInitially == Init => SavesInv
<1> SUFFICES ASSUME Init PROVE SavesInv OBVIOUS
<1>1. file = [p \in Paths |-> file[p]] BY DEF Init
<1>2. \A c \in Calls : call[c].at = "idle" /\ call[c].reply.kind = "none"
  BY DEF Init, NoReply
<1>3. \A c \in Calls : FileOk(c) /\ PageOk(call[c]) BY <1>2 DEF FileOk, PageOk, Replied
<1>4. OneWriter BY <1>2 DEF OneWriter
<1> QED BY <1>1, <1>3, <1>4 DEF SavesInv

(* A step of a call that has no business with a file and shows no page.           *)
LEMMA QuietStep ==
  ASSUME ReadsInv, SavesInv, NEW c \in Calls, NEW w, UNCHANGED file,
         call' = [call EXCEPT ![c] = w],
         w.at \notin {"open", "write", "hydrate"}, w.reply.kind \notin {"saved", "page"}
  PROVE  SavesInv'
<1>1. call'[c] = w BY DEF ReadsInv, Calling
<1>2. ASSUME NEW d \in Calls, d # c PROVE call'[d] = call[d] BY <1>2 DEF ReadsInv, Calling
<1>3. ASSUME NEW d \in Calls PROVE FileOk(d)' /\ PageOk(call'[d])
  <2>1. CASE d = c BY <2>1, <1>1 DEF FileOk, PageOk, Replied
  <2>2. CASE d # c
    <3>1. call'[d] = call[d] /\ FileOk(d) /\ PageOk(call[d]) BY <2>2, <1>2 DEF SavesInv
    <3> QED BY <3>1 DEF FileOk, Replied
  <2> QED BY <2>1, <2>2
<1>4. OneWriter' BY <1>1, <1>2 DEF OneWriter, SavesInv
<1> QED BY <1>3, <1>4 DEF SavesInv

LEMMA QuietReply ==
  ASSUME ReadsInv, SavesInv, NEW c \in Calls, NEW r, UNCHANGED file,
         Reply(c, r), r.kind \notin {"saved", "page"}
  PROVE  SavesInv'
<1> DEFINE w == [call[c] EXCEPT !.at = "done", !.reply = r]
<1>1. call[c] = [at |-> call[c].at, asks |-> call[c].asks, order |-> call[c].order,
                 tasks |-> call[c].tasks, byId |-> call[c].byId, reply |-> call[c].reply]
  BY DEF ReadsInv, Calling, CallShape
<1>2. call' = [call EXCEPT ![c] = w] BY DEF Reply
<1> HIDE DEF w
<1>3. w = [[call[c] EXCEPT !.at = "done"] EXCEPT !.reply = r] BY DEF w
<1>4. w.at = "done" /\ w.reply = r BY <1>1, <1>3
<1> QED BY <1>2, <1>4, QuietStep

LEMMA QuietGoTo ==
  ASSUME ReadsInv, SavesInv, NEW c \in Calls, NEW at, UNCHANGED file,
         GoTo(c, at), at \notin {"open", "write", "hydrate"}, call[c].at # "done"
  PROVE  SavesInv'
<1> DEFINE w == [call[c] EXCEPT !.at = at]
<1>1. call[c] = [at |-> call[c].at, asks |-> call[c].asks, order |-> call[c].order,
                 tasks |-> call[c].tasks, byId |-> call[c].byId, reply |-> call[c].reply]
  BY DEF ReadsInv, Calling, CallShape
<1>2. call' = [call EXCEPT ![c] = w] BY DEF GoTo
<1>3. call[c].reply.kind = "none" BY DEF ReadsInv, Calling, CallShape, NoReply
<1>4. w.at = at /\ w.reply.kind = "none" BY <1>1, <1>3
<1> HIDE DEF w
<1> QED BY <1>2, <1>4, QuietStep

LEMMA BeginSaves == ASSUME ReadsInv, SavesInv, NEW c \in Calls, Begin(c) PROVE SavesInv'
<1>1. PICK asked \in Plans[c] :
        call' = [call EXCEPT ![c].asks = asked,
                             ![c].at = IF asked.tool = "search_threads" THEN "list"
                                       ELSE IF asked.tool = "download_attachment" THEN "download"
                                       ELSE IF caching /\ asked.tool \in CachedTools THEN "lookup" ELSE "fetch"]
  BY DEF Begin
<1> DEFINE at == IF asked.tool = "search_threads" THEN "list"
                 ELSE IF asked.tool = "download_attachment" THEN "download"
                 ELSE IF caching /\ asked.tool \in CachedTools THEN "lookup" ELSE "fetch"
           v == [call[c] EXCEPT !.asks = asked, !.at = at]
<1>2. call' = [call EXCEPT ![c] = v] BY <1>1
<1>3. at \notin {"open", "write", "hydrate"} OBVIOUS
<1>4. call[c] = [at |-> call[c].at, asks |-> call[c].asks, order |-> call[c].order,
                 tasks |-> call[c].tasks, byId |-> call[c].byId, reply |-> call[c].reply]
  BY DEF ReadsInv, Calling, CallShape
<1>5. call[c].reply.kind = "none" BY DEF ReadsInv, Calling, CallShape, NoReply, Begin
<1> HIDE DEF at, v
<1>6. v = [[call[c] EXCEPT !.asks = asked] EXCEPT !.at = at] BY DEF v
<1>7. v.at = at /\ v.reply.kind = "none" BY <1>4, <1>5, <1>6
<1> QED BY <1>2, <1>3, <1>7, QuietStep DEF Begin

(* The reads, which answer with texts, summaries, labels or errors.               *)
LEMMA ReadersSave ==
  ASSUME ReadsInv, SavesInv, NEW c \in Calls,
         \/ HitThread(c) \/ HitSummary(c) \/ HitBodies(c) \/ Miss(c) \/ FetchThread(c) \/ FetchSummary(c)
         \/ StoreThread(c) \/ StoreSummary(c) \/ FetchMessage(c) \/ FetchBodies(c) \/ FetchLabels(c)
         \/ FetchForwarded(c) \/ Break(c)
  PROVE  SavesInv'
<1> DEFINE Quiet(r) == r.kind \notin {"saved", "page"}
<1>1. /\ \A b, a : Quiet(Thread(b, a))
      /\ \A i : Quiet(Summary(i))
      /\ \A b, want : Quiet(Bodies(b, want))
      /\ \A why : Quiet(Failed(why))
      /\ Quiet([kind |-> "labels"])
  BY DEF Thread, Summary, Bodies, Failed
<1>2. ASSUME \E r : Reply(c, r) /\ Quiet(r), UNCHANGED file PROVE SavesInv'
  BY <1>2, QuietReply
<1>3. ASSUME NEW at \in {"fetch", "store", "download"}, GoTo(c, at), UNCHANGED file,
             call[c].at # "done" PROVE SavesInv'
  BY <1>3, QuietGoTo
<1> HIDE DEF Quiet
<1>4. CASE HitThread(c) BY <1>1, <1>2, <1>4 DEF HitThread
<1>5. CASE HitSummary(c) BY <1>1, <1>2, <1>5 DEF HitSummary
<1>6. CASE HitBodies(c) BY <1>1, <1>2, <1>6 DEF HitBodies
<1>7. CASE Miss(c) BY <1>3, <1>7 DEF Miss
<1>8. CASE FetchThread(c) BY <1>1, <1>2, <1>3, <1>8 DEF FetchThread
<1>9. CASE FetchSummary(c) BY <1>1, <1>2, <1>3, <1>9 DEF FetchSummary
<1>10. CASE StoreThread(c) BY <1>1, <1>2, <1>10 DEF StoreThread
<1>11. CASE StoreSummary(c) BY <1>1, <1>2, <1>11 DEF StoreSummary
<1>12. CASE FetchMessage(c) BY <1>1, <1>2, <1>12 DEF FetchMessage
<1>13. CASE FetchBodies(c) BY <1>1, <1>2, <1>13 DEF FetchBodies
<1>14. CASE FetchLabels(c) BY <1>1, <1>2, <1>14 DEF FetchLabels
<1>15. CASE FetchForwarded(c)
  <2>1. /\ UNCHANGED file /\ call[c].at = "fetch"
        /\ \/ GoTo(c, "download")
           \/ Reply(c, Failed("NotFound"))
           \/ Reply(c, Failed("UnsupportedMimeType"))
    BY <1>15 DEF FetchForwarded
  <2> QED BY <1>1, <1>2, <1>3, <2>1
<1>16. CASE Break(c) BY <1>1, <1>2, <1>16 DEF Break
<1> QED BY <1>4, <1>5, <1>6, <1>7, <1>8, <1>9, <1>10, <1>11, <1>12, <1>13, <1>14, <1>15, <1>16

LEMMA DownloadSaves == ASSUME ReadsInv, SavesInv, NEW c \in Calls, Download(c) PROVE SavesInv'
<1> DEFINE asked == call[c].asks
           tree == [kind |-> "forwarded",
                    tree |-> Forwarded(Msg(c), asked.part, ResolveMaxDepth(asked.depth, asked.ceiling))]
           data == [kind |-> "data", part |-> asked.part]
<1>1. UNCHANGED file /\ call[c].at = "download" BY DEF Download
<1>2. \/ (\E why : Reply(c, Failed(why))) \/ Reply(c, tree) \/ Reply(c, data)
      \/ asked.path \in Paths /\ GoTo(c, "open")
  BY DEF Download
<1>3. /\ \A why : Failed(why).kind = "error" /\ tree.kind = "forwarded" /\ data.kind = "data" BY DEF Failed
<1> HIDE DEF tree, data
<1>4. CASE \E why : Reply(c, Failed(why)) BY <1>1, <1>3, <1>4, QuietReply
<1>5. CASE Reply(c, tree) BY <1>1, <1>3, <1>5, QuietReply
<1>6. CASE Reply(c, data) BY <1>1, <1>3, <1>6, QuietReply
<1>7. CASE asked.path \in Paths /\ GoTo(c, "open")
  <2> DEFINE w == [call[c] EXCEPT !.at = "open"]
  <2>1. call[c] = [at |-> call[c].at, asks |-> call[c].asks, order |-> call[c].order,
                 tasks |-> call[c].tasks, byId |-> call[c].byId, reply |-> call[c].reply]
    BY DEF ReadsInv, Calling, CallShape
  <2>2. call[c].reply.kind = "none" BY <1>1 DEF ReadsInv, Calling, CallShape, NoReply
  <2>3. w.at = "open" /\ w.asks = asked /\ w.reply.kind = "none" BY <2>1, <2>2
  <2>4. call' = [call EXCEPT ![c] = w] BY <1>7 DEF GoTo
  <2> HIDE DEF w
  <2>5. call'[c] = w BY <2>4 DEF ReadsInv, Calling
  <2>6. ASSUME NEW d \in Calls, d # c PROVE call'[d] = call[d] BY <2>4, <2>6 DEF ReadsInv, Calling
  <2>7. ASSUME NEW d \in Calls PROVE FileOk(d)' /\ PageOk(call'[d])
    <3>1. CASE d = c BY <3>1, <2>5, <2>3, <1>7 DEF FileOk, PageOk, Replied
    <3>2. CASE d # c
      <4>1. call'[d] = call[d] /\ FileOk(d) /\ PageOk(call[d]) BY <3>2, <2>6 DEF SavesInv
      <4> QED BY <1>1, <4>1 DEF FileOk, Replied
    <3> QED BY <3>1, <3>2
  <2>8. OneWriter' BY <2>5, <2>6, <2>3 DEF OneWriter, SavesInv
  <2> QED BY <1>1, <2>7, <2>8 DEF SavesInv
<1> QED BY <1>2, <1>4, <1>5, <1>6, <1>7

(* create_new: a path that is written, or was, is not free, so the writer is      *)
(* alone and no saved file is touched.                                            *)
LEMMA OpenSaves == ASSUME ReadsInv, SavesInv, NEW c \in Calls, OpenFile(c) PROVE SavesInv'
<1> DEFINE p == call[c].asks.path
           part == call[c].asks.part
           w == [call[c] EXCEPT !.at = "write"]
<1>1. CASE Reply(c, Failed("exists")) /\ UNCHANGED file
  <2>1. Failed("exists").kind = "error" BY DEF Failed
  <2> QED BY <1>1, <2>1, QuietReply
<1>2. CASE /\ file[p] = <<>> /\ file' = [file EXCEPT ![p] = <<part, "partial">>] /\ GoTo(c, "write")
  <2>1. call[c] = [at |-> call[c].at, asks |-> call[c].asks, order |-> call[c].order,
                 tasks |-> call[c].tasks, byId |-> call[c].byId, reply |-> call[c].reply]
    BY DEF ReadsInv, Calling, CallShape
  <2>2. call[c].reply.kind = "none" /\ p \in Paths
    <3>1. CallShape(c) /\ FileOk(c) /\ PageOk(call[c]) /\ call[c].at = "open"
      BY DEF ReadsInv, Calling, SavesInv, OpenFile
    <3> QED BY <3>1 DEF CallShape, FileOk, PageOk, NoReply
  <2>3. w.at = "write" /\ w.asks = call[c].asks /\ w.reply.kind = "none" BY <2>1, <2>2
  <2>4. call' = [call EXCEPT ![c] = w] BY <1>2 DEF GoTo
  <2> HIDE DEF w
  <2>5. call'[c] = w BY <2>4 DEF ReadsInv, Calling
  <2>6. ASSUME NEW d \in Calls, d # c PROVE call'[d] = call[d] BY <2>4, <2>6 DEF ReadsInv, Calling
  <2>7. /\ file' = [q \in Paths |-> file'[q]] /\ file'[p] = <<part, "partial">>
        /\ \A q \in Paths \ {p} : file'[q] = file[q]
    BY <1>2, <2>2 DEF SavesInv
  <2>8. ASSUME NEW d \in Calls, call[d].at = "write" \/ Replied(d, "saved") PROVE call[d].asks.path # p
    <3>1. \A x, y : <<x, y>> # <<>> OBVIOUS
    <3>2. FileOk(d) BY DEF SavesInv
    <3> QED BY <1>2, <2>8, <3>1, <3>2 DEF FileOk
  <2>9. ASSUME NEW d \in Calls PROVE FileOk(d)'
    <3>1. CASE d = c BY <3>1, <2>5, <2>3, <2>2, <2>7 DEF FileOk, Replied
    <3>2. CASE d # c
      <4>1. FileOk(d) BY DEF SavesInv
      <4> QED BY <3>2, <4>1, <2>6, <2>7, <2>8 DEF FileOk, Replied
    <3> QED BY <3>1, <3>2
  <2>10. ASSUME NEW d \in Calls PROVE PageOk(call'[d])
    <3>1. CASE d = c BY <3>1, <2>5, <2>3 DEF PageOk, Replied
    <3>2. CASE d # c BY <3>2, <2>6 DEF SavesInv
    <3> QED BY <3>1, <3>2
  <2>11. OneWriter' BY <2>5, <2>6, <2>3, <2>8 DEF OneWriter, SavesInv
  <2> QED BY <2>7, <2>9, <2>10, <2>11 DEF SavesInv
<1> QED BY <1>1, <1>2 DEF OpenFile

LEMMA WriteSaves == ASSUME ReadsInv, SavesInv, NEW c \in Calls, WriteFile(c) PROVE SavesInv'
<1> DEFINE p == call[c].asks.path
           part == call[c].asks.part
           r == [kind |-> "saved", path |-> p, part |-> part]
<1>1. CASE UNCHANGED file /\ Reply(c, Failed("write"))
  <2>1. Failed("write").kind = "error" BY DEF Failed
  <2> QED BY <1>1, <2>1, QuietReply
<1>2. CASE file' = [file EXCEPT ![p] = <<part, "whole">>] /\ Reply(c, r)
  <2> DEFINE w == [call[c] EXCEPT !.at = "done", !.reply = r]
  <2>1. call[c] = [at |-> call[c].at, asks |-> call[c].asks, order |-> call[c].order,
                 tasks |-> call[c].tasks, byId |-> call[c].byId, reply |-> call[c].reply]
    BY DEF ReadsInv, Calling, CallShape
  <2>2. call[c].at = "write" /\ p \in Paths /\ file[p] = <<part, "partial">>
    BY DEF SavesInv, FileOk, WriteFile
  <2>3. r.kind = "saved" /\ r.path = p OBVIOUS
  <2>4. call' = [call EXCEPT ![c] = w] BY <1>2 DEF Reply
  <2> HIDE DEF w, r
  <2>5. w = [[call[c] EXCEPT !.at = "done"] EXCEPT !.reply = r] BY DEF w
  <2>6. w.at = "done" /\ w.asks = call[c].asks /\ w.reply = r BY <2>1, <2>5
  <2>7. call'[c] = w BY <2>4 DEF ReadsInv, Calling
  <2>8. ASSUME NEW d \in Calls, d # c PROVE call'[d] = call[d] BY <2>4, <2>8 DEF ReadsInv, Calling
  <2>9. /\ file' = [q \in Paths |-> file'[q]] /\ file'[p] = <<part, "whole">>
        /\ \A q \in Paths \ {p} : file'[q] = file[q]
    BY <1>2, <2>2 DEF SavesInv
  <2>10. ASSUME NEW d \in Calls, d # c, call[d].at = "write" \/ Replied(d, "saved") PROVE call[d].asks.path # p
    <3>1. CASE call[d].at = "write" BY <2>10, <3>1, <2>2 DEF SavesInv, OneWriter
    <3>2. CASE Replied(d, "saved")
      <4>1. \A x, y : <<x, "partial">> # <<y, "whole">> OBVIOUS
      <4>2. FileOk(d) BY DEF SavesInv
      <4> QED BY <2>2, <3>2, <4>1, <4>2 DEF FileOk
    <3> QED BY <2>10, <3>1, <3>2
  <2>11. ASSUME NEW d \in Calls PROVE FileOk(d)'
    <3>1. CASE d = c BY <3>1, <2>7, <2>6, <2>3, <2>2, <2>9 DEF FileOk, Replied
    <3>2. CASE d # c
      <4>1. FileOk(d) BY DEF SavesInv
      <4> QED BY <3>2, <4>1, <2>8, <2>9, <2>10 DEF FileOk, Replied
    <3> QED BY <3>1, <3>2
  <2>12. ASSUME NEW d \in Calls PROVE PageOk(call'[d])
    <3>1. CASE d = c BY <3>1, <2>7, <2>6, <2>3 DEF PageOk, Replied
    <3>2. CASE d # c BY <3>2, <2>8 DEF SavesInv
    <3> QED BY <3>1, <3>2
  <2>13. OneWriter' BY <2>7, <2>8, <2>6 DEF OneWriter, SavesInv
  <2> QED BY <2>9, <2>11, <2>12, <2>13 DEF SavesInv
<1> QED BY <1>1, <1>2 DEF WriteFile

(* A step of a search, with the files at rest.                                    *)
LEMMA PageStep ==
  ASSUME ReadsInv, SavesInv, NEW c \in Calls, UNCHANGED file,
         NEW w, call' = [call EXCEPT ![c] = w],
         w.at \in {"hydrate", "done"}, w.reply.kind # "saved", PageOk(w)
  PROVE  SavesInv'
<1>1. call'[c] = w BY DEF ReadsInv, Calling
<1>2. ASSUME NEW d \in Calls, d # c PROVE call'[d] = call[d] BY <1>2 DEF ReadsInv, Calling
<1>3. ASSUME NEW d \in Calls PROVE FileOk(d)' /\ PageOk(call'[d])
  <2>1. CASE d = c BY <2>1, <1>1 DEF FileOk, Replied
  <2>2. CASE d # c
    <3>1. FileOk(d) /\ PageOk(call[d]) BY DEF SavesInv
    <3>2. call'[d] = call[d] BY <2>2, <1>2
    <3>3. FileOk(d)' BY <3>1, <3>2 DEF FileOk, Replied
    <3>4. PageOk(call'[d]) BY <3>1, <3>2
    <3> QED BY <3>3, <3>4
  <2> QED BY <2>1, <2>2
<1>4. OneWriter' BY <1>1, <1>2 DEF OneWriter, SavesInv
<1> QED BY <1>3, <1>4 DEF SavesInv

LEMMA NoElements == DOMAIN <<>> = {} OBVIOUS

LEMMA ListSaves == ASSUME ReadsInv, SavesInv, NEW c \in Calls, List(c) PROVE SavesInv'
<1>1. PICK n \in Nat : \E listed \in [1 .. n -> Messages] : \E w :
           /\ call' = [call EXCEPT ![c] = w]
           /\ w = [at |-> IF n = 0 THEN "done" ELSE "hydrate", asks |-> call[c].asks, order |-> listed,
                   tasks |-> NewTasks(listed), byId |-> <<>>,
                   reply |-> IF n = 0 THEN [kind |-> "page", items |-> <<>>] ELSE NoReply]
  BY ListIs
<1>2. PICK listed \in [1 .. n -> Messages] : \E w :
           /\ call' = [call EXCEPT ![c] = w]
           /\ w = [at |-> IF n = 0 THEN "done" ELSE "hydrate", asks |-> call[c].asks, order |-> listed,
                   tasks |-> NewTasks(listed), byId |-> <<>>,
                   reply |-> IF n = 0 THEN [kind |-> "page", items |-> <<>>] ELSE NoReply]
  BY <1>1
<1>8. PICK w :
           /\ call' = [call EXCEPT ![c] = w]
           /\ w = [at |-> IF n = 0 THEN "done" ELSE "hydrate", asks |-> call[c].asks, order |-> listed,
                   tasks |-> NewTasks(listed), byId |-> <<>>,
                   reply |-> IF n = 0 THEN [kind |-> "page", items |-> <<>>] ELSE NoReply]
  BY <1>2
<1>3. /\ w.at = (IF n = 0 THEN "done" ELSE "hydrate") /\ w.order = listed
      /\ w.tasks = NewTasks(listed) /\ w.byId = <<>>
      /\ w.reply = IF n = 0 THEN [kind |-> "page", items |-> <<>>] ELSE NoReply
  BY <1>8
<1>4. call'[c] = w BY <1>8 DEF ReadsInv, Calling
<1>5. Collected(w)
  <2>1. NewTasks(listed) = [k \in DOMAIN listed |-> NewTasks(listed)[k]] BY DEF NewTasks
  <2> QED BY <1>3, <2>1, NoElements DEF Collected
<1>6. w.reply.kind = "page" => Paged(w)
  <2>1. CASE n = 0
    <3>1. DOMAIN listed = {} BY <2>1
    <3>2. w.reply.items = <<>> BY <2>1, <1>3
    <3> QED BY <1>3, <3>1, <3>2, NoElements DEF Paged
  <2>2. CASE n # 0 BY <2>2, <1>3 DEF NoReply
  <2> QED BY <2>1, <2>2
<1>7. w.at \in {"hydrate", "done"} /\ w.reply.kind # "saved" BY <1>3 DEF NoReply
<1> QED BY <1>8, <1>5, <1>6, <1>7, PageStep DEF List, PageOk

LEMMA HydrateSaves == ASSUME ReadsInv, SavesInv, NEW c \in Calls, Hydrate(c) PROVE SavesInv'
<1>1. UNCHANGED file /\ call[c].at = "hydrate"
  BY DEF Hydrate, TaskHit, TaskMiss, TaskFetch, TaskStore, TaskBreaks, TaskPanics, TaskAt
<1>2. CASE Reply(c, Failed("panicked"))
  <2>1. Failed("panicked").kind = "error" BY DEF Failed
  <2> QED BY <1>1, <1>2, <2>1, QuietReply
<1>3. ASSUME NEW tasks, NEW byId, call' = [call EXCEPT ![c] = Hydrating(c, tasks, byId)],
             Moved(c, tasks, byId)
      PROVE  SavesInv'
  <2> DEFINE w == Hydrating(c, tasks, byId)
             order == call[c].order
             before == call[c].tasks
             found == call[c].byId
  <2>1. /\ w.at = "hydrate" /\ w.order = order /\ w.tasks = tasks /\ w.byId = byId
        /\ w.reply.kind = "none"
    BY DEF Hydrating, NoReply
  <2>2. call'[c] = w BY <1>3 DEF ReadsInv, Calling
  <2>3. /\ \E n \in Nat : order \in [1 .. n -> Messages]
        /\ before = [k \in DOMAIN order |-> before[k]]
        /\ \A id \in DOMAIN found : \E k \in DOMAIN order :
             order[k] = id /\ before[k].at = "back" /\ found[id] = [snippet |-> k, outcome |-> before[k].got]
    BY <1>1 DEF SavesInv, PageOk, Collected
  <2>4. PICK k \in DOMAIN order :
          /\ before[k].at # "back"
          /\ \/ /\ \E at \in {"fetch", "store"} : tasks = [before EXCEPT ![k].at = at]
                /\ byId = found
             \/ \E got : /\ tasks = [before EXCEPT ![k] = [at |-> "back", got |-> got]]
                          /\ byId = Insert(found, order[k], [snippet |-> k, outcome |-> got])
    BY <1>3 DEF Moved
  <2> HIDE DEF w, order, before, found
  <2>5. /\ tasks = [j \in DOMAIN order |-> tasks[j]]
        /\ \A j \in DOMAIN order \ {k} : tasks[j] = before[j]
    BY <2>3, <2>4
  <2>6. ASSUME NEW id \in DOMAIN byId
        PROVE  \E j \in DOMAIN order :
                 order[j] = id /\ tasks[j].at = "back" /\ byId[id] = [snippet |-> j, outcome |-> tasks[j].got]
    <3>1. ASSUME id \in DOMAIN found, byId[id] = found[id] PROVE <2>6!2
      <4>1. PICK j \in DOMAIN order : order[j] = id /\ before[j].at = "back"
                                      /\ found[id] = [snippet |-> j, outcome |-> before[j].got]
        BY <3>1, <2>3
      <4>2. j # k BY <4>1, <2>4
      <4> QED BY <3>1, <4>1, <4>2, <2>5
    <3>2. CASE byId = found BY <3>1, <3>2
    <3>3. ASSUME NEW got, tasks = [before EXCEPT ![k] = [at |-> "back", got |-> got]],
                 byId = Insert(found, order[k], [snippet |-> k, outcome |-> got])
          PROVE  <2>6!2
      <4>1. byId = [x \in {order[k]} \cup DOMAIN found |->
                      IF x = order[k] THEN [snippet |-> k, outcome |-> got] ELSE found[x]]
        BY <3>3 DEF Insert
      <4>3. CASE id = order[k]
        <5>1. byId[id] = [snippet |-> k, outcome |-> got] BY <4>1, <4>3
        <5>2. tasks[k] = [at |-> "back", got |-> got] BY <3>3, <2>3
        <5>3. tasks[k].at = "back" /\ tasks[k].got = got BY <5>2
        <5> QED BY <4>3, <5>1, <5>3
      <4>4. CASE id # order[k]
        <5>1. id \in DOMAIN found /\ byId[id] = found[id] BY <4>1, <4>4
        <5> QED BY <5>1, <3>1
      <4> QED BY <4>3, <4>4
    <3> QED BY <2>4, <3>2, <3>3
  <2>7. Collected(w) BY <2>1, <2>3, <2>5, <2>6 DEF Collected
  <2>8. PageOk(w) BY <2>1, <2>7 DEF PageOk
  <2>9. call' = [call EXCEPT ![c] = w] BY <1>3 DEF w
  <2> QED BY <1>1, <2>1, <2>8, <2>9, PageStep
<1> QED BY <1>2, <1>3, HydrateIs

(* Two places of a list with one thread cannot both be taken from the map; so the *)
(* entry of a thread is the one its own task put there.                           *)
LEMMA AssembleSaves == ASSUME ReadsInv, SavesInv, NEW c \in Calls, Assemble(c) PROVE SavesInv'
<1> DEFINE order == call[c].order
           byId == call[c].byId
           tasks == call[c].tasks
           Fits(i) == Found(c, i) /\ byId[order[i]].outcome.kind = "summary"
           page == [kind |-> "page", items |-> Page(c)]
<1>1. /\ UNCHANGED file /\ call[c].at = "hydrate"
      /\ Reply(c, IF \A i \in DOMAIN order : Fits(i) THEN page ELSE Failed("hydration"))
      /\ \A k \in DOMAIN order : tasks[k].at = "back"
  BY DEF Assemble
<1>2. Collected(call[c]) BY <1>1 DEF SavesInv, PageOk
<1> HIDE DEF page
<1>3. CASE \E i \in DOMAIN order : ~Fits(i)
  <2>1. Reply(c, Failed("hydration")) BY <1>1, <1>3
  <2>2. Failed("hydration").kind = "error" BY DEF Failed
  <2> QED BY <1>1, <2>1, <2>2, QuietReply
<1>4. CASE \A i \in DOMAIN order : Fits(i)
  <2>1. Reply(c, page) BY <1>1, <1>4
  <2> DEFINE w == [call[c] EXCEPT !.at = "done", !.reply = page]
  <2>2. call' = [call EXCEPT ![c] = w] BY <2>1 DEF Reply
  <2>3. call[c] = [at |-> call[c].at, asks |-> call[c].asks, order |-> call[c].order,
                   tasks |-> call[c].tasks, byId |-> call[c].byId, reply |-> call[c].reply]
    BY DEF ReadsInv, Calling, CallShape
  <2> HIDE DEF w
  <2>4. w = [[call[c] EXCEPT !.at = "done"] EXCEPT !.reply = page] BY DEF w
  <2>5. w.at = "done" /\ w.order = order /\ w.tasks = tasks /\ w.reply = page BY <2>3, <2>4
  <2>6. page.kind = "page" /\ page.items = Page(c) BY DEF page
  <2>7. call'[c] = w BY <2>2 DEF ReadsInv, Calling
  <2>8. Page(c) = [i \in DOMAIN order |-> Item(order[i], byId[order[i]])] BY DEF Page
  <2>9. ASSUME NEW i \in DOMAIN order
        PROVE  /\ Page(c)[i] = [thread |-> order[i], snippet |-> i, read |-> tasks[i].got]
               /\ tasks[i].at = "back" /\ tasks[i].got.kind = "summary"
    <3>1. PICK n \in Nat : order \in [1 .. n -> Messages] BY <1>2 DEF Collected
    <3>2. order[i] \in DOMAIN byId BY <1>4 DEF Found
    <3>3. PICK k \in DOMAIN order : order[k] = order[i] /\ byId[order[i]] = [snippet |-> k, outcome |-> tasks[k].got]
      BY <1>2, <3>2 DEF Collected
    <3>4. order[i] \notin {order[j] : j \in 1 .. i - 1} /\ order[k] \notin {order[j] : j \in 1 .. k - 1}
      BY <1>4 DEF Found
    <3>5. i \in 1 .. n /\ k \in 1 .. n BY <3>1
    <3> HIDE DEF order, byId, tasks
    <3>6. k = i BY <3>3, <3>4, <3>5
    <3>7. byId[order[i]].snippet = i /\ byId[order[i]].outcome = tasks[i].got BY <3>3, <3>6
    <3>8. byId[order[i]].outcome.kind = "summary" BY <1>4
    <3>9. Page(c)[i] = Item(order[i], byId[order[i]]) BY <2>8
    <3> QED BY <1>1, <3>7, <3>8, <3>9 DEF Item
  <2>10. DOMAIN Page(c) = DOMAIN order BY <2>8
  <2>11. Paged(w) BY <2>5, <2>6, <2>9, <2>10 DEF Paged
  <2>12. PageOk(w) BY <2>5, <2>11 DEF PageOk
  <2> QED BY <1>1, <2>2, <2>5, <2>6, <2>12, PageStep
<1> QED BY <1>3, <1>4

LEMMA SavesAlways == Spec => []SavesInv
<1>1. ReadsInv /\ SavesInv /\ [Next]_vars => SavesInv'
  <2> SUFFICES ASSUME ReadsInv, SavesInv, [Next]_vars PROVE SavesInv' OBVIOUS
  <2>1. CASE UNCHANGED <<call, file>>
    BY <2>1 DEF SavesInv, OneWriter, FileOk, PageOk, Replied
  <2>2. ASSUME NEW c \in Calls, Step(c) \/ Break(c) PROVE SavesInv'
    BY <2>2, BeginSaves, ReadersSave, DownloadSaves, OpenSaves, WriteSaves, ListSaves, HydrateSaves,
       AssembleSaves
       DEF Step, Save
  <2>3. CASE \E m \in Messages : PurgeBody(m) \/ DropRow(m)
    BY <2>1, <2>3 DEF PurgeBody, DropRow
  <2> QED BY <2>1, <2>2, <2>3 DEF Next, vars
<1> QED BY <1>1, SavesInitially, ReadsAlways, PTL DEF Spec

(* What download_attachment reported as saved stays whole on disk, whoever is     *)
(* sent to the same path: create_new makes every path the property of one call.   *)
THEOREM SavedFilesAreWhole == Spec => []SavedIsWhole
<1>1. SavesInv => SavedIsWhole BY DEF SavesInv, FileOk, SavedIsWhole
<1> QED BY <1>1, SavesAlways, PTL

(* The tasks of search_threads end in any order, fail or panic, and yet a page has *)
(* an item for each place of the list, with its own snippet and what its own task  *)
(* brought; a page that would lack one, or show one twice, is not returned.        *)
THEOREM PagesAreWhole == Spec => []PageInListOrder
<1>1. SavesInv => PageInListOrder BY DEF SavesInv, PageOk, Paged, Replied, PageInListOrder
<1> QED BY <1>1, SavesAlways, PTL

--------------------------------------------------------------------------------
(* The tree of parts *)

AroundUpTo(msg, g, n) ==
  g = [i \in 0 .. n |-> IF i = 0 THEN {} ELSE g[msg[i].within] \cup ({msg[i].within} \ {0})]

Earlier(msg) == \A i \in 1 .. Len(msg) : msg[i].within \in 0 .. i - 1

LEMMA AroundExists ==
  ASSUME NEW msg, Len(msg) \in Nat, Earlier(msg), NEW m \in 0 .. Len(msg)
  PROVE  \E g : AroundUpTo(msg, g, m)
<1> DEFINE T == {n \in 0 .. Len(msg) : \E g : AroundUpTo(msg, g, n)}
<1>1. 0 \in T
  <2>1. AroundUpTo(msg, [i \in 0 .. 0 |-> {}], 0) BY DEF AroundUpTo
  <2> QED BY <2>1
<1>2. ASSUME NEW n \in 0 .. Len(msg) - 1, n \in T PROVE n + 1 \in T
  <2>1. PICK g : AroundUpTo(msg, g, n) BY <1>2
  <2> DEFINE last == g[msg[n + 1].within] \cup ({msg[n + 1].within} \ {0})
             h == [i \in 0 .. n + 1 |-> IF i = n + 1 THEN last ELSE g[i]]
  <2>2. h = [i \in 0 .. n + 1 |-> h[i]] OBVIOUS
  <2>3. h[n + 1] = last /\ \A i \in 0 .. n : h[i] = g[i] OBVIOUS
  <2> HIDE DEF h
  <2>5. ASSUME NEW i \in 0 .. n + 1
        PROVE  h[i] = IF i = 0 THEN {} ELSE h[msg[i].within] \cup ({msg[i].within} \ {0})
    <3>1. i # 0 => msg[i].within \in 0 .. i - 1 BY DEF Earlier
    <3>2. i # 0 => h[msg[i].within] = g[msg[i].within] BY <3>1, <2>3
    <3>3. CASE i = n + 1
      <4>1. i # 0 /\ h[i] = last BY <3>3, <2>3
      <4> QED BY <3>3, <3>2, <4>1
    <3>4. CASE i \in 0 .. n
      <4>1. h[i] = g[i] BY <3>4, <2>3
      <4>2. g[i] = IF i = 0 THEN {} ELSE g[msg[i].within] \cup ({msg[i].within} \ {0})
        BY <2>1, <3>4 DEF AroundUpTo
      <4> QED BY <4>1, <4>2, <3>2
    <3> QED BY <3>3, <3>4
  <2>4. AroundUpTo(msg, h, n + 1) BY <2>2, <2>5 DEF AroundUpTo
  <2> QED BY <2>4
<1> HIDE DEF T
<1>3. 0 .. Len(msg) \subseteq T BY <1>1, <1>2, BoundedInduction
<1> QED BY <1>3 DEF T

LEMMA MessageShape ==
  ASSUME NEW msg, IsMessage(msg)
  PROVE  /\ Len(msg) \in Nat /\ DOMAIN msg = 1 .. Len(msg) /\ Earlier(msg)
         /\ \A i \in 1 .. Len(msg) :
              msg[i] \in [mime : Mimes, name : Names, data : Answers, raw : Contents, within : Nat]
<1> DEFINE S == [mime : Mimes, name : Names, data : Answers, raw : Contents, within : Nat]
<1>1. msg \in Seq(S) BY DEF IsMessage
<1> HIDE DEF S
<1>2. Len(msg) \in Nat /\ DOMAIN msg = 1 .. Len(msg) BY <1>1
<1>3. \A i \in 1 .. Len(msg) : msg[i] \in S BY <1>1, <1>2
<1> USE DEF S
<1>4. \A i \in 1 .. Len(msg) : msg[i].within \in Nat BY <1>3
<1>5. Earlier(msg) BY <1>2, <1>4 DEF Earlier, IsMessage
<1> QED BY <1>2, <1>3, <1>5

(* Enclosing is the function its definition describes.                            *)
LEMMA EnclosingOf ==
  ASSUME NEW msg, Len(msg) \in Nat, Earlier(msg)
  PROVE  /\ Enclosing(msg)[0] = {}
         /\ \A i \in 1 .. Len(msg) :
              Enclosing(msg)[i] = Enclosing(msg)[msg[i].within] \cup ({msg[i].within} \ {0})
<1> DEFINE g == CHOOSE h : AroundUpTo(msg, h, Len(msg))
<1>1. Len(msg) \in Nat OBVIOUS
<1>2. AroundUpTo(msg, g, Len(msg)) BY <1>1, AroundExists
<1>3. Enclosing(msg) = g BY DEF Enclosing, AroundUpTo
<1> HIDE DEF g
<1>4. \A i \in 0 .. Len(msg) : g[i] = IF i = 0 THEN {} ELSE g[msg[i].within] \cup ({msg[i].within} \ {0})
  BY <1>2 DEF AroundUpTo
<1>5. g[0] = {}
  <2>1. 0 \in 0 .. Len(msg) BY <1>1
  <2> QED BY <2>1, <1>4
<1>6. ASSUME NEW i \in 1 .. Len(msg) PROVE g[i] = g[msg[i].within] \cup ({msg[i].within} \ {0})
  <2>1. i \in 0 .. Len(msg) /\ i # 0 BY <1>1
  <2> QED BY <2>1, <1>4
<1> QED BY <1>3, <1>5, <1>6

LEMMA EnclosingIs ==
  ASSUME NEW msg, IsMessage(msg)
  PROVE  /\ Enclosing(msg)[0] = {}
         /\ \A i \in 1 .. Len(msg) :
              Enclosing(msg)[i] = Enclosing(msg)[msg[i].within] \cup ({msg[i].within} \ {0})
BY EnclosingOf, MessageShape

(* The parts around a part come before it, are around each other in order, and    *)
(* can hold parts.                                                                *)
NestsUpTo(msg, i) ==
  /\ Enclosing(msg)[i] \subseteq 1 .. i - 1
  /\ \A j \in Enclosing(msg)[i] : Enclosing(msg)[j] \subseteq Enclosing(msg)[i]
  /\ \A j, k \in Enclosing(msg)[i] : j < k => j \in Enclosing(msg)[k]
  /\ \A j \in Enclosing(msg)[i] : msg[j].mime \in {"multipart", "rfc822"}

LEMMA Nesting ==
  ASSUME NEW msg, IsMessage(msg)
  PROVE  \A i \in 0 .. Len(msg) : NestsUpTo(msg, i)
<1> DEFINE E == Enclosing(msg)
           T == {i \in 0 .. Len(msg) : NestsUpTo(msg, i)}
<1>1. Len(msg) \in Nat BY MessageShape
<1>2. ASSUME NEW i \in 0 .. Len(msg), 0 .. i - 1 \subseteq T PROVE i \in T
  <2>1. CASE i = 0
    <3>1. E[0] = {} BY EnclosingIs
    <3> QED BY <2>1, <3>1 DEF NestsUpTo
  <2>2. CASE i # 0
    <3> DEFINE w == msg[i].within
    <3>1. i \in 1 .. Len(msg) BY <2>2
    <3>2. w \in 0 .. i - 1 BY <3>1, MessageShape DEF Earlier
    <3>3. E[i] = E[w] \cup ({w} \ {0}) BY <3>1, EnclosingIs
    <3>4. NestsUpTo(msg, w) BY <1>2, <3>2
    <3> HIDE DEF w
    <3>5. E[i] \subseteq 1 .. i - 1 BY <3>2, <3>3, <3>4 DEF NestsUpTo
    <3>6. ASSUME NEW j \in E[i] PROVE E[j] \subseteq E[i] BY <3>3, <3>4 DEF NestsUpTo
    <3>7. ASSUME NEW j \in E[i], NEW k \in E[i], j < k PROVE j \in E[k]
      <4>0. E[w] \subseteq 1 .. w - 1 BY <3>4 DEF NestsUpTo
      <4>1. CASE k = w BY <4>1, <3>7, <3>3, <3>5
      <4>2. CASE k \in E[w]
        <5>1. k < w BY <4>0, <4>2, <3>2
        <5>2. j # w BY <5>1, <3>7, <3>2, <3>5
        <5>3. j \in E[w] BY <5>2, <3>3
        <5> QED BY <5>3, <4>2, <3>7, <3>4 DEF NestsUpTo
      <4> QED BY <4>1, <4>2, <3>3
    <3>8. ASSUME NEW j \in E[i] PROVE msg[j].mime \in {"multipart", "rfc822"}
      <4>1. w # 0 => msg[w].mime \in {"multipart", "rfc822"} BY <3>1, MessageShape DEF IsMessage, w
      <4> QED BY <4>1, <3>3, <3>4 DEF NestsUpTo
    <3> QED BY <3>5, <3>6, <3>7, <3>8 DEF NestsUpTo
  <2> QED BY <2>1, <2>2
<1> HIDE DEF T
<1>3. 0 .. Len(msg) \subseteq T BY <1>1, <1>2, StrongInduction
<1> QED BY <1>3 DEF T

(* What a part holds follows it without a gap.                                    *)
LEMMA Contiguous ==
  ASSUME NEW msg, IsMessage(msg), NEW p \in Nat
  PROVE  \A i \in 0 .. Len(msg) : p \in Enclosing(msg)[i] => \A j \in p + 1 .. i : p \in Enclosing(msg)[j]
<1> DEFINE E == Enclosing(msg)
           T == {i \in 0 .. Len(msg) : p \in E[i] => \A j \in p + 1 .. i : p \in E[j]}
<1>1. Len(msg) \in Nat BY MessageShape
<1>2. ASSUME NEW i \in 0 .. Len(msg), 0 .. i - 1 \subseteq T PROVE i \in T
  <2> SUFFICES ASSUME p \in E[i], NEW j \in p + 1 .. i PROVE p \in E[j] OBVIOUS
  <2>1. i \in 1 .. Len(msg) BY EnclosingIs
  <2> DEFINE w == msg[i].within
  <2>2. E[i] = E[w] \cup ({w} \ {0}) BY <2>1, EnclosingIs
  <2>3. w # 0 => w = i - 1 \/ w \in E[i - 1] BY <2>1, MessageShape DEF IsMessage
  <2>4. w \in 0 .. i - 1 BY <2>1, MessageShape DEF Earlier
  <2>5. i - 1 \in 0 .. Len(msg) /\ NestsUpTo(msg, i - 1) BY <2>1, <1>1, Nesting
  <2> HIDE DEF w
  <2>6. w # 0 BY <2>2, EnclosingIs
  <2>7. p = i - 1 \/ p \in E[i - 1] BY <2>2, <2>3, <2>5, <2>6 DEF NestsUpTo
  <2>8. CASE j = i BY <2>8
  <2>9. CASE j \in p + 1 .. i - 1
    <3>1. p \in E[i - 1] BY <2>7, <2>9
    <3>2. i - 1 \in T BY <1>2, <2>1
    <3> QED BY <3>1, <3>2, <2>9
  <2> QED BY <2>8, <2>9
<1> HIDE DEF T
<1>3. 0 .. Len(msg) \subseteq T BY <1>1, <1>2, StrongInduction
<1> QED BY <1>3 DEF T

--------------------------------------------------------------------------------
(* The attached messages around a part *)

(* i is an attached message in the tree of the one at `top`: it and all attached  *)
(* messages between them parse.                                                   *)
Unfolds(msg, top, i) ==
  /\ i \in DOMAIN msg /\ msg[i].mime = "rfc822" /\ top \in Chain(msg, top, i)
  /\ \A j \in Chain(msg, top, i) : Readable(msg[j])

Depth(msg, top, i) == Cardinality(Chain(msg, top, i))

Attached(msg, top) == top \in DOMAIN msg /\ msg[top].mime = "rfc822" /\ Readable(msg[top])

LEMMA ChainIsFinite ==
  ASSUME NEW msg, IsMessage(msg), NEW top, NEW i \in 1 .. Len(msg)
  PROVE  /\ IsFiniteSet(Chain(msg, top, i)) /\ Chain(msg, top, i) \subseteq 1 .. i
         /\ Depth(msg, top, i) \in Nat
<1>1. i \in Nat /\ NestsUpTo(msg, i) BY MessageShape, Nesting
<1>2. Chain(msg, top, i) \subseteq 1 .. i BY <1>1 DEF Chain, NestsUpTo
<1>3. IsFiniteSet(1 .. i) BY <1>1, FS_Interval
<1>4. IsFiniteSet(Chain(msg, top, i)) BY <1>2, <1>3, FS_Subset
<1> QED BY <1>2, <1>4, FS_CardinalityType DEF Depth

(* The outermost message is alone in its chain, and no other message is.          *)
LEMMA ChainOfTop ==
  ASSUME NEW msg, IsMessage(msg), NEW top, Attached(msg, top)
  PROVE  Chain(msg, top, top) = {top} /\ Depth(msg, top, top) = 1 /\ Unfolds(msg, top, top)
<1> DEFINE E == Enclosing(msg)
<1>1. top \in 1 .. Len(msg) /\ Len(msg) \in Nat BY MessageShape DEF Attached
<1>2. ASSUME NEW j \in E[top], top \in E[j] PROVE FALSE
  <2>1. j \in 1 .. top - 1 BY <1>1, Nesting DEF NestsUpTo
  <2>2. top \in 1 .. j - 1 BY <1>1, <1>2, <2>1, Nesting DEF NestsUpTo
  <2> QED BY <2>1, <2>2
<1>3. top \notin E[top] BY <1>1, Nesting DEF NestsUpTo
<1>4. Chain(msg, top, top) = {top} BY <1>2, <1>3 DEF Chain, Attached
<1> QED BY <1>4, FS_Singleton DEF Depth, Unfolds, Attached

LEMMA AloneIsTop ==
  ASSUME NEW msg, IsMessage(msg), NEW top, NEW i, Unfolds(msg, top, i), Depth(msg, top, i) = 1
  PROVE  i = top
<1>1. i \in 1 .. Len(msg) BY MessageShape DEF Unfolds
<1>2. i \in Chain(msg, top, i) /\ top \in Chain(msg, top, i) BY DEF Unfolds, Chain
<1>3. PICK x : Chain(msg, top, i) = {x} BY <1>1, ChainIsFinite, FS_Singleton DEF Depth
<1> QED BY <1>2, <1>3

(* A message directly inside another has one more message around it.              *)
LEMMA DirectIsDeeper ==
  ASSUME NEW msg, IsMessage(msg), NEW top, NEW h, NEW i,
         Unfolds(msg, top, h), i \in DirectRfc822(msg, h)
  PROVE  Unfolds(msg, top, i) /\ Depth(msg, top, i) = Depth(msg, top, h) + 1
<1> DEFINE E == Enclosing(msg)
<1>1. h \in 1 .. Len(msg) /\ Len(msg) \in Nat BY MessageShape DEF Unfolds
<1>2. i \in 1 .. Len(msg) /\ msg[i].mime = "rfc822" /\ Readable(msg[i])
  BY MessageShape DEF DirectRfc822, Level
<1>3. h \in E[i] /\ \A j \in E[i] \ {h} : msg[j].mime = "rfc822" => j \in E[h]
  BY <1>1 DEF DirectRfc822, Level
<1>4. NestsUpTo(msg, i) /\ NestsUpTo(msg, h) BY <1>1, <1>2, Nesting
<1>5. E[h] \subseteq E[i] BY <1>3, <1>4 DEF NestsUpTo
<1>6. top \in E[i] BY <1>3, <1>5 DEF Unfolds, Chain
<1>7. Chain(msg, top, i) = Chain(msg, top, h) \cup {i} BY <1>2, <1>3, <1>5, <1>6 DEF Chain
<1>8. i \notin Chain(msg, top, h)
  <2>1. i \notin E[i] BY <1>2, <1>4 DEF NestsUpTo
  <2> QED BY <2>1, <1>3, <1>5 DEF Chain
<1>9. Depth(msg, top, i) = Depth(msg, top, h) + 1
  BY <1>1, <1>7, <1>8, ChainIsFinite, FS_AddElement DEF Depth
<1>10. Unfolds(msg, top, i) BY <1>2, <1>7, MessageShape DEF Unfolds
<1> QED BY <1>9, <1>10

(* Every message in the tree but the outermost is directly inside another one.    *)
LEMMA DeeperIsDirect ==
  ASSUME NEW msg, IsMessage(msg), NEW top, NEW i, Unfolds(msg, top, i), i # top
  PROVE  \E h : Unfolds(msg, top, h) /\ i \in DirectRfc822(msg, h)
<1> DEFINE E == Enclosing(msg)
           C == Chain(msg, top, i) \ {i}
<1>1. i \in 1 .. Len(msg) /\ Len(msg) \in Nat BY MessageShape DEF Unfolds
<1>2. NestsUpTo(msg, i) BY <1>1, Nesting
<1>3. top \in C BY DEF Unfolds
<1>4. C \subseteq E[i] /\ E[i] \subseteq 1 .. i - 1 BY <1>2 DEF Chain, NestsUpTo
<1>5. PICK h \in C : \A j \in C : j <= h
  <2>1. C \in SUBSET (0 .. i) /\ C # {} BY <1>1, <1>3, <1>4
  <2>2. i \in Nat BY <1>1
  <2> HIDE DEF C
  <2> QED BY <2>1, <2>2, GreatestNumber
<1>6. h \in E[i] /\ h \in 1 .. Len(msg) /\ msg[h].mime = "rfc822" /\ (h = top \/ top \in E[h])
  BY <1>1, <1>4, <1>5 DEF Chain
<1>7. E[h] \subseteq E[i] BY <1>2, <1>6 DEF NestsUpTo
<1>8. Chain(msg, top, h) \subseteq Chain(msg, top, i) BY <1>6, <1>7 DEF Chain
<1>9. Unfolds(msg, top, h)
  <2>1. top \in Chain(msg, top, h)
    <3>1. msg[top].mime = "rfc822" BY DEF Unfolds, Chain
    <3> QED BY <3>1, <1>6 DEF Chain
  <2> QED BY <2>1, <1>6, <1>8, MessageShape DEF Unfolds
<1>10. ASSUME NEW j \in E[i] \ {h}, msg[j].mime = "rfc822" PROVE j \in E[h]
  <2>1. j < h \/ h < j BY <1>4, <1>6
  <2>2. CASE j < h BY <2>2, <1>2, <1>6 DEF NestsUpTo
  <2>3. CASE h < j
    <3>1. h \in E[j] BY <2>3, <1>2, <1>6 DEF NestsUpTo
    <3>2. NestsUpTo(msg, j) BY <1>1, <1>4, Nesting
    <3>3. top \in E[j] BY <3>1, <3>2, <1>6 DEF NestsUpTo
    <3>4. j \in C BY <3>3, <1>10, <1>4, <1>1 DEF Chain
    <3> QED BY <3>4, <1>5, <2>3, <1>4
  <2> QED BY <2>1, <2>2, <2>3
<1>11. i \in DirectRfc822(msg, h)
  <2>1. msg[i].mime = "rfc822" /\ Readable(msg[i])
    BY DEF Unfolds, Chain
  <2>2. h # 0 BY <1>6
  <2> QED BY <2>1, <2>2, <1>1, <1>6, <1>10, MessageShape DEF DirectRfc822, Level
<1> QED BY <1>9, <1>11

--------------------------------------------------------------------------------
(* The levels of build_forwarded *)

LevelsUpTo(msg, top, f, n) ==
  f = [k \in 1 .. n |-> IF k = 1 THEN {top} ELSE UNION {DirectRfc822(msg, i) : i \in f[k - 1]}]

LEMMA LevelsExist == ASSUME NEW msg, NEW top, NEW m \in Nat PROVE \E f : LevelsUpTo(msg, top, f, m)
<1> DEFINE T == {n \in Nat : \E f : LevelsUpTo(msg, top, f, n)}
<1>1. 0 \in T
  <2>1. LevelsUpTo(msg, top, [k \in 1 .. 0 |-> {}], 0) BY DEF LevelsUpTo
  <2> QED BY <2>1
<1>2. ASSUME NEW n \in Nat, n \in T PROVE n + 1 \in T
  <2>1. PICK f : LevelsUpTo(msg, top, f, n) BY <1>2
  <2> DEFINE last == IF n + 1 = 1 THEN {top} ELSE UNION {DirectRfc822(msg, i) : i \in f[n]}
             h == [k \in 1 .. n + 1 |-> IF k = n + 1 THEN last ELSE f[k]]
  <2>2. h = [k \in 1 .. n + 1 |-> h[k]] OBVIOUS
  <2>3. h[n + 1] = last /\ \A k \in 1 .. n : h[k] = f[k] OBVIOUS
  <2> HIDE DEF h
  <2>4. ASSUME NEW k \in 1 .. n + 1
        PROVE  h[k] = IF k = 1 THEN {top} ELSE UNION {DirectRfc822(msg, i) : i \in h[k - 1]}
    <3>1. CASE k = n + 1
      <4>1. k # 1 => h[k - 1] = f[n] BY <3>1, <2>3
      <4> QED BY <3>1, <4>1, <2>3
    <3>2. CASE k \in 1 .. n
      <4>1. h[k] = f[k] /\ (k # 1 => h[k - 1] = f[k - 1]) BY <3>2, <2>3
      <4>2. f[k] = IF k = 1 THEN {top} ELSE UNION {DirectRfc822(msg, i) : i \in f[k - 1]}
        BY <2>1, <3>2 DEF LevelsUpTo
      <4> QED BY <4>1, <4>2
    <3> QED BY <3>1, <3>2
  <2>5. LevelsUpTo(msg, top, h, n + 1) BY <2>2, <2>4 DEF LevelsUpTo
  <2> QED BY <2>5
<1> HIDE DEF T
<1>3. Nat \subseteq T BY <1>1, <1>2, SetInduction
<1> QED BY <1>3 DEF T

(* A level holds the messages that lie that deep.                                 *)
LEMMA LevelsAreDepths ==
  ASSUME NEW msg, IsMessage(msg), NEW top, Attached(msg, top), NEW m \in Nat,
         NEW f, LevelsUpTo(msg, top, f, m)
  PROVE  \A k \in 1 .. m : \A i : i \in f[k] <=> Unfolds(msg, top, i) /\ Depth(msg, top, i) = k
<1> DEFINE Right(k) == \A i : i \in f[k] <=> Unfolds(msg, top, i) /\ Depth(msg, top, i) = k
           T == {n \in 0 .. m : n # 0 => Right(n)}
<1>1. 0 \in T OBVIOUS
<1>2. \A k \in 1 .. m : f[k] = IF k = 1 THEN {top} ELSE UNION {DirectRfc822(msg, i) : i \in f[k - 1]}
  BY DEF LevelsUpTo
<1>3. ASSUME NEW n \in 0 .. m - 1, n \in T PROVE n + 1 \in T
  <2>1. CASE n = 0
    <3>0. 1 \in 1 .. m BY <2>1
    <3>1. f[1] = {top} BY <3>0, <1>2
    <3>2. Right(1) BY <3>1, ChainOfTop, AloneIsTop
    <3> QED BY <2>1, <3>2
  <2>2. CASE n # 0
    <3>1. Right(n) BY <2>2, <1>3
    <3>2. f[n + 1] = UNION {DirectRfc822(msg, i) : i \in f[n]}
      <4>1. n + 1 \in 1 .. m /\ n + 1 # 1 /\ (n + 1) - 1 = n BY <2>2
      <4> QED BY <4>1, <1>2
    <3>3. ASSUME NEW i \in f[n + 1] PROVE Unfolds(msg, top, i) /\ Depth(msg, top, i) = n + 1
      <4>1. PICK h \in f[n] : i \in DirectRfc822(msg, h) BY <3>2
      <4> QED BY <4>1, <3>1, DirectIsDeeper
    <3>4. ASSUME NEW i, Unfolds(msg, top, i), Depth(msg, top, i) = n + 1 PROVE i \in f[n + 1]
      <4>1. i # top BY <3>4, <2>2, ChainOfTop
      <4>2. PICK h : Unfolds(msg, top, h) /\ i \in DirectRfc822(msg, h) BY <3>4, <4>1, DeeperIsDirect
      <4>3. Depth(msg, top, i) = Depth(msg, top, h) + 1 BY <4>2, DirectIsDeeper
      <4>4. Depth(msg, top, h) \in Nat BY <4>2, ChainIsFinite, MessageShape DEF Unfolds
      <4>5. Depth(msg, top, h) = n BY <4>3, <4>4, <3>4
      <4>6. h \in f[n] BY <4>5, <4>2, <3>1
      <4> QED BY <4>6, <4>2, <3>2
    <3> QED BY <3>3, <3>4
  <2> QED BY <2>1, <2>2
<1> HIDE DEF T
<1>4. 0 .. m \subseteq T BY <1>1, <1>3, BoundedInduction
<1> QED BY <1>4 DEF T

Node(msg, k, i) ==
  [depth |-> k, part |-> i, body |-> LevelBody(msg, i), attachments |-> LevelAttachments(msg, i)]

(* The tree: one node for each attached message that parses, at its depth.        *)
LEMMA ForwardedIs ==
  ASSUME NEW msg, IsMessage(msg), NEW top, Attached(msg, top), NEW m \in Nat
  PROVE  \A node : node \in Forwarded(msg, top, m) <=>
           \E i \in DOMAIN msg : /\ Unfolds(msg, top, i) /\ Depth(msg, top, i) <= m
                                 /\ node = Node(msg, Depth(msg, top, i), i)
<1> DEFINE f == CHOOSE g : LevelsUpTo(msg, top, g, m)
<1>1. LevelsUpTo(msg, top, f, m) BY LevelsExist
<1>2. Forwarded(msg, top, m) = UNION {{Node(msg, k, i) : i \in f[k]} : k \in 1 .. m}
  BY DEF Forwarded, LevelsUpTo, Node
<1> HIDE DEF f
<1>3. \A k \in 1 .. m : \A i : i \in f[k] <=> Unfolds(msg, top, i) /\ Depth(msg, top, i) = k
  BY <1>1, LevelsAreDepths
<1>4. ASSUME NEW i, Unfolds(msg, top, i) PROVE Depth(msg, top, i) \in Nat /\ Depth(msg, top, i) # 0
  <2>1. i \in 1 .. Len(msg) BY <1>4, MessageShape DEF Unfolds
  <2>2. top \in Chain(msg, top, i) BY <1>4 DEF Unfolds
  <2> QED BY <2>1, <2>2, ChainIsFinite, FS_EmptySet DEF Depth
<1>5. ASSUME NEW node \in Forwarded(msg, top, m)
      PROVE  \E i \in DOMAIN msg : /\ Unfolds(msg, top, i) /\ Depth(msg, top, i) <= m
                                   /\ node = Node(msg, Depth(msg, top, i), i)
  <2>1. PICK k \in 1 .. m : node \in {Node(msg, k, i) : i \in f[k]} BY <1>2
  <2>2. PICK i \in f[k] : node = Node(msg, k, i) BY <2>1
  <2>3. Unfolds(msg, top, i) /\ Depth(msg, top, i) = k BY <2>2, <1>3
  <2> QED BY <2>2, <2>3 DEF Unfolds
<1>6. ASSUME NEW i \in DOMAIN msg, Unfolds(msg, top, i), Depth(msg, top, i) <= m
      PROVE  Node(msg, Depth(msg, top, i), i) \in Forwarded(msg, top, m)
  <2> DEFINE k == Depth(msg, top, i)
  <2>1. k \in 1 .. m BY <1>4, <1>6
  <2>2. i \in f[k] BY <2>1, <1>3, <1>6
  <2> QED BY <2>1, <2>2, <1>2
<1> QED BY <1>5, <1>6

--------------------------------------------------------------------------------
(* Calls that unfold a forwarded message *)

Unfolding == "parse_forwarded_attachment"

IsForward(msg, part) == FindAttachmentMimeType(msg, part) = "rfc822"

Tree(msg, asked) == Forwarded(msg, asked.part, ResolveMaxDepth(asked.depth, asked.ceiling))

(* What is downloaded to be unfolded is an attached message, and a reply that     *)
(* unfolds one is its tree.                                                       *)
UnfoldOk(c) ==
  /\ call[c].at = "download" /\ call[c].asks.tool = Unfolding => IsForward(Msg(c), call[c].asks.part)
  /\ Replied(c, "forwarded") =>
       /\ call[c].asks \in Plans[c] /\ call[c].asks.tool = Unfolding
       /\ IsForward(Msg(c), call[c].asks.part) /\ Readable(Msg(c)[call[c].asks.part])
       /\ call[c].reply.tree = Tree(Msg(c), call[c].asks)

UnfoldInv == mail \in Mail /\ \A c \in Calls : UnfoldOk(c)

LEMMA UnfoldStep ==
  ASSUME ReadsInv, UnfoldInv, NEW c \in Calls, NEW w, mail' = mail,
         call' = [call EXCEPT ![c] = w],
         w.at = "download" /\ w.asks.tool = Unfolding => IsForward(mail[w.asks.msg], w.asks.part),
         w.reply.kind = "forwarded" =>
           /\ w.asks \in Plans[c] /\ w.asks.tool = Unfolding
           /\ IsForward(mail[w.asks.msg], w.asks.part) /\ Readable(mail[w.asks.msg][w.asks.part])
           /\ w.reply.tree = Tree(mail[w.asks.msg], w.asks)
  PROVE  UnfoldInv'
<1>1. call'[c] = w BY DEF ReadsInv, Calling
<1>2. ASSUME NEW d \in Calls, d # c PROVE call'[d] = call[d] BY <1>2 DEF ReadsInv, Calling
<1>3. ASSUME NEW d \in Calls PROVE UnfoldOk(d)'
  <2>1. CASE d = c BY <2>1, <1>1 DEF UnfoldOk, Replied, Msg
  <2>2. CASE d # c BY <2>2, <1>2 DEF UnfoldOk, Replied, Msg, UnfoldInv
  <2> QED BY <2>1, <2>2
<1> QED BY <1>3 DEF UnfoldInv

LEMMA UnfoldReply ==
  ASSUME ReadsInv, UnfoldInv, NEW c \in Calls, NEW r, mail' = mail, Reply(c, r),
         r.kind = "forwarded" =>
           /\ call[c].asks \in Plans[c] /\ call[c].asks.tool = Unfolding
           /\ IsForward(Msg(c), call[c].asks.part) /\ Readable(Msg(c)[call[c].asks.part])
           /\ r.tree = Tree(Msg(c), call[c].asks)
  PROVE  UnfoldInv'
<1> DEFINE w == [call[c] EXCEPT !.at = "done", !.reply = r]
<1>1. call[c] = [at |-> call[c].at, asks |-> call[c].asks, order |-> call[c].order,
                 tasks |-> call[c].tasks, byId |-> call[c].byId, reply |-> call[c].reply]
  BY DEF ReadsInv, Calling, CallShape
<1>2. call' = [call EXCEPT ![c] = w] BY DEF Reply
<1> HIDE DEF w
<1>3. w = [[call[c] EXCEPT !.at = "done"] EXCEPT !.reply = r] BY DEF w
<1>4. w.at = "done" /\ w.reply = r /\ w.asks = call[c].asks BY <1>1, <1>3
<1> QED BY <1>2, <1>4, UnfoldStep DEF Msg

LEMMA UnfoldGoTo ==
  ASSUME ReadsInv, UnfoldInv, NEW c \in Calls, NEW at, mail' = mail, GoTo(c, at), call[c].at # "done",
         at = "download" /\ call[c].asks.tool = Unfolding => IsForward(Msg(c), call[c].asks.part)
  PROVE  UnfoldInv'
<1> DEFINE w == [call[c] EXCEPT !.at = at]
<1>1. call[c] = [at |-> call[c].at, asks |-> call[c].asks, order |-> call[c].order,
                 tasks |-> call[c].tasks, byId |-> call[c].byId, reply |-> call[c].reply]
  BY DEF ReadsInv, Calling, CallShape
<1>2. call' = [call EXCEPT ![c] = w] BY DEF GoTo
<1>3. call[c].reply.kind = "none" BY DEF ReadsInv, Calling, CallShape, NoReply
<1>4. w.at = at /\ w.reply.kind = "none" /\ w.asks = call[c].asks BY <1>1, <1>3
<1> HIDE DEF w
<1> QED BY <1>2, <1>4, UnfoldStep DEF Msg

LEMMA BeginUnfolds == ASSUME ReadsInv, UnfoldInv, NEW c \in Calls, Begin(c) PROVE UnfoldInv'
<1>1. PICK asked \in Plans[c] :
        call' = [call EXCEPT ![c].asks = asked,
                             ![c].at = IF asked.tool = "search_threads" THEN "list"
                                       ELSE IF asked.tool = "download_attachment" THEN "download"
                                       ELSE IF caching /\ asked.tool \in CachedTools THEN "lookup" ELSE "fetch"]
  BY DEF Begin
<1> DEFINE at == IF asked.tool = "search_threads" THEN "list"
                 ELSE IF asked.tool = "download_attachment" THEN "download"
                 ELSE IF caching /\ asked.tool \in CachedTools THEN "lookup" ELSE "fetch"
           v == [call[c] EXCEPT !.asks = asked, !.at = at]
<1>2. call' = [call EXCEPT ![c] = v] BY <1>1
<1>3. at = "download" => asked.tool # Unfolding BY DEF Unfolding
<1>4. call[c] = [at |-> call[c].at, asks |-> call[c].asks, order |-> call[c].order,
                 tasks |-> call[c].tasks, byId |-> call[c].byId, reply |-> call[c].reply]
  BY DEF ReadsInv, Calling, CallShape
<1>5. call[c].reply.kind = "none" BY DEF ReadsInv, Calling, CallShape, NoReply, Begin
<1> HIDE DEF at, v
<1>6. v = [[call[c] EXCEPT !.asks = asked] EXCEPT !.at = at] BY DEF v
<1>7. v.at = at /\ v.reply.kind = "none" /\ v.asks = asked BY <1>4, <1>5, <1>6
<1> QED BY <1>2, <1>3, <1>7, UnfoldStep DEF Begin, mailVars

LEMMA OthersUnfold ==
  ASSUME ReadsInv, UnfoldInv, NEW c \in Calls,
         \/ HitThread(c) \/ HitSummary(c) \/ HitBodies(c) \/ Miss(c) \/ FetchThread(c) \/ FetchSummary(c)
         \/ StoreThread(c) \/ StoreSummary(c) \/ FetchMessage(c) \/ FetchBodies(c) \/ FetchLabels(c)
         \/ Break(c) \/ Save(c) \/ Assemble(c)
  PROVE  UnfoldInv'
<1> DEFINE Other(r) == r.kind # "forwarded"
<1>1. /\ \A b, a : Other(Thread(b, a))
      /\ \A i : Other(Summary(i))
      /\ \A b, want : Other(Bodies(b, want))
      /\ \A why : Other(Failed(why))
      /\ Other([kind |-> "labels"])
      /\ \A p, i : Other([kind |-> "saved", path |-> p, part |-> i])
      /\ \A items : Other([kind |-> "page", items |-> items])
  BY DEF Thread, Summary, Bodies, Failed
<1>2. ASSUME \E r : Reply(c, r) /\ Other(r), mail' = mail PROVE UnfoldInv'
  BY <1>2, UnfoldReply
<1>3. ASSUME NEW at \in {"fetch", "store", "write"}, GoTo(c, at), mail' = mail, call[c].at # "done"
      PROVE  UnfoldInv'
  BY <1>3, UnfoldGoTo
<1> HIDE DEF Other
<1>4. CASE HitThread(c) BY <1>1, <1>2, <1>4 DEF HitThread, mailVars
<1>5. CASE HitSummary(c) BY <1>1, <1>2, <1>5 DEF HitSummary, mailVars
<1>6. CASE HitBodies(c) BY <1>1, <1>2, <1>6 DEF HitBodies, mailVars
<1>7. CASE Miss(c) BY <1>3, <1>7 DEF Miss, mailVars
<1>8. CASE FetchThread(c) BY <1>1, <1>2, <1>3, <1>8 DEF FetchThread, mailVars
<1>9. CASE FetchSummary(c) BY <1>1, <1>2, <1>3, <1>9 DEF FetchSummary, mailVars
<1>10. CASE StoreThread(c) BY <1>1, <1>2, <1>10 DEF StoreThread, mailVars
<1>11. CASE StoreSummary(c) BY <1>1, <1>2, <1>11 DEF StoreSummary, mailVars
<1>12. CASE FetchMessage(c) BY <1>1, <1>2, <1>12 DEF FetchMessage, mailVars
<1>13. CASE FetchBodies(c) BY <1>1, <1>2, <1>13 DEF FetchBodies, mailVars
<1>14. CASE FetchLabels(c) BY <1>1, <1>2, <1>14 DEF FetchLabels, mailVars
<1>15. CASE Break(c) BY <1>1, <1>2, <1>15 DEF Break, mailVars
<1>16. CASE Save(c) BY <1>1, <1>2, <1>3, <1>16 DEF Save, OpenFile, WriteFile, mailVars
<1>17. CASE Assemble(c) BY <1>1, <1>2, <1>17 DEF Assemble, mailVars
<1> QED BY <1>4, <1>5, <1>6, <1>7, <1>8, <1>9, <1>10, <1>11, <1>12, <1>13, <1>14, <1>15, <1>16, <1>17

LEMMA FetchUnfolds == ASSUME ReadsInv, UnfoldInv, NEW c \in Calls, FetchForwarded(c) PROVE UnfoldInv'
<1>1. mail' = mail /\ call[c].at = "fetch" BY DEF FetchForwarded, mailVars
<1>2. \/ GoTo(c, "download") /\ IsForward(Msg(c), call[c].asks.part)
      \/ \E why : Reply(c, Failed(why))
  BY DEF FetchForwarded, IsForward
<1>3. \A why : Failed(why).kind = "error" BY DEF Failed
<1> QED BY <1>1, <1>2, <1>3, UnfoldGoTo, UnfoldReply

LEMMA DownloadUnfolds == ASSUME ReadsInv, UnfoldInv, NEW c \in Calls, Download(c) PROVE UnfoldInv'
<1> DEFINE asked == call[c].asks
           tree == [kind |-> "forwarded",
                    tree |-> Forwarded(Msg(c), asked.part, ResolveMaxDepth(asked.depth, asked.ceiling))]
           data == [kind |-> "data", part |-> asked.part]
<1>1. mail' = mail /\ call[c].at = "download" /\ asked \in Plans[c]
  BY DEF Download, mailVars, ReadsInv, Calling, CallShape
<1>2. \/ \E why : Reply(c, Failed(why))
      \/ Reply(c, tree) /\ asked.tool = Unfolding /\ Readable(Msg(c)[asked.part])
      \/ Reply(c, data)
      \/ GoTo(c, "open")
  BY DEF Download, Unfolding
<1>3. /\ \A why : Failed(why).kind = "error" /\ data.kind = "data" BY DEF Failed
<1>4. tree.kind = "forwarded" /\ tree.tree = Tree(Msg(c), asked) BY DEF Tree
<1>5. asked.tool = Unfolding => IsForward(Msg(c), asked.part) BY <1>1 DEF UnfoldInv, UnfoldOk
<1> HIDE DEF tree, data
<1>6. CASE \E why : Reply(c, Failed(why)) BY <1>1, <1>3, <1>6, UnfoldReply
<1>7. CASE Reply(c, tree) /\ asked.tool = Unfolding /\ Readable(Msg(c)[asked.part])
  BY <1>1, <1>4, <1>5, <1>7, UnfoldReply
<1>8. CASE Reply(c, data) BY <1>1, <1>3, <1>8, UnfoldReply
<1>9. CASE GoTo(c, "open") BY <1>1, <1>9, UnfoldGoTo
<1> QED BY <1>2, <1>6, <1>7, <1>8, <1>9

LEMMA SearchUnfolds == ASSUME ReadsInv, UnfoldInv, NEW c \in Calls, List(c) \/ Hydrate(c) PROVE UnfoldInv'
<1>1. mail' = mail
  BY DEF List, Hydrate, TaskHit, TaskMiss, TaskFetch, TaskStore, TaskBreaks, TaskPanics, mailVars
<1>2. CASE Reply(c, Failed("panicked"))
  <2>1. Failed("panicked").kind = "error" BY DEF Failed
  <2> QED BY <1>1, <1>2, <2>1, UnfoldReply
<1>3. CASE \E w : /\ call' = [call EXCEPT ![c] = w]
                  /\ w.at \in {"hydrate", "done"} /\ w.reply.kind # "forwarded"
  BY <1>1, <1>3, UnfoldStep
<1>4. CASE List(c)
  <2>1. \E w : /\ call' = [call EXCEPT ![c] = w]
               /\ w.at \in {"hydrate", "done"} /\ w.reply.kind \in {"page", "none"}
    <3>1. PICK n \in Nat : \E listed, w :
             /\ call' = [call EXCEPT ![c] = w]
             /\ w = [at |-> IF n = 0 THEN "done" ELSE "hydrate", asks |-> call[c].asks, order |-> listed,
                     tasks |-> NewTasks(listed), byId |-> <<>>,
                     reply |-> IF n = 0 THEN [kind |-> "page", items |-> <<>>] ELSE NoReply]
      BY <1>4, ListIs
    <3>2. PICK listed, w :
             /\ call' = [call EXCEPT ![c] = w]
             /\ w = [at |-> IF n = 0 THEN "done" ELSE "hydrate", asks |-> call[c].asks, order |-> listed,
                     tasks |-> NewTasks(listed), byId |-> <<>>,
                     reply |-> IF n = 0 THEN [kind |-> "page", items |-> <<>>] ELSE NoReply]
      BY <3>1
    <3>3. w.at \in {"hydrate", "done"} /\ w.reply.kind \in {"page", "none"} BY <3>2 DEF NoReply
    <3> QED BY <3>2, <3>3
  <2> QED BY <2>1, <1>3
<1>5. CASE Hydrate(c)
  <2>1. ASSUME NEW tasks, NEW byId
        PROVE  Hydrating(c, tasks, byId).at = "hydrate" /\ Hydrating(c, tasks, byId).reply.kind = "none"
    BY DEF Hydrating, NoReply
  <2> QED BY <1>2, <1>3, <1>5, <2>1, HydrateIs
<1> QED BY <1>4, <1>5

LEMMA UnfoldsAlways == Spec => []UnfoldInv
<1>1. Init => UnfoldInv
  <2> SUFFICES ASSUME Init PROVE UnfoldInv OBVIOUS
  <2>1. \A c \in Calls : call[c].at = "idle" /\ call[c].reply.kind = "none" BY DEF Init, NoReply
  <2> QED BY <2>1 DEF UnfoldInv, UnfoldOk, Replied, Init
<1>2. ReadsInv /\ UnfoldInv /\ [Next]_vars => UnfoldInv'
  <2> SUFFICES ASSUME ReadsInv, UnfoldInv, [Next]_vars PROVE UnfoldInv' OBVIOUS
  <2>1. CASE UNCHANGED <<mail, call>>
    BY <2>1 DEF UnfoldInv, UnfoldOk, Replied, Msg
  <2>2. ASSUME NEW c \in Calls, Step(c) \/ Break(c) PROVE UnfoldInv'
    BY <2>2, BeginUnfolds, OthersUnfold, FetchUnfolds, DownloadUnfolds, SearchUnfolds DEF Step
  <2>3. CASE \E m \in Messages : PurgeBody(m) \/ DropRow(m)
    BY <2>1, <2>3 DEF PurgeBody, DropRow, mailVars
  <2> QED BY <2>1, <2>2, <2>3 DEF Next, vars, mailVars
<1> QED BY <1>1, <1>2, ReadsAlways, PTL DEF Spec

(* What is unfolded, of which message, and how deep.                              *)
LEMMA TreeIs ==
  ASSUME ReadsInv, UnfoldInv, NEW c \in Calls, Replied(c, "forwarded")
  PROVE  LET asked == call[c].asks IN
         /\ IsMessage(Msg(c)) /\ Attached(Msg(c), asked.part)
         /\ asked.depth \in Nat /\ asked.ceiling \in Nat
         /\ call[c].reply.tree = Tree(Msg(c), asked)
<1> DEFINE asked == call[c].asks
           msg == Msg(c)
<1>1. /\ asked \in Plans[c] /\ asked.tool = Unfolding /\ IsForward(msg, asked.part)
      /\ Readable(msg[asked.part]) /\ call[c].reply.tree = Tree(msg, asked)
  BY DEF UnfoldInv, UnfoldOk
<1>2. asked.part \in Nat \ {0} /\ asked.depth \in Nat /\ asked.ceiling \in Nat /\ asked.msg \in Messages
  BY <1>1, ReadsAssumption DEF Unfolding
<1>3. IsMessage(msg) BY <1>2, ReadsAssumption DEF UnfoldInv, Msg
<1>4. PICK i \in DOMAIN msg : AttachmentId(msg, i) = asked.part /\ msg[asked.part].mime = "rfc822"
  BY <1>1 DEF IsForward, FindAttachmentMimeType
<1>5. asked.part = i /\ Readable(msg[i]) BY <1>1, <1>2, <1>4 DEF AttachmentId
<1> QED BY <1>1, <1>2, <1>3, <1>4, <1>5 DEF Attached

LEMMA ResolvedDepth ==
  ASSUME NEW depth \in Nat, NEW ceiling \in Nat
  PROVE  LET m == ResolveMaxDepth(depth, ceiling)
             floor == IF depth = 0 THEN DefaultMaxDepth ELSE depth
         IN /\ m \in Nat
            /\ \A d \in Nat \ {0} : d <= m <=> d = 1 \/ (d <= floor /\ d <= ceiling)
<1> DEFINE most == Max({ceiling, 1})
           floor == IF depth = 0 THEN DefaultMaxDepth ELSE depth
           m == Min({most, floor})
<1>1. most = IF ceiling = 0 THEN 1 ELSE ceiling BY DEF Max
<1>2. most \in Nat \ {0} /\ floor \in Nat \ {0} BY <1>1 DEF DefaultMaxDepth
<1> HIDE DEF most, floor
<1>3. m = IF most <= floor THEN most ELSE floor BY <1>2 DEF Min
<1>4. ResolveMaxDepth(depth, ceiling) = m BY DEF ResolveMaxDepth, most, floor
<1> HIDE DEF m
<1>5. m \in Nat BY <1>2, <1>3
<1>6. ASSUME NEW d \in Nat \ {0} PROVE d <= m <=> d = 1 \/ (d <= floor /\ d <= ceiling)
  BY <1>1, <1>2, <1>3
<1> QED BY <1>4, <1>5, <1>6 DEF floor

(* parse_forwarded_attachment shows every attached message that parses once, at   *)
(* its own depth, down to the depth asked for and never below the ceiling,        *)
(* whatever the tree of parts looks like.                                         *)
THEOREM TreesAreCompleteToDepth == Spec => []ForwardsWithinDepth
<1>1. ASSUME ReadsInv, UnfoldInv PROVE ForwardsWithinDepth
  <2> SUFFICES ASSUME NEW c \in Calls, Replied(c, "forwarded")
               PROVE  LET msg == Msg(c)
                          asked == call[c].asks
                          floor == IF asked.depth = 0 THEN DefaultMaxDepth ELSE asked.depth
                          within == {i \in DOMAIN msg : msg[i].mime = "rfc822" /\ asked.part \in Chain(msg, asked.part, i)
                                        /\ \A j \in Chain(msg, asked.part, i) : Readable(msg[j])}
                      IN {<<node.depth, node.part>> : node \in call[c].reply.tree} =
                           {<<Cardinality(Chain(msg, asked.part, i)), i>> :
                              i \in {j \in within : LET d == Cardinality(Chain(msg, asked.part, j)) IN
                                                    d = 1 \/ (d <= floor /\ d <= asked.ceiling)}}
    BY DEF ForwardsWithinDepth
  <2> DEFINE msg == Msg(c)
             asked == call[c].asks
             top == asked.part
             m == ResolveMaxDepth(asked.depth, asked.ceiling)
             floor == IF asked.depth = 0 THEN DefaultMaxDepth ELSE asked.depth
             within == {i \in DOMAIN msg : msg[i].mime = "rfc822" /\ top \in Chain(msg, top, i)
                           /\ \A j \in Chain(msg, top, i) : Readable(msg[j])}
             shown == {j \in within : Depth(msg, top, j) = 1 \/ (Depth(msg, top, j) <= floor
                                                                 /\ Depth(msg, top, j) <= asked.ceiling)}
  <2>1. IsMessage(msg) /\ Attached(msg, top) /\ asked.depth \in Nat /\ asked.ceiling \in Nat
        /\ call[c].reply.tree = Forwarded(msg, top, m)
    BY <1>1, TreeIs DEF Tree
  <2>2. m \in Nat /\ \A d \in Nat \ {0} : d <= m <=> d = 1 \/ (d <= floor /\ d <= asked.ceiling)
    <3> DEFINE depth == asked.depth
               ceiling == asked.ceiling
    <3>1. depth \in Nat /\ ceiling \in Nat BY <2>1
    <3> HIDE DEF depth, ceiling
    <3>2. LET n == ResolveMaxDepth(depth, ceiling)
              least == IF depth = 0 THEN DefaultMaxDepth ELSE depth
          IN n \in Nat /\ \A d \in Nat \ {0} : d <= n <=> d = 1 \/ (d <= least /\ d <= ceiling)
      BY <3>1, ResolvedDepth
    <3> QED BY <3>2 DEF depth, ceiling
  <2>3. \A i : i \in within <=> Unfolds(msg, top, i) BY DEF Unfolds
  <2>4. ASSUME NEW i \in within PROVE Depth(msg, top, i) \in Nat \ {0}
    <3>1. i \in 1 .. Len(msg) /\ top \in Chain(msg, top, i) BY <2>1, MessageShape
    <3> QED BY <2>1, <3>1, ChainIsFinite, FS_EmptySet DEF Depth
  <2> HIDE DEF msg, asked, top, m, floor, within
  <2>5. \A i : i \in shown <=> Unfolds(msg, top, i) /\ Depth(msg, top, i) <= m BY <2>2, <2>3, <2>4
  <2> HIDE DEF shown
  <2>6. ASSUME NEW node \in call[c].reply.tree
        PROVE  \E i \in shown : <<node.depth, node.part>> = <<Depth(msg, top, i), i>>
    <3>1. PICK i \in DOMAIN msg : /\ Unfolds(msg, top, i) /\ Depth(msg, top, i) <= m
                                  /\ node = Node(msg, Depth(msg, top, i), i)
      BY <2>1, <2>2, ForwardedIs
    <3> QED BY <3>1, <2>5 DEF Node
  <2>7. ASSUME NEW i \in shown
        PROVE  \E node \in call[c].reply.tree : <<node.depth, node.part>> = <<Depth(msg, top, i), i>>
    <3>1. Unfolds(msg, top, i) /\ Depth(msg, top, i) <= m BY <2>5
    <3>2. i \in DOMAIN msg BY <3>1 DEF Unfolds
    <3>3. Node(msg, Depth(msg, top, i), i) \in call[c].reply.tree BY <2>1, <2>2, <3>1, <3>2, ForwardedIs
    <3> QED BY <3>3 DEF Node
  <2>8. {<<node.depth, node.part>> : node \in call[c].reply.tree} = {<<Depth(msg, top, i), i>> : i \in shown}
    BY <2>6, <2>7
  <2> QED BY <2>8 DEF msg, asked, top, floor, within, shown, Depth
<1> QED BY <1>1, ReadsAlways, UnfoldsAlways, PTL

--------------------------------------------------------------------------------
(* A forwarded message by itself *)

LEMMA InnerIs ==
  ASSUME NEW msg, IsMessage(msg), NEW p \in 1 .. Len(msg)
  PROVE  LET n == Cardinality(Inner(msg, p)) IN
         /\ n \in Nat /\ p + n <= Len(msg) /\ Inner(msg, p) = p + 1 .. p + n
<1> DEFINE E == Enclosing(msg)
           I == Inner(msg, p)
<1>1. Len(msg) \in Nat /\ DOMAIN msg = 1 .. Len(msg) BY MessageShape
<1>2. ASSUME NEW i \in I PROVE i \in p + 1 .. Len(msg) /\ p + 1 .. i \subseteq I
  <2>1. i \in 1 .. Len(msg) /\ p \in E[i] BY <1>1 DEF Inner
  <2>2. p \in 1 .. i - 1 BY <1>1, <2>1, Nesting DEF NestsUpTo
  <2>3. \A j \in p + 1 .. i : p \in E[j] BY <1>1, <2>1, Contiguous
  <2> QED BY <1>1, <2>1, <2>2, <2>3 DEF Inner
<1> HIDE DEF I
<1>3. PICK q \in p .. Len(msg) : I = p + 1 .. q
  <2>1. CASE I = {}
    <3>1. I = p + 1 .. p BY <2>1
    <3> QED BY <3>1, <1>1
  <2>2. CASE I # {}
    <3>1. I \in SUBSET (0 .. Len(msg)) BY <1>1, <1>2
    <3>2. PICK q \in I : \A j \in I : j <= q BY <1>1, <2>2, <3>1, GreatestNumber
    <3>3. I \subseteq p + 1 .. q BY <1>1, <1>2, <3>2
    <3>4. p + 1 .. q \subseteq I BY <1>2, <3>2
    <3>5. q \in p .. Len(msg) BY <1>1, <1>2, <3>2
    <3> QED BY <3>3, <3>4, <3>5
  <2> QED BY <2>1, <2>2
<1>4. Cardinality(I) = q - p
  <2>1. p + 1 \in Int /\ q \in Int BY <1>1, <1>3
  <2>2. Cardinality(p + 1 .. q) = IF p + 1 > q THEN 0 ELSE q - (p + 1) + 1 BY <2>1, FS_Interval
  <2> QED BY <1>1, <1>3, <2>2
<1> QED BY <1>1, <1>3, <1>4 DEF I

LEMMA AsReceivedIs ==
  ASSUME NEW msg, IsMessage(msg), NEW p \in 1 .. Len(msg)
  PROVE  LET inner == AsReceived(msg, p)
             n == Cardinality(Inner(msg, p))
         IN /\ DOMAIN inner = 1 .. n /\ Len(inner) = n
            /\ \A k \in 1 .. n : /\ inner[k].mime = msg[p + k].mime /\ inner[k].name = msg[p + k].name
                                 /\ inner[k].data = msg[p + k].data
                                 /\ inner[k].raw = msg[p + k].raw
                                 /\ inner[k].within = msg[p + k].within - p
<1> DEFINE inner == AsReceived(msg, p)
           n == Cardinality(Inner(msg, p))
           part(k) == [msg[p + k] EXCEPT !.within = msg[p + k].within - p]
<1>1. n \in Nat /\ p + n <= Len(msg) /\ Len(msg) \in Nat BY InnerIs, MessageShape
<1>2. inner = [k \in 1 .. n |-> part(k)] BY DEF AsReceived
<1>3. DOMAIN inner = 1 .. n /\ \A k \in 1 .. n : inner[k] = part(k) BY <1>2
<1>4. Len(inner) = n BY <1>1, <1>2
<1>5. ASSUME NEW k \in 1 .. n
      PROVE  /\ inner[k].mime = msg[p + k].mime /\ inner[k].name = msg[p + k].name
             /\ inner[k].data = msg[p + k].data /\ inner[k].raw = msg[p + k].raw
             /\ inner[k].within = msg[p + k].within - p
  <2>1. p + k \in 1 .. Len(msg) BY <1>1
  <2>2. msg[p + k] \in [mime : Mimes, name : Names, data : Answers, raw : Contents, within : Nat]
    BY <2>1, MessageShape
  <2>3. inner[k] = part(k) BY <1>3
  <2> HIDE DEF inner
  <2> QED BY <2>2, <2>3
<1> QED BY <1>3, <1>4, <1>5

(* What is around a part inside is what is around it, as far as it is inside.     *)
LEMMA EnclosingInside ==
  ASSUME NEW msg, IsMessage(msg), NEW p \in 1 .. Len(msg),
         NEW k \in 1 .. Cardinality(Inner(msg, p))
  PROVE  /\ Enclosing(AsReceived(msg, p))[k] \subseteq 1 .. k - 1
         /\ \A x \in Nat \ {0} :
              x \in Enclosing(AsReceived(msg, p))[k] <=> p + x \in Enclosing(msg)[p + k]
<1> DEFINE inner == AsReceived(msg, p)
           n == Cardinality(Inner(msg, p))
           E == Enclosing(msg)
           F == Enclosing(inner)
           Good(j) == /\ F[j] \subseteq 1 .. j - 1
                      /\ \A x \in Nat \ {0} : x \in F[j] <=> p + x \in E[p + j]
           T == {j \in 0 .. n : j # 0 => Good(j)}
<1>1. n \in Nat /\ p + n <= Len(msg) /\ Inner(msg, p) = p + 1 .. p + n /\ Len(msg) \in Nat
  BY InnerIs, MessageShape
<1>2. Len(inner) = n /\ \A j \in 1 .. n : inner[j].within = msg[p + j].within - p BY AsReceivedIs
<1>3. ASSUME NEW j \in 1 .. n
      PROVE  LET w == msg[p + j].within IN w \in p .. p + j - 1 /\ E[p + j] = E[w] \cup {w}
  <2> DEFINE w == msg[p + j].within
  <2>1. p + j \in 1 .. Len(msg) /\ p \in E[p + j]
    <3>1. p + j \in Inner(msg, p) BY <1>1
    <3> QED BY <3>1, MessageShape DEF Inner
  <2>2. E[p + j] = E[w] \cup ({w} \ {0}) BY <2>1, EnclosingIs
  <2>3. w \in 0 .. p + j - 1 BY <2>1, MessageShape DEF Earlier
  <2> HIDE DEF w
  <2>4. w # 0 BY <2>1, <2>2, EnclosingIs
  <2>5. E[w] \subseteq 1 .. w - 1
    <3>1. w \in 0 .. Len(msg) BY <2>1, <2>3, <1>1
    <3> QED BY <3>1, Nesting DEF NestsUpTo
  <2>6. p <= w BY <2>1, <2>2, <2>3, <2>5
  <2> QED BY <2>2, <2>3, <2>4, <2>6, <1>1 DEF w
<1>4. Earlier(inner)
  <2>1. ASSUME NEW j \in 1 .. n PROVE inner[j].within \in 0 .. j - 1
    <3> DEFINE w == msg[p + j].within
    <3>1. w \in p .. p + j - 1 /\ inner[j].within = w - p BY <1>2, <1>3
    <3> HIDE DEF w, inner, n
    <3> QED BY <3>1, <1>1
  <2> QED BY <2>1, <1>2 DEF Earlier
<1>5. F[0] = {} /\ \A j \in 1 .. n : F[j] = F[inner[j].within] \cup ({inner[j].within} \ {0})
  BY <1>1, <1>2, <1>4, EnclosingOf
<1> HIDE DEF inner, n, F
<1>6. ASSUME NEW j \in 0 .. n, 0 .. j - 1 \subseteq T PROVE j \in T
  <2> SUFFICES ASSUME j # 0 PROVE Good(j) OBVIOUS
  <2> DEFINE w == msg[p + j].within
             v == inner[j].within
  <2>1. j \in 1 .. n BY <1>1
  <2>2. w \in p .. p + j - 1 /\ E[p + j] = E[w] \cup {w} BY <2>1, <1>3
  <2>3. v = w - p /\ v \in 0 .. j - 1 BY <2>1, <2>2, <1>2, <1>1
  <2>4. F[j] = F[v] \cup ({v} \ {0}) BY <2>1, <1>5
  <2> HIDE DEF w, v
  <2>5. CASE v = 0
    <3>1. w = p /\ F[j] = {} BY <2>5, <2>2, <2>3, <2>4, <1>5
    <3>2. E[p] \subseteq 1 .. p - 1 BY <1>1, Nesting DEF NestsUpTo
    <3> QED BY <3>1, <3>2, <2>2, <1>1
  <2>6. CASE v # 0
    <3>0. w = p + v BY <2>2, <2>3, <1>1
    <3>1. Good(v) /\ w = p + v
      <4>1. v \in T BY <1>6, <2>3
      <4> QED BY <4>1, <2>6, <3>0
    <3>2. F[j] \subseteq 1 .. j - 1
      <4>1. v \in 1 .. j - 1 /\ 1 .. v - 1 \subseteq 1 .. j - 1 BY <2>3, <2>6
      <4> QED BY <4>1, <2>4, <3>1
    <3>3. ASSUME NEW x \in Nat \ {0} PROVE x \in F[j] <=> p + x \in E[p + j]
      <4>1. x \in F[j] <=> x \in F[v] \/ x = v BY <2>4, <2>6
      <4>2. p + x \in E[p + j] <=> p + x \in E[p + v] \/ x = v BY <2>2, <2>3, <3>1, <1>1
      <4> QED BY <4>1, <4>2, <3>1
    <3> QED BY <3>2, <3>3
  <2> QED BY <2>5, <2>6
<1> HIDE DEF T
<1>7. 0 .. n \subseteq T BY <1>1, <1>6, StrongInduction
<1>8. k \in 0 .. n /\ k # 0 BY <1>1 DEF n
<1>9. Good(k) BY <1>7, <1>8 DEF T
<1> QED BY <1>9 DEF inner, F

(* The leaf that is taken, counted from another part.                             *)
LEMMA FirstIsFound ==
  ASSUME NEW S \in SUBSET Nat, 0 \notin S
  PROVE  /\ S = {} => FirstOf(S) = 0
         /\ S # {} => FirstOf(S) \in S /\ \A y \in S : FirstOf(S) <= y
<1>1. CASE S = {} BY <1>1 DEF FirstOf
<1>2. CASE S # {}
  <2>1. PICK x \in S : \A y \in S : x <= y BY <1>2, LeastNumber
  <2>2. Min(S) \in S /\ \A y \in S : Min(S) <= y BY <2>1 DEF Min
  <2> QED BY <1>2, <2>2 DEF FirstOf
<1> QED BY <1>1, <1>2

Shift(p, i) == IF i = 0 THEN 0 ELSE p + i

LEMMA FirstShifts ==
  ASSUME NEW p \in Nat, NEW S \in SUBSET Nat, 0 \notin S
  PROVE  FirstOf({p + k : k \in S}) = Shift(p, FirstOf(S))
<1> DEFINE R == {p + k : k \in S}
<1>1. R \in SUBSET Nat /\ 0 \notin R
  <2>1. \A k \in S : p + k \in Nat /\ p + k # 0 OBVIOUS
  <2> QED BY <2>1
<1>2. CASE S = {}
  <2>1. R = {} BY <1>2
  <2> QED BY <1>2, <2>1, FirstIsFound DEF Shift
<1>3. CASE S # {}
  <2> DEFINE x == FirstOf(S)
             z == FirstOf(R)
  <2>1. x \in S /\ \A y \in S : x <= y BY <1>3, FirstIsFound
  <2>2. R # {} BY <1>3
  <2>3. z \in R /\ \A y \in R : z <= y BY <1>1, <2>2, FirstIsFound
  <2> HIDE DEF x, z
  <2>4. PICK k \in S : z = p + k BY <2>3
  <2>5. z <= p + x BY <2>1, <2>3
  <2>6. k = x BY <2>1, <2>4, <2>5
  <2>7. x # 0 BY <2>1
  <2> QED BY <2>4, <2>6, <2>7 DEF Shift, x, z
<1> QED BY <1>2, <1>3

(* Both parsers walk through the same parts.                                      *)
LEMMA SameWalk ==
  ASSUME NEW msg, IsMessage(msg), NEW p \in 1 .. Len(msg),
         \A k \in DOMAIN AsReceived(msg, p) : Ordinary(AsReceived(msg, p)[k])
  PROVE  /\ Level(msg, p) = {p + k : k \in Reached(AsReceived(msg, p))}
         /\ Reached(AsReceived(msg, p)) \subseteq 1 .. Cardinality(Inner(msg, p))
<1> DEFINE inner == AsReceived(msg, p)
           n == Cardinality(Inner(msg, p))
           E == Enclosing(msg)
           F == Enclosing(inner)
<1>1. n \in Nat /\ p + n <= Len(msg) /\ Inner(msg, p) = p + 1 .. p + n /\ Len(msg) \in Nat
      /\ DOMAIN msg = 1 .. Len(msg)
  BY InnerIs, MessageShape
<1>2. DOMAIN inner = 1 .. n BY AsReceivedIs
<1>3. \A i : i \in Level(msg, p) => i \in Inner(msg, p) BY <1>1 DEF Level, Inner
<1>4. ASSUME NEW k \in 1 .. n PROVE k \in Reached(inner) <=> p + k \in Level(msg, p)
  <2>1. p + k \in 1 .. Len(msg) BY <1>1
  <2>2. p \in E[p + k]
    <3>1. p + k \in Inner(msg, p) BY <1>1
    <3> QED BY <3>1 DEF Inner
  <2>3. NestsUpTo(msg, p + k) BY <2>1, <1>1, Nesting
  <2>4. F[k] \subseteq 1 .. k - 1 /\ \A x \in Nat \ {0} : x \in F[k] <=> p + x \in E[p + k]
    BY EnclosingInside
  <2>5. ASSUME NEW x \in F[k]
        PROVE  /\ x \in 1 .. n /\ p + x \in E[p + k]
               /\ HasFilename(inner[x]) <=> msg[p + x].mime = "rfc822"
    <3>1. x \in 1 .. n /\ p + x \in E[p + k] BY <2>4, <1>1
    <3>2. msg[p + x].mime \in {"multipart", "rfc822"} BY <3>1, <2>3 DEF NestsUpTo
    <3>3. inner[x].mime = msg[p + x].mime BY <3>1, AsReceivedIs
    <3>4. Ordinary(inner[x]) BY <3>1, <1>2
    <3> QED BY <3>1, <3>2, <3>3, <3>4 DEF Ordinary, HasFilename
  <2>6. k \in Reached(inner) <=> \A x \in F[k] : msg[p + x].mime # "rfc822"
    BY <1>2, <2>5 DEF Reached
  <2>7. p + k \in Level(msg, p) <=> \A j \in E[p + k] \ {p} : msg[j].mime = "rfc822" => j \in E[p]
    BY <1>1, <2>1, <2>2 DEF Level
  <2>8. ASSUME NEW j \in E[p + k] \ {p} PROVE j \in E[p] \/ \E x \in F[k] : j = p + x
    <3>1. j \in 1 .. p + k - 1 BY <2>3 DEF NestsUpTo
    <3>2. CASE j < p BY <3>2, <2>2, <2>3 DEF NestsUpTo
    <3>3. CASE j > p
      <4>1. j - p \in Nat \ {0} /\ j = p + (j - p) BY <3>1, <3>3
      <4>2. j - p \in F[k] BY <4>1, <2>4
      <4> QED BY <4>1, <4>2
    <3> QED BY <3>1, <3>2, <3>3
  <2>9. ASSUME NEW x \in F[k] PROVE p + x \in E[p + k] \ {p} /\ p + x \notin E[p]
    <3>1. E[p] \subseteq 1 .. p - 1 BY <1>1, Nesting DEF NestsUpTo
    <3>2. x \in 1 .. n BY <2>5
    <3> QED BY <3>1, <3>2, <2>5
  <2> HIDE DEF inner, n, E, F
  <2> QED BY <2>6, <2>7, <2>8, <2>9
<1>5. Reached(inner) \subseteq 1 .. n BY <1>2 DEF Reached
<1> HIDE DEF inner, n
<1>6. ASSUME NEW i \in Level(msg, p) PROVE \E k \in Reached(inner) : i = p + k
  <2>1. i \in p + 1 .. p + n BY <1>1, <1>3
  <2>2. i - p \in 1 .. n /\ i = p + (i - p) BY <2>1, <1>1
  <2>3. i - p \in Reached(inner) BY <2>2, <1>4
  <2> QED BY <2>2, <2>3
<1>7. ASSUME NEW k \in Reached(inner) PROVE p + k \in Level(msg, p) BY <1>4, <1>5
<1> QED BY <1>5, <1>6, <1>7 DEF inner, n

(* The leaf each parser takes: the first one that its own decoder accepts.        *)
LeavesOf(msg, mime) == {i \in Reached(msg) : ~HasFilename(msg[i]) /\ msg[i].mime = mime}

LEMMA SameLeaf ==
  ASSUME NEW msg, IsMessage(msg), NEW p \in 1 .. Len(msg), NEW mime \in {"plain", "html"},
         \A k \in DOMAIN AsReceived(msg, p) : Ordinary(AsReceived(msg, p)[k])
  PROVE  \E text \in Nat, raw \in Nat :
           LET inner == AsReceived(msg, p) IN
           /\ TextLeaf(inner, mime) = text
           /\ LevelLeaf(msg, p, mime) = Shift(p, raw)
           /\ \/ text = raw
              \/ raw # 0 /\ ~Decodes(msg[p + raw]) /\ (text = 0 \/ raw < text)
              \/ text # 0 /\ ~Readable(inner[text]) /\ (raw = 0 \/ text < raw)
<1> DEFINE inner == AsReceived(msg, p)
           n == Cardinality(Inner(msg, p))
           L == LeavesOf(inner, mime)
           S == {k \in L : Decodes(inner[k])}
           U == {k \in L : Readable(inner[k])}
           R == {i \in Level(msg, p) : ~AttachmentLike(msg[i]) /\ msg[i].mime = mime /\ Readable(msg[i])}
<1>1. n \in Nat BY InnerIs
<1>2. Level(msg, p) = {p + k : k \in Reached(inner)} /\ Reached(inner) \subseteq 1 .. n BY SameWalk
<1>3. ASSUME NEW k \in Reached(inner)
      PROVE  /\ k \in U <=> p + k \in R
             /\ Decodes(inner[k]) <=> Decodes(msg[p + k])
  <2>1. k \in 1 .. n BY <1>2
  <2>2. /\ inner[k].mime = msg[p + k].mime /\ inner[k].name = msg[p + k].name
        /\ inner[k].data = msg[p + k].data /\ inner[k].raw = msg[p + k].raw
        /\ Ordinary(inner[k])
    BY <2>1, AsReceivedIs
  <2>3. p + k \in Level(msg, p) BY <1>2
  <2> HIDE DEF inner
  <2> QED BY <2>2, <2>3 DEF Ordinary, HasFilename, AttachmentLike, LeavesOf, Readable, Decodes
<1>4. R = {p + k : k \in U}
  <2>1. ASSUME NEW i \in R PROVE \E k \in U : i = p + k
    <3>1. PICK k \in Reached(inner) : i = p + k BY <1>2
    <3> QED BY <3>1, <1>3
  <2>2. ASSUME NEW k \in U PROVE p + k \in R BY <1>3 DEF LeavesOf
  <2> HIDE DEF U, R
  <2> QED BY <2>1, <2>2
<1>5. /\ S \in SUBSET Nat /\ 0 \notin S /\ U \in SUBSET Nat /\ 0 \notin U
      /\ S \subseteq Reached(inner) /\ U \subseteq Reached(inner)
  BY <1>1, <1>2 DEF LeavesOf
<1>6. LevelLeaf(msg, p, mime) = FirstOf(R) BY DEF LevelLeaf
<1>7. TextLeaf(inner, mime) = FirstOf(S)
  <2>1. S = {i \in Reached(inner) : ~HasFilename(inner[i]) /\ inner[i].mime = mime /\ Decodes(inner[i])}
    BY DEF LeavesOf
  <2> QED BY <2>1 DEF TextLeaf
<1>8. \A k \in U : k \notin S => ~Decodes(inner[k]) OBVIOUS
<1>9. \A k \in S : k \notin U => ~Readable(inner[k]) OBVIOUS
<1> DEFINE text == FirstOf(S)
           raw == FirstOf(U)
<1>10. /\ (text = 0 /\ S = {}) \/ (text \in S /\ \A y \in S : text <= y)
       /\ (raw = 0 /\ U = {}) \/ (raw \in U /\ \A y \in U : raw <= y)
  BY <1>5, FirstIsFound
<1> HIDE DEF S, U, R, inner, L
<1>11. LevelLeaf(msg, p, mime) = Shift(p, raw)
  <2>1. p \in Nat OBVIOUS
  <2>2. U \in SUBSET Nat /\ 0 \notin U BY <1>5
  <2>3. FirstOf({p + k : k \in U}) = Shift(p, FirstOf(U)) BY <2>1, <2>2, FirstShifts, Zenon
  <2> QED BY <2>3, <1>4, <1>6
<1> HIDE DEF text, raw
<1>12. text \in Nat /\ raw \in Nat
  <2>1. 0 \in Nat OBVIOUS
  <2>2. text \in S => text \in Nat BY <1>5
  <2>3. raw \in U => raw \in Nat BY <1>5
  <2> QED BY <2>1, <2>2, <2>3, <1>10
<1>13. CASE text # raw /\ raw # 0 /\ (text = 0 \/ raw < text)
  <2>1. raw \in U BY <1>10, <1>13
  <2>2. text = 0 => S = {} BY <1>5, <1>10
  <2>3. text # 0 => \A y \in S : text <= y BY <1>10
  <2>4. raw \notin S BY <1>12, <1>13, <2>2, <2>3
  <2>5. ~Decodes(msg[p + raw]) BY <2>1, <2>4, <1>3, <1>5, <1>8
  <2> QED BY <2>5, <1>7, <1>11, <1>12, <1>13 DEF inner, text
<1>14. CASE text # raw /\ text # 0 /\ (raw = 0 \/ text < raw)
  <2>1. text \in S /\ text \notin U BY <1>10, <1>12, <1>14, <1>5
  <2>2. ~Readable(inner[text]) BY <2>1, <1>9
  <2> QED BY <2>2, <1>7, <1>11, <1>12, <1>14 DEF inner, text
<1>15. CASE text = raw BY <1>15, <1>7, <1>11, <1>12 DEF inner, text
<1> QED BY <1>12, <1>13, <1>14, <1>15

LEMMA SameAttachments ==
  ASSUME NEW msg, IsMessage(msg), NEW p \in 1 .. Len(msg),
         \A k \in DOMAIN AsReceived(msg, p) : Ordinary(AsReceived(msg, p)[k])
  PROVE  LevelAttachments(msg, p) = {p + a.part : a \in Listed(AsReceived(msg, p))}
<1> DEFINE inner == AsReceived(msg, p)
           n == Cardinality(Inner(msg, p))
<1>1. Level(msg, p) = {p + k : k \in Reached(inner)} /\ Reached(inner) \subseteq 1 .. n BY SameWalk
<1>2. ASSUME NEW k \in Reached(inner) PROVE HasFilename(inner[k]) <=> AttachmentLike(msg[p + k])
  <2>1. k \in 1 .. n BY <1>1
  <2>2. /\ inner[k].mime = msg[p + k].mime /\ inner[k].name = msg[p + k].name
        /\ Ordinary(inner[k])
    BY <2>1, AsReceivedIs
  <2> HIDE DEF inner
  <2> QED BY <2>2 DEF Ordinary, HasFilename, AttachmentLike
<1>3. ASSUME NEW i \in LevelAttachments(msg, p) PROVE \E a \in Listed(inner) : i = p + a.part
  <2>1. PICK k \in Reached(inner) : i = p + k BY <1>1 DEF LevelAttachments
  <2>2. HasFilename(inner[k]) BY <2>1, <1>2, <1>3 DEF LevelAttachments
  <2> DEFINE a == [part |-> k, id |-> AttachmentId(inner, k), mime |-> inner[k].mime]
  <2>3. a \in Listed(inner) /\ a.part = k BY <2>1, <2>2 DEF Listed
  <2> QED BY <2>1, <2>3
<1>4. ASSUME NEW a \in Listed(inner) PROVE p + a.part \in LevelAttachments(msg, p)
  <2>1. PICK k \in Reached(inner) : HasFilename(inner[k]) /\ a.part = k BY DEF Listed
  <2> QED BY <2>1, <1>1, <1>2 DEF LevelAttachments
<1> HIDE DEF inner
<1> QED BY <1>3, <1>4 DEF inner

LEMMA SameBody ==
  ASSUME NEW msg, IsMessage(msg), NEW p \in 1 .. Len(msg),
         \A k \in DOMAIN AsReceived(msg, p) : Ordinary(AsReceived(msg, p)[k])
  PROVE  LET inner == AsReceived(msg, p)
             body == BodyText(inner)
             shown == LevelBody(msg, p)
         IN \/ shown = <<body[1], IF body[2] = 0 THEN 0 ELSE p + body[2]>>
            \/ shown[2] # 0 /\ ~Decodes(msg[shown[2]])
            \/ body[2] # 0 /\ ~Readable(inner[body[2]])
<1> DEFINE inner == AsReceived(msg, p)
           body == BodyText(inner)
           shown == LevelBody(msg, p)
           Compared(text, raw) == /\ text \in Nat /\ raw \in Nat
                               /\ \/ text = raw
                                  \/ raw # 0 /\ ~Decodes(msg[p + raw]) /\ (text = 0 \/ raw < text)
                                  \/ text # 0 /\ ~Readable(inner[text]) /\ (raw = 0 \/ text < raw)
<1>1. \A mime \in {"plain", "html"} : \E text, raw :
        /\ TextLeaf(inner, mime) = text /\ LevelLeaf(msg, p, mime) = Shift(p, raw) /\ Compared(text, raw)
  BY SameLeaf
<1>2. PICK text, raw : /\ TextLeaf(inner, "plain") = text /\ LevelLeaf(msg, p, "plain") = Shift(p, raw)
                       /\ Compared(text, raw)
  BY <1>1
<1>3. PICK html, rawHtml : /\ TextLeaf(inner, "html") = html /\ LevelLeaf(msg, p, "html") = Shift(p, rawHtml)
                           /\ Compared(html, rawHtml)
  BY <1>1
<1>4. body = Rendered(text, html) BY <1>2, <1>3 DEF BodyText, ExtractBodyParts
<1>5. shown = Rendered(Shift(p, raw), Shift(p, rawHtml)) BY <1>2, <1>3 DEF LevelBody
<1> HIDE DEF inner, body, shown
<1>6. \A k \in Nat : Shift(p, k) = (IF k = 0 THEN 0 ELSE p + k) /\ (Shift(p, k) = 0 <=> k = 0)
  BY DEF Shift
<1>7. \A x, y : Rendered(x, y) = IF x # 0 \/ y = 0 THEN <<"as is", x>> ELSE <<"rendered", y>> BY DEF Rendered
<1>8. CASE text # raw
  <2>1. CASE raw # 0 /\ ~Decodes(msg[p + raw]) /\ (text = 0 \/ raw < text)
    <3>1. shown = <<"as is", p + raw>> BY <2>1, <1>2, <1>5, <1>6, <1>7
    <3>2. shown[2] = p + raw BY <3>1
    <3>3. raw \in Nat /\ p \in Nat \ {0} BY <1>2
    <3>4. p + raw # 0 BY <3>3
    <3> QED BY <3>2, <3>4, <2>1 DEF shown
  <2>2. CASE text # 0 /\ ~Readable(inner[text]) /\ (raw = 0 \/ text < raw)
    <3>1. body = <<"as is", text>> BY <2>2, <1>4, <1>7
    <3>2. body[2] = text BY <3>1
    <3> QED BY <3>2, <2>2 DEF body, inner
  <2> QED BY <1>2, <1>8, <2>1, <2>2
<1>9. CASE text = raw /\ text # 0
  <2>1. body = <<"as is", text>> /\ shown = <<"as is", p + text>> BY <1>2, <1>4, <1>5, <1>6, <1>7, <1>9
  <2>2. body[1] = "as is" /\ body[2] = text BY <2>1
  <2>3. shown = <<body[1], IF body[2] = 0 THEN 0 ELSE p + body[2]>> BY <1>9, <2>1, <2>2
  <2> QED BY <2>3 DEF body, inner, shown
<1>10. CASE text = raw /\ text = 0
  <2>1. CASE html = rawHtml /\ html = 0
    <3>1. body = <<"as is", 0>> /\ shown = <<"as is", 0>> BY <2>1, <1>4, <1>5, <1>6, <1>7, <1>10
    <3>2. body[1] = "as is" /\ body[2] = 0 BY <3>1
    <3>3. shown = <<body[1], IF body[2] = 0 THEN 0 ELSE p + body[2]>> BY <3>1, <3>2
    <3> QED BY <3>3 DEF body, inner, shown
  <2>2. CASE html = rawHtml /\ html # 0
    <3>1. body = <<"rendered", html>> /\ shown = <<"rendered", p + html>>
      BY <2>2, <1>3, <1>4, <1>5, <1>6, <1>7, <1>10
    <3>2. body[1] = "rendered" /\ body[2] = html BY <3>1
    <3>3. shown = <<body[1], IF body[2] = 0 THEN 0 ELSE p + body[2]>> BY <2>2, <3>1, <3>2
    <3> QED BY <3>3 DEF body, inner, shown
  <2>3. CASE rawHtml # 0 /\ ~Decodes(msg[p + rawHtml])
    <3>1. shown = <<"rendered", p + rawHtml>> BY <2>3, <1>3, <1>5, <1>6, <1>7, <1>10
    <3>2. shown[2] = p + rawHtml /\ p + rawHtml # 0 BY <3>1, <1>3
    <3> QED BY <3>2, <2>3 DEF shown
  <2>4. CASE html # 0 /\ ~Readable(inner[html])
    <3>1. body = <<"rendered", html>> BY <2>4, <1>4, <1>7, <1>10
    <3>2. body[2] = html BY <3>1
    <3> QED BY <3>2, <2>4 DEF body, inner
  <2> QED BY <1>3, <2>1, <2>2, <2>3, <2>4
<1> QED BY <1>8, <1>9, <1>10

(* A forwarded message with names in the usual places reads as if it had been     *)
(* received, at every depth of the tree and for every message: the parser of raw  *)
(* bytes and the parser of API answers find the same attachments, and the same    *)
(* body unless the leaf that one of them shows is one that the other's decoder    *)
(* refuses.                                                                       *)
THEOREM ForwardsReadAsReceived == Spec => []ForwardReadsAlike
<1>1. ASSUME ReadsInv, UnfoldInv PROVE ForwardReadsAlike
  <2> SUFFICES ASSUME NEW c \in Calls, Replied(c, "forwarded"), NEW node \in call[c].reply.tree,
                      \A k \in DOMAIN AsReceived(Msg(c), node.part) : Ordinary(AsReceived(Msg(c), node.part)[k])
               PROVE  LET inner == AsReceived(Msg(c), node.part)
                          body == BodyText(inner)
                      IN /\ \/ node.body = <<body[1], IF body[2] = 0 THEN 0 ELSE node.part + body[2]>>
                            \/ node.body[2] # 0 /\ ~Decodes(Msg(c)[node.body[2]])
                            \/ body[2] # 0 /\ ~Readable(inner[body[2]])
                         /\ node.attachments = {node.part + a.part : a \in Listed(inner)}
    BY DEF ForwardReadsAlike
  <2> DEFINE msg == Msg(c)
             asked == call[c].asks
             m == ResolveMaxDepth(asked.depth, asked.ceiling)
  <2>1. IsMessage(msg) /\ Attached(msg, asked.part) /\ asked.depth \in Nat /\ asked.ceiling \in Nat
        /\ call[c].reply.tree = Forwarded(msg, asked.part, m)
    BY <1>1, TreeIs DEF Tree
  <2>2. m \in Nat
    <3> DEFINE depth == asked.depth
               ceiling == asked.ceiling
    <3>1. depth \in Nat /\ ceiling \in Nat BY <2>1
    <3> HIDE DEF depth, ceiling
    <3>2. ResolveMaxDepth(depth, ceiling) \in Nat BY <3>1, ResolvedDepth
    <3> QED BY <3>2 DEF depth, ceiling
  <2> HIDE DEF m
  <2>3. PICK i \in DOMAIN msg : node = Node(msg, Depth(msg, asked.part, i), i) BY <2>1, <2>2, ForwardedIs
  <2>4. /\ node.part = i /\ node.body = LevelBody(msg, i) /\ node.attachments = LevelAttachments(msg, i)
    BY <2>3 DEF Node
  <2>5. i \in 1 .. Len(msg) BY <2>1, <2>3, MessageShape
  <2> QED BY <2>1, <2>4, <2>5, SameBody, SameAttachments
<1> QED BY <1>1, ReadsAlways, UnfoldsAlways, PTL
================================================================================
