------------------------------ MODULE MessageReads ------------------------------
(* The tools that read mail: get_thread, get_message, get_full_body,              *)
(* list_attachments, parse_forwarded_attachment, download_attachment and          *)
(* search_threads, over one account. A thread is one message here (what the rows  *)
(* of a longer thread do to each other is CacheService's), so both have one id.   *)
(* Calls run concurrently; each await is the end of an action.                    *)
EXTENDS Parts, SequencesExt

CONSTANTS Messages,    \* the messages, and their threads
          Mail,        \* the contents the mailbox may have: functions from Messages to sequences of parts
          Calls,       \* the calls of the run
          Plans,       \* the requests each call may be: a function from Calls to sets of requests
          Paths,       \* the values of save_to
          MaxListed,   \* bound: results of a search
          MaxFaults    \* bound: requests, cache calls and writes that fail, tasks that panic

(* The schemas and the arms of dispatch: what the tools read out of a request. An *)
(* attachment id is never the id of no part. And what Gmail holds are messages.   *)
ASSUME ReadsAssumption ==
  /\ MaxListed \in Nat /\ MaxFaults \in Nat
  /\ \A c \in Calls : \A asked \in Plans[c] :
       /\ asked.msg \in Messages
       /\ asked.tool = "get_full_body" => asked.want \in {"both", "text", "html"}
       /\ asked.tool = "parse_forwarded_attachment" =>
            asked.part \in Nat \ {0} /\ asked.depth \in Nat /\ asked.ceiling \in Nat
  /\ \A held \in Mail : \A m \in Messages : IsMessage(held[m])

Nothing == <<"absent", 0>>                      \* Option::None of a text

VARIABLES mail,        \* what Gmail holds: parts of each message (external)
          caching,     \* [cache] enabled
          row,         \* the row of each message in the cache
          call,        \* request, control point and what was read so far
          file,        \* the files at Paths
          faults

mailVars == <<mail, caching>>
vars == <<mailVars, row, call, file, faults>>

--------------------------------------------------------------------------------
(* The cache's rows (cache/queries.rs). `id` tells rows stored under the message's*)
(* own id from the rows insert_thread_metadata keys "<thread>::<index>".          *)

NoRow == [id |-> "none", text |-> Nothing, html |-> Nothing, attachments |-> {}]

(* encode_full_thread, insert_thread: the one collapsed body; body_html is NULL.  *)
FullRow(read) == [id |-> "message", text |-> read.body, html |-> Nothing, attachments |-> read.attachments]

(* A full row is not downgraded. *)
SummaryRow(m) == IF row[m].text # Nothing THEN row[m] ELSE [NoRow EXCEPT !.id = "index"]

(* Mutant: a row is a hit whether or not its body was ever fetched. *)
AnyRowHits(m) == row[m].id # "none"

ThreadHit(m) == row[m].id # "none" /\ row[m].text # Nothing

BodyHit(m) == row[m].id = "message" /\ row[m].text # Nothing

--------------------------------------------------------------------------------
(* Requests. `deep` is max_depth and the ceiling, `part` the attachment asked for.*)

Idle == [tool |-> "none", msg |-> CHOOSE m \in Messages : TRUE]
NoReply == [kind |-> "none"]
Failed(why) == [kind |-> "error", why |-> why]

Thread(body, attachments) == [kind |-> "read", body |-> body, attachments |-> attachments]

(* Summaries have ids and headers only. A row keyed by position gives its key as  *)
(* the message's id. *)
Summary(id) == [kind |-> "summary", id |-> id]

(* part_id keeps one of the two. *)
Bodies(b, want) == [kind |-> "bodies",
                    text |-> IF want \in {"both", "text"} THEN b.text ELSE Nothing,
                    html |-> IF want \in {"both", "html"} THEN b.html ELSE Nothing]

AsSent(leaf) == IF leaf = 0 THEN Nothing ELSE <<"as is", leaf>>

Init ==
  /\ mail \in Mail /\ caching \in BOOLEAN
  /\ row = [m \in Messages |-> NoRow]
  /\ call = [c \in Calls |-> [at |-> "idle", asks |-> Idle, order |-> <<>>, tasks |-> <<>>,
                            byId |-> <<>>, reply |-> NoReply]]
  /\ file = [p \in Paths |-> <<>>]
  /\ faults = 0

Msg(c) == mail[call[c].asks.msg]

GoTo(c, at) == call' = [call EXCEPT ![c].at = at]
Reply(c, r) == call' = [call EXCEPT ![c].at = "done", ![c].reply = r]
Fault == faults < MaxFaults /\ faults' = faults + 1

CachedTools == {"get_thread", "list_attachments", "get_thread_metadata", "get_full_body"}

(* resolve_max_depth is applied before anything is fetched. *)
Begin(c) ==
  /\ call[c].at = "idle"
  /\ \E asked \in Plans[c] :
       call' = [call EXCEPT ![c].asks = asked,
                            ![c].at = IF asked.tool = "search_threads" THEN "list"
                                      ELSE IF asked.tool = "download_attachment" THEN "download"
                                      ELSE IF caching /\ asked.tool \in CachedTools THEN "lookup" ELSE "fetch"]
  /\ UNCHANGED <<mailVars, row, file, faults>>

--------------------------------------------------------------------------------
(* One read through the cache (gmail/service.rs).                                 *)

Asks(c, tools) == call[c].asks.tool \in tools
FullThread == {"get_thread", "list_attachments"}

HitThread(c) ==
  LET r == row[call[c].asks.msg] IN
  /\ call[c].at = "lookup" /\ Asks(c, FullThread) /\ ThreadHit(call[c].asks.msg)
  /\ Reply(c, Thread(r.text, r.attachments))
  /\ UNCHANGED <<mailVars, row, file, faults>>

HitSummary(c) ==
  LET r == row[call[c].asks.msg] IN
  /\ call[c].at = "lookup" /\ Asks(c, {"get_thread_metadata"}) /\ r.id # "none"
  /\ Reply(c, Summary(r.id))
  /\ UNCHANGED <<mailVars, row, file, faults>>

HitBodies(c) ==
  /\ call[c].at = "lookup" /\ Asks(c, {"get_full_body"}) /\ BodyHit(call[c].asks.msg)
  /\ Reply(c, Bodies(row[call[c].asks.msg], call[c].asks.want))
  /\ UNCHANGED <<mailVars, row, file, faults>>

Miss(c) ==
  LET m == call[c].asks.msg IN
  /\ call[c].at = "lookup"
  /\ Asks(c, FullThread) => ~ThreadHit(m)
  /\ Asks(c, {"get_thread_metadata"}) => row[m].id = "none"
  /\ Asks(c, {"get_full_body"}) => ~BodyHit(m)
  /\ GoTo(c, "fetch")
  /\ UNCHANGED <<mailVars, row, file, faults>>

(* What is fetched is parsed, and stored if it is a thread, before it is returned. *)
FetchThread(c) ==
  LET read == ParseMessage(Msg(c)) IN
  /\ call[c].at = "fetch" /\ Asks(c, FullThread)
  /\ IF caching THEN GoTo(c, "store") ELSE Reply(c, Thread(read.body, read.attachments))
  /\ UNCHANGED <<mailVars, row, file, faults>>

FetchSummary(c) ==
  /\ call[c].at = "fetch" /\ Asks(c, {"get_thread_metadata", "get_thread_minimal"})
  /\ IF caching /\ Asks(c, {"get_thread_metadata"}) THEN GoTo(c, "store") ELSE Reply(c, Summary("message"))
  /\ UNCHANGED <<mailVars, row, file, faults>>

StoreThread(c) ==
  LET read == ParseMessage(Msg(c)) IN
  /\ call[c].at = "store" /\ Asks(c, FullThread)
  /\ row' = [row EXCEPT ![call[c].asks.msg] = FullRow(read)]
  /\ Reply(c, Thread(read.body, read.attachments))
  /\ UNCHANGED <<mailVars, file, faults>>

StoreSummary(c) ==
  /\ call[c].at = "store" /\ Asks(c, {"get_thread_metadata"})
  /\ row' = [row EXCEPT ![call[c].asks.msg] = SummaryRow(call[c].asks.msg)]
  /\ Reply(c, Summary("message"))
  /\ UNCHANGED <<mailVars, file, faults>>

(* Single messages and labels are never stored. *)
FetchMessage(c) ==
  /\ call[c].at = "fetch" /\ Asks(c, {"get_message"})
  /\ LET got == ParseFormat(Msg(c), call[c].asks.format) IN
     Reply(c, IF call[c].asks.format = "full" THEN Thread(got.body, got.attachments) ELSE Summary("message"))
  /\ UNCHANGED <<mailVars, row, file, faults>>

FetchBodies(c) ==
  /\ call[c].at = "fetch" /\ Asks(c, {"get_full_body"})
  /\ LET b == ExtractBodyParts(Msg(c)) IN
     Reply(c, Bodies([text |-> AsSent(b.text), html |-> AsSent(b.html)], call[c].asks.want))
  /\ UNCHANGED <<mailVars, row, file, faults>>

FetchLabels(c) ==
  /\ call[c].at = "fetch" /\ Asks(c, {"list_labels"})
  /\ Reply(c, [kind |-> "labels"])
  /\ UNCHANGED <<mailVars, row, file, faults>>

FetchForwarded(c) ==
  LET found == FindAttachmentMimeType(Msg(c), call[c].asks.part) IN
  /\ call[c].at = "fetch" /\ Asks(c, {"parse_forwarded_attachment"})
  /\ CASE found = "absent" -> Reply(c, Failed("NotFound"))
       [] found = "rfc822" -> GoTo(c, "download")
       [] OTHER -> Reply(c, Failed("UnsupportedMimeType"))
  /\ UNCHANGED <<mailVars, row, file, faults>>

(* A request that fails, an answer that does not parse, a cache call that fails:  *)
(* `?` at each of them ends the call.                                             *)
Break(c) ==
  /\ call[c].at \in {"lookup", "fetch", "store", "download", "list"}
  /\ Fault /\ Reply(c, Failed("upstream or cache"))
  /\ UNCHANGED <<mailVars, row, file>>

--------------------------------------------------------------------------------
(* Attachments (gmail/attachments.rs, tools/download_attachment.rs).              *)

(* The bytes of one part, padded or not; an unknown id is Gmail's 404. A forwarded*)
(* message that does not parse at its top is an error of the call.                *)
Download(c) ==
  LET asked == call[c].asks IN
  /\ call[c].at = "download"
  /\ IF FindAttachmentMimeType(Msg(c), asked.part) = "absent"
     THEN Reply(c, Failed("NotFound"))
     ELSE IF asked.tool = "parse_forwarded_attachment"
     THEN Reply(c, IF Readable(Msg(c)[asked.part])
                   THEN [kind |-> "forwarded",
                         tree |-> Forwarded(Msg(c), asked.part, ResolveMaxDepth(asked.depth, asked.ceiling))]
                   ELSE Failed("Parse"))
     ELSE IF asked.path \in Paths THEN GoTo(c, "open")
     ELSE Reply(c, [kind |-> "data", part |-> asked.part])
  /\ UNCHANGED <<mailVars, row, file, faults>>

(* Mutant: the file is opened for writing whether it exists or not. *)
OpenTruncating(c) ==
  /\ call[c].at = "open"
  /\ file' = [file EXCEPT ![call[c].asks.path] = <<call[c].asks.part, "partial">>]
  /\ GoTo(c, "write")

(* create_new *)
OpenFile(c) ==
  LET p == call[c].asks.path IN
  /\ call[c].at = "open"
  /\ IF file[p] # <<>> THEN Reply(c, Failed("exists")) /\ UNCHANGED file
     ELSE file' = [file EXCEPT ![p] = <<call[c].asks.part, "partial">>] /\ GoTo(c, "write")

(* write_all and sync_all. What a failed write leaves is left there.              *)
WriteFile(c) ==
  LET p == call[c].asks.path IN
  /\ call[c].at = "write"
  /\ \/ /\ file' = [file EXCEPT ![p] = <<call[c].asks.part, "whole">>] /\ UNCHANGED faults
        /\ Reply(c, [kind |-> "saved", path |-> p, part |-> call[c].asks.part])
     \/ Fault /\ UNCHANGED file /\ Reply(c, Failed("write"))

Save(c) == \/ OpenFile(c) /\ UNCHANGED <<mailVars, row, faults>>
           \/ WriteFile(c) /\ UNCHANGED <<mailVars, row>>

--------------------------------------------------------------------------------
(* search_threads: one list, then one task per result (tools/search_threads.rs).  *)

(* Task k reads the k-th result, as get_thread_metadata does, and carries along   *)
(* the snippet and history id of that result, which k stands for.                 *)
NewTasks(listed) == [k \in DOMAIN listed |-> [at |-> IF caching THEN "lookup" ELSE "fetch", got |-> NoReply]]

(* The order is Gmail's, which is not relied on to name a thread once.            *)
List(c) ==
  /\ call[c].at = "list"
  /\ \E n \in 0 .. MaxListed : \E listed \in [1 .. n -> Messages] :
       call' = [call EXCEPT ![c].order = listed,
                            ![c].tasks = NewTasks(listed),
                            ![c].byId = <<>>,
                            ![c].at = IF n = 0 THEN "done" ELSE "hydrate",
                            ![c].reply = IF n = 0 THEN [kind |-> "page", items |-> <<>>] ELSE @]
  /\ UNCHANGED <<mailVars, row, file, faults>>

TaskAt(c, k, at) == call[c].at = "hydrate" /\ call[c].tasks[k].at = at
TaskGoesTo(c, k, at) == call' = [call EXCEPT ![c].tasks[k].at = at]

(* A task ends and is joined: its outcome goes into the map under its thread, in  *)
(* place of one that is there.                                                    *)
Insert(map, id, result) == [x \in {id} \cup DOMAIN map |-> IF x = id THEN result ELSE map[x]]

TaskEnds(c, k, got) ==
  call' = [call EXCEPT ![c].tasks[k] = [at |-> "back", got |-> got],
                       ![c].byId = Insert(@, call[c].order[k], [snippet |-> k, outcome |-> got])]

TaskHit(c, k) ==
  LET r == row[call[c].order[k]] IN
  /\ TaskAt(c, k, "lookup") /\ r.id # "none"
  /\ TaskEnds(c, k, Summary(r.id))
  /\ UNCHANGED <<mailVars, row, file, faults>>

TaskMiss(c, k) ==
  /\ TaskAt(c, k, "lookup") /\ row[call[c].order[k]].id = "none"
  /\ TaskGoesTo(c, k, "fetch")
  /\ UNCHANGED <<mailVars, row, file, faults>>

TaskFetch(c, k) ==
  /\ TaskAt(c, k, "fetch")
  /\ IF caching THEN TaskGoesTo(c, k, "store") ELSE TaskEnds(c, k, Summary("message"))
  /\ UNCHANGED <<mailVars, row, file, faults>>

TaskStore(c, k) ==
  LET m == call[c].order[k] IN
  /\ TaskAt(c, k, "store")
  /\ row' = [row EXCEPT ![m] = SummaryRow(m)]
  /\ TaskEnds(c, k, Summary("message"))
  /\ UNCHANGED <<mailVars, file, faults>>

TaskBreaks(c, k) ==
  /\ call[c].at = "hydrate" /\ call[c].tasks[k].at # "back"
  /\ Fault /\ TaskEnds(c, k, Failed("upstream or cache"))
  /\ UNCHANGED <<mailVars, row, file>>

(* A task that panics ends the call at once, and the other tasks with it; rows    *)
(* they had handed to the cache may still be written.                             *)
TaskPanics(c, k) ==
  LET others == {j \in DOMAIN call[c].order \ {k} : call[c].tasks[j].at = "store"} IN
  /\ call[c].at = "hydrate" /\ call[c].tasks[k].at # "back"
  /\ Fault /\ Reply(c, Failed("panicked"))
  /\ \E late \in SUBSET {call[c].order[j] : j \in others} :
       row' = [m \in Messages |-> IF m \in late THEN SummaryRow(m) ELSE row[m]]
  /\ UNCHANGED <<mailVars, file>>

Hydrate(c) == \E k \in DOMAIN call[c].order :
                \/ TaskHit(c, k) \/ TaskMiss(c, k) \/ TaskFetch(c, k) \/ TaskStore(c, k)
                \/ TaskBreaks(c, k) \/ TaskPanics(c, k)

Item(id, result) == [thread |-> id, snippet |-> result.snippet, read |-> result.outcome]

(* Mutant: the page is what the map gives when it is walked. *)
PageAsCollected(c) ==
  LET ids == SetToSeq(DOMAIN call[c].byId) IN [i \in DOMAIN ids |-> Item(ids[i], call[c].byId[ids[i]])]

Page(c) == [i \in DOMAIN call[c].order |-> Item(call[c].order[i], call[c].byId[call[c].order[i]])]

(* by_id.remove, once per place of the list: what was taken for an earlier place  *)
(* is gone.                                                                       *)
Found(c, i) == LET order == call[c].order IN
               order[i] \in DOMAIN call[c].byId \ {order[j] : j \in 1 .. i - 1}

(* The first place in list order that is missing or failed fails the page. *)
Assemble(c) ==
  LET order == call[c].order IN
  /\ call[c].at = "hydrate" /\ \A k \in DOMAIN order : call[c].tasks[k].at = "back"
  /\ Reply(c, IF \A i \in DOMAIN order : Found(c, i) /\ call[c].byId[order[i]].outcome.kind = "summary"
              THEN [kind |-> "page", items |-> Page(c)]
              ELSE Failed("hydration"))
  /\ UNCHANGED <<mailVars, row, file, faults>>

--------------------------------------------------------------------------------
(* What happens to rows meanwhile: a body purge, and their deletion by an eviction*)
(* or a reseed. Rows marked deleted, and stubs, are in CacheStore.                *)

PurgeBody(m) ==
  /\ row[m].text # Nothing
  /\ row' = [row EXCEPT ![m] = [NoRow EXCEPT !.id = row[m].id]]
  /\ UNCHANGED <<mailVars, call, file, faults>>

DropRow(m) ==
  /\ row[m] # NoRow
  /\ row' = [row EXCEPT ![m] = NoRow]
  /\ UNCHANGED <<mailVars, call, file, faults>>

Step(c) == \/ Begin(c) \/ HitThread(c) \/ HitSummary(c) \/ HitBodies(c) \/ Miss(c)
           \/ FetchThread(c) \/ FetchSummary(c) \/ StoreThread(c) \/ StoreSummary(c)
           \/ FetchMessage(c) \/ FetchBodies(c) \/ FetchLabels(c) \/ FetchForwarded(c)
           \/ Download(c) \/ Save(c) \/ List(c) \/ Hydrate(c) \/ Assemble(c)

Next == (\E c \in Calls : Step(c) \/ Break(c)) \/ \E m \in Messages : PurgeBody(m) \/ DropRow(m)

Spec == Init /\ [][Next]_vars

--------------------------------------------------------------------------------
(* Properties *)

Replied(c, kind) == call[c].reply.kind = kind

(* What get_thread, list_attachments and get_message show of a message is what    *)
(* its content gives, whether the rows answered or Gmail did, and whatever was    *)
(* purged, dropped or stored over by a lighter read in between; and a message's   *)
(* own plain text is never replaced by something rendered.                        *)
HitsReadAsFetched ==
  \A c \in Calls :
    LET read == ParseMessage(Msg(c)) IN
    /\ Replied(c, "read") => call[c].reply = Thread(read.body, read.attachments)
    /\ Replied(c, "bodies") /\ call[c].asks.want # "html" /\ TextLeaf(Msg(c), "plain") # 0
         => call[c].reply.text = AsSent(TextLeaf(Msg(c), "plain"))

(* get_full_body: "Each representation is present only when the message has it",  *)
(* and, on a hit, "the stored bodies are returned". Violated: insert_thread keeps *)
(* the collapsed text and no html.                                                *)
RepresentationsAsSent ==
  \A c \in Calls :
    Replied(c, "bodies") =>
      LET b == ExtractBodyParts(Msg(c)) IN
      call[c].reply = Bodies([text |-> AsSent(b.text), html |-> AsSent(b.html)], call[c].asks.want)

(* The message inside part `top`, as if it had been received by itself: the parts *)
(* that follow, as far as they stand in it.                                       *)
Inner(msg, top) == {i \in DOMAIN msg : top \in Enclosing(msg)[i]}
AsReceived(msg, top) ==
  [k \in 1 .. Cardinality(Inner(msg, top)) |-> [msg[top + k] EXCEPT !.within = @ - top]]

(* What both parsers are meant for: names in the usual places.                    *)
Ordinary(p) ==
  /\ p.name \in {"none", "attachment", "type"} /\ (p.mime = "multipart" => p.name = "none")
  /\ p.mime = "rfc822" => p.name # "none"

(* A forwarded message reads as it would have if it had been received: the parser *)
(* of raw bytes (mime.rs) finds the attachments that the parser of API answers    *)
(* (threads.rs) finds, and the body, at every level of the tree. The bodies part  *)
(* only over a leaf that one of the two shows and the other's decoder refuses: an *)
(* answer that is padded, empty, broken or held apart, or bytes that are broken.  *)
ForwardReadsAlike ==
  \A c \in Calls :
    Replied(c, "forwarded") =>
      \A node \in call[c].reply.tree :
        LET msg == Msg(c)
            inner == AsReceived(msg, node.part)
            body == BodyText(inner)
        IN (\A k \in DOMAIN inner : Ordinary(inner[k])) =>
             /\ \/ node.body = <<body[1], IF body[2] = 0 THEN 0 ELSE node.part + body[2]>>
                \/ node.body[2] # 0 /\ ~Decodes(msg[node.body[2]])
                \/ body[2] # 0 /\ ~Readable(inner[body[2]])
             /\ node.attachments = {node.part + a.part : a \in Listed(inner)}

(* The chain of attached messages around part i, itself included. *)
Chain(msg, top, i) ==
  {j \in Enclosing(msg)[i] \cup {i} : msg[j].mime = "rfc822" /\ (j = top \/ top \in Enclosing(msg)[j])}

(* The tree holds each attached message that parses, at its own depth, down to    *)
(* the depth asked for and never below the server's ceiling.                      *)
ForwardsWithinDepth ==
  \A c \in Calls :
    Replied(c, "forwarded") =>
      LET msg == Msg(c)
          asked == call[c].asks
          floor == IF asked.depth = 0 THEN DefaultMaxDepth ELSE asked.depth
          within == {i \in DOMAIN msg : msg[i].mime = "rfc822" /\ asked.part \in Chain(msg, asked.part, i)
                                        /\ \A j \in Chain(msg, asked.part, i) : Readable(msg[j])}
      IN {<<node.depth, node.part>> : node \in call[c].reply.tree} =
           {<<Cardinality(Chain(msg, asked.part, i)), i>> :
              i \in {j \in within : LET d == Cardinality(Chain(msg, asked.part, j)) IN
                                    d = 1 \/ (d <= floor /\ d <= asked.ceiling)}}

(* A path a call reported as saved holds the attachment of that call, whole, even *)
(* when another call was sent to the same path, before, after or meanwhile.       *)
SavedIsWhole ==
  \A c \in Calls : Replied(c, "saved") => file[call[c].reply.path] = <<call[c].asks.part, "whole">>

(* A page has one item for each result of Gmail's list, at its place: its own     *)
(* thread and snippet with what its own task brought, which was no failure; the   *)
(* tasks end in any order, and a page that would have to skip or repeat a result  *)
(* is refused.                                                                    *)
PageInListOrder ==
  \A c \in Calls :
    Replied(c, "page") =>
      /\ DOMAIN call[c].reply.items = DOMAIN call[c].order
      /\ \A i \in DOMAIN call[c].order :
           LET task == call[c].tasks[i] IN
           /\ call[c].reply.items[i] = [thread |-> call[c].order[i], snippet |-> i, read |-> task.got]
           /\ task.at = "back" /\ task.got.kind = "summary"
================================================================================
