# TLA+ models of google-personal-mcp

`google-personal-mcp` is a daemon that offers Gmail (and calendar, contacts and
drive) of several accounts to MCP clients. Most of its tools are a request and
an answer. What is hard in it happens between requests: a SQLite cache kept
current from Gmail's history while reads go on, OAuth tokens refreshed by
whichever call gets there first and written to disk on the way, sends
deduplicated by time, budgets, bearer tokens that rotate while requests are
under way, account files that several processes edit, and an audit log that has
to survive a crash. The modules in this directory model those parts, TLC checks
them on small instances, and TLAPS proves most of their safety properties for every
instance.

Paths below are relative to the repository's `src/` crate directory unless they
begin with `docs/`; `ADR-nnnn` is `docs/adr/nnnn-*.md`.

## 1. Inventory

State is per account unless said otherwise. "Await" means a tokio await: the
only place where another task can run in between, or where the future of a call
can be dropped.

| Component | Code | State | Operations | What is hard | What makes it correct |
|---|---|---|---|---|---|
| Cache store | `cache/queries.rs`, `cache/mod.rs`, `cache/migrations/` | tables `messages`, `message_labels`, `account_state`, `query_cache` | one `conn.call` each: lookups, inserts, history records, reseed, invalidations | each call is a transaction, sequences of calls are not; rows hold more or less of a message | a hit is never older than the watermark, and reads as what Gmail would have sent |
| Sync driver | `cache/sync.rs`, `gmail/history.rs`, `gmail/profile.rs` | locals of a pass, the watermark | `sync_account`: first touch, incremental pages, reseed on 404; a background task per account | passes of the task and of `sync_on_read` reads overlap; failure or crash between records, invalidation and watermark; page cap | no record skipped, watermark monotone and behind the mailbox, catches up |
| Cache-aware reads | `gmail/service.rs` | locals of a read | `get_thread`, `get_thread_metadata`, `list_threads`: sync, lookup, fetch, write back | a pass or another read between any two awaits | what is served and what is written back is not stale |
| Eviction, purge, invalidation | `cache/eviction.rs`, `tools/cache_invalidate.rs` | – | delete queries, rows, bodies, labels | run between the awaits of reads and passes | never turn a row without its body into a hit |
| Token manager | `auth/tokens/` | `RwLock<TokenState>`, token file, temporary file | `access_token`, `force_refresh`, `persist_atomic` | calls race for the lock; Google rotates refresh tokens; crash or dropped future between request, file and memory | one refresher, one request for a renewal, durable before used |
| Request wrapper | `gmail/client.rs` (and the three like it), `http.rs` | – | quota check, attempts with backoff, forced refresh on 401, attempts again | a lost answer or a 5xx does not say whether the request took effect | every attempt is counted; the second round carries a newer token |
| Quota | `rate_limit.rs`, `project_quota.rs` | token buckets, daily counters (global map) | `try_acquire`, refill, daily reset | two budgets charged one after the other; integer refill; midnight | never more than capacity and refill; a hint that is tight |
| Send deduplication | `tools/destructive.rs`, `gmail/send_email.rs` | map of sends by hash and time | `should_send`, `record_send` | check and record are apart; retried requests; clock | nobody who asks after a "sent" gets a second copy within the window |
| HTTP transport | `server/mod.rs`, `transport/session.rs`, `http_auth/` | token set behind `RwLock`, buckets by address, map of sessions | middleware: check, validate, charge; SIGHUP reload; sweeps | check and charge apart; reloads race requests and edits; sweeper against touch | a removed token is not honoured, guesses are bounded, a rotation lands |
| Accounts on disk | `auth/cli.rs`, `auth/pkce_flow.rs`, `config/accounts.rs`, `perm_check.rs`, `cache/migrations.rs`, `tools/purge_account.rs`, `lib.rs` | accounts.toml, token files, cache files, their modes | auth commands, start of the daemon, purge | several processes, no lock; a crash between any two steps | the registry stays valid unless two write it at once, what was granted is served, a purge forgets, the next start works |
| Configuration | `config/` | config.toml | load, validate, resolve scopes and capabilities | layers of overrides | a file is refused rather than half understood |
| Tools and dispatch | `server/`, `tools/metadata.rs` | – | one arm per tool: arguments, gates, audit rows, reply | thirty arms alike but not equal | nothing changes but what a request asked for |
| Audit log | `audit.rs`, `audit_retention.rs` | append-only files | synced intent, outcome, rotation, sweep | crash between intent, call and outcome; two writers; sweep at period ends | no change without a durable intent |
| Fan-out and batches | `tools/fanout.rs`, `tools/batch.rs` | – | semaphore, per-account and total timeout, collected envelope; indexed slots | drops futures anywhere in the other components | every account or item has one entry |
| Reading mail | `tools/get_*.rs`, `tools/search_threads.rs`, `tools/download_attachment.rs`, `gmail/threads.rs`, `gmail/mime.rs` | files it saves | parse, hydrate, save | two parsers of the same thing; rows that hold less than Gmail sent; results in any order | hits read as fetched, a forward reads as if received |
| Status tools, composition, drive, metrics | see section 6 | – | – | little that interleaves | – |

How they interact: a tool call goes dispatch → (fan-out) → `GmailService` →
cache store and sync driver → request wrapper → token manager → Google. Calls of
one account share the SQLite connection, the `TokenState` lock and the budgets;
all calls share the audit log. The background sync, eviction, body purge, session
and audit sweeps are tasks of their own; auth commands are processes of their
own, which share only files with the daemon. A fan-out timeout, or a client that
goes away, drops the future of a call at whichever await it is in.
`PROJECT.json` lists the hazards that follow, each at its line, with the
properties that cover it.

## 2. Modules

    Mailbox <- CacheStore <- HistorySync <- CacheService <- CacheServiceProofs
    TokenManager, Induction <- TokenManagerProofs   (INSTANCE CredentialCell)
    Upstream <- SendEmail <- SendEmailProofs
    HttpServer <- HttpServerProofs
    Config <- Accounts, Induction <- AccountsProofs
    Tools <- ServiceTools, AuditLog <- ToolCalls <- ToolCallsProofs
    Parts <- MessageReads, Induction <- MessageReadsProofs

`<-` is EXTENDS. Each specification has a module `MC...` that
holds its symmetry sets, plans and the constants a cfg cannot write. The chains
meet where the code does by what they assume of each other: a dropped future is
an action of its own in each; a refresh of TokenManager is, in Accounts, the
request and the writing of the token file, without the lock inside the daemon; a
request of SendEmail meets a 401 without the inside of the refresh;
rows of MessageReads appear and disappear without the passes that cause it.

Operators whose comment begins with "Mutant" are not part of a specification:
they are what a plausible bug would turn one of its definitions into, and
`PROJECT.json` names, for each property, the one that breaks it.

Several modules take a CONSTANT `Plans`: a set of initial situations and work
lists of which a behaviour follows one. That keeps the interleavings of each
scenario complete and the scenarios apart.

**Mailbox** (external). One account's mailbox is its history: `log` holds every
change, the history id is its length, and the contents at any id are a function
of a prefix. So "no older than" is a question about a prefix, and the
`users.history.list`, `threads.get` and `threads.list` answers all come from one
place. `horizon` is how far back Gmail remembers history.

**CacheStore**. `watermark`, `row`, `summary` and `memo` are the tables. Every
transaction of `queries.rs` is one operator. A row's headers and body never
change upstream and are abstracted to how much of them is there (`none`, `stub`,
`headers`, `full`); labels, soft deletion and the watermark are exact. Rows of
`insert_thread_metadata` have keys no history record ever names and live in
`summary`, as the id they were fetched at.

**HistorySync**. One pass per task, a step per await: read the watermark, first
touch or list a page, apply its records one at a time, the next page or the page
cap, invalidate queries, advance the watermark, or reseed on 404. Nothing
serialises passes, as in the code. `fetchedAt`, `missed` and `reached` are
history variables that only properties read: `missed` holds the threads for which
something happened that no pass will ever replay - a write-back of rows
read before a change a pass had already applied, or a first watermark installed
over older rows. `ThreadHitCoherent` is about the other threads.

**CacheService**. The reads, a step per await and `fetch_labels` message by
message, over background passes, `cache_invalidate`, eviction, body purge, query
expiry, restarts and dropped futures. CONSTANTS select which reads and which
upkeep a run explores.

**TokenManager**. One account's token (accounts share only a read-only map).
`call` holds the program counter and locals of each tool call through
`send_with_401_fallback`, `access_token` and `refresh_locked`; `mem` and `lock`
are the `RwLock<TokenState>`; `tmp` and `disk` are the two files of
`write_atomic_0600`, with truncating and filling as two steps of `write`. tokio
runs file operations in a blocking pool, so a dropped call leaves the one it had
handed over in `orphans`, and a rename takes a file along with whoever is still
filling it. `google` is the token endpoint: it accepts one refresh token, may
replace it with every grant, and refuses replaced ones. Time is a counter;
`Tick` is the only action that moves it. `asked` is a history variable: the
requests to Google, beyond those that came to nothing, since the token in memory
was last about to expire, for that only (forced refreshes ask besides).

**CredentialCell**. What the token manager promises, in two actions: a newer
credential is made durable while the durable one is in use, and then it is put
to use. `TokenManager!CellSpec` is this specification under the mapping
`used <- mem.token`, `durable <- disk.token`.

**Upstream**. One request through the wrapper the four clients share:
`quota_check` (daily counter of the project, if wired, then the bucket of the
account), up to `MaxRetries + 1` attempts with `Retry-After` or backoff delays,
the forced refresh on 401 and one more round. Buckets use a monotonic clock in
ticks and the integer arithmetic of the code (micro-units); the daily counter
uses the wall clock, which may be set back (`skew`).

**SendEmail**. `send_email` over Upstream: validation, `should_send`, the
prefetch of a reply's headers, `messages.send`, `record_send`, with callers that
are dropped, restarts that forget the memo, and reads of all four services beside
it. `should_send` and `record_send` read the clock and then wait for the lock of
the map, so each is two steps: `Ask` and `Check`, `Posted` and `Record`.
`delivered` is what Gmail sent, `knew` which callers had been told "sent"; `late`
and `undone` mark the calls and messages for which the order of the lock was not
the order of the clock readings. Only properties read these four.

**HttpServer**. Start on stdio, a loopback or an open address; the middleware as
three steps (throttle check, validation, charge); edits of `http_auth.toml`,
SIGHUP, and a reload in two steps (read, swap); sweeps of buckets; the session
store. `seen` holds the tokens that were in force at some moment of a request.

**Config**, **Accounts**. Config says which `config.toml` loads and what it
resolves to. Accounts is everything that writes account files: each `auth`
subcommand as a process, step by step through listener, consent, exchange, token
file, registry; the start of the daemon (permission checks, tokens, directories,
cache files, migrations, listening); its refreshes; and `purge_account`. Every
process that writes `accounts.toml`, or the token file of an alias, writes the same
temporary file first (`config/accounts.rs:60`, `auth/cli.rs:196`,
`auth/tokens/manager.rs:224`), without a lock. So a write is three steps: `Opens`
creates or truncates the temporary file, `Fill` writes the text, `Renames` puts it
in place. `pen` is the open file of each writer, which goes where its file goes: a
text may land over what another process has just written there, or in the file
itself once another process renamed it. What results is one of the two texts, the
one over the rest of the other, an empty file, or one that does not parse
(`Overlaid`, `Garbled`, `Torn`, `Blank`). `promised` holds what an operator was told
is granted, `touched` what was written since a purge looked, `clashed` the files that
two writers had open together; only properties read them.

**Tools**, **ServiceTools**. The tool surface as data: schemas, classification,
arguments each arm reads and how, error codes; and the argument checks of the
calendar and contacts tools. Arguments are abstracted to the kinds extraction and
the tools tell apart.

**AuditLog**, **ToolCalls**. AuditLog has the files: rotation by period or size,
a row as two writes (text, newline), the fsync of intent rows, the page cache
lost at power failure, and the retention sweep. ToolCalls runs concurrent calls
over it: arguments, intent row, body, outcome row, reply; a batch takes its ids in
any order, a fan-out runs accounts under a semaphore and two timeouts.

**Parts**, **MessageReads**. Parts has both parsers as functions of a message,
which is a sequence of parts with the position of a name, what the part's data is in
Gmail's answer and in the bytes of the message, and the part around it. The two
decoders differ: `threads.rs:566` takes unpadded base64url only, so a padded body is
none to it (`Decodes`), while `mime.rs` decodes the bytes by transfer encoding and
charset (`Readable`). MessageReads runs the reading tools over rows that come and go,
fetches that fail, and files. A search (`List`, `NewTasks`) runs a task per result,
each with the steps of `get_thread_metadata`; a task that ends puts its outcome into
the map `byId` under its thread (`TaskEnds`), in whatever order they end, and
`Assemble` takes the results out of the map again in the order of the list. A task
that panics ends the search, and a row another task had handed over may still be
written (`TaskPanics`).

## 3. Runs

Passing runs:

| Run | Question | Properties |
|---|---|---|
| `cache_threads` | Is a cached thread ever older than the watermark, in mid-pass, after failures, restarts, purges, forgotten history? | `ThreadHitCoherent` `ServedThreadCoherent` `WatermarkMonotone` `NoRecordSkipped` |
| `cache_queries` | Is a memoised `threads.list` answer ever served below the watermark, or below one the cache once had, under all upkeep? | `QueryHitFresh` `QueryHitNeverSilentlyStale` |
| `cache_overlap` | What does a cached thread still promise when passes overlap, replay each other's records and move the watermark back; does the cache catch up, and do reads come back? | `HitShowsItsMessages` `EventuallyCaughtUp` `ReadsEnd` |
| `tokens` | Does TokenManager implement CredentialCell, is the file always as good as memory, and do races alone ever get a refresh refused? | `CellSpec` `DiskNotBehind` `NeverLockedOut` |
| `tokens_cancelled` | With dropped futures: serial refreshes, a newer token on the second attempt, one request for a renewal however many queue, no call stuck? | `OneRefresher` `RetryWithNewerToken` `OneRenewal` `CallsEnd` |
| `sends` | What do the window, the budgets and the retries give, with lost answers, dropped callers, restarts and a clock set back? | `SentOnceWithinWindow` `WithinQuota` `HintIsTight` `SendsEnd` |
| `http` | Is a request served only for a token in force, are guesses bounded, does a rotation take effect? | `ServedOnCurrentToken` `GuessesBounded` `RotationLands` |
| `accounts` | Do commands, daemon and purge, wherever they are cut short and however their writes interleave, leave account files that work? | `EditsStayValid` `AddedIsServed` `ServesPrivate` `PurgeForgets` `StartsAgain` `CommandsEnd` |
| `tool_calls` | Does a change have its durable intent row, does nothing change unasked, do replies account for every item, do fan-outs end? | `IntentOutlivesChange` `OnlyAskedFor` `ReplyTruth` `FanoutComplete` `SweepSparesYoungRows` `FanoutEnds` |
| `reads` | Does mail read the same from rows and from Gmail, forwarded or received, and does a page hold each result with its own task's outcome, whatever order they end in? | `HitsReadAsFetched` `ForwardReadsAlike` `ForwardsWithinDepth` `SavedIsWhole` `PageInListOrder` |

Runs that TLC refutes. Each states what a comment of the repository says, and the
counterexample is a run of the code:

| Run | Statement | What happens |
|---|---|---|
| `page_cap` | `cache/sync.rs:110` "remaining events deferred to next tick" | at the page cap the watermark still moves to the mailbox's current id; the unread records are never listed again |
| `cached_body` | `tools/get_message.rs:74` "Each representation is present only when the message has it" | `get_thread` stores the collapsed text and no HTML; `get_full_body` then answers from that row: the HTML is gone, and for a message without plain text its rendering is returned as one |

### Bounds

**Cache.** Two messages of one thread and one label (one message where only one
matters), up to four mailbox changes, one or two readers and the background task.
One thread is enough because no operation of the store relates rows of two
threads; two messages give half-applied threads, stubs beside full rows and
labels read between two awaits; three or four changes give add, remove and a
third change between two points of a pass, over several pages (`PageSize` 1 and
at most `MaxPages` 3) or over one. In `cache_threads` all changes fit under the
page cap: that is the condition under which `NoRecordSkipped` holds, and
`page_cap` is the same property past the cap. Two faults (failure, dropped call,
crash) cover a failure of the pass that repeats a failed one. Passes do not
overlap in `cache_threads` and `cache_queries` (`SyncOnRead = FALSE`): with
overlapping passes `ThreadHitCoherent` does not hold, nor does
`WatermarkMonotone` (section 5); `QueryHitFresh` and `HitShowsItsMessages` do, which
are proved for any number of them. `cache_overlap` has two tasks, each on a pass
after another, over three changes of one message and one fault: enough for one task to
stand before a record of a message that the other has already seen removed. Its reads
are of threads, which pass, look up and fetch message by message; `list_threads` has
after its pass only one lookup and one fetch.

**Tokens.** Three calls (two with cancellation), a clock of two units with an
expiry buffer of one and lifetimes of one and two - so that a granted token can be
near expiry at once, or later, or not at all - four grants and two faults (three
and one). Three calls are one refreshing, one queued behind it and one arriving on
the fast path.

**Sends.** Three callers of two accounts; seven plans: the same message twice with
its recipients in either order beside one of another account, with a fault, with
bad answers; a reply whose prefetch competes with reads; a dry run, a refused
message and reads of other services. A window and a day of two ticks and a clock
of two let a behaviour cross both ends; a bucket of 150 units holds one send (100)
and one read but not two sends; one retry distinguishes attempts that are counted
from attempts that are not.

**HTTP.** Two connections of one address and one of another; a rotation in two
edits with requests of both tokens, unusable files, a missing file, wrong guesses
in a row and together, and each transport. A burst of two with refill one and an
idle time of two make a bucket that is forgotten while not full, if the sweeper
were too eager.

**Accounts.** Two command processes, two accounts, twenty-four plans with up to two
faults and one access token of the daemon that lapses (171 918 states): fresh and populated directories, each command beside one that interferes
with it, purge with retries and beside commands, both umasks, cache files of an old
and of a too new version, and each `config.toml` that is refused.

**Tool calls.** Two concurrent calls in eight pairs, daily and size rotation, two
days, one fault (failed write or power loss), batches of two, a fan-out over two
accounts with one slot. Size rotation at three tokens makes two writers meet a
full file.

**Reads.** A text and a forwarded message of two leaves, of the kinds of name, type
and data that the two parsers tell apart - padded, empty, broken and held apart in
the answer, empty and broken in the bytes - and other trees (nested forwards to depth
three, corrupt parts, names in unusual places); two calls of which one reads what the
other stored, one fault, one path for two downloads. A search lists up to two results
(`MaxListed`), a thread twice included: two tasks are enough for one to end before the
other, to overwrite its entry, and to leave a place with nothing to take. Only one of
the calls searches; what a second would do to its rows, the reads of the other and
`DropRow` do. The run has 795 146 states.

Call identities are symmetric, and so are message identities, where no liveness
is checked; liveness runs use no symmetry. `CHECK_DEADLOCK FALSE` stands where a
plan runs out.

### Fairness

Liveness is checked under `FairSpec` of each module.

* CacheService, TokenManager: steps of a started pass, read or refresh are weakly
  fair: their awaits are local SQL calls, file operations and HTTP requests with
  timeouts. The background ticker is weakly fair, because `tokio::time::interval`
  keeps firing. `FastPath` and `AcquireLock` are strongly fair, because the tokio
  `RwLock` queues waiters in order.
* SendEmail: each step of a call, because requests end with the 30 s timeout of
  the HTTP client (`lib.rs:267`); and the clock while a call sleeps.
* ToolCalls: the timers of a fan-out and its reply; no account need ever answer.
* HttpServer: the SIGHUP task only. Accounts: each command process that is not
  waiting for its operator.

Nothing is assumed of the mailbox, of faults, of upkeep, of operators, or of
clients beginning calls.

## 4. Proofs

All proofs hold for every value of the constants that satisfies the named
assumptions of the modules: page sizes, rates, windows and bounds are natural
numbers, sets are disjoint where the code says so, and what a plan starts from is
something the code can have left behind. The largest is `PlansAssumption` of
Accounts: registries that load, cache files whose tables are those of their
version, and under a private umask no file that others can read; with an
existing file of a newer version or a wide mode a start is refused, which the
runs show. A theorem that needs more says so in its statement: `~Cancels` (no
future is dropped), `~SyncOnRead` (only the background task syncs), `RowsLast`
(nobody evicts rows or invalidates labels, each of which breaks the promise about
hits: section 5), `Unevicted` (nobody evicts rows), `MaxEvents <= MaxPages *
PageSize` (the mailbox's history fits in the pages of one call), `Unhurried` (a bucket is full again by the time the sweeper forgets it: burst <=
2 * window * rate, as with the defaults 10, 60 s and 1 per second; section 5 says
what happens otherwise).

Every safety proof has one shape: an inductive invariant, a lemma per action or
per stage that keeps it, and a last step that draws the property from it. What
the invariants add is the content of the proofs:

**Cache** (`CacheServiceProofs`).

* `Typing`: `TypeOK /\ WatermarkBehindMailbox`. The two are inductive together
  (`Typed`) and not apart: an index into the log that a pass is about to read is
  only in range because `done`, `upto` and the watermark never run ahead of the
  mailbox.
* `QueryFreshness`: `QueryHitFresh`, overlapping passes included. `QueryInv`
  follows the snapshot through a `list_threads` call: at the fetch it is no later
  than the mailbox, at the insert no later than the content, and in the table the
  same. This is why the code must read the watermark before it asks upstream.
* `OnlyTheCapSkips`, `NothingIsSkippedBelowTheCap`: where a pass moves the
  watermark past a record it has not applied, it had read `MaxPages` pages. The
  second is `NoRecordSkipped`.
* `WatermarkNeverMovesBack`, `MemosNeverGoSilentlyStale` (`~SyncOnRead`):
  `WatermarkMonotone` and `QueryHitNeverSilentlyStale`. With one pass at a time,
  what the pass is about to install is never behind what is installed.
* `HitsAreCoherent`, `ServedHitsAreCoherent` (`~SyncOnRead /\ RowsLast`):
  `ThreadHitCoherent` and `ServedThreadCoherent`. A row relates to the mailbox by a
  history id, `Past`: the watermark, or in mid-pass the last record applied.
  `RowsKept` says that a complete row shows its message and each of its labels as
  they were at some id since `Past`, and that beside a complete row no message that
  was there throughout lacks one. A record carries that from one id to the next
  (`RecordKept`), a pass that fails falls back to the watermark, which promises
  less, and the lemmas on the history (`OneChange`, `LabelStays`, `LabelIsSet`) say
  what one change may do. `ReadsOk` keeps the same for the calls between lookup
  and labels, at the watermark of the lookup.
* `HitsShowTheirMessages` (`Unevicted`): `HitShowsItsMessages`, what is left of the two
  when passes overlap. A single `Past` no longer will do. `RowsHeld` relates the rows
  to the watermark and to the point each pass under way has come to (`Point`): then
  the watermark that a slower pass installs, though it moves back, is a point that
  pass has come to. It is about messages only, and for those a replayed record does no
  harm: it adds a stub, which makes the thread no hit, or marks a row dead, which stays
  dead (`RecordFades`). Labels have no such order. `FetchHeld` is for first touches,
  which take the rows there are for what was fetched.

**Tokens** (`TokenManagerProofs`).

* `RefreshesAreSerial`, `RetriesAreNewer`: `OneRefresher` and
  `RetryWithNewerToken`, with cancelled futures. `Inv` says that nothing in memory,
  in a file or in flight is newer than what Google issued (`World`), that a grant
  in hand is newer than the refused token, and that a refreshing call holds the
  lock (`InFlight`).
* `RotationsLockNobodyOut`: `NeverLockedOut`. Until something fails, the refresh
  token Google accepts is in memory or in the hands of the call that holds the
  lock (`Trusted`), so nobody can present an old one.
* `OneRenewalAtATime`: `OneRenewal`, with cancelled futures. `Counting` says that a
  request counted in `asked` is either still in the hands of a call or has put a token
  in memory that is not about to expire: so a call that finds one about to expire once
  it has the lock is the first to ask. It needs `Inv` for one refresher, and that a
  grant is newer than the token it replaces.
* `UsedTokensAreDurable`: `~Cancels /\ Spec => []DiskNotBehind`. `Durable` adds
  what `persist_atomic` has achieved at each point (`Ready`). It needs `Inv`,
  because only with one refresher does no other call touch the temporary file.
* `TokenManagerIsACell`: `~Cancels /\ Spec => CellSpec`, the refinement. `Settled`
  says that memory and file hold the same token unless a call stands between
  rename and `Install`; so a rename is a `Replace` of the cell, `Install` and
  `Restart` are an `Adopt`, and every other step stutters.
* `TypesAreKept`: `TypeOK`, and that a cooldown ends within `CoolMax` of the clock.
  `CooldownSecs` doubles by recursion; that it stays within `1 .. CoolMax` for any
  number of failures is `CooldownsAreBounded`. The other proofs need of the types
  what `World` and `InFlight` say.

**Sends and budgets** (`SendEmailProofs`).

* `BudgetsAreKept`: `WithinQuota`. `Budgets` relates each bucket to what it has
  granted and to the time since the process began (`Balanced`): tokens plus
  grants never exceed the capacity plus whole refills, although each refill loses a
  remainder. The lemmas on integer division (`RefillsAdd`) say that refilling in
  two steps adds no more than in one. Of the daily counter it says that the units
  spent today are those counted, as long as the clock was not set back.
* `HintsAreTight`: `HintIsTight`, which is arithmetic over any bucket of `Budgets`.
* `NobodyIsSentTwice`: `SentOnceWithinWindow`. `Sends` says that the record of
  whoever was told "sent" stays in the memo, with no earlier time than theirs, for
  as long as no send is recorded a window later (`Kept`), unless it was undone; and
  that every record names a delivered copy of its message (`Recorded`). A call that
  is covered then finds the record at its check.

**HTTP** (`HttpServerProofs`).

* `TokensAreHonouredWhileInForce`: `ServedOnCurrentToken`. On an open address the
  tokens in force are those of a usable file and not empty, and a request that was
  validated has seen the token it was served for.
* `GuessesArePaced`: `Unhurried => (Spec => []GuessesBounded)`. `Throttled` bounds,
  for each earlier guess of a source, the guesses since by the burst, the refill and
  the connections, less what the source can still guess before anything is refilled
  (`Risk`): with a token left, the tokens that no wrong request is about to be
  charged for and all connections but one; without a token, the requests already
  checked. A guess takes one from the risk, a charge adds nothing, and a token that
  time brings adds one per connection. A bucket holds what was refilled since it was
  charged, so one that the sweeper forgets would have been full.

**Tool calls** (`ToolCallsProofs`).

* `ChangesAreOnRecord`, `OnlyWhatWasAsked`, `YoungRowsAreSpared`:
  `IntentOutlivesChange`, `OnlyAskedFor`, `SweepSparesYoungRows`. `LogInv` says how
  files, rows and the write under way may look after any rotation, failed write
  or loss of power; `CallOk` ties each stage of a call to its request and to the
  synced row of its intent.
* `FanoutsAreComplete`, `RepliesAreTrue`: `FanoutComplete`, `ReplyTruth`. `ReplyOk`
  says that a reply is what the items of the batch, or the collected entries of
  the fan-out, make it, and that it was made once all of them had settled.

**Accounts** (`AccountsProofs`): `EditsMakeGoodFiles`, `WhatWasAddedIsServed`,
`WhatIsServedIsPrivate`, `PurgesForget`, `DaemonStartsAgain`, which are
`EditsStayValid`, `AddedIsServed`, `ServesPrivate`, `PurgeForgets` and
`StartsAgain`. `AccountsInv` is one part per actor. `PensInv` says that a writer
who has a temporary file alone finds nothing in it, or its own text; `TextInv` and
`RegistryInv` that this text is what its command made, of a valid registry however
old; so, as long as no two had `accounts.toml.tmp` open together, what a rename puts
in place is good. `PromisesInv` says that what an operator was told is in the token
file;
`OpeningInv` that each cache file is private or still to be opened; `PurgeInv`
that each thing to remove was absent, is still to be removed, is gone, or was
written again by somebody else. `Others`, a recursive function over a registry,
needs induction: `Induction` derives it from the well-founded order of the
numbers as a statement about sets, because no backend can instantiate a theorem
that has an operator as its parameter.

**Reading** (`MessageReadsProofs`): `RowsReadLikeGmail` (`HitsReadAsFetched`),
`SavedFilesAreWhole` (`SavedIsWhole`), `PagesAreWhole` (`PageInListOrder`). A row
that has a text is the whole row of its message, nothing lighter is put over it
(`RowOk`); the file at a path has one writer; each entry of the map of a search is
what a task that is back put there for the thread it read (`Collected`), and since
nothing is taken twice, the entry found at a place is that of the place's own task.
For these three the parsers are opaque. Two more are about
what the parsers compute, over every tree of parts that `IsMessage` admits: a part
stands in the part before it or in one around that, as both walks meet them.

* `TreesAreCompleteToDepth`: `ForwardsWithinDepth`. The code recurses from a message
  into those attached directly to it; the property counts the attached messages
  around a part. `LevelsAreDepths` shows the two to be the same, by induction on the
  level: every message in the tree but the outermost is directly inside exactly one
  other (`DeeperIsDirect`, `DirectIsDeeper`), which has one message fewer around it.
* `ForwardsReadAsReceived`: `ForwardReadsAlike`. What a part holds follows it without a
  gap (`Contiguous`, by strong induction), so the forwarded message by itself is the
  same parts with smaller numbers (`AsReceivedIs`), with the same parts around each
  (`EnclosingInside`); in ordinary form both walks then reach the same parts
  (`SameWalk`), and each chooses the first leaf its decoder takes (`SameLeaf`). The two
  leaves differ only if one of them stands earlier and the other decoder refused it,
  which is what the property allows; the attachments are the same without condition.

`UnfoldInv` ties a reply to both: what is unfolded was found to be an attached message
that parses, and the reply is its tree.

The proofs changed the models where these were wrong or said too little. A send
reads the clock before it has the lock (section 5). The arms that an answer of
Google leads to had overlapped in Upstream. `dry_run` counts only where an arm
reads it, and an unknown alias of a mutating tool stops at its lookup. Plans of
Accounts start from files that earlier runs left; the `-wal` and `-shm` files
outlive the database between two steps of a purge. That the sweeper forgives a
source whose bucket is not full came out of `GuessesArePaced`. `clean` had taken
any row for the row that was hit, a stub of the same message included.

Only model-checked is liveness, which is out of reach of TLAPS: `EventuallyCaughtUp`,
`ReadsEnd`, `CallsEnd`, `SendsEnd`, `RotationLands`, `CommandsEnd`, `FanoutEnds`.

`HitShowsItsMessages` under eviction is false (section 5), and so are
`ThreadHitCoherent` and `WatermarkMonotone` with overlapping passes: the hypotheses
of their theorems are needed.

## 5. Where code and documents part

Besides the two refuted runs, the models show these behaviours. No property
claims the opposite; where one comes near, it says so.

Cache:

* `threads.get` answers, a pass applies a later change, `insert_thread` writes
  the older labels back, and nothing replays them (ADR-0009:310 bounds staleness
  by a minute). First touch does the same to rows cached before it.
* The slower of two overlapping passes replays a `labelsAdded` over a
  `labelsRemoved` the faster one applied (`cache/sync.rs:7` "idempotent"), and two
  overlapping first touches can move the watermark back. The messages of a hit stay
  right (`HitShowsItsMessages`), its labels do not.
* `cache_invalidate` of labels leaves bodies cached, so `get_thread` hits for
  ever, without labels (`tools/cache_invalidate.rs:10` says they come back).
* Eviction may cut a thread in two, and the rest still counts as a hit.
* `get_thread` reads the labels of a hit message by message after the rows
  (`cache/queries.rs:110`). A row that a reseed removed in between is returned without
  labels, or with those of the stub that a later record made of it;
  `ServedThreadCoherent` leaves such replies out (`clean`).
* `get_thread_metadata` answers from stub rows, and from rows of
  `insert_thread_metadata` whose ids are `<thread>::<index>`; it returns those
  as message ids.

Tokens:

* Two calls refused with the same token both refresh: a forced refresh skips the
  double-check (ADR-0004:240).
* With dropped futures, a pending `write` can truncate the shared temporary file
  just before the next refresh renames it (ADR-0004:225).
* A failed `persist_atomic` throws a grant away without a cooldown. With the
  keychain store refreshed tokens still go to the token file.

Sends and budgets:

* A retried request whose first attempt did arrive is sent twice, below the
  deduplication (ADR-0012:232); two identical requests that overlap are, too.
* `record_send` reads the clock before it waits for the write lock
  (`tools/destructive.rs:150`). A call that waits behind another one's record then
  has the earlier time: its `retain` drops that record, whose age is negative, or
  its `insert` replaces it by the earlier time, and an identical request may be sent
  again within the window. `should_send` reads the clock before the read lock and
  accepts no record of a later time. `SentOnceWithinWindow` exempts exactly the
  calls (`late`) and messages (`undone`) this happened to.
* Expired entries are pruned when a send is recorded, not "on read"
  (`tools/destructive.rs:115`).
* `from` is not in the hash; retries are not charged; each client has buckets of
  its own; no code wires the project counter to a client (`wired` lets a run do
  both).

HTTP:

* The throttle's check and charge are apart, so N parallel connections can spend
  each token N times (`GuessesBounded` has that factor; ADR-0020:115 does not).
* `sweep_idle` forgets a bucket two windows after its last charge, full or not
  (`http_auth/throttle.rs:187`), and nothing relates the three settings: with burst
  > 2 * window * rate (a rate of 0 included) a source has its burst back early, and
  `GuessesBounded` fails. `last_touched` moves only when a bucket is made or charged,
  although `http_auth/throttle.rs:86` says on successful attempts too.
* A SIGHUP before the handler is installed ends the process. `touch` of a session
  reads the time before it waits for the lock.

Accounts:

* Nothing locks account files between processes: one command may undo another's
  edit, and a refresh of the daemon writes the token of a removed or purged account
  back.
* All writers of `accounts.toml` fill the same `accounts.toml.tmp`. If two have it open
  together, one may rename the other's half-written text: `config/accounts.rs:54`
  "Validates first so we never persist a broken file" does not hold then. The file may
  not parse, or fail to validate, and every command and the next start are refused; or
  be empty, and load as no account at all. `EditsStayValid` claims nothing once that
  happened to accounts.toml (`clashed`), and neither do `AddedIsServed` and
  `PurgeForgets` of the accounts concerned. The same holds for token files, whose temporary name
  the daemon and the commands share.
* A purge that resumes after the database was unlinked does not look for its
  `-wal` and `-shm` files.
* Under a wide umask, a crash between creating a file and its chmod leaves a mode
  the next start refuses, and `tokens/` is created 0755 on first use
  (ADR-0017:39).
* A failing userinfo request loses a grant Google already made; the warning of
  `load_token_states` suggests a command that answers `AccountNotFound`; `/healthz`
  counts accounts of the registry, with or without a token.

Audit and tools:

* Rows of two writers can run together, as `writeln!` is two writes
  (ADR-0011:226).
* After the total timeout of a fan-out, accounts still running have no entry
  (`tools/fanout.rs:188`).
* `modify_contact_group_membership` writes no intent row.
* `query_freebusy` takes each calendar out of the answer once, so an id given
  twice, or one Google leaves out, looks free; `list_calendars` has no page cap.

Reading:

* A text part whose base64url is padded is no body to `threads.rs:571`, which decodes
  without padding only, and a body to `mime.rs` once it is forwarded.
  `gmail/attachments.rs:29` expects padded answers, and a test feeds one
  (`tools/list_attachments.rs:267`). So the same message may have a body when it is
  forwarded and none, or a later part's, when it is received. `ForwardReadsAlike`
  allows the bodies to differ over a leaf that one decoder takes and the other
  refuses, and over nothing else.
* A large text part that Gmail gives by reference, or an empty one, is no body to
  `threads.rs` and one to `mime.rs`; unusual placements of names make the two
  parsers differ, too (`ForwardReadsAlike` is about ordinary ones).
* Gmail may name a thread twice in a page: then `search_threads` fails, as the first
  place takes the only entry of the map (`tools/search_threads.rs:182`).
* A download whose write fails leaves its partial file, and the next one to that
  path is refused because it exists.

## 6. Not modelled

* Status tools (`list_accounts`, `mcp_status`, `cache_status`, `audit_summary`):
  they copy counters and configuration into a reply.
* `gmail/compose.rs`, the wrapping of untrusted text, `server/deprecation.rs`:
  conversions and layout of text.
* Mapping of calendar and contacts answers; `contacts/etag.rs`, which guards
  writes the server does not offer; drive, which has no tools yet.
* Byte sizes, VACUUM and the interval gate of eviction: a cycle may stop after any
  batch.
* What a power loss does to the name of a new audit file: the code syncs the file and
  not its directory (`audit.rs:238`). `LosesPower` assumes, as common file systems
  have it, that the name is as durable as the first synced row.
* `try_acquire` of the project quota reads the clock before it has the lock
  (`project_quota.rs:97`); the model does both in one step. A stale reading never turns
  the day back, so it charges what an earlier or a later call would have; only its hint
  of a refusal may be that of the day before.
* The modes of a token file that two processes write at once under a wide umask.
* The keychain store, expansion of paths in settings, `auth bearer generate`,
  logging, counters and histograms.
* `send_email` and the session store are modelled although nothing registers or
  mounts them yet: from their own code, called as their types and tests allow.
* A thread of MessageReads is one message; what rows of a longer one do to each
  other is CacheService's.
