-------------------------------- MODULE Accounts --------------------------------
(* The accounts on disk and everything that writes them: the `auth` subcommands,  *)
(* each a process of its own, the start of the daemon (permission checks, token   *)
(* loading, opening and migrating the cache files), the daemon's refreshes and    *)
(* its purge_account tool. Nothing locks accounts.toml or a token file between    *)
(* processes, and all that write one of them write the same temporary file first. *)
EXTENDS Config

CONSTANTS Procs,    \* command-line processes
          Aliases,  \* well-formed aliases; commands may name others
          Plans     \* what a run starts from and is asked to do: see Init

Entries == [alias : Aliases, default : BOOLEAN]
Modes == {"absent", "private", "wide"}
Dbs == [main : {"none", "private", "wide"}, version : Nat, tables : Nat, sidecars : BOOLEAN]
Operations == {"add", "grant", "refresh", "list", "set_default", "remove", "remove --revoke"}
Commands == [op : Operations, alias : STRING, extra : SUBSET STRING]

(* accounts.toml, and the token file of each alias. Those that write them: the   *)
(* commands, and the daemon, whose writer of a file goes by the file's name: a     *)
(* purge writes accounts.toml, a refresh the token file of its alias.             *)
Registry == "accounts.toml"
Files == {Registry} \cup Aliases
Writers == Procs \cup Files

ASSUME NamesAssumption == "" \notin Files /\ Registry \notin Aliases /\ Procs \cap Files = {}

VARIABLES cfg, env,            \* config.toml; [umask, skip]: "private" or "wide", and the escape hatch
          registry,            \* accounts.toml: its entries, in order
          token,               \* alias -> tokens/<alias>.json
          draft,               \* file -> its temporary file: [there, text]
          pen,                 \* writer -> the file it writes, where its descriptor leads, and its text
          dirs, db,            \* modes of the directories; alias -> cache file with its sidecars
          live, issued,        \* refresh tokens Google honours; how many it issued
          lapses,              \* how many access tokens of the daemon are still to lapse: a bound
          todo, cli,           \* process -> commands to come, and where it is
          daemon, purges, purge, \* where the daemon is; purge_account calls to come, and the current one
          promised, touched,   \* alias -> scopes the operator was told of; what was written since the probe
          clashed,             \* files of which several writers had the temporary file open
          faults               \* interrupts, I/O errors, crashes and restarts left

writeVars == <<draft, pen, clashed>>
diskVars == <<registry, token, dirs, db, writeVars>>
googleVars == <<live, issued, lapses>>
cliVars == <<todo, cli>>
daemonVars == <<daemon, purges, purge>>
ghostVars == <<promised, touched>>
accountVars == <<cfg, env, diskVars, googleVars, cliVars, daemonVars, ghostVars, faults>>

NoToken == [grant |-> 0, scopes |-> {}]
Torn == [grant |-> -1, scopes |-> {}]       \* a token file that does not parse
Blank == [grant |-> -2, scopes |-> {}]      \* an empty one
Readable(t) == t \notin {NoToken, Torn, Blank}
NoDb == [main |-> "none", version |-> 0, tables |-> 0, sidecars |-> FALSE]
Resting == [at |-> "idle", op |-> "none", alias |-> "", extra |-> {}, base |-> <<>>, read |-> NoToken, new |-> NoToken]
NoTokens == [a \in Aliases |-> NoToken]
Down == [at |-> "down", why |-> "", known |-> <<>>, mem |-> NoTokens, opening |-> <<>>, owed |-> [a \in Aliases |-> {}]]
NoPurge == [at |-> "idle", alias |-> "", db |-> FALSE, token |-> FALSE, entry |-> FALSE, base |-> <<>>]
NewFile == env.umask  \* the mode of what is created with the default mode
MaxKnownVersion == 3

--------------------------------------------------------------------------------
(* accounts.toml *)

Has(r, a) == \E i \in DOMAIN r : r[i].alias = a

(* Accounts::validate: one default, unless there is no account. *)
Valid(r) == Cardinality({i \in DOMAIN r : r[i].default}) = IF r = <<>> THEN 0 ELSE 1

(* upsert_account: an entry keeps its default flag, the first one gets it. *)
Upsert(r, a) == IF Has(r, a) THEN r ELSE Append(r, [alias |-> a, default |-> r = <<>>])

MadeDefault(r, a) == [i \in DOMAIN r |-> [r[i] EXCEPT !.default = r[i].alias = a]]

(* The entries of the other aliases, in their order. *)
Others(r, a) ==
    LET kept[n \in 0 .. Len(r)] ==
          IF n = 0 THEN <<>> ELSE IF r[n].alias # a THEN Append(kept[n - 1], r[n]) ELSE kept[n - 1]
    IN kept[Len(r)]

(* Mutant: no entry takes over the default.                                      *)
WithoutPromotion(r, a) == Others(r, a)

(* Without the entry; if it was the default, the first one left becomes it. *)
Without(r, a) ==
    LET left == Others(r, a) IN
    IF left # <<>> /\ ~Valid(left) THEN [left EXCEPT ![1].default = TRUE] ELSE left

(* A run starts from files that earlier runs of the program left, with the umask  *)
(* of this one: a registry that loads, cache files at some version.               *)
ASSUME PlansAssumption ==
    \A p \in Plans :
        /\ p.registry \in Seq(Entries) /\ Valid(p.registry)
        /\ \A i, j \in DOMAIN p.registry : p.registry[i].alias = p.registry[j].alias => i = j
        /\ p.token = [a \in Aliases |-> p.token[a]]
        /\ p.dirs \in [config : Modes, tokens : Modes, cache : Modes]
        /\ p.db \in [Aliases -> Dbs] /\ \A a \in Aliases : p.db[a].tables = p.db[a].version
        /\ p.env.umask \in {"private", "wide"}
        /\ p.env.umask = "private" =>
              /\ p.env.skip \/ "wide" \notin {p.dirs.config, p.dirs.tokens}
              /\ p.dirs.cache # "wide" /\ \A a \in Aliases : p.db[a].main # "wide"
        /\ p.todo \in [Procs -> Seq(Commands)]

--------------------------------------------------------------------------------
(* The writing of a file: fs::write opens the temporary file, which empties it,   *)
(* and writes the text; then it is renamed. An open file goes where its name goes: *)
(* a writer whose temporary file another one renames writes into the file itself,  *)
(* and into nothing once that was replaced.                                       *)

Garbled == <<[alias |-> "", default |-> FALSE]>>  \* an accounts.toml that does not parse
Empty(f) == IF f = Registry THEN <<>> ELSE Blank
NoDraft(f) == [there |-> FALSE, text |-> Empty(f)]
NoPen == [file |-> "", on |-> "closed", text |-> <<>>]

(* A text over an older one: what is longer of that stays behind it, and parses   *)
(* where it starts with an entry.                                                 *)
Overlaid(f, new, old) ==
    IF old = Empty(f) THEN {new}
    ELSE IF f = Registry THEN {new, Garbled} \cup {new \o SubSeq(old, k, Len(old)) : k \in 2 .. Len(old)}
    ELSE {new, Torn}

(* w opens the temporary file of f. Of a file that several write at once nothing  *)
(* is promised: of a token file until one of them has it alone again.             *)
Opens(w, f, text) ==
    LET clash == \E v \in Writers \ {w} : pen[v].file = f IN
    /\ pen' = [pen EXCEPT ![w] = [file |-> f, on |-> "draft", text |-> text]]
    /\ draft' = [draft EXCEPT ![f] = [there |-> TRUE, text |-> Empty(f)]]
    /\ clashed' = IF clash THEN clashed \cup {f} ELSE clashed \ ({f} \ {Registry})
    /\ promised' = [a \in Aliases |-> IF clash /\ f \in {a, Registry} THEN {} ELSE promised[a]]

Touch(a, what) == IF purge.at # "idle" /\ purge.alias = a THEN touched \cup {what} ELSE touched

Fill(w) ==
    LET f == pen[w].file
        over(old) == Overlaid(f, pen[w].text, old) IN
    /\ pen[w].on # "closed" /\ pen' = [pen EXCEPT ![w].on = "closed"]
    /\ \/ /\ pen[w].on = "draft" /\ \E t \in over(draft[f].text) : draft' = [draft EXCEPT ![f].text = t]
          /\ UNCHANGED <<registry, token, touched>>
       \/ /\ pen[w].on = "file" /\ f = Registry /\ registry' \in over(registry) /\ UNCHANGED <<token, draft, touched>>
       \/ /\ pen[w].on = "file" /\ f # Registry /\ \E t \in over(token[f]) : token' = [token EXCEPT ![f] = t]
          /\ touched' = Touch(f, "token") /\ UNCHANGED <<registry, draft>>
       \/ pen[w].on = "gone" /\ UNCHANGED <<registry, token, draft, touched>>
    /\ UNCHANGED <<cfg, env, dirs, db, clashed, googleVars, cliVars, daemonVars, promised, faults>>

Written(w, f) == pen[w].file = f /\ pen[w].on = "closed"
Closed(W) == [w \in Writers |-> IF w \in W THEN NoPen ELSE pen[w]]

(* w renames: what is there is in place, and the temporary file is gone.          *)
Renames(w, f) ==
    /\ draft' = [draft EXCEPT ![f] = NoDraft(f)]
    /\ pen' = [v \in Writers |->
         IF v = w THEN NoPen ELSE IF pen[v].file # f THEN pen[v]
         ELSE [pen[v] EXCEPT !.on = CASE @ = "draft" -> "file" [] @ = "file" -> "gone" [] OTHER -> @]]

(* The file itself is unlinked. *)
Unlinks(f) ==
    pen' = [v \in Writers |-> IF pen[v].file = f /\ pen[v].on = "file" THEN [pen[v] EXCEPT !.on = "gone"] ELSE pen[v]]

--------------------------------------------------------------------------------
(* The auth subcommands *)

Become(p, at) == cli' = [cli EXCEPT ![p].at = at]
Left(p) == [cli EXCEPT ![p] = Resting]
Quit(p) == cli' = Left(p)
Removes(op) == op \in {"remove", "remove --revoke"}

(* run: what is checked before the command touches anything. *)
Start(p) ==
    /\ cli[p].at \in {"idle", "refused"} /\ todo[p] # <<>> /\ todo' = [todo EXCEPT ![p] = Tail(@)]
    /\ LET c == Head(todo[p])
           first == IF c.op \in {"list", "set_default"} THEN "load"
                    ELSE IF c.alias \notin Aliases THEN "idle"
                    ELSE CASE c.op = "add" -> IF CanAuthorise(cfg) THEN "bind" ELSE "idle"
                           [] c.op \in {"grant", "refresh"} -> "read"
                           [] Removes(c.op) -> "load" IN
       IF first = "idle" THEN Quit(p)
       ELSE cli' = [cli EXCEPT ![p] = [Resting EXCEPT !.at = first, !.op = c.op, !.alias = c.alias, !.extra = c.extra]]
    /\ UNCHANGED <<cfg, env, diskVars, googleVars, daemonVars, ghostVars, faults>>

(* grant and refresh read the token file first, whatever accounts.toml lists. *)
ReadToken(p) ==
    /\ cli[p].at = "read"
    /\ LET found == token[cli[p].alias] IN
       IF ~Readable(found) \/ (cli[p].op = "grant" /\ ~(Loads(cfg) /\ HasCredentials(cfg))) THEN Quit(p)
       ELSE cli' = [cli EXCEPT ![p].read = found, ![p].at = IF cli[p].op = "grant" THEN "bind" ELSE "post"]
    /\ UNCHANGED <<cfg, env, diskVars, googleVars, todo, daemonVars, ghostVars, faults>>

(* bind_listener: every command listens on the same port. *)
BindListener(p) ==
    /\ cli[p].at = "bind"
    /\ IF \E q \in Procs : cli[q].at = "browser" THEN Quit(p) ELSE Become(p, "browser")
    /\ UNCHANGED <<cfg, env, diskVars, googleVars, todo, daemonVars, ghostVars, faults>>

(* The redirect arrives with a code and the right state. *)
Consent(p) ==
    /\ cli[p].at = "browser" /\ Become(p, "post")
    /\ UNCHANGED <<cfg, env, diskVars, googleVars, todo, daemonVars, ghostVars, faults>>

(* Mutant: the listener waits for a connection without a deadline.               *)
GiveUpWaiting(p) == FALSE

(* wait_for_redirect ends without one: the deadline, a refusal, another          *)
(* connection than the browser's, a state that does not match.                   *)
GiveUp(p) ==
    /\ cli[p].at = "browser" /\ Quit(p)
    /\ UNCHANGED <<cfg, env, diskVars, googleVars, todo, daemonVars, ghostVars, faults>>

(* Mutant: grant asks for the configured and the extra scopes only.              *)
AskedAnew(c) == cfg.services["gmail"].scopes \cup c.extra

(* The scopes asked for: a grant adds to what the token file has. *)
Asked(c) == c.read.scopes \cup cfg.services["gmail"].scopes \cup c.extra

(* exchange_code: a grant, an error, or a grant whose answer is lost. *)
Exchange(p) ==
    /\ cli[p].at = "post" /\ cli[p].op # "refresh"
    /\ \/ Quit(p) /\ UNCHANGED googleVars
       \/ /\ issued' = issued + 1 /\ live' = live \cup {issued'}
          /\ \/ Quit(p)
             \/ cli' = [cli EXCEPT ![p].new = [grant |-> issued', scopes |-> Asked(cli[p])], ![p].at = "userinfo"]
          /\ UNCHANGED lapses
    /\ UNCHANGED <<cfg, env, diskVars, todo, daemonVars, ghostVars, faults>>

(* auth refresh asks for an access token with what the file has: granted while   *)
(* the refresh token is honoured, with or without a new one in its place, unless   *)
(* the request fails; the answer may be lost.                                     *)
ForceRefresh(p) ==
    /\ cli[p].at = "post" /\ cli[p].op = "refresh"
    /\ LET read == cli[p].read
           takes(grant) == cli' = [cli EXCEPT ![p].new = [grant |-> grant, scopes |-> read.scopes], ![p].at = "write"] IN
       \/ Quit(p) /\ UNCHANGED googleVars
       \/ read.grant \in live /\ takes(read.grant) /\ UNCHANGED googleVars
       \/ /\ read.grant \in live /\ issued' = issued + 1 /\ live' \in {kept \cup {issued'} : kept \in {live, live \ {read.grant}}}
          /\ Quit(p) \/ takes(issued')
          /\ UNCHANGED lapses
    /\ UNCHANGED <<cfg, env, diskVars, todo, daemonVars, ghostVars, faults>>

(* fetch_userinfo_email; a failure loses the grant. *)
UserInfo(p) ==
    /\ cli[p].at = "userinfo"
    /\ Quit(p) \/ Become(p, IF cli[p].op = "add" THEN "mkdir" ELSE "write")
    /\ UNCHANGED <<cfg, env, diskVars, googleVars, todo, daemonVars, ghostVars, faults>>

(* create_dir_all(tokens), with the mode the umask gives. *)
MakeDir(p) ==
    /\ cli[p].at = "mkdir" /\ Become(p, "write")
    /\ dirs' = IF dirs.tokens = "absent" THEN [dirs EXCEPT !.tokens = NewFile] ELSE dirs
    /\ UNCHANGED <<cfg, env, registry, token, writeVars, db, googleVars, todo, daemonVars, ghostVars, faults>>

(* write_token_file. *)
WriteToken(p) ==
    /\ cli[p].at = "write"
    /\ IF dirs.tokens = "absent" THEN Quit(p) /\ UNCHANGED <<writeVars, promised>>
       ELSE Opens(p, cli[p].alias, cli[p].new) /\ Become(p, "set")
    /\ UNCHANGED <<cfg, env, registry, token, dirs, db, googleVars, todo, daemonVars, touched, faults>>

(* What it replaces may not be what it read any more: then the scopes of whoever  *)
(* wrote it are lost, and nothing is promised.                                    *)
SetToken(p) ==
    /\ cli[p].at = "set" /\ Written(p, cli[p].alias)
    /\ LET c == cli[p] IN
       IF ~draft[c.alias].there
       THEN Quit(p) /\ pen' = Closed({p}) /\ UNCHANGED <<token, draft, promised, touched>>
       ELSE /\ Renames(p, c.alias) /\ token' = [token EXCEPT ![c.alias] = draft[c.alias].text]
            /\ touched' = Touch(c.alias, "token")
            /\ promised' = IF c.op = "add" \/ token[c.alias] # c.read THEN [promised EXCEPT ![c.alias] = {}] ELSE promised
            /\ IF c.op = "refresh" THEN Quit(p) ELSE Become(p, "load")
    /\ UNCHANGED <<cfg, env, registry, clashed, dirs, db, googleVars, todo, daemonVars, faults>>

(* Accounts::load; set-default and remove look for the alias. *)
Load(p) ==
    /\ cli[p].at = "load"
    /\ LET c == cli[p] IN
       IF ~Valid(registry) THEN Become(p, "refused")
       ELSE IF c.op = "list" \/ (c.op \notin {"add", "grant"} /\ ~Has(registry, c.alias)) THEN Quit(p)
       ELSE cli' = [cli EXCEPT ![p].base = registry, ![p].at = IF Removes(c.op) THEN "confirm" ELSE "save"]
    /\ UNCHANGED <<cfg, env, diskVars, googleVars, todo, daemonVars, ghostVars, faults>>

(* The operator answers the prompt of remove, or gave --yes. *)
Confirm(p) ==
    /\ cli[p].at = "confirm"
    /\ Quit(p) \/ Become(p, IF cli[p].op = "remove" THEN "unlink" ELSE "revoke")
    /\ UNCHANGED <<cfg, env, diskVars, googleVars, todo, daemonVars, ghostVars, faults>>

(* revoke_token_at_google, whatever comes of it. *)
Revoke(p) ==
    /\ cli[p].at = "revoke" /\ Become(p, "unlink")
    /\ live' \in {live, live \ {token[cli[p].alias].grant}}
    /\ UNCHANGED <<cfg, env, diskVars, issued, lapses, todo, daemonVars, ghostVars, faults>>

Unlink(p) ==
    /\ cli[p].at = "unlink" /\ Become(p, "save")
    /\ token' = [token EXCEPT ![cli[p].alias] = NoToken]
    /\ promised' = [promised EXCEPT ![cli[p].alias] = {}] /\ Unlinks(cli[p].alias)
    /\ UNCHANGED <<cfg, env, registry, draft, clashed, dirs, db, googleVars, todo, daemonVars, touched, faults>>

Edited(c) ==
    CASE c.op \in {"add", "grant"} -> Upsert(c.base, c.alias)
      [] c.op = "set_default" -> MadeDefault(c.base, c.alias)
      [] Removes(c.op) -> Without(c.base, c.alias)

(* Accounts::save, on what was loaded: an edit made in between is lost. *)
Save(p) ==
    /\ cli[p].at = "save"
    /\ LET edit == Edited(cli[p]) IN
       IF ~Valid(edit) THEN Become(p, "refused") /\ UNCHANGED <<writeVars, promised>>
       ELSE Opens(p, Registry, edit) /\ Become(p, "place")
    /\ UNCHANGED <<cfg, env, registry, token, dirs, db, googleVars, todo, daemonVars, touched, faults>>

Listed(promise) == [a \in Aliases |-> IF Has(registry', a) THEN promise[a] ELSE {}]

(* A finished add or grant promises its scopes as long as its token is there.     *)
Place(p) ==
    /\ cli[p].at = "place" /\ Written(p, Registry) /\ Quit(p)
    /\ LET c == cli[p]
           told == IF c.op = "add" THEN c.new.scopes
                   ELSE IF promised[c.alias] # {} THEN promised[c.alias] \cup c.extra ELSE {}
           tells == c.op \in {"add", "grant"} /\ token[c.alias] = c.new /\ clashed \cap {Registry, c.alias} = {} IN
       IF ~draft[Registry].there THEN pen' = Closed({p}) /\ UNCHANGED <<registry, draft, promised, touched>>
       ELSE /\ Renames(p, Registry) /\ registry' = draft[Registry].text
            /\ touched' = IF Has(registry', purge.alias) THEN Touch(purge.alias, "entry") ELSE touched
            /\ promised' = Listed(IF tells THEN [promised EXCEPT ![c.alias] = told] ELSE promised)
    /\ UNCHANGED <<cfg, env, token, clashed, dirs, db, googleVars, todo, daemonVars, faults>>

(* Ctrl-C, or an I/O error. *)
Interrupt(p) ==
    /\ cli[p].at \notin {"idle", "refused"} /\ faults > 0 /\ faults' = faults - 1 /\ Quit(p) /\ pen' = Closed({p})
    /\ UNCHANGED <<cfg, env, registry, token, draft, clashed, dirs, db, googleVars, todo, daemonVars, ghostVars>>

--------------------------------------------------------------------------------
(* The daemon starts *)

Goto(at) == daemon' = [daemon EXCEPT !.at = at]
Refuse(why) == daemon' = [daemon EXCEPT !.at = "refused", !.why = why]

(* perm_check: the two directories must be the user's own (the commands write    *)
(* every token file with mode 0600; the other files only warn).                  *)
PermissionsHold == env.skip \/ "wide" \notin {dirs.config, dirs.tokens}

(* perm_check::check, then accounts.toml and config.toml. *)
Check ==
    /\ daemon.at = "down"
    /\ LET start == [Down EXCEPT !.owed = promised, !.known = registry, !.at = "tokens"]
           no(why) == [start EXCEPT !.at = "refused", !.why = why] IN
       daemon' = IF ~PermissionsHold THEN no("permissions")
                 ELSE IF ~Valid(registry) THEN no("accounts") ELSE IF ~Loads(cfg) THEN no("config") ELSE start
    /\ UNCHANGED <<cfg, env, diskVars, googleVars, cliVars, purges, purge, ghostVars, faults>>

(* The secret store; no command writes to the keychain. *)
Stored(a) == IF cfg.backend = "file" /\ Readable(token[a]) THEN token[a] ELSE NoToken

(* load_token_states: an account whose token the store cannot give is left out.   *)
LoadTokens ==
    /\ daemon.at = "tokens"
    /\ daemon' = [daemon EXCEPT
         !.mem = [a \in Aliases |-> IF Has(daemon.known, a) THEN Stored(a) ELSE NoToken],
         !.owed = [a \in Aliases |-> IF daemon.owed[a] = {} THEN {} ELSE promised[a]],
         !.opening = [i \in DOMAIN daemon.known |-> daemon.known[i].alias],
         !.at = IF cfg.cache THEN "dir" ELSE "listen"]
    /\ UNCHANGED <<cfg, env, diskVars, googleVars, cliVars, purges, purge, ghostVars, faults>>

(* ensure_cache_dir: create, then chmod. *)
EnsureCacheDir ==
    /\ daemon.at = "dir"
    /\ CASE dirs.cache = "wide" -> Refuse("permissions") /\ UNCHANGED dirs
         [] dirs.cache = "private" -> Goto("files") /\ UNCHANGED dirs
         [] dirs.cache = "absent" -> Goto("dirmode") /\ dirs' = [dirs EXCEPT !.cache = NewFile]
    /\ UNCHANGED <<cfg, env, registry, token, writeVars, db, googleVars, cliVars, purges, purge, ghostVars, faults>>

SetDirMode ==
    /\ daemon.at = "dirmode" /\ Goto("files") /\ dirs' = [dirs EXCEPT !.cache = "private"]
    /\ UNCHANGED <<cfg, env, registry, token, writeVars, db, googleVars, cliVars, purges, purge, ghostVars, faults>>

Current == Head(daemon.opening)

(* open_and_migrate: the mode of a file that is there is checked; a new one is   *)
(* created by SQLite, then chmod.                                                *)
OpenDb ==
    /\ daemon.at = "files" /\ daemon.opening # <<>>
    /\ CASE db[Current].main = "wide" -> Refuse("permissions") /\ UNCHANGED db
         [] db[Current].main = "private" -> Goto("migrate") /\ db' = [db EXCEPT ![Current].sidecars = TRUE]
         [] db[Current].main = "none" -> Goto("dbmode") /\ db' = [db EXCEPT ![Current] = [NoDb EXCEPT !.main = NewFile]]
    /\ UNCHANGED <<cfg, env, registry, token, writeVars, dirs, googleVars, cliVars, purges, purge, ghostVars, faults>>

(* Mutant: a new file keeps the mode it was created with.                        *)
SetDbModeLater ==
    /\ daemon.at = "dbmode" /\ Goto("migrate") /\ db' = [db EXCEPT ![Current].sidecars = TRUE]
    /\ UNCHANGED <<cfg, env, registry, token, writeVars, dirs, googleVars, cliVars, purges, purge, ghostVars, faults>>

SetDbMode ==
    /\ daemon.at = "dbmode" /\ Goto("migrate")
    /\ db' = [db EXCEPT ![Current].main = "private", ![Current].sidecars = TRUE]
    /\ UNCHANGED <<cfg, env, registry, token, writeVars, dirs, googleVars, cliVars, purges, purge, ghostVars, faults>>

(* Mutant: the version is written after the migration was committed.             *)
MigrateThenStamp ==
    /\ daemon.at \in {"migrate", "stamp"}
    /\ LET d == db[Current] IN
       IF d.version > MaxKnownVersion THEN Refuse("newer") /\ UNCHANGED db
       ELSE IF daemon.at = "stamp" THEN Goto("migrate") /\ db' = [db EXCEPT ![Current].version = @ + 1]
       ELSE IF d.version = MaxKnownVersion
       THEN daemon' = [daemon EXCEPT !.at = "files", !.opening = Tail(@)] /\ UNCHANGED db
       ELSE IF d.tables # d.version THEN Refuse("broken") /\ UNCHANGED db
       ELSE Goto("stamp") /\ db' = [db EXCEPT ![Current].tables = @ + 1]
    /\ UNCHANGED <<cfg, env, registry, token, writeVars, dirs, googleVars, cliVars, purges, purge, ghostVars, faults>>

(* apply_pending, a migration at a time: its statements and the new version are  *)
(* one transaction; statements that ran before fail.                             *)
Migrate ==
    /\ daemon.at = "migrate"
    /\ LET d == db[Current] IN
       IF d.version > MaxKnownVersion THEN Refuse("newer") /\ UNCHANGED db
       ELSE IF d.version = MaxKnownVersion
       THEN daemon' = [daemon EXCEPT !.at = "files", !.opening = Tail(@)] /\ UNCHANGED db
       ELSE IF d.tables # d.version THEN Refuse("broken") /\ UNCHANGED db
       ELSE UNCHANGED daemon /\ db' = [db EXCEPT ![Current].tables = @ + 1, ![Current].version = @ + 1]
    /\ UNCHANGED <<cfg, env, registry, token, writeVars, dirs, googleVars, cliVars, purges, purge, ghostVars, faults>>

(* The metrics listener binds eagerly; then the transports of HttpServer.        *)
Listen ==
    /\ daemon.at = "listen" \/ (daemon.at = "files" /\ daemon.opening = <<>>)
    /\ IF cfg.metrics /\ ~cfg.address THEN Refuse("address") ELSE Goto("serving")
    /\ UNCHANGED <<cfg, env, diskVars, googleVars, cliVars, purges, purge, ghostVars, faults>>

(* The process ends, at any point, and may be started again. *)
Crash ==
    /\ daemon.at \notin {"down", "refused"} /\ faults > 0 /\ faults' = faults - 1
    /\ daemon' = Down /\ purge' = NoPurge /\ touched' = {} /\ pen' = Closed(Files)
    /\ UNCHANGED <<cfg, env, registry, token, draft, clashed, dirs, db, googleVars, cliVars, purges, promised>>

(* The gauge of accounts and /healthz: what accounts.toml had at startup. *)
ActiveAccounts == Len(daemon.known)
Healthy == ActiveAccounts > 0

--------------------------------------------------------------------------------
(* The daemon serves *)

(* A refresh writes the token file back from memory, over whatever is there.     *)
Refresh(a) ==
    /\ daemon.at = "serving" /\ daemon.mem[a].grant \in live /\ dirs.tokens # "absent" /\ pen[a] = NoPen
    /\ lapses > 0 /\ lapses' = lapses - 1 /\ Opens(a, a, daemon.mem[a])
    /\ UNCHANGED <<cfg, env, registry, token, dirs, db, live, issued, cliVars, daemonVars, touched, faults>>

Refreshed(a) ==
    /\ Written(a, a)
    /\ IF ~draft[a].there THEN pen' = Closed({a}) /\ UNCHANGED <<token, draft, promised, touched>>
       ELSE /\ Renames(a, a) /\ token' = [token EXCEPT ![a] = draft[a].text] /\ touched' = Touch(a, "token")
            /\ promised' = IF draft[a].text = token[a] THEN promised ELSE [promised EXCEPT ![a] = {}]
    /\ UNCHANGED <<cfg, env, registry, clashed, dirs, db, googleVars, cliVars, daemonVars, faults>>

(* validate_account and validate_confirm. *)
PurgeAllowed(call) == call.alias \in Aliases /\ call.confirm

(* purge_account: the arguments, then a look at what is there. *)
Probe ==
    /\ daemon.at = "serving" /\ purge.at = "idle" /\ purges # <<>> /\ purges' = Tail(purges)
    /\ LET call == Head(purges) IN
       IF PurgeAllowed(call) /\ Valid(registry) /\ ~call.dry_run
       THEN /\ purge' = [at |-> "cache", alias |-> call.alias, db |-> db[call.alias].main # "none",
                         token |-> token[call.alias] # NoToken, entry |-> Has(registry, call.alias), base |-> <<>>]
            /\ touched' = {}
       ELSE UNCHANGED <<purge, touched>>
    /\ UNCHANGED <<cfg, env, diskVars, googleVars, cliVars, daemon, promised, faults>>

(* remove_cache_db_and_sidecars. *)
PurgeCache ==
    /\ purge.at \in {"cache", "sidecars"}
    /\ IF ~purge.db THEN UNCHANGED db /\ purge' = [purge EXCEPT !.at = "token"]
       ELSE IF purge.at = "cache"
       THEN /\ db' = [db EXCEPT ![purge.alias] = [NoDb EXCEPT !.sidecars = db[purge.alias].sidecars]]
            /\ purge' = [purge EXCEPT !.at = "sidecars"]
       ELSE db' = [db EXCEPT ![purge.alias].sidecars = FALSE] /\ purge' = [purge EXCEPT !.at = "token"]
    /\ UNCHANGED <<cfg, env, registry, token, writeVars, dirs, googleVars, cliVars, daemon, purges, ghostVars, faults>>

(* Mutant: the rest of the purge hangs on the token file being there.            *)
PurgeTokenOrStop ==
    /\ purge.at = "token"
    /\ IF purge.token
       THEN /\ token' = [token EXCEPT ![purge.alias] = NoToken] /\ purge' = [purge EXCEPT !.at = "entry"]
            /\ promised' = [promised EXCEPT ![purge.alias] = {}] /\ Unlinks(purge.alias)
       ELSE UNCHANGED <<token, promised, pen>> /\ purge' = [purge EXCEPT !.at = "done"]
    /\ UNCHANGED <<cfg, env, registry, draft, clashed, dirs, db, googleVars, cliVars, daemon, purges, touched, faults>>

PurgeToken ==
    /\ purge.at = "token" /\ purge' = [purge EXCEPT !.at = "entry"]
    /\ IF purge.token
       THEN /\ token' = [token EXCEPT ![purge.alias] = NoToken]
            /\ promised' = [promised EXCEPT ![purge.alias] = {}] /\ Unlinks(purge.alias)
       ELSE UNCHANGED <<token, promised, pen>>
    /\ UNCHANGED <<cfg, env, registry, draft, clashed, dirs, db, googleVars, cliVars, daemon, purges, touched, faults>>

(* remove_from_accounts_toml: load, then save. *)
PurgeEntry ==
    /\ purge.at = "entry"
    /\ purge' = IF ~purge.entry THEN [purge EXCEPT !.at = "done"]
                ELSE IF ~Valid(registry) THEN [purge EXCEPT !.at = "failed"]
                ELSE [purge EXCEPT !.at = "save", !.base = registry]
    /\ UNCHANGED <<cfg, env, diskVars, googleVars, cliVars, daemon, purges, ghostVars, faults>>

PurgeSave ==
    /\ purge.at = "save"
    /\ LET edit == Without(purge.base, purge.alias) IN
       IF ~Valid(edit) THEN purge' = [purge EXCEPT !.at = "failed"] /\ UNCHANGED <<writeVars, promised>>
       ELSE Opens(Registry, Registry, edit) /\ purge' = [purge EXCEPT !.at = "place"]
    /\ UNCHANGED <<cfg, env, registry, token, dirs, db, googleVars, cliVars, daemon, purges, touched, faults>>

PurgePlace ==
    /\ purge.at = "place" /\ Written(Registry, Registry)
    /\ IF ~draft[Registry].there
       THEN pen' = Closed({Registry}) /\ purge' = [purge EXCEPT !.at = "failed"] /\ UNCHANGED <<registry, draft, promised>>
       ELSE /\ Renames(Registry, Registry) /\ registry' = draft[Registry].text /\ promised' = Listed(promised)
            /\ purge' = [purge EXCEPT !.at = "done"]
    /\ UNCHANGED <<cfg, env, token, clashed, dirs, db, googleVars, cliVars, daemon, purges, touched, faults>>

(* The answer; or an I/O error half way. *)
PurgeEnds ==
    /\ purge.at # "idle" /\ purge' = NoPurge /\ touched' = {} /\ pen' = Closed({Registry})
    /\ faults' = IF purge.at \in {"done", "failed"} THEN faults ELSE faults - 1
    /\ faults' >= 0
    /\ UNCHANGED <<cfg, env, registry, token, draft, clashed, dirs, db, googleVars, cliVars, daemon, purges, promised>>

--------------------------------------------------------------------------------
Init ==
    /\ \E p \in Plans :
         /\ cfg = p.cfg /\ env = p.env /\ registry = p.registry /\ token = p.token /\ dirs = p.dirs /\ db = p.db
         /\ todo = p.todo /\ purges = p.purges /\ lapses = p.lapses /\ faults = p.faults
         /\ issued = Cardinality(Aliases) /\ live = {p.token[a].grant : a \in Aliases} \ {0}
         /\ promised = [a \in Aliases |-> IF Has(p.registry, a) THEN p.token[a].scopes ELSE {}]
    /\ draft = [f \in Files |-> NoDraft(f)] /\ pen = [w \in Writers |-> NoPen] /\ clashed = {}
    /\ cli = [p \in Procs |-> Resting] /\ daemon = Down /\ purge = NoPurge /\ touched = {}

Flow(p) == BindListener(p) \/ GiveUp(p) \/ Exchange(p) \/ UserInfo(p)
Command(p) ==
    \/ Start(p) \/ ReadToken(p) \/ Flow(p) \/ ForceRefresh(p) \/ MakeDir(p) \/ WriteToken(p)
    \/ Fill(p) \/ SetToken(p) \/ Load(p) \/ Revoke(p) \/ Unlink(p) \/ Save(p) \/ Place(p)
Boot ==
    \/ Check \/ LoadTokens \/ EnsureCacheDir \/ SetDirMode \/ OpenDb \/ SetDbMode \/ Migrate \/ Listen
Purge == Probe \/ PurgeCache \/ PurgeToken \/ PurgeEntry \/ PurgeSave \/ PurgePlace \/ PurgeEnds

Next ==
    \/ \E p \in Procs : Command(p) \/ Consent(p) \/ Confirm(p) \/ Interrupt(p)
    \/ Boot \/ Crash \/ Purge
    \/ \E a \in Aliases : Refresh(a) \/ Refreshed(a)
    \/ \E f \in Files : Fill(f)

Spec == Init /\ [][Next]_accountVars

(* A command goes on by itself: its requests have a timeout of 30 seconds, the   *)
(* listener a deadline. The operator's answers are not assumed.                  *)
FairSpec == Spec /\ \A p \in Procs : WF_accountVars(Command(p))

--------------------------------------------------------------------------------
(* Whatever commands and purges are run, one after the other or each with edits   *)
(* of others between its load and its save, and wherever they are interrupted:     *)
(* as long as no two had accounts.toml.tmp open together, accounts.toml stays      *)
(* acceptable, with one entry to an alias, and neither a command nor a purge nor   *)
(* the daemon is refused by it, nor an edit by save.                              *)
EditsStayValid ==
    Registry \notin clashed =>
        /\ Valid(registry) /\ \A i, j \in DOMAIN registry : registry[i].alias = registry[j].alias => i = j
        /\ daemon.why # "accounts" /\ purge.at # "failed" /\ \A p \in Procs : cli[p].at # "refused"

(* Under a private umask, an account that was added is served by the next start   *)
(* of the daemon, with the file store with all the scopes it was ever granted,    *)
(* unless another process replaced its token or dropped its entry since, or wrote *)
(* the token file or accounts.toml at the same time; and /healthz says so too.     *)
AddedIsServed ==
    LET owed == {a \in Aliases : daemon.owed[a] # {}} IN
    /\ daemon.why = "permissions" /\ env.umask = "private" => owed = {}
    /\ daemon.at = "serving" /\ cfg.backend = "file" =>
         \A a \in owed : Healthy /\ daemon.mem[a] # NoToken /\ daemon.owed[a] \subseteq daemon.mem[a].scopes

(* When the daemon has started, the cache and every cache file it opened is the   *)
(* user's own, whatever the umask it was created under.                           *)
ServesPrivate ==
    daemon.at = "serving" /\ cfg.cache =>
        /\ dirs.cache = "private"
        /\ \A a \in Aliases : Has(daemon.known, a) => db[a].main \in {"private", "none"}

(* A purge that ends well leaves nothing of the account but what was written      *)
(* since it looked: also one that resumes a purge cut short by a crash, and one   *)
(* that runs against the command line, but for the entry that two writers of       *)
(* accounts.toml.tmp may leave between them.                                      *)
PurgeForgets ==
    purge.at = "done" =>
        /\ Has(registry, purge.alias) => "entry" \in touched \/ Registry \in clashed
        /\ token[purge.alias] # NoToken => "token" \in touched
        /\ db[purge.alias].main = "none" /\ (purge.db => ~db[purge.alias].sidecars)

(* A crash between any two steps of a migration is no obstacle to the next start, *)
(* nor, under a private umask, one between the creation of a file and its chmod.  *)
StartsAgain == daemon.why # "broken" /\ (env.umask = "private" => daemon.why # "permissions")

(* Every command comes to an end, or waits for the operator's answer.             *)
CommandsEnd ==
    \A p \in Procs : cli[p].at # "idle" ~> cli[p].at \in {"idle", "confirm", "refused"}
================================================================================
