------------------------------- MODULE MCAccounts -------------------------------
EXTENDS Accounts, TLC

CONSTANTS p1, p2

Run(op, alias, extra) == [op |-> op, alias |-> alias, extra |-> extra]
Do(op, alias) == Run(op, alias, {})
Call(alias, confirm, dry) == [alias |-> alias, confirm |-> confirm, dry_run |-> dry]

Both == <<[alias |-> "work", default |-> TRUE], [alias |-> "home", default |-> FALSE]>>
Wide == {"gmail.modify", "gmail.send", "calendar"}
TwoTokens == "work" :> [grant |-> 1, scopes |-> Wide] @@ "home" :> [grant |-> 2, scopes |-> {"gmail.modify"}]
Db(version) == [main |-> "private", version |-> version, tables |-> version, sidecars |-> FALSE]
Stores(w, h) == "work" :> w @@ "home" :> h

(* Two accounts, a private umask and nothing to do; plans differ from this.     *)
Base ==
    [cfg |-> DefaultConfig, env |-> [umask |-> "private", skip |-> FALSE], registry |-> Both, token |-> TwoTokens,
     dirs |-> [config |-> "private", tokens |-> "private", cache |-> "private"], db |-> Stores(Db(3), Db(3)),
     todo |-> p1 :> <<>> @@ p2 :> <<>>, purges |-> <<>>, lapses |-> 1, faults |-> 0]
NoCache == [DefaultConfig EXCEPT !.cache = FALSE]
OneToken == [TwoTokens EXCEPT !["work"] = NoToken]

(* A fresh install: no account, no tokens directory, no cache. *)
Fresh ==
    [Base EXCEPT !.registry = <<>>, !.token = NoTokens, !.dirs.tokens = "absent", !.dirs.cache = "absent",
                 !.db = Stores(NoDb, NoDb)]

(* config.toml files the daemon refuses, or that change what it starts. *)
Configs ==
    {[DefaultConfig EXCEPT !.parses = FALSE], [DefaultConfig EXCEPT !.services["gmail"].profile = "all"],
     [DefaultConfig EXCEPT !.services["drive"].scopes = {"drive.all"}],
     [DefaultConfig EXCEPT !.rates["gmail"] = 0], [DefaultConfig EXCEPT !.rotate = "size:0"],
     [DefaultConfig EXCEPT !.services["gmail"].tools = {"list_contacts"}],
     [DefaultConfig EXCEPT !.services["gmail"].enabled = FALSE], [DefaultConfig EXCEPT !.credentials = "service"],
     [DefaultConfig EXCEPT !.metrics = TRUE], [DefaultConfig EXCEPT !.metrics = TRUE, !.address = FALSE],
     [DefaultConfig EXCEPT !.backend = "keychain"], NoCache}

Plenty ==
    {[Fresh EXCEPT !.todo[p1] = <<Do("add", "work"), Do("add", "home")>>, !.faults = 2],
     [Fresh EXCEPT !.todo[p1] = <<Do("add", "work")>>, !.todo[p2] = <<Do("add", "home"), Do("list", "")>>,
                   !.cfg = NoCache, !.faults = 1],
     [Base EXCEPT !.todo[p1] = <<Run("grant", "work", {"drive"})>>, !.todo[p2] = <<Do("refresh", "work")>>,
                  !.cfg = NoCache, !.faults = 1],
     [Base EXCEPT !.todo[p1] = <<Run("grant", "work", {"drive"})>>, !.todo[p2] = <<Do("remove", "work")>>,
                  !.cfg = NoCache, !.faults = 1, !.lapses = 0],
     [Base EXCEPT !.todo[p1] = <<Do("remove", "work"), Do("set_default", "home")>>, !.todo[p2] = <<Do("add", "work")>>,
                  !.cfg = NoCache, !.lapses = 0, !.faults = 1],
     [Base EXCEPT !.todo[p1] = <<Do("remove --revoke", "home"), Do("grant", "home"), Do("remove", "*")>>, !.cfg = NoCache,
                  !.faults = 1, !.token = OneToken],
     [Base EXCEPT !.purges = <<Call("work", TRUE, TRUE), Call("*", TRUE, FALSE), Call("work", TRUE, FALSE), Call("work", TRUE, FALSE)>>,
                  !.faults = 2],
     [Base EXCEPT !.purges = <<Call("work", FALSE, FALSE), Call("work", TRUE, FALSE), Call("home", TRUE, FALSE)>>,
                  !.todo[p1] = <<Do("set_default", "home")>>, !.faults = 1],
     [Base EXCEPT !.purges = <<Call("work", TRUE, FALSE)>>, !.todo[p1] = <<Do("add", "work")>>, !.cfg = NoCache],
     [Base EXCEPT !.env.umask = "wide", !.dirs.cache = "absent", !.db = Stores(NoDb, Db(1)), !.todo[p1] = <<Do("grant", "work")>>],
     [Base EXCEPT !.env.skip = TRUE, !.dirs.tokens = "wide", !.db = Stores(Db(1), NoDb), !.faults = 2],
     [Base EXCEPT !.db = Stores(Db(3), Db(4))]}
    \cup {[Base EXCEPT !.cfg = c, !.token = OneToken, !.todo[p1] = <<Do("add", "work")>>] : c \in Configs}

================================================================================
