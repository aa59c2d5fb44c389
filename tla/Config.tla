--------------------------------- MODULE Config ---------------------------------
(* config.toml as the daemon and the command line read it: what load accepts,     *)
(* the scopes a profile stands for, and which operations an account may use.      *)
(* A configuration is a record of the settings that decide something.             *)
EXTENDS Integers, FiniteSets, Sequences

Services == {"gmail", "calendar", "contacts", "drive"}
Aspects == {"read", "write", "destructive"}
Unset == "unset"

(* Settings of a service that its TOML table leaves out. *)
NoCapabilities == [a \in Aspects |-> Unset]
DefaultService ==
    [enabled |-> FALSE, scopes |-> {}, profile |-> "modify+send", capabilities |-> NoCapabilities,
     accounts |-> {}, tools |-> {}]
DefaultGmail == [DefaultService EXCEPT !.enabled = TRUE, !.scopes = {"gmail.modify", "gmail.send"}]

(* What Config::default gives; a missing file is this. `rotate` and `credentials` *)
(* are kept as they parse ("size:0" does not); `cache` and `metrics` are whether  *)
(* their tables turn them on, `address` whether the metrics address is free.      *)
DefaultConfig ==
    [parses |-> TRUE, services |-> [s \in Services |-> IF s = "gmail" THEN DefaultGmail ELSE DefaultService],
     bind |-> "loopback", rates |-> [s \in {"gmail", "calendar"} |-> 5], rotate |-> "monthly",
     backend |-> "file", cache |-> TRUE, metrics |-> FALSE, address |-> TRUE, credentials |-> "installed"]

--------------------------------------------------------------------------------
(* Scopes *)

Profiles == {"readonly", "modify", "modify+send"}

ProfileScopes(p) ==
    CASE p = "readonly" -> {"gmail.readonly"} [] p = "modify" -> {"gmail.modify"}
      [] p = "modify+send" -> {"gmail.modify", "gmail.send"}

(* granted_scopes_match, which only decides a warning. *)
ScopesMatch(p, granted) == ProfileScopes(p) \subseteq granted

AllowedDriveScopes == {"drive.readonly", "drive.file", "drive"}

(* resolve_account_scopes: an account's own list, when it has one, else the service's. *)
AccountScopes(entry, alias) ==
    LET own == {o \in entry.accounts : o.alias = alias /\ o.scopes # {}} IN
    IF own = {} THEN entry.scopes ELSE (CHOOSE o \in own : TRUE).scopes

--------------------------------------------------------------------------------
(* Capabilities: the account's setting, else the service's, else what is built in *)

BuiltIn(service, aspect) == service = "gmail" \/ aspect = "read"

Allows(cfg, alias, service, aspect) ==
    LET entry == cfg.services[service]
        own == {o \in entry.accounts : o.alias = alias /\ o.capabilities[aspect] # Unset} IN
    IF own # {} THEN (CHOOSE o \in own : TRUE).capabilities[aspect] = "yes"
    ELSE IF entry.capabilities[aspect] # Unset THEN entry.capabilities[aspect] = "yes"
    ELSE BuiltIn(service, aspect)

--------------------------------------------------------------------------------
(* Config::load *)

SanctionedOverrides == {"list_contacts", "list_other_contacts", "list_directory_people", "send_draft"}

DriveScopesValid(entry) ==
    UNION ({entry.scopes} \cup {o.scopes : o \in entry.accounts}) \subseteq AllowedDriveScopes

RotateParses(r) == r \in {"monthly", "weekly", "daily", "size:1048576"}

Loads(cfg) ==
    /\ cfg.parses /\ RotateParses(cfg.rotate)
    /\ cfg.services["gmail"].enabled => cfg.services["gmail"].profile \in Profiles
    /\ cfg.bind \in {"loopback", "open"}
    /\ \A s \in DOMAIN cfg.rates : cfg.rates[s] > 0
    /\ \A s \in Services : cfg.services[s].tools \subseteq SanctionedOverrides
    /\ DriveScopesValid(cfg.services["drive"])

(* Credentials::load: an `installed` or a `web` client. *)
HasCredentials(cfg) == cfg.credentials \in {"installed", "web"}

(* What `auth add` asks of the configuration before it opens a browser. *)
CanAuthorise(cfg) ==
    Loads(cfg) /\ HasCredentials(cfg) /\ cfg.services["gmail"].enabled /\ cfg.services["gmail"].scopes # {}
================================================================================
