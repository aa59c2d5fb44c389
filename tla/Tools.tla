--------------------------------- MODULE Tools ---------------------------------
(* The tool surface: what each tool declares to the host (descriptors.rs), how  *)
(* it is classified (metadata.rs), what its dispatch arm reads from a request   *)
(* (dispatch.rs, args.rs), and the MCP code of each error (error.rs).           *)
(*                                                                              *)
(* A JSON argument is abstracted to what extraction and the tools tell apart:   *)
(*   "absent"; the strings "text", "blank" (empty), "star" ("*") and "odd" (one *)
(*   the tool itself refuses: no value of an enumeration, no timestamp, no      *)
(*   resource name); "true"; "number" and "excess" (a number out of range); the *)
(*   arrays "texts" (strings), "mixed" (a string among other values), "odds"    *)
(*   (with a string the tool refuses) and "empties" (no string in it).          *)
EXTENDS Naturals, Sequences, TLC

Kinds ==
    {"absent", "text", "blank", "star", "odd", "true", "number", "excess",
     "texts", "mixed", "odds", "empties"}
IsString(v) == v \in {"text", "blank", "star", "odd"}

--------------------------------------------------------------------------------
(* Aspects *)

ReadTools ==
    {"list_accounts", "list_labels", "mcp_status", "audit_summary", "search_threads",
     "get_thread", "get_message", "get_full_body", "parse_forwarded_attachment",
     "list_attachments", "download_attachment", "cache_status", "list_calendars",
     "list_events", "get_event", "query_freebusy", "list_contacts", "search_contacts",
     "get_contact", "list_contact_groups", "get_contact_group"}

WriteTools ==
    {"cache_invalidate", "archive_thread", "batch_archive", "modify_thread_labels",
     "batch_modify_thread_labels", "modify_contact_group_membership"}

DestructiveTools == {"purge_account", "trash_thread", "batch_trash", "send_email"}

FanoutEligible(tool) == tool \in ReadTools

--------------------------------------------------------------------------------
(* Descriptors: the arguments a tool requires and those it also takes *)

Shape(need, may) == [need |-> need, may |-> may]

StatusSchemas ==
    [list_accounts |-> Shape({}, {}),
     mcp_status    |-> Shape({}, {"account"}),
     audit_summary |-> Shape({}, {"since", "account", "tool"}),
     list_labels   |-> Shape({"account"}, {})]

ArchiveSchemas ==
    [archive_thread |-> Shape({"account", "thread_id"}, {"dry_run"}),
     batch_archive  |-> Shape({"account", "thread_ids"}, {"dry_run", "mode"})]

MailSchemas ==
    [search_threads |-> Shape({"account"}, {"query", "max_results", "page_token"}),
     get_thread     |-> Shape({"account", "thread_id"}, {"format"}),
     get_message    |-> Shape({"account", "message_id"}, {"format"})]

BodySchemas ==
    [get_full_body |-> Shape({"account", "message_id"}, {"part_id"}),
     parse_forwarded_attachment |->
        Shape({"account", "message_id", "attachment_id"}, {"max_depth"})]

CacheSchemas ==
    [cache_status     |-> Shape({}, {"account"}),
     cache_invalidate |-> Shape({"account", "scope"}, {}),
     purge_account    |-> Shape({"account", "confirm"}, {"dry_run"})]

AttachmentSchemas ==
    [download_attachment |->
        Shape({"account", "message_id", "attachment_id", "mime_type"}, {"save_to"}),
     list_attachments |-> Shape({"account", "thread_id"}, {})]

TrashSchemas ==
    [trash_thread |-> Shape({"account", "thread_id"}, {"dry_run"}),
     batch_trash  |-> Shape({"account", "thread_ids"}, {"dry_run", "mode"})]

LabelSchemas ==
    [modify_thread_labels |->
        Shape({"account", "thread_id"}, {"add_label_ids", "remove_label_ids", "dry_run"}),
     batch_modify_thread_labels |->
        Shape({"account", "thread_ids"}, {"add_label_ids", "remove_label_ids", "dry_run", "mode"})]

ContactSchemas ==
    [list_contacts   |-> Shape({"account", "person_fields"}, {"page_token"}),
     search_contacts |-> Shape({"account", "query"}, {"person_fields", "read_mask"}),
     get_contact     |-> Shape({"account", "resource_name", "person_fields"}, {})]

GroupSchemas ==
    [list_contact_groups |-> Shape({"account"}, {"group_fields", "page_token"}),
     get_contact_group   |-> Shape({"account", "resource_name"}, {"group_fields", "max_members"}),
     modify_contact_group_membership |->
        Shape({"account", "contact_group_resource_name"},
              {"resource_names_to_add", "resource_names_to_remove"})]

EventSchemas ==
    [list_calendars |-> Shape({"account"}, {}),
     list_events    |-> Shape({"account", "calendar_id", "time_min", "time_max"},
                              {"q", "single_events", "order_by", "max_results", "page_token"})]

CalendarSchemas ==
    [get_event      |-> Shape({"account", "calendar_id", "event_id"}, {"instance_id"}),
     query_freebusy |-> Shape({"account", "calendar_ids", "time_min", "time_max"}, {})]

Schema ==
    StatusSchemas @@ ArchiveSchemas @@ MailSchemas @@ BodySchemas @@ CacheSchemas
    @@ AttachmentSchemas @@ TrashSchemas @@ LabelSchemas @@ ContactSchemas
    @@ GroupSchemas @@ EventSchemas @@ CalendarSchemas

RegisteredTools == DOMAIN Schema

ArrayArgs == {"thread_ids", "add_label_ids", "remove_label_ids", "person_fields", "read_mask",
              "group_fields", "resource_names_to_add", "resource_names_to_remove", "calendar_ids"}
BoolArgs == {"dry_run", "single_events"}
IntArgs  == {"max_results", "max_depth", "max_members"}
EnumArgs == {"mode", "format", "scope", "part_id", "order_by"}

(* The values the declared JSON type of an argument allows. *)
Declared(arg) ==
    CASE arg \in ArrayArgs -> {"texts"}
      [] arg \in BoolArgs  -> {"true"}
      [] arg \in IntArgs   -> {"number"}
      [] arg \in EnumArgs  -> {"text"}
      [] OTHER             -> {"text", "blank", "star", "odd"}

--------------------------------------------------------------------------------
(* Dispatch arms: what each arm reads, in order. A step is <<extractor, arg>>;  *)
(* "single" refuses the fan-out marker, "service" a service not enabled.        *)

Account == <<"account", "account">>
Text(arg) == <<"string", arg>>
Some(arg) == <<"strings", arg>>
May(arg)  == <<"optional", arg>>
Single == <<"single", "account">>

StatusArms ==
    [list_accounts |-> <<>>,
     mcp_status    |-> <<<<"known", "account">>>>,
     audit_summary |-> <<May("since"), May("account"), May("tool")>>,
     list_labels   |-> <<Text("account")>>]

ThreadArms ==
    [search_threads |-> <<Text("account"), May("query"), May("max_results"), May("page_token")>>,
     get_thread     |-> <<Text("account"), Single, Text("thread_id"), <<"enum", "format">>>>]

MessageArms ==
    [get_message   |-> <<Text("account"), Single, Text("message_id"), <<"enum", "format">>>>,
     get_full_body |-> <<Text("account"), Single, Text("message_id"), May("part_id")>>,
     parse_forwarded_attachment |->
        <<Text("account"), Single, Text("message_id"), Text("attachment_id"), May("max_depth")>>]

AttachmentArms ==
    [list_attachments    |-> <<Text("account"), Single, Text("thread_id")>>,
     download_attachment |-> <<Text("account"), Single, Text("message_id"), Text("attachment_id"),
                               Text("mime_type"), May("save_to")>>,
     cache_status        |-> <<May("account")>>]

PurgeArms ==
    [cache_invalidate |-> <<Text("account"), Text("scope"), <<"enum", "scope">>>>,
     purge_account    |-> <<Text("account"), Single, May("dry_run"), Text("confirm")>>]

ArchiveArms ==
    [archive_thread |-> <<Account, Text("thread_id"), May("dry_run")>>,
     batch_archive  |-> <<Account, Some("thread_ids"), May("dry_run"), <<"enum", "mode">>>>]

TrashArms ==
    [trash_thread |-> <<Account, Text("thread_id"), May("dry_run")>>,
     batch_trash  |-> <<Account, Some("thread_ids"), May("dry_run"), <<"enum", "mode">>>>]

LabelArms ==
    [modify_thread_labels |->
        <<Account, Text("thread_id"), May("add_label_ids"), May("remove_label_ids"), May("dry_run")>>,
     batch_modify_thread_labels |->
        <<Account, Some("thread_ids"), May("add_label_ids"), May("remove_label_ids"),
          May("dry_run"), <<"enum", "mode">>>>]

Calendar == <<"service", "calendar">>
CalendarArms ==
    [list_calendars |-> <<Account, Single, Calendar>>,
     list_events    |-> <<Account, Single, Calendar, Text("calendar_id"), Text("time_min"),
                          Text("time_max"), May("q"), May("single_events"), May("order_by"),
                          May("max_results"), May("page_token")>>,
     get_event      |-> <<Account, Single, Calendar, Text("calendar_id"), Text("event_id"),
                          May("instance_id")>>,
     query_freebusy |-> <<Account, Single, Calendar, Some("calendar_ids"), Text("time_min"),
                          Text("time_max")>>]

Contacts == <<"service", "contacts">>
ContactArms ==
    [list_contacts   |-> <<Account, Single, Contacts, Some("person_fields"), May("page_token")>>,
     search_contacts |-> <<Account, Single, Contacts, Text("query"), May("person_fields"),
                           May("read_mask")>>,
     get_contact     |-> <<Account, Single, Contacts, Text("resource_name"), Some("person_fields")>>,
     list_contact_groups |-> <<Account, Single, Contacts, May("group_fields"), May("page_token")>>]

GroupArms ==
    [get_contact_group |-> <<Account, Single, Contacts, Text("resource_name"), May("group_fields"),
                             May("max_members")>>,
     modify_contact_group_membership |->
        <<Account, Contacts, Text("contact_group_resource_name"), May("resource_names_to_add"),
          May("resource_names_to_remove")>>]

ArmTables ==
    {StatusArms, ThreadArms, MessageArms, AttachmentArms, PurgeArms, ArchiveArms, TrashArms,
     LabelArms, CalendarArms, ContactArms, GroupArms}

Arm ==
    [tool \in UNION {DOMAIN arms : arms \in ArmTables} |->
        (CHOOSE arms \in ArmTables : tool \in DOMAIN arms)[tool]]

(* The extractors. `args` gives every argument name a kind; `env` holds the     *)
(* services that were built at startup and whether "text" is a known alias.     *)
StringArg(v) == IsString(v)
StringArrayArg(v) == v \in {"texts", "mixed", "odds"}
BoolArg(v) == v = "true"
AccountArg(tool, v) == IsString(v) /\ (v = "star" => FanoutEligible(tool))
EnumArg(arg, v) == IsString(v) => v = "text"

Passes(tool, step, args, env) ==
    LET v == IF step[2] \in DOMAIN args THEN args[step[2]] ELSE "absent" IN
    CASE step[1] = "account"  -> AccountArg(tool, v)
      [] step[1] = "string"   -> StringArg(v)
      [] step[1] = "strings"  -> StringArrayArg(v)
      [] step[1] = "enum"     -> EnumArg(step[2], v)
      [] step[1] = "single"   -> v # "star"
      [] step[1] = "known"    -> IsString(v) => v = "text" /\ env.known
      [] step[1] = "service"  -> step[2] \in env.services
      [] step[1] = "optional" -> TRUE

(* The request gets past its arm's extraction; an unknown name never does. *)
Accepted(tool, args, env) ==
    /\ tool \in DOMAIN Arm
    /\ \A i \in DOMAIN Arm[tool] : Passes(tool, Arm[tool][i], args, env)

ArgsRead(tool) == {Arm[tool][i][2] : i \in {j \in DOMAIN Arm[tool] : Arm[tool][j][1] # "service"}}

--------------------------------------------------------------------------------
(* Errors *)

Variants ==
    {"AuthRequired", "AccountNotFound", "NotFound", "RecurrenceInstanceNotFound",
     "InvalidArgument", "ConcurrencyConflict", "HeaderInjection", "UnsupportedMimeType",
     "ExportRequired", "UnsupportedExportType", "RateLimited", "Upstream", "Network",
     "Parse", "Io", "Config", "InsecurePermissions", "Internal"}

(* The MCP error code a variant is reported with. *)
ToMcpError(e) ==
    IF e \in {"RateLimited", "Upstream", "Network", "Parse", "Io", "Config",
              "InsecurePermissions", "Internal"}
    THEN "internal_error" ELSE "invalid_params"

(* The `kind` a variant gets in a fan-out entry. *)
FanoutKind(e) ==
    IF e \in {"Parse", "Io", "Config", "InsecurePermissions", "Internal"} THEN "Internal" ELSE e
================================================================================
