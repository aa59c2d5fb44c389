------------------------------ MODULE ServiceTools ------------------------------
(* What the calendar and contacts tools check of their arguments before anything  *)
(* goes upstream (calendar/calendars.rs, events.rs and freebusy.rs,               *)
(* contacts/people.rs and groups.rs). Their answers are mapped field by field and *)
(* are not modelled.                                                              *)
EXTENDS Tools

Given(args, name) == IF name \in DOMAIN args THEN args[name] ELSE "absent"

RequireNonEmpty(args, names) == \A name \in names : Given(args, name) # "blank"

(* The alias is given, and access_token has a cell for it: an "odd" one has none.  *)
HasAccount(args) == Given(args, "account") \notin {"blank", "odd"}

(* A name of the form people/<id> or contactGroups/<id>. *)
ResourceName(args, name) == Given(args, name) = "text"

ListCalendars(args) == HasAccount(args)

ListEvents(args) ==
    /\ HasAccount(args) /\ RequireNonEmpty(args, {"calendar_id", "time_min", "time_max"})
    /\ Given(args, "max_results") # "excess"

GetEvent(args) == HasAccount(args) /\ RequireNonEmpty(args, {"calendar_id", "event_id"})

(* An "odd" time does not parse, or leaves a window that is empty or too long.    *)
QueryFreebusy(args) ==
    /\ HasAccount(args) /\ RequireNonEmpty(args, {"time_min", "time_max"})
    /\ Given(args, "calendar_ids") # "odds"
    /\ \A name \in {"time_min", "time_max"} : Given(args, name) = "text"

RequirePersonFields(args, name) == StringArrayArg(Given(args, name))

ListContacts(args) == HasAccount(args) /\ RequirePersonFields(args, "person_fields")

(* read_mask stands in for person_fields when both are given.                     *)
SearchContacts(args) ==
    /\ HasAccount(args) /\ RequireNonEmpty(args, {"query"})
    /\ \E name \in {"read_mask", "person_fields"} : RequirePersonFields(args, name)

GetContact(args) == ListContacts(args) /\ ResourceName(args, "resource_name")

ListContactGroups(args) == HasAccount(args)

GetContactGroup(args) == HasAccount(args) /\ ResourceName(args, "resource_name")

ModifyContactGroupMembership(args) ==
    /\ HasAccount(args)
    /\ ResourceName(args, "contact_group_resource_name")
    /\ LET members == {"resource_names_to_add", "resource_names_to_remove"} IN
       /\ \E name \in members : StringArrayArg(Given(args, name))
       /\ \A name \in members : Given(args, name) # "odds"

(* Whether the function behind a tool goes upstream with these arguments.         *)
ServiceTakes(tool, args) ==
    CASE tool = "list_calendars" -> ListCalendars(args)
      [] tool = "list_events" -> ListEvents(args)
      [] tool = "get_event" -> GetEvent(args)
      [] tool = "query_freebusy" -> QueryFreebusy(args)
      [] tool = "list_contacts" -> ListContacts(args)
      [] tool = "search_contacts" -> SearchContacts(args)
      [] tool = "get_contact" -> GetContact(args)
      [] tool = "list_contact_groups" -> ListContactGroups(args)
      [] tool = "get_contact_group" -> GetContactGroup(args)
      [] tool = "modify_contact_group_membership" -> ModifyContactGroupMembership(args)
      [] OTHER -> TRUE
=================================================================================
