------------------------------ MODULE MCToolCalls ------------------------------
EXTENDS ToolCalls

CONSTANTS c1, c2, a1, a2, a3

Request(tool, args, ids) == [tool |-> tool, args |-> args, ids |-> ids]
On(account) == [account |-> account]
Batch(account, dry) == [account |-> account, thread_ids |-> "texts", dry_run |-> dry]

Trash(account) == Request("trash_thread", On(account) @@ [thread_id |-> "text"], 1)

Archive(dry) == Request("batch_archive", Batch("text", dry), 2)
Invalidate(account) == Request("cache_invalidate", On(account) @@ [scope |-> "text"], 1)
Download ==
    Request("download_attachment",
            On("text") @@ [message_id |-> "text", attachment_id |-> "text", mime_type |-> "text"], 1)

Members(names) ==
    Request(MembershipTool,
            On("text") @@ [contact_group_resource_name |-> "text", resource_names_to_add |-> names], 2)

Freebusy(until) ==
    Request("query_freebusy",
            On("text") @@ [calendar_ids |-> "texts", time_min |-> "text", time_max |-> until], 1)

Pair(r1, r2) == c1 :> r1 @@ c2 :> r2

MailPlans ==
    {Pair(Trash("text"), Trash("text")), Pair(NoRequest, Archive("absent")),
     Pair(Invalidate("text"), Archive("true")),
     Pair(Trash("star"), Invalidate("star")), Pair(Trash("text"), Download),
     Pair(Request("list_labels", On("star"), 1), NoRequest),
     Pair(Members("texts"), Members("odds")), Pair(Freebusy("text"), Freebusy("odd"))}

Built == [services |-> {"contacts", "calendar"}, known |-> TRUE, cache |-> TRUE, verbose |-> FALSE]
DailyOrSize == {[kind |-> "daily", limit |-> 0], [kind |-> "size", limit |-> 3]}
================================================================================
