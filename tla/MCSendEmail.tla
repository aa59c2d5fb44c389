------------------------------ MODULE MCSendEmail ------------------------------
EXTENDS SendEmail

CONSTANTS s1, s2, s3

Message(account, to, thread) ==
    [kind |-> "send", account |-> account, to |-> to, cc |-> <<>>, text |-> "text", thread |-> thread, dry |-> FALSE]

Reading(service) == [kind |-> "read", service |-> service]
Work == Message("work", <<"ann", "bob">>, "")
Reply == Message("work", <<"ann">>, "thread")

Plan(m1, m2, m3, clients, bad, budget) ==
    [ask |-> s1 :> m1 @@ s2 :> m2 @@ s3 :> m3, wired |-> clients, flaky |-> bad, faults |-> budget]
Nothing == [kind |-> "none"]
Again == [Work EXCEPT !.to = <<"bob", "ann">>]
Home == [Work EXCEPT !.account = "home"]

(* The same message twice, its recipients in either order, beside one of another *)
(* account, or with faults; a reply beside a read; a dry run, a bad message and  *)
(* reads of other services.                                                      *)
Plenty ==
    {Plan(Work, Again, Home, {}, {}, 0), Plan(Work, Again, Nothing, {}, {}, 1),
     Plan(Work, Again, Nothing, {}, {s1}, 0),
     Plan(Reply, Nothing, Nothing, {"gmail"}, {s1}, 1),
     Plan(Reply, Reading("gmail"), Reading("gmail"), {}, {}, 0),
     Plan([Work EXCEPT !.dry = TRUE], [Reply EXCEPT !.to = <<"crlf">>], Reading("calendar"), {}, {s3}, 1),
     Plan(Reading("contacts"), Reading("drive"), Nothing, {}, {}, 0)}

Owners == s1 :> "work" @@ s2 :> "work" @@ s3 :> "home"
================================================================================
