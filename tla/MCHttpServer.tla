------------------------------ MODULE MCHttpServer ------------------------------
EXTENDS HttpServer, TLC

CONSTANTS c1, c2, c3

File(tokens) == [kind |-> "ok", tokens |-> tokens]
Missing == [kind |-> "missing", tokens |-> <<>>]

Plan(where, ticks, f, changes, t1, t2, t3) ==
    [bind |-> where, ticks |-> ticks, file |-> f, edits |-> changes,
     tries |-> c1 :> t1 @@ c2 :> t2 @@ c3 :> t3]

(* A rotation in two edits with requests of both tokens; files that cannot be   *)
(* used; wrong guesses of two connections of one address; the other transports. *)
Plenty ==
    {Plan("open", 0, File(<<"old">>), <<File(<<"old", "new">>), File(<<"new">>)>>, <<"old", "old">>, <<>>, <<"new">>),
     Plan("open", 0, File(<<"old">>), <<File(<<>>), File(<<"new", "new">>), File(<<"new">>)>>, <<"">>, <<>>, <<"old">>),
     Plan("open", 0, File(<<"old">>), <<Missing>>, <<"bad">>, <<>>, <<"old">>),
     Plan("open", 0, Missing, <<File(<<"old">>)>>, <<"old">>, <<>>, <<>>),
     Plan("open", 0, File(<<"old", "">>), <<>>, <<"old">>, <<>>, <<>>),
     Plan("open", 4, File(<<"old">>), <<>>, <<>>, <<>>, <<"bad", "bad", "bad", "bad", "bad", "bad">>),
     Plan("open", 2, File(<<"old">>), <<>>, <<"bad", "bad", "old">>, <<"bad", "", "bad">>, <<>>),
     Plan("loopback", 5, Missing, <<Missing>>, <<"">>, <<>>, <<>>),
     Plan("stdio", 0, Missing, <<Missing>>, <<>>, <<>>, <<>>)}

Addresses == c1 :> "a" @@ c2 :> "a" @@ c3 :> "b"
================================================================================
