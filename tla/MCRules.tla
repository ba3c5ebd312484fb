------------------------------ MODULE MCRules ------------------------------
(* Rules with the headers and addresses it is asked about. *)
EXTENDS Rules

MediaRange(typ, sub, params, q) == [typ |-> typ, sub |-> sub, params |-> params, q |-> q]
MCRanges ==
  {MediaRange(n[1], n[2], {}, q) :
     n \in {<<"*", "*">>, <<"text", "*">>, <<"text", "html">>, <<"application", "json">>,
            <<"application", "vnd.cetacean.v1+json">>, <<"text", "event-stream">>,
            <<"application", "vnd.jgf+json">>, <<"text", "csv">>}, q \in {0, 5, 10}}
  \cup {MediaRange("text", "csv", {<<"header", "absent">>}, 10),
        MediaRange("application", "problem+json", {}, 10)}
MCServes == {{"JSON", "HTML"}, {"JSON", "HTML", "SSE", "CSV"}, {"JSON", "HTML", "JGF", "DOT"}, {"CSV", "SSE"}}
MCAddresses == {"real", "proxy1", "proxy2", "garbled"}
MCTrusted == {"proxy1", "proxy2"}
=============================================================================
