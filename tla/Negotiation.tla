---------------------------- MODULE Negotiation ----------------------------
(***************************************************************************)
(* Which representation a request gets (api/negotiate.go, dispatch.go).    *)
(* Two choices are made for one request: negotiate picks the best of every *)
(* type the program knows, before the route is known, and the endpoint     *)
(* then picks the best of the types it serves.                             *)
(*                                                                         *)
(* An Accept header is the sequence of its ranges, each a type, a subtype, *)
(* parameters and a weight; "*" is the wildcard.  Splitting and parsing    *)
(* the header are abstracted: a malformed element is not in the sequence.  *)
(***************************************************************************)
EXTENDS Integers, Sequences, FiniteSets, FiniteSetsExt, SequencesExt

NoParams == {}
MediaType(typ, sub, params) == [typ |-> typ, sub |-> sub, params |-> params]
Unsupported == "Unsupported"

(* supportedTypes, by ContentType: the names a client may ask for it by. *)
supportedTypes(ct) ==
  LET app(subs) == {<<"application", s>> : s \in subs}
      text(subs) == {<<"text", s>> : s \in subs}
  IN  CASE ct = "JSON" -> app({"json", "vnd.cetacean.v1+json", "ld+json", "vnd.oai.openapi+json",
                               "openapi+json", "vnd.aai.asyncapi+json", "asyncapi+json"})
        [] ct = "HTML" -> text({"html"}) \cup app({"xhtml+xml"})
        [] ct = "SSE" -> text({"event-stream"})
        [] ct = "Atom" -> app({"atom+xml"})
        [] ct = "JSONFeed" -> app({"feed+json"})
        [] ct = "JGF" -> app({"vnd.jgf+json"})
        [] ct = "GraphML" -> app({"graphml+xml"})
        [] ct = "DOT" -> text({"vnd.graphviz"})
        [] ct = "CSV" -> text({"csv"})
        [] ct = "YAML" -> text({"yaml", "x-yaml"}) \cup
                          app({"yaml", "x-yaml", "vnd.oai.openapi", "openapi+yaml",
                               "vnd.aai.asyncapi+yaml", "asyncapi+yaml"})
        [] ct = "SPDX" -> app({"spdx+json"})
        [] ct = "Plain" -> text({"plain"})

(* contentTypeOrder: among equal weights the first wins. *)
contentTypeOrder == <<"JSON", "HTML", "SSE", "Atom", "JSONFeed", "JGF", "GraphML", "DOT",
                      "CSV", "YAML", "SPDX", "Plain">>
ContentTypes == ToSet(contentTypeOrder)

(* sentAs: what each type goes out as, with its parameters. *)
sentAs(ct) ==
  CASE ct = "CSV" -> MediaType("text", "csv", {<<"header", "present">>})
    [] ct = "Plain" -> MediaType("text", "plain", {<<"charset", "utf-8">>})
    [] ct = "HTML" -> MediaType("text", "html", NoParams)
    [] ct = "SSE" -> MediaType("text", "event-stream", NoParams)
    [] ct = "DOT" -> MediaType("text", "vnd.graphviz", NoParams)
    [] OTHER -> MediaType("application",
                  CASE ct = "JSON" -> "json" [] ct = "Atom" -> "atom+xml"
                    [] ct = "JSONFeed" -> "feed+json" [] ct = "JGF" -> "vnd.jgf+json"
                    [] ct = "GraphML" -> "graphml+xml" [] ct = "YAML" -> "yaml"
                    [] ct = "SPDX" -> "spdx+json", NoParams)

(* sending: topologySends is the one endpoint that sends JSON as JGF. *)
SentBy(sends, ct) == IF ct \in DOMAIN sends THEN sends[ct] ELSE sentAs(ct)

----------------------------------------------------------------------------
(* Ranges *)

Named(mr) == mr.typ # "*" /\ mr.sub # "*"

(* specificity: a full wildcard, a partial one, a type; then the parameters. *)
specificity(mr) ==
  100 * (IF mr.typ = "*" THEN 1 ELSE IF mr.sub = "*" THEN 2 ELSE 3) + Cardinality(mr.params)

(* Every body sent is UTF-8. *)
Carries(mt, param) == IF param[1] = "charset" THEN param[2] = "utf-8" ELSE param \in mt.params

Matches(mr, mt) ==
  /\ \/ mr.typ = "*" /\ mr.sub = "*"
     \/ mr.typ = mt.typ /\ mr.sub \in {"*", mt.sub}
  /\ \A p \in mr.params : Carries(mt, p)

(* outranks: heavier, then more specific, then listed first. *)
Outranks(accept, i, j) ==
  \/ accept[i].q > accept[j].q
  \/ /\ accept[i].q = accept[j].q
     /\ \/ specificity(accept[i]) > specificity(accept[j])
        \/ specificity(accept[i]) = specificity(accept[j]) /\ i < j

(* governingRange: the index of the most specific range matching mt, the   *)
(* first of equals; 0 when none matches.                                   *)
MostSpecific(accept, matching) ==
  IF matching = {} THEN 0
  ELSE Min({i \in matching : \A j \in matching : specificity(accept[j]) <= specificity(accept[i])})
governingRange(accept, mt) == MostSpecific(accept, {i \in DOMAIN accept : Matches(accept[i], mt)})

WeighByWildcard(accept, ct, sent) == governingRange(accept, sent)

(* weigh: the range that weighs ct sent as sent, 0 for none.  An alias     *)
(* named at a usable weight stands in for the name itself, unless that is  *)
(* named too; a wildcard admits no stream.                                 *)
Weighing(accept, ct, governing, aliases) ==
  LET usable == {i \in aliases \ {0} : Named(accept[i]) /\ accept[i].q > 0}
  IN  IF governing # 0 /\ Named(accept[governing]) THEN governing
      ELSE IF usable # {} THEN CHOOSE i \in usable : \A j \in usable \ {i} : Outranks(accept, i, j)
      ELSE IF ct = "SSE" THEN 0
      ELSE governing
weigh(accept, ct, sent) ==
  Weighing(accept, ct, governingRange(accept, sent),
           {governingRange(accept, MediaType(n[1], n[2], sent.params)) :
              n \in supportedTypes(ct) \ {<<sent.typ, sent.sub>>}})

(* bestServed: of the types served, the one whose range outranks the rest; *)
(* w gives the range of each.                                              *)
Heaviest(accept, w) ==
  LET usable == {ct \in DOMAIN w : w[ct] # 0 /\ accept[w[ct]].q > 0}
      best == {ct \in usable : \A o \in usable : ~ Outranks(accept, w[o], w[ct])}
  IN  IF usable = {} THEN Unsupported
      ELSE contentTypeOrder[Min({i \in DOMAIN contentTypeOrder : contentTypeOrder[i] \in best})]
bestServed(accept, serves, sends) ==
  Heaviest(accept, [ct \in serves |-> weigh(accept, ct, SentBy(sends, ct))])

bestMatch(accept) ==
  IF accept = <<>> THEN "JSON" ELSE bestServed(accept, ContentTypes, <<>>)

(* rangesAcceptHTML *)
rangesAcceptHTML(accept) ==
  \/ accept = <<>>
  \/ LET i == weigh(accept, "HTML", sentAs("HTML")) IN i # 0 /\ accept[i].q > 0

(* acceptsProblem: application/problem+json named at a usable weight. *)
acceptsProblem(accept) ==
  \E i \in DOMAIN accept : accept[i].typ = "application" /\ accept[i].sub = "problem+json"
                           /\ accept[i].q > 0

----------------------------------------------------------------------------
(* A request: its Accept, and the type a suffix of its path names, or "".  *)

(* negotiated: what negotiate records for the rest of the chain. *)
Negotiated(accept, suffix) ==
  IF suffix # "" THEN suffix ELSE bestMatch(accept)
HTMLUnacceptable(accept, suffix) ==
  IF suffix # "" THEN suffix # "HTML" ELSE ~ rangesAcceptHTML(accept)

NegotiatedAnyway(accept, suffix, sends, serves) ==
  LET best == bestServed(accept, serves, sends)
  IN  IF suffix # "" \/ accept = <<>> \/ best = Unsupported THEN Negotiated(accept, suffix) ELSE best

(* negotiatedAmong, which choose records: a suffix is not second-guessed;  *)
(* when nothing served is acceptable the client's favourite is refused.    *)
Chosen(accept, suffix, serves, ct, best) ==
  IF suffix # "" \/ accept = <<>> THEN ct
  ELSE IF best # Unsupported \/ ct \in serves THEN best
  ELSE ct
negotiatedAmong(accept, suffix, sends, serves) ==
  Chosen(accept, suffix, serves, Negotiated(accept, suffix), bestServed(accept, serves, sends))

(* acceptableAs *)
acceptable(accept, suffix, serves) ==
  \/ negotiatedAmong(accept, suffix, <<>>, serves) \in serves
  \/ suffix = "" /\ accept = <<>>

----------------------------------------------------------------------------
(* feedHandlers.servedTypes: what a negotiated endpoint serves. *)
servedTypes(sse, feeds) == {"JSON", "HTML"} \cup (IF sse THEN {"SSE"} ELSE {}) \cup feeds

(* contentNegotiatedWithSSE: the arm that answers, or a refusal's code. *)
Arm(ct, served) == IF ct \in served THEN ct ELSE IF ct = "SSE" THEN "API001" ELSE "API003"
contentNegotiated(accept, suffix, sse, feeds) ==
  Arm(negotiatedAmong(accept, suffix, <<>>, servedTypes(sse, feeds)), servedTypes(sse, feeds))
=============================================================================
