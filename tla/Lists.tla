------------------------------- MODULE Lists -------------------------------
(***************************************************************************)
(* Lists and what revalidates them (internal/api list.go, pagination.go,   *)
(* validator.go, etag.go, encoding.go, csv.go, and the filters of          *)
(* handlers.go): what of a list a caller is sent, in which pages, under    *)
(* which tag, and when it is told that nothing changed.                    *)
(*                                                                         *)
(* A state of the server, as a list sees it, is the items with the         *)
(* counters its validator is made of.  A tag is a validator and the coding *)
(* it was sent in; a header names any tag, or some, each weak or not.      *)
(***************************************************************************)
EXTENDS Integers, Sequences, FiniteSets, FiniteSetsExt, SequencesExt, TLC

Vs == INSTANCE Versions

----------------------------------------------------------------------------
(* Tags *)

Identity == "identity"
NoTags == [any |-> FALSE, tags |-> {}]
Star == [any |-> TRUE, tags |-> {}]
codedETag(validator, coding) == [of |-> validator, coding |-> coding]
Candidate(tag, weak) == [tag |-> tag, weak |-> weak]

(* etagMatch compares tags as they were sent, etagMatchStrong what they    *)
(* are of, passing over weak ones.                                         *)
etagMatch(header, tag) == header.any \/ \E c \in header.tags : c.tag = tag
etagMatchStrong(header, tag) == header.any \/ \E c \in header.tags : ~ c.weak /\ c.tag.of = tag.of

(* resolveEncoding: of the codings accepted, by weight, zstd over gzip     *)
(* over none; one not named has the wildcard's weight.                     *)
resolveEncoding(q) ==
  LET weight(c) == IF c \in DOMAIN q.codings THEN q.codings[c]
                   ELSE IF "*" \in DOMAIN q.codings THEN q.codings["*"] ELSE 0
      gzip == IF weight("gzip") > 0 /\ weight("gzip") >= weight(Identity) THEN "gzip" ELSE Identity
      best == IF gzip = "gzip" THEN weight("gzip") ELSE weight(Identity)
  IN  IF weight("zstd") > 0 /\ weight("zstd") >= best THEN "zstd" ELSE gzip

(* negotiateCoding: a body under the threshold is never coded. *)
negotiateCoding(q, large) == IF q.uncoded \/ ~ large THEN Identity ELSE resolveEncoding(q)

(* matchedValidator: the tag the request names, before there is a body to  *)
(* know the coding by.                                                     *)
matchedValidator(q, validator) ==
  LET tags == {codedETag(validator, Identity)}
              \cup (IF q.uncoded THEN {} ELSE {codedETag(validator, resolveEncoding(q))})
  IN  q.ifNoneMatch # NoTags /\ q.ifNoneMatch # Star /\ \E t \in tags : etagMatch(q.ifNoneMatch, t)

(* preconditionFailed and notModified; a date of 0 is none. *)
preconditionFailed(q, tag, modified) ==
  IF q.ifMatch # NoTags THEN ~ etagMatchStrong(q.ifMatch, tag)
  ELSE q.unmodifiedSince # 0 /\ modified > q.unmodifiedSince
notModified(q, tag, modified) ==
  IF q.ifNoneMatch # NoTags \/ modified = 0 THEN etagMatch(q.ifNoneMatch, tag)
  ELSE q.modifiedSince # 0 /\ modified <= q.modifiedSince

----------------------------------------------------------------------------
(* Pages *)

NoRange == <<>>
parseItemsRange(range) ==
  IF range # NoRange /\ 0 <= range[1] /\ range[1] <= range[2]
  THEN [limit |-> range[2] - range[1] + 1, offset |-> range[1], matched |-> TRUE]
  ELSE [limit |-> 0, offset |-> 0, matched |-> FALSE]

(* parsePagination: 50 unless a limit or a range says, and never over 200; *)
(* a range counts only where the query does not page.  A limit of 0 and an *)
(* offset of -1 are none.                                                  *)
parsePagination(q) ==
  LET range == parseItemsRange(q.range)
      ranged == q.limit = 0 /\ q.offset = -1 /\ range.matched
      limit == IF ranged THEN range.limit ELSE IF q.limit = 0 THEN 50 ELSE q.limit
  IN  [limit |-> Min({limit, 200}),
       offset |-> IF ranged THEN range.offset ELSE IF q.offset = -1 THEN 0 ELSE q.offset,
       ranged |-> ranged, explicit |-> q.limit # 0]

pageOf(items, p) ==
  LET start == Min({p.offset, Len(items)})
  IN  SubSeq(items, start + 1, Min({start + p.limit, Len(items)}))

(* csvPage: a table is whole unless the query bounds it. *)
csvPage(items, p) ==
  IF p.ranged THEN items ELSE IF p.explicit THEN pageOf(items, p)
  ELSE SubSeq(items, p.offset + 1, Len(items))

(* ifRange: a range of a list that is not the one meant is dropped. *)
ifRangeHolds(q, validator) ==
  \E c \in {Identity} \cup (IF q.uncoded THEN {} ELSE {resolveEncoding(q)}) :
    q.ifRange.tags = {Candidate(codedETag(validator, c), FALSE)}
ifRange(q, validator) ==
  IF q.ifRange = NoTags \/ q.range = NoRange \/ ifRangeHolds(q, validator) THEN q
  ELSE [q EXCEPT !.range = NoRange, !.ifRange = NoTags]

----------------------------------------------------------------------------
(* Answers *)

Answer(status, tag, items, links) == [status |-> status, tag |-> tag, items |-> items, links |-> links]
Refused(code) == Answer(code, codedETag(<<>>, ""), <<>>, {})

(* writeRenderedJSON, and writeRawNegotiated of a table: what the client   *)
(* requires, then what it has, then what there is.                         *)
writeRenderedJSON(q, status, items, links, validator, modified) ==
  LET tag == codedETag(validator, negotiateCoding(q, Len(items) > 1))
  IN  IF preconditionFailed(q, tag, modified) THEN Refused("API013")
      ELSE IF notModified(q, tag, modified) THEN Answer("304", tag, <<>>, {})
      ELSE Answer(status, tag, items, links)

(* writePaginationLinks *)
writePaginationLinks(total, p) ==
  (IF p.offset < total /\ p.limit < total - p.offset THEN {<<"next", p.offset + p.limit>>} ELSE {})
  \cup (IF p.offset > 0 THEN {<<"prev", Max({Min({p.offset, total}) - p.limit, 0})>>} ELSE {})

(* writeCollectionResponse *)
writeCollectionResponse(q, items, p, validator) ==
  LET page == pageOf(items, p)
      whole == p.offset = 0 /\ Len(page) = Len(items)
      send(status, links) == writeRenderedJSON(q, status, page, links, validator, 0)
  IN  IF ~ p.ranged THEN send("200", writePaginationLinks(Len(items), p))
      ELSE IF items = <<>> \/ whole THEN send("200", {})
      ELSE IF p.offset < Len(items) THEN send("206", {<<"range", p.offset>>})
      ELSE IF preconditionFailed(q, codedETag(validator, Identity), 0) THEN Refused("API013")
      ELSE IF matchedValidator(q, validator) THEN Answer("304", codedETag(validator, Identity), <<>>, {})
      ELSE Refused("416")

----------------------------------------------------------------------------
(* A list *)

FingerprintOfNobody(q, caller, srv) ==
  <<srv.generation, srv.flapping, srv.digests, q.type, q.query>>

(* derivedETag: everything a list is rendered from, without rendering it.  *)
derivedETag(q, caller, srv) ==
  <<srv.generation, srv.flapping, srv.digests, caller.fingerprint, q.type, q.query>>

(* searchFilter and exprFilter: an expression that does not compile is     *)
(* refused, and one that cannot be evaluated, or not in time, once there   *)
(* is an item to evaluate it on.                                           *)
searchFilter(items, q) == SelectSeq(items, LAMBDA x : q.search = {} \/ x.name \in q.search)
exprFilter(items, q) ==
  CASE q.filter \in {"FLT001", "FLT002"} -> [code |-> q.filter, items |-> <<>>]
    [] q.filter \in {"FLT003", "FLT004"} /\ items # <<>> -> [code |-> q.filter, items |-> <<>>]
    [] OTHER -> [code |-> "", items |-> IF q.filter = "odd" THEN SelectSeq(items, LAMBDA x : x.order % 2 = 1)
                                        ELSE items]

(* sortItems keeps the order of equals. *)
sortItems(items, q) ==
  LET before(i, j) ==
        LET a == items[i].key
            b == items[j].key
        IN  IF a = b THEN i < j ELSE IF q.dir = "desc" THEN a > b ELSE a < b
      order == SortSeq([i \in DOMAIN items |-> i], before)
  IN  IF q.sort = "" THEN items ELSE [i \in DOMAIN items |-> items[order[i]]]

readable(items, caller) == SelectSeq(items, LAMBDA x : x.name \in caller.reads)

FilterFirst(q, caller, items) ==
  LET filtered == exprFilter(searchFilter(items, q), q)
  IN  IF filtered.code # "" THEN filtered
      ELSE IF q.faults # {} THEN [code |-> "API016", items |-> <<>>]
      ELSE [code |-> "", items |-> sortItems(readable(filtered.items, caller), q)]

(* prepareList: what the caller may read, of it the versions, then what    *)
(* the search and the expression leave, and then the paging and the sort.  *)
prepareList(q, caller, items) ==
  LET mine == readable(items, caller)
      narrowed == q.search # {} \/ q.filter # "" \/ q.type = "csv"
      chosen == ToSet(Vs!SelectVersions(ToSet(mine), {}, {}, Vs!ParseVersionSelection(q.versions, "", narrowed)))
      versioned == IF q.versioned THEN SelectSeq(mine, LAMBDA x : x \in chosen) ELSE mine
      filtered == exprFilter(searchFilter(versioned, q), q)
  IN  IF filtered.code # "" THEN filtered
      ELSE IF q.faults # {} THEN [code |-> "API016", items |-> <<>>]
      ELSE [code |-> "", items |-> sortItems(filtered.items, q)]

ValidatedLate(q, caller, early, late) ==
  LET validator == derivedETag(q, caller, late)
      asked == ifRange(q, validator)
      list == prepareList(asked, caller, early.items)
      p == parsePagination(asked)
  IN  IF q.ifMatch = NoTags /\ matchedValidator(q, validator) THEN Answer("304", codedETag(validator, Identity), <<>>, {})
      ELSE IF list.code # "" THEN Refused(list.code)
      ELSE writeCollectionResponse(asked, list.items, p, validator)

(* handleListOf: the validator is taken first, of the state `early`, and   *)
(* the items after it, of the state `late`.                                *)
handleListOf(q, caller, early, late) ==
  LET validator == derivedETag(q, caller, early)
      asked == ifRange(q, validator)
      list == prepareList(asked, caller, late.items)
      p == parsePagination(asked)
  IN  IF q.versioned /\ "versions" \in q.faults THEN Refused("API016")
      ELSE IF q.ifMatch = NoTags /\ matchedValidator(q, validator) THEN Answer("304", codedETag(validator, Identity), <<>>, {})
      ELSE IF list.code # "" THEN Refused(list.code)
      ELSE IF q.type = "csv"
           THEN LET table == csvPage(list.items, p)
                IN  writeRenderedJSON(q, "200", table, {}, <<"hash", table>>, 0)
      ELSE writeCollectionResponse(asked, list.items, p, validator)
=============================================================================
