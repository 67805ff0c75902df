---------------------------- MODULE HttpAdapter -----------------------------
(***************************************************************************)
(* The two HTTP adapters (bolt-load-adapter: reqwest and ureq) as a task    *)
(* uses them: the metadata is retrieved with retries and cached, the mode   *)
(* is selected from it, and the file is fetched by range requests, each     *)
(* checked and held to its Content-Range, or by one full request.  When     *)
(* ranges turn out to be unusable the task starts over with a full request. *)
(*                                                                          *)
(* The server is external.  How it behaves is fixed at the start: whether   *)
(* it takes ranges, names the total in them, codes what it sends although   *)
(* it is asked for identity, and what it answers to HEAD.  It may replace   *)
(* the resource by another one of another size at any time, fail requests   *)
(* and cut connections.  Consumers are reduced to what they take: a runner  *)
(* takes the bytes of its range in order and stops as soon as it has them   *)
(* (TaskRunner), and here one range is fetched at a time.                   *)
(***************************************************************************)
EXTENDS HttpResponse

CONSTANTS Size,        \* bytes of the resource; its replacement has one more
          MaxRetries,  \* MetaRetry::max_retries
          MaxFaults    \* bound on failures of range and full requests

ASSUME AdapterAssumption ==
  /\ Size \in Nat \ {0}
  /\ MaxRetries \in Nat
  /\ MaxFaults \in Nat

VARIABLES
  client,    \* which adapter
  server,    \* how the server behaves
  resource,  \* 1, or 2 once the resource was replaced
  cache,     \* OnceCell<Context>, head_response: the metadata once retrieved
  probe,     \* what fetch_remote_meta learnt from its range request
  pc,        \* where the task is
  retries,   \* metadata retries so far
  file,      \* the bytes written, in order
  limit,     \* where the present range ends; the total of a full request
  body,      \* the body being read
  faults     \* failures so far

vars == <<client, server, resource, cache, probe, pc, retries, file, limit, body, faults>>

NoMeta == [size |-> Unknown, coded |-> FALSE, ranges |-> FALSE]
NoProbe == [ok |-> FALSE, coded |-> FALSE]
NoBody == [of |-> 1, at |-> 0, left |-> 0, junk |-> FALSE, remaining |-> 0]

\* What the server does about codings: nothing; one coding; two; one that is the
\* format of the file, which is then the file itself; or a coding that the
\* client undoes, dropping the header, so that a range has fewer or more bytes
\* than its Content-Range counts.
Codings == {"none", "coded", "twice", "format", "shrunk", "grown"}
Servers == [ranges : BOOLEAN, names : BOOLEAN, coding : Codings,
            head : {"length", "coded", "bare"}, accepts : BOOLEAN]

ResourceSize(r) == Size + r - 1

\* The byte at an offset of a resource, and one that is none of the file's.
Byte(r, at) == <<r, at>>
Junk == <<0, 0>>

AdapterInit ==
  /\ client \in {"reqwest", "ureq"}
  /\ server \in Servers
  /\ resource = 1
  /\ cache = NoMeta
  /\ probe = NoProbe
  /\ pc = IF client = "reqwest" THEN "probe" ELSE "head"
  /\ retries = 0
  /\ file = <<>>
  /\ limit = Unknown
  /\ body = NoBody
  /\ faults = 0

(***************************************************************************)
(* The answers of the server (external).                                   *)
(***************************************************************************)

CodingsSent == CASE server.coding \in {"coded", "format"} -> <<"gzip">>
                 [] server.coding = "twice"               -> <<"gzip", "br">>
                 [] OTHER                                 -> <<"identity">>

TypeSent == IF server.coding \in {"format", "twice"} THEN "application/gzip" ELSE "text/plain"

Answer(status, range, type) ==
  [status |-> status, range |-> range, type |-> type, codings |-> CodingsSent]

Failures == {Answer(status, NoRange("absent"), TypeSent) : status \in {404, 429, 500}}

Partial(first, last) ==
  Answer(206, [form |-> "bytes", first |-> first, last |-> last,
               complete |-> IF server.names THEN ResourceSize(resource) ELSE Unknown], TypeSent)

\* The 206s that carry something else than what was asked for.
WrongPartials(start, last) ==
  { Partial(start + 1, last), Partial(start, last + 1),
    Answer(206, NoRange("garbled"), TypeSent),
    [Partial(start, last) EXCEPT !.type = "multipart/byteranges"] }

RangeAnswers(start, end) ==
  LET size == ResourceSize(resource) IN
  IF ~server.ranges THEN {Answer(200, NoRange("absent"), TypeSent)}
  ELSE IF start >= size THEN {Answer(416, NoRange("absent"), TypeSent)}
  ELSE {Partial(start, last) : last \in {l \in start .. end - 1 : l < size}}

\* How many bytes the client yields for a range body, and of a full one.
RangeYields(length) ==
  CASE server.coding = "shrunk" -> {length - 1}
    [] server.coding = "grown"  -> {length + 1}
    [] OTHER                    -> {length}

IsJunkRange == server.coding \in {"coded", "twice", "shrunk", "grown"}
IsJunkFull == server.coding \in {"coded", "twice"}

Replace ==
  /\ resource = 1
  /\ resource' = 2
  /\ UNCHANGED <<client, server, cache, probe, pc, retries, file, limit, body, faults>>

(***************************************************************************)
(* Metadata: fetch_remote_meta (reqwest), with_head (ureq), and the retries *)
(* of task/meta.rs.  A failure leaves the cache empty.                      *)
(***************************************************************************)

\* Defect: the retries are not counted.
DefectMetaFails(error) ==
  /\ pc' = IF error \notin RetryableErrors THEN "failed"
           ELSE IF client = "reqwest" THEN "probe" ELSE "head"
  /\ probe' = NoProbe
  /\ UNCHANGED <<client, server, resource, cache, retries, file, limit, body, faults>>

MetaFails(error) ==
  /\ IF error \in RetryableErrors /\ retries < MaxRetries
     THEN /\ retries' = retries + 1
          /\ pc' = IF client = "reqwest" THEN "probe" ELSE "head"
     ELSE /\ pc' = "failed"
          /\ UNCHANGED retries
  /\ probe' = NoProbe
  /\ UNCHANGED <<client, server, resource, cache, file, limit, body, faults>>

\* The connection of a metadata request fails.
MetaUnanswered == pc \in {"probe", "head"} /\ MetaFails("Io")

\* fetch_remote_meta up to the HEAD request: the answer to `bytes=0-0`.
Probe ==
  /\ pc = "probe"
  /\ \E response \in RangeAnswers(0, 1) \cup WrongPartials(0, 0) \cup Failures :
       LET ok == ValidateRangeResponse(response, 0, 1, Unknown) = "Ok" IN
       IF ok /\ response.range.complete # Unknown
       THEN /\ cache' = [size |-> response.range.complete, coded |-> FALSE, ranges |-> TRUE]
            /\ pc' = "select"
            /\ UNCHANGED probe
       ELSE /\ probe' = [ok |-> ok, coded |-> ParseList(response.codings) # {}]
            /\ pc' = "head"
            /\ UNCHANGED cache
  /\ UNCHANGED <<client, server, resource, retries, file, limit, body, faults>>

\* perform_head fails with a status.
HeadRefused ==
  /\ pc = "head"
  /\ \E response \in Failures : MetaFails(ClassifyStatus(response.status))

\* The HEAD answer becomes the metadata.
HeadAnswered ==
  /\ pc = "head"
  /\ cache' = [size   |-> IF server.head = "bare" THEN 0 ELSE ResourceSize(resource),
               coded  |-> server.head = "coded" \/ probe.coded,
               ranges |-> probe.ok \/ server.accepts]
  /\ probe' = NoProbe
  /\ pc' = "select"
  /\ UNCHANGED <<client, server, resource, retries, file, limit, body, faults>>

(***************************************************************************)
(* drive.rs initialize: the mode.                                          *)
(***************************************************************************)

\* The single-connection mode, with the size it is held to.
FullWith(total) ==
  /\ pc' = "full"
  /\ limit' = total
  /\ file' = <<>>
  /\ body' = NoBody

Ranged ==
  /\ pc' = "range"
  /\ UNCHANGED <<limit, file, body>>

SingletonTotal == IF cache.size # 0 /\ ~cache.coded THEN cache.size ELSE Unknown

\* ureq's is_range_stream_available asks for `bytes=0-0` when the HEAD answer
\* has no Accept-Ranges; reqwest answers from its context.
ProbedRanges ==
  IF cache.ranges \/ client = "reqwest" THEN {cache.ranges}
  ELSE {ValidateRangeResponse(response, 0, 1, Unknown) = "Ok"
        : response \in RangeAnswers(0, 1) \cup WrongPartials(0, 0) \cup Failures}

Initialize ==
  /\ pc = "select"
  /\ IF cache.coded \/ cache.size = 0 THEN FullWith(SingletonTotal)
     ELSE \E ranges \in ProbedRanges : IF ranges THEN Ranged ELSE FullWith(SingletonTotal)
  /\ UNCHANGED <<client, server, resource, cache, probe, retries, faults>>

(***************************************************************************)
(* range_stream.                                                           *)
(***************************************************************************)

\* A range failed: the task falls back, gives up or asks for the rest.
RangeFails(error) ==
  /\ IF error \in FallbackErrors
     THEN FullWith(Unknown) /\ UNCHANGED faults
     ELSE /\ faults' = faults + 1
          /\ pc' \in IF faults < MaxFaults THEN {"range", "failed"} ELSE {"failed"}
          /\ body' = NoBody
          /\ UNCHANGED <<file, limit>>
  /\ UNCHANGED <<client, server, resource, cache, probe, retries>>

\* Request some of the bytes that are left; expected_total is the cached size.
RequestRange ==
  /\ pc = "range"
  /\ \E end \in Len(file) + 1 .. cache.size :
     \E response \in RangeAnswers(Len(file), end)
                     \cup WrongPartials(Len(file), end - 1) \cup Failures :
       LET verdict == ValidateRangeResponse(response, Len(file), end, cache.size) IN
       IF verdict # "Ok" THEN RangeFails(verdict)
       ELSE \E left \in RangeYields(RangeLength(response.range)) :
              /\ body' = [of |-> resource, at |-> response.range.first, left |-> left,
                          junk |-> IsJunkRange, remaining |-> RangeLength(response.range)]
              /\ limit' = end
              /\ pc' = "range_body"
              /\ UNCHANGED <<client, server, resource, cache, probe, retries, file, faults>>

\* The connection of a range request, or of its body, fails.
RangeCut == pc \in {"range", "range_body"} /\ RangeFails("Io")

\* The decoder cannot read a range that starts mid-stream.
RangeUndecodable ==
  /\ pc = "range_body"
  /\ server.coding \in {"shrunk", "grown"}
  /\ RangeFails("BodyUndecodable")

BytesOf(n) == [i \in 1 .. n |-> IF body.junk THEN Junk ELSE Byte(body.of, body.at + i - 1)]

\* The runner takes what its allowance permits, and validates its size without
\* another look at the stream once it has all.
Taken(n) ==
  IF limit = Unknown THEN BytesOf(n)
  ELSE BytesOf(IF n < limit - Len(file) THEN n ELSE limit - Len(file))

BodyAfter(n) == [body EXCEPT !.at = @ + n, !.left = @ - n, !.remaining = @ - n]

\* poll_next of a range stream: an item.
RangeItem ==
  /\ pc = "range_body"
  /\ \E n \in 1 .. body.left :
       IF RunsPast(body.remaining, n) THEN RangeFails("RangeBodyTooLong")
       ELSE /\ file' = file \o Taken(n)
            /\ IF Len(file') < limit
               THEN body' = BodyAfter(n) /\ UNCHANGED pc
               ELSE /\ body' = NoBody
                    /\ pc' = IF Len(file') = cache.size THEN "ranges_done" ELSE "range"
            /\ UNCHANGED <<client, server, resource, cache, probe, retries, limit, faults>>

\* poll_next of a range stream: the end, before the runner has its range.
RangeEnds ==
  /\ pc = "range_body"
  /\ body.left = 0
  /\ IF EndsShort(body.remaining) THEN RangeFails("RangeBodyTooShort")
     ELSE /\ pc' = "range"
          /\ body' = NoBody
          /\ UNCHANGED <<client, server, resource, cache, probe, retries, file, limit, faults>>

(***************************************************************************)
(* full_stream.                                                            *)
(***************************************************************************)

FullFails ==
  /\ pc' = "failed"
  /\ body' = NoBody
  /\ faults' = faults + 1
  /\ UNCHANGED <<client, server, resource, cache, probe, retries, file, limit>>

RequestFull ==
  /\ pc = "full"
  /\ IF CheckContentCoding(Answer(200, NoRange("absent"), TypeSent))
     THEN /\ body' = [NoBody EXCEPT !.of = resource, !.left = ResourceSize(resource),
                                    !.junk = IsJunkFull]
          /\ pc' = "full_body"
          /\ UNCHANGED <<client, server, resource, cache, probe, retries, file, limit, faults>>
     ELSE FullFails

\* A status, a failed connection or a cut body: nothing is retried.
FullCut == pc \in {"full", "full_body"} /\ FullFails

FullItem ==
  /\ pc = "full_body"
  /\ \E n \in 1 .. body.left :
       /\ file' = file \o Taken(n)
       /\ IF Len(file') = limit THEN pc' = "full_done" /\ body' = NoBody
          ELSE body' = [body EXCEPT !.at = @ + n, !.left = @ - n] /\ UNCHANGED pc
  /\ UNCHANGED <<client, server, resource, cache, probe, retries, limit, faults>>

\* The end of the full body, short of the size the task knew or not.
FullEnds ==
  /\ pc = "full_body"
  /\ body.left = 0
  /\ pc' = IF limit = Unknown THEN "full_done" ELSE "failed"
  /\ body' = NoBody
  /\ UNCHANGED <<client, server, resource, cache, probe, retries, file, limit, faults>>

Steps == \/ Probe \/ HeadRefused \/ HeadAnswered \/ MetaUnanswered \/ Initialize
         \/ RequestRange \/ RangeCut \/ RangeUndecodable \/ RangeItem \/ RangeEnds
         \/ RequestFull \/ FullCut \/ FullItem \/ FullEnds

Ends == {"ranges_done", "full_done", "failed"}

\* The task has ended.
Ended == pc \in Ends /\ UNCHANGED vars

Next == Steps \/ Replace \/ Ended

\* The adapter is polled whenever something arrived, and every request is
\* answered or fails: the task bounds each of them by a timeout.
Spec == AdapterInit /\ [][Next]_vars /\ WF_vars(Steps)

(***************************************************************************)
(* Properties.                                                             *)
(***************************************************************************)

HttpTypeOK ==
  /\ server \in Servers
  /\ resource \in {1, 2}
  /\ retries \in 0 .. MaxRetries
  /\ faults \in 0 .. MaxFaults + 1
  /\ Len(file) <= Size + 1
  /\ pc \in {"probe", "head", "select", "range", "range_body", "full", "full_body"} \cup Ends

Content(r, n) == [i \in 1 .. n |-> Byte(r, i - 1)]

\* A file fetched by ranges is one resource, whole and in order, as long as the
\* server names the total in its ranges and the client does not lengthen what it
\* decodes: no 206 with other bytes, for another resource than the metadata
\* described, or with a coded body gets into it, whatever is cut and asked for
\* again (validate_range_response, limit_range_body, range_unsupported).
RangedFileIsResource ==
  pc = "ranges_done" /\ server.names /\ server.coding # "grown"
    => \E r \in {1, 2} : file = Content(r, ResourceSize(r))

\* A file fetched over one connection is the beginning of one resource, never of
\* its coded form and with nothing left of an earlier attempt by ranges: all of
\* it, or as much as the metadata told (full_stream, check_content_coding).
FullFileIsResource ==
  pc = "full_done" =>
    \E r \in {1, 2} : file = Content(r, IF limit = Unknown THEN ResourceSize(r) ELSE limit)

\* Retrying the metadata, asking for the rest of a range and falling back do not
\* go on for ever (MetaRetry, the fallback of drive.rs).
TransferEnds == <>(pc \in Ends)

\* What the comment on validate_range_response says of a body that the client
\* decoded: held by limit_range_body it "fails instead of being written".
DecodedIsNotWritten ==
  pc = "ranges_done" => \A i \in DOMAIN file : file[i] # Junk
=============================================================================
