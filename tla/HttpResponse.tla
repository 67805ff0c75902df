---------------------------- MODULE HttpResponse ----------------------------
(***************************************************************************)
(* What an HTTP adapter makes of one response: the classification of its   *)
(* status, the checks of a range response, the checks of a content coding, *)
(* and the guard that holds a range body to its Content-Range              *)
(* (bolt-load-http, bolt-load-core/adapter).                               *)
(*                                                                         *)
(* A response is a record: its status, its Content-Range as the numbers it *)
(* names (or none: "absent", "garbled"), its Content-Type and the list of  *)
(* its Content-Encoding.  Text, case and whitespace are left out.          *)
(***************************************************************************)
EXTENDS Integers, Sequences

\* The total of a `Content-Range: bytes a-b/*`, or a size nobody knows.
Unknown == -1

\* AdapterError::Retryable; every other error is Unretryable.
RetryableErrors == {"Io", "RetryableStatus"}

(***************************************************************************)
(* Statuses.                                                               *)
(***************************************************************************)

\* classify_status.
ClassifyStatus(status) ==
  CASE status \in {401, 403} -> "Unauthorized"
    [] status \in {404, 410} -> "NotFound"
    [] status = 416          -> "RangeNotSatisfiable"
    [] status \in {429, 503} -> "Congestion"
    [] status = 408 \/ status \in (500 .. 599) \ {503} -> "RetryableStatus"
    [] OTHER                 -> "Status"

\* check_status, and the Err(Status) of ureq: only 4xx and 5xx are errors.
IsErrorStatus(status) == status \in 400 .. 599

(***************************************************************************)
(* Content-Range.                                                          *)
(***************************************************************************)

\* A Content-Range without usable numbers.
NoRange(form) == [form |-> form, first |-> 0, last |-> 0, complete |-> Unknown]

\* ContentRange::from_str: the ranges that parse.
IsContentRange(range) ==
  /\ range.form = "bytes"
  /\ range.first <= range.last
  /\ range.complete = Unknown \/ range.last < range.complete

\* ContentCoding::parse_list: the codings that were applied, as their places in
\* the list.
ParseList(codings) == {i \in DOMAIN codings : codings[i] # "identity"}

\* ContentCoding::is_format_of.
IsFormatOf(coding, type) ==
  <<coding, type>> \in {<<"gzip", "application/gzip">>,
                        <<"deflate", "application/zlib">>,
                        <<"zstd", "application/zstd">>}

\* Defect: the total the metadata told is not compared.
DefectCheckPartial(response, start, end, expected_total) ==
  LET got == response.range IN
  IF /\ IsContentRange(got)
     /\ response.type # "multipart/byteranges"
     /\ got.first = start
     /\ got.last < end
  THEN IF ParseList(response.codings) = {} THEN "Ok" ELSE "RangeContentCoded"
  ELSE "RangeMismatch"

\* check_partial: what a 206 for start .. end - 1 is.
CheckPartial(response, start, end, expected_total) ==
  LET got == response.range IN
  IF /\ IsContentRange(got)
     /\ response.type # "multipart/byteranges"
     /\ got.first = start
     /\ got.last < end
     /\ got.complete = Unknown \/ expected_total = Unknown \/ got.complete = expected_total
  THEN IF ParseList(response.codings) = {} THEN "Ok" ELSE "RangeContentCoded"
  ELSE "RangeMismatch"

\* validate_range_response.
ValidateRangeResponse(response, start, end, expected_total) ==
  CASE response.status = 206 -> CheckPartial(response, start, end, expected_total)
    [] response.status = 200 -> "RangeIgnored"
    [] OTHER                 -> ClassifyStatus(response.status)

\* Defect: a file format is accepted without a look at how many
\* codings were applied.
DefectCheckContentCoding(response) ==
  \/ ParseList(response.codings) = {}
  \/ \E i \in DOMAIN response.codings : IsFormatOf(response.codings[i], response.type)

\* check_content_coding: whether the body of a full response is the file.
CheckContentCoding(response) ==
  LET applied == ParseList(response.codings) IN
  \/ applied = {}
  \/ \E only \in applied :
       applied = {only} /\ IsFormatOf(response.codings[only], response.type)

(***************************************************************************)
(* RangeBody: a body held to the bytes that its Content-Range covers.      *)
(***************************************************************************)

\* limit_range_body: how many bytes the body must have.
RangeLength(range) == range.last - range.first + 1

\* RangeBody::poll_next, an item that does not fit.
RunsPast(remaining, item) == item > remaining

\* RangeBody::poll_next, the end of the body.
EndsShort(remaining) == remaining > 0

\* range_unsupported: the errors after which ranges cannot carry the file.
FallbackErrors == {"RangeIgnored", "RangeContentCoded", "RangeBodyTooLong",
                   "RangeBodyTooShort", "BodyUndecodable"}
=============================================================================
