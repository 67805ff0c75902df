------------------------- MODULE HttpAdapterProofs --------------------------
(***************************************************************************)
(* Proofs about HttpAdapter, for every size of the resource and any number  *)
(* of retries and failures: the file that a task keeps is one resource,     *)
(* whichever server it met, whatever was cut and asked for again.           *)
(***************************************************************************)
EXTENDS HttpAdapter, TLAPS

(***************************************************************************)
(* The inductive invariant.                                                 *)
(***************************************************************************)

\* The resource that the metadata described, known by its size.
Described == cache.size - Size + 1

\* What a place of the file may hold.
FileBytes == {0, 1, 2} \X Nat

Bodies == [of : {1, 2}, at : Nat, left : Nat, junk : BOOLEAN, remaining : Int]

Types ==
  /\ server \in Servers
  /\ resource \in {1, 2}
  /\ file \in Seq(FileBytes)
  /\ body \in Bodies
  /\ cache.size \in {0, Unknown, Size, Size + 1}

\* Before the mode is selected nothing is fetched, and the mode is selected with
\* metadata.
Asking ==
  /\ pc \in {"probe", "head", "select"} => file = <<>>
  /\ pc = "select" => cache.size # Unknown

\* What the requests for ranges have established.  A coded range was refused;
\* what the client decodes into less than the range can never complete the file,
\* since the last byte of a range is missing however often the rest is requested;
\* everything else continues the resource that the metadata described.
Requesting ==
  pc \in {"range", "range_body"} =>
    /\ cache.size \in {Size, Size + 1}
    /\ Len(file) < cache.size
    /\ server.coding \in {"coded", "twice", "format"} => pc = "range"
    /\ server.names /\ server.coding = "none" => file = Content(Described, Len(file))

Receiving ==
  pc = "range_body" =>
    /\ limit \in Nat /\ Len(file) < limit /\ limit <= cache.size
    /\ server.coding = "shrunk" => Len(file) + body.left < limit
    /\ server.coding = "none" => ~body.junk /\ body.at = Len(file)
    /\ server.names => body.of = Described

RangesDone ==
  pc = "ranges_done" =>
    /\ cache.size \in {Size, Size + 1}
    /\ Len(file) = cache.size
    /\ server.coding \in {"none", "grown"}
    /\ server.names /\ server.coding = "none" => file = Content(Described, Len(file))

\* A full request begins with an empty file, and its body is never a coded one.
Full ==
  /\ pc \in {"full", "full_body", "full_done"} => limit \in {Unknown, Size, Size + 1}
  /\ pc = "full" => file = <<>>
  /\ pc = "full_body" =>
       /\ ~body.junk
       /\ body.at = Len(file)
       /\ body.at + body.left = ResourceSize(body.of)
       /\ limit # Unknown => Len(file) < limit
       /\ file = Content(body.of, Len(file))

AdapterInv ==
  /\ Types /\ Asking /\ Requesting /\ Receiving /\ RangesDone /\ Full /\ FullFileIsResource

(***************************************************************************)
(* What the checks of an answer establish.                                  *)
(***************************************************************************)

\* A 206 that passes validate_range_response is the server's own answer to the
\* request: it begins where it was asked to, ends within what was asked for,
\* names the size of the resource it comes from if the server does, and is not
\* coded.
LEMMA AcceptedRange ==
  ASSUME Types, NEW start \in Nat, NEW end \in Nat, start < end, NEW expected,
         NEW response \in RangeAnswers(start, end) \cup WrongPartials(start, end - 1)
                          \cup Failures,
         ValidateRangeResponse(response, start, end, expected) = "Ok"
  PROVE  /\ response.range.first = start
         /\ response.range.last \in start .. end - 1
         /\ response.range.complete = IF server.names THEN ResourceSize(resource) ELSE Unknown
         /\ \/ response.range.complete = Unknown
            \/ expected = Unknown
            \/ response.range.complete = expected
         /\ server.coding \in {"none", "shrunk", "grown"}
<1>1. response.status = 206
  BY DEF ValidateRangeResponse, ClassifyStatus
<1>2. /\ IsContentRange(response.range)
      /\ response.type # "multipart/byteranges"
      /\ response.range.first = start
      /\ response.range.last < end
      /\ \/ response.range.complete = Unknown
         \/ expected = Unknown
         \/ response.range.complete = expected
      /\ ParseList(response.codings) = {}
  BY <1>1 DEF ValidateRangeResponse, CheckPartial
<1>3. server.coding \in Codings
  BY DEF Types, Servers
<1>4. response.codings = CodingsSent
  BY DEF RangeAnswers, WrongPartials, Failures, Partial, Answer
<1>5. server.coding \in {"none", "shrunk", "grown"}
  BY <1>2, <1>3, <1>4 DEF CodingsSent, ParseList, Codings
<1>6. response \notin Failures
  BY <1>1 DEF Failures, Answer
<1>7. response \notin WrongPartials(start, end - 1)
  BY <1>2 DEF WrongPartials, Partial, Answer, NoRange, IsContentRange
<1>8. response \in RangeAnswers(start, end)
  BY <1>6, <1>7
<1>9. PICK last \in start .. end - 1 : response = Partial(start, last)
  <2>1. server.ranges /\ ~(start >= ResourceSize(resource))
    BY <1>1, <1>8 DEF RangeAnswers, Answer
  <2> QED
    BY <1>8, <2>1 DEF RangeAnswers
<1> QED
  BY <1>2, <1>5, <1>9 DEF Partial, Answer

\* A full response that passes check_content_coding is not coded, or its coding
\* is the format of the file.
LEMMA AcceptedFull ==
  ASSUME Types, CheckContentCoding(Answer(200, NoRange("absent"), TypeSent))
  PROVE  ~IsJunkFull
<1>1. server.coding \in Codings
  BY DEF Types, Servers
<1>2. CASE server.coding = "coded"
  BY <1>2 DEF CheckContentCoding, Answer, TypeSent, CodingsSent, ParseList, IsFormatOf
<1>3. CASE server.coding = "twice"
  <2>1. CodingsSent = <<"gzip", "br">>
    BY <1>3 DEF CodingsSent
  <2>2. 1 \in ParseList(CodingsSent) /\ 2 \in ParseList(CodingsSent)
    BY <2>1 DEF ParseList
  <2> QED
    BY <2>2 DEF CheckContentCoding, Answer
<1> QED
  BY <1>1, <1>2, <1>3 DEF Codings, IsJunkFull

\* What the client yields of a body, appended to the beginning of a resource, is
\* a longer beginning of it.
LEMMA ContentGrows ==
  ASSUME NEW r, NEW n \in Nat, NEW m \in Nat
  PROVE  Content(r, n) \o [i \in 1 .. m |-> Byte(r, n + i - 1)] = Content(r, n + m)
<1> DEFINE f == Content(r, n)
           g == [i \in 1 .. m |-> Byte(r, n + i - 1)]
<1>1. Len(f) = n /\ Len(g) = m
  BY DEF Content
<1>2. Len(f \o g) = n + m /\ DOMAIN (f \o g) = 1 .. n + m
  BY <1>1 DEF Content
<1>3. \A i \in 1 .. n + m : (f \o g)[i] = Byte(r, i - 1)
  BY <1>1 DEF Content
<1> QED
  BY <1>2, <1>3 DEF Content

LEMMA ConcatSeq ==
  ASSUME NEW S, NEW f \in Seq(S), NEW g \in Seq(S)
  PROVE  f \o g \in Seq(S) /\ Len(f \o g) = Len(f) + Len(g)
OBVIOUS

(***************************************************************************)
(* Every step keeps the invariant.                                          *)
(***************************************************************************)

LEMMA AdapterInitInv == AdapterInit => AdapterInv
<1> SUFFICES ASSUME AdapterInit
             PROVE  AdapterInv
  OBVIOUS
<1>1. Types
  BY DEF AdapterInit, Types, NoMeta, NoBody, Bodies, FileBytes, Unknown
<1> QED
  BY <1>1 DEF AdapterInit, AdapterInv, Asking, Requesting, Receiving, RangesDone, Full,
              FullFileIsResource

\* Starting over with one connection forgets what was fetched by ranges.
LEMMA FullWithInv ==
  ASSUME Types, NEW total \in {Unknown, Size, Size + 1}, FullWith(total),
         UNCHANGED <<server, resource, cache>>
  PROVE  AdapterInv'
<1>1. Types'
  BY DEF Types, FullWith, NoBody, Bodies
<1> QED
  BY <1>1 DEF FullWith, AdapterInv, Asking, Requesting, Receiving, RangesDone, Full,
              FullFileIsResource

\* A range that failed leaves what was fetched before, or nothing.
LEMMA RangeFailsInv ==
  ASSUME AdapterInv, pc \in {"range", "range_body"}, NEW error, RangeFails(error)
  PROVE  AdapterInv'
<1>1. CASE error \in FallbackErrors
  BY <1>1, FullWithInv DEF RangeFails, AdapterInv
<1>2. CASE error \notin FallbackErrors
  <2>1. /\ pc' \in {"range", "failed"}
        /\ body' = NoBody
        /\ UNCHANGED <<server, resource, cache, file, limit>>
    BY <1>2 DEF RangeFails
  <2>2. Types'
    BY <2>1 DEF AdapterInv, Types, NoBody, Bodies
  <2>3. Requesting'
    BY <2>1 DEF AdapterInv, Requesting, Described, Content
  <2> QED
    BY <2>1, <2>2, <2>3 DEF AdapterInv, Asking, Receiving, RangesDone, Full, FullFileIsResource
<1> QED
  BY <1>1, <1>2

LEMMA MetaFailsInv ==
  ASSUME AdapterInv, pc \in {"probe", "head"}, NEW error, MetaFails(error)
  PROVE  AdapterInv'
<1>1. /\ pc' \in {"probe", "head", "failed"}
      /\ UNCHANGED <<server, resource, cache, file, limit, body>>
  BY DEF MetaFails
<1>2. Types'
  BY <1>1 DEF AdapterInv, Types
<1> QED
  BY <1>1, <1>2 DEF AdapterInv, Asking, Requesting, Receiving, RangesDone, Full, FullFileIsResource

LEMMA ProbeInv ==
  ASSUME AdapterInv, Probe
  PROVE  AdapterInv'
<1> DEFINE answers == RangeAnswers(0, 1) \cup WrongPartials(0, 0) \cup Failures
<1>1. PICK response \in answers :
        LET ok == ValidateRangeResponse(response, 0, 1, Unknown) = "Ok" IN
        IF ok /\ response.range.complete # Unknown
        THEN /\ cache' = [size |-> response.range.complete, coded |-> FALSE, ranges |-> TRUE]
             /\ pc' = "select"
             /\ UNCHANGED probe
        ELSE /\ probe' = [ok |-> ok, coded |-> ParseList(response.codings) # {}]
             /\ pc' = "head"
             /\ UNCHANGED cache
  BY DEF Probe
<1>2. pc = "probe" /\ UNCHANGED <<server, resource, file, limit, body>>
  BY DEF Probe
<1>3. CASE ValidateRangeResponse(response, 0, 1, Unknown) = "Ok"
           /\ response.range.complete # Unknown
  <2>1. response.range.complete = ResourceSize(resource)
    <3>1. response \in RangeAnswers(0, 1) \cup WrongPartials(0, 1 - 1) \cup Failures
      BY <1>1
    <3> QED
      BY <1>3, <3>1, AcceptedRange DEF AdapterInv
  <2>2. cache'.size \in {Size, Size + 1} /\ pc' = "select"
    <3>1. cache'.size = response.range.complete /\ pc' = "select"
      BY <1>1, <1>3
    <3>2. ResourceSize(resource) \in {Size, Size + 1}
      BY AdapterAssumption DEF AdapterInv, Types, ResourceSize
    <3> QED
      BY <2>1, <3>1, <3>2
  <2>3. cache'.size # Unknown
    BY <2>2, AdapterAssumption DEF Unknown
  <2>4. Types'
    BY <1>2, <2>2 DEF AdapterInv, Types
  <2> QED
    BY <1>2, <2>2, <2>3, <2>4 DEF AdapterInv, Asking, Requesting, Receiving, RangesDone, Full,
                            FullFileIsResource
<1>4. CASE ~(ValidateRangeResponse(response, 0, 1, Unknown) = "Ok"
             /\ response.range.complete # Unknown)
  <2>1. pc' = "head" /\ UNCHANGED cache
    BY <1>1, <1>4
  <2>2. Types'
    BY <1>2, <2>1 DEF AdapterInv, Types
  <2> QED
    BY <1>2, <2>1, <2>2 DEF AdapterInv, Asking, Requesting, Receiving, RangesDone, Full,
                            FullFileIsResource
<1> QED
  BY <1>3, <1>4

LEMMA HeadAnsweredInv ==
  ASSUME AdapterInv, HeadAnswered
  PROVE  AdapterInv'
<1>1. /\ cache'.size \in {0, Size, Size + 1}
      /\ pc = "head" /\ pc' = "select"
      /\ UNCHANGED <<server, resource, file, limit, body>>
  BY AdapterAssumption DEF HeadAnswered, AdapterInv, Types, ResourceSize
<1>2. cache'.size # Unknown
  BY <1>1, AdapterAssumption DEF Unknown
<1>3. Types'
  BY <1>1 DEF AdapterInv, Types
<1> QED
  BY <1>1, <1>2, <1>3 DEF AdapterInv, Asking, Requesting, Receiving, RangesDone, Full, FullFileIsResource

LEMMA InitializeInv ==
  ASSUME AdapterInv, Initialize
  PROVE  AdapterInv'
<1>1. UNCHANGED <<server, resource, cache>>
  BY DEF Initialize
<1>2. CASE FullWith(SingletonTotal)
  <2>1. SingletonTotal \in {Unknown, Size, Size + 1}
    BY DEF AdapterInv, Types, SingletonTotal
  <2> QED
    BY <1>1, <1>2, <2>1, FullWithInv DEF AdapterInv
<1>3. CASE Ranged /\ cache.size # 0
  <2>1. cache.size \in {Size, Size + 1}
    BY <1>3 DEF Initialize, AdapterInv, Types, Asking
  <2>2. Types'
    BY <1>1, <1>3 DEF Ranged, AdapterInv, Types
  <2>3. file = <<>>
    BY DEF Initialize, AdapterInv, Asking
  <2> QED
    BY <1>1, <1>3, <2>1, <2>2, <2>3, AdapterAssumption
       DEF Ranged, AdapterInv, Asking, Requesting, Receiving, RangesDone, Full,
           FullFileIsResource, Content
<1> QED
  BY <1>2, <1>3 DEF Initialize

\* The body of an accepted answer continues the file; one that was decoded into
\* less than its range ends before the last byte of it.
LEMMA RequestRangeInv ==
  ASSUME AdapterInv, RequestRange
  PROVE  AdapterInv'
<1> DEFINE
      answers(e) == RangeAnswers(Len(file), e) \cup WrongPartials(Len(file), e - 1) \cup Failures
      Received(e, response) ==
        LET verdict == ValidateRangeResponse(response, Len(file), e, cache.size) IN
        IF verdict # "Ok" THEN RangeFails(verdict)
        ELSE \E left \in RangeYields(RangeLength(response.range)) :
               /\ body' = [of |-> resource, at |-> response.range.first, left |-> left,
                           junk |-> IsJunkRange, remaining |-> RangeLength(response.range)]
               /\ limit' = e
               /\ pc' = "range_body"
               /\ UNCHANGED <<client, server, resource, cache, probe, retries, file, faults>>
<1>0. PICK end \in Len(file) + 1 .. cache.size :
        \E response \in answers(end) : Received(end, response)
  BY DEF RequestRange
<1>1. PICK response \in answers(end) : Received(end, response)
  BY <1>0
<1> DEFINE verdict == ValidateRangeResponse(response, Len(file), end, cache.size)
<1>2. CASE verdict # "Ok"
  <2>1. RangeFails(verdict)
    BY <1>1, <1>2
  <2>2. pc = "range"
    BY DEF RequestRange
  <2> HIDE DEF verdict
  <2> QED
    BY <2>1, <2>2, RangeFailsInv
<1>3. CASE verdict = "Ok"
  <2>1. PICK left \in RangeYields(RangeLength(response.range)) :
          /\ body' = [of |-> resource, at |-> response.range.first, left |-> left,
                      junk |-> IsJunkRange, remaining |-> RangeLength(response.range)]
          /\ limit' = end
          /\ pc' = "range_body"
          /\ UNCHANGED <<client, server, resource, cache, probe, retries, file, faults>>
    BY <1>1, <1>3
  <2>2. /\ pc = "range"
        /\ Len(file) \in Nat
        /\ cache.size \in {Size, Size + 1}
        /\ resource \in {1, 2}
    BY DEF RequestRange, AdapterInv, Types, Requesting
  <2>3. end \in Nat /\ Len(file) < end /\ end <= cache.size
    BY <2>2, AdapterAssumption
  <2>4. /\ response.range.first = Len(file)
        /\ response.range.last \in Len(file) .. end - 1
        /\ response.range.complete = IF server.names THEN ResourceSize(resource) ELSE Unknown
        /\ \/ response.range.complete = Unknown
           \/ cache.size = Unknown
           \/ response.range.complete = cache.size
        /\ server.coding \in {"none", "shrunk", "grown"}
    BY <1>3, <2>2, <2>3, AcceptedRange DEF AdapterInv
  <2>5. RangeLength(response.range) \in 1 .. end - Len(file)
    BY <2>2, <2>3, <2>4 DEF RangeLength
  <2>6. /\ left \in Nat
        /\ server.coding = "shrunk" => Len(file) + left < end
    BY <2>2, <2>3, <2>4, <2>5 DEF RangeYields
  <2>7. server.names => resource = Described
    BY <2>2, <2>4, AdapterAssumption DEF ResourceSize, Described, Unknown
  <2>8. body'.of = resource /\ body'.at = Len(file) /\ body'.left = left
        /\ body'.junk = IsJunkRange
    BY <2>1, <2>4
  <2>9. Types'
    BY <2>1, <2>2, <2>4, <2>5, <2>6 DEF AdapterInv, Types, Bodies, IsJunkRange
  <2>10. Requesting'
    BY <2>1, <2>2, <2>4 DEF AdapterInv, Requesting, Described, Content
  <2>11. Receiving'
    BY <2>1, <2>3, <2>4, <2>6, <2>7, <2>8 DEF Receiving, Described, IsJunkRange
  <2> QED
    BY <2>1, <2>9, <2>10, <2>11 DEF AdapterInv, Asking, RangesDone, Full, FullFileIsResource
<1> QED
  BY <1>2, <1>3

\* How many of n bytes the runner takes.
LEMMA TakenBytes ==
  ASSUME Types, NEW n \in 1 .. body.left,
         limit = Unknown \/ (limit \in Nat /\ Len(file) < limit)
  PROVE  \E m \in 1 .. n :
           /\ Taken(n) = BytesOf(m)
           /\ limit # Unknown => Len(file) + m <= limit
           /\ limit = Unknown \/ Len(file) + m < limit => m = n
           /\ file \o Taken(n) \in Seq(FileBytes)
           /\ Len(file \o Taken(n)) = Len(file) + m
<1> DEFINE m == IF limit = Unknown \/ n < limit - Len(file) THEN n ELSE limit - Len(file)
<1>1. n \in Nat \ {0} /\ Len(file) \in Nat
  BY DEF Types, Bodies
<1>2. m \in 1 .. n
  BY <1>1 DEF Unknown
<1>3. Taken(n) = BytesOf(m)
  BY <1>1 DEF Taken
<1>4. /\ limit # Unknown => Len(file) + m <= limit
      /\ limit = Unknown \/ Len(file) + m < limit => m = n
  BY <1>1
<1> HIDE DEF m
<1>5. BytesOf(m) \in Seq(FileBytes) /\ Len(BytesOf(m)) = m
  <2>1. \A i \in 1 .. m : body.at + i - 1 \in Nat
    BY <1>2 DEF Types, Bodies
  <2>2. \A i \in 1 .. m : (IF body.junk THEN Junk ELSE Byte(body.of, body.at + i - 1))
                            \in FileBytes
    BY <2>1 DEF Types, Bodies, Junk, Byte, FileBytes
  <2> QED
    BY <1>2, <2>2 DEF BytesOf
<1>6. /\ file \o Taken(n) \in Seq(FileBytes)
      /\ Len(file \o Taken(n)) = Len(file) + m
  BY <1>3, <1>5, ConcatSeq DEF Types
<1> QED
  BY <1>2, <1>3, <1>4, <1>6

LEMMA RangeItemInv ==
  ASSUME AdapterInv, RangeItem
  PROVE  AdapterInv'
<1>1. PICK n \in 1 .. body.left :
        IF RunsPast(body.remaining, n) THEN RangeFails("RangeBodyTooLong")
        ELSE /\ file' = file \o Taken(n)
             /\ IF Len(file') < limit
                THEN body' = BodyAfter(n) /\ UNCHANGED pc
                ELSE /\ body' = NoBody
                     /\ pc' = IF Len(file') = cache.size THEN "ranges_done" ELSE "range"
             /\ UNCHANGED <<client, server, resource, cache, probe, retries, limit, faults>>
  BY DEF RangeItem
<1>2. CASE RunsPast(body.remaining, n)
  BY <1>1, <1>2, RangeFailsInv DEF RangeItem
<1>3. CASE ~RunsPast(body.remaining, n)
  <2>1. /\ pc = "range_body"
        /\ Types /\ Requesting /\ Receiving
        /\ limit \in Nat /\ Len(file) < limit /\ limit <= cache.size
        /\ cache.size \in {Size, Size + 1}
        /\ Len(file) \in Nat /\ n \in Nat \ {0} /\ n <= body.left
        /\ body.at \in Nat /\ body.left \in Nat /\ body.remaining \in Int
    BY DEF RangeItem, AdapterInv, Types, Bodies, Receiving, Requesting
  <2>2. PICK m \in 1 .. n :
          /\ Taken(n) = BytesOf(m)
          /\ limit # Unknown => Len(file) + m <= limit
          /\ limit = Unknown \/ Len(file) + m < limit => m = n
          /\ file \o Taken(n) \in Seq(FileBytes)
          /\ Len(file \o Taken(n)) = Len(file) + m
    BY <2>1, TakenBytes
  <2>3. /\ file' = file \o Taken(n)
        /\ UNCHANGED <<client, server, resource, cache, probe, retries, limit, faults>>
    BY <1>1, <1>3
  <2>4. m \in Nat /\ Len(file') \in Nat /\ Len(file') = Len(file) + m /\ Len(file') <= limit
    BY <2>1, <2>2, <2>3 DEF Unknown
  <2>5. server.names /\ server.coding = "none" => file' = Content(Described, Len(file'))
    <3> SUFFICES ASSUME server.names, server.coding = "none"
                 PROVE  file' = Content(Described, Len(file'))
      OBVIOUS
    <3>1. file = Content(Described, Len(file))
      BY <2>1 DEF Requesting
    <3>2. ~body.junk /\ body.at = Len(file) /\ body.of = Described
      BY <2>1 DEF Receiving
    <3>3. BytesOf(m) = [i \in 1 .. m |-> Byte(Described, Len(file) + i - 1)]
      BY <3>2 DEF BytesOf
    <3>4. Content(Described, Len(file)) \o [i \in 1 .. m |-> Byte(Described, Len(file) + i - 1)]
          = Content(Described, Len(file) + m)
      BY <2>1, <2>4, ContentGrows
    <3>5. file \o BytesOf(m) = Content(Described, Len(file) + m)
      BY <3>1, <3>3, <3>4
    <3> QED
      BY <2>2, <2>3, <2>4, <3>5
  <2>6. server.coding = "shrunk" => Len(file') < limit
    BY <2>1, <2>2, <2>4 DEF Receiving
  <2>7. server.coding \in {"none", "shrunk", "grown"}
    BY <2>1 DEF Types, Servers, Codings, Requesting
  <2>8. CASE Len(file') < limit
    <3>1. body' = BodyAfter(n) /\ pc' = "range_body" /\ m = n
      BY <1>1, <1>3, <2>1, <2>2, <2>4, <2>8
    <3>2. /\ body'.at = body.at + n /\ body'.left = body.left - n
          /\ body'.of = body.of /\ body'.junk = body.junk
          /\ body' \in Bodies
      <4>1. body \in Bodies /\ body.at + n \in Nat /\ body.left - n \in Nat
            /\ body.remaining - n \in Int
        BY <2>1 DEF Types
      <4> QED
        BY <3>1, <4>1 DEF BodyAfter, Bodies
    <3>3. Types'
      BY <2>1, <2>2, <2>3, <3>1, <3>2 DEF Types
    <3>4. Requesting'
      BY <2>1, <2>3, <2>5, <2>7, <2>8, <3>1, AdapterAssumption DEF Requesting, Described, Content
    <3>5. Receiving'
      BY <2>1, <2>3, <2>4, <2>8, <3>1, <3>2 DEF Receiving, Described
    <3> QED
      BY <3>1, <3>3, <3>4, <3>5 DEF AdapterInv, Asking, RangesDone, Full, FullFileIsResource
  <2>9. CASE ~(Len(file') < limit)
    <3>1. /\ body' = NoBody
          /\ pc' = IF Len(file') = cache.size THEN "ranges_done" ELSE "range"
      BY <1>1, <1>3, <2>9
    <3>2. Len(file') = limit
      BY <2>1, <2>4, <2>9
    <3>3. Types'
      BY <2>1, <2>2, <2>3, <3>1 DEF Types, NoBody, Bodies
    <3>4. Len(file') <= cache.size
      BY <2>1, <3>2
    <3>5. Requesting'
      <4>1. pc' # "range_body" /\ (pc' = "range" => Len(file') < cache.size)
        BY <2>1, <2>4, <3>1, <3>4, AdapterAssumption
      <4>2. Described' = Described /\ cache'.size \in {Size, Size + 1}
        BY <2>1, <2>3 DEF Described
      <4>3. server.names /\ server.coding = "none" => file' = Content(Described', Len(file'))
        BY <2>5, <4>2
      <4> QED
        BY <2>3, <4>1, <4>2, <4>3 DEF Requesting, Content
    <3>6. RangesDone'
      BY <2>1, <2>3, <2>5, <2>6, <2>7, <2>9, <3>1 DEF RangesDone, Described, Content
    <3> QED
      BY <3>1, <3>3, <3>5, <3>6 DEF AdapterInv, Asking, Receiving, Full, FullFileIsResource
  <2> QED
    BY <2>8, <2>9
<1> QED
  BY <1>2, <1>3

LEMMA RangeEndsInv ==
  ASSUME AdapterInv, RangeEnds
  PROVE  AdapterInv'
<1>1. CASE EndsShort(body.remaining)
  BY <1>1, RangeFailsInv DEF RangeEnds
<1>2. CASE ~EndsShort(body.remaining)
  <2>1. /\ pc = "range_body" /\ pc' = "range" /\ body' = NoBody
        /\ UNCHANGED <<server, resource, cache, file, limit>>
    BY <1>2 DEF RangeEnds
  <2>2. Types'
    BY <2>1 DEF AdapterInv, Types, NoBody, Bodies
  <2>3. Requesting'
    BY <2>1 DEF AdapterInv, Requesting, Described, Content
  <2> QED
    BY <2>1, <2>2, <2>3 DEF AdapterInv, Asking, Receiving, RangesDone, Full, FullFileIsResource
<1> QED
  BY <1>1, <1>2

LEMMA FullFailsInv ==
  ASSUME AdapterInv, FullFails
  PROVE  AdapterInv'
<1>1. /\ pc' = "failed" /\ body' = NoBody
      /\ UNCHANGED <<server, resource, cache, file>>
  BY DEF FullFails
<1>2. Types'
  BY <1>1 DEF AdapterInv, Types, NoBody, Bodies
<1> QED
  BY <1>1, <1>2 DEF AdapterInv, Asking, Requesting, Receiving, RangesDone, Full,
                    FullFileIsResource

LEMMA RequestFullInv ==
  ASSUME AdapterInv, RequestFull
  PROVE  AdapterInv'
<1>1. CASE ~CheckContentCoding(Answer(200, NoRange("absent"), TypeSent))
  BY <1>1, FullFailsInv DEF RequestFull
<1>2. CASE CheckContentCoding(Answer(200, NoRange("absent"), TypeSent))
  <2>1. /\ pc = "full" /\ pc' = "full_body"
        /\ body' = [NoBody EXCEPT !.of = resource, !.left = ResourceSize(resource),
                                  !.junk = IsJunkFull]
        /\ UNCHANGED <<server, resource, cache, file, limit>>
    BY <1>2 DEF RequestFull
  <2>2. IsJunkFull = FALSE
    <3>1. ~IsJunkFull
      BY <1>2, AcceptedFull DEF AdapterInv
    <3> QED
      BY <3>1 DEF IsJunkFull
  <2>3. file = <<>> /\ limit \in {Unknown, Size, Size + 1}
    BY <2>1 DEF AdapterInv, Full
  <2>4. resource \in {1, 2} /\ ResourceSize(resource) \in Nat
    BY AdapterAssumption DEF AdapterInv, Types, ResourceSize
  <2>5. body' = [of |-> resource, at |-> 0, left |-> ResourceSize(resource),
                 junk |-> FALSE, remaining |-> 0]
    BY <2>1, <2>2 DEF NoBody
  <2>6. Types'
    <3>1. body' \in Bodies
      BY <2>4, <2>5 DEF Bodies
    <3> QED
      BY <2>1, <3>1 DEF AdapterInv, Types
  <2>7. Full'
    <3>1. Content(resource, 0) = <<>>
      BY DEF Content
    <3>2. body'.of = resource /\ body'.at = 0 /\ ~body'.junk
          /\ body'.left = ResourceSize(resource)
      BY <2>5
    <3>3. Len(file') = 0 /\ file' = Content(body'.of, Len(file'))
      BY <2>1, <2>3, <3>1, <3>2
    <3>4. body'.at + body'.left = ResourceSize(body'.of)
      BY <2>4, <3>2
    <3>5. limit' # Unknown => Len(file') < limit'
      BY <2>1, <2>3, <3>3, AdapterAssumption
    <3> QED
      BY <2>1, <2>3, <3>2, <3>3, <3>4, <3>5 DEF Full, Content, ResourceSize
  <2> QED
    BY <2>1, <2>6, <2>7 DEF AdapterInv, Asking, Requesting, Receiving, RangesDone,
                            FullFileIsResource
<1> QED
  BY <1>1, <1>2

LEMMA FullItemInv ==
  ASSUME AdapterInv, FullItem
  PROVE  AdapterInv'
<1>1. PICK n \in 1 .. body.left :
        /\ file' = file \o Taken(n)
        /\ IF Len(file') = limit THEN pc' = "full_done" /\ body' = NoBody
           ELSE body' = [body EXCEPT !.at = @ + n, !.left = @ - n] /\ UNCHANGED pc
  BY DEF FullItem
<1>2. /\ pc = "full_body"
      /\ UNCHANGED <<server, resource, cache, limit>>
  BY DEF FullItem
<1>3. /\ Types
      /\ limit \in {Unknown, Size, Size + 1}
      /\ ~body.junk
      /\ body.at = Len(file)
      /\ body.at + body.left = ResourceSize(body.of)
      /\ limit # Unknown => Len(file) < limit
      /\ file = Content(body.of, Len(file))
  BY <1>2 DEF AdapterInv, Full
<1>4. /\ body \in Bodies /\ body.left \in Nat /\ body.at \in Nat /\ body.of \in {1, 2}
      /\ Len(file) \in Nat /\ n \in Nat \ {0} /\ n <= body.left
  BY <1>3 DEF Types, Bodies
<1>5. limit = Unknown \/ (limit \in Nat /\ Len(file) < limit)
  BY <1>3, AdapterAssumption
<1>6. PICK m \in 1 .. n :
        /\ Taken(n) = BytesOf(m)
        /\ limit # Unknown => Len(file) + m <= limit
        /\ limit = Unknown \/ Len(file) + m < limit => m = n
        /\ file \o Taken(n) \in Seq(FileBytes)
        /\ Len(file \o Taken(n)) = Len(file) + m
  BY <1>3, <1>5, TakenBytes
<1>7. m \in Nat /\ Len(file') \in Nat /\ Len(file') = Len(file) + m
  BY <1>1, <1>4, <1>6
<1>8. file' = Content(body.of, Len(file'))
  <2>1. BytesOf(m) = [i \in 1 .. m |-> Byte(body.of, Len(file) + i - 1)]
    BY <1>3 DEF BytesOf
  <2>2. Content(body.of, Len(file)) \o [i \in 1 .. m |-> Byte(body.of, Len(file) + i - 1)]
        = Content(body.of, Len(file) + m)
    BY <1>4, <1>7, ContentGrows
  <2>3. file \o BytesOf(m) = Content(body.of, Len(file) + m)
    BY <1>3, <2>1, <2>2
  <2> QED
    BY <1>1, <1>6, <1>7, <2>3
<1>9. CASE Len(file') = limit
  <2>1. pc' = "full_done" /\ body' = NoBody
    BY <1>1, <1>9
  <2>2. Types'
    BY <1>1, <1>2, <1>3, <1>6, <2>1 DEF Types, NoBody, Bodies
  <2>3. limit # Unknown
    BY <1>7, <1>9 DEF Unknown
  <2>4. file' = Content(body.of, IF limit' = Unknown THEN ResourceSize(body.of) ELSE limit')
    BY <1>2, <1>8, <1>9, <2>3
  <2>5. FullFileIsResource'
    BY <1>4, <2>4 DEF FullFileIsResource, Content, ResourceSize
  <2> QED
    BY <1>2, <1>3, <2>1, <2>2, <2>5
       DEF AdapterInv, Asking, Requesting, Receiving, RangesDone, Full
<1>10. CASE Len(file') # limit
  <2>1. body' = [body EXCEPT !.at = @ + n, !.left = @ - n] /\ pc' = "full_body"
    BY <1>1, <1>2, <1>10
  <2>2. /\ body' \in Bodies
        /\ body'.at = body.at + n /\ body'.left = body.left - n
        /\ body'.of = body.of /\ body'.junk = body.junk
    <3>1. body.at + n \in Nat /\ body.left - n \in Nat
      BY <1>4
    <3> QED
      BY <1>4, <2>1, <3>1 DEF Bodies
  <2>3. m = n /\ (limit # Unknown => Len(file') < limit)
    BY <1>4, <1>5, <1>6, <1>7, <1>10
  <2>4. Types'
    BY <1>1, <1>2, <1>3, <1>6, <2>1, <2>2 DEF Types
  <2>5. /\ body'.at = Len(file')
        /\ body'.at + body'.left = ResourceSize(body'.of)
        /\ file' = Content(body'.of, Len(file'))
    BY <1>3, <1>4, <1>7, <1>8, <2>2, <2>3
  <2>6. Full'
    BY <1>2, <1>3, <2>1, <2>2, <2>3, <2>5 DEF Full, Content, ResourceSize
  <2> QED
    BY <2>1, <2>4, <2>6 DEF AdapterInv, Asking, Requesting, Receiving, RangesDone,
                            FullFileIsResource
<1> QED
  BY <1>9, <1>10

LEMMA FullEndsInv ==
  ASSUME AdapterInv, FullEnds
  PROVE  AdapterInv'
<1>1. /\ pc = "full_body" /\ body.left = 0 /\ body' = NoBody
      /\ pc' = IF limit = Unknown THEN "full_done" ELSE "failed"
      /\ UNCHANGED <<server, resource, cache, file, limit>>
  BY DEF FullEnds
<1>2. Types'
  BY <1>1 DEF AdapterInv, Types, NoBody, Bodies
<1>3. FullFileIsResource'
  <2>1. file = Content(body.of, ResourceSize(body.of)) /\ body.of \in {1, 2}
    <3>1. body.of \in {1, 2} /\ Len(file) \in Nat
      BY DEF AdapterInv, Types, Bodies
    <3>2. Len(file) + 0 = ResourceSize(body.of) /\ file = Content(body.of, Len(file))
      BY <1>1 DEF AdapterInv, Full
    <3> QED
      BY <3>1, <3>2
  <2>2. pc' = "full_done" => limit' = Unknown
    BY <1>1
  <2> QED
    BY <1>1, <2>1, <2>2 DEF FullFileIsResource, Content, ResourceSize
<1> QED
  BY <1>1, <1>2, <1>3 DEF AdapterInv, Asking, Requesting, Receiving, RangesDone, Full

LEMMA ReplaceInv ==
  ASSUME AdapterInv, Replace
  PROVE  AdapterInv'
<1>1. resource' = 2 /\ UNCHANGED <<server, cache, pc, file, limit, body>>
  BY DEF Replace
<1>2. Types'
  BY <1>1 DEF AdapterInv, Types
<1>3. Asking' /\ Requesting' /\ Receiving' /\ RangesDone'
  BY <1>1 DEF AdapterInv, Asking, Requesting, Receiving, RangesDone, Described, Content
<1>4. Full' /\ FullFileIsResource'
  BY <1>1 DEF AdapterInv, Full, FullFileIsResource, Content, ResourceSize
<1> QED
  BY <1>2, <1>3, <1>4 DEF AdapterInv

LEMMA UnchangedInv ==
  ASSUME AdapterInv, UNCHANGED vars
  PROVE  AdapterInv'
<1>1. UNCHANGED <<server, resource, cache, pc, file, limit, body>>
  BY DEF vars
<1>2. Types'
  BY <1>1 DEF AdapterInv, Types
<1>3. Asking' /\ Requesting' /\ Receiving' /\ RangesDone'
  BY <1>1 DEF AdapterInv, Asking, Requesting, Receiving, RangesDone, Described, Content
<1>4. Full' /\ FullFileIsResource'
  BY <1>1 DEF AdapterInv, Full, FullFileIsResource, Content, ResourceSize
<1> QED
  BY <1>2, <1>3, <1>4 DEF AdapterInv

LEMMA AdapterStepInv == AdapterInv /\ [Next]_vars => AdapterInv'
<1> SUFFICES ASSUME AdapterInv, [Next]_vars
             PROVE  AdapterInv'
  OBVIOUS
<1>1. CASE Probe
  BY <1>1, ProbeInv
<1>2. CASE HeadRefused
  BY <1>2, MetaFailsInv DEF HeadRefused
<1>3. CASE HeadAnswered
  BY <1>3, HeadAnsweredInv
<1>4. CASE MetaUnanswered
  BY <1>4, MetaFailsInv DEF MetaUnanswered
<1>5. CASE Initialize
  BY <1>5, InitializeInv
<1>6. CASE RequestRange
  BY <1>6, RequestRangeInv
<1>7. CASE RangeCut
  BY <1>7, RangeFailsInv DEF RangeCut
<1>8. CASE RangeUndecodable
  BY <1>8, RangeFailsInv DEF RangeUndecodable
<1>9. CASE RangeItem
  BY <1>9, RangeItemInv
<1>10. CASE RangeEnds
  BY <1>10, RangeEndsInv
<1>11. CASE RequestFull
  BY <1>11, RequestFullInv
<1>12. CASE FullCut
  BY <1>12, FullFailsInv DEF FullCut
<1>13. CASE FullItem
  BY <1>13, FullItemInv
<1>14. CASE FullEnds
  BY <1>14, FullEndsInv
<1>15. CASE Replace
  BY <1>15, ReplaceInv
<1>16. CASE UNCHANGED vars
  BY <1>16, UnchangedInv
<1> QED
  BY <1>1, <1>2, <1>3, <1>4, <1>5, <1>6, <1>7, <1>8, <1>9, <1>10, <1>11, <1>12, <1>13,
     <1>14, <1>15, <1>16 DEF Next, Steps, Ended

(***************************************************************************)
(* The theorems.                                                            *)
(***************************************************************************)

\* The inductive invariant of adapter and task holds against every server of the
\* model, for every size of the resource.
THEOREM AdapterInvariant == Spec => []AdapterInv
  BY AdapterInitInv, AdapterStepInv, PTL DEF Spec

\* A file fetched by ranges is one resource, whole and in order, when the server
\* names the total and the client does not lengthen what it decodes
\* (validate_range_response, limit_range_body, range_unsupported).
THEOREM AdapterRangedFile == Spec => []RangedFileIsResource
<1>1. AdapterInv => RangedFileIsResource
  <2> SUFFICES ASSUME AdapterInv, pc = "ranges_done", server.names, server.coding # "grown"
               PROVE  \E r \in {1, 2} : file = Content(r, ResourceSize(r))
    BY DEF RangedFileIsResource
  <2>1. /\ cache.size \in {Size, Size + 1}
        /\ Len(file) = cache.size
        /\ file = Content(Described, Len(file))
    BY DEF AdapterInv, RangesDone
  <2>2. Described \in {1, 2} /\ ResourceSize(Described) = cache.size
    BY <2>1, AdapterAssumption DEF Described, ResourceSize
  <2> QED
    BY <2>1, <2>2
<1> QED
  BY <1>1, AdapterInvariant, PTL

\* A file fetched over one connection is the beginning of one resource, never of
\* its coded form, with nothing left of an attempt by ranges (full_stream,
\* check_content_coding).
THEOREM AdapterFullFile == Spec => []FullFileIsResource
<1>1. AdapterInv => FullFileIsResource
  BY DEF AdapterInv
<1> QED
  BY <1>1, AdapterInvariant, PTL
=============================================================================
