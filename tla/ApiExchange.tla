----------------------------- MODULE ApiExchange -----------------------------
(***************************************************************************)
(* One request of the pinned Onshape client, src/onshape_api.rs: deadlines *)
(* and credentials, the status line, the headers, and a body framed by its *)
(* length, by chunks or by the end of the connection.                      *)
(*                                                                         *)
(* The server is not trusted to frame well: it sends any token next, and   *)
(* the connection may end cleanly ("eof") or not ("cut") at any point.  A  *)
(* token is a data byte, a chunk header, the line end after a chunk, a     *)
(* trailer line, one that redefines the framing, or the blank line; where  *)
(* the reader expects data, any of them is a byte.                         *)
(***************************************************************************)
EXTENDS Absence, Naturals, Sequences, FiniteSets

CONSTANTS
  ByteLimit,     \* response limit of the operation, in bytes
  InvalidLength, \* a Content-Length field that is repeated or no number
  MaxChunk       \* bound: largest chunk size a server sends

\* A line or byte of the body as it arrives; only chunk headers have a size.
Tokens == [kind : {"byte", "crlf", "trailer", "framing", "blank", "eof", "cut"}, size : {0}]
            \cup [kind : {"chunk"}, size : 0..MaxChunk]

\* ResponsePolicy: JSON for planning, JSON of a create or a poll, and bytes.
Policies == {"selection", "create", "poll", "bytes"}

\* What the head of a response declares: number and value of the fields.
ResponseHead == [status : {200, 201, 401, 500},
                 media : {"expected", "other", "missing", "twice"},
                 encoding : {"identity", "other"},
                 length : {None, InvalidLength} \cup 0..(ByteLimit + 1),
                 transfer : {None, "chunked", "other"}]

ASSUME ExchangeAssumption ==
  /\ ByteLimit \in Nat \ {0} /\ MaxChunk \in Nat
  /\ None \notin Policies \cup ResponseHead
  /\ InvalidLength \notin Nat \cup {None}
  /\ None \notin {"chunked", "ok", "TransportFailure", "OperationalApiContractFailure"}

VARIABLES
  policy,       \* of the request in flight, or None
  credentials,  \* both keys are configured
  xstep,        \* step of the reader
  head,         \* of the response, or None
  remaining,    \* bytes the reader still expects of the length or the chunk
  received,     \* length of the collected body
  trailers,     \* trailer lines of the chunked body read so far
  wire,         \* every token of the body consumed so far
  xresult       \* None, "ok" or a FailureKind

exchangeVars == <<policy, credentials, xstep, head, remaining, received, trailers, wire, xresult>>

ExchangeInit ==
  /\ policy = None /\ credentials \in BOOLEAN
  /\ xstep = "idle" /\ head = None
  /\ remaining = 0 /\ received = 0 /\ trailers = {} /\ wire = <<>>
  /\ xresult = None

-----------------------------------------------------------------------------
Ends == {"eof", "cut"}

EndExchange(outcome) ==
  /\ xstep' = "idle"
  /\ xresult' = outcome

\* request_with_policy: the deadline and the credentials come first.
request_with_policy(p) ==
  /\ xstep = "idle" /\ wire = <<>> /\ head = None
  /\ policy' = p
  /\ IF credentials
       THEN xstep' = "connect" /\ xresult' = None
       ELSE EndExchange("AuthenticationFailure")
  /\ UNCHANGED <<credentials, head, remaining, received, trailers, wire>>

\* Connection, TLS and the writing of the request.
connect ==
  /\ xstep = "connect"
  /\ \/ xstep' = "head" /\ xresult' = xresult
     \/ \E e \in {"TransportFailure", "OperationalApiContractFailure"} : EndExchange(e)
  /\ UNCHANGED <<policy, credentials, head, remaining, received, trailers, wire>>

status_accepted(h) == h.status = 200 \/ (h.status = 201 /\ policy = "create")

status_failure(h) ==
  IF h.status = 401 THEN "AuthenticationFailure"
  ELSE IF policy # "selection" THEN "OperationalHttpFailure"
  ELSE "OperationalApiContractFailure"

\* validate_json_headers and validate_geometry_headers: one media type, the
\* one of the policy, and no content encoding.
validate_headers(h) == h.media = "expected" /\ h.encoding = "identity"

\* content_length and the transfer encoding: one readable length within the
\* limit, or chunks, never both.
framing_accepted(h) ==
  /\ h.length # None => h.length \in 0..ByteLimit
  /\ h.transfer \in {None, "chunked"}
  /\ h.transfer # None => h.length = None

\* The status is judged before the headers are read; the framing decides how
\* the body is read.
read_head(h) ==
  /\ xstep = "head"
  /\ head' = h
  /\ IF ~ status_accepted(h) THEN EndExchange(status_failure(h)) /\ remaining' = 0
     ELSE IF ~ validate_headers(h) \/ ~ framing_accepted(h)
       THEN EndExchange("OperationalApiContractFailure") /\ remaining' = 0
     ELSE /\ xstep' = IF h.transfer = "chunked" THEN "chunk"
                      ELSE IF h.length = None THEN "stream"
                      ELSE IF h.length = 0 THEN "close" ELSE "exact"
          /\ remaining' = IF h.length = None THEN 0 ELSE h.length
          /\ xresult' = xresult
  /\ UNCHANGED <<policy, credentials, received, trailers, wire>>

\* An empty body is no geometry.
Complete ==
  EndExchange(IF received = 0 /\ policy = "bytes" THEN "OperationalApiContractFailure" ELSE "ok")

Consume(t) == wire' = Append(wire, t)

\* read_exact_body, for a declared length and for a chunk.
read_exact_body(t) ==
  /\ xstep \in {"exact", "chunkbody"}
  /\ Consume(t)
  /\ IF t.kind \in Ends THEN EndExchange("TransportFailure") /\ UNCHANGED <<remaining, received>>
     ELSE IF received = ByteLimit
       THEN EndExchange("OperationalApiContractFailure") /\ UNCHANGED <<remaining, received>>
     ELSE /\ received' = received + 1
          /\ remaining' = remaining - 1
          /\ xstep' = IF remaining > 1 THEN xstep
                      ELSE IF xstep = "exact" THEN "close" ELSE "chunkend"
          /\ xresult' = xresult
  /\ UNCHANGED <<policy, credentials, head, trailers>>

\* Mutant: what follows a complete frame is not looked at.
CloseUnread(t) ==
  /\ xstep = "close"
  /\ Consume(t)
  /\ Complete
  /\ UNCHANGED <<policy, credentials, head, remaining, received, trailers>>

\* require_completed_close: after an explicit frame only the end may follow,
\* and an unclean one will do.
require_completed_close(t) ==
  /\ xstep = "close"
  /\ Consume(t)
  /\ IF t.kind \in Ends THEN Complete ELSE EndExchange("OperationalApiContractFailure")
  /\ UNCHANGED <<policy, credentials, head, remaining, received, trailers>>

\* collect_to_eof: the clean end is the frame.
collect_to_eof(t) ==
  /\ xstep = "stream"
  /\ Consume(t)
  /\ IF t.kind = "eof" THEN Complete /\ received' = received
     ELSE IF t.kind = "cut" THEN EndExchange("TransportFailure") /\ received' = received
     ELSE IF received = ByteLimit
       THEN EndExchange("OperationalApiContractFailure") /\ received' = received
     ELSE received' = received + 1 /\ UNCHANGED <<xstep, xresult>>
  /\ UNCHANGED <<policy, credentials, head, remaining, trailers>>

\* The lines after the last chunk are judged together, at the blank line.
TrailerVerdict ==
  IF ~ trailers \subseteq {"trailer", "framing"} THEN "TransportFailure"
  ELSE IF "framing" \in trailers THEN "OperationalApiContractFailure"
  ELSE None

\* collect_chunked: a chunk header, its bytes, a line end, again; then the
\* trailers, which may not redefine the framing, and the end.
collect_chunked(t) ==
  /\ xstep \in {"chunk", "chunkend", "trailers"}
  /\ Consume(t)
  /\ \/ /\ xstep = "chunk" /\ t.kind = "chunk"
        /\ remaining' = t.size
        /\ xstep' = IF t.size = 0 THEN "trailers" ELSE "chunkbody"
        /\ UNCHANGED <<trailers, xresult>>
     \/ /\ xstep = "chunkend" /\ t.kind = "crlf"
        /\ xstep' = "chunk" /\ UNCHANGED <<remaining, trailers, xresult>>
     \/ /\ \/ xstep = "chunk" /\ t.kind # "chunk"
           \/ xstep = "chunkend" /\ t.kind # "crlf"
           \/ xstep = "trailers" /\ t.kind \in Ends
        /\ EndExchange("TransportFailure") /\ UNCHANGED <<remaining, trailers>>
     \/ /\ xstep = "trailers" /\ t.kind \notin Ends \cup {"blank"}
        /\ trailers' = trailers \cup {t.kind} /\ UNCHANGED <<xstep, remaining, xresult>>
     \/ /\ xstep = "trailers" /\ t.kind = "blank"
        /\ IF TrailerVerdict = None THEN xstep' = "close" /\ xresult' = xresult
           ELSE EndExchange(TrailerVerdict)
        /\ UNCHANGED <<remaining, trailers>>
  /\ UNCHANGED <<policy, credentials, head, received>>

\* The idle limit of a read or the deadline of the operation passes.
Deadline ==
  /\ xstep # "idle"
  /\ \E e \in {"TransportFailure", "OperationalTimeoutFailure"} : EndExchange(e)
  /\ UNCHANGED <<policy, credentials, head, remaining, received, trailers, wire>>

\* Bounds: the body of a server that keeps sending is followed this far, a
\* data byte is told only from a line end, and there is one trailer line.
MaxWire == 3 * ByteLimit + 4

InBounds(t) ==
  /\ Len(wire) < MaxWire
  /\ xstep \in {"exact", "chunkbody", "stream"} => t.kind \in Ends \cup {"byte", "crlf"}
  /\ trailers # {} => t.kind \in Ends \cup {"blank", "byte"}

ReadBody(t) ==
  /\ InBounds(t)
  /\ \/ read_exact_body(t) \/ require_completed_close(t)
     \/ collect_to_eof(t) \/ collect_chunked(t)

\* The next request starts afresh.
NextRequest ==
  /\ xstep = "idle" /\ policy # None
  /\ policy' = None /\ head' = None
  /\ remaining' = 0 /\ received' = 0 /\ trailers' = {} /\ wire' = <<>>
  /\ xresult' = None
  /\ UNCHANGED <<credentials, xstep>>

ExchangeNext ==
  \/ \E p \in Policies : policy = None /\ request_with_policy(p)
  \/ connect
  \/ \E h \in ResponseHead : read_head(h)
  \/ \E t \in Tokens : ReadBody(t)
  \/ Deadline
  \/ NextRequest

ExchangeSpec == ExchangeInit /\ [][ExchangeNext]_exchangeVars

-----------------------------------------------------------------------------
\* request_with_policy never holds more than the byte limit of its operation, nor
\* counts below zero, whatever the server sends.
ExchangeTypeOK ==
  /\ policy \in Policies \cup {None} /\ credentials \in BOOLEAN
  /\ xstep \in {"idle", "connect", "head", "exact", "close", "stream", "chunk",
                "chunkbody", "chunkend", "trailers"}
  /\ head \in ResponseHead \cup {None}
  /\ trailers \subseteq {k.kind : k \in Tokens}
  /\ remaining \in 0..(MaxChunk + ByteLimit) /\ received \in 0..ByteLimit
  /\ xresult \in {None, "ok", "AuthenticationFailure", "TransportFailure",
                  "OperationalApiContractFailure", "OperationalHttpFailure",
                  "OperationalTimeoutFailure"}

\* A message framed by chunks whose headers are at the positions H: the first
\* is at 1, each next one follows the line end after the data of the one
\* before, and an empty chunk is the last, followed by trailers, the blank
\* line and the end.  There is no more than one such H.
ChunkEnd(w, i) == i + w[i].size + 1

ChunkedMessage(w, H) ==
  /\ 1 \in H
  /\ \A i \in H : w[i].kind = "chunk" /\ ChunkEnd(w, i) < Len(w)
  /\ \A i \in H : w[i].size > 0 => w[ChunkEnd(w, i)].kind = "crlf" /\ ChunkEnd(w, i) + 1 \in H
  /\ \A i, j \in H : i < j => w[i].size > 0 /\ ChunkEnd(w, i) < j
  /\ \E i \in H :
       /\ w[i].size = 0
       /\ \A j \in (i + 1)..(Len(w) - 2) : w[j].kind = "trailer"
       /\ w[Len(w) - 1].kind = "blank" /\ w[Len(w)].kind \in Ends

\* Where the data of the chunks with these headers is.
DataAt(w, H) == {p \in 1..Len(w) : \E i \in H : i < p /\ p <= i + w[i].size}

SizedMessage(h, w) == Len(w) = h.length + 1 /\ w[Len(w)].kind \in Ends

StreamMessage(w) == w # <<>> /\ w[Len(w)].kind = "eof"

\* What request_with_policy answers with is one complete message of the
\* expected status and type: no byte is missing, none of the framing is taken
\* for data, and nothing follows the message.
AcceptedIsExact ==
  xresult = "ok" =>
    /\ head.status = 200 \/ (head.status = 201 /\ policy = "create")
    /\ head.media = "expected" /\ head.encoding = "identity"
    /\ head.transfer = None \/ head.length = None
    /\ IF head.transfer # None
         THEN \E H \in SUBSET (1..Len(wire)) :
                ChunkedMessage(wire, H) /\ received = Cardinality(DataAt(wire, H))
       ELSE IF head.length # None THEN SizedMessage(head, wire) /\ received = head.length
       ELSE StreamMessage(wire) /\ received = Len(wire) - 1
    /\ \A i \in 1..(Len(wire) - 1) : wire[i].kind \notin Ends
    /\ policy = "bytes" => received > 0

=============================================================================
