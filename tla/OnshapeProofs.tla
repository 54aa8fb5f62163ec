---------------------------- MODULE OnshapeProofs ----------------------------
(***************************************************************************)
(* Proofs about what the service makes of Onshape's answers: the body of   *)
(* one answer (ApiExchange), the encoding of a configuration               *)
(* (ConfigurationEncoding), the plan and payloads of an acquisition        *)
(* (GeometryAcquisition), and the plan of a selection or its rejection     *)
(* (SelectionPlanning).                                                    *)
(***************************************************************************)
EXTENDS ApiExchange, ConfigurationEncoding, GeometryAcquisition, SelectionPlanning,
        FiniteSetTheorems, WellFoundedInduction, TLAPS

-----------------------------------------------------------------------------
(* ApiExchange.                                                            *)

\* The steps that read a body.
Reading == {"exact", "close", "stream", "chunk", "chunkbody", "chunkend", "trailers"}

\* Outside a body there is nothing of one.
BetweenBodies ==
  /\ policy \in Policies \cup {None} /\ xstep \in {"idle", "connect", "head"} \cup Reading
  /\ xstep # "idle" => xresult = None /\ policy # None
  /\ policy = None => xresult = None
  /\ xstep \in {"connect", "head"} \/ policy = None =>
       head = None /\ received = 0 /\ wire = <<>> /\ trailers = {}

\* The head of a body that is read was accepted, and no end has come yet.
HeadAccepted ==
  xstep \in Reading =>
    /\ head \in ResponseHead /\ status_accepted(head) /\ validate_headers(head)
    /\ framing_accepted(head)
    /\ wire \in Seq(Tokens) /\ \A i \in DOMAIN wire : wire[i].kind \notin Ends
    /\ received \in Nat /\ remaining \in Nat
    /\ xstep \in {"chunk", "chunkbody", "chunkend", "trailers"} => head.transfer = "chunked"
    /\ xstep \in {"exact", "stream"} => head.transfer = None

\* A body framed by its length or by the end: every token is a byte of it.
BytesCounted ==
  xstep \in Reading /\ head.transfer = None =>
    /\ received = Len(wire)
    /\ xstep = "exact" => head.length # None /\ remaining > 0 /\ received + remaining = head.length
    /\ xstep = "close" => head.length # None /\ received = head.length
    /\ xstep = "stream" => head.length = None

\* A body framed by chunks: what is read of it follows the headers at H, the
\* last of which is at l.
Framed(w, H) ==
  /\ H \subseteq DOMAIN w /\ (w # <<>> => 1 \in H)
  /\ \A i \in H : w[i].kind = "chunk"
  /\ \A i, j \in H : i < j => w[i].size > 0 /\ ChunkEnd(w, i) < j
  /\ \A i \in H : w[i].size > 0 /\ ChunkEnd(w, i) <= Len(w) =>
       /\ w[ChunkEnd(w, i)].kind = "crlf"
       /\ ChunkEnd(w, i) < Len(w) => ChunkEnd(w, i) + 1 \in H

AtChunk(w, H, l) ==
  /\ xstep = "chunk" => w = <<>> \/ (l \in H /\ w[l].size > 0 /\ ChunkEnd(w, l) = Len(w))
  /\ xstep = "chunkbody" => l \in H /\ remaining > 0 /\ Len(w) + remaining = l + w[l].size
  /\ xstep = "chunkend" => l \in H /\ w[l].size > 0 /\ Len(w) = l + w[l].size
  /\ xstep = "trailers" => /\ l \in H /\ w[l].size = 0
                           /\ \A j \in (l + 1)..Len(w) : w[j].kind \in trailers
  /\ xstep = "close" => /\ l \in H /\ w[l].size = 0 /\ l < Len(w) /\ w[Len(w)].kind = "blank"
                        /\ \A j \in (l + 1)..(Len(w) - 1) : w[j].kind = "trailer"

ChunksFollowed ==
  xstep \in Reading /\ head.transfer = "chunked" =>
    \E H \in SUBSET DOMAIN wire, l \in Nat :
      Framed(wire, H) /\ AtChunk(wire, H, l) /\ received = Cardinality(DataAt(wire, H))

ExchangeInv ==
  BetweenBodies /\ HeadAccepted /\ BytesCounted /\ ChunksFollowed /\ AcceptedIsExact

\* A body with one token more.
LEMMA Appended ==
  ASSUME NEW w \in Seq(Tokens), NEW t \in Tokens
  PROVE  /\ Append(w, t) \in Seq(Tokens) /\ Len(w) \in Nat
         /\ DOMAIN w = 1..Len(w) /\ DOMAIN Append(w, t) = 1..(Len(w) + 1)
         /\ Len(Append(w, t)) = Len(w) + 1 /\ Append(w, t)[Len(w) + 1] = t
         /\ \A i \in 1..Len(w) : Append(w, t)[i] = w[i]
         /\ Append(w, t) # <<>>
OBVIOUS

LEMMA Sizes ==
  ASSUME NEW w \in Seq(Tokens), NEW i \in DOMAIN w
  PROVE  w[i].size \in Nat /\ ChunkEnd(w, i) \in Nat /\ ChunkEnd(w, i) = i + w[i].size + 1 /\ i \in Nat
<1>1. w[i] \in Tokens /\ i \in Nat
  OBVIOUS
<1>2. w[i].size \in Nat
  BY <1>1, ExchangeAssumption DEF Tokens
<1> QED BY <1>1, <1>2 DEF ChunkEnd

\* A token that no chunk header is expected at: data, or the line end of the
\* chunk that ends just before it.
LEMMA FramedGoesOn ==
  ASSUME NEW w \in Seq(Tokens), NEW t \in Tokens, NEW H, Framed(w, H), w # <<>>,
         \A i \in H : w[i].size > 0 =>
           ChunkEnd(w, i) # Len(w) /\ (ChunkEnd(w, i) = Len(w) + 1 => t.kind = "crlf")
  PROVE  Framed(Append(w, t), H)
<1> DEFINE v == Append(w, t)
           n == Len(w)
<1>1. /\ v \in Seq(Tokens) /\ n \in Nat /\ DOMAIN w = 1..n /\ DOMAIN v = 1..(n + 1)
      /\ Len(v) = n + 1 /\ v[n + 1] = t /\ \A i \in 1..n : v[i] = w[i]
  BY Appended
<1>2. /\ H \subseteq 1..n /\ 1 \in H /\ \A i \in H : w[i].kind = "chunk"
      /\ \A i, j \in H : i < j => w[i].size > 0 /\ ChunkEnd(w, i) < j
      /\ \A i \in H : w[i].size > 0 /\ ChunkEnd(w, i) <= n =>
           w[ChunkEnd(w, i)].kind = "crlf" /\ (ChunkEnd(w, i) < n => ChunkEnd(w, i) + 1 \in H)
  BY <1>1 DEF Framed
<1> HIDE DEF v, n
<1>3. \A i \in H : v[i] = w[i] /\ ChunkEnd(v, i) = ChunkEnd(w, i)
  BY <1>1, <1>2 DEF ChunkEnd
<1>4. \A i \in H : w[i].size \in Nat /\ ChunkEnd(w, i) \in Nat /\ ChunkEnd(w, i) >= 1
  BY <1>1, <1>2, Sizes
<1>5. ASSUME NEW i \in H, v[i].size > 0, ChunkEnd(v, i) <= n + 1
      PROVE  v[ChunkEnd(v, i)].kind = "crlf" /\ (ChunkEnd(v, i) < n + 1 => ChunkEnd(v, i) + 1 \in H)
  <2>1. w[i].size > 0 /\ ChunkEnd(w, i) # n /\ (ChunkEnd(w, i) = n + 1 => t.kind = "crlf")
    BY <1>3, <1>5 DEF n
  <2>2. CASE ChunkEnd(w, i) = n + 1
    BY <1>1, <1>3, <1>4, <2>1, <2>2
  <2>3. CASE ChunkEnd(w, i) < n
    <3>1. ChunkEnd(w, i) \in 1..n
      BY <1>1, <1>4, <2>3
    <3>2. w[ChunkEnd(w, i)].kind = "crlf" /\ ChunkEnd(w, i) + 1 \in H
      BY <1>1, <1>2, <1>4, <2>1, <2>3
    <3> QED BY <1>1, <1>3, <3>1, <3>2
  <2> QED BY <1>1, <1>3, <1>4, <1>5, <2>1, <2>2, <2>3
<1>6. H \subseteq DOMAIN v
  BY <1>1, <1>2
<1>7. \A i, j \in H : i < j => v[i].size > 0 /\ ChunkEnd(v, i) < j
  BY <1>2, <1>3
<1> QED BY <1>1, <1>2, <1>3, <1>5, <1>6, <1>7 DEF Framed, v

\* A chunk header where one is expected.
LEMMA FramedByHeader ==
  ASSUME NEW w \in Seq(Tokens), NEW t \in Tokens, NEW H, Framed(w, H), t.kind = "chunk",
         \A i \in H : w[i].size > 0 /\ ChunkEnd(w, i) <= Len(w)
  PROVE  Framed(Append(w, t), H \cup {Len(w) + 1})
<1> DEFINE v == Append(w, t)
           n == Len(w)
           G == H \cup {n + 1}
<1>1. /\ v \in Seq(Tokens) /\ n \in Nat /\ DOMAIN w = 1..n /\ DOMAIN v = 1..(n + 1)
      /\ Len(v) = n + 1 /\ v[n + 1] = t /\ \A i \in 1..n : v[i] = w[i]
  BY Appended
<1>2. /\ H \subseteq 1..n /\ (w # <<>> => 1 \in H) /\ \A i \in H : w[i].kind = "chunk"
      /\ \A i, j \in H : i < j => w[i].size > 0 /\ ChunkEnd(w, i) < j
      /\ \A i \in H : w[i].size > 0 /\ ChunkEnd(w, i) <= n =>
           w[ChunkEnd(w, i)].kind = "crlf" /\ (ChunkEnd(w, i) < n => ChunkEnd(w, i) + 1 \in H)
  BY <1>1 DEF Framed
<1>3. \A i \in H : w[i].size > 0 /\ ChunkEnd(w, i) <= n
  OBVIOUS
<1>4. 1 \in G
  <2>1. CASE w = <<>>
    <3>1. n = 0
      BY <2>1
    <3> QED BY <3>1
  <2> QED BY <1>2, <2>1
<1> HIDE DEF v, n
<1>5. \A i \in H : v[i] = w[i] /\ ChunkEnd(v, i) = ChunkEnd(w, i)
  BY <1>1, <1>2 DEF ChunkEnd
<1>6. \A i \in H : w[i].size \in Nat /\ ChunkEnd(w, i) \in Nat /\ ChunkEnd(w, i) >= 1 /\ i \in Nat
  BY <1>1, <1>2, Sizes
<1>7. t.size \in Nat /\ ChunkEnd(v, n + 1) > n + 1
  BY <1>1, Sizes
<1>8. G \subseteq DOMAIN v /\ \A i \in G : v[i].kind = "chunk"
  BY <1>1, <1>2, <1>5
<1>9. ASSUME NEW i \in G, NEW j \in G, i < j
      PROVE  v[i].size > 0 /\ ChunkEnd(v, i) < j
  <2>1. i \in H
    BY <1>1, <1>2, <1>9
  <2>2. CASE j \in H
    BY <1>2, <1>5, <1>9, <2>1, <2>2
  <2>3. CASE j = n + 1
    BY <1>1, <1>3, <1>5, <1>6, <2>1, <2>3
  <2> QED BY <2>2, <2>3
<1>10. ASSUME NEW i \in G, ChunkEnd(v, i) <= n + 1
       PROVE  v[ChunkEnd(v, i)].kind = "crlf" /\ (ChunkEnd(v, i) < n + 1 => ChunkEnd(v, i) + 1 \in G)
  <2>1. i \in H
    <3>1. i # n + 1
      BY <1>1, <1>7, <1>10, Sizes
    <3> QED BY <3>1
  <2>2. /\ w[ChunkEnd(w, i)].kind = "crlf" /\ (ChunkEnd(w, i) < n => ChunkEnd(w, i) + 1 \in H)
        /\ ChunkEnd(w, i) \in 1..n
    BY <1>1, <1>2, <1>3, <1>6, <2>1
  <2>3. v[ChunkEnd(v, i)].kind = "crlf"
    BY <1>1, <1>5, <2>1, <2>2
  <2>4. ChunkEnd(w, i) = n \/ ChunkEnd(w, i) < n
    BY <1>1, <2>2
  <2> QED BY <1>1, <1>5, <2>1, <2>2, <2>3, <2>4
<1> HIDE DEF G
<1>11. Framed(v, G)
  BY <1>1, <1>4, <1>8, <1>9, <1>10 DEF Framed
<1> QED BY <1>11 DEF v, G, n

\* The data so far with one token more.
LEMMA DataStays ==
  ASSUME NEW w \in Seq(Tokens), NEW t \in Tokens, NEW H \in SUBSET DOMAIN w,
         \A i \in H : i + w[i].size <= Len(w)
  PROVE  /\ DataAt(Append(w, t), H) = DataAt(w, H)
         /\ DataAt(Append(w, t), H \cup {Len(w) + 1}) = DataAt(w, H)
<1> DEFINE v == Append(w, t)
           n == Len(w)
<1>1. /\ v \in Seq(Tokens) /\ n \in Nat /\ DOMAIN w = 1..n /\ DOMAIN v = 1..(n + 1)
      /\ Len(v) = n + 1 /\ \A i \in 1..n : v[i] = w[i]
  BY Appended
<1> HIDE DEF v, n
<1>2. \A i \in H : v[i] = w[i] /\ w[i].size \in Nat /\ i \in 1..n /\ i + w[i].size <= n
  BY <1>1, Sizes DEF n
<1>3. DataAt(v, H) = DataAt(w, H)
  BY <1>1, <1>2 DEF DataAt, n
<1>4. DataAt(v, H \cup {n + 1}) = DataAt(v, H)
  BY <1>1 DEF DataAt
<1> QED BY <1>3, <1>4 DEF v, n

LEMMA DataGrows ==
  ASSUME NEW w \in Seq(Tokens), NEW t \in Tokens, NEW H \in SUBSET DOMAIN w, NEW l \in H,
         Len(w) < l + w[l].size
  PROVE  /\ Cardinality(DataAt(Append(w, t), H)) = Cardinality(DataAt(w, H)) + 1
<1> DEFINE v == Append(w, t)
           n == Len(w)
<1>1. /\ v \in Seq(Tokens) /\ n \in Nat /\ DOMAIN w = 1..n /\ DOMAIN v = 1..(n + 1)
      /\ Len(v) = n + 1 /\ \A i \in 1..n : v[i] = w[i]
  BY Appended
<1> HIDE DEF v, n
<1>2. \A i \in H : v[i] = w[i] /\ w[i].size \in Nat /\ i \in 1..n
  BY <1>1, Sizes
<1>3. DataAt(v, H) = DataAt(w, H) \cup {n + 1}
  <2>1. n + 1 <= l + w[l].size /\ l < n + 1
    BY <1>1, <1>2 DEF n
  <2> QED BY <1>1, <1>2, <2>1 DEF DataAt, n
<1>4. IsFiniteSet(DataAt(w, H)) /\ n + 1 \notin DataAt(w, H)
  <2>1. DataAt(w, H) \subseteq 1..n
    BY DEF DataAt, n
  <2>2. IsFiniteSet(1..n)
    BY <1>1, FS_Interval
  <2>3. IsFiniteSet(DataAt(w, H))
    BY <2>1, <2>2, FS_Subset
  <2> QED BY <1>1, <2>1, <2>3
<1>5. Cardinality(DataAt(w, H) \cup {n + 1}) = Cardinality(DataAt(w, H)) + 1
  BY <1>4, FS_AddElement
<1> QED BY <1>3, <1>5 DEF v, n

\* A request that ends with a failure says nothing of its body.
LEMMA EndsInFailure ==
  ASSUME ExchangeInv, policy \in Policies, policy' = policy, xstep' = "idle", xresult' # "ok"
  PROVE  ExchangeInv'
<1>1. policy' # None /\ policy' \in Policies
  BY ExchangeAssumption
<1> QED BY <1>1 DEF ExchangeInv, BetweenBodies, HeadAccepted, BytesCounted, ChunksFollowed,
               AcceptedIsExact, Reading

\* A body that goes on.
LEMMA BodyFacts ==
  ASSUME ExchangeInv, xstep \in Reading
  PROVE  /\ xstep # "idle" /\ xresult = None /\ policy \in Policies /\ policy # None
         /\ head \in ResponseHead /\ status_accepted(head) /\ validate_headers(head)
         /\ framing_accepted(head) /\ head.transfer \in {None, "chunked"}
         /\ wire \in Seq(Tokens) /\ \A i \in DOMAIN wire : wire[i].kind \notin Ends
         /\ received \in Nat /\ remaining \in Nat
<1>1. xstep # "idle"
  BY DEF Reading
<1>2. xresult = None /\ policy \in Policies /\ policy # None
  BY <1>1 DEF ExchangeInv, BetweenBodies
<1>3. HeadAccepted
  BY DEF ExchangeInv
<1>4. head.transfer \in {None, "chunked"}
  BY <1>3 DEF HeadAccepted, framing_accepted
<1> QED BY <1>1, <1>2, <1>3, <1>4 DEF HeadAccepted

LEMMA BodyGoesOn ==
  ASSUME ExchangeInv, xstep \in Reading, xstep' \in Reading, NEW t \in Tokens, t.kind \notin Ends,
         wire' = Append(wire, t), UNCHANGED <<policy, head, xresult>>,
         received' \in Nat, remaining' \in Nat,
         xstep' \in {"chunk", "chunkbody", "chunkend", "trailers"} => head.transfer = "chunked",
         xstep' \in {"exact", "stream"} => head.transfer = None,
         BytesCounted', ChunksFollowed'
  PROVE  ExchangeInv'
<1>1. /\ xresult = None /\ policy \in Policies /\ policy # None
      /\ head \in ResponseHead /\ status_accepted(head) /\ validate_headers(head)
      /\ framing_accepted(head)
      /\ wire \in Seq(Tokens) /\ \A i \in DOMAIN wire : wire[i].kind \notin Ends
  BY BodyFacts
<1>2. BetweenBodies'
  BY <1>1 DEF BetweenBodies, Reading
<1>3. wire' \in Seq(Tokens) /\ \A i \in DOMAIN wire' : wire'[i].kind \notin Ends
  <2>1. /\ wire' \in Seq(Tokens) /\ Len(wire) \in Nat /\ DOMAIN wire = 1..Len(wire)
        /\ DOMAIN wire' = 1..(Len(wire) + 1)
        /\ wire'[Len(wire) + 1] = t /\ \A i \in 1..Len(wire) : wire'[i] = wire[i]
    BY <1>1, Appended
  <2> QED BY <1>1, <2>1
<1>4. HeadAccepted'
  BY <1>1, <1>3 DEF HeadAccepted, status_accepted, validate_headers, framing_accepted
<1>5. AcceptedIsExact'
  BY <1>1, ExchangeAssumption DEF AcceptedIsExact
<1> QED BY <1>2, <1>4, <1>5 DEF ExchangeInv

\* A body that is complete.
LEMMA BodyEnds ==
  ASSUME ExchangeInv, xstep \in Reading, NEW t \in Tokens, wire' = Append(wire, t), Complete,
         UNCHANGED <<policy, head, received>>,
         IF head.transfer # None
           THEN \E H \in SUBSET (1..Len(wire')) :
                  ChunkedMessage(wire', H) /\ received = Cardinality(DataAt(wire', H))
           ELSE IF head.length # None THEN SizedMessage(head, wire') /\ received = head.length
           ELSE StreamMessage(wire') /\ received = Len(wire') - 1
  PROVE  ExchangeInv'
<1>1. /\ policy \in Policies
      /\ head \in ResponseHead /\ status_accepted(head) /\ validate_headers(head)
      /\ framing_accepted(head) /\ head.transfer \in {None, "chunked"}
      /\ wire \in Seq(Tokens) /\ \A i \in DOMAIN wire : wire[i].kind \notin Ends
      /\ received \in Nat
  BY BodyFacts
<1>2. xstep' = "idle"
  BY DEF Complete, EndExchange
<1>3. CASE received = 0 /\ policy = "bytes"
  <2>1. xresult' = "OperationalApiContractFailure"
    BY <1>3 DEF Complete, EndExchange
  <2> QED BY <1>1, <1>2, <2>1, EndsInFailure
<1>4. CASE ~ (received = 0 /\ policy = "bytes")
  <2>1. policy' # None /\ policy' \in Policies
    BY <1>1, ExchangeAssumption
  <2>2. BetweenBodies'
    BY <1>2, <2>1 DEF BetweenBodies
  <2>3. (HeadAccepted /\ BytesCounted /\ ChunksFollowed)'
    BY <1>2 DEF HeadAccepted, BytesCounted, ChunksFollowed, Reading
  <2>4. \A i \in 1..(Len(wire') - 1) : wire'[i].kind \notin Ends
    <3>1. /\ Len(wire) \in Nat /\ DOMAIN wire = 1..Len(wire) /\ Len(wire') = Len(wire) + 1
          /\ \A i \in 1..Len(wire) : wire'[i] = wire[i]
      BY <1>1, Appended
    <3>2. 1..(Len(wire') - 1) = DOMAIN wire
      BY <3>1
    <3> QED BY <1>1, <3>1, <3>2
  <2>5. /\ head.status = 200 \/ (head.status = 201 /\ policy = "create")
        /\ head.media = "expected" /\ head.encoding = "identity"
        /\ head.transfer = None \/ head.length = None
    BY <1>1 DEF status_accepted, validate_headers, framing_accepted
  <2>6. policy = "bytes" => received > 0
    BY <1>1, <1>4
  <2>7. AcceptedIsExact'
    BY <2>4, <2>5, <2>6 DEF AcceptedIsExact
  <2> QED BY <2>2, <2>3, <2>7 DEF ExchangeInv
<1> QED BY <1>3, <1>4

LEMMA ExchangeInvInit == ExchangeInit => ExchangeInv
BY ExchangeAssumption DEF ExchangeInit, ExchangeInv, BetweenBodies, HeadAccepted, BytesCounted,
   ChunksFollowed, AcceptedIsExact, Reading

LEMMA RequestKeeps ==
  ASSUME ExchangeInv, NEW p \in Policies, policy = None, request_with_policy(p)
  PROVE  ExchangeInv'
<1>1. /\ head = None /\ received = 0 /\ wire = <<>> /\ trailers = {}
      /\ head' = None /\ received' = 0 /\ wire' = <<>> /\ trailers' = {}
      /\ policy' = p /\ p # None
  BY ExchangeAssumption DEF request_with_policy, ExchangeInv, BetweenBodies
<1>2. \/ xstep' = "connect" /\ xresult' = None
      \/ xstep' = "idle" /\ xresult' = "AuthenticationFailure"
  BY DEF request_with_policy, EndExchange
<1> QED BY <1>1, <1>2, ExchangeAssumption DEF ExchangeInv, BetweenBodies, HeadAccepted, BytesCounted,
               ChunksFollowed, AcceptedIsExact, Reading

LEMMA ConnectKeeps ==
  ASSUME ExchangeInv, connect
  PROVE  ExchangeInv'
<1>1. /\ policy \in Policies /\ policy # None /\ xresult = None
      /\ head = None /\ received = 0 /\ wire = <<>> /\ trailers = {}
  BY DEF connect, ExchangeInv, BetweenBodies
<1>2. CASE xstep' = "head" /\ xresult' = xresult
  BY <1>1, <1>2, ExchangeAssumption DEF connect, ExchangeInv, BetweenBodies, HeadAccepted, BytesCounted,
     ChunksFollowed, AcceptedIsExact, Reading
<1>3. CASE \E e \in {"TransportFailure", "OperationalApiContractFailure"} : EndExchange(e)
  BY <1>1, <1>3, EndsInFailure DEF connect, EndExchange
<1> QED BY <1>2, <1>3 DEF connect

LEMMA DeadlineKeeps ==
  ASSUME ExchangeInv, Deadline
  PROVE  ExchangeInv'
<1>1. policy \in Policies
  BY DEF Deadline, ExchangeInv, BetweenBodies
<1> QED BY <1>1, EndsInFailure DEF Deadline, EndExchange

LEMMA NextRequestKeeps ==
  ASSUME ExchangeInv, NextRequest
  PROVE  ExchangeInv'
BY ExchangeAssumption DEF NextRequest, ExchangeInv, BetweenBodies, HeadAccepted, BytesCounted,
   ChunksFollowed, AcceptedIsExact, Reading

LEMMA ReadHeadKeeps ==
  ASSUME ExchangeInv, NEW h \in ResponseHead, read_head(h)
  PROVE  ExchangeInv'
<1>1. /\ policy \in Policies /\ policy # None /\ xresult = None
      /\ received = 0 /\ wire = <<>> /\ trailers = {}
  BY DEF read_head, ExchangeInv, BetweenBodies
<1>2. head' = h /\ UNCHANGED <<policy, received, wire, trailers>>
  BY DEF read_head
<1>3. CASE ~ status_accepted(h)
  <2>1. xstep' = "idle" /\ xresult' # "ok"
    BY <1>3 DEF read_head, EndExchange, status_failure
  <2> QED BY <1>1, <1>2, <2>1, EndsInFailure
<1>4. CASE status_accepted(h) /\ (~ validate_headers(h) \/ ~ framing_accepted(h))
  <2>1. xstep' = "idle" /\ xresult' # "ok"
    BY <1>4 DEF read_head, EndExchange
  <2> QED BY <1>1, <1>2, <2>1, EndsInFailure
<1>5. CASE status_accepted(h) /\ validate_headers(h) /\ framing_accepted(h)
  <2>1. /\ xstep' = IF h.transfer = "chunked" THEN "chunk"
                    ELSE IF h.length = None THEN "stream"
                    ELSE IF h.length = 0 THEN "close" ELSE "exact"
        /\ remaining' = IF h.length = None THEN 0 ELSE h.length
        /\ xresult' = None
    BY <1>1, <1>5 DEF read_head
  <2>2. h.transfer \in {None, "chunked"} /\ (h.length # None => h.length \in Nat)
    BY <1>5, ExchangeAssumption DEF framing_accepted, ResponseHead
  <2>3. None # "chunked"
    BY ExchangeAssumption
  <2>4. BetweenBodies'
    BY <1>1, <1>2, <2>1 DEF BetweenBodies, Reading
  <2>5. HeadAccepted'
    <3>1. status_accepted(h)' /\ wire' \in Seq(Tokens) /\ DOMAIN wire' = {} /\ remaining' \in Nat
      BY <1>1, <1>2, <1>5, <2>1, <2>2 DEF status_accepted
    <3> QED BY <1>1, <1>2, <1>5, <2>1, <2>2, <2>3, <3>1
            DEF HeadAccepted, status_accepted, validate_headers, framing_accepted
  <2>6. BytesCounted'
    <3>1. Len(wire') = 0 /\ received' = 0
      BY <1>1, <1>2
    <3> QED BY <1>2, <2>1, <2>2, <2>3, <3>1 DEF BytesCounted
  <2>7. ChunksFollowed'
    <3> SUFFICES ASSUME h.transfer = "chunked"
                 PROVE  ChunksFollowed'
      BY <1>2 DEF ChunksFollowed
    <3>1. xstep' = "chunk" /\ wire' = <<>> /\ received' = 0
      BY <1>1, <1>2, <2>1
    <3>2. Framed(wire', {})
      BY <3>1 DEF Framed
    <3>3. AtChunk(wire, {}, 0)'
      BY <3>1 DEF AtChunk
    <3>4. DataAt(wire', {}) = {} /\ Cardinality({}) = 0
      BY FS_EmptySet DEF DataAt
    <3>5. {} \in SUBSET DOMAIN wire' /\ 0 \in Nat
      OBVIOUS
    <3> QED BY <3>1, <3>2, <3>3, <3>4, <3>5 DEF ChunksFollowed
  <2>8. AcceptedIsExact'
    BY <2>1, ExchangeAssumption DEF AcceptedIsExact
  <2> QED BY <2>4, <2>5, <2>6, <2>7, <2>8 DEF ExchangeInv
<1> QED BY <1>3, <1>4, <1>5

\* The chunk that is read, or was read last, is the last of the headers.
LEMMA OpenIsLast ==
  ASSUME NEW w \in Seq(Tokens), NEW H, Framed(w, H), NEW l \in H,
         w[l].size = 0 \/ ChunkEnd(w, l) >= Len(w)
  PROVE  /\ w # <<>> /\ H \in SUBSET DOMAIN w /\ l \in 1..Len(w) /\ Len(w) \in Nat
         /\ w[l].size \in Nat /\ ChunkEnd(w, l) = l + w[l].size + 1
         /\ \A i \in H : i = l \/ /\ i < l /\ w[i].size > 0 /\ ChunkEnd(w, i) < l
                                  /\ w[i].size \in Nat /\ i \in Nat
                                  /\ ChunkEnd(w, i) = i + w[i].size + 1
<1>1. /\ H \in SUBSET DOMAIN w /\ Len(w) \in Nat /\ DOMAIN w = 1..Len(w)
      /\ \A i, j \in H : i < j => w[i].size > 0 /\ ChunkEnd(w, i) < j
  BY DEF Framed
<1>2. \A i \in H : /\ w[i].size \in Nat /\ ChunkEnd(w, i) \in Nat /\ i \in 1..Len(w)
                   /\ ChunkEnd(w, i) = i + w[i].size + 1
  BY <1>1, Sizes
<1>3. w # <<>>
  BY <1>1
<1>4. ASSUME NEW i \in H, i # l
      PROVE  i < l
  <2>1. ~ l < i
    BY <1>1, <1>2
  <2> QED BY <1>2, <1>4, <2>1
<1> QED BY <1>1, <1>2, <1>3, <1>4

\* The chunks of the body that is read.
LEMMA ChunkFacts ==
  ASSUME ExchangeInv, xstep \in Reading, head.transfer = "chunked"
  PROVE  \E H \in SUBSET DOMAIN wire, l \in Nat :
           Framed(wire, H) /\ AtChunk(wire, H, l) /\ received = Cardinality(DataAt(wire, H))
BY DEF ExchangeInv, ChunksFollowed

\* A body that is not framed by chunks has none to follow.
LEMMA NoChunks ==
  ASSUME head.transfer = None, head' = head
  PROVE  ChunksFollowed'
BY ExchangeAssumption DEF ChunksFollowed

LEMMA NoCount ==
  ASSUME head.transfer = "chunked", head' = head
  PROVE  BytesCounted'
BY ExchangeAssumption DEF BytesCounted

LEMMA ReadExactKeeps ==
  ASSUME ExchangeInv, NEW t \in Tokens, read_exact_body(t)
  PROVE  ExchangeInv'
<1> USE DEF Consume
<1>1. /\ xstep \in Reading /\ wire' = Append(wire, t) /\ UNCHANGED <<policy, head>>
  BY DEF read_exact_body, Reading
<1>2. /\ xresult = None /\ policy \in Policies /\ wire \in Seq(Tokens)
      /\ received \in Nat /\ remaining \in Nat
  BY <1>1, BodyFacts
<1>3. CASE t.kind \in Ends \/ received = ByteLimit
  <2>1. xstep' = "idle" /\ xresult' # "ok"
    BY <1>3 DEF read_exact_body, EndExchange
  <2> QED BY <1>1, <1>2, <2>1, EndsInFailure
<1>4. CASE t.kind \notin Ends /\ received # ByteLimit
  <2>1. /\ received' = received + 1 /\ remaining' = remaining - 1 /\ xresult' = xresult
        /\ xstep' = IF remaining > 1 THEN xstep
                    ELSE IF xstep = "exact" THEN "close" ELSE "chunkend"
    BY <1>4 DEF read_exact_body
  <2>2. Len(wire) \in Nat /\ Len(wire') = Len(wire) + 1
    BY <1>1, <1>2, Appended
  <2>3. CASE xstep = "exact"
    <3>1. /\ head.transfer = None /\ received = Len(wire) /\ head.length # None
          /\ remaining > 0 /\ received + remaining = head.length
      BY <1>1, <2>3 DEF ExchangeInv, HeadAccepted, BytesCounted
    <3>2. /\ xstep' \in {"exact", "close"} /\ remaining' \in Nat /\ received' \in Nat
          /\ received' = Len(wire')
          /\ xstep' = "exact" => remaining' > 0 /\ received' + remaining' = head.length
          /\ xstep' = "close" => received' = head.length
      BY <1>2, <2>1, <2>2, <2>3, <3>1
    <3>3. BytesCounted'
      BY <1>1, <3>1, <3>2 DEF BytesCounted
    <3>4. ChunksFollowed'
      BY <1>1, <3>1, NoChunks
    <3>5. xstep' \in Reading
      BY <3>2 DEF Reading
    <3> QED BY <1>1, <1>4, <2>1, <3>1, <3>2, <3>3, <3>4, <3>5, BodyGoesOn
  <2>4. CASE xstep = "chunkbody"
    <3>1. head.transfer = "chunked"
      BY <1>1, <2>4 DEF ExchangeInv, HeadAccepted
    <3>2. PICK H \in SUBSET DOMAIN wire, l \in Nat :
            Framed(wire, H) /\ AtChunk(wire, H, l) /\ received = Cardinality(DataAt(wire, H))
      BY <1>1, <3>1, ChunkFacts
    <3>3. l \in H /\ remaining > 0 /\ Len(wire) + remaining = l + wire[l].size
      BY <2>4, <3>2 DEF AtChunk
    <3>4. wire[l].size \in Nat /\ ChunkEnd(wire, l) = l + wire[l].size + 1
      BY <1>2, <3>2, <3>3, Sizes
    <3>5. ChunkEnd(wire, l) > Len(wire) + 1 /\ ChunkEnd(wire, l) >= Len(wire)
      BY <1>2, <2>2, <3>3, <3>4
    <3>6. /\ wire # <<>> /\ l \in 1..Len(wire)
          /\ \A i \in H : i = l \/ (i < l /\ wire[i].size > 0 /\ ChunkEnd(wire, i) < l
                                    /\ ChunkEnd(wire, i) = i + wire[i].size + 1
                                    /\ wire[i].size \in Nat /\ i \in Nat)
      BY <1>2, <3>2, <3>3, <3>5, OpenIsLast
    <3>7. \A i \in H : ChunkEnd(wire, i) # Len(wire) /\ ChunkEnd(wire, i) # Len(wire) + 1
      BY <2>2, <3>4, <3>5, <3>6
    <3>8. Framed(wire', H)
      BY <1>1, <1>2, <3>2, <3>6, <3>7, FramedGoesOn
    <3>9. Cardinality(DataAt(wire', H)) = Cardinality(DataAt(wire, H)) + 1
      BY <1>1, <1>2, <2>2, <3>2, <3>3, DataGrows
    <3>10. wire'[l] = wire[l] /\ DOMAIN wire' = 1..(Len(wire) + 1) /\ DOMAIN wire = 1..Len(wire)
      BY <1>1, <1>2, <3>6, Appended
    <3>11. /\ xstep' \in {"chunkbody", "chunkend"} /\ remaining' \in Nat /\ received' \in Nat
           /\ xstep' = "chunkbody" => /\ remaining' > 0
                                      /\ Len(wire') + remaining' = l + wire[l].size
           /\ xstep' = "chunkend" => Len(wire') = l + wire[l].size
           /\ wire[l].size > 0
      BY <1>2, <2>1, <2>2, <2>4, <3>3, <3>4, <3>6
    <3>12. AtChunk(wire, H, l)'
      BY <3>3, <3>10, <3>11 DEF AtChunk
    <3>13. H \in SUBSET DOMAIN wire'
      BY <2>2, <3>2, <3>10
    <3>14. ChunksFollowed'
      BY <2>1, <3>2, <3>8, <3>9, <3>12, <3>13 DEF ChunksFollowed
    <3>15. BytesCounted'
      BY <1>1, <3>1, NoCount
    <3>16. xstep' \in Reading
      BY <3>11 DEF Reading
    <3> QED BY <1>1, <1>4, <2>1, <3>1, <3>11, <3>14, <3>15, <3>16, BodyGoesOn
  <2> QED BY <2>3, <2>4 DEF read_exact_body
<1> QED BY <1>3, <1>4

LEMMA ToEofKeeps ==
  ASSUME ExchangeInv, NEW t \in Tokens, collect_to_eof(t)
  PROVE  ExchangeInv'
<1> USE DEF Consume
<1>1. /\ xstep \in Reading /\ xstep = "stream" /\ wire' = Append(wire, t)
      /\ UNCHANGED <<policy, head, remaining>>
  BY DEF collect_to_eof, Reading
<1>2. /\ xresult = None /\ policy \in Policies /\ wire \in Seq(Tokens)
      /\ received \in Nat /\ remaining \in Nat
  BY <1>1, BodyFacts
<1>3. head.transfer = None /\ received = Len(wire) /\ head.length = None
  BY <1>1 DEF ExchangeInv, HeadAccepted, BytesCounted
<1>4. /\ Len(wire) \in Nat /\ Len(wire') = Len(wire) + 1 /\ wire'[Len(wire')] = t /\ wire' # <<>>
  BY <1>1, <1>2, Appended
<1>5. CASE t.kind = "eof"
  <2>1. Complete /\ received' = received
    BY <1>5 DEF collect_to_eof
  <2>2. StreamMessage(wire') /\ received = Len(wire') - 1
    BY <1>3, <1>4, <1>5 DEF StreamMessage
  <2> QED BY <1>1, <1>3, <2>1, <2>2, BodyEnds
<1>6. CASE t.kind # "eof" /\ (t.kind = "cut" \/ received = ByteLimit)
  <2>1. xstep' = "idle" /\ xresult' # "ok"
    BY <1>6 DEF collect_to_eof, EndExchange
  <2> QED BY <1>1, <1>2, <2>1, EndsInFailure
<1>7. CASE t.kind \notin Ends /\ received # ByteLimit
  <2>1. received' = received + 1 /\ xstep' = "stream" /\ xresult' = xresult
    BY <1>1, <1>7 DEF collect_to_eof, Ends
  <2>2. received' \in Nat /\ received' = Len(wire')
    BY <1>2, <1>3, <1>4, <2>1
  <2>3. BytesCounted'
    BY <1>1, <1>3, <2>1, <2>2 DEF BytesCounted
  <2>4. ChunksFollowed'
    BY <1>1, <1>3, NoChunks
  <2>5. xstep' \in Reading
    BY <2>1 DEF Reading
  <2> QED BY <1>1, <1>2, <1>3, <1>7, <2>1, <2>2, <2>3, <2>4, <2>5, BodyGoesOn
<1> QED BY <1>5, <1>6, <1>7 DEF Ends

LEMMA CloseKeeps ==
  ASSUME ExchangeInv, NEW t \in Tokens, require_completed_close(t)
  PROVE  ExchangeInv'
<1> USE DEF Consume
<1>1. /\ xstep \in Reading /\ xstep = "close" /\ wire' = Append(wire, t)
      /\ UNCHANGED <<policy, head, received>>
  BY DEF require_completed_close, Reading
<1>2. /\ policy \in Policies /\ head.transfer \in {None, "chunked"} /\ wire \in Seq(Tokens)
      /\ received \in Nat /\ head \in ResponseHead
  BY <1>1, BodyFacts
<1>3. /\ Len(wire) \in Nat /\ Len(wire') = Len(wire) + 1 /\ DOMAIN wire = 1..Len(wire)
      /\ wire'[Len(wire) + 1] = t /\ \A i \in 1..Len(wire) : wire'[i] = wire[i]
  BY <1>1, <1>2, Appended
<1>4. CASE t.kind \notin Ends
  <2>1. xstep' = "idle" /\ xresult' # "ok"
    BY <1>4 DEF require_completed_close, EndExchange
  <2> QED BY <1>1, <1>2, <2>1, EndsInFailure
<1>5. CASE t.kind \in Ends /\ head.transfer = None
  <2>1. Complete
    BY <1>5 DEF require_completed_close
  <2>2. head.length # None /\ received = head.length /\ received = Len(wire)
    BY <1>1, <1>5 DEF ExchangeInv, BytesCounted
  <2>3. SizedMessage(head, wire')
    BY <1>3, <1>5, <2>2 DEF SizedMessage
  <2> QED BY <1>1, <1>5, <2>1, <2>2, <2>3, BodyEnds
<1>6. CASE t.kind \in Ends /\ head.transfer = "chunked"
  <2>1. Complete /\ head.transfer # None
    BY <1>6, ExchangeAssumption DEF require_completed_close
  <2>2. PICK H \in SUBSET DOMAIN wire, l \in Nat :
          Framed(wire, H) /\ AtChunk(wire, H, l) /\ received = Cardinality(DataAt(wire, H))
    BY <1>1, <1>6, ChunkFacts
  <2>3. /\ l \in H /\ wire[l].size = 0 /\ l < Len(wire) /\ wire[Len(wire)].kind = "blank"
        /\ \A j \in (l + 1)..(Len(wire) - 1) : wire[j].kind = "trailer"
    BY <1>1, <2>2 DEF AtChunk
  <2>4. /\ wire # <<>> /\ l \in 1..Len(wire) /\ ChunkEnd(wire, l) = l + wire[l].size + 1
        /\ \A i \in H : i = l \/ /\ i < l /\ wire[i].size > 0 /\ ChunkEnd(wire, i) < l
                                 /\ wire[i].size \in Nat /\ i \in Nat
                                 /\ ChunkEnd(wire, i) = i + wire[i].size + 1
    BY <1>2, <2>2, <2>3, OpenIsLast
  <2>5. \A i \in H : i + wire[i].size <= Len(wire)
    BY <1>3, <2>3, <2>4
  <2>6. DataAt(wire', H) = DataAt(wire, H)
    BY <1>1, <1>2, <2>2, <2>5, DataStays
  <2>7. ChunkedMessage(wire', H)
    <3>1. /\ 1 \in H /\ \A i \in H : wire[i].kind = "chunk"
          /\ \A i, j \in H : i < j => wire[i].size > 0 /\ ChunkEnd(wire, i) < j
          /\ \A i \in H : wire[i].size > 0 /\ ChunkEnd(wire, i) <= Len(wire) =>
               /\ wire[ChunkEnd(wire, i)].kind = "crlf"
               /\ ChunkEnd(wire, i) < Len(wire) => ChunkEnd(wire, i) + 1 \in H
      BY <2>2, <2>4 DEF Framed
    <3>2. \A i \in H : wire'[i] = wire[i] /\ ChunkEnd(wire', i) = ChunkEnd(wire, i)
      BY <1>3, <2>2 DEF ChunkEnd
    <3>3. \A i \in H : ChunkEnd(wire, i) < Len(wire')
      BY <1>3, <2>3, <2>4
    <3>4. ASSUME NEW i \in H, wire[i].size > 0
          PROVE  wire'[ChunkEnd(wire, i)].kind = "crlf" /\ ChunkEnd(wire, i) + 1 \in H
      <4>1. i # l
        BY <2>3, <3>4
      <4>2. ChunkEnd(wire, i) < Len(wire) /\ ChunkEnd(wire, i) \in 1..Len(wire)
        BY <1>3, <2>3, <2>4, <4>1
      <4> QED BY <1>3, <3>1, <3>4, <4>2
    <3>5. /\ wire'[l].size = 0
          /\ \A j \in (l + 1)..(Len(wire') - 2) : wire'[j].kind = "trailer"
          /\ wire'[Len(wire') - 1].kind = "blank" /\ wire'[Len(wire')].kind \in Ends
      <4>1. Len(wire') - 2 = Len(wire) - 1 /\ Len(wire') - 1 = Len(wire) /\ Len(wire) \in 1..Len(wire)
        BY <1>3, <2>3, <2>4
      <4>2. \A j \in (l + 1)..(Len(wire) - 1) : wire'[j] = wire[j]
        BY <1>3, <2>4
      <4> QED BY <1>3, <1>6, <2>3, <2>4, <3>2, <4>1, <4>2
    <3>6. \A i \in H : wire'[i].kind = "chunk" /\ ChunkEnd(wire', i) < Len(wire')
      BY <3>1, <3>2, <3>3
    <3>7. \A i \in H : wire'[i].size > 0 =>
            wire'[ChunkEnd(wire', i)].kind = "crlf" /\ ChunkEnd(wire', i) + 1 \in H
      BY <3>2, <3>4
    <3>8. \A i, j \in H : i < j => wire'[i].size > 0 /\ ChunkEnd(wire', i) < j
      BY <3>1, <3>2
    <3> QED BY <2>3, <3>1, <3>5, <3>6, <3>7, <3>8, Zenon DEF ChunkedMessage
  <2>8. H \in SUBSET (1..Len(wire'))
    BY <1>3, <2>2
  <2> QED BY <1>1, <2>1, <2>2, <2>6, <2>7, <2>8, BodyEnds
<1> QED BY <1>2, <1>4, <1>5, <1>6

\* The header of a chunk, read where one is expected.
LEMMA HeaderKeeps ==
  ASSUME ExchangeInv, NEW t \in Tokens, xstep = "chunk", t.kind = "chunk", wire' = Append(wire, t),
         remaining' = t.size, xstep' = IF t.size = 0 THEN "trailers" ELSE "chunkbody",
         UNCHANGED <<policy, head, received, trailers, xresult>>
  PROVE  ExchangeInv'
<1>1. xstep \in Reading /\ xstep' \in Reading
  BY DEF Reading
<1>2. /\ policy \in Policies /\ wire \in Seq(Tokens) /\ received \in Nat /\ head.transfer = "chunked"
  BY <1>1, BodyFacts DEF ExchangeInv, HeadAccepted
<1>3. /\ Len(wire) \in Nat /\ Len(wire') = Len(wire) + 1 /\ DOMAIN wire = 1..Len(wire)
      /\ DOMAIN wire' = 1..(Len(wire) + 1) /\ wire'[Len(wire) + 1] = t /\ wire' \in Seq(Tokens)
  BY <1>2, Appended
<1>4. t.size \in Nat /\ t.kind \notin Ends
  BY ExchangeAssumption DEF Tokens, Ends
<1>5. PICK H \in SUBSET DOMAIN wire, l \in Nat :
        Framed(wire, H) /\ AtChunk(wire, H, l) /\ received = Cardinality(DataAt(wire, H))
  BY <1>1, <1>2, ChunkFacts
<1>6. \A i \in H : wire[i].size > 0 /\ ChunkEnd(wire, i) <= Len(wire) /\ i + wire[i].size <= Len(wire)
  <2>1. CASE wire = <<>>
    <3>1. H = {}
      BY <1>3, <1>5, <2>1
    <3> QED BY <3>1
  <2>2. CASE l \in H /\ wire[l].size > 0 /\ ChunkEnd(wire, l) = Len(wire)
    <3>1. ChunkEnd(wire, l) >= Len(wire)
      BY <1>3, <2>2
    <3>2. /\ l \in 1..Len(wire) /\ wire[l].size \in Nat /\ ChunkEnd(wire, l) = l + wire[l].size + 1
          /\ \A i \in H : i = l \/ /\ i < l /\ wire[i].size > 0 /\ ChunkEnd(wire, i) < l
                                   /\ wire[i].size \in Nat /\ i \in Nat
                                   /\ ChunkEnd(wire, i) = i + wire[i].size + 1
      BY <1>2, <1>5, <2>2, <3>1, OpenIsLast
    <3> SUFFICES ASSUME NEW i \in H
                 PROVE  /\ wire[i].size > 0 /\ ChunkEnd(wire, i) <= Len(wire)
                        /\ i + wire[i].size <= Len(wire)
      OBVIOUS
    <3>3. CASE i = l
      <4>1. Len(wire) = l + wire[l].size + 1
        BY <2>2, <3>2
      <4> QED BY <1>3, <2>2, <3>2, <3>3, <4>1
    <3>4. CASE i # l
      <4>1. /\ i < l /\ wire[i].size > 0 /\ i + wire[i].size + 1 < l /\ wire[i].size \in Nat
            /\ i \in Nat /\ ChunkEnd(wire, i) = i + wire[i].size + 1
        BY <3>2, <3>4
      <4> QED BY <1>3, <3>2, <4>1
    <3> QED BY <3>3, <3>4
  <2> QED BY <1>5, <2>1, <2>2 DEF AtChunk
<1>7. Framed(wire', H \cup {Len(wire) + 1})
  BY <1>2, <1>5, <1>6, FramedByHeader
<1>8. DataAt(wire', H \cup {Len(wire) + 1}) = DataAt(wire, H)
  BY <1>2, <1>5, <1>6, DataStays
<1>9. PICK m \in Nat : m = Len(wire) + 1
  BY <1>3
<1>10. AtChunk(wire, H \cup {m}, m)'
  <2>1. /\ Len(wire') = m /\ wire'[m] = t /\ (t.size # 0 => t.size > 0)
        /\ (m + 1)..Len(wire') = {}
    BY <1>3, <1>4, <1>9
  <2> QED BY <2>1 DEF AtChunk
<1>11. ChunksFollowed'
  <2>1. H \cup {m} \in SUBSET DOMAIN wire'
    BY <1>3, <1>5, <1>9
  <2> QED BY <1>5, <1>7, <1>8, <1>9, <1>10, <2>1 DEF ChunksFollowed
<1>12. BytesCounted'
  BY <1>2, NoCount
<1> QED BY <1>1, <1>2, <1>4, <1>11, <1>12, BodyGoesOn

\* The line end after the data of a chunk.
LEMMA LineEndKeeps ==
  ASSUME ExchangeInv, NEW t \in Tokens, xstep = "chunkend", t.kind = "crlf",
         wire' = Append(wire, t), xstep' = "chunk",
         UNCHANGED <<policy, head, received, remaining, trailers, xresult>>
  PROVE  ExchangeInv'
<1>1. xstep \in Reading /\ xstep' \in Reading /\ t.kind \notin Ends
  BY DEF Reading, Ends
<1>2. /\ policy \in Policies /\ wire \in Seq(Tokens) /\ received \in Nat /\ remaining \in Nat
      /\ head.transfer = "chunked"
  BY <1>1, BodyFacts DEF ExchangeInv, HeadAccepted
<1>3. /\ Len(wire) \in Nat /\ Len(wire') = Len(wire) + 1 /\ DOMAIN wire = 1..Len(wire)
      /\ DOMAIN wire' = 1..(Len(wire) + 1) /\ \A i \in 1..Len(wire) : wire'[i] = wire[i]
  BY <1>2, Appended
<1>4. PICK H \in SUBSET DOMAIN wire, l \in Nat :
        Framed(wire, H) /\ AtChunk(wire, H, l) /\ received = Cardinality(DataAt(wire, H))
  BY <1>1, <1>2, ChunkFacts
<1>5. l \in H /\ wire[l].size > 0 /\ Len(wire) = l + wire[l].size
  BY <1>4 DEF AtChunk
<1>6. ChunkEnd(wire, l) = Len(wire) + 1 /\ ChunkEnd(wire, l) >= Len(wire)
  BY <1>2, <1>3, <1>4, <1>5, Sizes
<1>7. /\ wire # <<>> /\ l \in 1..Len(wire) /\ wire[l].size \in Nat
      /\ \A i \in H : i = l \/ /\ i < l /\ wire[i].size > 0 /\ ChunkEnd(wire, i) < l
                               /\ wire[i].size \in Nat /\ i \in Nat
                               /\ ChunkEnd(wire, i) = i + wire[i].size + 1
  BY <1>2, <1>4, <1>5, <1>6, OpenIsLast
<1>8. \A i \in H : ChunkEnd(wire, i) # Len(wire) /\ i + wire[i].size <= Len(wire)
  <2> SUFFICES ASSUME NEW i \in H
               PROVE  ChunkEnd(wire, i) # Len(wire) /\ i + wire[i].size <= Len(wire)
    OBVIOUS
  <2>1. CASE i = l
    BY <1>3, <1>5, <1>6, <2>1
  <2>2. CASE i # l
    <3>1. /\ i + wire[i].size + 1 < l /\ wire[i].size \in Nat
          /\ i \in Nat /\ ChunkEnd(wire, i) = i + wire[i].size + 1
      BY <1>7, <2>2
    <3> QED BY <1>3, <1>7, <3>1
  <2> QED BY <2>1, <2>2
<1>9. Framed(wire', H)
  BY <1>2, <1>4, <1>7, <1>8, FramedGoesOn
<1>10. DataAt(wire', H) = DataAt(wire, H)
  BY <1>2, <1>4, <1>8, DataStays
<1>11. wire'[l] = wire[l] /\ ChunkEnd(wire', l) = Len(wire')
  BY <1>3, <1>6, <1>7 DEF ChunkEnd
<1>12. AtChunk(wire, H, l)'
  BY <1>5, <1>11 DEF AtChunk
<1>13. H \in SUBSET DOMAIN wire'
  BY <1>3, <1>4
<1>14. ChunksFollowed'
  BY <1>4, <1>9, <1>10, <1>12, <1>13 DEF ChunksFollowed
<1>15. BytesCounted'
  BY <1>2, NoCount
<1> QED BY <1>1, <1>2, <1>14, <1>15, BodyGoesOn

\* A line after the last chunk: a trailer, or the blank line after those.
LEMMA TrailerKeeps ==
  ASSUME ExchangeInv, NEW t \in Tokens, xstep = "trailers", t.kind \notin Ends,
         wire' = Append(wire, t), UNCHANGED <<policy, head, received, remaining, xresult>>,
         \/ xstep' = "trailers" /\ trailers' = trailers \cup {t.kind}
         \/ xstep' = "close" /\ trailers \subseteq {"trailer"} /\ t.kind = "blank"
  PROVE  ExchangeInv'
<1>1. xstep \in Reading /\ xstep' \in Reading /\ xstep' \in {"trailers", "close"}
  BY DEF Reading
<1>2. /\ policy \in Policies /\ wire \in Seq(Tokens) /\ received \in Nat /\ remaining \in Nat
      /\ head.transfer = "chunked"
  BY <1>1, BodyFacts DEF ExchangeInv, HeadAccepted
<1>3. /\ Len(wire) \in Nat /\ Len(wire') = Len(wire) + 1 /\ DOMAIN wire = 1..Len(wire)
      /\ DOMAIN wire' = 1..(Len(wire) + 1) /\ wire'[Len(wire) + 1] = t
      /\ \A i \in 1..Len(wire) : wire'[i] = wire[i]
  BY <1>2, Appended
<1>4. PICK H \in SUBSET DOMAIN wire, l \in Nat :
        Framed(wire, H) /\ AtChunk(wire, H, l) /\ received = Cardinality(DataAt(wire, H))
  BY <1>1, <1>2, ChunkFacts
<1>5. l \in H /\ wire[l].size = 0 /\ \A j \in (l + 1)..Len(wire) : wire[j].kind \in trailers
  BY <1>4 DEF AtChunk
<1>6. /\ wire # <<>> /\ l \in 1..Len(wire)
      /\ \A i \in H : i = l \/ /\ i < l /\ wire[i].size > 0 /\ ChunkEnd(wire, i) < l
                               /\ wire[i].size \in Nat /\ i \in Nat
                               /\ ChunkEnd(wire, i) = i + wire[i].size + 1
  BY <1>2, <1>4, <1>5, OpenIsLast
<1>7. \A i \in H : /\ i + wire[i].size <= Len(wire)
                   /\ wire[i].size > 0 => ChunkEnd(wire, i) < Len(wire)
  BY <1>3, <1>5, <1>6
<1>8. \A i \in H : wire[i].size > 0 => /\ ChunkEnd(wire, i) # Len(wire)
                                       /\ ChunkEnd(wire, i) # Len(wire) + 1
  BY <1>3, <1>5, <1>6
<1>9. Framed(wire', H)
  BY <1>2, <1>4, <1>6, <1>8, FramedGoesOn
<1>10. DataAt(wire', H) = DataAt(wire, H)
  BY <1>2, <1>4, <1>7, DataStays
<1>11. \A j \in (l + 1)..Len(wire) : wire'[j].kind \in trailers
  BY <1>3, <1>5, <1>6
<1>12. AtChunk(wire, H, l)'
  <2>1. wire'[l].size = 0 /\ l < Len(wire') /\ Len(wire') - 1 = Len(wire)
    BY <1>3, <1>5, <1>6
  <2>2. CASE xstep' = "trailers"
    <3>1. trailers' = trailers \cup {t.kind}
      BY <2>2
    <3>2. \A j \in (l + 1)..Len(wire') : j \in (l + 1)..Len(wire) \/ j = Len(wire) + 1
      BY <1>3
    <3>3. \A j \in (l + 1)..Len(wire') : wire'[j].kind \in trailers'
      BY <1>3, <1>11, <3>1, <3>2
    <3> QED BY <1>5, <2>1, <2>2, <3>3 DEF AtChunk
  <2>3. CASE xstep' = "close"
    <3>1. trailers \subseteq {"trailer"} /\ t.kind = "blank"
      BY <2>3
    <3>2. wire'[Len(wire')].kind = "blank"
      BY <1>3, <3>1
    <3>3. \A j \in (l + 1)..(Len(wire') - 1) : wire'[j].kind = "trailer"
      BY <1>11, <2>1, <3>1
    <3> QED BY <1>5, <2>1, <2>3, <3>2, <3>3 DEF AtChunk
  <2> QED BY <1>1, <2>2, <2>3
<1>13. H \in SUBSET DOMAIN wire'
  BY <1>3, <1>4
<1>14. ChunksFollowed'
  BY <1>4, <1>9, <1>10, <1>12, <1>13 DEF ChunksFollowed
<1>15. BytesCounted'
  BY <1>2, NoCount
<1> QED BY <1>1, <1>2, <1>14, <1>15, BodyGoesOn

LEMMA ChunkedKeeps ==
  ASSUME ExchangeInv, NEW t \in Tokens, collect_chunked(t)
  PROVE  ExchangeInv'
<1>1. /\ xstep \in Reading /\ xstep \in {"chunk", "chunkend", "trailers"} /\ wire' = Append(wire, t)
      /\ UNCHANGED <<policy, head, received>>
  BY DEF collect_chunked, Reading, Consume
<1>2. policy \in Policies
  BY <1>1, BodyFacts
<1>3. CASE /\ xstep = "chunk" /\ t.kind = "chunk" /\ remaining' = t.size
           /\ xstep' = IF t.size = 0 THEN "trailers" ELSE "chunkbody"
           /\ UNCHANGED <<trailers, xresult>>
  BY <1>1, <1>3, HeaderKeeps
<1>4. CASE /\ xstep = "chunkend" /\ t.kind = "crlf" /\ xstep' = "chunk"
           /\ UNCHANGED <<remaining, trailers, xresult>>
  BY <1>1, <1>4, LineEndKeeps
<1>5. CASE EndExchange("TransportFailure")
  BY <1>1, <1>2, <1>5, EndsInFailure DEF EndExchange
<1>6. CASE /\ xstep = "trailers" /\ t.kind \notin Ends \cup {"blank"}
           /\ trailers' = trailers \cup {t.kind} /\ UNCHANGED <<xstep, remaining, xresult>>
  BY <1>1, <1>6, TrailerKeeps
<1>7. CASE /\ xstep = "trailers" /\ t.kind = "blank"
           /\ IF TrailerVerdict = None THEN xstep' = "close" /\ xresult' = xresult
              ELSE EndExchange(TrailerVerdict)
           /\ UNCHANGED <<remaining, trailers>>
  <2>1. CASE TrailerVerdict = None
    <3>1. trailers \subseteq {"trailer"} /\ t.kind \notin Ends
      BY <1>7, <2>1, ExchangeAssumption DEF TrailerVerdict, Ends
    <3> QED BY <1>1, <1>7, <2>1, <3>1, TrailerKeeps
  <2>2. CASE TrailerVerdict # None
    <3>1. xstep' = "idle" /\ xresult' # "ok"
      BY <1>7, <2>2 DEF EndExchange, TrailerVerdict
    <3> QED BY <1>1, <1>2, <3>1, EndsInFailure
  <2> QED BY <2>1, <2>2
<1> QED BY <1>3, <1>4, <1>5, <1>6, <1>7 DEF collect_chunked

LEMMA ExchangeStep ==
  ASSUME ExchangeInv, [ExchangeNext]_exchangeVars
  PROVE  ExchangeInv'
<1>1. CASE \E p \in Policies : policy = None /\ request_with_policy(p)
  BY <1>1, RequestKeeps
<1>2. CASE connect
  BY <1>2, ConnectKeeps
<1>3. CASE \E h \in ResponseHead : read_head(h)
  BY <1>3, ReadHeadKeeps
<1>4. CASE \E t \in Tokens : ReadBody(t)
  BY <1>4, ReadExactKeeps, CloseKeeps, ToEofKeeps, ChunkedKeeps DEF ReadBody
<1>5. CASE Deadline
  BY <1>5, DeadlineKeeps
<1>6. CASE NextRequest
  BY <1>6, NextRequestKeeps
<1>7. CASE UNCHANGED exchangeVars
  BY <1>7 DEF exchangeVars, ExchangeInv, BetweenBodies, HeadAccepted, BytesCounted, ChunksFollowed,
     AtChunk, AcceptedIsExact, status_accepted
<1> QED BY <1>1, <1>2, <1>3, <1>4, <1>5, <1>6, <1>7 DEF ExchangeNext

\* request_with_policy, whatever the server sends and however large the limit,
\* answers only with one complete message of an accepted head: the frame of the
\* body is followed to its end, what is collected is exactly its data, and
\* nothing but the end of the connection comes after it.
THEOREM AnswersAreExact == ExchangeSpec => []AcceptedIsExact
<1>1. ExchangeInit => ExchangeInv
  BY ExchangeInvInit
<1>2. ExchangeInv /\ [ExchangeNext]_exchangeVars => ExchangeInv'
  BY ExchangeStep
<1>3. ExchangeInv => AcceptedIsExact
  BY DEF ExchangeInv
<1> QED BY <1>1, <1>2, <1>3, PTL DEF ExchangeSpec

\* A reader of sized data still expects some.
ReaderBounded ==
  /\ ExchangeTypeOK
  /\ xstep \in {"exact", "chunkbody"} => remaining > 0

LEMMA BodyBounded ==
  ASSUME ReaderBounded, NEW t \in Tokens, ReadBody(t)
  PROVE  ReaderBounded'
<1> USE DEF ReaderBounded, ExchangeTypeOK
<1>1. ByteLimit \in Nat /\ MaxChunk \in Nat
  BY ExchangeAssumption
<1>2. t.size \in 0..MaxChunk /\ t.kind \in {k.kind : k \in Tokens}
  BY <1>1 DEF Tokens
<1>3. CASE read_exact_body(t)
  <2>1. remaining \in Nat /\ remaining > 0 /\ received \in Nat
    BY <1>1, <1>3 DEF read_exact_body
  <2>2. received # ByteLimit => received + 1 \in 0..ByteLimit
    BY <1>1
  <2>3. remaining - 1 \in 0..(MaxChunk + ByteLimit) /\ (remaining > 1 => remaining - 1 > 0)
    BY <1>1, <2>1
  <2> QED
    BY <1>3, <2>2, <2>3 DEF read_exact_body, EndExchange
<1>4. CASE require_completed_close(t)
  BY <1>4 DEF require_completed_close, Complete, EndExchange
<1>5. CASE collect_to_eof(t)
  <2>1. received # ByteLimit => received + 1 \in 0..ByteLimit
    BY <1>1
  <2> QED
    BY <1>5, <2>1 DEF collect_to_eof, Complete, EndExchange
<1>6. CASE collect_chunked(t)
  <2>1. t.size \in 0..(MaxChunk + ByteLimit) /\ (t.size # 0 => t.size > 0)
    BY <1>1, <1>2
  <2>2. trailers \cup {t.kind} \subseteq {k.kind : k \in Tokens}
    BY <1>2
  <2>3. TrailerVerdict \in {None, "TransportFailure", "OperationalApiContractFailure"}
    BY DEF TrailerVerdict
  <2>4. /\ UNCHANGED <<policy, credentials, head, received>>
        /\ trailers' \in {trailers, trailers \cup {t.kind}}
        /\ remaining' \in {remaining, t.size}
    BY <1>6 DEF collect_chunked, EndExchange
  <2>5. xresult' \in {xresult, TrailerVerdict, "TransportFailure"}
    BY <1>6 DEF collect_chunked, EndExchange
  <2>6. /\ xstep' \in {"idle", "trailers", "chunkbody", "chunk", "close"}
        /\ xstep' = "chunkbody" => remaining' = t.size /\ t.size # 0
    BY <1>6 DEF collect_chunked, EndExchange
  <2> QED
    BY <2>1, <2>2, <2>3, <2>4, <2>5, <2>6
<1> QED
  BY <1>3, <1>4, <1>5, <1>6 DEF ReadBody

\* (read_exact_body, collect_to_eof, collect_chunked) Whatever a server declares and
\* sends, no more than the byte limit is ever collected, a reader never counts below
\* zero, and a failure is one of the named kinds.
THEOREM ReadersAreBounded == ExchangeSpec => []ExchangeTypeOK
<1> USE DEF ReaderBounded, ExchangeTypeOK
<1>1. ByteLimit \in Nat /\ MaxChunk \in Nat
  BY ExchangeAssumption
<1>2. ExchangeInit => ReaderBounded
  BY <1>1 DEF ExchangeInit
<1>3. ReaderBounded /\ [ExchangeNext]_exchangeVars => ReaderBounded'
  <2> SUFFICES ASSUME ReaderBounded, [ExchangeNext]_exchangeVars PROVE ReaderBounded'
    OBVIOUS
  <2>1. ASSUME NEW p \in Policies, request_with_policy(p) PROVE ReaderBounded'
    BY <2>1 DEF request_with_policy, EndExchange
  <2>2. CASE connect
    BY <2>2 DEF connect, EndExchange
  <2>3. ASSUME NEW h \in ResponseHead, read_head(h) PROVE ReaderBounded'
    <3>1. 0 \in 0..(MaxChunk + ByteLimit)
      BY <1>1
    <3>2. framing_accepted(h) /\ h.length # None =>
            h.length \in 0..(MaxChunk + ByteLimit) /\ (h.length # 0 => h.length > 0)
      BY <1>1 DEF framing_accepted, ResponseHead
    <3>3. status_failure(h) \in {"AuthenticationFailure", "OperationalHttpFailure",
                                 "OperationalApiContractFailure"}
      BY DEF status_failure
    <3> QED
      BY <2>3, <3>1, <3>2, <3>3 DEF read_head, EndExchange
  <2>4. ASSUME NEW t \in Tokens, ReadBody(t) PROVE ReaderBounded'
    BY <2>4, BodyBounded
  <2>5. CASE Deadline
    BY <2>5 DEF Deadline, EndExchange
  <2>6. CASE NextRequest
    BY <1>1, <2>6 DEF NextRequest
  <2>7. CASE UNCHANGED exchangeVars
    BY <2>7 DEF exchangeVars
  <2> QED
    BY <2>1, <2>2, <2>3, <2>4, <2>5, <2>6, <2>7 DEF ExchangeNext
<1> QED
  BY <1>2, <1>3, PTL DEF ExchangeSpec

-----------------------------------------------------------------------------
(* ConfigurationEncoding.                                                  *)

\* What a caller holds at each of its steps: only resolve_inner lets it past
\* the version, so from there on its key is the fresh one; from encode on it
\* holds a response that passed response_identity; a loser of the insert has a
\* row to look at; and a planner checks a handoff whose typed values it found.
CallerHolds ==
  \A c \in Callers :
    /\ callPc[c] = "cached" => key[c] \in Micros
    /\ callPc[c] \in {"probe", "encode", "retain", "insert", "winner"} => key[c] = Fresh
    /\ callPc[c] \in {"retain", "insert", "winner"} =>
         response[c] \in Response /\ response_identity(response[c], require_query(c))
    /\ callPc[c] = "winner" => rows[key[c]] # None
    /\ callPc[c] = "validate" =>
         handoff[c] \in Handoff /\ selections[handoff[c].key] = "typed"

\* Every row something was given out of is whole: its evidence is the expected
\* one, and its encoded id is that of the stored response.
IssuedIsValid ==
  \A h \in issued : validate_record(rows[h.key], FALSE)

EncodingInv ==
  /\ EncodingTypeOK
  /\ CallerHolds
  /\ GivenOutIsStored
  /\ IssuedIsValid
  /\ AcceptedIsBacked
  /\ OnlyFreshIsEncoded

LEMMA EncodingInvInit == EncodingInit => EncodingInv
<1> SUFFICES ASSUME EncodingInit PROVE EncodingInv
  OBVIOUS
<1>1. EncodingTypeOK
  BY EncodingAssumption DEF EncodingInit, EncodingTypeOK
<1>2. CallerHolds
  BY DEF EncodingInit, CallerHolds
<1>3. GivenOutIsStored /\ IssuedIsValid /\ AcceptedIsBacked /\ OnlyFreshIsEncoded
  BY DEF EncodingInit, GivenOutIsStored, IssuedIsValid, AcceptedIsBacked, OnlyFreshIsEncoded
<1> QED
  BY <1>1, <1>2, <1>3 DEF EncodingInv

\* The row a caller writes is whole.
LEMMA NewRowIsValid ==
  ASSUME NEW c \in Callers, response[c] \in Response, response[c].id # None
  PROVE  /\ NewRow(c) \in Row /\ NewRow(c) # None
         /\ validate_record(NewRow(c), FALSE)
         /\ NewRow(c).id = response[c].id /\ NewRow(c).query = response[c].query
<1>1. NewRow(c) \in Row
  BY DEF NewRow, Row, Response
<1>2. NewRow(c).context = TRUE /\ NewRow(c).request = TRUE
  BY DEF NewRow
<1>3. /\ NewRow(c).response = response[c]
      /\ NewRow(c).id = response[c].id /\ NewRow(c).query = response[c].query
  BY DEF NewRow
<1>4. validate_record(NewRow(c), FALSE)
  BY <1>2, <1>3, Zenon DEF validate_record, response_identity
<1> QED
  BY <1>1, <1>3, <1>4, EncodingAssumption

\* A row that is valid for an export is valid.
LEMMA ValidIsStronger ==
  ASSUME NEW row, NEW require, validate_record(row, require)
  PROVE  validate_record(row, FALSE)
  BY Zenon DEF validate_record, response_identity

\* No step takes the typed values of a selection away but ClearEncodings.
TypedStays == \A k \in Micros : selections[k] = "typed" => selections'[k] = "typed"

CallersTypeOK ==
  /\ callPc \in [Callers -> {"idle", "cached", "version", "probe", "encode", "retain",
                         "insert", "winner", "validate"}]
  /\ op \in [Callers -> {None, "resolve", "export"}]
  /\ key \in [Callers -> Micros \cup {None}]
  /\ bound \in [Callers -> Micros \cup {None}]
  /\ response \in [Callers -> Response \cup {None}]
  /\ handoff \in [Callers -> Handoff \cup {None}]

\* What was given out stays backed while no row changes.
LEMMA GivenFrame ==
  ASSUME EncodingInv, rows' = rows, UNCHANGED given, TypedStays
  PROVE  GivenOutIsStored' /\ IssuedIsValid' /\ AcceptedIsBacked'
<1> USE DEF EncodingInv, EncodingTypeOK, given, Handoff
<1>1. GivenOutIsStored'
  BY DEF GivenOutIsStored
<1>2. IssuedIsValid'
  BY DEF IssuedIsValid
<1>3. AcceptedIsBacked'
  BY DEF AcceptedIsBacked, TypedStays
<1> QED
  BY <1>1, <1>2, <1>3

\* A caller that returns holds nothing, and the others hold what they held
\* unless a row or the typed values they rely on are taken away.
LEMMA ReturnFrame ==
  ASSUME EncodingInv, NEW c \in Callers, Return(c), TypedStays,
         \A k \in Micros : rows[k] # None => rows'[k] # None
  PROVE  CallersTypeOK' /\ CallerHolds'
<1>1. CallersTypeOK'
  BY DEF EncodingInv, EncodingTypeOK, CallersTypeOK, Return
<1>2. CallerHolds'
  BY EncodingAssumption
     DEF EncodingInv, EncodingTypeOK, CallerHolds, TypedStays, Return, require_query, Handoff
<1> QED
  BY <1>1, <1>2

\* The row of k is found valid and given out.
LEMMA IssueFrame ==
  ASSUME EncodingInv, NEW c \in Callers, NEW k \in Micros, rows[k] # None,
         validate_record(rows[k], require_query(c)), rows' = rows, TypedStays, Issue(c, k)
  PROVE  /\ GivenOutIsStored' /\ IssuedIsValid' /\ AcceptedIsBacked'
         /\ issued' \subseteq Handoff /\ accepted' \subseteq Handoff
         /\ retired' \subseteq Handoff
         /\ exported' \subseteq Micros \X Ids \X (Queries \cup {None})
<1> USE DEF EncodingInv, EncodingTypeOK, Issue
<1>1. rows[k] \in Row /\ validate_record(rows[k], FALSE)
  BY ValidIsStronger
<1>2. /\ issued' \subseteq Handoff /\ accepted' \subseteq Handoff
      /\ retired' \subseteq Handoff
      /\ exported' \subseteq Micros \X Ids \X (Queries \cup {None})
  BY <1>1 DEF Handoff, Row
<1>3. GivenOutIsStored'
  BY DEF GivenOutIsStored
<1>4. IssuedIsValid'
  <2>1. \A h \in issued' : h \in issued \/ h.key = k
    OBVIOUS
  <2>2. \A h \in issued : validate_record(rows'[h.key], FALSE)
    BY DEF IssuedIsValid
  <2> QED
    BY <1>1, <2>1, <2>2 DEF IssuedIsValid
<1>5. AcceptedIsBacked'
  BY DEF AcceptedIsBacked, TypedStays, Handoff
<1> QED
  BY <1>2, <1>3, <1>4, <1>5

LEMMA EncodingInvNext == EncodingInv /\ [EncodingNext]_encodingVars => EncodingInv'
<1> SUFFICES ASSUME EncodingInv, [EncodingNext]_encodingVars PROVE EncodingInv'
  OBVIOUS
<1> USE EncodingAssumption
<1>1. ASSUME NEW c \in Callers, BeginResolve(c) PROVE EncodingInv'
  <2>1. TypedStays /\ rows' = rows /\ UNCHANGED given
    BY <1>1 DEF BeginResolve, TypedStays
  <2>2. CallerHolds' /\ EncodingTypeOK' /\ OnlyFreshIsEncoded'
    BY <1>1 DEF EncodingInv, BeginResolve, CallGoto, given, EncodingTypeOK, CallerHolds,
       OnlyFreshIsEncoded, require_query
  <2> QED
    BY <2>1, <2>2, GivenFrame DEF EncodingInv
<1>2. ASSUME NEW c \in Callers, NEW k \in Micros, BeginExport(c, k) PROVE EncodingInv'
  <2>1. TypedStays /\ rows' = rows /\ UNCHANGED given
    BY <1>2 DEF BeginExport, TypedStays
  <2>2. CallerHolds' /\ EncodingTypeOK' /\ OnlyFreshIsEncoded'
    BY <1>2 DEF EncodingInv, BeginExport, CallGoto, given, EncodingTypeOK, CallerHolds,
       OnlyFreshIsEncoded, require_query
  <2> QED
    BY <2>1, <2>2, GivenFrame DEF EncodingInv
<1>3. ASSUME NEW c \in Callers, NEW k \in Micros, lookup(c, k) PROVE EncodingInv'
  <2>1. rows[k] \in Row
    BY <1>3 DEF EncodingInv, EncodingTypeOK, lookup
  <2>2. EncodingTypeOK'
    BY <1>3, <2>1 DEF EncodingInv, EncodingTypeOK, lookup, caller, Row
  <2>3. GivenOutIsStored'
    BY <1>3 DEF EncodingInv, lookup, GivenOutIsStored
  <2>4. CallerHolds' /\ IssuedIsValid' /\ AcceptedIsBacked' /\ OnlyFreshIsEncoded'
    BY <1>3 DEF EncodingInv, lookup, caller, CallerHolds, IssuedIsValid, AcceptedIsBacked,
       OnlyFreshIsEncoded, require_query
  <2> QED
    BY <2>2, <2>3, <2>4 DEF EncodingInv
<1>4. ASSUME NEW c \in Callers, NEW k \in Micros, Reuse(c, k) PROVE EncodingInv'
  <2>1. TypedStays /\ selections' \in [Micros -> {None, "typed", "damaged"}]
    BY <1>4 DEF Reuse, Retain, TypedStays, EncodingInv, EncodingTypeOK
  <2>2. rows' = rows /\ encoded' = encoded /\ clears' = clears /\ Return(c)
    BY <1>4 DEF Reuse
  <2>3. CallersTypeOK' /\ CallerHolds'
    BY <2>1, <2>2, ReturnFrame
  <2>4. CASE UNCHANGED given
    <3>1. EncodingTypeOK' /\ OnlyFreshIsEncoded'
      BY <2>1, <2>2, <2>3, <2>4
         DEF EncodingInv, EncodingTypeOK, CallersTypeOK, given, OnlyFreshIsEncoded
    <3> QED
      BY <2>1, <2>2, <2>3, <2>4, <3>1, GivenFrame DEF EncodingInv
  <2>5. CASE validate_record(rows[k], require_query(c)) /\ Issue(c, k)
    <3>1. rows[k] # None
      BY <1>4 DEF Reuse
    <3>2. EncodingTypeOK' /\ OnlyFreshIsEncoded'
      BY <2>1, <2>2, <2>3, <2>5, <3>1, IssueFrame
         DEF EncodingInv, EncodingTypeOK, CallersTypeOK, OnlyFreshIsEncoded
    <3> QED
      BY <2>1, <2>2, <2>3, <2>5, <3>1, <3>2, IssueFrame DEF EncodingInv
  <2> QED
    BY <1>4, <2>4, <2>5 DEF Reuse
<1>5. ASSUME NEW c \in Callers, resolve_for_export(c) PROVE EncodingInv'
  <2>1. CASE Reuse(c, key[c])
    BY <1>4, <1>5, <2>1 DEF resolve_for_export, EncodingInv, CallerHolds
  <2>2. CASE ~ Reuse(c, key[c])
    <3>1. TypedStays /\ rows' = rows /\ UNCHANGED given
      BY <1>5, <2>2 DEF resolve_for_export, TypedStays
    <3>2. CallerHolds' /\ EncodingTypeOK' /\ OnlyFreshIsEncoded'
      BY <1>5, <2>2 DEF EncodingInv, resolve_for_export, CallGoto, given, EncodingTypeOK,
         CallerHolds, OnlyFreshIsEncoded, require_query
    <3> QED
      BY <3>1, <3>2, GivenFrame DEF EncodingInv
  <2> QED
    BY <2>1, <2>2
<1>6. ASSUME NEW c \in Callers, resolve_version(c) PROVE EncodingInv'
  <2>1. TypedStays /\ rows' = rows /\ UNCHANGED given
    BY <1>6 DEF resolve_version, TypedStays
  <2>2. CASE Return(c)
    <3>1. EncodingTypeOK' /\ OnlyFreshIsEncoded' /\ CallerHolds'
      BY <1>6, <2>1, <2>2, ReturnFrame
         DEF resolve_version, EncodingInv, EncodingTypeOK, CallersTypeOK, given, OnlyFreshIsEncoded
    <3> QED
      BY <2>1, <3>1, GivenFrame DEF EncodingInv
  <2>3. CASE ~ Return(c)
    <3>1. CallerHolds' /\ EncodingTypeOK' /\ OnlyFreshIsEncoded'
      BY <1>6, <2>3 DEF EncodingInv, resolve_version, CallGoto, given, EncodingTypeOK,
         CallerHolds, OnlyFreshIsEncoded, require_query
    <3> QED
      BY <2>1, <3>1, GivenFrame DEF EncodingInv
  <2> QED
    BY <2>2, <2>3
<1>7. ASSUME NEW c \in Callers, Probe(c) PROVE EncodingInv'
  <2>1. CASE Reuse(c, key[c])
    BY <1>4, <1>7, <2>1 DEF Probe, EncodingInv, CallerHolds
  <2>2. CASE ~ Reuse(c, key[c])
    <3>1. TypedStays /\ rows' = rows /\ UNCHANGED given
      BY <1>7, <2>2 DEF Probe, TypedStays
    <3>2. CallerHolds' /\ EncodingTypeOK' /\ OnlyFreshIsEncoded'
      BY <1>7, <2>2 DEF EncodingInv, Probe, CallGoto, given, EncodingTypeOK,
         CallerHolds, OnlyFreshIsEncoded, require_query
    <3> QED
      BY <3>1, <3>2, GivenFrame DEF EncodingInv
  <2> QED
    BY <2>1, <2>2
<1>8. ASSUME NEW c \in Callers, encode(c) PROVE EncodingInv'
  <2>1. TypedStays /\ rows' = rows /\ UNCHANGED given
    BY <1>8 DEF encode, TypedStays
  <2>2. encoded' \subseteq Micros /\ OnlyFreshIsEncoded'
    BY <1>8 DEF encode, EncodingInv, EncodingTypeOK, CallerHolds, OnlyFreshIsEncoded
  <2>3. CASE Return(c)
    <3>1. EncodingTypeOK' /\ CallerHolds'
      BY <1>8, <2>1, <2>2, <2>3, ReturnFrame
         DEF encode, EncodingInv, EncodingTypeOK, CallersTypeOK, given
    <3> QED
      BY <2>1, <2>2, <3>1, GivenFrame DEF EncodingInv
  <2>4. CASE ~ Return(c)
    <3>1. CallerHolds' /\ EncodingTypeOK'
      BY <1>8, <2>2, <2>4 DEF EncodingInv, encode, CallGoto, given, EncodingTypeOK,
         CallerHolds, require_query
    <3> QED
      BY <2>1, <2>2, <3>1, GivenFrame DEF EncodingInv
  <2> QED
    BY <2>3, <2>4
<1>9. ASSUME NEW c \in Callers, retain_typed_selection(c) PROVE EncodingInv'
  <2>1. TypedStays /\ selections' \in [Micros -> {None, "typed", "damaged"}]
    BY <1>9 DEF retain_typed_selection, Retain, TypedStays, EncodingInv, EncodingTypeOK
  <2>2. rows' = rows /\ UNCHANGED given /\ OnlyFreshIsEncoded'
    BY <1>9 DEF retain_typed_selection, EncodingInv, OnlyFreshIsEncoded
  <2>3. CASE Return(c)
    <3>1. EncodingTypeOK' /\ CallerHolds'
      BY <1>9, <2>1, <2>2, <2>3, ReturnFrame
         DEF retain_typed_selection, EncodingInv, EncodingTypeOK, CallersTypeOK, given
    <3> QED
      BY <2>1, <2>2, <3>1, GivenFrame DEF EncodingInv
  <2>4. CASE ~ Return(c)
    <3>1. CallGoto(c, "insert") /\ UNCHANGED <<op, key, bound, response, handoff>>
      BY <1>9, <2>4 DEF retain_typed_selection
    <3>2. EncodingTypeOK'
      BY <1>9, <2>1, <2>2, <3>1
         DEF retain_typed_selection, CallGoto, EncodingInv, EncodingTypeOK, given
    <3>3. CallerHolds'
      BY <1>9, <2>1, <2>2, <3>1 DEF retain_typed_selection, CallGoto, EncodingInv,
         EncodingTypeOK, CallerHolds, TypedStays, require_query, Handoff
    <3> QED
      BY <2>1, <2>2, <3>2, <3>3, GivenFrame DEF EncodingInv
  <2> QED
    BY <2>3, <2>4
<1>10. ASSUME NEW c \in Callers, insert_configuration_encoding_if_absent(c) PROVE EncodingInv'
  <2>1. /\ key[c] = Fresh /\ response[c] \in Response
        /\ response[c].id # None /\ response[c].id \in Ids
        /\ response[c].query \in Queries \cup {None}
    BY <1>10 DEF insert_configuration_encoding_if_absent, EncodingInv, CallerHolds,
       response_identity, Response
  <2>2. /\ NewRow(c) \in Row /\ NewRow(c) # None /\ validate_record(NewRow(c), FALSE)
        /\ NewRow(c).id = response[c].id /\ NewRow(c).query = response[c].query
    BY <2>1, NewRowIsValid
  <2>3. TypedStays /\ OnlyFreshIsEncoded'
    BY <1>10 DEF insert_configuration_encoding_if_absent, TypedStays, EncodingInv,
       OnlyFreshIsEncoded
  <2>4. CASE rows[key[c]] = None
    <3>1. /\ rows' = [rows EXCEPT ![Fresh] = NewRow(c)] /\ Return(c)
          /\ rows[Fresh] = None
          /\ issued' = issued \cup {[key |-> Fresh, id |-> response[c].id]}
          /\ \/ exported' = exported
             \/ exported' = exported \cup {<<Fresh, response[c].id, response[c].query>>}
          /\ accepted' = accepted /\ retired' = retired /\ selections' = selections
          /\ encoded' = encoded /\ clears' = clears
      BY <1>10, <2>1, <2>4 DEF insert_configuration_encoding_if_absent
    <3>2. /\ rows' \in [Micros -> Row \cup {None}]
          /\ rows'[Fresh] = NewRow(c)
          /\ \A k \in Micros : k # Fresh => rows'[k] = rows[k]
      BY <2>2, <3>1 DEF EncodingInv, EncodingTypeOK
    <3>3. CallersTypeOK' /\ CallerHolds'
      BY <2>2, <2>3, <3>1, <3>2, ReturnFrame
    <3>4. EncodingTypeOK'
      BY <2>1, <3>1, <3>2, <3>3 DEF EncodingInv, EncodingTypeOK, CallersTypeOK, Handoff
    <3>5. GivenOutIsStored'
      BY <2>1, <2>2, <3>1, <3>2
         DEF EncodingInv, EncodingTypeOK, GivenOutIsStored, Handoff
    <3>6. IssuedIsValid'
      <4>1. \A h \in issued' : h \in issued \/ h.key = Fresh
        BY <3>1
      <4>2. \A h \in issued : h.key \in Micros /\ h.key # Fresh
        BY <3>1 DEF EncodingInv, EncodingTypeOK, GivenOutIsStored, Handoff
      <4>3. \A h \in issued : validate_record(rows'[h.key], FALSE)
        BY <3>2, <4>2 DEF EncodingInv, IssuedIsValid
      <4> QED
        BY <2>2, <3>2, <4>1, <4>3 DEF IssuedIsValid
    <3>7. AcceptedIsBacked'
      BY <2>2, <3>1, <3>2 DEF EncodingInv, EncodingTypeOK, AcceptedIsBacked, Handoff
    <3> QED
      BY <2>3, <3>3, <3>4, <3>5, <3>6, <3>7 DEF EncodingInv
  <2>5. CASE rows[key[c]] # None
    <3>1. /\ CallGoto(c, "winner")
          /\ UNCHANGED <<rows, op, key, bound, response, handoff, given, selections, encoded, clears>>
      BY <1>10, <2>5 DEF insert_configuration_encoding_if_absent
    <3>2. EncodingTypeOK' /\ CallerHolds'
      BY <1>10, <2>5, <3>1 DEF insert_configuration_encoding_if_absent, CallGoto, EncodingInv,
         EncodingTypeOK, CallerHolds, require_query, given
    <3> QED
      BY <2>3, <3>1, <3>2, GivenFrame DEF EncodingInv
  <2> QED
    BY <2>4, <2>5
<1>11. ASSUME NEW c \in Callers, Winner(c) PROVE EncodingInv'
  <2>1. /\ TypedStays /\ OnlyFreshIsEncoded' /\ Return(c) /\ rows' = rows
        /\ UNCHANGED <<selections, encoded, clears>>
    BY <1>11 DEF Winner, TypedStays, EncodingInv, OnlyFreshIsEncoded
  <2>2. CallersTypeOK' /\ CallerHolds'
    BY <2>1, ReturnFrame
  <2>3. CASE UNCHANGED given
    <3>1. EncodingTypeOK'
      BY <2>1, <2>2, <2>3 DEF EncodingInv, EncodingTypeOK, CallersTypeOK, given
    <3> QED
      BY <2>1, <2>2, <2>3, <3>1, GivenFrame DEF EncodingInv
  <2>4. CASE validate_record(rows[key[c]], require_query(c)) /\ Issue(c, key[c])
    <3>1. key[c] \in Micros /\ rows[key[c]] # None
      BY <1>11 DEF Winner, EncodingInv, CallerHolds
    <3>2. EncodingTypeOK'
      BY <2>1, <2>2, <2>4, <3>1, IssueFrame DEF EncodingInv, EncodingTypeOK, CallersTypeOK
    <3> QED
      BY <2>1, <2>2, <2>4, <3>1, <3>2, IssueFrame DEF EncodingInv
  <2> QED
    BY <1>11, <2>3, <2>4 DEF Winner
<1>12. ASSUME NEW c \in Callers, NEW h \in Handoff, BeginValidate(c, h) PROVE EncodingInv'
  <2>1. TypedStays /\ rows' = rows /\ UNCHANGED given
    BY <1>12 DEF BeginValidate, TypedStays
  <2>2. CallerHolds' /\ EncodingTypeOK' /\ OnlyFreshIsEncoded'
    BY <1>12 DEF EncodingInv, BeginValidate, CallGoto, given, EncodingTypeOK, CallerHolds,
       OnlyFreshIsEncoded, require_query
  <2> QED
    BY <2>1, <2>2, GivenFrame DEF EncodingInv
<1>13. ASSUME NEW c \in Callers, validate_handoff(c) PROVE EncodingInv'
  <2>1. /\ TypedStays /\ OnlyFreshIsEncoded' /\ Return(c) /\ rows' = rows
        /\ UNCHANGED <<selections, encoded, clears>>
    BY <1>13 DEF validate_handoff, TypedStays, EncodingInv, OnlyFreshIsEncoded
  <2>2. CallersTypeOK' /\ CallerHolds'
    BY <2>1, ReturnFrame
  <2>3. CASE UNCHANGED given
    <3>1. EncodingTypeOK'
      BY <2>1, <2>2, <2>3 DEF EncodingInv, EncodingTypeOK, CallersTypeOK, given
    <3> QED
      BY <2>1, <2>2, <2>3, <3>1, GivenFrame DEF EncodingInv
  <2>4. CASE ~ UNCHANGED given
    <3>1. /\ rows[handoff[c].key] # None /\ validate_record(rows[handoff[c].key], FALSE)
          /\ rows[handoff[c].key].id = handoff[c].id
          /\ accepted' = accepted \cup {handoff[c]}
          /\ UNCHANGED <<issued, exported, retired>>
      BY <1>13, <2>4 DEF validate_handoff, given
    <3>2. handoff[c] \in Handoff /\ selections[handoff[c].key] = "typed"
      BY <1>13 DEF validate_handoff, EncodingInv, CallerHolds
    <3>3. EncodingTypeOK'
      BY <2>1, <2>2, <3>1, <3>2 DEF EncodingInv, EncodingTypeOK, CallersTypeOK
    <3>4. GivenOutIsStored' /\ IssuedIsValid' /\ AcceptedIsBacked'
      BY <2>1, <3>1, <3>2 DEF EncodingInv, GivenOutIsStored, IssuedIsValid, AcceptedIsBacked
    <3> QED
      BY <2>1, <2>2, <3>3, <3>4 DEF EncodingInv
  <2> QED
    BY <2>3, <2>4
<1>14. CASE ClearEncodings
  <2>1. EncodingTypeOK' /\ OnlyFreshIsEncoded'
    BY <1>14 DEF ClearEncodings, caller, EncodingInv, EncodingTypeOK, OnlyFreshIsEncoded
  <2>2. CallerHolds'
    BY <1>14 DEF ClearEncodings, caller, EncodingInv, CallerHolds
  <2>3. GivenOutIsStored' /\ IssuedIsValid' /\ AcceptedIsBacked'
    BY <1>14 DEF ClearEncodings, GivenOutIsStored, IssuedIsValid, AcceptedIsBacked
  <2> QED
    BY <2>1, <2>2, <2>3 DEF EncodingInv
<1>15. CASE UNCHANGED encodingVars
  <2>1. TypedStays /\ rows' = rows /\ UNCHANGED given
    BY <1>15 DEF encodingVars, TypedStays
  <2>2. EncodingTypeOK' /\ OnlyFreshIsEncoded' /\ CallerHolds'
    BY <1>15 DEF encodingVars, caller, given, EncodingInv, EncodingTypeOK, CallerHolds,
       OnlyFreshIsEncoded, require_query
  <2> QED
    BY <2>1, <2>2, GivenFrame DEF EncodingInv
<1> QED
  BY <1>1, <1>2, <1>3, <1>5, <1>6, <1>7, <1>8, <1>9, <1>10, <1>11, <1>12, <1>13, <1>14, <1>15
     DEF EncodingNext

\* configuration_encoding.rs: whoever misses at once and whatever Onshape
\* answers each of them, every export and every planner works with the one
\* encoding that is in the table, whose evidence is whole, and only the fresh
\* microversion is ever encoded.
THEOREM AllEncodingsAgree == EncodingSpec => []EncodingsAgree
<1>1. EncodingInv => EncodingsAgree
  BY DEF EncodingInv, EncodingsAgree, DamagedEvidenceIsRefused, IssuedIsValid, validate_record
<1> QED
  BY <1>1, EncodingInvInit, EncodingInvNext, PTL DEF EncodingSpec

-----------------------------------------------------------------------------
(* GeometryAcquisition.                                                    *)

Working == {"leaf", "translate", "download", "bind"}

AcquisitionRecord ==
  [position : Nat, elapsed : 0..PlanTime, leafElapsed : 0..PlanTime, polls : 0..MaxPolls,
   state : {None, "ACTIVE", "DONE", "FAILED"},
   got : Seq([leaf : PlannedLeaves, translation : Nat]),
   created : Seq([leaf : PlannedLeaves, config : EncodingOf])]

\* What acquire_with_timing has for the first positions of the recorded plan r
\* when it is at step s: a payload for each of them, from the translation of
\* its leaf; and only such translations, but for the one of this position.
Sound(q, r, s) ==
  /\ Len(q.got) + 1 = q.position
  /\ s \in Working => q.position \in 1..Len(r.plan)
  /\ s = "acquired" => Len(q.got) = Len(r.plan)
  /\ \A i \in 1..Len(q.got) :
       /\ i \in 1..Len(r.plan)
       /\ q.got[i].leaf = r.plan[i]
       /\ q.got[i].translation \in 1..Len(q.created)
       /\ q.created[q.got[i].translation].leaf = r.plan[i]
  /\ \A j \in 1..Len(q.created) :
       /\ q.created[j].config = r.encoding
       /\ \/ \E i \in 1..Len(q.got) : q.got[i].leaf = q.created[j].leaf
          \/ s \in {"translate", "download", "bind"} /\ q.created[j].leaf = r.plan[q.position]
  /\ s \in {"translate", "download", "bind"} =>
       \E j \in 1..Len(q.created) : q.created[j].leaf = r.plan[q.position]

TranslatedOnce(q) ==
  \A i, j \in 1..Len(q.created) : q.created[i].leaf = q.created[j].leaf => i = j

\* What a planner holds at each step; only an acquirer goes on to the leaves.
PlannerHolds ==
  \A a \in Planners :
    /\ pstep[a] \in {"plan", "record", "reread"} => request[a] \in EncodingOf
    /\ pstep[a] \in Working \cup {"planned", "acquired"} => handle[a] \in Provenance
    /\ pstep[a] \in Working \cup {"acquired"} => a \in Acquirers

AcquisitionsAreSound ==
  \A a \in Acquirers :
    /\ pstep[a] \in Working \cup {"acquired"} => Sound(acquisition[a], handle[a], pstep[a])
    /\ TranslatedOnce(acquisition[a])
    /\ acquisition[a].leafElapsed <= acquisition[a].elapsed

AcquisitionInv ==
  /\ AcquisitionTypeOK
  /\ acquisition \in [Acquirers -> AcquisitionRecord]
  /\ PlannerHolds
  /\ HandleIsRecorded
  /\ AcquisitionsAreSound

LEMMA IdleIsTyped == Idle \in AcquisitionRecord /\ TranslatedOnce(Idle) /\ Idle.leafElapsed <= Idle.elapsed
  BY AcquisitionAssumption DEF Idle, AcquisitionRecord, TranslatedOnce

LEMMA AcquisitionInvInit == AcquisitionInit => AcquisitionInv
<1> SUFFICES ASSUME AcquisitionInit PROVE AcquisitionInv
  OBVIOUS
<1>1. acquisition \in [Acquirers -> AcquisitionRecord]
  BY IdleIsTyped DEF AcquisitionInit
<1>2. AcquisitionTypeOK
  BY <1>1, AcquisitionAssumption DEF AcquisitionInit, AcquisitionTypeOK, AcquisitionRecord
<1>3. PlannerHolds /\ HandleIsRecorded
  BY DEF AcquisitionInit, PlannerHolds, HandleIsRecorded, Working
<1>4. AcquisitionsAreSound
  BY IdleIsTyped, AcquisitionAssumption DEF AcquisitionInit, AcquisitionsAreSound, Working
<1> QED
  BY <1>1, <1>2, <1>3, <1>4 DEF AcquisitionInv

\* A translation of the leaf at hand is added only where no position has it.
LEMMA SoundCreate ==
  ASSUME NEW r \in Provenance, NEW q \in AcquisitionRecord, Sound(q, r, "leaf"), TranslatedOnce(q),
         ~ \E i \in DOMAIN q.got : q.got[i].leaf = r.plan[q.position],
         NEW n \in {"ACTIVE", "DONE", "FAILED"},
         NEW p \in AcquisitionRecord,
         p = [q EXCEPT !.leafElapsed = 0, !.polls = 0, !.state = n,
                       !.created = Append(@, [leaf |-> r.plan[q.position], config |-> r.encoding])]
  PROVE  Sound(p, r, "translate") /\ TranslatedOnce(p)
<1> DEFINE new == [leaf |-> r.plan[q.position], config |-> r.encoding]
<1>1. /\ p.got = q.got /\ p.position = q.position
      /\ Len(p.created) = Len(q.created) + 1
      /\ p.created[Len(q.created) + 1] = new
      /\ \A j \in 1..Len(q.created) : p.created[j] = q.created[j]
      /\ Len(q.created) \in Nat /\ Len(q.got) \in Nat
  BY DEF AcquisitionRecord
<1>2. DOMAIN q.got = 1..Len(q.got)
  BY DEF AcquisitionRecord
<1> DEFINE N == Len(q.created)
<1>3. N \in Nat /\ 1..(N + 1) = 1..N \cup {N + 1}
  BY <1>1
<1>4. new.leaf = r.plan[q.position] /\ new.config = r.encoding
  OBVIOUS
<1> HIDE DEF new, N
<1>5. \A i \in 1..Len(q.got) : q.got[i].leaf # r.plan[q.position]
  BY <1>2
<1>6. \A j \in 1..N : q.created[j].leaf # r.plan[q.position]
  BY <1>5 DEF Sound, N
<1>7. TranslatedOnce(p)
  BY <1>1, <1>3, <1>4, <1>6 DEF TranslatedOnce, N
<1>8. Sound(p, r, "translate")
  <2>1. /\ Len(p.got) + 1 = p.position
        /\ "translate" \in Working => p.position \in 1..Len(r.plan)
    BY <1>1 DEF Sound, Working
  <2>2. ASSUME NEW i \in 1..Len(p.got)
        PROVE  /\ i \in 1..Len(r.plan)
               /\ p.got[i].leaf = r.plan[i]
               /\ p.got[i].translation \in 1..Len(p.created)
               /\ p.created[p.got[i].translation].leaf = r.plan[i]
    <3>1. /\ i \in 1..Len(r.plan) /\ q.got[i].leaf = r.plan[i]
          /\ q.got[i].translation \in 1..N
          /\ q.created[q.got[i].translation].leaf = r.plan[i]
      BY <1>1 DEF Sound, N
    <3> QED
      BY <1>1, <1>3, <3>1 DEF N
  <2>3. ASSUME NEW j \in 1..Len(p.created)
        PROVE  /\ p.created[j].config = r.encoding
               /\ \/ \E i \in 1..Len(p.got) : p.got[i].leaf = p.created[j].leaf
                  \/ p.created[j].leaf = r.plan[p.position]
    <3>1. CASE j \in 1..N
      BY <1>1, <3>1 DEF Sound, N
    <3>2. CASE j = N + 1
      BY <1>1, <1>4, <3>2 DEF N
    <3> QED
      BY <1>1, <1>3, <3>1, <3>2 DEF N
  <2>4. \E j \in 1..Len(p.created) : p.created[j].leaf = r.plan[p.position]
    <3>1. N + 1 \in 1..Len(p.created)
      BY <1>1, <1>3 DEF N
    <3> QED
      BY <1>1, <1>4, <3>1 DEF N
  <2> QED
    BY <2>1, <2>2, <2>3, <2>4 DEF Sound
<1> QED
  BY <1>7, <1>8

\* A position gets the payload of the translation of its leaf, which exists.
LEMMA SoundBind ==
  ASSUME NEW r \in Provenance, NEW q \in AcquisitionRecord, Sound(q, r, "bind"), TranslatedOnce(q),
         NEW p, p = [q EXCEPT !.got = Append(@, [leaf |-> r.plan[q.position],
                                     translation |-> TranslationOf(q, r.plan[q.position])]),
                              !.position = @ + 1],
         NEW s, s = IF q.position = Len(r.plan) THEN "acquired" ELSE "leaf"
  PROVE  p \in AcquisitionRecord /\ Sound(p, r, s) /\ TranslatedOnce(p)
<1> DEFINE leaf == r.plan[q.position]
           t == TranslationOf(q, leaf)
           new == [leaf |-> leaf, translation |-> t]
           N == Len(q.got)
<1>1. r.plan \in Seq(PlannedLeaves) /\ Len(r.plan) \in Nat
  BY AcquisitionAssumption DEF Provenance
<1>2. /\ q.got \in Seq([leaf : PlannedLeaves, translation : Nat]) /\ N \in Nat
      /\ q.created \in Seq([leaf : PlannedLeaves, config : EncodingOf])
      /\ q.position \in Nat /\ DOMAIN q.created = 1..Len(q.created)
  BY DEF AcquisitionRecord
<1>3. q.position \in 1..Len(r.plan) /\ q.position = N + 1
  BY <1>2 DEF Sound, Working
<1>4. leaf \in PlannedLeaves
  BY <1>1, <1>3
<1>5. t \in 1..Len(q.created) /\ q.created[t].leaf = leaf
  <2>1. \E j \in 1..Len(q.created) : q.created[j].leaf = leaf
    BY DEF Sound
  <2> QED
    BY <1>2, <2>1 DEF TranslationOf
<1>6. new \in [leaf : PlannedLeaves, translation : Nat] /\ new.leaf = leaf /\ new.translation = t
  BY <1>4, <1>5
<1> HIDE DEF leaf, t, new
<1>7. p = [q EXCEPT !.got = Append(@, new), !.position = @ + 1]
  BY DEF new, t, leaf
<1>8. /\ p \in AcquisitionRecord
      /\ p.created = q.created /\ p.position = q.position + 1 /\ p.got = Append(q.got, new)
  <2>1. /\ p.created = q.created /\ p.position = q.position + 1 /\ p.got = Append(q.got, new)
        /\ p.elapsed = q.elapsed /\ p.leafElapsed = q.leafElapsed
        /\ p.polls = q.polls /\ p.state = q.state
    BY <1>7 DEF AcquisitionRecord
  <2>2. p.got \in Seq([leaf : PlannedLeaves, translation : Nat]) /\ p.position \in Nat
    BY <1>2, <1>6, <2>1
  <2> QED
    BY <1>7, <2>1, <2>2 DEF AcquisitionRecord
<1>9. /\ Len(p.got) = N + 1 /\ p.got[N + 1] = new
      /\ \A i \in 1..N : p.got[i] = q.got[i]
      /\ 1..(N + 1) = 1..N \cup {N + 1}
  BY <1>2, <1>6, <1>8
<1> HIDE DEF N
<1>10. TranslatedOnce(p)
  BY <1>8 DEF TranslatedOnce
<1>11. Sound(p, r, s)
  <2>1. /\ Len(p.got) + 1 = p.position
        /\ s \in Working => p.position \in 1..Len(r.plan)
        /\ s = "acquired" => Len(p.got) = Len(r.plan)
    BY <1>1, <1>2, <1>3, <1>8, <1>9 DEF Working
  <2>2. ASSUME NEW i \in 1..Len(p.got)
        PROVE  /\ i \in 1..Len(r.plan)
               /\ p.got[i].leaf = r.plan[i]
               /\ p.got[i].translation \in 1..Len(p.created)
               /\ p.created[p.got[i].translation].leaf = r.plan[i]
    <3>1. CASE i \in 1..N
      BY <1>8, <1>9, <3>1 DEF Sound, N
    <3>2. CASE i = N + 1
      BY <1>3, <1>5, <1>6, <1>8, <1>9, <3>2 DEF leaf
    <3> QED
      BY <1>9, <3>1, <3>2
  <2>3. ASSUME NEW j \in 1..Len(p.created)
        PROVE  /\ p.created[j].config = r.encoding
               /\ \E i \in 1..Len(p.got) : p.got[i].leaf = p.created[j].leaf
    <3>1. /\ q.created[j].config = r.encoding
          /\ \/ \E i \in 1..N : q.got[i].leaf = q.created[j].leaf
             \/ q.created[j].leaf = leaf
      BY <1>8 DEF Sound, N, leaf
    <3>2. N + 1 \in 1..Len(p.got)
      BY <1>2, <1>9
    <3> QED
      BY <1>6, <1>8, <1>9, <3>1, <3>2
  <2>4. s \notin {"translate", "download", "bind"}
    OBVIOUS
  <2> QED
    BY <2>1, <2>2, <2>3, <2>4 DEF Sound
<1> QED
  BY <1>8, <1>10, <1>11

\* The steps that only wait, poll or download leave payloads and translations.
LEMMA SoundWait ==
  ASSUME NEW r, NEW q, NEW p, NEW s, NEW t, Sound(q, r, s), TranslatedOnce(q),
         p.got = q.got, p.created = q.created, p.position = q.position,
         \/ s = t /\ s \in Working \cup {"acquired"}
         \/ s \in {"translate", "download"} /\ t \in {"translate", "download", "bind"}
         \/ /\ s = "leaf" /\ t = "bind"
            /\ \E i \in 1..Len(q.got) : q.got[i].leaf = r.plan[q.position]
  PROVE  Sound(p, r, t) /\ TranslatedOnce(p)
<1>1. TranslatedOnce(p)
  BY DEF TranslatedOnce
<1>2. /\ Len(p.got) + 1 = p.position
      /\ t \in Working => p.position \in 1..Len(r.plan)
      /\ t = "acquired" => Len(p.got) = Len(r.plan)
  BY DEF Sound, Working
<1>3. \A i \in 1..Len(p.got) :
        /\ i \in 1..Len(r.plan)
        /\ p.got[i].leaf = r.plan[i]
        /\ p.got[i].translation \in 1..Len(p.created)
        /\ p.created[p.got[i].translation].leaf = r.plan[i]
  BY DEF Sound
<1>4. \A j \in 1..Len(p.created) :
        /\ p.created[j].config = r.encoding
        /\ \/ \E i \in 1..Len(p.got) : p.got[i].leaf = p.created[j].leaf
           \/ t \in {"translate", "download", "bind"} /\ p.created[j].leaf = r.plan[p.position]
  BY DEF Sound
<1>5. t \in {"translate", "download", "bind"} =>
        \E j \in 1..Len(p.created) : p.created[j].leaf = r.plan[p.position]
  <2>1. CASE s # "leaf"
    BY <2>1 DEF Sound
  <2>2. CASE s = "leaf" /\ t = "bind"
    <3>1. PICK i \in 1..Len(q.got) : q.got[i].leaf = r.plan[q.position]
      BY <2>2
    <3>2. /\ q.got[i].leaf = r.plan[i] /\ q.got[i].translation \in 1..Len(q.created)
          /\ q.created[q.got[i].translation].leaf = r.plan[i]
      BY DEF Sound
    <3> QED
      BY <3>1, <3>2
  <2> QED
    BY <2>1, <2>2
<1> QED
  BY <1>1, <1>2, <1>3, <1>4, <1>5 DEF Sound

\* A planner that is not acquiring steps: the acquisitions are as they were.
LEMMA PlanningStep ==
  ASSUME AcquisitionInv, NEW a \in Planners, NEW s,
         pstep[a] \notin Working \cup {"acquired"}, s \notin Working \cup {"acquired"},
         pstep' = [pstep EXCEPT ![a] = s], acquisition' = acquisition,
         \A b \in Planners : b # a => handle'[b] = handle[b]
  PROVE  AcquisitionsAreSound'
<1>1. ASSUME NEW b \in Acquirers, b # a
      PROVE  pstep'[b] = pstep[b] /\ handle'[b] = handle[b] /\ acquisition'[b] = acquisition[b]
  BY <1>1, AcquisitionAssumption DEF AcquisitionInv, AcquisitionTypeOK
<1>2. a \in Acquirers => pstep'[a] \notin Working \cup {"acquired"}
  BY DEF AcquisitionInv, AcquisitionTypeOK
<1> QED
  BY <1>1, <1>2 DEF AcquisitionInv, AcquisitionsAreSound

\* An acquirer steps from s to t with the record p: its own acquisition is
\* sound by assumption, the others are as they were.
LEMMA AcquirerStep ==
  ASSUME AcquisitionInv, NEW a \in Acquirers, NEW p \in AcquisitionRecord,
         NEW t \in Working \cup {"acquired", "failed"},
         pstep[a] \in Working \cup {"planned"},
         pstep' = [pstep EXCEPT ![a] = t], acquisition' = [acquisition EXCEPT ![a] = p],
         UNCHANGED <<encodings, provenance, resets, request, handle>>,
         t \in Working \cup {"acquired"} => Sound(p, handle[a], t),
         TranslatedOnce(p), p.leafElapsed <= p.elapsed
  PROVE  AcquisitionInv'
<1> USE AcquisitionAssumption DEF AcquisitionInv
<1>1. acquisition' \in [Acquirers -> AcquisitionRecord]
  OBVIOUS
<1>2. AcquisitionTypeOK'
  BY <1>1 DEF AcquisitionTypeOK, Working, AcquisitionRecord
<1>3. PlannerHolds'
  BY DEF PlannerHolds, AcquisitionTypeOK, Working
<1>4. HandleIsRecorded'
  BY DEF HandleIsRecorded
<1>5. AcquisitionsAreSound'
  <2>1. ASSUME NEW b \in Acquirers, b # a
        PROVE  pstep'[b] = pstep[b] /\ handle'[b] = handle[b] /\ acquisition'[b] = acquisition[b]
    BY <2>1 DEF AcquisitionTypeOK
  <2>2. pstep'[a] = t /\ handle'[a] = handle[a] /\ acquisition'[a] = p
    BY DEF AcquisitionTypeOK
  <2> QED
    BY <2>1, <2>2 DEF AcquisitionsAreSound
<1> QED
  BY <1>1, <1>2, <1>3, <1>4, <1>5

LEMMA FailLeafStep ==
  ASSUME AcquisitionInv, NEW a \in Acquirers, pstep[a] \in Working \cup {"planned"}, FailLeaf(a),
         UNCHANGED <<encodings, provenance, resets, request, handle>>
  PROVE  AcquisitionInv'
  BY AcquirerStep, IdleIsTyped DEF FailLeaf, PlannerGoto, Update, Working

LEMMA AcquisitionInvNext == AcquisitionInv /\ [AcquisitionNext]_acquisitionVars => AcquisitionInv'
<1> SUFFICES ASSUME AcquisitionInv, [AcquisitionNext]_acquisitionVars PROVE AcquisitionInv'
  OBVIOUS
<1> USE AcquisitionAssumption
<1>1. ASSUME NEW a \in Planners, NEW c \in Configs, resolve_encoding(a, c) PROVE AcquisitionInv'
  <2>1. /\ pstep[a] = "idle" /\ pstep' = [pstep EXCEPT ![a] = "plan"]
        /\ UNCHANGED <<provenance, resets, handle, acquisition>>
    BY <1>1 DEF resolve_encoding, PlannerGoto
  <2>2. PICK id \in EncodedIds :
          /\ encodings' = [encodings EXCEPT ![c] = id]
          /\ request' = [request EXCEPT ![a] = [config |-> c, id |-> id]]
    BY <1>1 DEF resolve_encoding, AcquisitionInv, AcquisitionTypeOK
  <2>3. [config |-> c, id |-> id] \in EncodingOf
    BY DEF EncodingOf
  <2>4. AcquisitionTypeOK'
    BY <2>1, <2>2, <2>3 DEF AcquisitionInv, AcquisitionTypeOK
  <2>5. PlannerHolds'
    BY <2>1, <2>2, <2>3 DEF AcquisitionInv, AcquisitionTypeOK, PlannerHolds, Working
  <2>6. HandleIsRecorded' /\ AcquisitionsAreSound'
    BY <2>1, PlanningStep DEF AcquisitionInv, HandleIsRecorded, Working
  <2> QED
    BY <2>1, <2>4, <2>5, <2>6 DEF AcquisitionInv
<1>2. ASSUME NEW a \in Planners, plan_selection(a) PROVE AcquisitionInv'
  <2>1. PICK s \in {"record", "failed"} : pstep' = [pstep EXCEPT ![a] = s]
    BY <1>2 DEF plan_selection, PlannerGoto
  <2>2. /\ pstep[a] = "plan"
        /\ UNCHANGED <<encodings, provenance, resets, request, handle, acquisition>>
    BY <1>2 DEF plan_selection
  <2>3. AcquisitionTypeOK' /\ PlannerHolds' /\ HandleIsRecorded'
    BY <2>1, <2>2
       DEF AcquisitionInv, AcquisitionTypeOK, PlannerHolds, HandleIsRecorded, Working
  <2>4. AcquisitionsAreSound'
    BY <2>1, <2>2, PlanningStep DEF Working
  <2> QED
    BY <2>2, <2>3, <2>4 DEF AcquisitionInv
<1>3. ASSUME NEW a \in Planners, pstep[a] \in {"record", "reread"}
      PROVE  Candidate(a) \in Provenance
  BY <1>3 DEF Candidate, Provenance, EncodingOf, Plans, AcquisitionInv, PlannerHolds
<1>4. ASSUME NEW a \in Planners, record_acquisition_provenance(a) PROVE AcquisitionInv'
  <2>1. PICK s \in {"reread", "failed"} : pstep' = [pstep EXCEPT ![a] = s]
    BY <1>4 DEF record_acquisition_provenance, PlannerGoto
  <2>2. /\ pstep[a] = "record"
        /\ UNCHANGED <<encodings, resets, request, handle, acquisition>>
    BY <1>4 DEF record_acquisition_provenance
  <2>3. Candidate(a) \in Provenance /\ Candidate(a).plan \in Plans
    BY <1>3, <2>2 DEF Provenance
  <2>4. \/ provenance' = provenance
        \/ /\ provenance' = [provenance EXCEPT ![Candidate(a).plan] = Candidate(a)]
           /\ provenance[Candidate(a).plan] \in {None, Candidate(a)}
    BY <1>4 DEF record_acquisition_provenance
  <2>5. AcquisitionTypeOK'
    BY <2>1, <2>2, <2>3, <2>4 DEF AcquisitionInv, AcquisitionTypeOK
  <2>6. PlannerHolds'
    BY <2>1, <2>2 DEF AcquisitionInv, AcquisitionTypeOK, PlannerHolds, Working
  <2>7. HandleIsRecorded'
    BY <2>2, <2>3, <2>4 DEF AcquisitionInv, AcquisitionTypeOK, HandleIsRecorded, Provenance
  <2>8. AcquisitionsAreSound'
    BY <2>1, <2>2, PlanningStep DEF Working
  <2> QED
    BY <2>2, <2>5, <2>6, <2>7, <2>8 DEF AcquisitionInv
<1>5. ASSUME NEW a \in Planners, NEW r \in Provenance, provenance[r.plan] = r,
             pstep[a] \in {"idle", "reread"},
             pstep' = [pstep EXCEPT ![a] = "planned"], handle' = [handle EXCEPT ![a] = r],
             UNCHANGED <<encodings, provenance, resets, request, acquisition>>
      PROVE  AcquisitionInv'
  <2>1. AcquisitionTypeOK' /\ PlannerHolds'
    BY <1>5 DEF AcquisitionInv, AcquisitionTypeOK, PlannerHolds, Working
  <2>2. HandleIsRecorded'
    BY <1>5 DEF AcquisitionInv, AcquisitionTypeOK, HandleIsRecorded
  <2>3. AcquisitionsAreSound'
    BY <1>5, PlanningStep DEF AcquisitionInv, AcquisitionTypeOK, Working
  <2> QED
    BY <1>5, <2>1, <2>2, <2>3 DEF AcquisitionInv
<1>6. ASSUME NEW a \in Planners, pstep[a] \in {"idle", "reread"},
             pstep' = [pstep EXCEPT ![a] = "failed"], handle' = handle,
             UNCHANGED <<encodings, provenance, resets, request, acquisition>>
      PROVE  AcquisitionInv'
  <2>1. AcquisitionTypeOK' /\ PlannerHolds' /\ HandleIsRecorded'
    BY <1>6 DEF AcquisitionInv, AcquisitionTypeOK, PlannerHolds, HandleIsRecorded, Working
  <2>2. AcquisitionsAreSound'
    BY <1>6, PlanningStep DEF Working
  <2> QED
    BY <1>6, <2>1, <2>2 DEF AcquisitionInv
<1>7. ASSUME NEW a \in Planners, Reread(a) PROVE AcquisitionInv'
  <2>1. Candidate(a) \in Provenance
    BY <1>3, <1>7 DEF Reread
  <2> QED
    BY <1>5, <1>6, <1>7, <2>1 DEF Reread, read_association, PlannerGoto
<1>8. ASSUME NEW a \in Planners, NEW p \in Plans, lookup_acquisition_plan(a, p)
      PROVE  AcquisitionInv'
  <2>1. provenance[p] \in Provenance
    BY <1>8 DEF lookup_acquisition_plan, AcquisitionInv, AcquisitionTypeOK
  <2> QED
    BY <1>5, <1>6, <1>8, <2>1 DEF lookup_acquisition_plan, read_association, PlannerGoto
<1>9. ASSUME NEW a \in Planners, AcquisitionStep(a)
      PROVE  /\ a \in Acquirers /\ handle[a] \in Provenance /\ acquisition[a] \in AcquisitionRecord
             /\ pstep[a] \in Working \cup {"planned"}
             /\ pstep[a] \in Working => Sound(acquisition[a], handle[a], pstep[a])
             /\ TranslatedOnce(acquisition[a])
             /\ acquisition[a].leafElapsed <= acquisition[a].elapsed
             /\ UNCHANGED <<encodings, provenance, resets, request, handle>>
  BY <1>9 DEF AcquisitionStep, acquire_with_timing, create_geometry_translation,
     poll_geometry_translation, download_geometry, Bind, AcquisitionInv, PlannerHolds,
     AcquisitionsAreSound, Working
<1>10. ASSUME NEW a \in Planners, AcquisitionStep(a), FailLeaf(a) PROVE AcquisitionInv'
  BY <1>9, <1>10, FailLeafStep
<1>11. ASSUME NEW a \in Planners, acquire_with_timing(a) PROVE AcquisitionInv'
  <2>1. AcquisitionStep(a)
    BY <1>11 DEF AcquisitionStep
  <2> DEFINE p == [Idle EXCEPT !.position = 1]
  <2>2. /\ p \in AcquisitionRecord /\ TranslatedOnce(p) /\ p.leafElapsed <= p.elapsed
        /\ Len(p.got) = 0 /\ Len(p.created) = 0 /\ p.position = 1
    <3>1. p = [position |-> 1, elapsed |-> 0, leafElapsed |-> 0, polls |-> 0,
               state |-> None, got |-> <<>>, created |-> <<>>]
      BY DEF Idle
    <3>2. PlanTime \in Nat /\ MaxPolls \in Nat
      OBVIOUS
    <3> HIDE DEF p
    <3> QED
      BY <3>1, <3>2 DEF AcquisitionRecord, TranslatedOnce
  <2>3. Len(handle[a].plan) \in Nat /\ 1 \in 1..Len(handle[a].plan)
    BY <1>9, <2>1 DEF Provenance
  <2>4. Sound(p, handle[a], "leaf")
    BY <2>2, <2>3 DEF Sound
  <2> HIDE DEF p
  <2>5. CASE PlannerGoto(a, "leaf") /\ Update(a, p)
    BY <1>9, <2>1, <2>2, <2>4, <2>5, AcquirerStep DEF PlannerGoto, Update, Working
  <2> QED
    BY <1>10, <1>11, <2>1, <2>5 DEF acquire_with_timing, p
<1>12. ASSUME NEW a \in Planners, create_geometry_translation(a) PROVE AcquisitionInv'
  <2>1. AcquisitionStep(a) /\ pstep[a] = "leaf" /\ Sound(acquisition[a], handle[a], "leaf")
    BY <1>9, <1>12 DEF AcquisitionStep, create_geometry_translation, Working
  <2>2. ASSUME ~ Acquired(a, Binding(a)), PlannerGoto(a, "translate"),
               NEW state \in {"ACTIVE", "DONE", "FAILED"},
               Update(a, [acquisition[a] EXCEPT
                 !.leafElapsed = 0, !.polls = 0, !.state = state,
                 !.created = Append(@, [leaf |-> Binding(a), config |-> handle[a].encoding])])
        PROVE  AcquisitionInv'
    <3> DEFINE q == acquisition[a]
               new == [leaf |-> Binding(a), config |-> handle[a].encoding]
               p == [q EXCEPT !.leafElapsed = 0, !.polls = 0, !.state = state,
                       !.created = Append(@, new)]
    <3>1. Binding(a) \in PlannedLeaves
      BY <1>9, <2>1 DEF Binding, Provenance, Sound, Working
    <3>2. new \in [leaf : PlannedLeaves, config : EncodingOf]
      BY <1>9, <2>1, <3>1 DEF Provenance
    <3> HIDE DEF new
    <3>3. p \in AcquisitionRecord /\ p.leafElapsed <= p.elapsed
      <4>1. q \in AcquisitionRecord /\ PlanTime \in Nat /\ MaxPolls \in Nat
        BY <1>9, <2>1
      <4>2. Append(q.created, new) \in Seq([leaf : PlannedLeaves, config : EncodingOf])
        BY <4>1, <3>2 DEF AcquisitionRecord
      <4>3. 0 \in 0..PlanTime /\ 0 \in 0..MaxPolls
        BY <4>1
      <4>4. p.leafElapsed = 0 /\ p.elapsed = q.elapsed /\ q.elapsed \in 0..PlanTime
        BY <4>1 DEF AcquisitionRecord
      <4>5. 0 <= p.elapsed
        BY <4>1, <4>4
      <4> HIDE AcquisitionAssumption
      <4> DEFINE cs == Append(q.created, new)
      <4>6. p = [q EXCEPT !.leafElapsed = 0, !.polls = 0, !.state = state, !.created = cs]
        OBVIOUS
      <4> HIDE DEF cs, p, q
      <4>7. p \in AcquisitionRecord
        BY <4>1, <4>2, <4>3, <4>6 DEF AcquisitionRecord, cs
      <4> QED
        BY <4>4, <4>5, <4>7
    <3>4. Sound(p, handle[a], "translate") /\ TranslatedOnce(p)
      BY <1>9, <2>1, <2>2, <3>3, SoundCreate DEF Acquired, Binding, new
    <3>5. Update(a, p)
      BY <2>2 DEF new
    <3> HIDE DEF p
    <3> QED
      BY <1>9, <2>1, <2>2, <3>3, <3>4, <3>5, AcquirerStep DEF PlannerGoto, Update, Working
  <2>3. CASE Acquired(a, Binding(a)) /\ PlannerGoto(a, "bind") /\ Update(a, acquisition[a])
    <3>1. \E i \in 1..Len(acquisition[a].got) :
            acquisition[a].got[i].leaf = handle[a].plan[acquisition[a].position]
      <4>1. DOMAIN acquisition[a].got = 1..Len(acquisition[a].got)
        BY <1>9, <2>1 DEF AcquisitionRecord
      <4> QED
        BY <2>3, <4>1 DEF Acquired, Binding
    <3>2. Sound(acquisition[a], handle[a], "bind")
      BY <1>9, <2>1, <3>1, SoundWait DEF Working
    <3> QED
      BY <1>9, <2>1, <2>3, <3>2, AcquirerStep DEF PlannerGoto, Update, Working
  <2> QED
    BY <1>10, <1>12, <2>1, <2>2, <2>3 DEF create_geometry_translation
<1>13. ASSUME NEW a \in Planners, poll_geometry_translation(a) PROVE AcquisitionInv'
  <2>1. AcquisitionStep(a) /\ pstep[a] = "translate" /\ Sound(acquisition[a], handle[a], "translate")
    BY <1>9, <1>13 DEF AcquisitionStep, poll_geometry_translation, Working
  <2>2. ASSUME acquisition[a].polls < MaxPolls, pstep' = pstep,
               NEW state \in {"ACTIVE", "DONE", "FAILED"},
               Update(a, [acquisition[a] EXCEPT !.polls = @ + 1, !.state = state])
        PROVE  AcquisitionInv'
    <3> DEFINE q == acquisition[a]
               p == [q EXCEPT !.polls = @ + 1, !.state = state]
    <3>1. /\ p \in AcquisitionRecord /\ p.leafElapsed <= p.elapsed
          /\ p.got = q.got /\ p.created = q.created /\ p.position = q.position
      <4>1. q \in AcquisitionRecord /\ MaxPolls \in Nat /\ q.leafElapsed <= q.elapsed
        BY <1>9, <2>1
      <4>2. q.polls + 1 \in 0..MaxPolls
        BY <2>2, <4>1 DEF AcquisitionRecord
      <4> QED
        BY <4>1, <4>2 DEF AcquisitionRecord
    <3> HIDE DEF p
    <3>2. Sound(p, handle[a], "translate") /\ TranslatedOnce(p)
      BY <1>9, <2>1, <3>1, SoundWait DEF Working
    <3>3. pstep' = [pstep EXCEPT ![a] = "translate"]
      BY <2>1, <2>2 DEF AcquisitionInv, AcquisitionTypeOK
    <3> QED
      BY <1>9, <2>1, <2>2, <3>1, <3>2, <3>3, AcquirerStep DEF Update, Working, p
  <2>3. CASE PlannerGoto(a, "download") /\ Update(a, acquisition[a])
    <3>1. Sound(acquisition[a], handle[a], "download")
      BY <1>9, <2>1, SoundWait DEF Working
    <3> QED
      BY <1>9, <2>1, <2>3, <3>1, AcquirerStep DEF PlannerGoto, Update, Working
  <2> QED
    BY <1>10, <1>13, <2>1, <2>2, <2>3 DEF poll_geometry_translation
<1>14. ASSUME NEW a \in Planners, download_geometry(a) PROVE AcquisitionInv'
  <2>1. AcquisitionStep(a) /\ pstep[a] = "download" /\ Sound(acquisition[a], handle[a], "download")
    BY <1>9, <1>14 DEF AcquisitionStep, download_geometry, Working
  <2>2. CASE PlannerGoto(a, "bind") /\ Update(a, acquisition[a])
    <3>1. Sound(acquisition[a], handle[a], "bind")
      BY <1>9, <2>1, SoundWait DEF Working
    <3> QED
      BY <1>9, <2>1, <2>2, <3>1, AcquirerStep DEF PlannerGoto, Update, Working
  <2> QED
    BY <1>10, <1>14, <2>1, <2>2 DEF download_geometry
<1>15. ASSUME NEW a \in Planners, Bind(a) PROVE AcquisitionInv'
  <2>1. AcquisitionStep(a) /\ pstep[a] = "bind" /\ Sound(acquisition[a], handle[a], "bind")
    BY <1>9, <1>15 DEF AcquisitionStep, Bind, Working
  <2> DEFINE q == acquisition[a]
             p == [q EXCEPT !.got = Append(@, [leaf |-> handle[a].plan[q.position],
                                translation |-> TranslationOf(q, handle[a].plan[q.position])]),
                            !.position = @ + 1]
             s == IF q.position = Len(handle[a].plan) THEN "acquired" ELSE "leaf"
  <2>2. CASE Update(a, p) /\ PlannerGoto(a, s)
    <3>1. p \in AcquisitionRecord /\ Sound(p, handle[a], s) /\ TranslatedOnce(p)
      BY <1>9, <2>1, SoundBind
    <3>2. p.leafElapsed <= p.elapsed /\ s \in Working \cup {"acquired", "failed"}
      BY <1>9, <2>1 DEF AcquisitionRecord, Working
    <3> HIDE DEF p, s
    <3> QED
      BY <1>9, <2>1, <2>2, <3>1, <3>2, AcquirerStep DEF PlannerGoto, Update
  <2> QED
    BY <1>10, <1>15, <2>1, <2>2 DEF Bind, Binding
<1>16. ASSUME NEW a \in Planners, EndPlanner(a) PROVE AcquisitionInv'
  <2>1. acquisition' \in [Acquirers -> AcquisitionRecord]
    BY <1>16, IdleIsTyped DEF EndPlanner, AcquisitionInv
  <2>2. AcquisitionTypeOK'
    BY <1>16, <2>1 DEF EndPlanner, PlannerGoto, AcquisitionInv, AcquisitionTypeOK, AcquisitionRecord
  <2>3. PlannerHolds' /\ HandleIsRecorded'
    BY <1>16 DEF EndPlanner, PlannerGoto, AcquisitionInv, AcquisitionTypeOK, PlannerHolds,
       HandleIsRecorded, Working
  <2>4. AcquisitionsAreSound'
    <3>1. ASSUME NEW b \in Acquirers, b # a
          PROVE  pstep'[b] = pstep[b] /\ handle'[b] = handle[b] /\ acquisition'[b] = acquisition[b]
      BY <1>16, <3>1 DEF EndPlanner, PlannerGoto, AcquisitionInv, AcquisitionTypeOK
    <3>2. a \in Acquirers => pstep'[a] = "idle" /\ acquisition'[a] = Idle
      BY <1>16 DEF EndPlanner, PlannerGoto, AcquisitionInv, AcquisitionTypeOK
    <3> QED
      BY <3>1, <3>2, IdleIsTyped DEF AcquisitionInv, AcquisitionsAreSound, Working
  <2> QED
    BY <2>1, <2>2, <2>3, <2>4 DEF AcquisitionInv
<1>17. ASSUME NEW a \in Acquirers, Tick(a) PROVE AcquisitionInv'
  <2> DEFINE q == acquisition[a]
             p == [q EXCEPT !.elapsed = @ + 1, !.leafElapsed = @ + 1]
  <2>1. /\ pstep[a] \in Working /\ q \in AcquisitionRecord /\ q.leafElapsed <= q.elapsed
        /\ Sound(q, handle[a], pstep[a]) /\ TranslatedOnce(q) /\ q.elapsed < PlanTime
    BY <1>17 DEF Tick, AcquisitionInv, AcquisitionsAreSound, Working
  <2>2. /\ p \in AcquisitionRecord /\ p.leafElapsed <= p.elapsed
        /\ p.got = q.got /\ p.created = q.created /\ p.position = q.position
    <3>1. q.elapsed + 1 \in 0..PlanTime /\ q.leafElapsed + 1 \in 0..PlanTime
          /\ q.leafElapsed + 1 <= q.elapsed + 1
      BY <2>1 DEF AcquisitionRecord
    <3> QED
      BY <2>1, <3>1 DEF AcquisitionRecord
  <2>3. acquisition' = [acquisition EXCEPT ![a] = p] /\ pstep' = pstep
        /\ UNCHANGED <<encodings, provenance, resets, request, handle>>
    BY <1>17 DEF Tick, Update, planning
  <2> HIDE DEF p
  <2>4. Sound(p, handle[a], pstep[a]) /\ TranslatedOnce(p)
    BY <2>1, <2>2, SoundWait
  <2>5. pstep' = [pstep EXCEPT ![a] = pstep[a]]
    BY <2>3 DEF AcquisitionInv, AcquisitionTypeOK
  <2> QED
    BY <2>1, <2>2, <2>3, <2>4, <2>5, AcquirerStep
<1>18. CASE ResetEncodings
  BY <1>18 DEF ResetEncodings, planning, AcquisitionInv, AcquisitionTypeOK, PlannerHolds,
     HandleIsRecorded, AcquisitionsAreSound
<1>19. CASE UNCHANGED acquisitionVars
  BY <1>19 DEF acquisitionVars, planning, AcquisitionInv, AcquisitionTypeOK, PlannerHolds,
     HandleIsRecorded, AcquisitionsAreSound
<1> QED
  BY <1>1, <1>2, <1>4, <1>7, <1>8, <1>11, <1>12, <1>13, <1>14, <1>15, <1>16, <1>17, <1>18, <1>19
     DEF AcquisitionNext, AcquisitionStep

\* record_acquisition_provenance and acquire_with_timing: however planners race
\* on one plan identity and the encodings are reset in between, every handle is
\* the recorded one, and a finished acquisition has for each object of the plan
\* the payload of its leaf in the recorded configuration, each leaf translated
\* once.
THEOREM AcquisitionsAreBound == AcquisitionSpec => []AcquisitionIsBound
<1>1. AcquisitionInv => AcquisitionIsBound
  <2> SUFFICES ASSUME AcquisitionInv PROVE AcquisitionIsBound
    OBVIOUS
  <2>1. ASSUME NEW a \in Acquirers
        PROVE  /\ DOMAIN acquisition[a].got = 1..Len(acquisition[a].got)
               /\ DOMAIN acquisition[a].created = 1..Len(acquisition[a].created)
    BY DEF AcquisitionInv, AcquisitionRecord
  <2>2. AcquiredIsBound
    BY <2>1 DEF AcquisitionInv, AcquisitionsAreSound, AcquiredIsBound, Sound
  <2>3. OneTranslationPerLeaf
    BY <2>1 DEF AcquisitionInv, AcquisitionsAreSound, OneTranslationPerLeaf, TranslatedOnce
  <2> QED
    BY <2>2, <2>3 DEF AcquisitionInv, AcquisitionIsBound
<1> QED
  BY <1>1, AcquisitionInvInit, AcquisitionInvNext, PTL DEF AcquisitionSpec

-----------------------------------------------------------------------------
(* SelectionPlanning.                                                      *)

\* The phase that reads the configured leaves.
LeafGate == IF selection.kind = "part studio" THEN 3 ELSE 8

\* What is left of a request that no one is planning, and of one that failed.
RestsBetween ==
  /\ selection \in SelectionRequests \cup {None}
  /\ selection = None =>
       /\ gate = 0 /\ seen = <<>> /\ leaves = <<>> /\ pending = {} /\ texts = <<>>
       /\ candidates = <<>> /\ plan = None /\ failure = None
  /\ failure # None => gate = 0 /\ plan = None

Planning == selection # None /\ failure = None

Preflighted == Planning => Len(selection.selectors) \in 1..MaxSelectors /\ Invalid(selection) = {}

\* The phases of the root: the leaves are those of the positions the leaf
\* phase supported, and after it of all.
AtRoot ==
  Planning /\ candidates = <<>> =>
    /\ pending = {} /\ gate \in 0..Len(Gates)
    /\ DOMAIN seen \subseteq DOMAIN selection.selectors
    /\ gate = 0 => DOMAIN seen = {}
    /\ gate < LeafGate => DOMAIN leaves = {}
    /\ gate = LeafGate => DOMAIN leaves = {p \in DOMAIN seen : seen[p] = "supported"}
    /\ gate > LeafGate => DOMAIN leaves = DOMAIN selection.selectors

\* The phases of the carriers: a position whose carrier was read has the
\* marker of its leaf, and no other position of the request is missing.
AtCarriers ==
  Planning /\ candidates # <<>> =>
    /\ DOMAIN leaves = DOMAIN selection.selectors
    /\ DOMAIN candidates = DOMAIN selection.selectors
    /\ pending \subseteq DOMAIN selection.selectors
    /\ selection.kind = "part studio" => pending = {}
    /\ gate \in 0..Len(CarrierGates) /\ (pending = {} => gate = 0)
    /\ DOMAIN seen \subseteq Scope /\ (gate = 0 => DOMAIN seen = {})
    /\ \A p \in DOMAIN candidates \ pending :
         leaves[p] \in DOMAIN texts /\ candidates[p] = texts[leaves[p]]

\* What a phase has read of the positions.
RowsRead ==
  Planning =>
    /\ \A p \in DOMAIN seen : seen[p] \in {"supported", "unsupported"}
    /\ \A p \in DOMAIN leaves :
         /\ leaves[p] \in Leaves
         /\ selection.kind = "part studio" =>
              leaves[p] = [carrier |-> RootCarrier, part |-> selection.selectors[p]]
    /\ gate # 0 /\ Gates[gate] = "names" => \A p \in DOMAIN seen : leaves[p] \in DOMAIN texts

\* A plan was made of what is still there, and the authoring rules hold of it.
PlanKept ==
  plan # None =>
    /\ Planning /\ gate = 0 /\ pending = {} /\ candidates # <<>>
    /\ validate_authoring_context(Authored)
    /\ plan = [kind |-> selection.kind, objects |-> PlanObjects]

SelectionInv ==
  /\ RestsBetween /\ Preflighted /\ AtRoot /\ AtCarriers /\ RowsRead /\ PlanKept
  /\ RejectionIsExact

\* Positions are numbers, so there is a lowest one.
LEMMA LowestIsLeast ==
  ASSUME NEW S, S \subseteq Nat, S # {}
  PROVE  Lowest(S) \in S /\ \A q \in S : Lowest(S) <= q
<1> DEFINE R == {ss \in Nat \X Nat : ss[1] < ss[2]}
<1>1. PICK x \in S : \A y \in S : ~ (<<y, x>> \in R)
  <2>1. IsWellFoundedOn(R, Nat)
    BY NatLessThanWellFounded, Zenon DEF OpToRel
  <2> HIDE DEF R
  <2> QED BY <2>1, WFMin
<1>2. \A y \in S : x <= y
  <2> TAKE y \in S
  <2>1. x \in Nat /\ y \in Nat
    OBVIOUS
  <2>2. ~ (<<y, x>> \in R)
    BY <1>1
  <2> QED BY <2>1, <2>2
<1> QED
  BY <1>2 DEF Lowest

\* Where the phases that the invariant speaks of are.
LEMMA PartStudioPhases ==
  /\ Len(PartStudioGates) = 6
  /\ \A g \in 1..6 : /\ PartStudioGates[g] = "identity" <=> g = 3
                     /\ PartStudioGates[g] # "leaf"
                     /\ PartStudioGates[g] = "names" <=> g = 6
                     /\ PartStudioGates[g] \in WholeGates <=> g \in {1, 4}
BY DEF PartStudioGates, WholeGates

LEMMA AssemblyPhases ==
  /\ Len(AssemblyGates) = 12
  /\ \A g \in 1..12 : /\ AssemblyGates[g] # "identity"
                      /\ AssemblyGates[g] = "leaf" <=> g = 8
                      /\ AssemblyGates[g] # "names"
                      /\ AssemblyGates[g] \in WholeGates <=> g \in {1, 10}
BY DEF AssemblyGates, WholeGates

LEMMA CarrierPhases ==
  /\ Len(CarrierGates) = 4
  /\ \A g \in 1..4 : /\ CarrierGates[g] \notin {"identity", "leaf"}
                     /\ CarrierGates[g] = "names" <=> g = 4
                     /\ CarrierGates[g] \in WholeGates <=> g = 1
BY DEF CarrierGates, WholeGates

\* What the provers are told of a sequence.
LEMMA SequenceFacts ==
  ASSUME NEW S, NEW s \in Seq(S)
  PROVE  /\ Len(s) \in Nat /\ DOMAIN s = 1..Len(s)
         /\ \A p \in DOMAIN s : s[p] \in S
         /\ s = [p \in 1..Len(s) |-> s[p]]
OBVIOUS

\* The positions of a request are numbers from 1, at least one of which passed
\* preflight.
LEMMA Positions ==
  ASSUME RestsBetween, Preflighted, Planning
  PROVE  /\ selection \in SelectionRequests
         /\ selection.kind \in {"part studio", "assembly"}
         /\ Len(selection.selectors) \in Nat \ {0}
         /\ DOMAIN selection.selectors = 1..Len(selection.selectors)
         /\ 1 \in DOMAIN selection.selectors
         /\ \A p \in DOMAIN selection.selectors :
              /\ selection.selectors[p] # None
              /\ selection.kind = "part studio" => selection.selectors[p] \in PartIds
              /\ selection.kind = "assembly" => selection.selectors[p] \in DOMAIN TransformOf
<1>1. selection \in SelectionRequests
  BY DEF RestsBetween, Planning
<1>2. selection.kind \in {"part studio", "assembly"}
  BY <1>1, SelectionAssumption
<1> DEFINE S == (IF selection.kind = "part studio" THEN PartIds ELSE DOMAIN TransformOf) \cup {None}
<1>3. selection.selectors \in Seq(S)
  BY <1>1, SelectionAssumption
<1>4. Len(selection.selectors) \in 1..MaxSelectors
  BY DEF Preflighted
<1>5. \A p \in DOMAIN selection.selectors : selection.selectors[p] \in S
  <2> HIDE DEF S
  <2> QED BY <1>3, SequenceFacts
<1>6. \A p \in DOMAIN selection.selectors : selection.selectors[p] # None
  BY DEF Preflighted, Invalid
<1>7. /\ Len(selection.selectors) \in Nat \ {0}
      /\ DOMAIN selection.selectors = 1..Len(selection.selectors)
  <2> HIDE DEF S
  <2> QED BY <1>3, <1>4, SequenceFacts
<1>8. 1 \in DOMAIN selection.selectors
  BY <1>7
<1> QED
  BY <1>1, <1>2, <1>5, <1>6, <1>7, <1>8

\* A failure leaves the request where it is; all but an unavailable one need
\* no position.
LEMMA Fails ==
  ASSUME SelectionInv, Planning, plan = None,
         NEW kind \in {"invalid", "unavailable"} \cup ApiFailures, NEW position \in Nat \cup {None},
         FailSelection(kind, position),
         kind = "unavailable" => RejectionIsExact'
  PROVE  SelectionInv'
<1>1. failure' \in Failures /\ failure' = [kind |-> kind, position |-> position]
  BY DEF FailSelection, Failures
<1>2. failure' # None
  BY <1>1, SelectionAssumption
<1>3. gate' = 0 /\ plan' = None /\ selection' = selection
  BY DEF FailSelection
<1>4. RestsBetween'
  BY <1>2, <1>3 DEF SelectionInv, RestsBetween, Planning
<1>5. (Preflighted /\ AtRoot /\ AtCarriers /\ RowsRead)'
  BY <1>2 DEF Preflighted, AtRoot, AtCarriers, RowsRead, Planning
<1>6. PlanKept'
  BY <1>3 DEF PlanKept
<1>7. RejectionIsExact'
  <2>1. CASE kind = "unavailable"
    BY <2>1
  <2>2. CASE kind # "unavailable"
    BY <1>1, <2>2 DEF RejectionIsExact, MalformedWinsWithinPhase, RejectionIsLocated
  <2> QED BY <2>1, <2>2
<1> QED
  BY <1>4, <1>5, <1>6, <1>7 DEF SelectionInv

LEMMA SelectionInvInit == SelectionInit => SelectionInv
BY SelectionAssumption DEF SelectionInit, SelectionInv, RestsBetween, Preflighted, AtRoot, AtCarriers,
   RowsRead, PlanKept, Planning, RejectionIsExact, MalformedWinsWithinPhase, RejectionIsLocated

LEMMA PreflightKeeps ==
  ASSUME SelectionInv, NEW r \in SelectionRequests, preflight_selection(r)
  PROVE  SelectionInv'
<1>1. /\ selection = None /\ gate = 0 /\ seen = <<>> /\ leaves = <<>> /\ pending = {}
      /\ texts = <<>> /\ candidates = <<>> /\ plan = None /\ failure = None
  BY DEF SelectionInv, RestsBetween, preflight_selection
<1>2. /\ selection' = r /\ r # None
      /\ gate' = 0 /\ seen' = <<>> /\ leaves' = <<>> /\ pending' = {}
      /\ texts' = <<>> /\ candidates' = <<>> /\ plan' = None
  BY <1>1, SelectionAssumption DEF preflight_selection
<1>3. failure' # None => failure'.kind = "invalid"
  BY DEF preflight_selection
<1>4. failure' = None => Len(r.selectors) \in 1..MaxSelectors /\ Invalid(r) = {}
  <2>1. CASE Len(r.selectors) \notin 1..MaxSelectors
    <3>1. failure' = [kind |-> "invalid", position |-> None]
      BY <2>1 DEF preflight_selection
    <3>2. failure' \in Failures
      BY <3>1 DEF Failures
    <3> QED BY <3>2, SelectionAssumption
  <2>2. CASE Len(r.selectors) \in 1..MaxSelectors /\ Invalid(r) # {}
    <3>1. failure' = [kind |-> "invalid", position |-> Lowest(Invalid(r))]
      BY <2>2 DEF preflight_selection
    <3>2. Invalid(r) \subseteq Nat
      <4> DEFINE S == (IF r.kind = "part studio" THEN PartIds ELSE DOMAIN TransformOf) \cup {None}
      <4>1. r.selectors \in Seq(S)
        BY SelectionAssumption
      <4> HIDE DEF S
      <4>2. DOMAIN r.selectors \subseteq Nat
        BY <4>1, SequenceFacts
      <4> QED BY <4>2 DEF Invalid
    <3>3. failure' \in Failures
      BY <2>2, <3>1, <3>2, LowestIsLeast DEF Failures
    <3> QED BY <3>3, SelectionAssumption
  <2> QED BY <2>1, <2>2
<1>5. RestsBetween'
  BY <1>2 DEF RestsBetween
<1>6. Preflighted'
  BY <1>2, <1>4 DEF Preflighted, Planning, Invalid
<1>7. AtRoot'
  BY <1>2 DEF AtRoot, LeafGate, Gates, PartStudioGates, AssemblyGates
<1>8. (AtCarriers /\ PlanKept)'
  BY <1>2 DEF AtCarriers, PlanKept
<1>9. RowsRead'
  BY <1>2 DEF RowsRead
<1>10. RejectionIsExact'
  BY <1>3 DEF RejectionIsExact, MalformedWinsWithinPhase, RejectionIsLocated
<1> QED
  BY <1>5, <1>6, <1>7, <1>8, <1>9, <1>10 DEF SelectionInv

\* Within a phase: the leaf phase is one of the root and not its last, the
\* markers are read in the last phase of a carrier and of a part studio.
LEMMA Phases ==
  ASSUME SelectionInv, gate # 0
  PROVE  /\ Planning /\ plan = None /\ gate \in 1..Len(Gates) /\ Len(Gates) \in Nat
         /\ candidates = <<>> => pending = {} /\ LeafGate \in 2..(Len(Gates) - 1)
         /\ candidates # <<>> => pending # {} /\ Len(Gates) = Len(CarrierGates)
         /\ Gates[gate] \in {"leaf", "identity"} <=> candidates = <<>> /\ gate = LeafGate
         /\ Gates[gate] = "identity" => selection.kind = "part studio"
         /\ Gates[gate] = "leaf" => selection.kind # "part studio"
         /\ Gates[gate] \in WholeGates => gate < Len(Gates) /\ (candidates = <<>> => gate # LeafGate)
         /\ gate = Len(Gates) => Gates[gate] = "names" \/ (candidates = <<>> /\ selection.kind # "part studio")
<1>1. Planning /\ plan = None
  BY DEF SelectionInv, RestsBetween, PlanKept, Planning
<1>2. selection.kind \in {"part studio", "assembly"}
  BY <1>1, Positions DEF SelectionInv
<1>3. CASE candidates = <<>>
  <2>1. pending = {} /\ gate \in 1..Len(Gates)
    BY <1>1, <1>3 DEF SelectionInv, AtRoot
  <2>2. CASE selection.kind = "part studio"
    <3>1. Gates = PartStudioGates /\ LeafGate = 3
      BY <2>1, <2>2 DEF Gates, LeafGate
    <3>2. gate \in 1..6 /\ Len(Gates) = 6
      BY <2>1, <3>1, PartStudioPhases
    <3>3. /\ Gates[gate] = "identity" <=> gate = 3
          /\ Gates[gate] # "leaf"
          /\ Gates[gate] = "names" <=> gate = 6
          /\ Gates[gate] \in WholeGates <=> gate \in {1, 4}
      BY <3>1, <3>2, PartStudioPhases
    <3>4. Planning /\ plan = None /\ gate \in 1..Len(Gates) /\ Len(Gates) \in Nat
      BY <1>1, <3>2
    <3>5. candidates = <<>> => pending = {} /\ LeafGate \in 2..(Len(Gates) - 1)
      BY <2>1, <3>1, <3>2
    <3>6. candidates # <<>> => pending # {} /\ Len(Gates) = Len(CarrierGates)
      BY <1>3
    <3>7. Gates[gate] \in {"leaf", "identity"} <=> candidates = <<>> /\ gate = LeafGate
      BY <1>3, <3>1, <3>2, <3>3
    <3>8. Gates[gate] \in WholeGates => gate < Len(Gates) /\ (candidates = <<>> => gate # LeafGate)
      BY <3>1, <3>2, <3>3
    <3>9. gate = Len(Gates) => Gates[gate] = "names" \/ (candidates = <<>> /\ selection.kind # "part studio")
      BY <3>2, <3>3
    <3> QED BY <2>2, <3>3, <3>4, <3>5, <3>6, <3>7, <3>8, <3>9
  <2>3. CASE selection.kind = "assembly"
    <3>1. Gates = AssemblyGates /\ LeafGate = 8
      BY <2>1, <2>3 DEF Gates, LeafGate
    <3> QED BY <1>1, <1>3, <2>1, <2>3, <3>1, AssemblyPhases
  <2> QED BY <1>2, <2>2, <2>3
<1>4. CASE candidates # <<>>
  <2>1. gate \in 0..Len(CarrierGates) /\ (pending = {} => gate = 0)
    BY <1>1, <1>4 DEF SelectionInv, AtCarriers
  <2>2. pending # {} /\ gate \in 1..4 /\ Len(CarrierGates) = 4
    BY <2>1, CarrierPhases
  <2>3. Gates = CarrierGates
    BY <2>2 DEF Gates
  <2>4. /\ Gates[gate] \notin {"leaf", "identity"}
        /\ Gates[gate] = "names" <=> gate = 4
        /\ Gates[gate] \in WholeGates <=> gate = 1
    BY <2>2, <2>3, CarrierPhases
  <2>5. Len(Gates) = Len(CarrierGates) /\ gate \in 1..Len(Gates) /\ Len(Gates) \in Nat
    BY <2>2, <2>3
  <2>6. gate = Len(Gates) => Gates[gate] = "names"
    BY <2>2, <2>4, <2>5
  <2>7. Gates[gate] \in WholeGates => gate < Len(Gates)
    BY <2>2, <2>4, <2>5
  <2> QED BY <1>1, <1>4, <2>2, <2>4, <2>5, <2>6, <2>7
<1> QED BY <1>3, <1>4

\* The positions a phase reads are positions of the request.
LEMMA Scoped ==
  ASSUME SelectionInv, gate # 0
  PROVE  /\ Scope \subseteq DOMAIN selection.selectors /\ Scope \subseteq Nat
         /\ DOMAIN seen \subseteq Scope
         /\ candidates = <<>> => Scope = DOMAIN selection.selectors
         /\ candidates # <<>> => Scope = Group /\ Scope \subseteq pending
<1>1. Planning /\ (candidates = <<>> => pending = {}) /\ (candidates # <<>> => pending # {})
  BY Phases
<1>2. DOMAIN selection.selectors \subseteq Nat
  <2>1. /\ Len(selection.selectors) \in Nat
        /\ DOMAIN selection.selectors = 1..Len(selection.selectors)
    BY <1>1, Positions DEF SelectionInv
  <2> QED BY <2>1
<1>3. CASE candidates = <<>>
  BY <1>1, <1>2, <1>3 DEF SelectionInv, AtRoot, Scope
<1>4. CASE candidates # <<>>
  BY <1>1, <1>2, <1>4 DEF SelectionInv, AtCarriers, Scope, Group
<1> QED BY <1>3, <1>4

LEMMA PendingPositions ==
  ASSUME SelectionInv, Planning, candidates # <<>>
  PROVE  pending \subseteq DOMAIN selection.selectors /\ pending \subseteq Nat
<1>1. pending \subseteq DOMAIN selection.selectors
  BY DEF SelectionInv, AtCarriers
<1>2. /\ Len(selection.selectors) \in Nat
      /\ DOMAIN selection.selectors = 1..Len(selection.selectors)
  BY Positions DEF SelectionInv
<1> QED BY <1>1, <1>2

\* While a request is planned there is nothing to reject.
LEMMA NothingRejected ==
  ASSUME SelectionInv, Planning, failure' = failure
  PROVE  RejectionIsExact'
BY DEF Planning, RejectionIsExact, MalformedWinsWithinPhase, RejectionIsLocated

\* A phase of a carrier that begins has read nothing yet.
LEMMA NextCarrierPhase ==
  ASSUME AtCarriers, Planning, candidates # <<>>, pending # {},
         gate' \in 1..Len(CarrierGates), DOMAIN seen' = {},
         UNCHANGED <<selection, leaves, pending, texts, candidates, failure>>
  PROVE  AtCarriers'
<1>1. /\ DOMAIN leaves = DOMAIN selection.selectors
      /\ DOMAIN candidates = DOMAIN selection.selectors
      /\ pending \subseteq DOMAIN selection.selectors
      /\ selection.kind = "part studio" => pending = {}
      /\ \A p \in DOMAIN candidates \ pending :
           leaves[p] \in DOMAIN texts /\ candidates[p] = texts[leaves[p]]
  BY DEF AtCarriers
<1>2. gate' \in 0..Len(CarrierGates) /\ gate' # 0
  BY CarrierPhases
<1> QED BY <1>1, <1>2 DEF AtCarriers

LEMMA ReadRootKeeps ==
  ASSUME SelectionInv, NEW o \in ApiFailures \cup {"answered"}, read_root(o)
  PROVE  SelectionInv'
<1>1. Planning /\ plan = None /\ gate = 0 /\ candidates = <<>> /\ pending = {}
  BY DEF read_root, Planning
<1>2. CASE o \in ApiFailures
  <2>1. FailSelection(o, None)
    BY <1>2 DEF read_root
  <2>2. o # "unavailable"
    BY <1>2 DEF ApiFailures
  <2> QED BY <1>1, <1>2, <2>1, <2>2, Fails
<1>3. CASE o \notin ApiFailures
  <2>1. gate' = 1 /\ UNCHANGED <<selection, seen, leaves, pending, texts, candidates, plan, failure>>
    BY <1>3 DEF read_root
  <2>2. RestsBetween' /\ Preflighted'
    BY <1>1, <2>1 DEF SelectionInv, RestsBetween, Preflighted, Planning, Invalid
  <2>3. AtRoot'
    <3>1. selection.kind \in {"part studio", "assembly"}
      BY <1>1, Positions DEF SelectionInv
    <3>2. Len(Gates) >= 6 /\ LeafGate \in {3, 8} /\ Len(Gates) \in Nat
      <4>1. CASE selection.kind = "part studio"
        <5>1. Gates = PartStudioGates /\ LeafGate = 3
          BY <1>1, <4>1 DEF Gates, LeafGate
        <5> QED BY <5>1, PartStudioPhases
      <4>2. CASE selection.kind = "assembly"
        <5>1. Gates = AssemblyGates /\ LeafGate = 8
          BY <1>1, <4>2 DEF Gates, LeafGate
        <5> QED BY <5>1, AssemblyPhases
      <4> QED BY <3>1, <4>1, <4>2
    <3>3. Gates' = Gates /\ LeafGate' = LeafGate
      BY <2>1 DEF Gates, LeafGate
    <3>4. DOMAIN leaves = {} /\ DOMAIN seen = {}
      BY <1>1, <3>2 DEF SelectionInv, AtRoot
    <3> QED BY <2>1, <1>1, <3>2, <3>3, <3>4 DEF AtRoot
  <2>4. AtCarriers' /\ PlanKept'
    BY <1>1, <2>1 DEF AtCarriers, PlanKept
  <2>5. RowsRead'
    <3>1. DOMAIN seen = {}
      BY <1>1 DEF SelectionInv, AtRoot
    <3> QED BY <1>1, <2>1, <3>1 DEF SelectionInv, RowsRead, Planning
  <2>6. RejectionIsExact'
    BY <1>1, <2>1, NothingRejected
  <2> QED BY <2>2, <2>3, <2>4, <2>5, <2>6 DEF SelectionInv
<1> QED BY <1>2, <1>3

LEMMA ReadCarrierKeeps ==
  ASSUME SelectionInv, NEW o \in ApiFailures \cup {"answered"}, read_carrier(o)
  PROVE  SelectionInv'
<1>1. Planning /\ plan = None /\ gate = 0 /\ candidates # <<>> /\ pending # {}
  <2>1. gate = 0 /\ pending # {} /\ failure = None
    BY DEF read_carrier
  <2>2. Planning
    BY <2>1 DEF SelectionInv, RestsBetween, Planning
  <2> QED BY <2>1, <2>2 DEF SelectionInv, PlanKept, AtRoot
<1>2. pending \subseteq Nat
  BY <1>1, PendingPositions
<1>3. CASE o \in ApiFailures
  <2>1. FailSelection(o, Lowest(pending))
    BY <1>3 DEF read_carrier
  <2>2. o # "unavailable"
    BY <1>3 DEF ApiFailures
  <2>3. Lowest(pending) \in Nat
    BY <1>1, <1>2, LowestIsLeast
  <2> QED BY <1>1, <1>3, <2>1, <2>2, <2>3, Fails
<1>4. CASE o \notin ApiFailures
  <2>1. gate' = 1 /\ UNCHANGED <<selection, seen, leaves, pending, texts, candidates, plan, failure>>
    BY <1>4 DEF read_carrier
  <2>2. RestsBetween' /\ Preflighted'
    BY <1>1, <2>1 DEF SelectionInv, RestsBetween, Preflighted, Planning, Invalid
  <2>3. AtCarriers'
    <3>1. DOMAIN seen = {}
      BY <1>1 DEF SelectionInv, AtCarriers
    <3>2. AtCarriers /\ gate' \in 1..Len(CarrierGates)
      BY <2>1, CarrierPhases DEF SelectionInv
    <3> QED BY <1>1, <2>1, <3>1, <3>2, NextCarrierPhase
  <2>4. AtRoot' /\ PlanKept'
    BY <1>1, <2>1 DEF AtRoot, PlanKept
  <2>5. RowsRead'
    <3>1. DOMAIN seen = {}
      BY <1>1 DEF SelectionInv, AtCarriers
    <3> QED BY <1>1, <2>1, <3>1 DEF SelectionInv, RowsRead, Planning
  <2>6. RejectionIsExact'
    BY <1>1, <2>1, NothingRejected
  <2> QED BY <2>2, <2>3, <2>4, <2>5, <2>6 DEF SelectionInv
<1> QED BY <1>3, <1>4

LEMMA CheckAnswerKeeps ==
  ASSUME SelectionInv, NEW w \in BOOLEAN, CheckAnswer(w)
  PROVE  SelectionInv'
<1>1. gate # 0 /\ Gates[gate] \in WholeGates /\ Planning /\ plan = None
  BY Phases DEF CheckAnswer
<1>2. CASE ~ w
  <2>1. FailSelection("operational", WholePosition)
    BY <1>2 DEF CheckAnswer
  <2>2. WholePosition \in Nat \cup {None}
    <3>1. CASE pending # {}
      <4>1. candidates # <<>>
        BY <1>1, <3>1, Phases
      <4>2. pending \subseteq Nat
        BY <1>1, <4>1, PendingPositions
      <4> QED BY <3>1, <4>2, LowestIsLeast DEF WholePosition
    <3>2. CASE pending = {}
      BY <3>2 DEF WholePosition
    <3> QED BY <3>1, <3>2
  <2> QED BY <1>1, <2>1, <2>2, Fails DEF ApiFailures
<1>3. CASE w
  <2>1. /\ gate' = gate + 1 /\ seen' = <<>>
        /\ UNCHANGED <<selection, leaves, pending, texts, candidates, plan, failure>>
    BY <1>3 DEF CheckAnswer
  <2>2. RestsBetween' /\ Preflighted'
    BY <1>1, <2>1 DEF SelectionInv, RestsBetween, Preflighted, Planning, Invalid
  <2>3. Gates' = Gates /\ LeafGate' = LeafGate
    BY <2>1 DEF Gates, LeafGate
  <2>4. gate' \in 1..Len(Gates) /\ gate \in Nat
    <3>1. gate \in 1..Len(Gates) /\ Len(Gates) \in Nat /\ gate < Len(Gates)
      BY <1>1, Phases
    <3> QED BY <2>1, <3>1
  <2>5. AtRoot'
    <3> SUFFICES ASSUME candidates = <<>>
                 PROVE  AtRoot'
      BY <2>1 DEF AtRoot
    <3>1. pending = {} /\ LeafGate \in Nat /\ gate # LeafGate
      <4>1. pending = {} /\ gate # LeafGate
        BY <1>1, Phases
      <4> QED BY <4>1 DEF LeafGate
    <3>2. /\ gate < LeafGate => DOMAIN leaves = {}
          /\ gate > LeafGate => DOMAIN leaves = DOMAIN selection.selectors
      BY <1>1 DEF SelectionInv, AtRoot
    <3> QED BY <2>1, <2>3, <2>4, <3>1, <3>2 DEF AtRoot
  <2>6. AtCarriers'
    <3> SUFFICES ASSUME candidates # <<>>
                 PROVE  AtCarriers'
      BY <2>1 DEF AtCarriers
    <3>1. gate' \in 1..Len(CarrierGates) /\ pending # {}
      BY <1>1, <2>4, Phases
    <3>2. AtCarriers /\ DOMAIN seen' = {}
      BY <2>1 DEF SelectionInv
    <3> QED BY <1>1, <2>1, <3>1, <3>2, NextCarrierPhase
  <2>7. RowsRead'
    <3>1. RowsRead /\ Planning /\ DOMAIN seen' = {}
      BY <1>1, <2>1 DEF SelectionInv
    <3> QED BY <2>1, <3>1 DEF RowsRead, Planning
  <2>8. PlanKept'
    BY <1>1, <2>1 DEF PlanKept
  <2>9. RejectionIsExact'
    BY <1>1, <2>1, NothingRejected
  <2> QED BY <2>2, <2>5, <2>6, <2>7, <2>8, <2>9 DEF SelectionInv
<1> QED BY <1>2, <1>3

LEMMA NextSelectionKeeps ==
  ASSUME SelectionInv, NextSelection
  PROVE  SelectionInv'
BY SelectionAssumption DEF NextSelection, SelectionInv, RestsBetween, Preflighted, AtRoot, AtCarriers,
   RowsRead, PlanKept, Planning, RejectionIsExact, MalformedWinsWithinPhase, RejectionIsLocated

\* An entry that is read well formed: its verdict is added to those of the
\* phase, and what the phase reads of it to the leaves or the texts.
LEMMA ProjectKeeps ==
  ASSUME SelectionInv, NEW v \in {"supported", "unsupported", "malformed"}, Project(v)
  PROVE  SelectionInv'
<1>1. /\ gate # 0 /\ Scope \ DOMAIN seen # {} /\ v \in Verdicts
      /\ Planning /\ plan = None
  BY Phases DEF Project
<1> DEFINE n == NextEntry
<1>2. n \in Scope /\ n \notin DOMAIN seen /\ n \in Nat
  BY <1>1, Scoped, LowestIsLeast DEF NextEntry
<1> HIDE DEF n
<1>3. CASE v = "malformed"
  <2>1. FailSelection("operational", n)
    BY <1>3 DEF Project, n
  <2> QED BY <1>1, <1>2, <2>1, Fails DEF ApiFailures
<1>4. CASE v # "malformed"
  <2>1. /\ seen' = Extend(seen, n, v) /\ ReadLeaf(n, v) /\ ReadText(n, v)
        /\ UNCHANGED <<selection, gate, pending, candidates, plan, failure>>
    BY <1>4 DEF Project, n
  <2>2. v \in {"supported", "unsupported"}
    BY <1>4
  <2>3. /\ DOMAIN seen' = DOMAIN seen \cup {n} /\ seen'[n] = v
        /\ \A p \in DOMAIN seen : seen'[p] = seen[p]
    BY <1>2, <2>1 DEF Extend
  <2>4. Gates' = Gates /\ LeafGate' = LeafGate
    BY <2>1 DEF Gates, LeafGate
  <2>5. ~ (candidates = <<>> /\ gate = LeafGate /\ v = "supported") => leaves' = leaves
    <3>1. Gates[gate] \in {"leaf", "identity"} <=> candidates = <<>> /\ gate = LeafGate
      BY <1>1, Phases
    <3> QED BY <2>1, <3>1 DEF ReadLeaf
  <2>6. candidates = <<>> /\ gate = LeafGate /\ v = "supported" =>
          \E l \in Leaves :
            /\ leaves' = Extend(leaves, n, l)
            /\ selection.kind = "part studio" => l = [carrier |-> RootCarrier, part |-> selection.selectors[n]]
    <3> SUFFICES ASSUME candidates = <<>>, gate = LeafGate, v = "supported"
                 PROVE  \E l \in Leaves :
                          /\ leaves' = Extend(leaves, n, l)
                          /\ selection.kind = "part studio" =>
                               l = [carrier |-> RootCarrier, part |-> selection.selectors[n]]
      OBVIOUS
    <3>1. Gates[gate] \in {"leaf", "identity"}
      BY <1>1, Phases
    <3>2. CASE Gates[gate] = "leaf"
      <4>1. \E l \in Leaves : leaves' = Extend(leaves, n, l)
        BY <2>1, <3>2 DEF ReadLeaf
      <4>2. selection.kind # "part studio"
        BY <1>1, <3>2, Phases
      <4> QED BY <4>1, <4>2
    <3>3. CASE Gates[gate] = "identity"
      <4> DEFINE l == [carrier |-> RootCarrier, part |-> selection.selectors[n]]
      <4>1. leaves' = Extend(leaves, n, l)
        BY <2>1, <3>3 DEF ReadLeaf
      <4>2. selection.kind = "part studio" /\ n \in DOMAIN selection.selectors
        BY <1>1, <1>2, <3>3, Phases, Scoped
      <4>3. selection.selectors[n] \in PartIds
        BY <1>1, <4>2, Positions DEF SelectionInv
      <4>4. l \in Leaves
        BY <4>3, SelectionAssumption DEF Leaves
      <4> QED BY <4>1, <4>4
    <3> QED BY <3>1, <3>2, <3>3
  <2>7. /\ DOMAIN texts \subseteq DOMAIN texts'
        /\ \A l \in DOMAIN texts : texts'[l] = texts[l]
        /\ Gates[gate] = "names" => leaves[n] \in DOMAIN texts'
    <3>1. Gates[gate] = "names" => v = "supported"
      BY <1>1, <2>2 DEF Verdicts, NeverUnsupported
    <3>2. CASE Gates[gate] = "names" /\ v = "supported" /\ leaves[n] \notin DOMAIN texts
      <4>1. PICK t \in MarkerTexts : texts' = Extend(texts, leaves[n], t)
        BY <2>1, <3>2 DEF ReadText
      <4> QED BY <3>2, <4>1 DEF Extend
    <3>3. CASE ~ (Gates[gate] = "names" /\ v = "supported" /\ leaves[n] \notin DOMAIN texts)
      <4>1. texts' = texts
        BY <2>1, <3>3 DEF ReadText
      <4> QED BY <3>1, <3>3, <4>1
    <3> QED BY <3>2, <3>3
  <2>8. RestsBetween' /\ Preflighted'
    BY <1>1, <2>1 DEF SelectionInv, RestsBetween, Preflighted, Planning, Invalid
  <2>9. AtRoot'
    <3> SUFFICES ASSUME candidates = <<>>
                 PROVE  AtRoot'
      BY <2>1 DEF AtRoot
    <3>1. /\ pending = {} /\ gate \in 0..Len(Gates)
          /\ gate < LeafGate => DOMAIN leaves = {}
          /\ gate = LeafGate => DOMAIN leaves = {p \in DOMAIN seen : seen[p] = "supported"}
          /\ gate > LeafGate => DOMAIN leaves = DOMAIN selection.selectors
      BY <1>1 DEF SelectionInv, AtRoot
    <3>2. DOMAIN seen' \subseteq DOMAIN selection.selectors
      BY <1>1, <1>2, <2>3, Scoped
    <3>3. gate = LeafGate => DOMAIN leaves' = {p \in DOMAIN seen' : seen'[p] = "supported"}
      <4>1. CASE v = "supported"
        <5> SUFFICES ASSUME gate = LeafGate
                     PROVE  DOMAIN leaves' = {p \in DOMAIN seen' : seen'[p] = "supported"}
          OBVIOUS
        <5>1. DOMAIN leaves' = DOMAIN leaves \cup {n}
          BY <2>6, <4>1 DEF Extend
        <5> QED BY <1>2, <2>3, <3>1, <4>1, <5>1
      <4>2. CASE v = "unsupported"
        BY <1>2, <2>3, <2>5, <3>1, <4>2
      <4> QED BY <2>2, <4>1, <4>2
    <3>4. LeafGate \in Nat /\ gate \in Nat
      <4>1. gate \in 1..Len(Gates) /\ Len(Gates) \in Nat
        BY <1>1, Phases
      <4> QED BY <4>1 DEF LeafGate
    <3>5. gate # LeafGate => leaves' = leaves
      BY <2>5
    <3> QED BY <1>1, <2>1, <2>4, <3>1, <3>2, <3>3, <3>4, <3>5 DEF AtRoot
  <2>10. AtCarriers'
    <3> SUFFICES ASSUME candidates # <<>>
                 PROVE  AtCarriers'
      BY <2>1 DEF AtCarriers
    <3>1. /\ DOMAIN leaves = DOMAIN selection.selectors
          /\ DOMAIN candidates = DOMAIN selection.selectors
          /\ pending \subseteq DOMAIN selection.selectors
          /\ selection.kind = "part studio" => pending = {}
          /\ gate \in 0..Len(CarrierGates) /\ (pending = {} => gate = 0)
          /\ \A p \in DOMAIN candidates \ pending :
               leaves[p] \in DOMAIN texts /\ candidates[p] = texts[leaves[p]]
      BY <1>1 DEF SelectionInv, AtCarriers
    <3>2. leaves' = leaves
      BY <2>5
    <3>3. Scope' = Scope
      BY <2>1, <3>2 DEF Scope, Group
    <3>4. DOMAIN seen' \subseteq Scope'
      BY <1>1, <1>2, <2>3, <3>3, Scoped
    <3>5. \A p \in DOMAIN candidates \ pending :
            leaves[p] \in DOMAIN texts' /\ candidates[p] = texts'[leaves[p]]
      BY <2>7, <3>1
    <3> QED BY <1>1, <2>1, <3>1, <3>2, <3>4, <3>5 DEF AtCarriers
  <2>11. RowsRead'
    <3>1. /\ \A p \in DOMAIN seen : seen[p] \in {"supported", "unsupported"}
          /\ \A p \in DOMAIN leaves :
               /\ leaves[p] \in Leaves
               /\ selection.kind = "part studio" =>
                    leaves[p] = [carrier |-> RootCarrier, part |-> selection.selectors[p]]
          /\ Gates[gate] = "names" => \A p \in DOMAIN seen : leaves[p] \in DOMAIN texts
      BY <1>1 DEF SelectionInv, RowsRead
    <3>2. \A p \in DOMAIN seen' : seen'[p] \in {"supported", "unsupported"}
      BY <2>2, <2>3, <3>1
    <3>3. \A p \in DOMAIN leaves' :
            /\ leaves'[p] \in Leaves
            /\ selection.kind = "part studio" =>
                 leaves'[p] = [carrier |-> RootCarrier, part |-> selection.selectors[p]]
      <4>1. CASE leaves' = leaves
        BY <3>1, <4>1
      <4>2. CASE candidates = <<>> /\ gate = LeafGate /\ v = "supported"
        <5>1. PICK l \in Leaves :
                /\ leaves' = Extend(leaves, n, l)
                /\ selection.kind = "part studio" =>
                     l = [carrier |-> RootCarrier, part |-> selection.selectors[n]]
          BY <2>6, <4>2
        <5>2. /\ DOMAIN leaves' = DOMAIN leaves \cup {n} /\ leaves'[n] = l
              /\ \A p \in DOMAIN leaves : p # n => leaves'[p] = leaves[p]
          BY <5>1 DEF Extend
        <5> QED BY <3>1, <5>1, <5>2
      <4> QED BY <2>5, <4>1, <4>2
    <3>4. Gates[gate] = "names" => \A p \in DOMAIN seen' : leaves'[p] \in DOMAIN texts'
      <4> SUFFICES ASSUME Gates[gate] = "names"
                   PROVE  \A p \in DOMAIN seen' : leaves'[p] \in DOMAIN texts'
        OBVIOUS
      <4>1. leaves' = leaves
        <5>1. ~ (candidates = <<>> /\ gate = LeafGate)
          BY <1>1, Phases
        <5> QED BY <2>5, <5>1
      <4> QED BY <2>3, <2>7, <3>1, <4>1
    <3> QED BY <2>1, <2>4, <3>2, <3>3, <3>4 DEF RowsRead
  <2>12. PlanKept'
    BY <1>1, <2>1 DEF PlanKept
  <2>13. RejectionIsExact'
    BY <1>1, <2>1, NothingRejected
  <2> QED BY <2>8, <2>9, <2>10, <2>11, <2>12, <2>13 DEF SelectionInv
<1> QED BY <1>3, <1>4

\* The end of a phase: the lowest unsupported position is reported, or the
\* next phase begins, or the markers of the positions read are committed.
LEMMA ClassifyKeeps ==
  ASSUME SelectionInv, Classify
  PROVE  SelectionInv'
<1> DEFINE unsupported == {p \in DOMAIN seen : seen[p] = "unsupported"}
<1>1. gate # 0 /\ Planning /\ plan = None /\ Scope \ DOMAIN seen = {}
  BY Phases DEF Classify
<1>2. DOMAIN seen = Scope /\ Scope \subseteq DOMAIN selection.selectors /\ Scope \subseteq Nat
  BY <1>1, Scoped
<1>3. \A p \in DOMAIN seen : seen[p] \in {"supported", "unsupported"}
  BY <1>1 DEF SelectionInv, RowsRead
<1>4. CASE unsupported # {}
  <2>1. FailSelection("unavailable", Lowest(unsupported))
    BY <1>4 DEF Classify
  <2>2. Lowest(unsupported) \in unsupported /\ \A q \in unsupported : Lowest(unsupported) <= q
    BY <1>2, <1>4, LowestIsLeast
  <2>3. Lowest(unsupported) \in Nat
    BY <1>2, <2>2
  <2>4. failure' = [kind |-> "unavailable", position |-> Lowest(unsupported)]
        /\ UNCHANGED <<selection, seen, leaves, pending, texts, candidates, plan>>
    BY <2>1 DEF FailSelection
  <2>5. Scope' = Scope
    BY <2>4 DEF Scope, Group
  <2>6. \A p \in Scope : p < Lowest(unsupported) => seen[p] = "supported"
    BY <1>2, <1>3, <2>2, <2>3
  <2>7. Lowest(unsupported) \in Scope /\ seen[Lowest(unsupported)] = "unsupported"
    BY <1>2, <2>2
  <2>8. MalformedWinsWithinPhase'
    <3> HIDE DEF unsupported
    <3> QED BY <1>2, <2>4, <2>5, <2>6, <2>7 DEF MalformedWinsWithinPhase
  <2>9. RejectionIsLocated'
    <3> HIDE DEF unsupported
    <3> QED BY <1>2, <2>4, <2>7 DEF RejectionIsLocated
  <2> QED BY <1>1, <2>1, <2>3, <2>8, <2>9, Fails DEF RejectionIsExact
<1>5. CASE unsupported = {}
  <2>1. /\ DOMAIN seen' = {}
        /\ UNCHANGED <<selection, leaves, texts, plan, failure>>
    <3>1. seen' = <<>> /\ UNCHANGED <<selection, leaves, texts, plan, failure>>
      BY <1>5, Zenon DEF Classify
    <3> QED BY <3>1
  <2>2. \A p \in Scope : seen[p] = "supported"
    BY <1>2, <1>3, <1>5
  <2>3. gate \in 1..Len(Gates) /\ Len(Gates) \in Nat
    BY <1>1, Phases
  <2>4. Planning' /\ RestsBetween' /\ Preflighted' /\ PlanKept' /\ RejectionIsExact'
    <3>1. Planning' /\ RestsBetween' /\ Preflighted'
      BY <1>1, <2>1 DEF SelectionInv, RestsBetween, Preflighted, Planning, Invalid
    <3>2. PlanKept'
      BY <1>1, <2>1 DEF PlanKept
    <3> QED BY <1>1, <2>1, <3>1, <3>2, NothingRejected
  <2>5. RowsRead'
    <3>1. RowsRead
      BY DEF SelectionInv
    <3> QED BY <1>1, <2>1, <3>1 DEF RowsRead, Planning
  <2>6. candidates = <<>> => (gate >= LeafGate => DOMAIN leaves = DOMAIN selection.selectors)
    <3> SUFFICES ASSUME candidates = <<>>, gate >= LeafGate
                 PROVE  DOMAIN leaves = DOMAIN selection.selectors
      OBVIOUS
    <3>1. /\ gate = LeafGate => DOMAIN leaves = {p \in DOMAIN seen : seen[p] = "supported"}
          /\ gate > LeafGate => DOMAIN leaves = DOMAIN selection.selectors
      BY <1>1 DEF SelectionInv, AtRoot
    <3>2. Scope = DOMAIN selection.selectors
      BY <1>1, Scoped
    <3>3. gate = LeafGate \/ gate > LeafGate
      <4>1. LeafGate \in Nat
        BY DEF LeafGate
      <4>2. gate \in Nat
        BY <2>3
      <4>3. gate >= LeafGate
        OBVIOUS
      <4> QED BY <4>1, <4>2, <4>3
    <3> QED BY <1>2, <2>2, <3>1, <3>2, <3>3
  <2>7. CASE gate < Len(Gates)
    <3>1. gate' = gate + 1 /\ UNCHANGED <<pending, candidates>>
      BY <1>5, <2>7 DEF Classify
    <3>2. Gates' = Gates /\ LeafGate' = LeafGate
      BY <2>1, <3>1 DEF Gates, LeafGate
    <3>3. gate' \in 1..Len(Gates)
      BY <2>3, <2>7, <3>1
    <3>4. AtRoot'
      <4> SUFFICES ASSUME candidates = <<>>
                   PROVE  AtRoot'
        BY <3>1 DEF AtRoot
      <4>1. pending = {}
        BY <1>1, Phases
      <4>2. gate < LeafGate => DOMAIN leaves = {}
        BY <1>1 DEF SelectionInv, AtRoot
      <4>3. LeafGate \in Nat /\ gate \in Nat
        BY <2>3 DEF LeafGate
      <4> QED BY <2>1, <2>3, <2>6, <3>1, <3>2, <3>3, <4>1, <4>2, <4>3 DEF AtRoot
    <3>5. AtCarriers'
      <4> SUFFICES ASSUME candidates # <<>>
                   PROVE  AtCarriers'
        BY <3>1 DEF AtCarriers
      <4>1. pending # {} /\ Len(Gates) = Len(CarrierGates)
        BY <1>1, Phases
      <4>2. AtCarriers
        BY DEF SelectionInv
      <4> QED BY <1>1, <2>1, <3>1, <3>3, <4>1, <4>2, NextCarrierPhase
    <3> QED BY <2>4, <2>5, <3>4, <3>5 DEF SelectionInv
  <2>8. CASE gate = Len(Gates)
    <3>1. /\ gate' = 0
          /\ pending # {} => candidates' = Commit /\ pending' = pending \ Group
          /\ pending = {} /\ selection.kind = "part studio" =>
               candidates' = [p \in DOMAIN leaves |-> texts[leaves[p]]] /\ pending' = {}
          /\ pending = {} /\ selection.kind # "part studio" =>
               candidates' = [p \in DOMAIN leaves |-> None] /\ pending' = DOMAIN leaves
      <4>1. ~ (gate < Len(Gates))
        BY <2>3, <2>8
      <4> QED BY <1>5, <4>1, Zenon DEF Classify
    <3>2. DOMAIN leaves = DOMAIN selection.selectors
      <4>1. CASE candidates = <<>>
        <5>1. LeafGate \in 2..(Len(Gates) - 1)
          BY <1>1, <4>1, Phases
        <5>2. gate >= LeafGate
          BY <2>3, <2>8, <5>1
        <5> QED BY <2>6, <4>1, <5>2
      <4>2. CASE candidates # <<>>
        BY <1>1, <4>2 DEF SelectionInv, AtCarriers
      <4> QED BY <4>1, <4>2
    <3>3. Gates[gate] = "names" => \A p \in Scope : leaves[p] \in DOMAIN texts
      BY <1>1, <1>2 DEF SelectionInv, RowsRead
    <3>4. /\ DOMAIN candidates' = DOMAIN selection.selectors
          /\ pending' \subseteq DOMAIN selection.selectors
          /\ selection.kind = "part studio" => pending' = {}
          /\ \A p \in DOMAIN candidates' \ pending' :
               leaves[p] \in DOMAIN texts /\ candidates'[p] = texts[leaves[p]]
      <4>1. CASE pending # {}
        <5>1. candidates # <<>>
          BY <1>1, <4>1, Phases
        <5>2. Gates[gate] = "names" /\ Scope = Group
          BY <1>1, <2>8, <5>1, Phases, Scoped
        <5>3. /\ DOMAIN candidates = DOMAIN selection.selectors
              /\ pending \subseteq DOMAIN selection.selectors
              /\ selection.kind = "part studio" => pending = {}
              /\ \A p \in DOMAIN candidates \ pending :
                   leaves[p] \in DOMAIN texts /\ candidates[p] = texts[leaves[p]]
          BY <1>1, <5>1 DEF SelectionInv, AtCarriers
        <5>4. candidates' = [p \in DOMAIN leaves |-> IF p \in Group THEN texts[leaves[p]] ELSE candidates[p]]
              /\ pending' = pending \ Group
          BY <3>1, <4>1 DEF Commit
        <5> QED BY <3>2, <3>3, <4>1, <5>2, <5>3, <5>4
      <4>2. CASE pending = {} /\ selection.kind = "part studio"
        <5>1. candidates = <<>>
          BY <1>1, <4>2, Phases
        <5>2. Gates[gate] = "names" /\ Scope = DOMAIN selection.selectors
          BY <1>1, <2>8, <4>2, <5>1, Phases, Scoped
        <5> QED BY <3>1, <3>2, <3>3, <4>2, <5>2
      <4>3. CASE pending = {} /\ selection.kind # "part studio"
        BY <3>1, <3>2, <4>3
      <4> QED BY <4>1, <4>2, <4>3
    <3>5. candidates' # <<>>
      <4>1. 1 \in DOMAIN selection.selectors
        BY <1>1, Positions DEF SelectionInv
      <4>2. DOMAIN candidates' # {}
        BY <3>4, <4>1
      <4>3. DOMAIN <<>> = {}
        OBVIOUS
      <4> QED BY <4>2, <4>3, Zenon
    <3>6. AtRoot'
      BY <3>5 DEF AtRoot
    <3>7. AtCarriers'
      <4>1. gate' = 0 /\ gate' \in 0..Len(CarrierGates)
        <5>1. gate' = 0
          BY <3>1
        <5>2. Len(CarrierGates) = 4
          BY CarrierPhases
        <5> QED BY <5>1, <5>2
      <4>2. selection' = selection /\ leaves' = leaves /\ texts' = texts /\ DOMAIN seen' \subseteq Scope'
        BY <2>1
      <4>3. /\ (DOMAIN leaves = DOMAIN selection.selectors)'
            /\ (DOMAIN candidates = DOMAIN selection.selectors)'
            /\ (pending \subseteq DOMAIN selection.selectors)'
            /\ (selection.kind = "part studio" => pending = {})'
        BY <3>2, <3>4, <4>2
      <4>4. (\A p \in DOMAIN candidates \ pending :
               leaves[p] \in DOMAIN texts /\ candidates[p] = texts[leaves[p]])'
        BY <3>4, <4>2
      <4> QED BY <2>1, <4>1, <4>2, <4>3, <4>4, Zenon DEF AtCarriers
    <3> QED BY <2>4, <2>5, <3>6, <3>7 DEF SelectionInv
  <2> QED BY <2>3, <2>7, <2>8
<1> QED BY <1>4, <1>5

\* The first index at which f is what it is at k; the same for every k at which
\* f is the same.
FirstWith(f, k) == Lowest({q \in 1..k : f[q] = f[k]})

LEMMA FirstIsLeast ==
  ASSUME NEW n \in Nat, NEW f, NEW k \in 1..n
  PROVE  /\ FirstWith(f, k) \in 1..n /\ f[FirstWith(f, k)] = f[k]
         /\ \A q \in 1..n : f[q] = f[k] => FirstWith(f, k) <= q
<1> DEFINE S == {q \in 1..k : f[q] = f[k]}
<1>1. S \subseteq Nat /\ k \in S
  OBVIOUS
<1>2. Lowest(S) \in S /\ \A q \in S : Lowest(S) <= q
  <2> HIDE DEF S
  <2> QED BY <1>1, LowestIsLeast
<1>3. Lowest(S) \in 1..k /\ f[Lowest(S)] = f[k]
  BY <1>2
<1>4. ASSUME NEW q \in 1..n, f[q] = f[k]
      PROVE  Lowest(S) <= q
  <2>1. CASE q \in 1..k
    BY <1>2, <1>4, <2>1
  <2>2. CASE q \notin 1..k
    <3> HIDE DEF S
    <3> QED BY <1>3, <2>2
  <2> QED BY <2>1, <2>2
<1>5. FirstWith(f, k) = Lowest(S)
  BY DEF FirstWith
<1> HIDE DEF S
<1> QED BY <1>3, <1>4, <1>5

LEMMA FirstIsShared ==
  ASSUME NEW n \in Nat, NEW f, NEW i \in 1..n, NEW j \in 1..n, f[i] = f[j]
  PROVE  FirstWith(f, i) = FirstWith(f, j)
<1>1. /\ FirstWith(f, i) \in 1..n /\ f[FirstWith(f, i)] = f[i]
      /\ \A q \in 1..n : f[q] = f[i] => FirstWith(f, i) <= q
  BY FirstIsLeast
<1>2. /\ FirstWith(f, j) \in 1..n /\ f[FirstWith(f, j)] = f[j]
      /\ \A q \in 1..n : f[q] = f[j] => FirstWith(f, j) <= q
  BY FirstIsLeast
<1>3. FirstWith(f, i) <= FirstWith(f, j) /\ FirstWith(f, j) <= FirstWith(f, i)
  BY <1>1, <1>2
<1> QED BY <1>1, <1>2, <1>3

LEMMA SameFirst ==
  ASSUME NEW n \in Nat, NEW objs, DOMAIN objs = 1..n,
         NEW i \in DOMAIN objs, NEW j \in DOMAIN objs
  PROVE  /\ FirstOfLeaf(objs, i) \in DOMAIN objs /\ FirstOfKey(objs, i) \in DOMAIN objs
         /\ objs[i].part = objs[j].part => FirstOfLeaf(objs, i) = FirstOfLeaf(objs, j)
         /\ objs[i].annotation.key = objs[j].annotation.key => FirstOfKey(objs, i) = FirstOfKey(objs, j)
<1> DEFINE parts == [q \in 1..n |-> objs[q].part]
           keys == [q \in 1..n |-> objs[q].annotation.key]
<1>1. \A k \in 1..n : parts[k] = objs[k].part /\ keys[k] = objs[k].annotation.key
  OBVIOUS
<1>2. ASSUME NEW k \in 1..n
      PROVE  FirstOfLeaf(objs, k) = FirstWith(parts, k) /\ FirstOfKey(objs, k) = FirstWith(keys, k)
  <2> HIDE DEF parts, keys
  <2>1. \A q \in 1..k : q \in 1..n
    OBVIOUS
  <2>2. /\ {q \in 1..k : objs[q].part = objs[k].part} = {q \in 1..k : parts[q] = parts[k]}
        /\ {q \in 1..k : objs[q].annotation.key = objs[k].annotation.key} = {q \in 1..k : keys[q] = keys[k]}
    BY <1>1, <2>1
  <2> QED BY <2>2 DEF FirstOfLeaf, FirstOfKey, FirstWith
<1> HIDE DEF parts, keys
<1>3. FirstWith(parts, i) \in 1..n /\ FirstWith(keys, i) \in 1..n
  BY FirstIsLeast
<1>4. /\ parts[i] = parts[j] => FirstWith(parts, i) = FirstWith(parts, j)
      /\ keys[i] = keys[j] => FirstWith(keys, i) = FirstWith(keys, j)
  BY FirstIsShared
<1> QED
  BY <1>1, <1>2, <1>3, <1>4

\* context_failure_position finds a position whenever validate_authoring_context
\* rejects objects that validate_authoring_document accepts.
LEMMA ContextIsLocated ==
  ASSUME NEW n \in Nat, NEW objs, DOMAIN objs = 1..n,
         validate_authoring_document(objs), ~ validate_authoring_context(objs)
  PROVE  context_failure_position(objs) \in DOMAIN objs
<1> DEFINE leafBad == {p \in DOMAIN objs : objs[FirstOfLeaf(objs, p)].annotation # objs[p].annotation}
           keyBad == {p \in DOMAIN objs :
                        /\ objs[p].annotation.key # None
                        /\ \/ objs[FirstOfKey(objs, p)].part # objs[p].part
                           \/ objs[FirstOfKey(objs, p)].annotation # objs[p].annotation}
           byLeaf == {FirstOfLeaf(objs, p) : p \in leafBad}
           byKey == {FirstOfKey(objs, p) : p \in keyBad}
<1>1. byLeaf \cup byKey \subseteq DOMAIN objs
  BY SameFirst
<1>2. PICK i \in DOMAIN objs, j \in DOMAIN objs :
        \/ objs[i].part = objs[j].part /\ objs[i].annotation # objs[j].annotation
        \/ /\ objs[i].annotation.key # None /\ objs[i].annotation.key = objs[j].annotation.key
           /\ ~ (objs[i].part = objs[j].part /\ objs[i].annotation = objs[j].annotation)
  BY DEF validate_authoring_context
<1>3. leafBad \cup keyBad # {}
  <2>1. CASE objs[i].part = objs[j].part /\ objs[i].annotation # objs[j].annotation
    <3>1. FirstOfLeaf(objs, i) = FirstOfLeaf(objs, j)
      BY <2>1, SameFirst
    <3> QED BY <2>1, <3>1
  <2>2. CASE /\ objs[i].annotation.key # None /\ objs[i].annotation.key = objs[j].annotation.key
             /\ ~ (objs[i].part = objs[j].part /\ objs[i].annotation = objs[j].annotation)
    <3>1. FirstOfKey(objs, i) = FirstOfKey(objs, j)
      BY <2>2, SameFirst
    <3> QED BY <2>2, <3>1
  <2> QED BY <1>2, <2>1, <2>2
<1>4. byLeaf \cup byKey # {}
  BY <1>3
<1>5. byLeaf \cup byKey \subseteq Nat
  BY <1>1
<1>6. Lowest(byLeaf \cup byKey) \in byLeaf \cup byKey
  <2> HIDE DEF byLeaf, byKey
  <2> QED BY <1>4, <1>5, LowestIsLeast
<1>7. context_failure_position(objs) = Lowest(byLeaf \cup byKey)
  BY <1>4, Zenon DEF context_failure_position
<1> QED BY <1>1, <1>6, <1>7

\* document_failure_position finds one whenever a target does not resolve,
\* whether or not the document is also too large, and else none.
LEMMA DocumentIsLocated ==
  ASSUME NEW n \in Nat, NEW objs, DOMAIN objs = 1..n, ~ TargetsResolve(objs)
  PROVE  document_failure_position(objs) \in DOMAIN objs
<1> DEFINE bad == {p \in DOMAIN objs : \E t \in DOMAIN objs[p].annotation.targets :
                     LET owners == KeyOwners(objs, objs[p].annotation.targets[t])
                     IN  \/ Cardinality(owners) # 1
                         \/ \E o \in owners : o = p \/ objs[o].annotation.role # "printable"}
<1>1. bad # {}
  BY Zenon DEF TargetsResolve
<1>2. bad \subseteq DOMAIN objs /\ bad \subseteq Nat
  OBVIOUS
<1>3. Lowest(bad) \in bad
  <2> HIDE DEF bad
  <2> QED BY <1>1, <1>2, LowestIsLeast
<1>4. document_failure_position(objs) = Lowest(bad)
  BY <1>1, Zenon DEF document_failure_position
<1> QED BY <1>2, <1>3, <1>4

LEMMA NoTargetAtFault ==
  ASSUME NEW objs, TargetsResolve(objs)
  PROVE  document_failure_position(objs) = None
<1> DEFINE bad == {p \in DOMAIN objs : \E t \in DOMAIN objs[p].annotation.targets :
                     LET owners == KeyOwners(objs, objs[p].annotation.targets[t])
                     IN  \/ Cardinality(owners) # 1
                         \/ \E o \in owners : o = p \/ objs[o].annotation.role # "printable"}
<1>1. bad = {}
  BY Zenon DEF TargetsResolve
<1> QED BY <1>1, Zenon DEF document_failure_position

LEMMA ConstructKeeps ==
  ASSUME SelectionInv, NEW overflow \in BOOLEAN, construct_plan(overflow)
  PROVE  SelectionInv'
<1>1. /\ gate = 0 /\ pending = {} /\ candidates # <<>> /\ plan = None
      /\ Planning
  BY DEF construct_plan, SelectionInv, RestsBetween, Planning
<1> DEFINE n == Len(selection.selectors)
<1>2. n \in Nat /\ DOMAIN selection.selectors = 1..n /\ 1 \in DOMAIN selection.selectors
  BY <1>1, Positions DEF SelectionInv
<1>3. DOMAIN candidates = DOMAIN selection.selectors /\ DOMAIN seen = {}
  BY <1>1 DEF SelectionInv, AtCarriers
<1>4. DOMAIN Authored = 1..n
  BY <1>2, <1>3 DEF Authored
<1> HIDE DEF n
<1>5. ASSUME NEW position \in DOMAIN selection.selectors, FailSelection("unavailable", position)
      PROVE  SelectionInv'
  <2>1. /\ failure' = [kind |-> "unavailable", position |-> position]
        /\ selection' = selection /\ seen' = seen
    BY <1>5 DEF FailSelection
  <2>2. RejectionIsExact'
    BY <1>3, <2>1 DEF RejectionIsExact, MalformedWinsWithinPhase, RejectionIsLocated
  <2>3. position \in Nat
    BY <1>2
  <2> QED BY <1>1, <1>5, <2>2, <2>3, Fails
<1>6. CASE Unreadable # {}
  <2>1. FailSelection("unavailable", Lowest(Unreadable))
    BY <1>6 DEF construct_plan
  <2>2. Unreadable \subseteq DOMAIN selection.selectors /\ Unreadable \subseteq Nat
    BY <1>2, <1>3 DEF Unreadable
  <2>3. Lowest(Unreadable) \in DOMAIN selection.selectors
    BY <1>6, <2>2, LowestIsLeast
  <2> QED BY <1>5, <2>1, <2>3
<1>7. CASE Unreadable = {} /\ ~ validate_authoring_document(Authored)
  <2>1. FailSelection("unavailable", document_failure_position(Authored))
    BY <1>7 DEF construct_plan
  <2>2. CASE ~ TargetsResolve(Authored)
    <3>1. document_failure_position(Authored) \in DOMAIN selection.selectors
      BY <1>2, <1>4, <2>2, DocumentIsLocated
    <3> QED BY <1>5, <2>1, <3>1
  <2>3. CASE TargetsResolve(Authored)
    <3>1. ~ validate_serialized_size(Authored)
      BY <1>7, <2>3 DEF validate_authoring_document
    <3>2. document_failure_position(Authored) = None
      BY <2>3, NoTargetAtFault
    <3>3. /\ failure' = [kind |-> "unavailable", position |-> None]
          /\ UNCHANGED <<selection, seen, leaves, pending, candidates>>
      BY <2>1, <3>2 DEF FailSelection
    <3>4. Authored' = Authored /\ Unreadable' = Unreadable
      BY <3>3 DEF Authored, Unreadable
    <3>5. failure'.position = None /\ failure'.kind = "unavailable"
      BY <3>3
    <3>6. RejectionIsLocated'
      BY <1>1, <1>7, <2>3, <3>1, <3>3, <3>4, <3>5 DEF RejectionIsLocated
    <3>7. MalformedWinsWithinPhase'
      BY <1>3, <3>3 DEF MalformedWinsWithinPhase
    <3>8. RejectionIsExact'
      BY <3>6, <3>7 DEF RejectionIsExact
    <3> QED BY <1>1, <2>1, <3>2, <3>8, Fails
  <2> QED BY <2>2, <2>3
<1>8. CASE /\ Unreadable = {} /\ validate_authoring_document(Authored)
           /\ ~ validate_authoring_context(Authored)
  <2>1. FailSelection("unavailable", context_failure_position(Authored))
    BY <1>8 DEF construct_plan
  <2>2. context_failure_position(Authored) \in DOMAIN selection.selectors
    BY <1>2, <1>4, <1>8, ContextIsLocated
  <2> QED BY <1>5, <2>1, <2>2
<1>9. CASE Unreadable = {} /\ validate_authoring_document(Authored) /\ validate_authoring_context(Authored)
  <2>1. CASE overflow
    <3>1. FailSelection("unavailable", 1)
      BY <1>9, <2>1 DEF construct_plan
    <3> QED BY <1>2, <1>5, <3>1
  <2>2. CASE ~ overflow
    <3>1. /\ plan' = [kind |-> selection.kind, objects |-> PlanObjects]
          /\ UNCHANGED <<selection, gate, seen, leaves, pending, texts, candidates, failure>>
      BY <1>9, <2>2 DEF construct_plan
    <3>2. Planning' /\ RestsBetween' /\ Preflighted'
      BY <1>1, <3>1 DEF SelectionInv, RestsBetween, Preflighted, Planning, Invalid
    <3>3. AtRoot'
      BY <1>1, <3>1 DEF AtRoot
    <3>4. AtCarriers' /\ RowsRead'
      <4>1. AtCarriers /\ RowsRead
        BY DEF SelectionInv
      <4>2. Scope' = Scope /\ Gates' = Gates /\ Planning' = Planning
        BY <3>1 DEF Scope, Group, Gates, Planning
      <4> QED BY <3>1, <4>1, <4>2 DEF AtCarriers, RowsRead
    <3>5. PlanKept'
      <4>1. Authored' = Authored /\ PlanObjects' = PlanObjects
        BY <3>1 DEF Authored, PlanObjects
      <4> QED BY <1>1, <1>9, <3>1, <3>2, <4>1 DEF PlanKept
    <3>6. RejectionIsExact'
      BY <1>1, <3>1, NothingRejected
    <3> QED BY <3>2, <3>3, <3>4, <3>5, <3>6 DEF SelectionInv
  <2> QED BY <2>1, <2>2
<1> QED BY <1>6, <1>7, <1>8, <1>9

LEMMA SelectionStep == SelectionInv /\ [SelectionNext]_selectionVars => SelectionInv'
<1> SUFFICES ASSUME SelectionInv, [SelectionNext]_selectionVars
             PROVE  SelectionInv'
  OBVIOUS
<1>1. ASSUME NEW r \in SelectionRequests, preflight_selection(r) PROVE SelectionInv'
  BY <1>1, PreflightKeeps
<1>2. ASSUME NEW o \in ApiFailures \cup {"answered"}, read_root(o) PROVE SelectionInv'
  BY <1>2, ReadRootKeeps
<1>3. ASSUME NEW o \in ApiFailures \cup {"answered"}, read_carrier(o) PROVE SelectionInv'
  BY <1>3, ReadCarrierKeeps
<1>4. ASSUME NEW w \in BOOLEAN, CheckAnswer(w) PROVE SelectionInv'
  BY <1>4, CheckAnswerKeeps
<1>5. ASSUME NEW v \in {"supported", "unsupported", "malformed"}, Project(v) PROVE SelectionInv'
  BY <1>5, ProjectKeeps
<1>6. ASSUME Classify PROVE SelectionInv'
  BY <1>6, ClassifyKeeps
<1>7. ASSUME NEW overflow \in BOOLEAN, construct_plan(overflow) PROVE SelectionInv'
  BY <1>7, ConstructKeeps
<1>8. ASSUME NextSelection PROVE SelectionInv'
  BY <1>8, NextSelectionKeeps
<1>9. ASSUME UNCHANGED selectionVars PROVE SelectionInv'
  BY <1>9 DEF selectionVars, SelectionInv, RestsBetween, Preflighted, AtRoot, AtCarriers, RowsRead,
     PlanKept, Planning, RejectionIsExact, MalformedWinsWithinPhase, RejectionIsLocated, Gates, Scope,
     Group, LeafGate, Authored, PlanObjects, Unreadable
<1> QED
  BY <1>1, <1>2, <1>3, <1>4, <1>5, <1>6, <1>7, <1>8, <1>9, Zenon DEF SelectionNext

\* Of plan_selection: a rejection names the entry that is at fault.  An entry
\* is reported as not available only after its phase has read them all and
\* found none malformed, and the lowest is; and whatever the authoring
\* validators reject an object for, the helpers that look for its position find
\* one, for any number of selectors, carriers and markers and any sizes: a
\* rejection without a position is of a plan with all its annotations in order
\* whose document is above the limit.
THEOREM RejectionsAreExact == SelectionSpec => []RejectionIsExact
<1>1. SelectionInv => RejectionIsExact
  BY DEF SelectionInv
<1> QED
  BY <1>1, SelectionInvInit, SelectionStep, PTL DEF SelectionSpec

LEMMA FunctionLen ==
  ASSUME NEW n \in Nat, NEW f, f = [p \in 1..n |-> f[p]]
  PROVE  Len(f) = n
<1> DEFINE S == {f[p] : p \in 1..n}
<1>1. f \in [1..n -> S]
  OBVIOUS
<1>2. f \in Seq(S)
  <2> HIDE DEF S
  <2> QED BY <1>1
<1>3. Len(f) \in Nat /\ DOMAIN f = 1..Len(f) /\ DOMAIN f = 1..n
  <2> HIDE DEF S
  <2> QED BY <1>1, <1>2, SequenceFacts
<1> QED BY <1>3

\* The authoring rules see annotations, parts and sizes only.
LEMMA ContextOfPlan ==
  ASSUME NEW a, NEW b, validate_authoring_context(a), DOMAIN a = DOMAIN b,
         \A p \in DOMAIN b : /\ b[p].annotation = a[p].annotation /\ b[p].part = a[p].part
                            /\ b[p].bytes = a[p].bytes
  PROVE  validate_authoring_context(b)
<1>0. validate_serialized_size(b)
  <2>1. [p \in DOMAIN b |-> b[p].bytes] = [p \in DOMAIN a |-> a[p].bytes]
    OBVIOUS
  <2>2. validate_serialized_size(a)
    BY DEF validate_authoring_context, validate_authoring_document
  <2> QED BY <2>1, <2>2 DEF validate_serialized_size
<1>1. ASSUME NEW k PROVE KeyOwners(b, k) = KeyOwners(a, k)
  BY DEF KeyOwners
<1>2. TargetsResolve(b)
  <2> SUFFICES ASSUME NEW i \in DOMAIN b, NEW t \in DOMAIN b[i].annotation.targets
               PROVE  LET owners == KeyOwners(b, b[i].annotation.targets[t])
                      IN  /\ Cardinality(owners) = 1
                          /\ \A o \in owners : o # i /\ b[o].annotation.role = "printable"
    BY Zenon DEF TargetsResolve
  <2> DEFINE k == a[i].annotation.targets[t]
  <2>1. b[i].annotation = a[i].annotation
    OBVIOUS
  <2>2. /\ Cardinality(KeyOwners(a, k)) = 1
        /\ \A o \in KeyOwners(a, k) : o # i /\ a[o].annotation.role = "printable"
    BY <2>1 DEF validate_authoring_context, validate_authoring_document, TargetsResolve
  <2>3. KeyOwners(b, k) = KeyOwners(a, k) /\ b[i].annotation.targets[t] = k
    BY <1>1, <2>1
  <2>4. KeyOwners(a, k) \subseteq DOMAIN b
    BY DEF KeyOwners
  <2> QED BY <2>2, <2>3, <2>4
<1>3. \A i, j \in DOMAIN b :
        /\ b[i].part = b[j].part => b[i].annotation = b[j].annotation
        /\ b[i].annotation.key # None /\ b[i].annotation.key = b[j].annotation.key
             => b[i].part = b[j].part /\ b[i].annotation = b[j].annotation
  BY DEF validate_authoring_context
<1> QED BY <1>0, <1>2, <1>3 DEF validate_authoring_context, validate_authoring_document

\* A plan that was kept has what validate_retained_plan asks.
LEMMA KeptPlanIsFaithful == SelectionInv => PlanIsFaithful
<1> SUFFICES ASSUME SelectionInv, plan # None
             PROVE  PlanIsFaithful
  BY DEF PlanIsFaithful, PlanAnswersRequest, PlansCanBeRetained
<1>1. /\ Planning /\ pending = {} /\ candidates # <<>>
      /\ validate_authoring_context(Authored)
      /\ plan = [kind |-> selection.kind, objects |-> PlanObjects]
  BY DEF SelectionInv, PlanKept
<1> DEFINE n == Len(selection.selectors)
           objs == PlanObjects
<1>2. /\ n \in Nat /\ DOMAIN selection.selectors = 1..n /\ n \in 1..MaxSelectors
      /\ \A p \in 1..n :
           /\ selection.kind = "part studio" => selection.selectors[p] \in PartIds
           /\ selection.kind = "assembly" => selection.selectors[p] \in DOMAIN TransformOf
      /\ selection.kind \in {"part studio", "assembly"}
  BY <1>1, Positions DEF SelectionInv, Preflighted
<1>3. /\ DOMAIN candidates = 1..n /\ DOMAIN leaves = 1..n
      /\ \A p \in 1..n : candidates[p] = texts[leaves[p]]
  BY <1>1, <1>2 DEF SelectionInv, AtCarriers
<1>4. \A p \in 1..n :
        selection.kind = "part studio" =>
          leaves[p] = [carrier |-> RootCarrier, part |-> selection.selectors[p]]
  BY <1>1, <1>3 DEF SelectionInv, RowsRead
<1>5. /\ DOMAIN objs = 1..n
      /\ \A p \in 1..n :
           /\ objs[p].identity = <<selection.selectors[p], leaves[p]>>
           /\ objs[p].selector = selection.selectors[p] /\ objs[p].part = leaves[p]
           /\ objs[p].annotation = Authored[p].annotation /\ objs[p].bytes = Authored[p].bytes
           /\ objs[p].matrix = IF selection.kind = "part studio" THEN "identity"
                               ELSE normalize_transform(TransformOf[selection.selectors[p]])
  BY <1>3 DEF PlanObjects
<1>6. DOMAIN Authored = 1..n /\ \A p \in 1..n : Authored[p].part = leaves[p]
                            /\ Authored[p].annotation = parse_carriers(candidates[p], None)
  BY <1>3 DEF Authored
<1>7. plan.kind = selection.kind /\ plan.objects = objs
  BY <1>1
<1>8. PlanAnswersRequest
  <2>1. failure = None
    BY <1>1 DEF Planning
  <2>2. [p \in DOMAIN objs |-> objs[p].selector] = selection.selectors
    <3>1. PICK S : selection.selectors \in Seq(S)
      BY <1>1, Positions, SelectionAssumption DEF SelectionInv
    <3>2. selection.selectors = [p \in 1..n |-> selection.selectors[p]]
      BY <3>1, SequenceFacts
    <3> HIDE DEF objs, n
    <3> QED BY <1>5, <3>2
  <2>3. \A p \in DOMAIN objs : objs[p].annotation = parse_carriers(texts[objs[p].part], None)
    <3> HIDE DEF objs, n
    <3> TAKE p \in DOMAIN objs
    <3>1. p \in 1..n
      BY <1>5
    <3>2. objs[p].part = leaves[p] /\ objs[p].annotation = Authored[p].annotation
      BY <1>5, <3>1
    <3>3. Authored[p].annotation = parse_carriers(candidates[p], None)
      BY <1>6, <3>1
    <3>4. candidates[p] = texts[leaves[p]]
      BY <1>3, <3>1
    <3> QED BY <3>2, <3>3, <3>4
  <2> QED BY <1>7, <2>1, <2>2, <2>3 DEF PlanAnswersRequest
<1>9. validate_retained_plan(plan)
  <2> HIDE DEF objs, n
  <2>1. Len(objs) \in 1..MaxSelectors
    <3>1. Len(objs) = n
      <4>1. objs = [p \in 1..n |-> objs[p]]
        BY <1>5 DEF objs, PlanObjects
      <4> QED BY <1>2, <4>1, FunctionLen
    <3> QED BY <1>2, <3>1
  <2>2. Distinct([p \in DOMAIN objs |-> objs[p].identity])
    <3>1. ASSUME NEW i \in 1..n, NEW j \in 1..n, selection.selectors[i] = selection.selectors[j]
          PROVE  i = j
      <4>1. Invalid(selection) = {}
        BY <1>1 DEF SelectionInv, Preflighted
      <4>2. n \in Nat /\ DOMAIN selection.selectors = 1..n
        BY <1>2
      <4>3. \A p \in 1..n : \A q \in 1..(p - 1) : selection.selectors[q] # selection.selectors[p]
        BY <4>1, <4>2 DEF Invalid
      <4>4. i \in Nat /\ j \in Nat /\ i >= 1 /\ j >= 1
        BY <4>2
      <4>5. ~ (i < j)
        BY <3>1, <4>3, <4>4
      <4>6. ~ (j < i)
        BY <3>1, <4>3, <4>4
      <4> QED BY <4>4, <4>5, <4>6
    <3> DEFINE ids == [p \in DOMAIN objs |-> objs[p].identity]
    <3>2. DOMAIN ids = 1..n /\ \A p \in 1..n : ids[p] = <<selection.selectors[p], leaves[p]>>
      BY <1>5
    <3>3. ASSUME NEW i \in DOMAIN ids, NEW j \in DOMAIN ids, ids[i] = ids[j]
          PROVE  i = j
      <4> HIDE DEF ids
      <4>1. selection.selectors[i] = selection.selectors[j]
        BY <3>2, <3>3
      <4> QED BY <3>1, <3>2, <4>1
    <3> QED BY <3>3, Zenon DEF Distinct
  <2>3. \A p \in DOMAIN objs :
          /\ objs[p].matrix \in {"identity", "moved"}
          /\ objs[p].identity = <<objs[p].selector, objs[p].part>>
          /\ selection.kind = "part studio" =>
               /\ objs[p].part = [carrier |-> RootCarrier, part |-> objs[p].selector]
               /\ objs[p].matrix = "identity"
    <3> TAKE p \in DOMAIN objs
    <3>1. objs[p].matrix \in {"identity", "moved"}
      <4>1. CASE selection.kind = "part studio"
        BY <1>5, <4>1
      <4>2. CASE selection.kind = "assembly"
        <5>1. TransformOf[selection.selectors[p]] \in Transforms
          BY <1>2, <1>5, <4>2, SelectionAssumption
        <5> QED BY <1>5, <4>2, <5>1 DEF normalize_transform, Transforms
      <4> QED BY <1>2, <4>1, <4>2
    <3>2. /\ objs[p].identity = <<selection.selectors[p], leaves[p]>>
          /\ objs[p].selector = selection.selectors[p] /\ objs[p].part = leaves[p]
      BY <1>5
    <3>3. selection.kind = "part studio" =>
            leaves[p] = [carrier |-> RootCarrier, part |-> selection.selectors[p]]
      BY <1>4, <1>5
    <3>4. selection.kind = "part studio" => objs[p].matrix = "identity"
      BY <1>5
    <3> QED BY <3>1, <3>2, <3>3, <3>4
  <2>4. validate_authoring_context(objs)
    <3>1. DOMAIN Authored = DOMAIN objs
      BY <1>5, <1>6
    <3>2. \A p \in DOMAIN objs : /\ objs[p].annotation = Authored[p].annotation
                                /\ objs[p].part = Authored[p].part
                                /\ objs[p].bytes = Authored[p].bytes
      BY <1>5, <1>6
    <3> QED BY <1>1, <3>1, <3>2, ContextOfPlan
  <2> QED BY <1>7, <2>1, <2>2, <2>3, <2>4 DEF validate_retained_plan
<1> QED
  BY <1>8, <1>9 DEF PlanIsFaithful, PlansCanBeRetained

\* Of plan_selection and validate_retained_plan: a plan has every selector of
\* its request, in its order, each with the marker of its own part through
\* however many carrier groups it was read, and is accepted again when it is
\* read back for an acquisition.
THEOREM PlansAreFaithful == SelectionSpec => []PlanIsFaithful
BY KeptPlanIsFaithful, SelectionInvInit, SelectionStep, PTL DEF SelectionSpec

=============================================================================
