----------------------------- MODULE HttpAdapter -----------------------------
(***************************************************************************)
(* One server connection behind HttpAdapter: requests that arrive back to   *)
(* back in reads cut anywhere, the bytes HttpConnectionState keeps between  *)
(* them, and responses whose framing tells the client where each one ends.  *)
(* A token stands for a request line, a header, a line end or a byte of a   *)
(* body, and sizes count tokens.  The loop around the adapter belongs to    *)
(* the embedding server: "persistent" reads requests until one asks to      *)
(* close, "single" is the streaming example's HandleConnection.             *)
(***************************************************************************)
EXTENDS Integers, Sequences, FiniteSets, SequencesExt

CONSTANTS
    Requests,           \* what clients send: [line, headers, body]
    Responses,          \* what handlers answer: [connection, length, encoding, body, streaming]
    MaxRequests,        \* requests of one connection
    MaxEvents,          \* events of one stream
    max_request_size, read_buffer_size

None == -1

HttpAdapterAssumption ==
    /\ MaxRequests \in Nat /\ MaxEvents \in Nat /\ max_request_size \in Nat /\ read_buffer_size \in Nat \ {0}
    /\ \A r \in Requests : r.line \in {"ok", "malformed", "version"} /\ r.body \in Seq({"byte", "crlf"})
    /\ \A a \in Responses : a.body \in Nat /\ a.streaming \in BOOLEAN /\ a.encoding \in BOOLEAN
                            /\ a.length \in Nat \cup {None} /\ a.connection \subseteq {"close", "keep-alive"}

VARIABLES
    mode,               \* the loop: "persistent" or "single"
    sent,               \* the requests the client wrote
    wire,               \* tokens on their way to the server
    client,             \* "open" or "gone"
    raw,                \* buffered_bytes_
    pc,                 \* "headers", "body", "handle", "write", "stream" or "closed"
    head,               \* the parsed head of the request being read
    refused,            \* why a request was refused: "no", "malformed", "size" or "end"
    handled,            \* the requests handed to the handler
    answers,            \* what the handler made of each: [response, close, parts, ended]
    payload,            \* what WriteAll still has to write
    received            \* what reached the client

vars == <<mode, sent, wire, client, raw, pc, head, refused, handled, answers, payload, received>>

-----------------------------------------------------------------------------
(* The text of a request.  Headers are looked up in sent. *)

CRLF == <<"crlf", 0, 0>>
BodyText(r, n) == [i \in DOMAIN r.body |-> IF r.body[i] = "crlf" THEN CRLF ELSE <<"body", n, i>>]
HeadText(r, n) ==
    <<<<"line", n, 0>>, CRLF>> \o FlattenSeq([i \in DOMAIN r.headers |-> <<<<"header", n, i>>, CRLF>>]) \o <<CRLF>>
Text(r, n) == HeadText(r, n) \o BodyText(r, n)

-----------------------------------------------------------------------------
(* ReadRequest. *)

Delimiters(text) == {i \in 1..(Len(text) - 1) : text[i] = CRLF /\ text[i + 1] = CRLF}
HeadersComplete(text) == Delimiters(text) # {}
header_end == Min(Delimiters(raw))
header_block == SubSeq(raw, 1, header_end - 1)
body_start == header_end + 1

(* A length of None is one from_chars refuses.  Connection values are joined. *)
ParseHeaderLine(acc, h) ==
    IF ~acc.ok \/ h.name \in {"malformed", "encoding"} THEN [acc EXCEPT !.ok = FALSE]
    ELSE IF h.name = "length"
      THEN IF h.value = None \/ acc.length \notin {None, h.value} THEN [acc EXCEPT !.ok = FALSE]
           ELSE [acc EXCEPT !.length = h.value]
    ELSE IF h.name = "connection" THEN [acc EXCEPT !.connection = @ \cup h.value]
    ELSE acc

(* A block of one line has no line end, and ParseRequestLine misses it. *)
ParseRequestLine(block) ==
    /\ CRLF \in ToSet(block)
    /\ block[1][1] = "line" /\ sent[block[1][2]].line = "ok"

ParseHeaders(block) ==
    LET lines == SelectSeq(SubSeq(block, 3, Len(block)), LAMBDA t : t # CRLF)
    IN  FoldLeft(LAMBDA acc, t : ParseHeaderLine(acc, sent[t[2]].headers[t[3]]),
                 [ok |-> TRUE, length |-> None, connection |-> {}], lines)

NoHead == [ok |-> FALSE, length |-> 0, connection |-> {}]
expected_body_size == IF head.length = None THEN 0 ELSE head.length

Refuse(why) == refused' = why /\ pc' = "closed" /\ head' = NoHead

TooLong(start, size) == start > max_request_size \/ size > max_request_size - start

-----------------------------------------------------------------------------
Init ==
    /\ mode \in {"persistent", "single"}
    /\ sent = <<>> /\ wire = <<>> /\ client = "open"
    /\ raw = <<>> /\ pc = "headers" /\ head = NoHead /\ refused = "no"
    /\ handled = <<>> /\ answers = <<>> /\ payload = <<>> /\ received = <<>>

ClientSends(r) ==
    /\ client = "open" /\ Len(sent) < MaxRequests
    /\ sent' = Append(sent, r) /\ wire' = wire \o Text(r, Len(sent) + 1)
    /\ UNCHANGED <<mode, client, raw, pc, head, refused, handled, answers, payload, received>>

(* The connection breaks: what is on the wire is cut somewhere. *)
ClientLeaves ==
    /\ client = "open" /\ client' = "gone"
    /\ \E k \in 0..Len(wire) : wire' = SubSeq(wire, 1, k)
    /\ UNCHANGED <<mode, sent, raw, pc, head, refused, handled, answers, payload, received>>

Wanting == \/ pc = "headers" /\ ~HeadersComplete(raw)
           \/ pc = "body" /\ Len(raw) - body_start < expected_body_size

(* Mutant: the limit is held against everything that was read. *)
ReadLimited ==
    /\ Wanting
    /\ \E k \in 1..read_buffer_size :
         /\ k <= Len(wire)
         /\ raw' = raw \o SubSeq(wire, 1, k) /\ wire' = SubSeq(wire, k + 1, Len(wire))
    /\ IF Len(raw') > max_request_size THEN Refuse("size") ELSE UNCHANGED <<pc, head, refused>>
    /\ UNCHANGED <<mode, sent, client, handled, answers, payload, received>>

(* One transport.Read of ReadUntilHeadersComplete or ReadRemainingBody. *)
Read ==
    /\ Wanting
    /\ \E k \in 1..read_buffer_size :
         /\ k <= Len(wire)
         /\ raw' = raw \o SubSeq(wire, 1, k) /\ wire' = SubSeq(wire, k + 1, Len(wire))
    /\ IF \/ pc = "headers" /\ ~HeadersComplete(raw') /\ Len(raw') > max_request_size
          \/ pc = "body" /\ body_start + expected_body_size > max_request_size
       THEN Refuse("size")
       ELSE UNCHANGED <<pc, head, refused>>
    /\ UNCHANGED <<mode, sent, client, handled, answers, payload, received>>

ReadEnds ==
    /\ Wanting /\ client = "gone" /\ wire = <<>>
    /\ Refuse("end")
    /\ UNCHANGED <<mode, sent, wire, client, raw, handled, answers, payload, received>>

(* Mutant: a head is looked for only while more can be read. *)
ParseHeadWhenReading ==
    /\ pc = "headers" /\ HeadersComplete(raw) /\ (wire # <<>> \/ client = "gone")
    /\ LET parsed == ParseHeaders(header_block)
           size == IF parsed.length = None THEN 0 ELSE parsed.length
       IN  IF ~ParseRequestLine(header_block) \/ ~parsed.ok THEN Refuse("malformed")
           ELSE IF TooLong(body_start, size) THEN Refuse("size")
           ELSE head' = parsed /\ pc' = "body" /\ UNCHANGED refused
    /\ UNCHANGED <<mode, sent, wire, client, raw, handled, answers, payload, received>>

ParseHead ==
    /\ pc = "headers" /\ HeadersComplete(raw)
    /\ LET parsed == ParseHeaders(header_block)
           size == IF parsed.length = None THEN 0 ELSE parsed.length
       IN  IF ~ParseRequestLine(header_block) \/ ~parsed.ok THEN Refuse("malformed")
           ELSE IF TooLong(body_start, size) THEN Refuse("size")
           ELSE head' = parsed /\ pc' = "body" /\ UNCHANGED refused
    /\ UNCHANGED <<mode, sent, wire, client, raw, handled, answers, payload, received>>

RequestRead ==
    /\ pc = "body" /\ Len(raw) - body_start >= expected_body_size
    /\ handled' = Append(handled, [n |-> raw[1][2], connection |-> head.connection,
                                   body |-> SubSeq(raw, body_start + 1, body_start + expected_body_size)])
    /\ raw' = SubSeq(raw, body_start + expected_body_size + 1, Len(raw))
    /\ pc' = "handle"
    /\ UNCHANGED <<mode, sent, wire, client, head, refused, answers, payload, received>>

-----------------------------------------------------------------------------
(* WriteResponse.  Tokens of a response: its head, <<framing, n, size,       *)
(* connection>>, parts of its body, the size before a chunk and the final    *)
(* chunk.                                                                    *)

IsConnectionReusable(request) == "close" \notin request.connection
ShouldCloseConnection(request, a) == ~IsConnectionReusable(request) \/ "close" \in a.connection

Part(n, i) == <<"part", n, i, {}>>
Chunk(n, i) == <<<<"size", n, 1, {}>>, Part(n, i)>>
FinalChunk(n) == <<<<"final", n, 0, {}>>>>

(* AppendResponseHeaders refuses the framing headers it owns. *)
HeadersAccepted(a) ==
    /\ ~a.encoding
    /\ a.length # None => ~a.streaming /\ a.length = a.body

(* The Connection tokens the client reads. *)
ConnectionHeaders(a, close) ==
    LET requests_close == "close" \in a.connection
        must_close == close \/ requests_close
    IN  (IF must_close /\ ~requests_close THEN {} ELSE a.connection)
          \cup IF must_close /\ ~requests_close THEN {"close"} ELSE {}

Framing(a, close) ==
    IF ~a.streaming THEN "length" ELSE IF close \/ "close" \in a.connection THEN "untilclose" ELSE "chunked"

ResponseHead(a, n, close) ==
    <<Framing(a, close), n, IF a.streaming THEN 0 ELSE a.body, ConnectionHeaders(a, close)>>

(* The handler answers, and WriteResponse composes what it writes first. *)
Handle(a) ==
    /\ pc = "handle"
    /\ LET n == Len(handled)
           close == mode = "single" \/ ShouldCloseConnection(handled[n], a)
       IN  /\ answers' = Append(answers, [response |-> a, close |-> close, parts |-> 0, ended |-> ~a.streaming])
           /\ IF ~HeadersAccepted(a) THEN pc' = "closed" /\ UNCHANGED payload
              ELSE /\ pc' = "write"
                   /\ payload' = <<ResponseHead(a, n, close)>>
                                   \o IF a.streaming THEN <<>> ELSE [i \in 1..a.body |-> Part(n, i)]
    /\ UNCHANGED <<mode, sent, wire, client, raw, head, refused, handled, received>>

HandlerFails ==
    /\ pc = "handle" /\ pc' = "closed"
    /\ UNCHANGED <<mode, sent, wire, client, raw, head, refused, handled, answers, payload, received>>

answer == answers[Len(answers)]

(* One transport.Write of WriteAll.  A client that left reads nothing. *)
Write ==
    /\ pc = "write" /\ payload # <<>>
    /\ \E k \in 1..Len(payload) :
         /\ payload' = SubSeq(payload, k + 1, Len(payload))
         /\ received' = IF client = "gone" THEN received ELSE received \o SubSeq(payload, 1, k)
    /\ UNCHANGED <<mode, sent, wire, client, raw, pc, head, refused, handled, answers>>

WriteFails ==
    /\ pc = "write" /\ payload # <<>> /\ client = "gone"
    /\ pc' = "closed" /\ payload' = <<>>
    /\ UNCHANGED <<mode, sent, wire, client, raw, head, refused, handled, answers, received>>

Written ==
    /\ pc = "write" /\ payload = <<>>
    /\ pc' = IF ~answer.ended THEN "stream" ELSE IF answer.close THEN "closed" ELSE "headers"
    /\ head' = IF answer.ended THEN NoHead ELSE head
    /\ UNCHANGED <<mode, sent, wire, client, raw, refused, handled, answers, payload, received>>

(* The stream writer writes an event, through ChunkedByteTransport when the  *)
(* connection is to be kept.                                                 *)
StreamEvent ==
    LET n == Len(answers) IN
    /\ pc = "stream" /\ answer.parts < MaxEvents
    /\ answers' = [answers EXCEPT ![n].parts = @ + 1]
    /\ payload' = IF answer.close THEN <<Part(n, answer.parts + 1)>> ELSE Chunk(n, answer.parts + 1)
    /\ pc' = "write"
    /\ UNCHANGED <<mode, sent, wire, client, raw, head, refused, handled, received>>

StreamEnds ==
    LET n == Len(answers) IN
    /\ pc = "stream"
    /\ answers' = [answers EXCEPT ![n].ended = TRUE]
    /\ payload' = IF answer.close THEN <<>> ELSE FinalChunk(n)
    /\ pc' = "write"
    /\ UNCHANGED <<mode, sent, wire, client, raw, head, refused, handled, received>>

(* Mutant: a stream that failed gets its final chunk too. *)
StreamFailsFinishing ==
    /\ pc = "stream"
    /\ pc' = "closed" /\ payload' = <<>>
    /\ received' = IF client = "gone" \/ answer.close THEN received ELSE received \o FinalChunk(Len(answers))
    /\ UNCHANGED <<mode, sent, wire, client, raw, head, refused, handled, answers>>

StreamFails ==
    /\ pc = "stream" /\ pc' = "closed"
    /\ UNCHANGED <<mode, sent, wire, client, raw, head, refused, handled, answers, payload, received>>

Server ==
    \/ Read \/ ReadEnds \/ ParseHead \/ RequestRead
    \/ \E a \in Responses : Handle(a)
    \/ HandlerFails
    \/ Write \/ WriteFails \/ Written
    \/ StreamEvent \/ StreamEnds \/ StreamFails

Closed == pc = "closed" /\ UNCHANGED vars

Next == Server \/ (\E r \in Requests : ClientSends(r)) \/ ClientLeaves \/ Closed

(* The loop has its thread, and stream writers end. *)
Fairness == WF_vars(Server) /\ WF_vars(StreamEnds)

Spec == Init /\ [][Next]_vars /\ Fairness

-----------------------------------------------------------------------------
(* What the requests mean, whatever the reads. *)

Named(r, name) == {r.headers[i].value : i \in {j \in DOMAIN r.headers : r.headers[j].name = name}}
WellFormed(r) ==
    /\ r.line = "ok" /\ r.headers # <<>>
    /\ \A i \in DOMAIN r.headers : r.headers[i].name \notin {"malformed", "encoding"}
    /\ None \notin Named(r, "length") /\ Cardinality(Named(r, "length")) <= 1
Size(r) == 2 * Len(r.headers) + 3 + Len(r.body)
CurrentRequest == sent[Len(handled) + 1]

(* The bytes kept never hold part of a request that was handed on, and they  *)
(* stay within one request of the limit and one read.                        *)
TypeOK ==
    /\ mode \in {"persistent", "single"} /\ client \in {"open", "gone"}
    /\ pc \in {"headers", "body", "handle", "write", "stream", "closed"}
    /\ refused \in {"no", "malformed", "size", "end"}
    /\ Len(answers) \in {Len(handled), Len(handled) - 1} /\ Len(handled) <= Len(sent)
    /\ raw # <<>> => raw[1][1] = "line" /\ raw[1][2] = Len(handled) + 1
    /\ Len(raw) <= max_request_size + read_buffer_size

(* However the bytes are cut into reads and whatever was read ahead, the     *)
(* handler gets the requests that were sent, in order, each with its own     *)
(* body, and only well-formed ones within max_request_size.                  *)
RequestsExact ==
    \A n \in DOMAIN handled :
      /\ handled[n].n = n /\ handled[n].body = BodyText(sent[n], n)
      /\ WellFormed(sent[n]) /\ Size(sent[n]) <= max_request_size

(* ReadRequest refuses a request for what it is, not for how it arrived: too *)
(* large only when head and body exceed the limit, malformed only when it    *)
(* is, and ended early only when the client left.                            *)
RefusedForCause ==
    /\ refused = "size" => Size(CurrentRequest) > max_request_size
    /\ refused = "malformed" => ~WellFormed(CurrentRequest)
    /\ refused = "end" => client = "gone"

(* How a client reads what it received: <<n, parts>> of each response its    *)
(* framing calls complete.                                                   *)
Take(c, t) ==
    CASE t[1] = "length" -> IF t[3] = 0 THEN [c EXCEPT !.whole = Append(@, <<t[2], 0>>)]
                            ELSE [c EXCEPT !.left = t[3], !.parts = 0]
      [] t[1] \in {"chunked", "untilclose"} -> [c EXCEPT !.left = 0, !.parts = 0]
      [] t[1] = "part" -> IF c.left = 1 THEN [whole |-> Append(c.whole, <<t[2], c.parts + 1>>), left |-> 0, parts |-> 0]
                          ELSE [c EXCEPT !.left = @ - 1, !.parts = @ + 1]
      [] t[1] = "size" -> c
      [] t[1] = "final" -> [c EXCEPT !.whole = Append(@, <<t[2], c.parts>>)]
ClientView == FoldLeft(Take, [whole |-> <<>>, left |-> 0, parts |-> 0], received)

(* A response that its length or its final chunk declares complete is the    *)
(* answer to the request of its turn, with all of its body, and its stream   *)
(* writer had ended well: a failed stream is never passed off as a whole one.*)
WholeMeansWhole ==
    \A k \in DOMAIN ClientView.whole :
      LET n == ClientView.whole[k][1]
          ans == answers[n]
      IN  /\ n = k /\ ans.ended
          /\ ClientView.whole[k][2] = IF ans.response.streaming THEN ans.parts ELSE ans.response.body

Heads == SelectSeq(received, LAMBDA t : t[1] \in {"length", "chunked", "untilclose"})
Asked(n) == \E i \in DOMAIN sent[n].headers :
              sent[n].headers[i].name = "connection" /\ "close" \in sent[n].headers[i].value

(* The client can rely on the Connection header: a response says close       *)
(* exactly when nothing follows it, never beside keep-alive, always when the *)
(* request asked for it, and a stream that lasts until the end of the        *)
(* connection is always so announced.                                        *)
CloseAnnounced ==
    \A k \in DOMAIN Heads :
      LET close == "close" \in Heads[k][4] IN
      /\ close => k = Len(Heads) /\ Len(handled) = k /\ "keep-alive" \notin Heads[k][4]
      /\ Asked(k) => close
      /\ Heads[k][1] = "untilclose" => close
      /\ ~close /\ pc = "closed" /\ Len(answers) = k /\ payload = <<>> /\ client = "open" /\ answers[k].ended =>
           refused # "no" \/ Len(handled) > k

=============================================================================
