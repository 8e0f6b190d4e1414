------------------------------ MODULE SseChannel ------------------------------
(***************************************************************************)
(* Server-sent events on their way to a client's callback: frames as the   *)
(* servers of this repository and others write them, a connection that     *)
(* hands them over in chunks cut anywhere and may end anywhere, and        *)
(* SseParser.  The text is abstracted to the characters the parser looks   *)
(* at: the name of a field, the colon, the value, CR and LF.               *)
(***************************************************************************)
EXTENDS Integers, Sequences, FiniteSets, SequencesExt

CONSTANTS
    Frames,         \* the kinds of frames, see Text
    MaxFrames       \* frames of one stream

FramesAssumption ==
    /\ MaxFrames \in Nat
    /\ Frames \subseteq {"event", "error", "heartbeat", "crlf", "retry", "lines", "bare", "unknown"}

VARIABLES
    sent,           \* the kinds of frames the server wrote
    wire,           \* their text
    pos,            \* how much of it the parser was fed
    line_buffer_, current_event_, current_data_,
    events,         \* the events the callback got
    state           \* "open", "failed" or "finished"

vars == <<sent, wire, pos, line_buffer_, current_event_, current_data_, events, state>>

-----------------------------------------------------------------------------
(* Text: a frame's lines. *)

LF == <<"lf", 0>>
CR == <<"cr", 0>>
Colon == <<"colon", 0>>
Name(field) == <<field, 0>>
Value(n) == <<"value", n>>

DataLine(n) == <<Name("data"), Colon, Value(n), LF>>

(* The n-th frame of a stream.  BuildSseEvent, BuildSseErrorEvent and        *)
(* kSseHeartbeat write the first three.                                      *)
Text(kind, n) ==
    CASE kind = "event" -> DataLine(n) \o <<LF>>
      [] kind = "error" -> <<Name("event"), Colon, Value(0), LF>> \o DataLine(n) \o <<LF>>
      [] kind = "heartbeat" -> <<Colon, Value(n), LF, LF>>
      [] kind = "crlf" -> <<Name("data"), Colon, Value(n), CR, LF, CR, LF>>
      [] kind = "retry" -> <<Name("retry"), Colon, Value(n), LF>> \o DataLine(n) \o <<LF>>
      [] kind = "lines" -> DataLine(n) \o DataLine(n) \o <<LF>>
      [] kind = "bare" -> <<Name("data"), LF, LF>>
      [] kind = "unknown" -> <<Name("other"), Colon, Value(n), LF, LF>>

Malformed == {"bare", "unknown"}

(* The event a frame is, <<name, data>>. *)
Meaning(kind, n) ==
    CASE kind \in {"event", "crlf", "retry"} -> << << <<>>, <<n>> >> >>
      [] kind = "error" -> << << <<0>>, <<n>> >> >>
      [] kind = "lines" -> << << <<>>, <<n, n>> >> >>
      [] OTHER -> <<>>

-----------------------------------------------------------------------------
(* SseParser.  A parser state is [event, data, out, ok]: the name, if any,   *)
(* and the lines of the data.                                                *)

(* Mutant: the name of an event is not reset. *)
DispatchEventKeepingName(p) ==
    IF p.data = <<>> /\ p.event = <<>> THEN p
    ELSE [p EXCEPT !.data = <<>>, !.out = Append(@, <<p.event, p.data>>)]

DispatchEvent(p) ==
    IF p.data = <<>> /\ p.event = <<>> THEN p
    ELSE [p EXCEPT !.event = <<>>, !.data = <<>>, !.out = Append(@, <<p.event, p.data>>)]

(* The value of a line <<name, colon, value>>; NoValue when it is empty. *)
NoValue == -1
LineValue(line) == IF Len(line) > 2 THEN line[3][2] ELSE NoValue

ConsumeLine(p, line) ==
    IF ~p.ok THEN p
    ELSE IF line = <<>> THEN DispatchEvent(p)
    ELSE IF line[1] = Colon THEN p
    ELSE IF \A i \in DOMAIN line : line[i] # Colon THEN [p EXCEPT !.ok = FALSE]
    ELSE CASE line[1] = Name("event") -> [p EXCEPT !.event = IF LineValue(line) = NoValue THEN <<>> ELSE <<LineValue(line)>>]
           [] line[1] = Name("data") -> [p EXCEPT !.data = Append(@, LineValue(line))]
           [] line[1] \in {Name("id"), Name("retry")} -> p
           [] OTHER -> [p EXCEPT !.ok = FALSE]

StripCR(line) == IF line # <<>> /\ Last(line) = CR THEN Front(line) ELSE line

(* The complete lines of a buffer, and what follows them. *)
Ends(buffer) == {i \in DOMAIN buffer : buffer[i] = LF}
LineStart(buffer, e) == LET before == {j \in Ends(buffer) : j < e} IN IF before = {} THEN 1 ELSE 1 + Max(before)
KthEnd(buffer, k) == CHOOSE e \in Ends(buffer) : Cardinality({j \in Ends(buffer) : j <= e}) = k
Lines(buffer) ==
    [k \in 1..Cardinality(Ends(buffer)) |->
       LET e == KthEnd(buffer, k) IN StripCR(SubSeq(buffer, LineStart(buffer, e), e - 1))]
Rest(buffer) == SubSeq(buffer, LineStart(buffer, Len(buffer) + 1), Len(buffer))

Parser(ok) == [event |-> current_event_, data |-> current_data_, out |-> events, ok |-> ok]

Assign(p) ==
    /\ current_event_' = p.event /\ current_data_' = p.data /\ events' = p.out

-----------------------------------------------------------------------------
Init ==
    /\ sent = <<>> /\ wire = <<>> /\ pos = 0
    /\ line_buffer_ = <<>> /\ current_event_ = <<>> /\ current_data_ = <<>>
    /\ events = <<>> /\ state = "open"

WriteFrame(kind) ==
    /\ state = "open" /\ Len(sent) < MaxFrames
    /\ sent' = Append(sent, kind)
    /\ wire' = wire \o Text(kind, Len(sent) + 1)
    /\ UNCHANGED <<pos, line_buffer_, current_event_, current_data_, events, state>>

(* Feed of the next k characters.  A line it refuses stays in the buffer     *)
(* with those before it; the streams of the clients end there.               *)
Feed(k) ==
    /\ state = "open" /\ pos + k <= Len(wire)
    /\ LET buffer == line_buffer_ \o SubSeq(wire, pos + 1, pos + k)
           p == FoldLeft(ConsumeLine, Parser(TRUE), Lines(buffer))
       IN  /\ Assign(p)
           /\ IF p.ok THEN line_buffer_' = Rest(buffer) /\ state' = state
              ELSE line_buffer_' = buffer /\ state' = "failed"
    /\ pos' = pos + k
    /\ UNCHANGED <<sent, wire>>

(* Mutant: an event without its empty line is forgotten. *)
FinishSilently ==
    /\ state = "open"
    /\ state' = "finished"
    /\ UNCHANGED <<sent, wire, pos, line_buffer_, current_event_, current_data_, events>>

(* The connection ends, wherever it is. *)
Finish ==
    /\ state = "open"
    /\ LET p == IF line_buffer_ = <<>> THEN Parser(TRUE) ELSE ConsumeLine(Parser(TRUE), line_buffer_)
       IN  /\ Assign(p)
           /\ line_buffer_' = IF p.ok THEN <<>> ELSE line_buffer_
           /\ state' = IF p.ok /\ p.event = <<>> /\ p.data = <<>> THEN "finished" ELSE "failed"
    /\ UNCHANGED <<sent, wire, pos>>

Over == state # "open" /\ UNCHANGED vars

Next ==
    \/ \E kind \in Frames : WriteFrame(kind)
    \/ \E k \in 1..(Len(wire) - pos) : Feed(k)
    \/ Finish
    \/ Over

Spec == Init /\ [][Next]_vars

-----------------------------------------------------------------------------
TypeOK ==
    /\ sent \in Seq(Frames) /\ pos \in 0..Len(wire) /\ state \in {"open", "failed", "finished"}
    /\ state = "open" => Ends(line_buffer_) = {}

(* The text before the n-th frame. *)
FrameStart(n) == FoldLeft(LAMBDA sum, i : sum + Len(Text(sent[i], i)), 0, [i \in 1..(n - 1) |-> i])
WholeFrames == {n \in 1..Len(sent) : FrameStart(n + 1) <= pos}
FirstMalformed == {n \in 1..Len(sent) : sent[n] \in Malformed}
Accepted == {n \in WholeFrames : \A m \in FirstMalformed : n < m}

(* However the text is cut into chunks, the callback gets the events of the  *)
(* frames received in whole, once each, in order and with the data they      *)
(* carry, up to the first frame the parser refuses; heartbeats are no events.*)
ChunkingIrrelevant ==
    events = FoldLeft(LAMBDA seq, n : seq \o Meaning(sent[n], n), <<>>, [i \in 1..Cardinality(Accepted) |-> i])

(* A stream that ends well lost no data: when the connection ends inside a   *)
(* frame, the end is an error unless the frame had shown neither a data line *)
(* nor the name of an event yet.                                             *)
EndsBetweenEvents ==
    state = "finished" =>
      \A n \in 1..Len(sent) : FrameStart(n) < pos /\ pos < FrameStart(n + 1) =>
        LET shown == SubSeq(wire, FrameStart(n) + 1, pos)
        IN  \A i \in DOMAIN shown :
              /\ shown[i] # Name("data")
              /\ shown[i] = Name("event") => i + 1 = Len(shown)

(* Only malformed text and a cut are errors. *)
FailsForCause ==
    state = "failed" =>
      \/ \E n \in FirstMalformed : FrameStart(n) < pos
      \/ \E n \in 1..Len(sent) : FrameStart(n) < pos /\ pos < FrameStart(n + 1)
=============================================================================
