--------------------------------- MODULE Wire ---------------------------------
(***************************************************************************)
(* The daemon protocol on the wire: messages as JSON lines                 *)
(* (src/daemon/protocol.rs), read back from a byte stream that arrives in  *)
(* chunks of any size and may end anywhere (src/daemon/transport.rs), by   *)
(* the daemon for requests (serve_client of src/daemon/server.rs) and by   *)
(* the client for answers (src/daemon/client.rs).                          *)
(*                                                                         *)
(* A byte is a name; the character "wide" takes two bytes, which are text  *)
(* only together.  A message is a protocol version, a kind and a text; its *)
(* JSON is a byte for each of the first two and the text with its control  *)
(* characters escaped.                                                     *)
(***************************************************************************)
EXTENDS Naturals, Sequences, FiniteSets, SequencesExt

CONSTANT
    MaxMessageBytes    \* protocol::MAX_MESSAGE_BYTES, 1 MiB in the code

ASSUME WireAssumption == MaxMessageBytes \in Nat \ {0}

PROTOCOL_VERSION == "v1"

Versions == {"v1", "v2"}

(* Some of the kinds this version knows. *)
RequestKinds == {"PING", "SUBMIT"}

ResponseKinds == {"PONG", "SUBMITTED", "ERROR"}

Message(version, kind, text) == [version |-> version, kind |-> kind, text |-> text]

-----------------------------------------------------------------------------
(* serde_json and UTF-8, as far as frames depend on them.                  *)

(* The bytes of a character inside a JSON string: no control character     *)
(* stays what it is, so a line never contains a line feed.                 *)
Escaped(char) ==
  CASE char = "lf"   -> <<"\\", "n">>
    [] char = "cr"   -> <<"\\", "r">>
    [] char = "wide" -> <<"lead", "tail">>
    [] OTHER         -> <<char>>

(* The characters that are written with two bytes, and those that are one. *)
Pairs == {"lf", "cr", "wide"}

Plain == {"a", "INTERNAL"}

(* The next byte of a JSON string. *)
TextByte(s, byte) ==
  LET whole == {c \in Pairs : Escaped(c) = <<s.half, byte>>}
  IN  CASE s.half # "none" /\ whole # {} -> 
             [s EXCEPT !.text = Append(@, CHOOSE c \in whole : TRUE), !.half = "none"]
        [] s.half = "none" /\ byte \in {"\\", "lead"} -> [s EXCEPT !.half = byte]
        [] s.half = "none" /\ byte \in Plain -> [s EXCEPT !.text = Append(@, byte)]
        [] OTHER -> [s EXCEPT !.half = "none", !.valid = FALSE]

NoText == [text |-> <<>>, half |-> "none", valid |-> TRUE]

(* The characters of these bytes.  A raw control character, half a         *)
(* character and an unknown escape are no text.                            *)
Characters(bytes) ==
  LET s == FoldLeft(TextByte, NoText, bytes)
  IN  [valid |-> s.valid /\ s.half = "none", text |-> s.text]

(* Whether a frame is UTF-8. *)
IsText(frame) ==
  \A i \in DOMAIN frame :
    /\ frame[i] = "lead" => i < Len(frame) /\ frame[i + 1] = "tail"
    /\ frame[i] = "tail" => i > 1 /\ frame[i - 1] = "lead"

-----------------------------------------------------------------------------
EscapedText(text) == FlattenSeq([i \in DOMAIN text |-> Escaped(text[i])])

(* encode_request, encode_response. *)
Encode(message) == <<message.version, message.kind>> \o EscapedText(message.text) \o <<"lf">>

(* serde_json::from_str: a message of one of these kinds. *)
Parse(line, kinds) ==
  IF Len(line) < 2 THEN [ok |-> FALSE]
  ELSE LET body == Characters(SubSeq(line, 3, Len(line)))
       IN  IF line[1] \in Versions /\ line[2] \in kinds /\ body.valid
           THEN [ok |-> TRUE, message |-> Message(line[1], line[2], body.text)]
           ELSE [ok |-> FALSE]

Error(code) == Message(PROTOCOL_VERSION, "ERROR", <<code>>)

(* decode_request: the request, or the refusal it is answered with.  The   *)
(* version is looked at once the message has been parsed.                  *)
DecodeRequest(line) ==
  LET parsed == Parse(line, RequestKinds)
  IN  CASE Len(line) > MaxMessageBytes \/ ~parsed.ok -> [refused |-> "INVALID_REQUEST"]
        [] OTHER -> IF parsed.message.version # PROTOCOL_VERSION
                    THEN [refused |-> "UNSUPPORTED_PROTOCOL"]
                    ELSE [request |-> parsed.message]

(* decode_response. *)
DecodeResponse(line) ==
  LET parsed == Parse(line, ResponseKinds)
  IN  IF parsed.ok /\ parsed.message.version = PROTOCOL_VERSION
      THEN [response |-> parsed.message] ELSE [failed |-> "protocol"]

-----------------------------------------------------------------------------
(* Reading.  A stream is a sequence of bytes in which "cut" marks where    *)
(* one read of the operating system ended.                                 *)

Reading == [frame |-> <<>>, frames |-> <<>>, error |-> "none"]

TrimCr(frame) ==
  LET kept == {i \in DOMAIN frame : frame[i] # "cr"}
  IN  IF kept = {} THEN <<>> ELSE SubSeq(frame, 1, CHOOSE i \in kept : \A k \in kept : k <= i)

(* Mutant: the bound is one byte short while a frame is incomplete. *)
ReadBoundShort(s, byte) ==
  CASE s.error # "none" -> s
    [] s.error = "none" /\ byte = "cut" ->
         IF Len(s.frame) >= MaxMessageBytes THEN [s EXCEPT !.error = "FrameTooLong"] ELSE s
    [] s.error = "none" /\ byte = "lf" ->
         IF Len(s.frame) > MaxMessageBytes THEN [s EXCEPT !.error = "FrameTooLong"]
         ELSE IF ~IsText(s.frame) THEN [s EXCEPT !.error = "Encoding"]
         ELSE [s EXCEPT !.frame = <<>>, !.frames = Append(@, TrimCr(s.frame))]
    [] OTHER -> [s EXCEPT !.frame = Append(@, byte)]

(* read_frame, byte by byte: the length is checked whenever what one read  *)
(* gave is used up, and when the line feed is found.                       *)
ReadByte(s, byte) ==
  CASE s.error # "none" -> s
    [] s.error = "none" /\ byte = "cut" ->
         IF Len(s.frame) > MaxMessageBytes THEN [s EXCEPT !.error = "FrameTooLong"] ELSE s
    [] s.error = "none" /\ byte = "lf" ->
         IF Len(s.frame) > MaxMessageBytes THEN [s EXCEPT !.error = "FrameTooLong"]
         ELSE IF ~IsText(s.frame) THEN [s EXCEPT !.error = "Encoding"]
         ELSE [s EXCEPT !.frame = <<>>, !.frames = Append(@, TrimCr(s.frame))]
    [] OTHER -> [s EXCEPT !.frame = Append(@, byte)]

(* The frames a reader gets from a stream that then ends, and why it gets  *)
(* no more: the end between two frames, or an error.                       *)
ReadFrames(stream) ==
  LET s == FoldLeft(ReadByte, Reading, stream)
  IN  [frames |-> s.frames,
       end |-> CASE s.error # "none" -> s.error
                 [] s.error = "none" /\ s.frame = <<>> -> "closed"
                 [] OTHER -> IF Len(s.frame) > MaxMessageBytes THEN "FrameTooLong" ELSE "Truncated"]

(* Some answer of the daemon that tells which request it is for. *)
Echo(message) == Message(PROTOCOL_VERSION, "SUBMITTED", message.text)

(* serve_client: every frame is answered, with what handle answers or with *)
(* a refusal, until the stream ends; then nothing is.                      *)
Serve(stream) ==
  LET frames == ReadFrames(stream).frames
  IN  [i \in DOMAIN frames |->
         LET decoded == DecodeRequest(frames[i])
         IN  IF "refused" \in DOMAIN decoded THEN Error(decoded.refused)
             ELSE Echo(decoded.request)]

(* DaemonClient::receive: the first answer of a stream, or why there is    *)
(* none; request tells a refusal of the daemon from an answer.             *)
Receive(stream) ==
  LET read == ReadFrames(stream)
  IN  IF read.frames # <<>> THEN DecodeResponse(read.frames[1])
      ELSE [failed |-> IF read.end = "closed" THEN "closed" ELSE "transport"]

Request(stream) ==
  LET received == Receive(stream)
  IN  IF "response" \in DOMAIN received /\ received.response.kind = "ERROR"
      THEN [failed |-> received.response.text[1]] ELSE received

-----------------------------------------------------------------------------
Texts == UNION {[1..n -> {"a", "lf", "wide"}] : n \in 0..2}

Sent == {Message("v1", "SUBMIT", t) : t \in Texts}
        \cup {Message("v1", "PING", <<>>), Message("v2", "PING", <<>>),
              Message("v2", "LATER", <<>>)}

(* What a client writes that has these messages to say. *)
Written(messages) == FlattenSeq([i \in DOMAIN messages |-> Encode(messages[i])])

(* The first k bytes of a stream, read in pieces that end where `cuts`     *)
(* says.                                                                   *)
Chunked(bytes, k, cuts) ==
  FlattenSeq([i \in 1..k |-> IF i \in cuts THEN <<bytes[i], "cut">> ELSE <<bytes[i]>>])

Fits(message) == Len(Encode(message)) - 1 <= MaxMessageBytes

(* What the daemon owes a client for a message. *)
Owed(message) ==
  CASE message.kind \notin RequestKinds -> Error("INVALID_REQUEST")
    [] message.kind \in RequestKinds /\ message.version # PROTOCOL_VERSION -> Error("UNSUPPORTED_PROTOCOL")
    [] OTHER -> Echo(message)

(* How many messages arrive with k bytes: those that are written whole, up *)
(* to the first that is too long for a frame.                              *)
Arrived(messages, k) ==
  Max({n \in 0..Len(messages) : /\ Len(Written(SubSeq(messages, 1, n))) <= k
                                /\ \A i \in 1..n : Fits(messages[i])})

(* The daemon answers the messages that arrived whole, in order and by     *)
(* what they say; half a request is never served, and a request whose text *)
(* contains a line feed is one request.                                    *)
ServesWhatArrived(messages, k, cuts) ==
  Serve(Chunked(Written(messages), k, cuts))
    = [i \in 1..Arrived(messages, k) |-> Owed(messages[i])]

(* Two requests on one connection, wherever the reads fall and wherever    *)
(* the client dies.                                                        *)
RequestsArriveWhole ==
  \A one, two \in Sent :
    \A k \in 0..Len(Written(<<one, two>>)) :
      \A cuts \in {{}, 1..k} \cup {{i} : i \in 1..k} :
        ServesWhatArrived(<<one, two>>, k, cuts)

(* The client takes for the daemon's answer only an answer that arrived    *)
(* whole: a daemon that dies while it writes one, one that is too long and *)
(* one of another version are failures of the request, never an answer,    *)
(* and a connection closed before it is not taken for one either.          *)
TakesWhatArrived(answer, k, cuts) ==
  LET bytes == Encode(answer)
      result == Request(Chunked(bytes, k, cuts))
      whole == k = Len(bytes) /\ Fits(answer) /\ answer.version = PROTOCOL_VERSION
  IN  CASE k = 0 -> result = [failed |-> "closed"]
        [] k # 0 /\ whole -> result = IF answer.kind = "ERROR" THEN [failed |-> answer.text[1]]
                                     ELSE [response |-> answer]
        [] OTHER -> result \in [failed : {"transport", "protocol"}]

AnswersArriveWhole ==
  \A answer \in {Message(v, "SUBMITTED", t) : v \in Versions, t \in Texts} \cup {Error("INTERNAL")} :
    \A k \in 0..Len(Encode(answer)) :
      \A cuts \in SUBSET (1..k) : TakesWhatArrived(answer, k, cuts)
=============================================================================
