----------------------------- MODULE FrameCodec -----------------------------
(***************************************************************************)
(* The frame header codec of GenericModule (src/src/RPC/Core.ts):          *)
(* prependHeader and extractHeader, for text and for binary messages, and  *)
(* one transport sending frames to another through them.                   *)
(*                                                                         *)
(* A text is a sequence of characters (UTF-16 code units: every character  *)
(* used here is one unit).  A binary message is a sequence of bytes; the   *)
(* byte k of the UTF-8 encoding of character c is [of |-> c, k |-> k].     *)
(* The header JSON {"source":s,"target":t,"time":..,"seq":n} is abstracted *)
(* to  "{" s "," t "," n "}": the quotes, keys and time are fixed overhead *)
(* (MaxHeaderLength is the window left after it), n is one character, and  *)
(* names never hold the structural characters, which JSON.stringify would  *)
(* quote.  The delimiter "$" is not escaped by JSON.stringify, and neither *)
(* is any non-ASCII character.                                             *)
(***************************************************************************)
EXTENDS Naturals, Sequences, SequencesExt, TLC

CONSTANTS
    None,
    NameChars,       \* characters names may contain
    WideChars,       \* those of them whose UTF-8 encoding has two bytes
    BodyChars,       \* characters of message bodies
    MaxNameLength,   \* bound: characters of a source or target name
    MaxBodyLength,   \* bound: characters of a body
    MaxSeq,          \* bound: frames a node prepends a header to
    MaxHeaderLength  \* MAX_HEADER_LENGTH, less the fixed header overhead

ASSUME WideChars \subseteq NameChars
ASSUME NameChars \cap ({"{", ",", "}"} \cup {ToString(n) : n \in 0..MaxSeq}) = {}

HEADER_DELIMITER == "$"
Structural == {"{", ",", "}"}
SeqChars == {ToString(n) : n \in 0..MaxSeq}
REPLACEMENT == "U+FFFD"

Names == SeqOf(NameChars, MaxNameLength)
Bodies == SeqOf(BodyChars, MaxBodyLength)

\* stringToUint8Array: TextEncoder's UTF-8 encoding.
Width(c) == IF c \in WideChars THEN 2 ELSE 1
Utf8Encode(str) ==
    FlattenSeq([i \in 1..Len(str) |-> [k \in 1..Width(str[i]) |-> [of |-> str[i], k |-> k]]])

\* uint8ArrayToString: TextDecoder, which replaces a byte that does not
\* start a complete character (a character cut by subarray) with U+FFFD.
RECURSIVE Utf8Decode(_)
Utf8Decode(bytes) ==
    IF bytes = <<>> THEN <<>>
    ELSE LET c == Head(bytes).of
             w == Width(c)
         IN IF /\ Head(bytes).k = 1
               /\ Len(bytes) >= w
               /\ \A j \in 1..w : bytes[j] = [of |-> c, k |-> j]
            THEN <<c>> \o Utf8Decode(SubSeq(bytes, w + 1, Len(bytes)))
            ELSE <<REPLACEMENT>> \o Utf8Decode(Tail(bytes))

\* JSON.stringify(header)
HeaderJson(source, target, seq) ==
    <<"{">> \o source \o <<",">> \o target \o <<",", ToString(seq), "}">>

\* Mutation of JsonParse: the seq field is read one position early.
JsonParseSeqOffByOne(txt) ==
    LET c1 == SelectInSeq(txt, LAMBDA x : x = ",")
        n == Len(txt)
    IN IF n >= 5 /\ txt[1] = "{" /\ txt[n] = "}" /\ txt[n - 2] = ","
       THEN [source |-> SubSeq(txt, 2, c1 - 1), target |-> SubSeq(txt, c1 + 1, n - 3),
             seq |-> txt[n - 2]]
       ELSE None

\* JSON.parse(headerText): the header record, or None when it throws.
JsonParse(txt) ==
    LET commas == {i \in 1..Len(txt) : txt[i] = ","}
        c1 == SelectInSeq(txt, LAMBDA x : x = ",")
        n == Len(txt)
    IN IF /\ n >= 5
          /\ txt[1] = "{" /\ txt[n] = "}"
          /\ commas = {c1, n - 2}
          /\ txt[n - 1] \in SeqChars
          /\ \A i \in 2..n - 3 \ {c1} : txt[i] \notin Structural \cup SeqChars
       THEN [source |-> SubSeq(txt, 2, c1 - 1), target |-> SubSeq(txt, c1 + 1, n - 3),
             seq |-> txt[n - 1]]
       ELSE None

\* prependHeader(source, target, message), text and binary branches.
PrependHeaderText(source, target, seq, message) ==
    HeaderJson(source, target, seq) \o <<HEADER_DELIMITER>> \o message
PrependHeaderBinary(source, target, seq, message) ==
    Utf8Encode(HeaderJson(source, target, seq) \o <<HEADER_DELIMITER>>) \o message

\* What extractHeader returns: kind "header" with the header and the
\* payload, kind "none" for [undefined, ''], kind "throw" when JSON.parse
\* throws out of it.
Extracted(header, payload) == [kind |-> "header", header |-> header, payload |-> payload]
NoHeader == [kind |-> "none", header |-> None, payload |-> <<>>]
ParseThrows == [kind |-> "throw", header |-> None, payload |-> <<>>]

\* The steps shared by both branches, given the text searched for the
\* delimiter and the message whose part after the delimiter's index
\* nullPos is the payload.
ExtractFrom(text, message) ==
    LET p == SelectInSeq(text, LAMBDA x : x = HEADER_DELIMITER)
        headerText == SubSeq(text, 1, p - 1)
        header == JsonParse(headerText)
    IN IF p <= 1 \/ headerText[1] # "{" THEN NoHeader
       ELSE IF header = None THEN ParseThrows
       ELSE IF header.target = <<>> THEN NoHeader
       ELSE Extracted(header, SubSeq(message, p + 1, Len(message)))

ExtractHeaderText(message) ==
    ExtractFrom(message, message)

\* Mutation of ExtractHeaderBinary: the window is one byte short.
ExtractHeaderBinaryShortWindow(message) ==
    LET window == IF MaxHeaderLength - 1 < Len(message) THEN MaxHeaderLength - 1 ELSE Len(message)
    IN ExtractFrom(Utf8Decode(SubSeq(message, 1, window)), message)

\* The binary branch decodes at most the first MAX_HEADER_LENGTH bytes and
\* finds the delimiter's index in that string, then slices the byte array
\* at that same index.
ExtractHeaderBinary(message) ==
    LET window == IF MaxHeaderLength < Len(message) THEN MaxHeaderLength ELSE Len(message)
    IN ExtractFrom(Utf8Decode(SubSeq(message, 1, window)), message)
-----------------------------------------------------------------------------
(* A transport prepends a header to each outgoing message (its receive,    *)
(* e.g. SocketIoClientTransport.receive) and the peer transport extracts  *)
(* it from each incoming one (the socket's "message" listener), which also *)
(* records the header's source in GenericModule.knownSources.             *)

VARIABLES
    seq,           \* the sending node's seq counter
    wire,          \* the frame in flight, or None
    sent,          \* what the sender framed: source, target, seq, body, kind
    outcome,       \* what the receiver's extractHeader returned, or None
    knownSources   \* source names recorded by setKnownSource

vars == <<seq, wire, sent, outcome, knownSources>>

Kinds == {"text", "binary"}
AllChars == NameChars \cup BodyChars \cup Structural \cup SeqChars \cup {HEADER_DELIMITER, REPLACEMENT}
Bytes == [of : AllChars, k : {1, 2}]
\* What a frame of each kind carries: characters, or bytes.
Units(kind) == IF kind = "text" THEN AllChars ELSE Bytes

\* The body as the transport receives it: a string from a text converter,
\* the UTF-8 bytes from JsonStringifierToUint8Array.
Encoded(body, kind) == IF kind = "text" THEN body ELSE Utf8Encode(body)

Init ==
    /\ seq = 0
    /\ wire = None
    /\ sent = None
    /\ outcome = None
    /\ knownSources = {}

\* The sender's receive(message, source, target): prependHeader, whose
\* header takes seq++, then the emit.
Send(source, target, body, kind) ==
    /\ wire = None
    /\ seq < MaxSeq
    /\ seq' = seq + 1
    /\ wire' = IF kind = "text"
               THEN PrependHeaderText(source, target, seq, body)
               ELSE PrependHeaderBinary(source, target, seq, Utf8Encode(body))
    /\ sent' = [source |-> source, target |-> target, seq |-> ToString(seq),
                body |-> Encoded(body, kind), kind |-> kind]
    /\ outcome' = None
    /\ UNCHANGED knownSources

\* The receiver's listener: extractHeader, which calls setKnownSource for
\* the source of a header it returns.
Receive ==
    /\ wire # None
    /\ LET r == IF sent.kind = "text" THEN ExtractHeaderText(wire)
                ELSE ExtractHeaderBinary(wire)
       IN /\ outcome' = r
          /\ knownSources' = IF r.kind = "header" THEN knownSources \cup {r.header.source}
                             ELSE knownSources
    /\ wire' = None
    /\ UNCHANGED <<seq, sent>>

Next ==
    \/ \E s, t \in Names, b \in Bodies, k \in Kinds : Send(s, t, b, k)
    \/ Receive

Spec == Init /\ [][Next]_vars

-----------------------------------------------------------------------------
(* Properties.                                                             *)

\* Every variable holds a value of its type.
TypeOK ==
    /\ seq \in 0..MaxSeq
    /\ knownSources \subseteq Names
    /\ \/ sent = None /\ outcome = None
       \/ /\ sent \in [source : Names, target : Names, seq : SeqChars,
                      body : Seq(Units(sent.kind)), kind : Kinds]
          /\ outcome \in {None, NoHeader, ParseThrows}
                         \cup [kind : {"header"}, header : [source : Names, target : Names,
                                                             seq : SeqChars],
                              payload : Seq(Units(sent.kind))]

\* Spec 8, the frame round trip: extractHeader(prependHeader(s, t, body))
\* returns a header with that source, target and seq and exactly that
\* body, for text and binary frames alike, whenever the names do not hold
\* the reserved delimiter, the target is not empty, and a binary frame's
\* header with its delimiter fits the MAX_HEADER_LENGTH window.
ValidName(n) == ~Contains(n, HEADER_DELIMITER)
HeaderFits(s) ==
    Len(Utf8Encode(HeaderJson(s.source, s.target, 0) \o <<HEADER_DELIMITER>>)) <= MaxHeaderLength

FrameRoundTrip ==
    (/\ outcome # None
     /\ ValidName(sent.source) /\ ValidName(sent.target) /\ sent.target # <<>>
     /\ sent.kind = "binary" => HeaderFits(sent))
    => outcome = Extracted([source |-> sent.source, target |-> sent.target, seq |-> sent.seq],
                           sent.body)

\* Spec 7 (a): a malformed header is dropped or reported at the node
\* boundary and never escapes extractHeader as an exception, which the
\* socket.io server and MQTT transports' message listeners do not catch.
MalformedHeaderDropped == outcome # None => outcome.kind # "throw"
=============================================================================
