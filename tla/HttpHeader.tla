----------------------------- MODULE HttpHeader ------------------------------
(***************************************************************************)
(* The incremental parser of HTTP headers (src/internal/http.cpp), for     *)
(* requests (the server) and responses (the client).  A header line with   *)
(* its newline is one unit of the buffer: the number LineBase + i stands   *)
(* for Line[i].  A line of which a part has arrived is a line that has not *)
(* arrived.                                                                *)
(***************************************************************************)
EXTENDS Integers, Sequences, SequencesExt

CONSTANT Line   \* the header lines: [key, value, version] records

ASSUME LineAssumption ==
    \A i \in DOMAIN Line :
        /\ i \in Nat
        /\ {"key", "value", "version"} \subseteq DOMAIN Line[i]
        /\ Line[i].key = "content-length" => Line[i].value \in Int   \* what atol returns

LineBase == 200
IsLine(unit) == unit - LineBase \in DOMAIN Line

\* HttpHeader::Initialize, of an HttpRequest or an HttpResponse.
InitialHeader(role) ==
    [role |-> role, startIndex |-> 0, version |-> "", contentType |-> "",
     contentLength |-> -1, keepAlive |-> TRUE, result |-> "INCOMPLETE",
     word |-> "",      \* method_ or responseCode_
     host |-> FALSE]   \* host_ is not empty

Fault(h) == [h EXCEPT !.result = "FAULT"]

\* The first line: three words, one of them the version.
ProcessFirstLine(h, line) ==
    IF line.key # h.role \/ line.version = "none" THEN Fault(h)
    ELSE [h EXCEPT !.word = line.value, !.version = line.version,
                   !.keepAlive = @ /\ line.version # "1.0"]

\* At the empty line: HttpRequest::Verify and HttpResponse::Verify.
Verify(h) ==
    LET noHost == h.role = "request" /\ h.version = "1.1" /\ ~h.host
        noLength == h.contentLength < 0 /\ (h.role = "response" \/ h.word = "POST")
    IN  IF noHost \/ noLength THEN Fault(h) ELSE [h EXCEPT !.result = "COMPLETE"]

\* A line "key: value".
ProcessLine(h, line) ==
    CASE line.key = "" -> Verify(h)
      [] line.key = "content-length" ->
            IF h.contentLength # -1 \/ line.value < 0 THEN Fault(h)
            ELSE [h EXCEPT !.contentLength = line.value]
      [] line.key = "content-type" ->
            IF h.contentType # "" THEN Fault(h)
            ELSE [h EXCEPT !.contentType = line.value]
      [] line.key = "connection" ->
            [h EXCEPT !.keepAlive = line.value = "keep-alive" \/ (@ /\ line.value # "close")]
      [] line.key = "host" -> [h EXCEPT !.host = (h.role = "request")]
      [] line.key = "other" -> h
      [] OTHER -> Fault(h)

\* What is not a line by itself is not a line that can be parsed.
LineAt(h, data, i) ==
    IF i = h.startIndex + 1 THEN Line[data[i] - LineBase]
    ELSE [key |-> "none", value |-> "", version |-> "none"]

\* startIndex_ after the line that ends at i
StartIndex(h, i) == i

\* The header after one more unit of the buffer, if that is a line.
ProcessUnit(h, data, i) ==
    LET line == LineAt(h, data, i)
        next == IF h.startIndex = 0 THEN ProcessFirstLine(h, line) ELSE ProcessLine(h, line)
    IN  IF h.result # "INCOMPLETE" \/ ~IsLine(data[i]) THEN h
        ELSE [next EXCEPT !.startIndex = StartIndex(h, i)]

\* HttpHeader::ProcessHeaderData: the lines that are new since the last call.
ProcessHeaderData(h, data, eof) ==
    LET after[i \in h.startIndex .. Len(data)] ==
            IF i = h.startIndex THEN h ELSE ProcessUnit(after[i - 1], data, i)
        parsed == after[Len(data)]
    IN  IF Len(data) < h.startIndex THEN Fault(h)
        ELSE IF parsed.result = "INCOMPLETE" /\ eof THEN Fault(parsed)
        ELSE parsed
==============================================================================
