-------------------------------- MODULE Rpc --------------------------------
(***************************************************************************)
(* The RPC handlers of both sides and the messages between them: the       *)
(* client handlers (GenerateRequest and ProcessResponse of JsonClient-     *)
(* Handler, XmlClientHandler and MessagePackClientHandler) and the server  *)
(* handlers (JsonRpcHandler, XmlRpcHandler, MessagePackRpcHandler), which  *)
(* meet over one connection that keeps messages whole and in order.        *)
(* Messages really are written and parsed, by the modules of the formats.  *)
(*                                                                         *)
(* A member name or a method name is one letter.  Of an exception only the *)
(* code is kept.                                                           *)
(***************************************************************************)
EXTENDS Document

CONSTANTS
    Formats,        \* "json", "xml", "mpack"
    Transports,     \* whether the transport is HTTP: a subset of BOOLEAN
    Params,         \* parameters of requests
    Raw,            \* messages of other clients, per format: [message, cut] records
    MaxRequests     \* bound on the requests sent

MP == INSTANCE MessagePack
J == INSTANCE Json
X == INSTANCE Xml

VARIABLES
    format, http,
    nextId,         \* ClientHandler::nextId_
    waiting,        \* requests whose response the client expects, oldest first
    requests,       \* messages on their way to the server, with what they are about
    responses,      \* messages on their way to the client, with what they answer
    ran,            \* methods executed: <<method, parameters>>
    outcomes,       \* what ProcessResponse returned, with the request it was for
    disturbed       \* a response nobody expects has been sent on this connection

vars == <<format, http, nextId, waiting, requests, responses, ran, outcomes, disturbed>>

----------------------------------------------------------------------------
(* Values. *)

Str(s) == <<"str", s>>
Name(k) ==
    Str(<<CASE k = "jsonrpc" -> 106 [] k = "method" -> 109 [] k = "params" -> 112 [] k = "id" -> 105
            [] k = "result" -> 114 [] k = "error" -> 101 [] k = "code" -> 99 [] k = "message" -> 103
            [] k = "faultCode" -> 102 [] k = "faultString" -> 115 [] k = "methodName" -> 110>>)
Version == Str(<<50>>)
Num(n) == IntValue(Bytes(n))
Null == <<"null">>
Reason == Str(<<116>>)                \* the message of a fault

Map(members) == <<"map", members>>
Array(elements) == <<"arr", elements>>

HasMember(v, k) == \E i \in DOMAIN v[2] : v[2][i][1] = Name(k)

\* message["k"]: a member that is not there is added, invalid.
Member(v, k) ==
    IF HasMember(v, k) THEN v[2][CHOOSE i \in DOMAIN v[2] : v[2][i][1] = Name(k)][2] ELSE Invalid

IsString(v) == v[1] = "str"
IsUint(v) == v[1] = "num" /\ "Uint" \in v[2]
IsInt(v) == v[1] = "num" /\ "Int" \in v[2]

\* A writer with its defaults.
Plain == [encoding |-> "UTF8", precision |-> 0, pretty |-> FALSE]

BytesOf(chunks) ==
    FlattenSeq([i \in DOMAIN chunks |-> CASE chunks[i][1] = "c" -> <<chunks[i][2]>>
                                          [] chunks[i][1] = "s" -> chunks[i][2]
                                          [] chunks[i][1] = "f" -> << >>])

Write(f, v) ==
    FoldLeft(LAMBDA bytes, call : bytes \o
                 BytesOf(CASE f = "json" -> J!JsonWrite(call, Plain, 0)
                           [] f = "xml" -> X!XmlWrite(call, Plain, 0)
                           [] f = "mpack" -> MP!MessagePackWrite(call)),
             << >>, Traverse(v))

\* The handlers parse in place.
InPlace(bytes) == InputStream("insitu", bytes, FALSE, 0)
Parsed(r) == [err |-> r.err, value |-> Resolved(Root(r.doc), r.buf), method |-> r.method]

----------------------------------------------------------------------------
(* The methods of the application (external), and MethodManager as the     *)
(* handlers see it: ExecuteMethod returns false for an unknown name.       *)

Echo == <<69>>      \* returns its parameters
Quiet == <<81>>     \* leaves the result as it is
Fail == <<70>>      \* throws an exception with an application's code
Sys == <<83>>       \* throws an exception with a code in the system error range
Missing == <<88>>   \* is not registered
MultiCall == <<77>> \* system.multicall

Methods == {Echo, Quiet, Fail, Sys, Missing}

MethodNotFound == -32601
InvalidRequest == -32600
InvalidParams == -32602
ParseError == -32700
InvalidResponse == -32002
ResponseParseError == -32001
SystemError == -32400
TransportError == -32300
ApplicationError == -32500

\* initial is the result the handler passes in.
ExecuteMethod(method, params, initial) ==
    CASE method = Echo -> [found |-> TRUE, code |-> 0, result |-> params]
      [] method = Quiet -> [found |-> TRUE, code |-> 0, result |-> initial]
      [] method = Fail -> [found |-> TRUE, code |-> -5, result |-> initial]
      [] method = Sys -> [found |-> TRUE, code |-> SystemError, result |-> initial]
      [] OTHER -> [found |-> FALSE, code |-> MethodNotFound, result |-> initial]

----------------------------------------------------------------------------
(* Server handlers, of a message as the reader leaves it.  Each returns    *)
(* the response it writes, whether there is one, whether an exception left *)
(* it, and the methods it ran.                                             *)

Handled(response, sends, calls) ==
    [response |-> response, sends |-> sends, thrown |-> FALSE, ran |-> calls]
Thrown(calls) == [response |-> Invalid, sends |-> FALSE, thrown |-> TRUE, ran |-> calls]

\* Mutant: the id is only copied into results.
JsonFaultWithoutId(code, id) ==
    Map(<<<<Name("jsonrpc"), Version>>,
          <<Name("error"), Map(<<<<Name("code"), Num(code)>>, <<Name("message"), Reason>>>>)>>>>)

JsonFault(code, id) ==
    Map(<<<<Name("jsonrpc"), Version>>>>
        \o (IF id # Invalid THEN <<<<Name("id"), id>>>> ELSE << >>)
        \o <<<<Name("error"), Map(<<<<Name("code"), Num(code)>>, <<Name("message"), Reason>>>>)>>>>)

JsonResponse(result, id) ==
    Map(<<<<Name("jsonrpc"), Version>>, <<Name("id"), id>>, <<Name("result"), result>>>>)

\* Of a message that is a map: the response, Invalid for none, and the methods run.
JsonExecuteSingleRequest(message) ==
    LET method == Member(message, "method")  id == Member(message, "id")
        params == Member(message, "params")
        e == ExecuteMethod(method[2], params, Null)
    IN  IF ~IsString(method) \/ Member(message, "jsonrpc") # Version \/ params = Invalid
        THEN [value |-> JsonFault(InvalidRequest, id), ran |-> << >>]
        ELSE [value |-> CASE ~e.found \/ e.code # 0 -> JsonFault(e.code, id)
                          [] e.found /\ e.code = 0 /\ id # Invalid -> JsonResponse(e.result, id)
                          [] OTHER -> Invalid,
              ran |-> IF e.found THEN <<<<method[2], params>>>> ELSE << >>]

\* Mutant: a response that is invalid is written too.
JsonSendAlways(v, calls) == Handled(v, TRUE, calls)

JsonSend(v, calls) == Handled(v, v # Invalid, calls)

\* A batch element that is not a map throws, outside any try, with the elements before
\* it executed and their responses lost.
JsonBatch(elements) ==
    LET bad == {i \in DOMAIN elements : elements[i][1] # "map"}
        first == IF bad = {} THEN Len(elements) ELSE (CHOOSE i \in bad : \A j \in bad : i <= j) - 1
        single == [i \in 1..first |-> JsonExecuteSingleRequest(elements[i])]
        calls == FlattenSeq([i \in 1..first |-> single[i].ran])
        answers == SelectSeq([i \in 1..first |-> single[i].value], LAMBDA v : v # Invalid)
    IN  IF bad # {} THEN Thrown(calls)
        ELSE JsonSend(IF answers = << >> THEN Invalid ELSE Array(answers), calls)

JsonRpcHandler(p) ==
    LET single == JsonExecuteSingleRequest(p.value)
    IN  CASE p.err # "" -> JsonSend(JsonFault(ParseError, Null), << >>)
          [] p.err = "" /\ p.value[1] = "map" -> JsonSend(single.value, single.ran)
          [] p.err = "" /\ p.value[1] = "arr" /\ p.value[2] # << >> -> JsonBatch(p.value[2])
          [] OTHER -> JsonSend(JsonFault(InvalidRequest, Null), << >>)

MessagePackAnswer(fault, id, result) == Array(<<Num(1), id, fault, result>>)

MessagePackFault(code, id) ==
    MessagePackAnswer(Map(<<<<Name("code"), Num(code)>>, <<Name("message"), Reason>>>>), id, Null)

\* Mutant: a number that is also unsigned is not taken for an int.
GetIntThrowsForUnsigned(type) == ~IsInt(type) \/ IsUint(type)

\* type.GetInt() of a type that is no integer throws: the test says && for ||.
GetIntThrows(type) == ~IsInt(type)
MessagePackRpcHandler(p) ==
    LET m == p.value[2]
        call == ExecuteMethod(m[3][2], m[4], Null)
        note == ExecuteMethod(m[2][2], m[3], Null)
        isArray(n) == p.err = "" /\ p.value[1] = "arr" /\ Len(m) = n
    IN  CASE isArray(4) ->
                IF GetIntThrows(m[1]) THEN Thrown(<< >>)
                ELSE IF ~IsUint(m[2]) \/ ~IsString(m[3])
                THEN Handled(MessagePackFault(InvalidRequest, Null), TRUE, << >>)
                ELSE Handled(IF call.found /\ call.code = 0 THEN MessagePackAnswer(Null, m[2], call.result)
                             ELSE MessagePackFault(call.code, m[2]), TRUE,
                             IF call.found THEN <<<<m[3][2], m[4]>>>> ELSE << >>)
          [] isArray(3) ->
                IF GetIntThrows(m[1]) THEN Thrown(<< >>)
                ELSE Handled(Invalid, FALSE,
                             IF IsString(m[2]) /\ note.found THEN <<<<m[2][2], m[3]>>>> ELSE << >>)
          [] ~isArray(4) /\ ~isArray(3) /\ p.err = "" ->
                Handled(MessagePackFault(InvalidRequest, Null), TRUE, << >>)
          [] OTHER -> Handled(MessagePackFault(ParseError, Null), TRUE, << >>)

\* <?xml ...?> and a line end.
Declaration == <<X!Less, 399, 32, 63, X!Greater, 13, 10>>

XmlFaultValue(code) == Map(<<<<Name("faultCode"), Num(code)>>, <<Name("faultString"), Reason>>>>)

\* A response holds one param or a fault.
XmlResponse(v) == <<<<"params", "param">>, v>>
XmlFault(code) == <<<<"fault">>, XmlFaultValue(code)>>

\* A method that leaves its result invalid returns "".
OrEmpty(v) == IF v = Invalid THEN Str(<< >>) ELSE v

XmlMulti(params) ==
    LET ok(m) == /\ m[1] = "map" /\ HasMember(m, "methodName") /\ HasMember(m, "params")
                 /\ IsString(Member(m, "methodName"))
        e(m) == ExecuteMethod(Member(m, "methodName")[2], Member(m, "params"), Invalid)
        one(m) == IF ~ok(m) THEN XmlFaultValue(InvalidRequest)
                  ELSE IF ~e(m).found \/ e(m).code # 0 THEN XmlFaultValue(e(m).code)
                  ELSE Array(<<OrEmpty(e(m).result)>>)
    IN  Handled(XmlResponse(Array([i \in DOMAIN params |-> one(params[i])])), TRUE,
                FlattenSeq([i \in DOMAIN params |->
                    IF ok(params[i]) /\ e(params[i]).found
                    THEN <<<<Member(params[i], "methodName")[2], Member(params[i], "params")>>>>
                    ELSE << >>]))

XmlRpcHandler(p) ==
    LET e == ExecuteMethod(p.method, p.value, Invalid)
    IN  IF p.err # "" THEN Handled(XmlFault(ParseError), TRUE, << >>)
        ELSE IF p.method = MultiCall
        THEN IF Len(p.value[2]) # 1 \/ p.value[2][1][1] # "arr"
             THEN Handled(XmlFault(InvalidParams), TRUE, << >>) ELSE XmlMulti(p.value[2][1][2])
        ELSE Handled(IF e.found /\ e.code = 0 THEN XmlResponse(OrEmpty(e.result)) ELSE XmlFault(e.code),
                     TRUE, IF e.found THEN <<<<p.method, p.value>>>> ELSE << >>)

RpcHandler(p) ==
    CASE format = "json" -> JsonRpcHandler(p) [] format = "xml" -> XmlRpcHandler(p)
      [] format = "mpack" -> MessagePackRpcHandler(p)

XmlResponseText(tags, body) ==
    Declaration \o X!Start("methodResponse") \o FlattenSeq([i \in DOMAIN tags |-> X!Start(tags[i])])
    \o body \o FlattenSeq([i \in DOMAIN tags |-> X!End(Reverse(tags)[i])])
    \o X!End("methodResponse") \o <<13, 10>>

\* The response as it is put into the stream.
ResponseText(response) ==
    IF response = Invalid THEN << >>
    ELSE IF format = "xml" THEN XmlResponseText(response[1], Write("xml", response[2]))
    ELSE Write(format, response)

ReadRequest(bytes) ==
    Parsed(CASE format = "json" -> J!JsonRead(InPlace(bytes)) [] format = "xml" -> X!ParseRequest(InPlace(bytes))
             [] format = "mpack" -> MP!MessagePackRead(InPlace(bytes)))

ReadResponse(bytes) ==
    Parsed(CASE format = "json" -> J!JsonRead(InPlace(bytes)) [] format = "xml" -> X!ParseResponse(InPlace(bytes))
             [] format = "mpack" -> MP!MessagePackRead(InPlace(bytes)))

----------------------------------------------------------------------------
(* Client handlers. *)

JsonRequest(method, params, id, notification) ==
    Write("json", Map(<<<<Name("jsonrpc"), Version>>, <<Name("method"), Str(method)>>,
                        <<Name("params"), params>>>>
                      \o (IF notification THEN << >> ELSE <<<<Name("id"), Num(id)>>>>)))

MessagePackRequest(method, params, id, notification) ==
    Write("mpack", Array(IF notification THEN <<Num(2), Str(method), params>>
                         ELSE <<Num(0), Num(id), Str(method), params>>))

\* Every element of an array is a param of its own; anything else is the only one.
XmlRequest(method, params) ==
    LET all == IF params[1] = "arr" THEN params[2] ELSE <<params>>
    IN  Declaration \o X!Start("methodCall") \o X!Start("methodName") \o method \o X!End("methodName")
        \o X!Start("params")
        \o FlattenSeq([i \in DOMAIN all |-> X!Start("param") \o Write("xml", all[i]) \o X!End("param")])
        \o X!End("params") \o X!End("methodCall")

GenerateRequest(method, params, id, notification) ==
    CASE format = "json" -> JsonRequest(method, params, id, notification)
      [] format = "xml" -> XmlRequest(method, params)
      [] format = "mpack" -> MessagePackRequest(method, params, id, notification)

\* GenerateFaultResult: code and message are set in a result that is a map or invalid.
FaultResult(code) == Map(<<<<Name("code"), Num(code)>>, <<Name("message"), Reason>>>>)

Answer(status, result) == [status |-> status, result |-> result]
Refused(code) == Answer("close", FaultResult(code))

\* Mutant: any error keeps the connection open.
KeepsOpenAlways(code) == TRUE

\* The connection stays open for codes outside the transport and system ranges.
KeepsOpen(code) ==
    LET n == IF Negative(code[3]) THEN Negate(code[3]) ELSE code[3]
        size == n[7] * 256 + n[8]
    IN  ~Negative(code[3]) \/ size < -TransportError \/ size > -ApplicationError

JsonProcess(p, id) ==
    LET m == p.value
        error == Member(m, "error")
    IN  IF p.err # "" THEN Refused(ResponseParseError)
        ELSE IF m[1] # "map" THEN Refused(InvalidResponse)
        ELSE IF ~HasMember(m, "jsonrpc") \/ ~HasMember(m, "id") \/ Member(m, "jsonrpc") # Version
                \/ Member(m, "id") # Num(id)
        THEN Refused(InvalidResponse)
        ELSE IF HasMember(m, "error")
        THEN Answer(IF HasMember(error, "code") /\ IsInt(Member(error, "code"))
                       /\ KeepsOpen(Member(error, "code")) THEN "open" ELSE "close", error)
        ELSE IF HasMember(m, "result") THEN Answer("success", Member(m, "result"))
        ELSE Refused(InvalidResponse)

\* GetUint of an id that is no unsigned number throws, inside the try.
MessagePackProcess(p, id) ==
    LET m == p.value[2]
    IN  IF p.err # "" THEN Refused(ResponseParseError)
        ELSE IF p.value[1] # "arr" \/ Len(m) # 4 THEN Refused(InvalidResponse)
        ELSE IF m[1] # Num(1) THEN Refused(InvalidResponse)
        ELSE IF ~IsUint(m[2]) THEN Refused(SystemError)
        ELSE IF m[2] # Num(id) THEN Refused(InvalidResponse)
        ELSE IF m[3] # Null
        THEN IF HasMember(m[3], "code") /\ HasMember(m[3], "message") THEN Answer("open", m[3])
             ELSE Refused(InvalidResponse)
        ELSE Answer("success", m[4])

\* The root is a map for a fault and the array of params otherwise.
XmlProcess(p) ==
    IF p.err # "" THEN Refused(ResponseParseError)
    ELSE IF p.value[1] = "map"
    THEN IF HasMember(p.value, "faultCode") /\ HasMember(p.value, "faultString")
         THEN Answer("open", Map(p.value[2] \o <<<<Name("code"), Member(p.value, "faultCode")>>,
                                                 <<Name("message"), Member(p.value, "faultString")>>>>))
         ELSE Refused(InvalidResponse)
    ELSE IF p.value[1] # "arr" \/ Len(p.value[2]) # 1 THEN Refused(InvalidResponse)
    ELSE Answer("success", p.value[2][1])

ProcessResponse(p, id) ==
    CASE format = "json" -> JsonProcess(p, id) [] format = "xml" -> XmlProcess(p)
      [] format = "mpack" -> MessagePackProcess(p, id)

\* What a client of other make writes.
OtherMessage(v) == IF format = "xml" THEN XmlRequest(MultiCall, v) ELSE Write(format, v)

Cut(bytes, n) == SubSeq(bytes, 1, Len(bytes) - n)

----------------------------------------------------------------------------
(* One connection. *)

Init ==
    /\ format \in Formats /\ http \in Transports
    /\ nextId = 1 /\ waiting = << >> /\ requests = << >> /\ responses = << >>
    /\ ran = << >> /\ outcomes = << >> /\ disturbed = FALSE

\* Mutant: XML over TCP is not known to answer notifications.
NotifyAnsweredOverHttp == http

\* Mutant: HTTP is not known to answer notifications.
NotifyAnsweredInXml == format = "xml"

\* TransportHasNotifyResponse.
NotifyAnswered == http \/ format = "xml"

Sent(kind, method, params, bytes) ==
    LET rq == [id |-> nextId, kind |-> kind, method |-> method, params |-> params]
    IN  /\ nextId' = nextId + 1
        /\ requests' = Append(requests, [about |-> rq, bytes |-> bytes])
        /\ waiting' = IF kind = "note" /\ ~NotifyAnswered THEN waiting ELSE Append(waiting, rq)

\* Call, Post and Notify.  (A request without an id still takes a number here, to
\* tell the requests apart.)
Send ==
    /\ nextId <= MaxRequests
    /\ \E kind \in {"call", "note"}, method \in Methods, params \in Params :
          Sent(kind, method, params, GenerateRequest(method, params, nextId, kind = "note"))
    /\ UNCHANGED <<format, http, responses, ran, outcomes, disturbed>>

\* A message of another client, on a connection of its own that sees nothing else: a
\* whole message or part of one.
SendOther ==
    /\ nextId = 1 /\ nextId' = MaxRequests + 1
    /\ \E raw \in Raw[format] :
          LET rq == [id |-> 1, kind |-> "raw", method |-> MultiCall, params |-> raw]
          IN  /\ waiting' = <<rq>>
              /\ requests' = <<[about |-> rq, bytes |-> Cut(OtherMessage(raw.message), raw.cut)]>>
    /\ UNCHANGED <<format, http, responses, ran, outcomes, disturbed>>

\* Reset: the connection and what is on it are gone.
Closed == waiting' = << >> /\ requests' = << >> /\ responses' = << >> /\ disturbed' = FALSE

\* The server executes the oldest request.  Over HTTP there is always a response,
\* with an empty body if the handler sends none.  An exception closes the connection.
Serve ==
    /\ requests # << >>
    /\ \E rq \in {Head(requests)}, h \in {RpcHandler(ReadRequest(Head(requests).bytes))} :
       LET answered == h.sends \/ http
       IN  /\ ran' = ran \o h.ran
           /\ IF h.thrown
              THEN /\ outcomes' = Append(outcomes, [rq |-> rq.about, of |-> rq.about, alone |-> ~disturbed,
                                                    status |-> "thrown", result |-> Invalid])
                   /\ Closed
              ELSE /\ requests' = Tail(requests)
                   /\ responses' = IF answered
                                   THEN Append(responses, [about |-> rq.about, bytes |-> ResponseText(h.response)])
                                   ELSE responses
                   /\ disturbed' = (disturbed \/ (answered /\ rq.about.kind = "note" /\ ~NotifyAnswered))
                   /\ UNCHANGED <<waiting, outcomes>>
    /\ UNCHANGED <<format, http, nextId>>

\* What the client makes of a response.  That to a notification is dropped unread;
\* another client gets what it can parse.
Received(rq, bytes, p) ==
    CASE rq.kind = "note" -> Answer("dropped", Null)
      [] rq.kind = "raw" -> Answer(IF bytes = << >> THEN "none" ELSE "answered", p.value)
      [] rq.kind = "call" -> ProcessResponse(p, rq.id)

\* The client reads a response for its oldest request.
Receive ==
    /\ waiting # << >> /\ responses # << >>
    /\ \E rq \in {Head(waiting)},
          a \in {Received(Head(waiting), Head(responses).bytes, ReadResponse(Head(responses).bytes))} :
           /\ outcomes' = Append(outcomes, [rq |-> rq, of |-> Head(responses).about, status |-> a.status,
                                            result |-> a.result, alone |-> ~disturbed])
           /\ IF a.status = "close" THEN Closed
              ELSE /\ waiting' = Tail(waiting) /\ responses' = Tail(responses)
                   /\ UNCHANGED <<requests, disturbed>>
    /\ UNCHANGED <<format, http, nextId, ran>>

Next == Send \/ SendOther \/ Serve \/ Receive

Spec == Init /\ [][Next]_vars

----------------------------------------------------------------------------
(* Properties. *)

\* Types; and no handler sends an empty message (over HTTP it may be a notification's
\* empty body).
TypeOK ==
    /\ format \in Formats /\ http \in Transports
    /\ nextId \in 1..(MaxRequests + 1)
    /\ disturbed \in BOOLEAN
    /\ Len(waiting) < nextId /\ Len(requests) < nextId /\ Len(outcomes) < nextId
    /\ \A i \in DOMAIN outcomes : outcomes[i].status \in
          {"success", "open", "close", "dropped", "thrown", "answered", "none"}
    /\ \A i \in DOMAIN responses : responses[i].bytes = << >> => http

\* What the application's method does with a request.
SeenParams(rq) == IF format = "xml" /\ rq.params[1] # "arr" THEN Array(<<rq.params>>) ELSE rq.params

Reference(rq) == ExecuteMethod(rq.method, SeenParams(rq), IF format = "xml" THEN Str(<< >>) ELSE Null)

\* Responses come in the order of the requests that wait for them, and nothing but a
\* failed JSON notification over TCP makes one too many.
Aligned ==
    /\ disturbed => format = "json" /\ ~http
    /\ ~disturbed => IsPrefix([i \in DOMAIN responses |-> responses[i].about], waiting)

\* An answer taken for a success is that of the very request, and what the method
\* returned for the parameters the caller gave, through two messages written and
\* parsed in place, whatever else is on the connection (JsonClientHandler and
\* MessagePackClientHandler test the id; XML relies on the order).
OwnResult ==
    /\ TypeOK /\ Aligned
    /\ \A i \in DOMAIN outcomes : LET o == outcomes[i] IN
        o.status = "success" =>
            /\ o.of = o.rq
            /\ Reference(o.rq).found /\ Reference(o.rq).code = 0
            /\ o.result = Reference(o.rq).result

\* A call on a connection without stray responses ends the way its method did: with
\* its result, or with the code it threw, or with MethodNotFound.  The connection is
\* closed only for a code in the transport and system range (JSON).
CallServed ==
    \A i \in DOMAIN outcomes : LET o == outcomes[i]  e == Reference(o.rq) IN
        o.rq.kind = "call" /\ o.alone =>
            IF e.code = 0 THEN o.status = "success"
            ELSE /\ o.status = IF format = "json" /\ e.code = SystemError THEN "close" ELSE "open"
                 /\ Member(o.result, "code") = Num(e.code)

\* The responses to a batch answer its elements one for one and in order: every JSON
\* element with an id has its response, under its id, and every element of an XML
\* multicall its result or its fault.
BatchAnswered ==
    \A i \in DOMAIN outcomes :
        LET o == outcomes[i]
            sent == o.rq.params.message[2]
            got == IF format = "xml" THEN o.result[2][1][2] ELSE o.result[2]
            ids(ms) == [k \in 1..Len(SelectSeq(ms, LAMBDA m : HasMember(m, "id"))) |->
                          Member(SelectSeq(ms, LAMBDA m : HasMember(m, "id"))[k], "id")]
            batch == o.rq.params.cut = 0 /\ o.rq.params.message[1] = "arr" /\ sent # << >>
        IN  /\ o.rq.kind = "raw" /\ format = "json" /\ batch /\ o.status = "answered" =>
                  o.result[1] = "arr" /\ ids(got) = ids(sent)
            /\ o.rq.kind = "raw" /\ format = "xml" /\ batch =>
                  /\ o.status = "answered" /\ Len(got) = Len(sent[1][2])
                  /\ \A k \in DOMAIN got :
                        LET m == sent[1][2][k]
                            e == ExecuteMethod(Member(m, "methodName")[2], Member(m, "params"), Str(<< >>))
                        IN  m[1] = "map" /\ HasMember(m, "methodName") =>
                              IF e.code = 0 THEN got[k] = Array(<<e.result>>)
                              ELSE Member(got[k], "faultCode") = Num(e.code)

\* No request of a client handler makes an exception leave a server handler, and no
\* other message does, except a JSON batch with an element
\* that is no map and a MessagePack message whose type is no integer.
HandlerReturns ==
    \A i \in DOMAIN outcomes :
        LET o == outcomes[i]
            m == o.rq.params.message
        IN  o.status = "thrown" =>
              /\ o.rq.kind = "raw"
              /\ \/ format = "json" /\ m[1] = "arr" /\ \E k \in DOMAIN m[2] : m[2][k][1] # "map"
                 \/ format = "mpack" /\ m[1] = "arr" /\ ~IsInt(m[2][1])
=============================================================================
