---------------------------- MODULE ClientProofs -----------------------------
(***************************************************************************)
(* Proofs about Client, for any buffer, any scenario, any number of        *)
(* requests and any answers.                                               *)
(*                                                                         *)
(* Five invariants.  OnceInv: over HTTP a request that is being written    *)
(* has reached no server yet, whether it is written for the first or for   *)
(* the second time.  SequenceInv: requestId_ is, at each place of a call,  *)
(* the list of the posts whose results are still expected with the current *)
(* request behind it; that is what makes the comparison of ids in the      *)
(* handler's ProcessResponse a comparison with the current request.        *)
(* MemoryInv: what is stored stays inside buffer_ and the malloced         *)
(* response.  OriginInv: all that is held or still on its way has come     *)
(* over the connection that is open.  StreamInv: while the first connection*)
(* lasts, what the client has beyond its last response, what is on its way *)
(* and what the server is still to answer are together the answers that the*)
(* application expects, in order; that is why no response is misread and no*)
(* call fails without a cause.                                             *)
(***************************************************************************)
EXTENDS Client, DataLemmas

Fields == {"buffer", "response", "body", "contentLength", "processed", "ids", "comma", "http"}
------------------------------------------------------------------------------
(* At most once.                                                           *)

\* Requests are numbered in the order in which they are generated; none that is
\* still to come, or is being written, has been delivered over HTTP.
OnceInv ==
    /\ sc \in Scenario
    /\ delivered \in [DOMAIN sc.body -> Nat]
    /\ ops \in Nat /\ ops <= Len(sc.body)
    /\ pc = "write" => op.id = ops /\ ops \in DOMAIN sc.body
    /\ sc.http => \A r \in DOMAIN sc.body :
          /\ delivered[r] <= 1
          /\ r > ops \/ (pc = "write" /\ r = ops) => delivered[r] = 0

\* Nothing has been delivered at first.
LEMMA InitOnce == Init => OnceInv
<1> SUFFICES ASSUME Init PROVE OnceInv
  OBVIOUS
<1>1. sc \in Scenario /\ sc.body \in Seq(Nat \ {0})
  BY ClientAssumption DEF Init
<1>2. Len(sc.body) \in Nat
  BY <1>1, LenProperties
<1> QED
  BY <1>1, <1>2 DEF Init, OnceInv

\* No step delivers a request again.
LEMMA NextOnce == OnceInv /\ [Next]_vars => OnceInv'
<1> SUFFICES ASSUME OnceInv, [Next]_vars PROVE OnceInv'
  OBVIOUS
<1>1. sc.body \in Seq(Nat \ {0}) /\ Len(sc.body) \in Nat /\ DOMAIN sc.body = 1 .. Len(sc.body)
  BY ClientAssumption, LenProperties DEF OnceInv
<1>2. ASSUME UNCHANGED <<sc, delivered, ops>>, pc' # "write" \/ UNCHANGED <<pc, op>>
      PROVE  OnceInv'
  BY <1>2 DEF OnceInv
<1>3. ASSUME NEW kind, Begin(kind) PROVE OnceInv'
  <2>1. CASE Fail
    BY <1>2, <1>3, <2>1 DEF Begin, Fail
  <2>2. CASE ~Fail
    <3>1. /\ op' = [kind |-> kind, id |-> ops + 1] /\ ops < Len(sc.body)
          /\ pc' = "write" /\ ops' = ops + 1 /\ UNCHANGED <<sc, delivered>>
      BY <1>3, <2>2 DEF Begin
    <3>2. ops + 1 \in DOMAIN sc.body /\ op'.id = ops + 1
      BY <1>1, <3>1 DEF OnceInv
    <3>3. ASSUME sc.http, NEW r \in DOMAIN sc.body
          PROVE  delivered[r] <= 1 /\ (r >= ops + 1 => delivered[r] = 0)
      BY <1>1, <3>3 DEF OnceInv
    <3>4. ops' \in Nat /\ ops' <= Len(sc.body)
      BY <1>1, <3>1 DEF OnceInv
    <3>5. \A r \in DOMAIN sc.body : r > ops' \/ r = ops' => r >= ops + 1
      BY <1>1, <3>1, <3>4
    <3> QED
      BY <3>1, <3>2, <3>3, <3>4, <3>5 DEF OnceInv
  <2> QED
    BY <2>1, <2>2
<1>4. CASE WriteRequest
  <2>1. /\ pc = "write" /\ pc' # "write" /\ UNCHANGED <<sc, op, ops>>
        /\ \/ UNCHANGED delivered
           \/ delivered' = [delivered EXCEPT ![op.id] = @ + 1]
    BY <1>4 DEF WriteRequest
  <2>2. CASE delivered' = [delivered EXCEPT ![op.id] = @ + 1]
    <3>1. op.id = ops /\ ops \in DOMAIN sc.body /\ delivered[ops] \in Nat
      BY <2>1 DEF OnceInv
    <3>2. /\ delivered' \in [DOMAIN sc.body -> Nat]
          /\ delivered'[ops] = delivered[ops] + 1
          /\ \A r \in DOMAIN sc.body \ {ops} : delivered'[r] = delivered[r]
      BY <2>2, <3>1 DEF OnceInv
    <3>3. ASSUME sc.http, NEW r \in DOMAIN sc.body
          PROVE  delivered'[r] <= 1 /\ (r > ops => delivered'[r] = 0)
      <4>1. CASE r = ops
        <5>1. delivered[ops] = 0
          BY <2>1, <3>1, <3>3 DEF OnceInv
        <5>2. delivered'[ops] = 1
          BY <3>2, <5>1
        <5>3. ~(ops > ops)
          BY <1>1 DEF OnceInv
        <5> QED
          BY <4>1, <5>2, <5>3
      <4>2. CASE r # ops
        BY <3>2, <3>3, <4>2 DEF OnceInv
      <4> QED
        BY <4>1, <4>2
    <3> QED
      BY <2>1, <3>2, <3>3 DEF OnceInv
  <2> QED
    BY <1>2, <2>1, <2>2
<1>5. CASE WriteFails
  <2>1. /\ pc = "write" /\ UNCHANGED <<sc, op, ops>> /\ pc' \in {"idle", "write"}
        /\ \/ UNCHANGED delivered
           \/ ~sc.http /\ delivered' = [delivered EXCEPT ![op.id] = @ + 1]
    BY <1>5 DEF WriteFails, ActsOnPartOfRequest, Fail
  <2> QED
    BY <2>1 DEF OnceInv
<1>6. CASE GetPostResult \/ SetServer \/ ReadHeader \/ ReadResponse
  BY <1>2, <1>6
  DEF GetPostResult, SetServer, ReadHeader, ReadResponse, Finish, Fail
<1>7. CASE Respond \/ ServerCloses \/ ServerStalls \/ TimeIsUp \/ UNCHANGED vars
  BY <1>2, <1>7 DEF Respond, ServerCloses, ServerStalls, TimeIsUp, vars
<1> QED
  BY <1>3, <1>4, <1>5, <1>6, <1>7 DEF Next, Operation, Step

\* Over HTTP no request reaches a server twice, the one that is written again
\* after a failed write included.
THEOREM DeliveredOnce == Spec => []AtMostOnce
<1>1. OnceInv => AtMostOnce
  BY DEF OnceInv, AtMostOnce
<1> QED
  BY InitOnce, NextOnce, <1>1, PTL DEF Spec
------------------------------------------------------------------------------
(* The list of expected answers.                                           *)

IsClient(k) == DOMAIN k = Fields

\* An application that collects the results of its posts before it calls or
\* notifies finds requestId_ in step with what it expects.
SequenceInv ==
    /\ IsClient(c) /\ posted \in Seq(Nat) /\ ops \in Nat
    /\ pc \in {"idle", "write", "header", "body"}
    /\ pc = "write" => op.kind \in {"call", "post", "notify"} /\ op.id \in Nat
    /\ pc \in {"header", "body"} /\ op.kind = "get" => posted # <<>>
    /\ ~sc.mixed =>
          /\ pc = "idle" => c.ids = posted
          /\ pc = "write" =>
                /\ op.kind # "post" => posted = <<>>
                /\ c.ids = Append(posted, op.id)
          /\ pc \in {"header", "body"} =>
                \/ /\ op.kind = "get" /\ c.ids = posted
                   /\ op.id = Head(posted)
                \/ /\ op.kind \in {"call", "notify"} /\ posted = <<>>
                   /\ c.ids = <<op.id>>

\* pop_front of a list of one.
LEMMA TailOfOne == ASSUME NEW x PROVE Tail(<<x>>) = <<>>
<1>1. <<x>> \in Seq({x}) /\ <<x>> # <<>> /\ Len(<<x>>) = 1
  OBVIOUS
<1>2. Tail(<<x>>) \in Seq({x}) /\ Len(Tail(<<x>>)) = 0
  BY <1>1, HeadTailProperties
<1> QED
  BY <1>2, EmptySeq

\* Which of the client's functions touch requestId_.
LEMMA PreparationKeepsIds ==
    ASSUME NEW k, IsClient(k)
    PROVE  LET fresh == ResetTransaction(PreserveReceiveBuffer(k)) IN
           /\ IsClient(fresh) /\ fresh.ids = k.ids
           /\ IsClient(CloseForConnect(fresh)) /\ CloseForConnect(fresh).ids = k.ids
           /\ IsClient(CloseForConnect(k)) /\ CloseForConnect(k).ids = k.ids
           /\ IsClient(Reset(k)) /\ Reset(k).ids = <<>>
<1>1. ASSUME NEW j, IsClient(j)
      PROVE  /\ IsClient(PreserveReceiveBuffer(j)) /\ PreserveReceiveBuffer(j).ids = j.ids
             /\ IsClient(ResetTransaction(j)) /\ ResetTransaction(j).ids = j.ids
             /\ IsClient(CloseForConnect(j)) /\ CloseForConnect(j).ids = j.ids
  BY <1>1 DEF IsClient, Fields, PreserveReceiveBuffer, ResetTransaction, CloseForConnect
<1>2. IsClient(Reset(k)) /\ Reset(k).ids = <<>>
  BY <1>1 DEF Reset, IsClient, Fields
<1> QED
  BY <1>1, <1>2

\* ProcessHeader leaves requestId_ alone.
LEMMA ProcessHeaderKeepsIds ==
    ASSUME NEW k, IsClient(k), NEW eof
    PROVE  IsClient(ProcessHeader(k, eof).k) /\ ProcessHeader(k, eof).k.ids = k.ids
<1>1. ASSUME NEW j, IsClient(j), NEW bodyAt, NEW length
      PROVE  /\ IsClient(PrepareResponse(j, bodyAt, length))
             /\ PrepareResponse(j, bodyAt, length).ids = j.ids
  BY <1>1 DEF IsClient, Fields, PrepareResponse
<1>2. /\ IsClient(TcpProcessHeader(k, eof).k)
      /\ TcpProcessHeader(k, eof).k.ids = k.ids
  BY <1>1 DEF TcpProcessHeader, IsClient, Fields
<1>3. /\ IsClient(HttpProcessHeader(k, eof).k)
      /\ HttpProcessHeader(k, eof).k.ids = k.ids
  BY <1>1 DEF HttpProcessHeader, IsClient, Fields
<1> QED
  BY <1>2, <1>3 DEF ProcessHeader

\* A client starts without outstanding posts.
LEMMA InitSequence == Init => SequenceInv
BY DEF Init, NewClient, SequenceInv, IsClient, Fields

\* A call that fails forgets every expected answer, on both sides.
LEMMA FailSequence == SequenceInv /\ Fail => SequenceInv'
BY PreparationKeepsIds DEF SequenceInv, Fail

\* Call, Notify and Post add an id to requestId_, or none.
LEMMA BeginSequence ==
    ASSUME SequenceInv, NEW kind, kind \in {"call", "post", "notify"}, Begin(kind)
    PROVE  SequenceInv'
<1> DEFINE fresh == ResetTransaction(PreserveReceiveBuffer(c))
<1>1. CASE Fail
  BY <1>1, FailSequence
<1>2. CASE ~Fail
  <2>1. /\ pc = "idle" /\ pc' = "write" /\ op' = [kind |-> kind, id |-> ops + 1]
        /\ ops' = ops + 1
        /\ kind # "post" => sc.mixed \/ posted = <<>>
        /\ UNCHANGED <<sc, posted>>
    BY <1>2 DEF Begin
  <2>2. PICK k \in {fresh, CloseForConnect(fresh)} :
            c' = [k EXCEPT !.ids = Append(@, ops + 1)]
    BY <1>2 DEF Begin
  <2>3. IsClient(k) /\ k.ids = c.ids
    BY PreparationKeepsIds DEF SequenceInv
  <2> HIDE DEF fresh
  <2>4. IsClient(c') /\ c'.ids = Append(c.ids, ops + 1)
    BY <2>2, <2>3 DEF IsClient, Fields
  <2> QED
    BY <2>1, <2>4 DEF SequenceInv
<1> QED
  BY <1>1, <1>2

\* GetPostResult starts with the posts outstanding.
LEMMA GetSequence == SequenceInv /\ GetPostResult => SequenceInv'
<1> SUFFICES ASSUME SequenceInv, GetPostResult PROVE SequenceInv'
  OBVIOUS
<1>1. CASE Fail
  BY <1>1, FailSequence
<1>2. CASE ~Fail
  <2>1. /\ pc = "idle" /\ posted # <<>> /\ op' = [kind |-> "get", id |-> Head(posted)]
        /\ pc' = "header" /\ UNCHANGED <<sc, ops, posted>>
        /\ c' = IF c.processed THEN ResetTransaction(PreserveReceiveBuffer(c)) ELSE c
    BY <1>2 DEF GetPostResult
  <2>2. IsClient(c') /\ c'.ids = c.ids
    BY <2>1, PreparationKeepsIds DEF SequenceInv
  <2> QED
    BY <2>1, <2>2 DEF SequenceInv
<1> QED
  BY <1>1, <1>2

\* WriteRequest, and its failure, after which a new connection is tried.
LEMMA WriteSequence == SequenceInv /\ (WriteRequest \/ WriteFails) => SequenceInv'
<1> SUFFICES ASSUME SequenceInv, WriteRequest \/ WriteFails PROVE SequenceInv'
  OBVIOUS
<1>1. CASE Fail
  BY <1>1, FailSequence
<1>2. CASE WriteRequest
  <2>1. pc = "write" /\ UNCHANGED <<sc, op, ops>>
    BY <1>2 DEF WriteRequest
  <2>2. CASE op.kind = "post"
    <3>1. pc' = "idle" /\ posted' = Append(posted, op.id) /\ UNCHANGED c
      BY <1>2, <2>2 DEF WriteRequest
    <3>2. posted' \in Seq(Nat)
      BY <2>1, <3>1 DEF SequenceInv
    <3> QED
      BY <2>1, <2>2, <3>1, <3>2 DEF SequenceInv
  <2>3. CASE op.kind = "notify" /\ ~NotifyHasResponse
    <3>1. pc' = "idle" /\ c' = [c EXCEPT !.ids = Tail(@)] /\ UNCHANGED posted
      BY <1>2, <2>3 DEF WriteRequest, NotifyPops
    <3>2. IsClient(c') /\ c'.ids = Tail(c.ids)
      BY <3>1 DEF SequenceInv, IsClient, Fields
    <3>3. ~sc.mixed => c.ids = <<op.id>> /\ posted = <<>>
      BY <2>1, <2>3 DEF SequenceInv
    <3>4. ~sc.mixed => c'.ids = posted
      BY <3>2, <3>3, TailOfOne
    <3> QED
      BY <2>1, <2>3, <3>1, <3>2, <3>4 DEF SequenceInv
  <2>4. CASE op.kind # "post" /\ ~(op.kind = "notify" /\ ~NotifyHasResponse)
    <3>1. pc' = "header" /\ UNCHANGED <<c, posted>>
      BY <1>2, <2>4 DEF WriteRequest
    <3> QED
      BY <2>1, <2>4, <3>1 DEF SequenceInv
  <2> QED
    BY <2>2, <2>3, <2>4
<1>3. CASE WriteFails /\ ~Fail
  <2>1. /\ c' = CloseForConnect(c)
        /\ UNCHANGED <<sc, pc, op, ops, posted>>
    BY <1>3 DEF WriteFails
  <2>2. IsClient(c') /\ c'.ids = c.ids
    BY <2>1, PreparationKeepsIds DEF SequenceInv
  <2> QED
    BY <2>1, <2>2 DEF SequenceInv
<1> QED
  BY <1>1, <1>2, <1>3

\* ReadHeader changes no id.
LEMMA ReadHeaderSequence == SequenceInv /\ ReadHeader => SequenceInv'
<1> SUFFICES ASSUME SequenceInv, ReadHeader PROVE SequenceInv'
  OBVIOUS
<1>1. CASE Fail
  BY <1>1, FailSequence
<1>2. CASE ~Fail
  <2>1. PICK n \in 0 .. Len(input), eof \in BOOLEAN :
          c' = ProcessHeader([c EXCEPT !.buffer = @ \o SubSeq(input, 1, n)], eof).k
    BY <1>2 DEF ReadHeader
  <2>2. pc = "header" /\ pc' \in {"header", "body"} /\ UNCHANGED <<sc, op, ops, posted>>
    BY <1>2 DEF ReadHeader
  <2> DEFINE got == [c EXCEPT !.buffer = @ \o SubSeq(input, 1, n)]
  <2>3. IsClient(got) /\ got.ids = c.ids
    BY DEF SequenceInv, IsClient, Fields
  <2> HIDE DEF got
  <2>4. IsClient(c') /\ c'.ids = c.ids
    BY <2>1, <2>3, ProcessHeaderKeepsIds DEF got
  <2> QED
    BY <2>2, <2>4 DEF SequenceInv
<1> QED
  BY <1>1, <1>2

\* What is left of requestId_ once an answer has been read.
LEMMA FinishSequence ==
    ASSUME SequenceInv, pc = "body", UNCHANGED op, NEW body, NEW rest, Finish(body, rest)
    PROVE  SequenceInv'
<1>1. CASE Fail
  BY <1>1, FailSequence
<1>2. CASE ~Fail /\ op.kind = "notify"
  <2>1. /\ c' = [c EXCEPT !.body = body, !.ids = Tail(@)]
        /\ pc' = "idle" /\ UNCHANGED <<sc, ops, posted>>
    BY <1>2 DEF Finish, NotifyPops
  <2>2. IsClient(c') /\ c'.ids = Tail(c.ids)
    BY <2>1 DEF SequenceInv, IsClient, Fields
  <2>3. ~sc.mixed => c.ids = <<op.id>> /\ posted = <<>>
    BY <1>2 DEF SequenceInv
  <2>4. ~sc.mixed => c'.ids = posted
    BY <2>2, <2>3, TailOfOne
  <2> QED
    BY <2>1, <2>2, <2>4 DEF SequenceInv
<1>3. CASE ~Fail /\ op.kind # "notify"
  <2>1. /\ c' = [c EXCEPT !.body = body, !.processed = TRUE,
                          !.ids = IF @ = <<>> THEN @ ELSE Tail(@)]
        /\ pc' = "idle" /\ UNCHANGED <<sc, ops>>
        /\ posted' = IF op.kind = "get" THEN Tail(posted) ELSE posted
    BY <1>3 DEF Finish
  <2>2. IsClient(c') /\ (c.ids # <<>> => c'.ids = Tail(c.ids))
    BY <2>1 DEF SequenceInv, IsClient, Fields
  <2>3. CASE sc.mixed
    <3>1. posted' \in Seq(Nat)
      BY <1>3, <2>1 DEF SequenceInv
    <3> QED
      BY <2>1, <2>2, <2>3, <3>1 DEF SequenceInv
  <2>4. CASE ~sc.mixed /\ op.kind = "get"
    <3>1. posted' = Tail(posted) /\ posted' \in Seq(Nat) /\ c'.ids = posted'
      BY <2>1, <2>2, <2>4 DEF SequenceInv
    <3> QED
      BY <2>1, <2>2, <3>1 DEF SequenceInv
  <2>5. CASE ~sc.mixed /\ op.kind # "get"
    <3>1. c.ids = <<op.id>> /\ posted = <<>> /\ posted' = posted
      BY <1>3, <2>1, <2>5 DEF SequenceInv
    <3>2. c'.ids = <<>>
      BY <2>2, <3>1, TailOfOne
    <3> QED
      BY <2>1, <2>2, <3>1, <3>2 DEF SequenceInv
  <2> QED
    BY <2>3, <2>4, <2>5
<1> QED
  BY <1>1, <1>2, <1>3

\* ReadResponse takes the id of the answer off the list, and no other.
LEMMA ReadResponseSequence == SequenceInv /\ ReadResponse => SequenceInv'
<1> SUFFICES ASSUME SequenceInv, ReadResponse PROVE SequenceInv'
  OBVIOUS
<1>1. CASE Fail
  BY <1>1, FailSequence
<1>2. CASE ~Fail
  BY <1>2, FinishSequence DEF ReadResponse
<1> QED
  BY <1>1, <1>2

\* Every step keeps the ids in sequence.
LEMMA NextSequence == SequenceInv /\ [Next]_vars => SequenceInv'
<1> SUFFICES ASSUME SequenceInv, [Next]_vars PROVE SequenceInv'
  OBVIOUS
<1>1. CASE SetServer
  <2>1. /\ c' = [c EXCEPT !.comma = FALSE] /\ pc = "idle"
        /\ UNCHANGED <<sc, pc, op, ops, posted>>
    BY <1>1 DEF SetServer
  <2>2. IsClient(c') /\ c'.ids = c.ids
    BY <2>1 DEF SequenceInv, IsClient, Fields
  <2> QED
    BY <2>1, <2>2 DEF SequenceInv
<1>2. CASE Respond \/ ServerCloses \/ ServerStalls \/ TimeIsUp \/ UNCHANGED vars
  <2>1. UNCHANGED <<sc, c, pc, op, ops, posted>>
    BY <1>2 DEF Respond, ServerCloses, ServerStalls, TimeIsUp, vars
  <2> QED
    BY <2>1 DEF SequenceInv
<1> QED
  BY <1>1, <1>2, BeginSequence, GetSequence, WriteSequence, ReadHeaderSequence,
     ReadResponseSequence
  DEF Next, Operation, Step

\* The sequence invariant holds of every run.
LEMMA SequenceHolds == Spec => []SequenceInv
BY InitSequence, NextSequence, PTL DEF Spec

\* When the application collects the results of its posts first, requestId_ is at
\* any time between calls the list of the posts that wait for their result.
THEOREM SequenceKept == Spec => [](~sc.mixed => ExpectedSequence)
<1>1. SequenceInv => (~sc.mixed => ExpectedSequence)
  BY DEF SequenceInv, ExpectedSequence
<1> QED
  BY SequenceHolds, <1>1, PTL

\* The handler's ProcessResponse compares the id of the answer with the front of
\* requestId_, which is the current request.
LEMMA ParsedIsOwn ==
    ASSUME SequenceInv, pc = "body", op.kind # "notify", sc.ids, ~sc.mixed,
           NEW body, NEW r \in Parsed(body) \ {-1}
    PROVE  r = op.id \/ (sc.binary /\ r = 0)
<1>1. c.ids # <<>> /\ Head(c.ids) = op.id
  <2>1. CASE op.kind = "get"
    BY <2>1 DEF SequenceInv
  <2>2. CASE op.kind # "get"
    BY <2>2 DEF SequenceInv
  <2> QED
    BY <2>1, <2>2
<1> QED
  BY <1>1 DEF Parsed

\* A result that is returned is the answer to its own request, for every protocol
\* whose responses carry an id and an application that collects its posts first:
\* whatever the server sends, however late, on whichever connection.
THEOREM AnswersOwn == Spec => [](sc.ids /\ ~sc.mixed => ResultIsOwn)
<1> DEFINE Own == sc.ids /\ ~sc.mixed => ResultIsOwn
<1>1. Init => Own
  BY DEF Init, ResultIsOwn
<1>2. ASSUME SequenceInv, Own, [Next]_vars PROVE Own'
  <2>1. CASE UNCHANGED <<sc, results>>
    BY <1>2, <2>1 DEF ResultIsOwn
  <2>2. CASE ReadResponse /\ ~UNCHANGED results
    <3>1. PICK body, r : /\ r \in Parsed(body) \ {-1}
                         /\ results' = results \cup {<<op.id, r>>}
                         /\ op.kind # "notify" /\ pc = "body" /\ UNCHANGED sc
      BY <2>2 DEF ReadResponse, Finish, Fail
    <3> SUFFICES ASSUME sc.ids, ~sc.mixed PROVE ResultIsOwn'
      BY <3>1
    <3>2. r = op.id \/ (sc.binary /\ r = 0)
      BY <1>2, <3>1, ParsedIsOwn
    <3> QED
      BY <1>2, <3>1, <3>2 DEF ResultIsOwn
  <2>3. UNCHANGED <<sc, results>> \/ (ReadResponse /\ ~UNCHANGED results)
    <3>1. ASSUME NEW kind, Begin(kind) PROVE UNCHANGED <<sc, results>>
      BY <3>1 DEF Begin, Fail
    <3>2. CASE GetPostResult \/ SetServer \/ WriteRequest \/ WriteFails \/ ReadHeader
      BY <3>2 DEF GetPostResult, SetServer, WriteRequest, WriteFails, ReadHeader, Fail
    <3>3. CASE Respond \/ ServerCloses \/ ServerStalls \/ TimeIsUp \/ UNCHANGED vars
      BY <3>3 DEF Respond, ServerCloses, ServerStalls, TimeIsUp, vars
    <3>4. CASE ReadResponse
      BY <3>4 DEF ReadResponse, Finish, Fail
    <3> QED
      BY <1>2, <3>1, <3>2, <3>3, <3>4 DEF Next, Operation, Step
  <2> QED
    BY <2>1, <2>2, <2>3
<1> QED
  BY SequenceHolds, <1>1, <1>2, PTL DEF Spec
------------------------------------------------------------------------------
(* What the client keeps in memory, and where it has come from.            *)

\* The data of the client is in S, and it lies within the memory it is kept in.
Holds(k, S) ==
    /\ IsClient(k) /\ IsHeader(k.http) /\ k.http.role = "response"
    /\ k.buffer \in Seq(S) /\ Len(k.buffer) <= MaxBufferLength
    /\ k.body \in Seq(S) /\ k.contentLength \in Nat
    /\ k.response \in {"none", "buffer", "heap"}
    /\ k.response = "buffer" =>
          Len(k.body) <= MaxBufferLength /\ k.contentLength <= MaxBufferLength
    /\ k.response = "heap" => Len(k.body) <= k.contentLength

\* A client that differs in the members that are no data only.
LEMMA SameData ==
    ASSUME NEW S, NEW k, Holds(k, S), NEW j, IsClient(j),
           j.http = k.http, j.buffer = k.buffer, j.body = k.body,
           j.contentLength = k.contentLength, j.response = k.response
    PROVE  Holds(j, S)
BY DEF Holds

\* Data that is not there has come from anywhere.
LEMMA EmptyHolds ==
    ASSUME NEW S, NEW k, Holds(k, S), k.buffer = <<>>, k.body = <<>>, NEW T
    PROVE  Holds(k, T)
<1>1. <<>> \in Seq(T)
  OBVIOUS
<1> QED
  BY <1>1 DEF Holds

\* The rest of a sequence, and its beginning.
LEMMA PartOfData ==
    ASSUME NEW S, NEW s \in Seq(S), NEW n \in 0 .. Len(s)
    PROVE  /\ SubSeq(s, n + 1, Len(s)) \in Seq(S) /\ SubSeq(s, 1, n) \in Seq(S)
           /\ Len(SubSeq(s, n + 1, Len(s))) = Len(s) - n /\ Len(SubSeq(s, 1, n)) = n
           /\ Len(s) \in Nat
<1>1. Len(s) \in Nat /\ n \in Nat /\ n <= Len(s)
  BY LenProperties
<1>2. IsSequence(s)
  BY DEF IsSequence
<1>3. /\ Len(SubSeq(s, 1, n)) = IF 1 <= n THEN n - 1 + 1 ELSE 0
      /\ Len(SubSeq(s, n + 1, Len(s))) = IF n + 1 <= Len(s) THEN Len(s) - (n + 1) + 1 ELSE 0
  BY <1>1, <1>2, SubSequence
<1>4. \A i \in 1 .. Len(s) : s[i] \in S
  BY ElementOfSeq
<1>5. SubSeq(s, n + 1, Len(s)) \in Seq(S) /\ SubSeq(s, 1, n) \in Seq(S)
  BY <1>1, <1>4, SubSeqProperties
<1> QED
  BY <1>1, <1>3, <1>5

\* The functions that prepare a transaction.
LEMMA PreparationHolds ==
    ASSUME NEW S, NEW k, Holds(k, S)
    PROVE  /\ Holds(ResetTransaction(k), S)
           /\ ResetTransaction(k).body = <<>> /\ ResetTransaction(k).buffer = k.buffer
           /\ Holds(PreserveReceiveBuffer(k), S)
           /\ Holds(CloseForConnect(k), S)
           /\ CloseForConnect(k).buffer = <<>> /\ CloseForConnect(k).body = k.body
<1>1. <<>> \in Seq(S) /\ Len(<<>>) = 0 /\ MaxBufferLength \in Nat
  BY ClientAssumption
<1>2. IsHeader(InitialHeader("response")) /\ InitialHeader("response").role = "response"
  BY InitialIsHeader
<1>3. /\ Holds(ResetTransaction(k), S)
      /\ ResetTransaction(k).body = <<>> /\ ResetTransaction(k).buffer = k.buffer
  BY <1>1, <1>2 DEF Holds, IsClient, Fields, ResetTransaction
<1>4. /\ Holds(CloseForConnect(k), S)
      /\ CloseForConnect(k).buffer = <<>> /\ CloseForConnect(k).body = k.body
  BY <1>1 DEF Holds, IsClient, Fields, CloseForConnect
<1>5. Holds(PreserveReceiveBuffer(k), S)
  <2> DEFINE rest == SubSeq(k.body, k.contentLength + 1, Len(k.body))
  <2>1. k.body \in Seq(S) /\ Len(k.body) \in Nat /\ k.contentLength \in Nat
    BY LenProperties DEF Holds
  <2>2. rest \in Seq(S) /\ Len(rest) <= Len(k.body)
    <3>1. CASE k.contentLength \in 0 .. Len(k.body)
      BY <2>1, <3>1, PartOfData
    <3>2. CASE k.contentLength \notin 0 .. Len(k.body)
      <4>1. k.contentLength + 1 > Len(k.body)
        BY <2>1, <3>2
      <4>2. rest = <<>>
        BY <2>1, <4>1, SubSeqProperties, EmptySeq
      <4> QED
        BY <1>1, <2>1, <4>2
    <3> QED
      BY <3>1, <3>2
  <2> HIDE DEF rest
  <2>3. PICK b : /\ PreserveReceiveBuffer(k) = [k EXCEPT !.buffer = b, !.processed = TRUE]
                 /\ \/ b = k.buffer
                    \/ b = <<>>
                    \/ k.response = "buffer" /\ b = rest
    <3>1. k.response \in {"none", "buffer", "heap"}
      BY DEF Holds
    <3> QED
      BY <3>1 DEF PreserveReceiveBuffer, Holds, IsClient, Fields, rest
  <2>4. b \in Seq(S) /\ Len(b) <= MaxBufferLength
    <3>1. CASE k.response = "buffer" /\ b = rest
      <4>1. Len(rest) \in Nat /\ Len(k.body) <= MaxBufferLength
        BY <2>2, <3>1, LenProperties DEF Holds
      <4> QED
        BY <1>1, <2>1, <2>2, <3>1, <4>1
    <3>2. CASE b = k.buffer
      BY <3>2 DEF Holds
    <3>3. CASE b = <<>>
      BY <1>1, <3>3
    <3> QED
      BY <2>3, <3>1, <3>2, <3>3
  <2> QED
    BY <2>3, <2>4 DEF Holds, IsClient, Fields
<1> QED
  BY <1>3, <1>4, <1>5

\* Client::Reset.
LEMMA ResetHolds ==
    ASSUME NEW S, NEW k, Holds(k, S)
    PROVE  Holds(Reset(k), S) /\ Reset(k).buffer = <<>> /\ Reset(k).body = <<>>
<1> DEFINE j == ResetTransaction(CloseForConnect(k))
<1>1. Holds(j, S) /\ j.buffer = <<>> /\ j.body = <<>>
  BY PreparationHolds
<1>2. Reset(k) = [j EXCEPT !.ids = <<>>]
  BY DEF Reset
<1> HIDE DEF j
<1> QED
  BY <1>1, <1>2 DEF Holds, IsClient, Fields

\* The response goes to the buffer, behind the header, if it fits there.
LEMMA PrepareResponseHolds ==
    ASSUME NEW S, NEW k, Holds(k, S), NEW bodyAt \in 0 .. Len(k.buffer), NEW length \in Nat
    PROVE  Holds(PrepareResponse(k, bodyAt, length), S)
<1> DEFINE rest == SubSeq(k.buffer, bodyAt + 1, Len(k.buffer))
           where == IF length > MaxBufferLength - bodyAt THEN "heap" ELSE "buffer"
<1>1. k.buffer \in Seq(S) /\ Len(k.buffer) <= MaxBufferLength /\ MaxBufferLength \in Nat
  BY ClientAssumption DEF Holds
<1>2. rest \in Seq(S) /\ Len(rest) = Len(k.buffer) - bodyAt /\ Len(k.buffer) \in Nat
  BY <1>1, PartOfData
<1>3. PrepareResponse(k, bodyAt, length) =
         [k EXCEPT !.contentLength = length, !.body = rest, !.response = where]
  BY DEF PrepareResponse
<1>4. /\ where \in {"heap", "buffer"}
      /\ where = "buffer" => Len(rest) <= MaxBufferLength /\ length <= MaxBufferLength
      /\ where = "heap" => Len(rest) <= length
  <2>1. bodyAt \in Nat /\ bodyAt <= Len(k.buffer)
    BY <1>2
  <2>2. CASE length > MaxBufferLength - bodyAt
    BY <1>1, <1>2, <2>1, <2>2
  <2>3. CASE ~(length > MaxBufferLength - bodyAt)
    BY <1>1, <1>2, <2>1, <2>3
  <2> QED
    BY <2>2, <2>3
<1> HIDE DEF rest, where
<1> QED
  BY <1>2, <1>3, <1>4 DEF Holds, IsClient, Fields

\* ProcessHeader of either client.
LEMMA ProcessHeaderHolds ==
    ASSUME NEW S, NEW k, Holds(k, S), NEW eof
    PROVE  Holds(ProcessHeader(k, eof).k, S)
<1>1. k.buffer \in Seq(S) /\ Len(k.buffer) \in Nat /\ IsSequence(k.buffer)
  BY LenProperties DEF Holds, IsSequence
<1>2. Holds(TcpProcessHeader(k, eof).k, S)
  <2> DEFINE colon == ColonAt(k.buffer)
             length == Atoi(SubSeq(k.buffer, IF k.comma THEN 2 ELSE 1, colon))
             read == PrepareResponse(k, colon, length)
  <2>1. TcpProcessHeader(k, eof).k \in {k, [read EXCEPT !.comma = TRUE]}
    BY DEF TcpProcessHeader
  <2>2. colon \in 0 .. Len(k.buffer)
    BY <1>1, ColonInData
  <2> HIDE DEF colon
  <2>3. length \in Nat
    <3>1. PICK m \in {1, 2} : m = IF k.comma THEN 2 ELSE 1
      OBVIOUS
    <3>2. IsSequence(SubSeq(k.buffer, m, colon))
      BY <1>1, <2>2, SubSequence
    <3> QED
      BY <3>1, <3>2, AtoiIsNat DEF IsSequence
  <2> HIDE DEF length
  <2>4. Holds(read, S)
    BY <2>2, <2>3, PrepareResponseHolds
  <2> HIDE DEF read
  <2>5. Holds([read EXCEPT !.comma = TRUE], S)
    BY <2>4 DEF Holds, IsClient, Fields
  <2> QED
    BY <2>1, <2>5
<1>3. Holds(HttpProcessHeader(k, eof).k, S)
  <2> DEFINE h == ProcessHeaderData(k.http, k.buffer, eof)
             parsed == [k EXCEPT !.http = h]
  <2>1. \/ HttpProcessHeader(k, eof).k = parsed
        \/ /\ HttpProcessHeader(k, eof).k = PrepareResponse(parsed, h.startIndex, StatedLength(h))
           /\ h.result = "COMPLETE"
    BY DEF HttpProcessHeader
  <2>2. /\ IsHeader(h) /\ h.role = "response"
        /\ h.result # "FAULT" => h.startIndex \in 0 .. Len(k.buffer)
    BY <1>1, HeaderEndsInData DEF Holds
  <2> HIDE DEF h
  <2>3. Holds(parsed, S) /\ parsed.buffer = k.buffer
    BY <2>2 DEF Holds, IsClient, Fields
  <2> HIDE DEF parsed
  <2>4. h.result = "COMPLETE" => StatedLength(h) \in Nat
    BY <2>2 DEF IsHeader, StatesLength, StatedLength
  <2> QED
    BY <2>1, <2>2, <2>3, <2>4, PrepareResponseHolds
<1> QED
  BY <1>2, <1>3 DEF ProcessHeader

\* The bytes of an answer.
UnitsOf(n, r, length) == {Unit(n, r, i) : i \in 1 .. length}

\* The lines and the digits around it.
Framing(length) ==
    {Colon, Comma, LineBase + FirstLine, LineBase + CloseLine,
     LineBase + LengthLine(length), LineBase + EndLine} \cup {Digit(d) : d \in 0 .. length}

\* The length of an answer.
AnswerLength(r, kind) == IF kind = "notify" /\ sc.ids THEN 0 ELSE sc.body[r]

\* What an answer consists of.
LEMMA AnswerElements ==
    ASSUME NEW n, NEW r, NEW kind, AnswerLength(r, kind) \in Nat, NEW S,
           Framing(AnswerLength(r, kind)) \subseteq S,
           UnitsOf(n, r, AnswerLength(r, kind)) \subseteq S
    PROVE  Answer(n, r, kind) \in Seq(S)
<1> DEFINE length == AnswerLength(r, kind)
           body == BodyOf(n, r, length)
<1>1. body \in Seq(S)
  <2>1. \A i \in 1 .. length : Unit(n, r, i) \in S
    BY DEF UnitsOf
  <2> HIDE DEF length
  <2>2. [i \in 1 .. length |-> Unit(n, r, i)] \in Seq(S)
    BY <2>1, IsASeq DEF length
  <2> QED
    BY <2>2 DEF BodyOf
<1>2. length \in Nat
  OBVIOUS
<1>3. {Colon, Comma, LineBase + FirstLine, LineBase + CloseLine,
       LineBase + LengthLine(length), LineBase + EndLine} \subseteq S
  BY DEF Framing
<1>4. \A d \in 0 .. length : Digit(d) \in S
  BY DEF Framing
<1>5. Answer(n, r, kind) =
        CASE sc.http ->
                <<LineBase + FirstLine>>
                \o (IF r \in sc.close THEN <<LineBase + CloseLine>> ELSE <<>>)
                \o <<LineBase + LengthLine(length), LineBase + EndLine>> \o body
          [] ~sc.http /\ length = 0 -> <<>>
          [] OTHER -> Decimal(length) \o <<Colon>> \o body \o <<Comma>>
  BY DEF Answer, AnswerLength
<1> HIDE DEF length, body
<1>6. Decimal(length) \in Seq(S)
  <2>1. length \div 10 \in 0 .. length /\ length % 10 \in 0 .. length /\ length \in 0 .. length
    BY <1>2
  <2>2. Digit(length) \in S /\ Digit(length \div 10) \in S /\ Digit(length % 10) \in S
    BY <1>2, <1>4, <2>1
  <2> QED
    BY <2>2 DEF Decimal
<1>7. CASE sc.http
  <2> DEFINE first == <<LineBase + FirstLine>>
             close == IF r \in sc.close THEN <<LineBase + CloseLine>> ELSE <<>>
             last == <<LineBase + LengthLine(length), LineBase + EndLine>>
  <2>1. first \in Seq(S) /\ close \in Seq(S) /\ last \in Seq(S)
    BY <1>3
  <2>2. Answer(n, r, kind) = first \o close \o last \o body
    BY <1>5, <1>7
  <2> HIDE DEF first, close, last
  <2> QED
    BY <1>1, <2>1, <2>2, ConcatProperties
<1>8. CASE ~sc.http /\ length = 0
  BY <1>5, <1>8
<1>9. CASE ~sc.http /\ length # 0
  <2>1. <<Colon>> \in Seq(S) /\ <<Comma>> \in Seq(S)
    BY <1>3
  <2>2. Answer(n, r, kind) = Decimal(length) \o <<Colon>> \o body \o <<Comma>>
    BY <1>5, <1>9
  <2> QED
    BY <1>1, <1>6, <2>1, <2>2, ConcatProperties
<1> QED
  BY <1>7, <1>8, <1>9

\* The requests that a server has received and not answered.
Kinds == {"call", "post", "notify"}

\* The inductive invariant: what the client has in memory, what is on its way to it,
\* and for a request that is being written no response has begun.
MemoryInv ==
    /\ pc \in {"idle", "write", "header", "body"}
    /\ conns \in Nat /\ conn \in {0, conns}
    /\ pending \in Seq((DOMAIN sc.body) \X Kinds)
    /\ pc = "write" => c.body = <<>>
    /\ \E S : Holds(c, S) /\ input \in Seq(S)

\* A step after which the data is in S as before, or is gone with its connection.
Keeps(S) ==
    /\ Holds(c', S) /\ input' \in Seq(S)
    /\ \/ conn' \in {0, conn}
       \/ c'.buffer = <<>> /\ c'.body = <<>> /\ input' = <<>>
    /\ conns' \in {conns, conns + 1} /\ conn' \in {0, conns'}
    /\ pc' \in {"idle", "write", "header", "body"}
    /\ pc' = "write" => c'.body = <<>>

\* The call fails, and the client is reset.
LEMMA FailKeeps == ASSUME NEW S, Holds(c, S), Fail PROVE Keeps(S)
BY ResetHolds DEF Fail, Disconnect, Keeps

\* Call, Post and Notify.
LEMMA BeginKeeps ==
    ASSUME MemoryInv, NEW S, Holds(c, S), input \in Seq(S), NEW kind, Begin(kind)
    PROVE  Keeps(S)
<1> DEFINE fresh == ResetTransaction(PreserveReceiveBuffer(c))
<1>1. CASE Fail
  BY <1>1, FailKeeps
<1>2. CASE ~Fail
  <2>1. Holds(fresh, S) /\ fresh.body = <<>>
    BY PreparationHolds
  <2> HIDE DEF fresh
  <2>2. /\ Holds(CloseForConnect(fresh), S) /\ CloseForConnect(fresh).buffer = <<>>
        /\ CloseForConnect(fresh).body = <<>>
    BY <2>1, PreparationHolds
  <2>3. /\ pc' = "write"
        /\ \/ c' = [fresh EXCEPT !.ids = Append(@, ops + 1)] /\ UNCHANGED netVars
           \/ /\ c' = [CloseForConnect(fresh) EXCEPT !.ids = Append(@, ops + 1)]
              /\ Reconnect
    BY <1>2 DEF Begin, fresh
  <2>4. ASSUME NEW k, Holds(k, S), NEW ids
        PROVE  LET j == [k EXCEPT !.ids = ids] IN
               Holds(j, S) /\ j.body = k.body /\ j.buffer = k.buffer
    BY <2>4 DEF Holds, IsClient, Fields
  <2>5. CASE c' = [fresh EXCEPT !.ids = Append(@, ops + 1)] /\ UNCHANGED netVars
    BY <2>1, <2>3, <2>4, <2>5 DEF Keeps, netVars, MemoryInv
  <2>6. CASE c' = [CloseForConnect(fresh) EXCEPT !.ids = Append(@, ops + 1)] /\ Reconnect
    <3> DEFINE k == CloseForConnect(fresh)
    <3>1. Holds(k, S) /\ k.buffer = <<>> /\ k.body = <<>>
      BY <2>2
    <3>2. c' = [k EXCEPT !.ids = Append(k.ids, ops + 1)]
      BY <2>6
    <3> HIDE DEF k
    <3>3. Holds(c', S) /\ c'.buffer = <<>> /\ c'.body = <<>>
      BY <2>4, <3>1, <3>2
    <3> QED
      BY <2>3, <2>6, <3>3 DEF Keeps, Reconnect
  <2> QED
    BY <2>3, <2>5, <2>6
<1> QED
  BY <1>1, <1>2

\* GetPostResult and SetServer.
LEMMA GetKeeps ==
    ASSUME MemoryInv, NEW S, Holds(c, S), input \in Seq(S), GetPostResult \/ SetServer
    PROVE  Keeps(S)
<1>1. CASE Fail
  BY <1>1, FailKeeps
<1>2. CASE ~Fail /\ GetPostResult
  <2>1. /\ c' = IF c.processed THEN ResetTransaction(PreserveReceiveBuffer(c)) ELSE c
        /\ pc' = "header" /\ UNCHANGED netVars
    BY <1>2 DEF GetPostResult
  <2>2. Holds(c', S)
    BY <2>1, PreparationHolds
  <2> QED
    BY <2>1, <2>2 DEF Keeps, netVars, MemoryInv
<1>3. CASE ~Fail /\ SetServer
  <2>1. /\ c' = [c EXCEPT !.comma = FALSE] /\ pc = "idle" /\ pc' = pc
        /\ input' = <<>> /\ conn' = 0 /\ conns' = conns
    BY <1>3 DEF SetServer, Disconnect
  <2>2. Holds(c', S)
    BY <2>1 DEF Holds, IsClient, Fields
  <2> QED
    BY <2>1, <2>2 DEF Keeps, MemoryInv
<1> QED
  BY <1>1, <1>2, <1>3

\* WriteRequest, and its failure.
LEMMA WriteKeeps ==
    ASSUME MemoryInv, NEW S, Holds(c, S), input \in Seq(S), WriteRequest \/ WriteFails
    PROVE  Keeps(S)
<1>1. CASE Fail
  BY <1>1, FailKeeps
<1>2. CASE WriteRequest
  <2>1. /\ pc' \in {"idle", "header"} /\ UNCHANGED <<conn, conns, input>>
        /\ \/ c' = c
           \/ c' = [c EXCEPT !.ids = NotifyPops(@)]
    BY <1>2 DEF WriteRequest
  <2>2. Holds(c', S)
    BY <2>1 DEF Holds, IsClient, Fields
  <2> QED
    BY <2>1, <2>2 DEF Keeps, MemoryInv
<1>3. CASE WriteFails /\ ~Fail
  <2>1. /\ c' = CloseForConnect(c) /\ pc = "write" /\ pc' = pc
        /\ input' = <<>> /\ conn' = conns + 1 /\ conns' = conns + 1
    BY <1>3 DEF WriteFails, Reconnect
  <2>2. Holds(c', S) /\ c'.buffer = <<>> /\ c'.body = c.body
    BY <2>1, PreparationHolds
  <2> QED
    BY <2>1, <2>2 DEF Keeps, MemoryInv
<1> QED
  BY <1>1, <1>2, <1>3

\* ReadHeader: what is received goes behind what is there.
LEMMA ReadHeaderKeeps ==
    ASSUME MemoryInv, NEW S, Holds(c, S), input \in Seq(S), ReadHeader
    PROVE  Keeps(S)
<1>1. CASE Fail
  BY <1>1, FailKeeps
<1>2. CASE ~Fail
  <2>1. PICK n \in 0 .. Len(input), eof \in BOOLEAN :
          /\ n <= MaxBufferLength - Len(c.buffer)
          /\ c' = ProcessHeader([c EXCEPT !.buffer = @ \o SubSeq(input, 1, n)], eof).k
          /\ input' = SubSeq(input, n + 1, Len(input))
          /\ pc' \in {"header", "body"} /\ UNCHANGED <<conn, conns>>
    BY <1>2 DEF ReadHeader
  <2> DEFINE part == SubSeq(input, 1, n)
             got == [c EXCEPT !.buffer = @ \o part]
  <2>2. part \in Seq(S) /\ Len(part) = n /\ input' \in Seq(S)
    BY <2>1, PartOfData
  <2> HIDE DEF part
  <2>3. /\ c.buffer \in Seq(S) /\ Len(c.buffer) \in Nat /\ MaxBufferLength \in Nat
    BY LenProperties, ClientAssumption DEF Holds
  <2>4. c.buffer \o part \in Seq(S) /\ Len(c.buffer \o part) = Len(c.buffer) + n
    BY <2>2, <2>3, ConcatProperties
  <2>5. Len(c.buffer \o part) <= MaxBufferLength
    BY <2>1, <2>3, <2>4
  <2> DEFINE all == c.buffer \o part
  <2>6. got = [c EXCEPT !.buffer = all]
    OBVIOUS
  <2>7. all \in Seq(S) /\ Len(all) <= MaxBufferLength
    BY <2>4, <2>5
  <2> HIDE DEF got, all
  <2>8. Holds(got, S)
    BY <2>6, <2>7 DEF Holds, IsClient, Fields
  <2>9. Holds(c', S)
    BY <2>1, <2>8, ProcessHeaderHolds DEF got, part
  <2> QED
    BY <2>1, <2>2, <2>9 DEF Keeps, MemoryInv
<1> QED
  BY <1>1, <1>2

\* The end of a call, with a response that is in its memory.
LEMMA FinishKeeps ==
    ASSUME MemoryInv, NEW S, Holds(c, S), NEW body \in Seq(S), NEW rest \in Seq(S),
           Len(body) <= c.contentLength \/ body = c.body, Finish(body, rest)
    PROVE  Keeps(S)
<1>1. CASE Fail
  BY <1>1, FailKeeps
<1>2. CASE ~Fail
  <2>1. /\ pc' = "idle" /\ conns' = conns
        /\ \/ input' = rest /\ conn' = conn
           \/ input' = <<>> /\ conn' = 0
        /\ \E ids, processed :
              c' = [c EXCEPT !.body = body, !.processed = processed, !.ids = ids]
    <3>1. CASE op.kind = "notify"
      <4>1. c' = [c EXCEPT !.body = body, !.processed = c.processed, !.ids = NotifyPops(@)]
        BY <1>2, <3>1 DEF Finish, Holds, IsClient, Fields
      <4> QED
        BY <1>2, <3>1, <4>1 DEF Finish
    <3>2. CASE op.kind # "notify"
      BY <1>2, <3>2 DEF Finish, CloseIfAsked, Disconnect
    <3> QED
      BY <3>1, <3>2
  <2>2. PICK ids, processed :
           c' = [c EXCEPT !.body = body, !.processed = processed, !.ids = ids]
    BY <2>1
  <2>3. /\ c.response = "buffer" => Len(body) <= MaxBufferLength
        /\ c.response = "heap" => Len(body) <= c.contentLength
    <3>1. Len(body) \in Nat /\ c.contentLength \in Nat /\ MaxBufferLength \in Nat
      BY LenProperties, ClientAssumption DEF Holds
    <3>2. CASE Len(body) <= c.contentLength
      BY <3>1, <3>2 DEF Holds
    <3>3. CASE body = c.body
      BY <3>3 DEF Holds
    <3> QED
      BY <3>2, <3>3
  <2>4. Holds(c', S)
    BY <2>2, <2>3 DEF Holds, IsClient, Fields
  <2>5. input' \in Seq(S)
    <3>1. rest \in Seq(S) /\ <<>> \in Seq(S) /\ (input' = rest \/ input' = <<>>)
      BY <2>1
    <3> QED
      BY <3>1
  <2> QED
    BY <2>1, <2>4, <2>5 DEF Keeps, MemoryInv
<1> QED
  BY <1>1, <1>2

\* ReadResponse asks for no more than what is missing.
LEMMA ReadResponseKeeps ==
    ASSUME MemoryInv, NEW S, Holds(c, S), input \in Seq(S), ReadResponse
    PROVE  Keeps(S)
<1>1. CASE Fail
  BY <1>1, FailKeeps
<1>2. CASE ~Fail
  <2> DEFINE missing == c.contentLength - Len(c.body)
  <2>1. /\ c.body \in Seq(S) /\ Len(c.body) \in Nat /\ c.contentLength \in Nat
        /\ Len(input) \in Nat
    BY LenProperties DEF Holds
  <2> DEFINE Ends(n) == Finish(c.body \o SubSeq(input, 1, n), SubSeq(input, n + 1, Len(input)))
  <2>2. PICK n \in 0 .. Len(input) : (n = 0 \/ n <= missing) /\ Ends(n)
    <3>1. \/ missing <= 0 /\ Ends(0)
          \/ missing > 0 /\ Len(input) >= missing /\ Ends(missing)
          \/ \E n \in 0 .. Len(input) : n < missing /\ Ends(n)
      BY <1>2 DEF ReadResponse
    <3>2. missing \in Int /\ 0 \in 0 .. Len(input)
      BY <2>1
    <3> HIDE DEF missing, Ends
    <3>3. CASE missing > 0 /\ Len(input) >= missing /\ Ends(missing)
      <4>1. missing \in 0 .. Len(input)
        BY <2>1, <3>2, <3>3
      <4> QED
        BY <3>2, <3>3, <4>1
    <3>4. CASE \E n \in 0 .. Len(input) : n < missing /\ Ends(n)
      <4>1. PICK n \in 0 .. Len(input) : n < missing /\ Ends(n)
        BY <3>4
      <4> QED
        BY <2>1, <3>2, <4>1
    <3> QED
      BY <3>1, <3>2, <3>3, <3>4
  <2> DEFINE part == SubSeq(input, 1, n)
             rest == SubSeq(input, n + 1, Len(input))
             body == c.body \o part
  <2>3. part \in Seq(S) /\ rest \in Seq(S) /\ Len(part) = n /\ n \in Nat
    BY <2>1, PartOfData
  <2> HIDE DEF part, rest
  <2>4. body \in Seq(S) /\ Len(body) = Len(c.body) + n
    BY <2>1, <2>3, ConcatProperties
  <2>5. Len(body) <= c.contentLength \/ body = c.body
    <3>1. CASE n = 0
      <4>1. part = <<>>
        BY <2>3, <3>1, EmptySeq
      <4> QED
        BY <2>1, <4>1, ConcatEmptySeq
    <3>2. CASE n # 0
      BY <2>1, <2>2, <2>3, <2>4, <3>2
    <3> QED
      BY <3>1, <3>2
  <2>6. Finish(body, rest)
    BY <2>2 DEF part, rest
  <2> HIDE DEF body
  <2> QED
    BY <2>3, <2>4, <2>5, <2>6, FinishKeeps
<1> QED
  BY <1>1, <1>2

\* What a server receives and answers.
LEMMA PendingKept ==
    ASSUME MemoryInv, OnceInv, SequenceInv, [Next]_vars
    PROVE  sc' = sc /\ pending' \in Seq((DOMAIN sc.body) \X Kinds)
<1>1. <<>> \in Seq((DOMAIN sc.body) \X Kinds) /\ pending \in Seq((DOMAIN sc.body) \X Kinds)
  BY DEF MemoryInv
<1>2. ASSUME NEW kind, Begin(kind) PROVE sc' = sc /\ pending' \in {<<>>, pending}
  BY <1>2 DEF Begin, Fail, Disconnect, Reconnect, netVars
<1>3. CASE GetPostResult \/ SetServer \/ WriteFails \/ ReadHeader \/ ReadResponse
  <2>1. sc' = sc /\ pending' \in {<<>>, pending}
    BY <1>3
    DEF GetPostResult, SetServer, WriteFails, ReadHeader, ReadResponse, Finish, CloseIfAsked,
        Fail, Disconnect, Reconnect, netVars
  <2> QED
    BY <1>1, <2>1
<1>4. CASE WriteRequest
  <2>1. sc' = sc /\ (pending' = pending \/ pending' = Append(pending, <<op.id, op.kind>>))
    BY <1>4 DEF WriteRequest
  <2>2. <<op.id, op.kind>> \in (DOMAIN sc.body) \X Kinds
    <3>1. pc = "write"
      BY <1>4 DEF WriteRequest
    <3>2. op.id \in DOMAIN sc.body
      BY <3>1 DEF OnceInv
    <3>3. op.kind \in Kinds
      BY <3>1 DEF SequenceInv, Kinds
    <3> QED
      BY <3>2, <3>3
  <2>3. PICK S : S = (DOMAIN sc.body) \X Kinds
    OBVIOUS
  <2>4. PICK p : p = <<op.id, op.kind>>
    OBVIOUS
  <2>5. pending \in Seq(S) /\ p \in S
    BY <1>1, <2>2, <2>3, <2>4
  <2>6. Append(pending, p) \in Seq(S)
    BY <2>5, AppendProperties
  <2> QED
    BY <1>1, <2>1, <2>3, <2>4, <2>6
<1>5. CASE Respond
  <2>1. sc' = sc /\ pending # <<>> /\ pending' = Tail(pending)
    BY <1>5 DEF Respond
  <2> QED
    BY <1>1, <2>1, HeadTailProperties
<1>6. CASE ServerCloses \/ ServerStalls \/ TimeIsUp \/ UNCHANGED vars
  BY <1>1, <1>6 DEF ServerCloses, ServerStalls, TimeIsUp, vars, netVars
<1> QED
  BY <1>1, <1>2, <1>3, <1>4, <1>5, <1>6 DEF Next, Operation, Step

\* Every step leaves the data in S, if what the server sends is.
LEMMA NextKeeps ==
    ASSUME MemoryInv, [Next]_vars, NEW S, Holds(c, S), input \in Seq(S),
           Respond => Answer(conn, Head(pending)[1], Head(pending)[2]) \in Seq(S)
    PROVE  Keeps(S)
<1>1. CASE Respond
  <2>1. /\ input' = input \o Answer(conn, Head(pending)[1], Head(pending)[2])
        /\ UNCHANGED <<c, pc, conn, conns>>
    BY <1>1 DEF Respond
  <2>2. input' \in Seq(S)
    BY <1>1, <2>1, ConcatProperties
  <2> QED
    BY <2>1, <2>2 DEF Keeps, MemoryInv
<1>2. CASE ServerCloses \/ ServerStalls \/ TimeIsUp \/ UNCHANGED vars
  <2>1. UNCHANGED <<c, pc, conn, conns, input>>
    BY <1>2 DEF ServerCloses, ServerStalls, TimeIsUp, vars, netVars
  <2> QED
    BY <2>1 DEF Keeps, MemoryInv
<1> QED
  BY <1>1, <1>2, BeginKeeps, GetKeeps, WriteKeeps, ReadHeaderKeeps, ReadResponseKeeps
  DEF Next, Operation, Step

\* A request that is answered, and the length of its answer.
LEMMA AnswerIsOfRequest ==
    ASSUME MemoryInv, OnceInv, Respond
    PROVE  /\ Head(pending)[1] \in DOMAIN sc.body
           /\ AnswerLength(Head(pending)[1], Head(pending)[2]) \in
                 {0, sc.body[Head(pending)[1]]}
           /\ sc.body[Head(pending)[1]] \in Nat
<1>1. Head(pending) \in (DOMAIN sc.body) \X Kinds
  BY HeadTailProperties DEF Respond, MemoryInv
<1>2. Head(pending)[1] \in DOMAIN sc.body
  BY <1>1
<1>3. sc.body \in Seq(Nat \ {0})
  BY ClientAssumption DEF OnceInv
<1>4. sc.body[Head(pending)[1]] \in Nat
  BY <1>2, <1>3, LenProperties, ElementOfSeq
<1> QED
  BY <1>2, <1>4 DEF AnswerLength

\* A larger set.
LEMMA HoldsMore ==
    ASSUME NEW S, NEW T, S \subseteq T, NEW k, Holds(k, S), NEW s \in Seq(S)
    PROVE  Holds(k, T) /\ s \in Seq(T)
<1>1. \A q \in Seq(S) : q \in Seq(T)
  BY SeqMonotonic
<1> QED
  BY <1>1 DEF Holds

\* A client and no server.
LEMMA InitClientMemory == Init => MemoryInv
<1> SUFFICES ASSUME Init PROVE MemoryInv
  OBVIOUS
<1>1. \A S : <<>> \in Seq(S) /\ Len(<<>>) = 0
  OBVIOUS
<1>2. IsHeader(InitialHeader("response")) /\ InitialHeader("response").role = "response"
  BY InitialIsHeader
<1>3. MaxBufferLength \in Nat
  BY ClientAssumption
<1>4. \A S : Holds(c, S) /\ input \in Seq(S)
  BY <1>1, <1>2, <1>3 DEF Init, NewClient, Holds, IsClient, Fields
<1> QED
  BY <1>1, <1>4 DEF Init, NewClient, MemoryInv

\* There is a set for the data after a step, too.
LEMMA StepKeeps ==
    ASSUME MemoryInv, OnceInv, [Next]_vars PROVE \E T : Keeps(T)
<1>0. PICK S : Holds(c, S) /\ input \in Seq(S)
  BY DEF MemoryInv
<1>1. CASE ~Respond
  BY <1>0, <1>1, NextKeeps
<1>2. CASE Respond
  <2>1. PICK n, r, kind : n = conn /\ r = Head(pending)[1] /\ kind = Head(pending)[2]
    OBVIOUS
  <2>2. PICK length : length = AnswerLength(r, kind)
    OBVIOUS
  <2>3. length \in Nat
    BY <1>2, <2>1, <2>2, AnswerIsOfRequest
  <2> DEFINE T == S \cup Framing(length) \cup UnitsOf(n, r, length)
  <2>4. S \subseteq T /\ Framing(length) \subseteq T /\ UnitsOf(n, r, length) \subseteq T
    OBVIOUS
  <2> HIDE DEF T
  <2>5. Answer(n, r, kind) \in Seq(T)
    BY <2>2, <2>3, <2>4, AnswerElements
  <2>6. Holds(c, T) /\ input \in Seq(T)
    BY <1>0, <2>4, HoldsMore
  <2>7. Keeps(T)
    BY <2>1, <2>5, <2>6, NextKeeps
  <2> QED
    BY <2>7
<1> QED
  BY <1>1, <1>2

\* Every step keeps the data of the client within its memory.
LEMMA NextClientMemory ==
    MemoryInv /\ OnceInv /\ SequenceInv /\ [Next]_vars => MemoryInv'
<1> SUFFICES ASSUME MemoryInv, OnceInv, SequenceInv, [Next]_vars PROVE MemoryInv'
  OBVIOUS
<1>1. sc' = sc /\ pending' \in Seq((DOMAIN sc.body) \X Kinds)
  BY PendingKept
<1>4. PICK T : Keeps(T)
  BY StepKeeps
<1>5. /\ Holds(c', T) /\ input' \in Seq(T)
      /\ conns' \in Nat /\ conn' \in {0, conns'}
      /\ pc' \in {"idle", "write", "header", "body"}
      /\ pc' = "write" => c'.body = <<>>
  BY <1>4 DEF Keeps, MemoryInv
<1>6. \E U : Holds(c', U) /\ input' \in Seq(U)
  BY <1>5
<1>7. (\E U : Holds(c, U) /\ input \in Seq(U))'
  BY <1>6 DEF Holds, IsClient, IsHeader, StatesLength
<1> QED
  BY <1>1, <1>5, <1>7 DEF MemoryInv

\* The numbers of lines, of what frames an answer, and of a body's units and of
\* requests.
LineNumbers == 1 .. 799
FramingNumbers == 0 .. 999
BodyNumbers == 1 .. 99
RequestNumbers == 1 .. 90

\* The numbers that stand for units of an answer are no lines, digits or separators,
\* and tell its connection.
UnitsDistinct ==
    /\ FirstLine \in LineNumbers /\ CloseLine \in LineNumbers /\ EndLine \in LineNumbers
    /\ \A m \in BodyNumbers \cup {0} : LengthLine(m) \in LineNumbers
    /\ \A s \in Scenario : s.body \in Seq(BodyNumbers) /\ 1 .. Len(s.body) \subseteq RequestNumbers

\* Units that have come over connection n, and what frames them.
From(n) == {u \in Nat : u >= 1000 => ConnOf(u) = n}

\* What is in the buffer, in the response or on the way has come over the connection
\* that is open.
OriginInv == conn # 0 => Holds(c, From(conn)) /\ input \in Seq(From(conn))

\* What frames an answer is less than the units of any.
LEMMA FramingIsSmall ==
    ASSUME UnitsDistinct, NEW length \in BodyNumbers \cup {0}
    PROVE  Framing(length) \subseteq FramingNumbers
<1>1. ASSUME NEW i \in LineNumbers PROVE LineBase + i \in FramingNumbers
  BY DEF LineNumbers, FramingNumbers, LineBase
<1>2. /\ FirstLine \in LineNumbers /\ CloseLine \in LineNumbers /\ EndLine \in LineNumbers
      /\ LengthLine(length) \in LineNumbers
  BY Zenon DEF UnitsDistinct
<1>3. Colon \in FramingNumbers /\ Comma \in FramingNumbers
  BY DEF Colon, Comma, FramingNumbers
<1>4. ASSUME NEW d \in 0 .. length PROVE Digit(d) \in FramingNumbers
  BY DEF Digit, FramingNumbers, BodyNumbers
<1> QED
  BY <1>1, <1>2, <1>3, <1>4, Zenon DEF Framing

\* An answer tells the connection it is sent on.
LEMMA AnswerFrom ==
    ASSUME UnitsDistinct, MemoryInv, OnceInv, Respond, NEW n \in Nat \ {0}
    PROVE  Answer(n, Head(pending)[1], Head(pending)[2]) \in Seq(From(n))
<1>1. PICK r, kind : r = Head(pending)[1] /\ kind = Head(pending)[2]
  OBVIOUS
<1>2. PICK length : length = AnswerLength(r, kind)
  OBVIOUS
<1>3. /\ r \in DOMAIN sc.body /\ length \in {0, sc.body[r]} /\ length \in Nat
      /\ sc.body[r] \in Nat
  BY <1>1, <1>2, AnswerIsOfRequest
<1>4. length \in BodyNumbers \cup {0} /\ r \in RequestNumbers
  <2>1. sc.body \in Seq(BodyNumbers) /\ 1 .. Len(sc.body) \subseteq RequestNumbers
    BY Zenon DEF OnceInv, UnitsDistinct
  <2>2. r \in 1 .. Len(sc.body)
    BY <1>3, <2>1, LenProperties
  <2>3. sc.body[r] \in BodyNumbers
    BY <2>1, <2>2, ElementOfSeq
  <2> QED
    BY <1>3, <2>1, <2>2, <2>3
<1>5. UnitsOf(n, r, length) \subseteq From(n)
  <2>1. ASSUME NEW i \in 1 .. length PROVE Unit(n, r, i) \in From(n)
    <3>1. PICK m : m = 10 * r + i
      OBVIOUS
    <3>2. m \in 0 .. 999
      BY <1>4, <3>1 DEF BodyNumbers, RequestNumbers
    <3>3. (1000 * n + m) \div 1000 = n /\ 1000 * n + m \in Nat
      BY <3>2
    <3>4. Unit(n, r, i) = 1000 * n + m
      <4>1. r \in Nat /\ i \in Nat
        BY <1>4 DEF RequestNumbers
      <4> QED
        BY <3>1, <4>1 DEF Unit
    <3> QED
      BY <3>3, <3>4 DEF From, ConnOf
  <2> QED
    BY <2>1 DEF UnitsOf
<1>6. Framing(length) \subseteq From(n)
  <2>1. FramingNumbers \subseteq From(n)
    BY DEF From, FramingNumbers
  <2>2. Framing(length) \subseteq FramingNumbers
    BY <1>4, FramingIsSmall
  <2> QED
    BY <2>1, <2>2
<1> QED
  BY <1>1, <1>2, <1>3, <1>5, <1>6, AnswerElements

\* No step brings data of another connection.
LEMMA NextOrigin ==
    ASSUME UnitsDistinct, MemoryInv, OnceInv, OriginInv, [Next]_vars
    PROVE  OriginInv'
<1>1. ASSUME conn' # 0 PROVE Holds(c', From(conn')) /\ input' \in Seq(From(conn'))
  <2>1. PICK T : Keeps(T)
    BY StepKeeps
  <2>2. CASE conn' = conn
    <3>1. PICK n : n = conn
      OBVIOUS
    <3>2. n \in Nat \ {0}
      BY <1>1, <2>2, <3>1 DEF MemoryInv
    <3>3. Holds(c, From(n)) /\ input \in Seq(From(n))
      BY <3>1, <3>2 DEF OriginInv
    <3>4. Respond => Answer(n, Head(pending)[1], Head(pending)[2]) \in Seq(From(n))
      BY <3>2, AnswerFrom
    <3>5. Keeps(From(n))
      BY <3>1, <3>3, <3>4, NextKeeps
    <3> QED
      BY <2>2, <3>1, <3>5 DEF Keeps
  <2>3. CASE conn' # conn
    <3>1. Holds(c', T) /\ c'.buffer = <<>> /\ c'.body = <<>> /\ input' = <<>>
      BY <1>1, <2>1, <2>3 DEF Keeps
    <3>2. Holds(c', From(conn'))
      BY <3>1, EmptyHolds
    <3> QED
      BY <3>1, <3>2
  <2> QED
    BY <2>2, <2>3
<1>2. conn' # 0 => (Holds(c, From(conn)) /\ input \in Seq(From(conn)))'
  BY <1>1 DEF Holds, IsClient, IsHeader, StatesLength, From, ConnOf
<1> QED
  BY <1>2 DEF OriginInv

\* The invariants hold together.
LEMMA ClientInvariant == Spec => [](OnceInv /\ SequenceInv /\ MemoryInv)
<1>1. Init => OnceInv /\ SequenceInv /\ MemoryInv
  BY InitOnce, InitSequence, InitClientMemory
<1>2. OnceInv /\ SequenceInv /\ MemoryInv /\ [Next]_vars => (OnceInv /\ SequenceInv /\ MemoryInv)'
  BY NextOnce, NextSequence, NextClientMemory
<1> QED
  BY <1>1, <1>2, PTL DEF Spec

\* No call goes past the end of buffer_, nor of the memory that a long response gets,
\* whatever the server sends and in whatever pieces.
THEOREM ClientStaysInMemory == Spec => []TypeOK
<1>1. MemoryInv => TypeOK
  BY DEF MemoryInv, TypeOK, Holds
<1> QED
  BY ClientInvariant, <1>1, PTL

\* What the client parses has come over the connection that is open, and not over one
\* before it: a late or half-read answer goes with its connection.
THEOREM OwnConnection ==
    ASSUME UnitsDistinct PROVE Spec => []BufferOfThisConnection
<1>1. Init => OriginInv
  BY DEF Init, OriginInv
<1>2. OnceInv /\ SequenceInv /\ MemoryInv /\ OriginInv /\ [Next]_vars => OriginInv'
  BY NextOrigin
<1>3. MemoryInv /\ OriginInv => BufferOfThisConnection
  <2> SUFFICES ASSUME MemoryInv, OriginInv, conn # 0, NEW i \in DOMAIN c.buffer,
                      c.buffer[i] >= 1000
               PROVE  ConnOf(c.buffer[i]) = conn
    BY DEF BufferOfThisConnection
  <2>1. c.buffer \in Seq(From(conn))
    BY DEF OriginInv, Holds
  <2>2. c.buffer[i] \in From(conn)
    BY <2>1, LenProperties, ElementOfSeq
  <2> QED
    BY <2>2 DEF From
<1> QED
  BY ClientInvariant, <1>1, <1>2, <1>3, PTL DEF Spec

\* A call that returns a result returns the answer to its own request, read from this
\* connection and within the buffer, for every protocol whose responses carry an id
\* and an application that collects its posts first.
THEOREM OwnAnswers ==
    ASSUME UnitsDistinct PROVE Spec => [](sc.ids /\ ~sc.mixed => OwnAnswer)
<1>1. /\ TypeOK /\ BufferOfThisConnection /\ (sc.ids /\ ~sc.mixed => ResultIsOwn)
      => (sc.ids /\ ~sc.mixed => OwnAnswer)
  BY DEF OwnAnswer
<1> QED
  BY ClientStaysInMemory, OwnConnection, AnswersOwn, <1>1, PTL
------------------------------------------------------------------------------
(* Why a call fails.                                                       *)

\* The lines of the server mean what they are sent for: the client can read the header
\* of an answer of this length.
LinesRead(length) ==
    /\ {FirstLine, CloseLine, LengthLine(length), EndLine} \subseteq DOMAIN Line
    /\ Line[FirstLine].key = "response" /\ Line[FirstLine].value = "200"
    /\ Line[FirstLine].version # "none"
    /\ Line[CloseLine].key = "connection" /\ Line[EndLine].key = ""
    /\ Line[LengthLine(length)].key = "content-length"
    /\ Line[LengthLine(length)].value = length

\* The header of an answer over HTTP.
AnswerHeader(close, length) ==
    <<LineBase + FirstLine>>
    \o (IF close THEN <<LineBase + CloseLine>> ELSE <<>>)
    \o <<LineBase + LengthLine(length), LineBase + EndLine>>

\* Its units, which are lines.
LEMMA AnswerHeaderUnits ==
    ASSUME NEW length \in Nat, LinesRead(length), NEW close \in BOOLEAN
    PROVE  LET H == AnswerHeader(close, length)
               n == IF close THEN 4 ELSE 3
           IN  /\ IsSequence(H) /\ Len(H) = n
               /\ H[1] - LineBase = FirstLine /\ (close => H[2] - LineBase = CloseLine)
               /\ H[n - 1] - LineBase = LengthLine(length) /\ H[n] - LineBase = EndLine
<1> DEFINE first == Single(LineBase + FirstLine)
           second == IF close THEN Single(LineBase + CloseLine) ELSE <<>>
           front == Join(first, second)
           last == <<LineBase + LengthLine(length), LineBase + EndLine>>
           H == AnswerHeader(close, length)
<1>1. H = Join(front, last)
  BY DEF AnswerHeader, Join, Single
<1>2. /\ IsSequence(first) /\ Len(first) = 1 /\ first[1] = LineBase + FirstLine
      /\ IsSequence(second) /\ Len(second) = IF close THEN 1 ELSE 0
      /\ close => second[1] = LineBase + CloseLine
  BY SingleElement, EmptyIsSequence
<1>3. /\ IsSequence(last) /\ Len(last) = 2
      /\ last[1] = LineBase + LengthLine(length) /\ last[2] = LineBase + EndLine
  <2>1. \A x, y : /\ <<x, y>> \in Seq({x, y}) /\ Len(<<x, y>>) = 2
                  /\ <<x, y>>[1] = x /\ <<x, y>>[2] = y
    OBVIOUS
  <2> QED
    BY <2>1 DEF IsSequence
<1>4. \A l \in DOMAIN Line : (LineBase + l) - LineBase = l
  BY LineAssumption DEF LineBase
<1>5. /\ (LineBase + FirstLine) - LineBase = FirstLine
      /\ (LineBase + CloseLine) - LineBase = CloseLine
      /\ (LineBase + LengthLine(length)) - LineBase = LengthLine(length)
      /\ (LineBase + EndLine) - LineBase = EndLine
  BY <1>4 DEF LinesRead
<1> HIDE DEF first, second, last
<1>6. /\ IsSequence(front) /\ Len(front) = IF close THEN 2 ELSE 1
      /\ front[1] = LineBase + FirstLine /\ (close => front[2] = LineBase + CloseLine)
  <2>1. /\ IsSequence(front) /\ Len(front) = Len(first) + Len(second)
        /\ \A i \in 1 .. Len(first) : front[i] = first[i]
        /\ \A i \in 1 .. Len(second) : front[Len(first) + i] = second[i]
    <3>1. IsSequence(first) /\ IsSequence(second)
      BY <1>2
    <3> QED
      BY <3>1, JoinElements
  <2>2. front[1] = first[1] /\ (close => front[Len(first) + 1] = second[1])
    BY <1>2, <2>1
  <2> QED
    BY <1>2, <2>1, <2>2
<1> HIDE DEF front
<1>7. /\ IsSequence(H) /\ Len(H) = Len(front) + 2
      /\ \A i \in 1 .. Len(front) : H[i] = front[i]
      /\ H[Len(front) + 1] = last[1] /\ H[Len(front) + 2] = last[2]
  <2>1. /\ IsSequence(H) /\ Len(H) = Len(front) + Len(last)
        /\ \A i \in 1 .. Len(front) : H[i] = front[i]
        /\ \A i \in 1 .. Len(last) : H[Len(front) + i] = last[i]
    <3>1. IsSequence(front) /\ IsSequence(last)
      BY <1>3, <1>6
    <3>2. /\ IsSequence(Join(front, last)) /\ Len(Join(front, last)) = Len(front) + Len(last)
          /\ \A i \in 1 .. Len(front) : Join(front, last)[i] = front[i]
          /\ \A i \in 1 .. Len(last) : Join(front, last)[Len(front) + i] = last[i]
      BY <3>1, JoinElements
    <3> QED
      BY <1>1, <3>2
  <2>2. H[Len(front) + 1] = last[1] /\ H[Len(front) + 2] = last[2]
    BY <1>3, <2>1
  <2> QED
    BY <1>3, <2>1, <2>2
<1> HIDE DEF H
<1>8. H[1] = front[1] /\ (close => H[2] = front[2])
  BY <1>6, <1>7
<1> DEFINE n == IF close THEN 4 ELSE 3
<1>9. Len(H) = n /\ H[n - 1] = last[1] /\ H[n] = last[2]
  <2>1. CASE close
    <3>1. Len(front) = 2 /\ n = 4 /\ n - 1 = 3
      BY <1>6, <2>1
    <3> QED
      BY <1>7, <3>1
  <2>2. CASE ~close
    <3>1. Len(front) = 1 /\ n = 3 /\ n - 1 = 2
      BY <1>6, <2>2
    <3> QED
      BY <1>7, <3>1
  <2> QED
    BY <2>1, <2>2
<1>10. /\ IsSequence(H) /\ H[1] - LineBase = FirstLine /\ (close => H[2] - LineBase = CloseLine)
       /\ H[n - 1] - LineBase = LengthLine(length) /\ H[n] - LineBase = EndLine
  <2> HIDE DEF n
  <2>1. /\ IsSequence(H) /\ H[1] = LineBase + FirstLine
        /\ close => H[2] = LineBase + CloseLine
    BY <1>6, <1>7, <1>8
  <2>2. H[n - 1] = LineBase + LengthLine(length) /\ H[n] = LineBase + EndLine
    BY <1>3, <1>9
  <2> QED
    BY <1>5, <2>1, <2>2
<1> QED
  BY <1>9, <1>10 DEF H

\* A line at the place up to which the header has been read is processed.
LEMMA LineProcessed ==
    ASSUME NEW h, h.result = "INCOMPLETE", NEW i \in Nat, h.startIndex = i - 1,
           NEW data, NEW l \in DOMAIN Line, data[i] - LineBase = l
    PROVE  ProcessUnit(h, data, i)
              = [(IF i = 1 THEN ProcessFirstLine(h, Line[l]) ELSE ProcessLine(h, Line[l]))
                    EXCEPT !.startIndex = i]
<1>1. IsLine(data[i])
  BY DEF IsLine
<1>2. i = h.startIndex + 1 /\ (h.startIndex = 0 <=> i = 1)
  OBVIOUS
<1>3. LineAt(h, data, i) = Line[l]
  BY <1>2 DEF LineAt
<1> QED
  BY <1>1, <1>2, <1>3 DEF ProcessUnit, StartIndex

\* The header of a response of which j lines have been read, the length not yet or also.
HeaderBegun(h, j, length) ==
    /\ DOMAIN h = DOMAIN InitialHeader("response")
    /\ h.role = "response" /\ h.result = "INCOMPLETE" /\ h.startIndex = j
    /\ h.word = "200" /\ h.contentLength = length

\* The first line of an answer, "connection", and its length.
LEMMA LinesProcessed ==
    ASSUME NEW length \in Nat, LinesRead(length), NEW h, NEW data, NEW i \in Nat
    PROVE  /\ h = InitialHeader("response") /\ i = 1 /\ data[i] - LineBase = FirstLine =>
                 HeaderBegun(ProcessUnit(h, data, i), 1, -1)
           /\ HeaderBegun(h, i - 1, -1) /\ i # 1 /\ data[i] - LineBase = CloseLine =>
                 HeaderBegun(ProcessUnit(h, data, i), i, -1)
           /\ HeaderBegun(h, i - 1, -1) /\ i # 1 /\ data[i] - LineBase = LengthLine(length) =>
                 HeaderBegun(ProcessUnit(h, data, i), i, length)
           /\ HeaderBegun(h, i - 1, length) /\ i # 1 /\ data[i] - LineBase = EndLine =>
                 LET g == ProcessUnit(h, data, i)
                 IN  /\ g.result = "COMPLETE" /\ g.startIndex = i
                     /\ g.word = "200" /\ g.contentLength = length
<1>1. ASSUME h = InitialHeader("response"), i = 1, data[i] - LineBase = FirstLine
      PROVE  HeaderBegun(ProcessUnit(h, data, i), 1, -1)
  <2>1. h.result = "INCOMPLETE" /\ h.startIndex = i - 1 /\ FirstLine \in DOMAIN Line
    <3>1. FirstLine \in DOMAIN Line
      BY DEF LinesRead
    <3>2. h.result = "INCOMPLETE" /\ h.startIndex = 0
      BY <1>1 DEF InitialHeader
    <3> QED
      BY <1>1, <3>1, <3>2
  <2>2. ProcessUnit(h, data, i) = [ProcessFirstLine(h, Line[FirstLine]) EXCEPT !.startIndex = i]
    BY <1>1, <2>1, LineProcessed
  <2>3. PICK first : first = Line[FirstLine]
    OBVIOUS
  <2>4. first.key = "response" /\ first.value = "200" /\ first.version # "none"
    BY <2>3 DEF LinesRead
  <2>5. ProcessUnit(h, data, i) = [ProcessFirstLine(InitialHeader("response"), first) EXCEPT !.startIndex = 1]
    BY <1>1, <2>2, <2>3
  <2> QED
    BY <2>4, <2>5 DEF ProcessFirstLine, InitialHeader, HeaderBegun
<1>2. ASSUME HeaderBegun(h, i - 1, -1), i # 1, data[i] - LineBase = CloseLine
      PROVE  HeaderBegun(ProcessUnit(h, data, i), i, -1)
  <2>1. h.result = "INCOMPLETE" /\ h.startIndex = i - 1 /\ CloseLine \in DOMAIN Line
    BY <1>2 DEF HeaderBegun, LinesRead
  <2>2. ProcessUnit(h, data, i) = [ProcessLine(h, Line[CloseLine]) EXCEPT !.startIndex = i]
    BY <1>2, <2>1, LineProcessed
  <2>3. Line[CloseLine].key = "connection"
    BY DEF LinesRead
  <2> QED
    BY <1>2, <2>2, <2>3 DEF ProcessLine, InitialHeader, HeaderBegun
<1>3. ASSUME HeaderBegun(h, i - 1, -1), i # 1, data[i] - LineBase = LengthLine(length)
      PROVE  HeaderBegun(ProcessUnit(h, data, i), i, length)
  <2>1. h.result = "INCOMPLETE" /\ h.startIndex = i - 1 /\ LengthLine(length) \in DOMAIN Line
    BY <1>3 DEF HeaderBegun, LinesRead
  <2>2. ProcessUnit(h, data, i) = [ProcessLine(h, Line[LengthLine(length)]) EXCEPT !.startIndex = i]
    BY <1>3, <2>1, LineProcessed
  <2>3. Line[LengthLine(length)].key = "content-length" /\ Line[LengthLine(length)].value = length
    BY DEF LinesRead
  <2> QED
    BY <1>3, <2>2, <2>3 DEF ProcessLine, InitialHeader, HeaderBegun
<1>4. ASSUME HeaderBegun(h, i - 1, length), i # 1, data[i] - LineBase = EndLine,
             NEW g, g = ProcessUnit(h, data, i)
      PROVE  /\ g.result = "COMPLETE" /\ g.startIndex = i
             /\ g.word = "200" /\ g.contentLength = length
  <2>1. h.result = "INCOMPLETE" /\ h.startIndex = i - 1 /\ EndLine \in DOMAIN Line
    BY <1>4 DEF HeaderBegun, LinesRead
  <2>2. ProcessUnit(h, data, i) = [ProcessLine(h, Line[EndLine]) EXCEPT !.startIndex = i]
    BY <1>4, <2>1, LineProcessed
  <2>3. Line[EndLine].key = ""
    BY DEF LinesRead
  <2>4. ProcessLine(h, Line[EndLine]) = [h EXCEPT !.result = "COMPLETE"]
    <3>1. ProcessLine(h, Line[EndLine]) = Verify(h)
      BY <2>3 DEF ProcessLine
    <3>2. h.contentLength = length /\ h.role = "response" /\ ~(length < 0)
      BY <1>4 DEF HeaderBegun
    <3>3. Verify(h) = [h EXCEPT !.result = "COMPLETE"]
      BY <3>2 DEF Verify
    <3> QED
      BY <3>1, <3>3
  <2> QED
    BY <1>4, <2>2, <2>4 DEF InitialHeader, HeaderBegun
<1> QED
  BY <1>1, <1>2, <1>3, <1>4

\* The data start with units, or are some first ones of them.
StartsAs(data, units) ==
    IsSequence(data) /\ \A i \in 1 .. Len(data) : i <= Len(units) => data[i] = units[i]

\* Of the n units of a header, those of the first m are read.
ReadSoFar(h, m, n, length) ==
    /\ m < n => h.result = "INCOMPLETE" /\ h.startIndex = m
    /\ n <= m =>
          /\ h.result = "COMPLETE" /\ h.startIndex = n
          /\ h.word = "200" /\ h.contentLength = length

\* The header of an answer is incomplete until all its lines are there, and then tells
\* the length of the body, which is behind it.
LEMMA AnswerHeaderRead ==
    ASSUME NEW length \in Nat, LinesRead(length), NEW close \in BOOLEAN,
           NEW data, StartsAs(data, AnswerHeader(close, length)),
           NEW h, h = ProcessHeaderData(InitialHeader("response"), data, FALSE)
    PROVE  ReadSoFar(h, Len(data), Len(AnswerHeader(close, length)), length)
<1> DEFINE H == AnswerHeader(close, length)
           n == IF close THEN 4 ELSE 3
           m == Len(data)
           start == InitialHeader("response")
<1>1. /\ IsSequence(H) /\ Len(H) = n
      /\ H[1] - LineBase = FirstLine /\ (close => H[2] - LineBase = CloseLine)
      /\ H[n - 1] - LineBase = LengthLine(length) /\ H[n] - LineBase = EndLine
  BY AnswerHeaderUnits
<1>2. m \in Nat /\ \A i \in 1 .. m : i <= n => data[i] = H[i]
  BY <1>1, SubSequence DEF StartsAs
<1>3. IsHeader(start) /\ start.startIndex = 0 /\ start.result = "INCOMPLETE"
  <2>1. IsHeader(start)
    BY InitialIsHeader
  <2>2. start.startIndex = 0 /\ start.result = "INCOMPLETE"
    BY DEF InitialHeader
  <2> QED
    BY <2>1, <2>2
<1>4. PICK st : /\ st[0] = start /\ h = st[m]
                /\ \A i \in 1 .. m : st[i] = ProcessUnit(st[i - 1], data, i)
  <2>1. IsHeader(start) /\ IsSequence(data) /\ start.startIndex <= Len(data)
    BY <1>2, <1>3 DEF StartsAs
  <2>2. \E st : HeaderRun(start, data, st) /\ ProcessHeaderData(start, data, FALSE) = st[Len(data)]
    BY <2>1, HeaderLastState
  <2>3. start.startIndex + 1 = 1
    BY <1>3
  <2> QED
    BY <1>3, <2>2, <2>3 DEF HeaderRun
<1>5. n \in {3, 4} /\ (close <=> n = 4)
  OBVIOUS
<1> HIDE DEF H, n, m
<1>6. 1 <= m => HeaderBegun(st[1], 1, -1)
  <2> SUFFICES ASSUME 1 <= m PROVE HeaderBegun(st[1], 1, -1)
    OBVIOUS
  <2>1. 1 \in 1 .. m /\ 1 <= n
    BY <1>2, <1>5
  <2>2. data[1] - LineBase = FirstLine
    BY <1>1, <1>2, <2>1
  <2>3. PICK g, i : g = start /\ i = 1 /\ i \in Nat
    OBVIOUS
  <2>4. HeaderBegun(ProcessUnit(g, data, i), 1, -1)
    BY <2>2, <2>3, LinesProcessed
  <2>5. st[1] = ProcessUnit(st[1 - 1], data, 1) /\ 1 - 1 = 0
    BY <1>4, <2>1
  <2> QED
    BY <1>4, <2>3, <2>4, <2>5
<1>7. n - 2 <= m => HeaderBegun(st[n - 2], n - 2, -1)
  <2>1. CASE ~close
    <3>1. n - 2 = 1
      BY <1>5, <2>1
    <3> QED
      BY <1>6, <3>1
  <2>2. CASE close
    <3> SUFFICES ASSUME 2 <= m PROVE HeaderBegun(st[2], 2, -1)
      BY <1>5, <2>2
    <3>1. 2 \in 1 .. m /\ 2 <= n /\ 1 <= m
      BY <1>2, <1>5
    <3>2. data[2] - LineBase = CloseLine
      BY <1>1, <1>2, <2>2, <3>1
    <3>3. PICK g, i : g = st[1] /\ i = 2 /\ i \in Nat
      OBVIOUS
    <3>4. HeaderBegun(g, i - 1, -1) /\ i # 1 /\ data[i] - LineBase = CloseLine
      BY <1>6, <3>1, <3>2, <3>3
    <3>5. HeaderBegun(ProcessUnit(g, data, i), i, -1)
      BY <3>3, <3>4, LinesProcessed
    <3>6. st[2] = ProcessUnit(st[2 - 1], data, 2) /\ 2 - 1 = 1
      BY <1>4, <3>1
    <3> QED
      BY <3>3, <3>5, <3>6
  <2> QED
    BY <2>1, <2>2
<1>8. n - 1 <= m => HeaderBegun(st[n - 1], n - 1, length)
  <2> SUFFICES ASSUME n - 1 <= m PROVE HeaderBegun(st[n - 1], n - 1, length)
    OBVIOUS
  <2>1. n - 1 \in 1 .. m /\ n - 1 <= n /\ n - 2 <= m /\ (n - 1) - 1 = n - 2 /\ n - 1 # 1
    BY <1>2, <1>5
  <2>2. data[n - 1] - LineBase = LengthLine(length)
    BY <1>1, <1>2, <2>1
  <2>3. PICK g, i : g = st[n - 2] /\ i = n - 1 /\ i \in Nat
    BY <1>5
  <2>4. HeaderBegun(g, i - 1, -1) /\ i # 1 /\ data[i] - LineBase = LengthLine(length)
    BY <1>7, <2>1, <2>2, <2>3
  <2>5. HeaderBegun(ProcessUnit(g, data, i), i, length)
    BY <2>3, <2>4, LinesProcessed
  <2>6. st[n - 1] = ProcessUnit(st[(n - 1) - 1], data, n - 1)
    BY <1>4, <2>1
  <2> QED
    BY <2>1, <2>3, <2>5, <2>6
<1>9. n <= m => /\ st[n].result = "COMPLETE" /\ st[n].startIndex = n
                /\ st[n].word = "200" /\ st[n].contentLength = length
  <2> SUFFICES ASSUME n <= m
               PROVE  /\ st[n].result = "COMPLETE" /\ st[n].startIndex = n
                      /\ st[n].word = "200" /\ st[n].contentLength = length
    OBVIOUS
  <2>1. n \in 1 .. m /\ n <= n /\ n - 1 <= m /\ n # 1
    BY <1>2, <1>5
  <2>2. data[n] - LineBase = EndLine
    BY <1>1, <1>2, <2>1
  <2>3. PICK g, i : g = st[n - 1] /\ i = n /\ i \in Nat
    BY <1>5
  <2>4. HeaderBegun(g, i - 1, length) /\ i # 1 /\ data[i] - LineBase = EndLine
    BY <1>8, <2>1, <2>2, <2>3
  <2>5. LET e == ProcessUnit(g, data, i)
        IN  e.result = "COMPLETE" /\ e.startIndex = i /\ e.word = "200" /\ e.contentLength = length
    BY <2>3, <2>4, LinesProcessed
  <2>6. st[n] = ProcessUnit(st[n - 1], data, n)
    BY <1>4, <2>1
  <2> QED
    BY <2>3, <2>5, <2>6
<1>10. n <= m => st[m] = st[n]
  <2> SUFFICES ASSUME n <= m PROVE st[m] = st[n]
    OBVIOUS
  <2> DEFINE Good == {i \in Nat : n + i <= m => st[n + i] = st[n]}
  <2>1. 0 \in Good
    <3>1. n + 0 = n
      BY <1>5
    <3> QED
      BY <3>1
  <2>2. ASSUME NEW i \in Nat, i \in Good PROVE i + 1 \in Good
    <3> SUFFICES ASSUME n + (i + 1) <= m PROVE st[n + (i + 1)] = st[n]
      OBVIOUS
    <3>1. n + (i + 1) \in 1 .. m /\ (n + (i + 1)) - 1 = n + i /\ n + i <= m
      BY <1>2, <1>5
    <3>2. st[n + i] = st[n]
      BY <2>2, <3>1
    <3>3. st[n + (i + 1)] = ProcessUnit(st[n], data, n + (i + 1))
      BY <1>4, <3>1, <3>2
    <3>4. st[n].result # "INCOMPLETE"
      BY <1>9
    <3> QED
      BY <3>3, <3>4 DEF ProcessUnit
  <2>3. \A i \in Nat : i \in Good => i + 1 \in Good
    BY <2>2
  <2> HIDE DEF Good
  <2>4. Nat \subseteq Good
    BY <2>1, <2>3, NatSetInduction
  <2>5. PICK i \in Nat : i = m - n /\ n + i = m
    BY <1>2, <1>5
  <2>6. n + i <= m => st[n + i] = st[n]
    BY <2>4, <2>5 DEF Good
  <2> QED
    BY <1>2, <2>5, <2>6
<1>11. m < n => h.result = "INCOMPLETE" /\ h.startIndex = m
  <2> SUFFICES ASSUME m < n PROVE h.result = "INCOMPLETE" /\ h.startIndex = m
    OBVIOUS
  <2>1. \/ m = 0
        \/ m = 1
        \/ m = n - 2
        \/ m = n - 1
    BY <1>2, <1>5
  <2>6. ASSUME NEW l, HeaderBegun(st[m], m, l) PROVE h.result = "INCOMPLETE" /\ h.startIndex = m
    BY <1>4, <2>6 DEF HeaderBegun
  <2>2. CASE m = 0
    BY <1>3, <1>4, <2>2
  <2>3. CASE m = 1
    <3>1. HeaderBegun(st[m], m, -1)
      BY <1>2, <1>5, <1>6, <2>3
    <3> QED
      BY <2>6, <3>1
  <2>4. CASE m = n - 2
    <3>1. HeaderBegun(st[m], m, -1)
      BY <1>2, <1>5, <1>7, <2>4
    <3> QED
      BY <2>6, <3>1
  <2>5. CASE m = n - 1
    <3>1. HeaderBegun(st[m], m, length)
      BY <1>2, <1>5, <1>8, <2>5
    <3> QED
      BY <2>6, <3>1
  <2> QED
    BY <2>1, <2>2, <2>3, <2>4, <2>5
<1>12. ReadSoFar(h, m, n, length)
  BY <1>4, <1>9, <1>10, <1>11 DEF ReadSoFar
<1>13. n = Len(AnswerHeader(close, length))
  BY <1>1 DEF H
<1> QED
  BY <1>12, <1>13 DEF m

\* What is read of the header of an answer over HTTP: the first m units of the data.
HeaderSoFar(h, data) ==
    \E m \in 0 .. Len(data) :
        h = ProcessHeaderData(InitialHeader("response"), First(data, m), FALSE) /\ h.startIndex = m

\* The data and what is behind them, tail, are the header of an answer and z.
StartsAnswer(data, tail, close, length, z) ==
    /\ IsSequence(data) /\ IsSequence(tail) /\ IsSequence(z)
    /\ close \in BOOLEAN /\ length \in Nat /\ LinesRead(length)
    /\ Join(data, tail) = Join(AnswerHeader(close, length), z)

\* The header tells the length, and z is behind it.
ReadsHeader(h, data, tail, length, z) ==
    /\ h.result = "COMPLETE" /\ h.word = "200" /\ h.contentLength = length
    /\ h.startIndex \in 0 .. Len(data) /\ Join(After(data, h.startIndex), tail) = z

\* However the header of an answer is cut into pieces, it is read for what it says, or
\* more of it is waited for.
LEMMA AnswerInPieces ==
    ASSUME NEW data, NEW tail, NEW close, NEW length, NEW z,
           StartsAnswer(data, tail, close, length, z),
           NEW h, HeaderSoFar(h, data),
           NEW g, g = ProcessHeaderData(h, data, FALSE)
    PROVE  \/ g.result = "INCOMPLETE" /\ HeaderSoFar(g, data)
           \/ ReadsHeader(g, data, tail, length, z)
<1> DEFINE H == AnswerHeader(close, length)
           start == InitialHeader("response")
<1>1. /\ IsSequence(data) /\ IsSequence(tail) /\ IsSequence(z)
      /\ close \in BOOLEAN /\ length \in Nat /\ LinesRead(length) /\ Join(data, tail) = Join(H, z)
  BY DEF StartsAnswer
<1>2. PICK m \in 0 .. Len(data) :
         h = ProcessHeaderData(start, First(data, m), FALSE) /\ h.startIndex = m
  BY DEF HeaderSoFar
<1>3. IsHeader(start) /\ start.startIndex = 0
  <2>1. start.startIndex = 0
    BY DEF InitialHeader
  <2> QED
    BY <2>1, InitialIsHeader
<1> HIDE DEF start
<1>4. Len(data) \in Nat /\ m \in Nat /\ m <= Len(data)
  BY <1>1, SubSequence
<1>5. g = ProcessHeaderData(start, data, FALSE)
  <2>1. m \in start.startIndex .. Len(data)
    BY <1>3, <1>4
  <2>2. ProcessHeaderData(start, First(data, m), FALSE).startIndex = m
    BY <1>2
  <2>3. ProcessHeaderData(ProcessHeaderData(start, First(data, m), FALSE), data, FALSE)
           = ProcessHeaderData(start, data, FALSE)
    BY <1>1, <1>3, <2>1, <2>2, HeaderInPieces
  <2> QED
    BY <1>2, <2>3
<1>6. IsSequence(H) /\ Len(H) \in Nat
  <2>1. IsSequence(H)
    BY <1>1, AnswerHeaderUnits
  <2> QED
    BY <2>1, JoinElements
<1> HIDE DEF H
<1>7. StartsAs(data, H)
  <2>1. ASSUME NEW i \in 1 .. Len(data), i <= Len(H) PROVE data[i] = H[i]
    <3>1. i \in 1 .. Len(H)
      BY <1>4, <1>6, <2>1
    <3>2. Join(data, tail)[i] = data[i]
      BY <1>1, JoinFront
    <3>3. Join(H, z)[i] = H[i]
      BY <1>1, <1>6, <3>1, JoinFront
    <3> QED
      BY <1>1, <3>2, <3>3
  <2> QED
    BY <1>1, <2>1 DEF StartsAs
<1>8. /\ Len(data) < Len(H) => g.result = "INCOMPLETE" /\ g.startIndex = Len(data)
      /\ Len(H) <= Len(data) =>
            /\ g.result = "COMPLETE" /\ g.startIndex = Len(H)
            /\ g.word = "200" /\ g.contentLength = length
  <2>1. /\ StartsAs(data, AnswerHeader(close, length))
        /\ g = ProcessHeaderData(InitialHeader("response"), data, FALSE)
    BY <1>5, <1>7 DEF H, start
  <2>2. ReadSoFar(g, Len(data), Len(AnswerHeader(close, length)), length)
    <3>1. length \in Nat /\ LinesRead(length) /\ close \in BOOLEAN
      BY <1>1
    <3> QED
      BY <2>1, <3>1, AnswerHeaderRead
  <2> QED
    BY <2>2 DEF H, ReadSoFar
<1>9. CASE Len(data) < Len(H)
  <2>1. First(data, Len(data)) = data
    <3>1. Len(data) \in 0 .. Len(data)
      BY <1>4
    <3>2. /\ IsSequence(First(data, Len(data))) /\ Len(First(data, Len(data))) = Len(data)
          /\ \A i \in 1 .. Len(data) : First(data, Len(data))[i] = data[i]
      BY <1>1, <3>1, CutInTwo
    <3> QED
      BY <1>1, <3>2, SameSequence
  <2>2. Len(data) \in 0 .. Len(data)
    BY <1>4
  <2>3. g = ProcessHeaderData(start, First(data, Len(data)), FALSE)
    BY <1>5, <2>1
  <2>4. g.startIndex = Len(data)
    BY <1>8, <1>9
  <2>5. HeaderSoFar(g, data)
    BY <2>2, <2>3, <2>4, Zenon DEF HeaderSoFar, start
  <2> QED
    BY <1>8, <1>9, <2>5
<1>10. CASE Len(H) <= Len(data)
  <2>1. Join(After(data, Len(H)), tail) = z
    BY <1>1, <1>6, <1>10, CutAgain
  <2>2. Len(H) \in 0 .. Len(data)
    BY <1>4, <1>6, <1>10
  <2> QED
    BY <1>8, <1>10, <2>1, <2>2 DEF ReadsHeader
<1>11. Len(data) < Len(H) \/ Len(H) <= Len(data)
  BY <1>4, <1>6
<1> QED
  BY <1>9, <1>10, <1>11

\* The bytes of an answer.
LEMMA BodyUnits ==
    ASSUME NEW n, NEW r, NEW length \in Nat
    PROVE  LET B == BodyOf(n, r, length) IN
           /\ IsSequence(B) /\ Len(B) = length
           /\ \A i \in 1 .. length : B[i] = Unit(n, r, i)
<1> DEFINE S == {Unit(n, r, i) : i \in 1 .. length}
<1>1. \A i \in 1 .. length : Unit(n, r, i) \in S
  OBVIOUS
<1> HIDE DEF S
<1>2. [i \in 1 .. length |-> Unit(n, r, i)] \in Seq(S)
  BY <1>1, IsASeq
<1>3. BodyOf(n, r, length) = [i \in 1 .. length |-> Unit(n, r, i)]
  BY DEF BodyOf
<1> HIDE DEF BodyOf
<1>4. Len(BodyOf(n, r, length)) = length
  BY <1>1, <1>3, IsASeq
<1> QED
  BY <1>2, <1>3, <1>4 DEF IsSequence

\* An answer over HTTP is its header and its body.
LEMMA AnswerOverHttp ==
    ASSUME sc.http, NEW n, NEW r, NEW kind
    PROVE  LET length == AnswerLength(r, kind)
           IN  Answer(n, r, kind) = Join(AnswerHeader(r \in sc.close, length), BodyOf(n, r, length))
BY DEF Answer, AnswerLength, AnswerHeader, Join

\* Over TCP it is a netstring, and nothing if it is empty.
LEMMA AnswerOverTcp ==
    ASSUME ~sc.http, NEW n, NEW r, NEW kind
    PROVE  LET length == AnswerLength(r, kind)
           IN  /\ length = 0 => Answer(n, r, kind) = <<>>
               /\ length # 0 =>
                     Answer(n, r, kind) = Join(Join(Join(Decimal(length), Single(Colon)),
                                                    BodyOf(n, r, length)), Single(Comma))
BY DEF Answer, AnswerLength, Join, Single

\* In either case it is a sequence; a request has a number and an answer a length.
LEMMA AnswerIsSequence ==
    ASSUME UnitsDistinct, OnceInv, NEW r \in DOMAIN sc.body, NEW kind
    PROVE  /\ IsSequence(Answer(1, r, kind))
           /\ r \in RequestNumbers /\ sc.body[r] \in BodyNumbers
           /\ AnswerLength(r, kind) \in Nat
           /\ kind # "notify" => AnswerLength(r, kind) = sc.body[r]
<1>1. sc.body \in Seq(BodyNumbers) /\ 1 .. Len(sc.body) \subseteq RequestNumbers
  BY Zenon DEF OnceInv, UnitsDistinct
<1>2. r \in 1 .. Len(sc.body)
  BY <1>1, LenProperties
<1>3. sc.body[r] \in BodyNumbers /\ r \in RequestNumbers
  BY <1>1, <1>2, ElementOfSeq
<1>4. AnswerLength(r, kind) \in Nat /\ (kind # "notify" => AnswerLength(r, kind) = sc.body[r])
  BY <1>3 DEF AnswerLength, BodyNumbers
<1> DEFINE S == Framing(AnswerLength(r, kind)) \cup UnitsOf(1, r, AnswerLength(r, kind))
<1>5. Answer(1, r, kind) \in Seq(S)
  <2>1. /\ Framing(AnswerLength(r, kind)) \subseteq S
        /\ UnitsOf(1, r, AnswerLength(r, kind)) \subseteq S
    OBVIOUS
  <2> HIDE DEF S
  <2> QED
    BY <1>4, <2>1, AnswerElements
<1> QED
  BY <1>3, <1>4, <1>5 DEF IsSequence

\* The answers of the server on the first connection, to whatever it is asked; those
\* to posts.
Answers == [p \in (DOMAIN sc.body) \X Kinds |-> Answer(1, p[1], p[2])]
PostAnswers == [r \in DOMAIN sc.body |-> Answer(1, r, "post")]

\* What is on its way to the client, or will be; what its application expects.
Coming(sent, asked) == Join(sent, Joined(Answers, asked))
Owed(list) == Joined(PostAnswers, list)

\* The posts whose results are expected after the current call.
Later(o, list) == IF o.kind = "get" THEN Tail(list) ELSE <<>>

\* The comma that is still to come.
Lead(k) == IF k.comma THEN Single(Comma) ELSE <<>>

\* No response has begun.
Fresh(k) == k.response = "none" /\ k.http = InitialHeader("response")

\* What the client has beyond its last response, with what is coming, is what it expects.
Outstanding(k, data, list) ==
    Join(PreserveReceiveBuffer(k).buffer, data) = Join(Lead(k), Owed(list))

\* The same at each place of a call.
AtIdle(k, data, list) == (list # <<>> /\ ~k.processed => Fresh(k)) /\ Outstanding(k, data, list)
AtWrite(k, data, list) == Fresh(k) /\ Outstanding(k, data, list)
AtHeader(k, o, data, list) ==
    /\ k.response = "none" /\ (sc.http => HeaderSoFar(k.http, k.buffer))
    /\ o.kind = "notify" => sc.http
    /\ Join(k.buffer, data) = Join(Lead(k), Join(Answer(1, o.id, o.kind), Owed(Later(o, list))))
AtBody(k, o, data, list) ==
    /\ k.response # "none" /\ (k.comma <=> ~sc.http)
    /\ o.kind = "notify" => sc.http
    /\ k.contentLength = AnswerLength(o.id, o.kind)
    /\ Join(k.body, data)
          = Join(BodyOf(1, o.id, k.contentLength), Join(Lead(k), Owed(Later(o, list))))

InStream(k, p, o, data, list) ==
    /\ sc.http => ~k.comma
    /\ p = "idle" => AtIdle(k, data, list)
    /\ p = "write" => AtWrite(k, data, list)
    /\ p = "header" => AtHeader(k, o, data, list)
    /\ p = "body" => AtBody(k, o, data, list)

\* The first connection, which the server has not closed.
OnFirst == sc.ids /\ ~sc.binary /\ conns = 1 /\ conn = 1 /\ ~gone

\* On it the client has its place in the stream of answers.
StreamInv ==
    /\ conns = 0 => posted = <<>> /\ pc = "idle"
    /\ pc # "idle" => conn # 0 /\ op.id \in DOMAIN sc.body
    /\ posted \in Seq(DOMAIN sc.body)
    /\ OnFirst => InStream(c, pc, op, Coming(input, pending), posted)

\* The application collects its posts first, and the client can read every answer that
\* the server gives: of protocols whose responses carry an id and do not parse by accident.
AnswersReadable ==
    \A s \in Scenario : s.ids /\ ~s.binary =>
        /\ ~s.mixed
        /\ \A r \in DOMAIN s.body : s.body[r] <= MaxContentLength
        /\ s.http => LinesRead(0) /\ \A r \in DOMAIN s.body : LinesRead(s.body[r])

\* What these are made of.
LEMMA AnswerLists ==
    ASSUME UnitsDistinct, OnceInv
    PROVE  /\ \A p \in (DOMAIN sc.body) \X Kinds : IsSequence(Answers[p])
           /\ \A r \in DOMAIN sc.body : IsSequence(PostAnswers[r])
           /\ \A list \in Seq(DOMAIN sc.body) : IsSequence(Owed(list))
           /\ \A asked \in Seq((DOMAIN sc.body) \X Kinds) : IsSequence(Joined(Answers, asked))
           /\ Owed(<<>>) = <<>> /\ Joined(Answers, <<>>) = <<>>
<1>1. ASSUME NEW p \in (DOMAIN sc.body) \X Kinds PROVE IsSequence(Answers[p])
  <2>1. p[1] \in DOMAIN sc.body /\ Answers[p] = Answer(1, p[1], p[2])
    BY DEF Answers
  <2> QED
    BY <2>1, AnswerIsSequence
<1>2. ASSUME NEW r \in DOMAIN sc.body PROVE IsSequence(PostAnswers[r])
  <2>1. PostAnswers[r] = Answer(1, r, "post")
    BY DEF PostAnswers
  <2> QED
    BY <2>1, AnswerIsSequence
<1>3. /\ \A list \in Seq(DOMAIN sc.body) : IsSequence(Joined(PostAnswers, list))
      /\ \A asked \in Seq((DOMAIN sc.body) \X Kinds) : IsSequence(Joined(Answers, asked))
  BY <1>1, <1>2, JoinedNext
<1>4. Joined(PostAnswers, <<>>) = <<>> /\ Joined(Answers, <<>>) = <<>>
  <2>1. <<>> \in Seq(DOMAIN sc.body) /\ <<>> \in Seq((DOMAIN sc.body) \X Kinds)
    OBVIOUS
  <2> QED
    BY <1>1, <1>2, <2>1, JoinedNext
<1> QED
  BY <1>1, <1>2, <1>3, <1>4 DEF Owed

\* The comma is a lead.
LEMMA LeadIsLead == ASSUME NEW k PROVE IsLead(Lead(k)) /\ IsSequence(Lead(k))
<1>1. IsLead(Single(Comma))
  <2>1. IsSequence(Single(Comma)) /\ Len(Single(Comma)) = 1 /\ Single(Comma)[1] = Comma
    BY SingleElement
  <2>2. \A i \in 1 .. Len(Single(Comma)) : Single(Comma)[i] = Comma
    BY <2>1
  <2> QED
    BY <2>1, <2>2 DEF IsLead
<1>2. IsLead(<<>>)
  BY EmptyIsSequence DEF IsLead
<1>3. IsLead(Lead(k))
  BY <1>1, <1>2, Zenon DEF Lead
<1> QED
  BY <1>3 DEF IsLead

\* The client with these units more in its buffer.
Received(k, units) == [k EXCEPT !.buffer = @ \o units]

\* What has been received goes on where it was.
LEMMA ReceivedHeader ==
    ASSUME NEW k, IsClient(k), IsSequence(k.buffer), NEW o, NEW list,
           NEW sent, IsSequence(sent), NEW asked, IsSequence(Joined(Answers, asked)),
           AtHeader(k, o, Coming(sent, asked), list), NEW n \in 0 .. Len(sent)
    PROVE  LET j == Received(k, First(sent, n))
           IN  /\ AtHeader(j, o, Coming(After(sent, n), asked), list)
               /\ IsClient(j) /\ IsSequence(j.buffer) /\ j.comma = k.comma
               /\ IsSequence(After(sent, n))
<1> DEFINE j == Received(k, First(sent, n))
           a == First(sent, n)
           b == After(sent, n)
           d == Joined(Answers, asked)
<1>1. sent = Join(a, b) /\ IsSequence(a) /\ IsSequence(b) /\ IsSequence(d)
  BY CutInTwo
<1>2. /\ IsClient(j) /\ j.comma = k.comma /\ j.response = k.response /\ j.http = k.http
      /\ j.buffer = Join(k.buffer, a)
  BY DEF IsClient, Fields, Join, Received
<1>3. Coming(sent, asked) = Join(sent, d) /\ Coming(After(sent, n), asked) = Join(b, d)
  BY DEF Coming
<1>4. b = After(sent, n)
  OBVIOUS
<1> HIDE DEF a, b, d, j
<1>5. IsSequence(j.buffer) /\ IsSequence(Join(b, d))
  <2>1. IsSequence(Join(k.buffer, a))
    BY <1>1, JoinElements
  <2>2. IsSequence(Join(b, d))
    BY <1>1, JoinElements
  <2> QED
    BY <1>2, <2>1, <2>2
<1>6. Join(j.buffer, Join(b, d)) = Join(k.buffer, Join(sent, d))
  <2>1. Join(Join(k.buffer, a), Join(b, d)) = Join(k.buffer, Join(a, Join(b, d)))
    BY <1>1, <1>5, JoinAssociative
  <2>2. Join(Join(a, b), d) = Join(a, Join(b, d))
    BY <1>1, JoinAssociative
  <2> QED
    BY <1>1, <1>2, <2>1, <2>2
<1>7. HeaderSoFar(k.http, k.buffer) => HeaderSoFar(j.http, j.buffer)
  <2> SUFFICES ASSUME NEW m \in 0 .. Len(k.buffer), k.http.startIndex = m,
                      k.http = ProcessHeaderData(InitialHeader("response"), First(k.buffer, m), FALSE)
               PROVE  HeaderSoFar(j.http, j.buffer)
    BY DEF HeaderSoFar
  <2>1. First(j.buffer, m) = First(k.buffer, m)
    <3>1. First(Join(k.buffer, a), m) = First(k.buffer, m)
      BY <1>1, FirstOfJoin
    <3> QED
      BY <1>2, <3>1
  <2>2. m \in 0 .. Len(j.buffer)
    <3>1. Len(j.buffer) = Len(k.buffer) + Len(a) /\ Len(k.buffer) \in Nat /\ Len(a) \in Nat
      BY <1>1, <1>2, JoinElements
    <3> QED
      BY <3>1
  <2> QED
    BY <1>2, <2>1, <2>2 DEF HeaderSoFar
<1>8. Lead(j) = Lead(k)
  BY <1>2 DEF Lead
<1>9. AtHeader(j, o, Coming(After(sent, n), asked), list)
  <2>1. j.response = "none" /\ (sc.http => HeaderSoFar(j.http, j.buffer))
    BY <1>2, <1>7 DEF AtHeader
  <2>2. o.kind = "notify" => sc.http
    BY DEF AtHeader
  <2>3. Join(k.buffer, Join(sent, d)) = Join(Lead(k), Join(Answer(1, o.id, o.kind), Owed(Later(o, list))))
    BY <1>3 DEF AtHeader
  <2>4. Join(j.buffer, Coming(After(sent, n), asked))
           = Join(Lead(j), Join(Answer(1, o.id, o.kind), Owed(Later(o, list))))
    BY <1>6, <1>8, <1>3, <2>3
  <2> QED
    BY <2>1, <2>2, <2>4, Zenon DEF AtHeader
<1> QED
  BY <1>1, <1>2, <1>4, <1>5, <1>9 DEF j

\* ProcessHeader waits for more of the header, or the response begins behind it; it finds
\* no fault.
Processed(p, o, data, list) ==
    /\ sc.http => ~p.k.comma
    /\ \/ p.result = "INCOMPLETE" /\ AtHeader(p.k, o, data, list)
       \/ p.result = "COMPLETE" /\ AtBody(p.k, o, data, list)

\* The lengths that an answer has.
LEMMA LengthsRead ==
    ASSUME UnitsDistinct, OnceInv, AnswersReadable, sc.ids, ~sc.binary,
           NEW r \in DOMAIN sc.body, NEW kind
    PROVE  /\ AnswerLength(r, kind) \in Nat /\ AnswerLength(r, kind) <= MaxContentLength
           /\ sc.http => LinesRead(AnswerLength(r, kind))
           /\ ~sc.mixed
<1>1. sc \in Scenario
  BY DEF OnceInv
<1>2. /\ ~sc.mixed /\ sc.body[r] <= MaxContentLength
      /\ sc.http => LinesRead(0) /\ LinesRead(sc.body[r])
  BY <1>1 DEF AnswersReadable
<1>3. AnswerLength(r, kind) \in Nat
  BY AnswerIsSequence
<1>4. AnswerLength(r, kind) = 0 \/ AnswerLength(r, kind) = sc.body[r]
  BY DEF AnswerLength
<1>5. MaxContentLength \in Nat
  BY ClientAssumption
<1>6. AnswerLength(r, kind) <= MaxContentLength
  BY <1>2, <1>3, <1>4, <1>5
<1>7. sc.http => LinesRead(AnswerLength(r, kind))
  BY <1>2, <1>4, Zenon
<1> QED
  BY <1>2, <1>3, <1>6, <1>7

\* HttpClient::ProcessHeader.
LEMMA HttpAnswerProcessed ==
    ASSUME UnitsDistinct, OnceInv, AnswersReadable, sc.ids, ~sc.binary, sc.http,
           NEW k, IsClient(k), IsSequence(k.buffer), ~k.comma,
           NEW o, o.id \in DOMAIN sc.body, NEW data, IsSequence(data),
           NEW list, IsSequence(Owed(Later(o, list))), AtHeader(k, o, data, list)
    PROVE  Processed(ProcessHeader(k, FALSE), o, data, list)
<1> DEFINE L == AnswerLength(o.id, o.kind)
           close == o.id \in sc.close
           B == BodyOf(1, o.id, L)
           R == Owed(Later(o, list))
           H == AnswerHeader(close, L)
           g == ProcessHeaderData(k.http, k.buffer, FALSE)
           p == ProcessHeader(k, FALSE)
<1>1. L \in Nat /\ L <= MaxContentLength /\ LinesRead(L) /\ close \in BOOLEAN
  BY LengthsRead
<1>2. IsSequence(B) /\ IsSequence(R) /\ IsSequence(H)
  <2>1. IsSequence(B)
    BY <1>1, BodyUnits
  <2>2. IsSequence(H)
    BY <1>1, AnswerHeaderUnits
  <2> QED
    BY <2>1, <2>2
<1>3. Answer(1, o.id, o.kind) = Join(H, B)
  BY AnswerOverHttp
<1>4. /\ k.response = "none" /\ HeaderSoFar(k.http, k.buffer)
      /\ Join(k.buffer, data) = Join(Lead(k), Join(Join(H, B), R))
  BY <1>3 DEF AtHeader
<1>5. p = HttpProcessHeader(k, FALSE) /\ g = ProcessHeaderData(k.http, k.buffer, FALSE)
  BY DEF ProcessHeader
<1>6. MaxContentLength \in Nat
  BY ClientAssumption
<1>7. o.kind = "notify" => sc.http
  OBVIOUS
<1> HIDE DEF H, g, p, close
<1>8. IsSequence(Join(B, R)) /\ IsSequence(Join(H, B)) /\ IsSequence(Join(Join(H, B), R))
  <2>1. IsSequence(Join(B, R)) /\ IsSequence(Join(H, B))
    BY <1>2, JoinElements
  <2> QED
    BY <1>2, <2>1, JoinElements
<1>9. Join(k.buffer, data) = Join(H, Join(B, R))
  <2>1. Join(Lead(k), Join(Join(H, B), R)) = Join(Join(H, B), R)
    BY <1>8, JoinEmpty DEF Lead
  <2>2. Join(Join(H, B), R) = Join(H, Join(B, R))
    BY <1>2, JoinAssociative
  <2> QED
    BY <1>4, <2>1, <2>2
<1>10. \/ g.result = "INCOMPLETE" /\ HeaderSoFar(g, k.buffer)
       \/ ReadsHeader(g, k.buffer, data, L, Join(B, R))
  <2>1. StartsAnswer(k.buffer, data, close, L, Join(B, R))
    BY <1>1, <1>8, <1>9 DEF StartsAnswer, H
  <2> HIDE DEF L, B, R
  <2> QED
    BY <1>4, <1>5, <2>1, AnswerInPieces
<1>11. CASE g.result = "INCOMPLETE" /\ HeaderSoFar(g, k.buffer)
  <2>1. p = [k |-> [k EXCEPT !.http = g], result |-> "INCOMPLETE"]
    BY <1>5, <1>11 DEF HttpProcessHeader
  <2>2. /\ p.result = "INCOMPLETE" /\ p.k.http = g /\ p.k.buffer = k.buffer
        /\ p.k.response = k.response /\ p.k.comma = k.comma
    BY <2>1 DEF IsClient, Fields
  <2>3. Lead(p.k) = Lead(k)
    BY <2>2 DEF Lead
  <2>4. Join(p.k.buffer, data) = Join(Lead(p.k), Join(Answer(1, o.id, o.kind), R))
    BY <1>3, <1>4, <2>2, <2>3
  <2>5. AtHeader(p.k, o, data, list)
    BY <1>4, <1>7, <1>11, <2>2, <2>4, Zenon DEF AtHeader, R
  <2> QED
    BY <2>2, <2>5 DEF Processed, p
<1>12. CASE ReadsHeader(g, k.buffer, data, L, Join(B, R))
  <2> DEFINE j == PrepareResponse([k EXCEPT !.http = g], g.startIndex, StatedLength(g))
  <2>1. /\ g.result = "COMPLETE" /\ g.word = "200" /\ StatedLength(g) = L
        /\ Join(After(k.buffer, g.startIndex), data) = Join(B, R)
    BY <1>1, <1>12 DEF ReadsHeader, StatedLength
  <2>2. p = [k |-> j, result |-> "COMPLETE"]
    <3>1. ~(StatedLength(g) > MaxContentLength)
      BY <1>1, <1>6, <2>1
    <3> QED
      BY <1>5, <2>1, <3>1 DEF HttpProcessHeader
  <2>3. /\ j.response # "none" /\ j.comma = k.comma /\ j.contentLength = L
        /\ j.body = After(k.buffer, g.startIndex)
    BY <2>1 DEF PrepareResponse, IsClient, Fields, After
  <2> HIDE DEF j
  <2>4. p.result = "COMPLETE" /\ p.k = j
    BY <2>2
  <2>5. Join(Lead(j), R) = R
    BY <1>2, <2>3, JoinEmpty DEF Lead
  <2>6. AtBody(j, o, data, list)
    <3>1. j.comma <=> ~sc.http
      BY <2>3, Zenon
    <3>2. Join(j.body, data) = Join(BodyOf(1, o.id, j.contentLength), Join(Lead(j), R))
      BY <2>1, <2>3, <2>5
    <3> QED
      BY <1>7, <2>3, <3>1, <3>2 DEF AtBody
  <2> QED
    BY <2>3, <2>4, <2>6 DEF Processed, p
<1> QED
  BY <1>10, <1>11, <1>12

\* TcpClient::ProcessHeader.
LEMMA TcpAnswerProcessed ==
    ASSUME UnitsDistinct, OnceInv, AnswersReadable, sc.ids, ~sc.binary, ~sc.http,
           NEW k, IsClient(k), IsSequence(k.buffer),
           NEW o, o.id \in DOMAIN sc.body, NEW data, IsSequence(data),
           NEW list, IsSequence(Owed(Later(o, list))), AtHeader(k, o, data, list)
    PROVE  Processed(ProcessHeader(k, FALSE), o, data, list)
<1> DEFINE L == AnswerLength(o.id, o.kind)
           B == BodyOf(1, o.id, L)
           R == Owed(Later(o, list))
           M == Single(Comma)
           lead == Lead(k)
           colon == ColonAt(k.buffer)
           p == ProcessHeader(k, FALSE)
<1>1. o.kind # "notify"
  BY DEF AtHeader
<1>2. L \in 1 .. 99 /\ L <= MaxContentLength /\ MaxContentLength \in Nat
  <2>1. L = sc.body[o.id] /\ sc.body[o.id] \in 1 .. 99
    BY <1>1, AnswerIsSequence DEF BodyNumbers
  <2> QED
    BY <2>1, LengthsRead, ClientAssumption
<1>3. IsSequence(B) /\ IsSequence(R) /\ IsSequence(M) /\ IsSequence(lead) /\ IsLead(lead)
  <2>1. L \in Nat
    BY <1>2
  <2> HIDE DEF L
  <2>2. IsSequence(B)
    BY <2>1, BodyUnits
  <2>3. IsSequence(M)
    BY SingleElement
  <2>4. IsSequence(lead) /\ IsLead(lead)
    BY LeadIsLead
  <2> QED
    BY <2>2, <2>3, <2>4
<1>4. Answer(1, o.id, o.kind) = Join(Join(Join(Decimal(L), Single(Colon)), B), M)
  <2>1. L # 0
    BY <1>2
  <2> QED
    BY <2>1, AnswerOverTcp
<1>5. /\ k.response = "none"
      /\ Join(k.buffer, data)
            = Join(lead, Join(Join(Join(Join(Decimal(L), Single(Colon)), B), M), R))
  BY <1>4 DEF AtHeader
<1>6. Join(k.buffer, data) = Join(Preface(lead, L), Join(B, Join(M, R)))
  <2> HIDE DEF B, R, lead, L
  <2>1. Join(lead, Join(Join(Join(Join(Decimal(L), Single(Colon)), B), Single(Comma)), R))
           = Join(Preface(lead, L), Join(B, Join(Single(Comma), R)))
    <3>1. L \in 1 .. 99 /\ IsSequence(lead) /\ IsSequence(B) /\ IsSequence(R)
      BY <1>2, <1>3
    <3> QED
      BY <3>1, NetstringParts
  <2> QED
    BY <1>5, <2>1
<1>7. p = TcpProcessHeader(k, FALSE)
  BY DEF ProcessHeader
<1>8. IsSequence(Join(B, Join(M, R)))
  <2>1. IsSequence(Join(M, R))
    BY <1>3, JoinElements
  <2> QED
    BY <1>3, <2>1, JoinElements
<1> HIDE DEF p, colon
<1>9. CASE colon = 0
  <2>1. p = [k |-> k, result |-> "INCOMPLETE"]
    BY <1>7, <1>9 DEF TcpProcessHeader, colon
  <2>2. p.result = "INCOMPLETE" /\ p.k = k
    BY <2>1
  <2> QED
    BY <2>2, Zenon DEF Processed, p
<1>10. CASE colon # 0
  <2>1. ReadsPreface(k.buffer, data, lead, L, Join(B, Join(M, R)))
    <3>1. StartsNetstring(k.buffer, data, lead, L, Join(B, Join(M, R)))
      BY <1>2, <1>3, <1>6, <1>8 DEF StartsNetstring
    <3> HIDE DEF L, B, R, M, lead
    <3> QED
      BY <1>10, <3>1, PrefaceParsed DEF colon
  <2>2. /\ colon \in 1 .. Len(k.buffer)
        /\ \A i \in 1 .. Len(lead) : k.buffer[i] = Comma
        /\ Atoi(SubSeq(k.buffer, Len(lead) + 1, colon)) = L
        /\ Join(After(k.buffer, colon), data) = Join(B, Join(M, R))
    BY <2>1 DEF ReadsPreface, colon
  <2>3. k.comma => lead = M /\ Len(lead) = 1
    BY SingleElement DEF Lead
  <2>4. ~k.comma => lead = <<>> /\ Len(lead) = 0
    BY EmptyIsSequence DEF Lead
  <2> HIDE DEF L, B, R, M, lead
  <2>5. ~CommaMissing(k)
    <3>1. CASE k.comma
      <4>1. 1 \in 1 .. Len(lead)
        BY <2>3, <3>1
      <4> QED
        BY <2>2, <4>1 DEF CommaMissing
    <3>2. CASE ~k.comma
      BY <3>2 DEF CommaMissing
    <3> QED
      BY <3>1, <3>2
  <2>6. Atoi(SubSeq(k.buffer, IF k.comma THEN 2 ELSE 1, colon)) = L
    <3>1. CASE k.comma
      <4>1. Len(lead) = 1
        BY <2>3, <3>1
      <4>2. Len(lead) + 1 = 2
        BY <4>1
      <4> QED
        BY <2>2, <3>1, <4>2
    <3>2. CASE ~k.comma
      <4>1. Len(lead) + 1 = 1
        BY <2>4, <3>2
      <4> QED
        BY <2>2, <3>2, <4>1
    <3> QED
      BY <3>1, <3>2
  <2> DEFINE j == [PrepareResponse(k, colon, L) EXCEPT !.comma = TRUE]
  <2>7. p = [k |-> j, result |-> "COMPLETE"]
    <3>1. L # 0 /\ ~(L > MaxContentLength)
      BY <1>2
    <3>2. LET length == Atoi(SubSeq(k.buffer, IF k.comma THEN 2 ELSE 1, ColonAt(k.buffer)))
          IN  length = L
      BY <2>6 DEF colon
    <3> QED
      BY <1>7, <1>10, <2>5, <3>1, <3>2 DEF TcpProcessHeader, colon
  <2>8. /\ j.response # "none" /\ j.comma = TRUE /\ j.contentLength = L
        /\ j.body = After(k.buffer, colon)
    BY DEF PrepareResponse, IsClient, Fields, After
  <2> HIDE DEF j
  <2>9. Lead(j) = M
    BY <2>8 DEF Lead, M
  <2>10. AtBody(j, o, data, list)
    <3>1. j.contentLength = AnswerLength(o.id, o.kind)
      BY <2>8 DEF L
    <3>2. Join(j.body, data) = Join(BodyOf(1, o.id, j.contentLength), Join(Lead(j), Owed(Later(o, list))))
      BY <2>2, <2>8, <2>9 DEF B, R
    <3> QED
      BY <1>1, <2>8, <3>1, <3>2 DEF AtBody
  <2>11. p.result = "COMPLETE" /\ p.k = j
    BY <2>7
  <2> QED
    BY <2>10, <2>11, Zenon DEF Processed, p
<1> QED
  BY <1>9, <1>10

\* In either case what has been received is read for what it is.
LEMMA AnswerProcessed ==
    ASSUME UnitsDistinct, OnceInv, AnswersReadable, sc.ids, ~sc.binary,
           NEW k, IsClient(k), IsSequence(k.buffer), sc.http => ~k.comma,
           NEW o, o.id \in DOMAIN sc.body, NEW data, IsSequence(data),
           NEW list, IsSequence(Owed(Later(o, list))), AtHeader(k, o, data, list)
    PROVE  Processed(ProcessHeader(k, FALSE), o, data, list)
BY HttpAnswerProcessed, TcpAnswerProcessed

\* The body goes on where it was.
LEMMA ReceivedBody ==
    ASSUME NEW k, IsSequence(k.body), NEW o, NEW list,
           NEW sent, IsSequence(sent), NEW asked, IsSequence(Joined(Answers, asked)),
           AtBody(k, o, Coming(sent, asked), list), NEW n \in 0 .. Len(sent)
    PROVE  LET body == Join(k.body, First(sent, n))
               rest == After(sent, n)
           IN  /\ IsSequence(body) /\ IsSequence(Coming(rest, asked))
               /\ Len(body) = Len(k.body) + n /\ Len(k.body) \in Nat
               /\ Join(body, Coming(rest, asked))
                     = Join(BodyOf(1, o.id, k.contentLength), Join(Lead(k), Owed(Later(o, list))))
<1> DEFINE a == First(sent, n)
           d == Joined(Answers, asked)
           body == Join(k.body, a)
           rest == After(sent, n)
<1>1. sent = Join(a, rest) /\ IsSequence(a) /\ Len(a) = n /\ IsSequence(rest) /\ IsSequence(d)
  BY CutInTwo
<1>2. body = Join(k.body, a)
  OBVIOUS
<1>3. Coming(sent, asked) = Join(sent, d) /\ Coming(rest, asked) = Join(rest, d)
  BY DEF Coming
<1> HIDE DEF a, d, rest, body
<1>4. /\ IsSequence(Join(rest, d)) /\ IsSequence(Join(k.body, a))
      /\ Len(Join(k.body, a)) = Len(k.body) + Len(a) /\ Len(k.body) \in Nat
  <2>1. IsSequence(Join(rest, d))
    BY <1>1, JoinElements
  <2>2. /\ IsSequence(Join(k.body, a)) /\ Len(k.body) \in Nat
        /\ Len(Join(k.body, a)) = Len(k.body) + Len(a)
    BY <1>1, JoinElements
  <2> QED
    BY <2>1, <2>2
<1>5. Join(body, Join(rest, d)) = Join(k.body, Join(sent, d))
  <2>1. Join(Join(k.body, a), Join(rest, d)) = Join(k.body, Join(a, Join(rest, d)))
    BY <1>1, <1>4, JoinAssociative
  <2>2. Join(Join(a, rest), d) = Join(a, Join(rest, d))
    BY <1>1, JoinAssociative
  <2> QED
    BY <1>1, <1>2, <2>1, <2>2
<1>6. Join(k.body, Join(sent, d))
         = Join(BodyOf(1, o.id, k.contentLength), Join(Lead(k), Owed(Later(o, list))))
  BY <1>3 DEF AtBody
<1> QED
  BY <1>1, <1>2, <1>3, <1>4, <1>5, <1>6 DEF a, rest, body

\* When it is complete its first unit tells whose answer it is, and what is behind it is
\* outstanding.
LEMMA CompleteBody ==
    ASSUME NEW k, NEW length \in Nat, k.contentLength = length, k.response # "none",
           NEW r, NEW body, IsSequence(body), k.body = body, length <= Len(body),
           NEW data, IsSequence(data), NEW list, IsSequence(Owed(list)),
           k.response = "heap" => Len(body) <= length,
           Join(body, data) = Join(BodyOf(1, r, length), Join(Lead(k), Owed(list)))
    PROVE  /\ Outstanding(k, data, list)
           /\ length # 0 => body # <<>> /\ body[1] = Unit(1, r, 1)
<1> DEFINE B == BodyOf(1, r, length)
           Z == Join(Lead(k), Owed(list))
<1>1. IsSequence(B) /\ Len(B) = length /\ \A i \in 1 .. length : B[i] = Unit(1, r, i)
  BY BodyUnits
<1>2. IsSequence(Z)
  <2>1. IsSequence(Lead(k))
    BY LeadIsLead
  <2> QED
    BY <2>1, JoinElements
<1>3. Len(body) \in Nat
  BY JoinElements
<1> HIDE DEF B, Z
<1>4. First(body, length) = B /\ Join(After(body, length), data) = Z
  <2>1. Len(B) <= Len(body) /\ Join(body, data) = Join(B, Z)
    BY <1>1 DEF B, Z
  <2>2. First(body, Len(B)) = B /\ Join(After(body, Len(B)), data) = Z
    BY <1>1, <1>2, <2>1, CutAgain
  <2> QED
    BY <1>1, <2>2
<1>5. PreserveReceiveBuffer(k).buffer = After(body, length)
  <2>1. CASE k.response = "heap"
    <3>1. Len(body) = length /\ length \in 0 .. Len(body)
      BY <1>3, <2>1
    <3>2. IsSequence(After(body, length)) /\ Len(After(body, length)) = Len(body) - length
      BY <3>1, CutInTwo
    <3>3. Len(After(body, length)) = 0
      BY <1>3, <3>1, <3>2
    <3>4. After(body, length) = <<>>
      BY <3>2, <3>3, EmptySeq DEF IsSequence
    <3> QED
      BY <2>1, <3>4 DEF PreserveReceiveBuffer
  <2>2. CASE k.response # "heap"
    BY <2>2 DEF PreserveReceiveBuffer, After
  <2> QED
    BY <2>1, <2>2
<1>6. Outstanding(k, data, list)
  BY <1>4, <1>5 DEF Outstanding, Z
<1>7. length # 0 => body # <<>> /\ body[1] = Unit(1, r, 1)
  <2> SUFFICES ASSUME length # 0 PROVE body # <<>> /\ body[1] = Unit(1, r, 1)
    OBVIOUS
  <2>1. 1 \in 1 .. length /\ length \in 0 .. Len(body) /\ Len(body) # 0
    BY <1>3
  <2>2. First(body, length)[1] = body[1]
    BY <2>1, CutInTwo
  <2>3. B[1] = Unit(1, r, 1)
    BY <1>1, <2>1
  <2> QED
    BY <1>4, <2>1, <2>2, <2>3, EmptyIsSequence
<1> QED
  BY <1>6, <1>7

\* A unit tells its request.
LEMMA RequestOfUnit == ASSUME NEW r \in RequestNumbers PROVE RequestOf(Unit(1, r, 1)) = r
<1>1. r \in 1 .. 90
  BY DEF RequestNumbers
<1>2. Unit(1, r, 1) = 1000 + (10 * r + 1)
  BY <1>1 DEF Unit
<1>3. (1000 + (10 * r + 1)) % 1000 = 10 * r + 1
  BY <1>1
<1>4. (10 * r + 1) \div 10 = r
  BY <1>1
<1> QED
  BY <1>2, <1>3, <1>4 DEF RequestOf

\* Nothing has been made yet.
LEMMA InitStream == Init => StreamInv
<1> SUFFICES ASSUME Init PROVE StreamInv
  OBVIOUS
<1>1. conns = 0 /\ posted = <<>> /\ pc = "idle"
  BY DEF Init
<1>2. ~OnFirst
  <2>1. conns # 1
    BY <1>1
  <2> QED
    BY <2>1 DEF OnFirst
<1>3. posted \in Seq(DOMAIN sc.body)
  BY <1>1
<1> QED
  BY <1>1, <1>2, <1>3 DEF StreamInv

\* What a step does to the connection, and to what is expected.
PlacesKept ==
    /\ conns' = 0 => posted' = <<>> /\ pc' = "idle"
    /\ pc' # "idle" => conn' # 0 /\ op'.id \in DOMAIN sc.body
    /\ posted' \in Seq(DOMAIN sc.body)

LEMMA NextPlaces ==
    ASSUME UnitsDistinct, OnceInv, SequenceInv, MemoryInv, StreamInv, [Next]_vars
    PROVE  PlacesKept
<1>1. /\ conns \in Nat /\ conn \in {0, conns} /\ posted \in Seq(DOMAIN sc.body)
      /\ conns = 0 => posted = <<>> /\ pc = "idle"
      /\ pc # "idle" => conn # 0 /\ op.id \in DOMAIN sc.body
  BY DEF MemoryInv, StreamInv
<1>2. <<>> \in Seq(DOMAIN sc.body)
  OBVIOUS
<1>3. conn # 0 => conns # 0
  BY <1>1
<1>4. ASSUME UNCHANGED <<pc, op, conn, conns, posted>> PROVE PlacesKept
  BY <1>1, <1>4, Zenon DEF PlacesKept
<1>5. CASE Fail
  BY <1>2, <1>5 DEF Fail, PlacesKept
<1>6. ASSUME NEW kind, Begin(kind), ~Fail PROVE PlacesKept
  <2>1. op' = [kind |-> kind, id |-> ops + 1] /\ ops < Len(sc.body) /\ posted' = posted
    BY <1>6 DEF Begin
  <2>2. conn' # 0 /\ conns' # 0
    <3>1. \/ conn # 0 /\ UNCHANGED netVars
          \/ conns' = conns + 1 /\ conn' = conns + 1
      BY <1>6 DEF Begin, Reconnect
    <3> QED
      BY <1>1, <1>3, <3>1 DEF netVars
  <2>3. ops + 1 \in DOMAIN sc.body
    <3>1. sc.body \in Seq(BodyNumbers)
      BY Zenon DEF OnceInv, UnitsDistinct
    <3>2. ops \in Nat /\ Len(sc.body) \in Nat /\ DOMAIN sc.body = 1 .. Len(sc.body)
      BY <3>1, LenProperties DEF OnceInv
    <3> QED
      BY <2>1, <3>2
  <2>4. op'.id = ops + 1
    BY <2>1
  <2> QED
    BY <1>1, <2>1, <2>2, <2>3, <2>4, Zenon DEF PlacesKept
<1>7. ASSUME GetPostResult, ~Fail PROVE PlacesKept
  <2>1. /\ posted # <<>> /\ op' = [kind |-> "get", id |-> Head(posted)] /\ conn # 0
        /\ conn' = conn /\ conns' = conns /\ posted' = posted
    BY <1>7 DEF GetPostResult, netVars
  <2>2. Head(posted) \in DOMAIN sc.body /\ op'.id = Head(posted)
    <3>1. Head(posted) \in DOMAIN sc.body
      BY <1>1, <2>1, HeadTailProperties
    <3> QED
      BY <2>1, <3>1
  <2> QED
    BY <1>1, <1>3, <2>1, <2>2, Zenon DEF PlacesKept
<1>8. ASSUME SetServer PROVE PlacesKept
  BY <1>1, <1>8 DEF SetServer, Disconnect, PlacesKept
<1>9. ASSUME WriteRequest PROVE PlacesKept
  <2>1. /\ pc = "write" /\ UNCHANGED <<op, conn, conns>>
        /\ posted' \in {posted, Append(posted, op.id)}
    BY <1>9 DEF WriteRequest
  <2>2. op.id \in DOMAIN sc.body /\ conn # 0
    BY <1>1, <2>1
  <2>3. posted' \in Seq(DOMAIN sc.body)
    BY <1>1, <2>1, <2>2, AppendProperties
  <2> QED
    BY <1>3, <2>1, <2>2, <2>3 DEF PlacesKept
<1>10. ASSUME WriteFails, ~Fail PROVE PlacesKept
  <2>1. pc = "write" /\ UNCHANGED <<op, posted>> /\ conns' = conns + 1 /\ conn' = conns + 1
    BY <1>10 DEF WriteFails, Reconnect
  <2>2. conn' # 0 /\ conns' # 0
    BY <1>1, <2>1
  <2> QED
    BY <1>1, <2>1, <2>2, Zenon DEF PlacesKept
<1>11. ASSUME ReadHeader, ~Fail PROVE PlacesKept
  <2>1. pc = "header" /\ UNCHANGED <<op, conn, conns, posted>>
    BY <1>11 DEF ReadHeader
  <2> QED
    BY <1>1, <1>3, <2>1, Zenon DEF PlacesKept
<1>12. ASSUME ReadResponse, ~Fail PROVE PlacesKept
  <2>1. /\ pc = "body" /\ pc' = "idle" /\ conns' = conns
        /\ posted' = posted \/ (op.kind = "get" /\ posted' = Tail(posted))
    <3>1. pc = "body" /\ \E body, rest : Finish(body, rest)
      BY <1>12 DEF ReadResponse
    <3>2. PICK body, rest : Finish(body, rest)
      BY <3>1
    <3>3. pc' = "idle" /\ conns' = conns
      BY <1>12, <3>2 DEF Finish, CloseIfAsked, Disconnect
    <3>4. posted' = posted \/ (op.kind = "get" /\ posted' = Tail(posted))
      BY <1>12, <3>2 DEF Finish
    <3> QED
      BY <3>1, <3>3, <3>4
  <2>2. posted' \in Seq(DOMAIN sc.body)
    <3>1. op.kind = "get" => posted # <<>>
      BY <2>1 DEF SequenceInv
    <3> QED
      BY <1>1, <2>1, <3>1, HeadTailProperties
  <2>3. conns' # 0
    BY <1>1, <1>3, <2>1
  <2> QED
    BY <2>1, <2>2, <2>3 DEF PlacesKept
<1>13. CASE Respond \/ ServerCloses \/ ServerStalls \/ TimeIsUp \/ UNCHANGED vars
  <2>1. UNCHANGED <<pc, op, conn, conns, posted>>
    BY <1>13 DEF Respond, ServerCloses, ServerStalls, TimeIsUp, netVars, vars
  <2> QED
    BY <1>4, <2>1
<1> QED
  BY <1>5, <1>6, <1>7, <1>8, <1>9, <1>10, <1>11, <1>12, <1>13 DEF Next, Operation, Step

\* A call begins where the response before it ends.
LEMMA PreparationIsFresh ==
    ASSUME NEW k, IsClient(k),
           NEW j, j = ResetTransaction(PreserveReceiveBuffer(k))
    PROVE  /\ Fresh(j) /\ IsClient(j) /\ j.comma = k.comma
           /\ j.buffer = PreserveReceiveBuffer(k).buffer
<1>1. /\ IsClient(PreserveReceiveBuffer(k)) /\ PreserveReceiveBuffer(k).comma = k.comma
  BY DEF PreserveReceiveBuffer, IsClient, Fields
<1>2. /\ j.response = "none" /\ j.http = InitialHeader("response")
      /\ j.buffer = PreserveReceiveBuffer(k).buffer /\ j.comma = PreserveReceiveBuffer(k).comma
  BY <1>1 DEF ResetTransaction, IsClient, Fields
<1>3. IsClient(j)
  BY <1>1 DEF ResetTransaction, IsClient, Fields
<1> QED
  BY <1>1, <1>2, <1>3 DEF Fresh

\* What is in the buffer is all that is left when no response has begun.
LEMMA BufferIsUnread ==
    ASSUME NEW k, k.response = "none" PROVE PreserveReceiveBuffer(k).buffer = k.buffer
BY DEF PreserveReceiveBuffer

\* Nothing has been read of a header that is to be read from the start.
LEMMA NothingRead ==
    ASSUME NEW data, IsSequence(data) PROVE HeaderSoFar(InitialHeader("response"), data)
<1> DEFINE start == InitialHeader("response")
           front == First(data, 0)
<1>1. IsHeader(start) /\ start.startIndex = 0
  <2>1. start.startIndex = 0
    BY DEF InitialHeader
  <2> QED
    BY <2>1, InitialIsHeader
<1>2. 0 \in 0 .. Len(data) /\ IsSequence(front) /\ Len(front) = 0
  <2>1. Len(data) \in Nat
    BY JoinElements
  <2>2. 0 \in 0 .. Len(data)
    BY <2>1
  <2> QED
    BY <2>2, CutInTwo
<1> HIDE DEF start, front
<1>3. ProcessHeaderData(start, front, FALSE) = start
  <2>1. start.startIndex <= Len(front)
    BY <1>1, <1>2
  <2>2. PICK st : HeaderRun(start, front, st) /\ ProcessHeaderData(start, front, FALSE) = st[Len(front)]
    BY <1>1, <1>2, <2>1, HeaderLastState
  <2>3. st[0] = start
    BY <1>1, <2>2 DEF HeaderRun
  <2> QED
    BY <1>2, <2>2, <2>3
<1> QED
  BY <1>1, <1>2, <1>3 DEF HeaderSoFar, start, front

\* Call, Post and Notify.
LEMMA BeginStream ==
    ASSUME UnitsDistinct, AnswersReadable, OnceInv, SequenceInv, MemoryInv, StreamInv,
           NEW kind, Begin(kind), OnFirst'
    PROVE  InStream(c', pc', op', Coming(input', pending'), posted')
<1> DEFINE fresh == ResetTransaction(PreserveReceiveBuffer(c))
<1>1. sc.ids' /\ ~sc.binary' /\ conns' = 1 /\ conn' = 1 /\ ~gone'
  BY DEF OnFirst
<1>2. ~Fail
  BY <1>1 DEF Fail, Disconnect
<1>3. /\ pc = "idle" /\ pc' = "write" /\ sc' = sc /\ posted' = posted
      /\ \/ conn # 0 /\ c' = [fresh EXCEPT !.ids = Append(@, ops + 1)] /\ UNCHANGED netVars
         \/ /\ c' = [CloseForConnect(fresh) EXCEPT !.ids = Append(@, ops + 1)]
            /\ Reconnect
  BY <1>2 DEF Begin
<1>4. IsClient(c) /\ conns \in Nat
  BY DEF SequenceInv, MemoryInv
<1>5. /\ Fresh(fresh) /\ IsClient(fresh) /\ fresh.comma = c.comma
      /\ fresh.buffer = PreserveReceiveBuffer(c).buffer
  BY <1>4, PreparationIsFresh
<1> HIDE DEF fresh
<1>6. SUFFICES (sc.http => ~c'.comma) /\ AtWrite(c', Coming(input', pending'), posted)
  BY <1>3, Zenon DEF InStream
<1>7. CASE c' = [fresh EXCEPT !.ids = Append(@, ops + 1)] /\ UNCHANGED netVars
  <2>1. OnFirst
    BY <1>1, <1>3, <1>7 DEF OnFirst, netVars
  <2>2. AtIdle(c, Coming(input, pending), posted) /\ (sc.http => ~c.comma)
    BY <1>3, <2>1 DEF StreamInv, InStream
  <2>3. /\ Fresh(c') /\ c'.comma = c.comma /\ c'.response = "none"
        /\ c'.buffer = PreserveReceiveBuffer(c).buffer
    BY <1>5, <1>7 DEF Fresh, IsClient, Fields
  <2>4. PreserveReceiveBuffer(c').buffer = PreserveReceiveBuffer(c).buffer
    BY <2>3, BufferIsUnread
  <2>5. input' = input /\ pending' = pending
    BY <1>7 DEF netVars
  <2>6. Lead(c') = Lead(c)
    BY <2>3 DEF Lead
  <2>7. Outstanding(c, Coming(input, pending), posted)
    BY <2>2 DEF AtIdle
  <2>8. Outstanding(c', Coming(input', pending'), posted)
    BY <2>4, <2>5, <2>6, <2>7 DEF Outstanding
  <2> QED
    BY <2>2, <2>3, <2>8, Zenon DEF AtWrite
<1>8. CASE c' = [CloseForConnect(fresh) EXCEPT !.ids = Append(@, ops + 1)] /\ Reconnect
  <2>1. conns = 0 /\ input' = <<>> /\ pending' = <<>>
    BY <1>1, <1>4, <1>8 DEF Reconnect
  <2>2. posted = <<>>
    BY <2>1 DEF StreamInv
  <2>3. Fresh(c') /\ ~c'.comma /\ c'.buffer = <<>> /\ c'.response = "none"
    BY <1>5, <1>8 DEF Fresh, CloseForConnect, IsClient, Fields
  <2>4. Coming(input', pending') = <<>> /\ Owed(posted) = <<>>
    <3>1. Joined(Answers, <<>>) = <<>> /\ Owed(<<>>) = <<>>
      BY AnswerLists
    <3> QED
      BY <2>1, <2>2, <3>1, EmptyIsSequence, JoinEmpty DEF Coming
  <2>5. Lead(c') = <<>> /\ PreserveReceiveBuffer(c').buffer = <<>>
    BY <2>3, BufferIsUnread DEF Lead
  <2>6. Outstanding(c', Coming(input', pending'), posted)
    BY <2>4, <2>5 DEF Outstanding
  <2> QED
    BY <2>3, <2>6, Zenon DEF AtWrite
<1> QED
  BY <1>3, <1>7, <1>8

\* The answer to a post, which GetPostResult is to get.
LEMMA PostIsAnswered ==
    ASSUME NEW r \in DOMAIN sc.body
    PROVE  PostAnswers[r] = Answer(1, r, "post") /\ Answer(1, r, "get") = Answer(1, r, "post")
BY DEF PostAnswers, Answer

\* GetPostResult.
LEMMA GetStream ==
    ASSUME UnitsDistinct, AnswersReadable, OnceInv, SequenceInv, MemoryInv, StreamInv,
           GetPostResult, OnFirst'
    PROVE  InStream(c', pc', op', Coming(input', pending'), posted')
<1> DEFINE fresh == ResetTransaction(PreserveReceiveBuffer(c))
           data == Coming(input, pending)
<1>1. conn' # 0
  BY DEF OnFirst
<1>2. ~Fail
  BY <1>1 DEF Fail, Disconnect
<1>3. /\ pc = "idle" /\ pc' = "header" /\ UNCHANGED <<sc, posted, netVars>> /\ posted # <<>>
      /\ op' = [kind |-> "get", id |-> Head(posted)]
      /\ c' = IF c.processed THEN fresh ELSE c
  BY <1>2 DEF GetPostResult
<1>4. OnFirst /\ input' = input /\ pending' = pending
  BY <1>3 DEF OnFirst, netVars
<1>5. AtIdle(c, data, posted) /\ (sc.http => ~c.comma)
  BY <1>3, <1>4 DEF StreamInv, InStream
<1>6. IsClient(c) /\ posted \in Seq(DOMAIN sc.body) /\ Head(posted) \in DOMAIN sc.body
  BY <1>3, HeadTailProperties DEF SequenceInv, StreamInv
<1>7. /\ Fresh(c') /\ IsClient(c') /\ c'.comma = c.comma
      /\ c'.buffer = PreserveReceiveBuffer(c).buffer
  <2>1. /\ Fresh(fresh) /\ IsClient(fresh) /\ fresh.comma = c.comma
        /\ fresh.buffer = PreserveReceiveBuffer(c).buffer
    BY <1>6, PreparationIsFresh
  <2>2. CASE c.processed
    BY <1>3, <2>1, <2>2
  <2>3. CASE ~c.processed
    <3>1. Fresh(c) /\ c' = c
      BY <1>3, <1>5, <2>3 DEF AtIdle
    <3>2. PreserveReceiveBuffer(c).buffer = c.buffer
      BY <3>1, BufferIsUnread DEF Fresh
    <3> QED
      BY <1>6, <3>1, <3>2
  <2> QED
    BY <2>2, <2>3
<1> HIDE DEF fresh, data
<1>8. Owed(posted) = Join(Answer(1, op'.id, op'.kind), Owed(Later(op', posted)))
  <2>1. op'.id = Head(posted) /\ op'.kind = "get"
    BY <1>3
  <2>2. \A r \in DOMAIN sc.body : IsSequence(PostAnswers[r])
    BY AnswerLists
  <2>3. Owed(posted) = Join(PostAnswers[Head(posted)], Owed(Tail(posted)))
    BY <1>3, <1>6, <2>2, JoinedFirst DEF Owed
  <2>4. PostAnswers[Head(posted)] = Answer(1, op'.id, op'.kind)
    BY <1>6, <2>1, PostIsAnswered
  <2>5. Later(op', posted) = Tail(posted)
    BY <2>1 DEF Later
  <2> QED
    BY <2>3, <2>4, <2>5
<1>9. Lead(c') = Lead(c)
  BY <1>7 DEF Lead
<1>10. Join(c'.buffer, data) = Join(Lead(c'), Join(Answer(1, op'.id, op'.kind), Owed(Later(op', posted))))
  BY <1>5, <1>7, <1>8, <1>9 DEF AtIdle, Outstanding
<1>11. HeaderSoFar(c'.http, c'.buffer)
  <2>1. PICK S : Holds(c, S)
    BY DEF MemoryInv
  <2>2. IsSequence(c'.buffer)
    <3>1. Holds(fresh, S)
      BY <2>1, PreparationHolds DEF fresh
    <3>2. IsSequence(c.buffer) /\ IsSequence(fresh.buffer)
      BY <2>1, <3>1 DEF Holds, IsSequence
    <3> QED
      BY <1>3, <3>2
  <2>3. c'.http = InitialHeader("response")
    BY <1>7 DEF Fresh
  <2> QED
    BY <2>2, <2>3, NothingRead
<1>12. op'.kind # "notify" /\ c'.response = "none"
  BY <1>3, <1>7 DEF Fresh
<1>13. AtHeader(c', op', data, posted)
  BY <1>10, <1>11, <1>12 DEF AtHeader
<1> QED
  BY <1>3, <1>4, <1>5, <1>7, <1>13, Zenon DEF InStream, data

\* The request reaches the server, and its answer is the last to come.
LEMMA WriteStream ==
    ASSUME UnitsDistinct, AnswersReadable, OnceInv, SequenceInv, MemoryInv, StreamInv,
           WriteRequest, OnFirst'
    PROVE  InStream(c', pc', op', Coming(input', pending'), posted')
<1> DEFINE A == Answer(1, op.id, op.kind)
           data == Coming(input, pending)
           data2 == Coming(input', pending')
           p == <<op.id, op.kind>>
<1>1. /\ pc = "write" /\ UNCHANGED <<sc, op, conn, conns, input, gone>>
  BY DEF WriteRequest
<1>2. OnFirst /\ ~gone
  BY <1>1 DEF OnFirst
<1>3. AtWrite(c, data, posted) /\ (sc.http => ~c.comma)
  BY <1>1, <1>2 DEF StreamInv, InStream
<1>4. /\ op.id \in DOMAIN sc.body /\ posted \in Seq(DOMAIN sc.body) /\ op.kind \in Kinds
      /\ p \in (DOMAIN sc.body) \X Kinds /\ pending \in Seq((DOMAIN sc.body) \X Kinds)
  BY <1>1 DEF StreamInv, SequenceInv, MemoryInv, Kinds
<1>5. ~sc.mixed /\ (op.kind # "post" => posted = <<>>)
  <2>1. ~sc.mixed
    BY <1>2, <1>4, LengthsRead DEF OnFirst
  <2> QED
    BY <1>1, <2>1 DEF SequenceInv
<1>6. /\ IsSequence(A) /\ IsSequence(input) /\ IsSequence(Joined(Answers, pending))
      /\ IsSequence(c.buffer) /\ IsSequence(Owed(posted)) /\ IsSequence(Lead(c))
      /\ Owed(<<>>) = <<>> /\ \A q \in (DOMAIN sc.body) \X Kinds : IsSequence(Answers[q])
  <2>1. IsSequence(input) /\ IsSequence(c.buffer)
    BY DEF MemoryInv, Holds, IsSequence
  <2>2. IsSequence(A)
    BY <1>4, AnswerIsSequence
  <2>3. /\ IsSequence(Joined(Answers, pending)) /\ IsSequence(Owed(posted)) /\ Owed(<<>>) = <<>>
        /\ \A q \in (DOMAIN sc.body) \X Kinds : IsSequence(Answers[q])
    BY <1>4, AnswerLists
  <2>4. IsSequence(Lead(c))
    BY LeadIsLead
  <2> QED
    BY <2>1, <2>2, <2>3, <2>4
<1>7. data2 = Join(data, A) /\ IsSequence(data)
  <2>1. pending' = Append(pending, p)
    BY <1>2 DEF WriteRequest
  <2>2. Answers[p] = A
    BY <1>4 DEF Answers
  <2>3. Joined(Answers, Append(pending, p)) = Join(Joined(Answers, pending), Answers[p])
    BY <1>4, <1>6, JoinedNext
  <2>4. Join(Join(input, Joined(Answers, pending)), A) = Join(input, Join(Joined(Answers, pending), A))
    BY <1>6, JoinAssociative
  <2>5. data = Join(input, Joined(Answers, pending)) /\ data2 = Join(input, Joined(Answers, pending'))
    BY <1>1 DEF Coming
  <2>6. IsSequence(data)
    BY <1>6, <2>5, JoinElements
  <2> QED
    BY <2>1, <2>2, <2>3, <2>4, <2>5, <2>6
<1>8. Fresh(c) /\ c.response = "none" /\ Join(c.buffer, data) = Join(Lead(c), Owed(posted))
  BY <1>3, BufferIsUnread DEF AtWrite, Fresh, Outstanding
<1> HIDE DEF A, data, data2, p
<1>9. Join(c.buffer, data2) = Join(Lead(c), Join(Owed(posted), A))
  <2>1. Join(Join(c.buffer, data), A) = Join(c.buffer, Join(data, A))
    BY <1>6, <1>7, JoinAssociative
  <2>2. Join(Join(Lead(c), Owed(posted)), A) = Join(Lead(c), Join(Owed(posted), A))
    BY <1>6, JoinAssociative
  <2> QED
    BY <1>7, <1>8, <2>1, <2>2
<1>10. CASE op.kind = "post"
  <2>1. pc' = "idle" /\ c' = c /\ posted' = Append(posted, op.id)
    BY <1>10 DEF WriteRequest
  <2>2. Owed(posted') = Join(Owed(posted), A)
    <3>1. \A r \in DOMAIN sc.body : IsSequence(PostAnswers[r])
      BY AnswerLists
    <3>2. Owed(Append(posted, op.id)) = Join(Owed(posted), PostAnswers[op.id])
      BY <1>4, <3>1, JoinedNext DEF Owed
    <3>3. PostAnswers[op.id] = A
      BY <1>4, <1>10, PostIsAnswered DEF A
    <3> QED
      BY <2>1, <3>2, <3>3
  <2>3. PreserveReceiveBuffer(c).buffer = c.buffer
    BY <1>8, BufferIsUnread
  <2>4. Outstanding(c, data2, posted')
    BY <1>9, <2>2, <2>3 DEF Outstanding
  <2>5. AtIdle(c, data2, posted')
    BY <1>8, <2>4 DEF AtIdle
  <2> QED
    BY <1>3, <2>1, <2>5, Zenon DEF InStream, data2
<1>11. CASE op.kind # "post" /\ pc' = "idle"
  <2>1. /\ op.kind = "notify" /\ ~NotifyHasResponse /\ posted' = posted
        /\ c' = [c EXCEPT !.ids = NotifyPops(@)]
    BY <1>11 DEF WriteRequest
  <2>2. ~sc.http /\ sc.ids
    BY <1>2, <2>1 DEF NotifyHasResponse, OnFirst
  <2>3. A = <<>>
    <3>1. AnswerLength(op.id, op.kind) = 0
      BY <2>1, <2>2 DEF AnswerLength
    <3> QED
      BY <2>2, <3>1, AnswerOverTcp DEF A
  <2>4. /\ Fresh(c') /\ c'.buffer = c.buffer /\ c'.comma = c.comma /\ c'.response = "none"
    BY <1>8, <2>1 DEF Fresh, SequenceInv, IsClient, Fields
  <2>5. Join(Owed(posted), A) = Owed(posted)
    BY <1>6, <2>3, JoinEmpty
  <2>6. Lead(c') = Lead(c) /\ PreserveReceiveBuffer(c').buffer = c.buffer
    BY <2>4, BufferIsUnread DEF Lead
  <2>7. Outstanding(c', data2, posted')
    BY <1>9, <2>1, <2>5, <2>6 DEF Outstanding
  <2>8. AtIdle(c', data2, posted')
    BY <2>4, <2>7 DEF AtIdle
  <2> QED
    BY <1>11, <2>2, <2>8, Zenon DEF InStream, data2
<1>12. CASE op.kind # "post" /\ pc' # "idle"
  <2>1. pc' = "header" /\ c' = c /\ posted' = posted /\ op' = op
    BY <1>1, <1>12 DEF WriteRequest
  <2>2. op.kind = "notify" => sc.http
    BY <1>2, <1>12 DEF WriteRequest, NotifyHasResponse, OnFirst
  <2>3. posted = <<>> /\ Later(op, posted) = <<>>
    BY <1>4, <1>5, <1>12 DEF Later, Kinds
  <2>4. Join(Owed(posted), A) = Join(A, Owed(Later(op, posted)))
    BY <1>6, <2>3, JoinEmpty
  <2>5. Join(c.buffer, data2) = Join(Lead(c), Join(A, Owed(Later(op, posted))))
    BY <1>9, <2>4
  <2>6. HeaderSoFar(c.http, c.buffer)
    BY <1>6, <1>8, NothingRead DEF Fresh
  <2>7. AtHeader(c, op, data2, posted)
    BY <1>8, <2>2, <2>5, <2>6 DEF AtHeader, A
  <2> QED
    BY <1>3, <2>1, <2>7, Zenon DEF InStream, data2
<1> QED
  BY <1>10, <1>11, <1>12

\* A call that goes on has connected before.
LEMMA WriteFailsStream ==
    ASSUME MemoryInv, StreamInv, WriteFails PROVE ~OnFirst'
<1>1. pc = "write" /\ conns \in Nat /\ conns # 0
  BY DEF WriteFails, MemoryInv, StreamInv
<1>2. conn' = 0 \/ conns' = conns + 1
  BY DEF WriteFails, Fail, Disconnect, Reconnect
<1>3. conn' = 0 \/ conns' # 1
  BY <1>1, <1>2
<1> QED
  BY <1>3 DEF OnFirst

\* What follows the current call's answer are posts' answers.
LEMMA LaterIsSequence ==
    ASSUME UnitsDistinct, OnceInv, SequenceInv, StreamInv, pc \in {"header", "body"}
    PROVE  /\ Later(op, posted) \in Seq(DOMAIN sc.body)
           /\ IsSequence(Owed(Later(op, posted)))
<1>1. posted \in Seq(DOMAIN sc.body) /\ (op.kind = "get" => posted # <<>>)
  BY DEF StreamInv, SequenceInv
<1>2. Later(op, posted) \in Seq(DOMAIN sc.body)
  <2>1. CASE op.kind = "get"
    BY <1>1, <2>1, HeadTailProperties DEF Later
  <2>2. CASE op.kind # "get"
    BY <2>2 DEF Later
  <2> QED
    BY <2>1, <2>2
<1> QED
  BY <1>2, AnswerLists

\* ReadHeader while the server is there: it goes on, or the header is that of the answer.
LEMMA ReadHeaderStream ==
    ASSUME UnitsDistinct, AnswersReadable, OnceInv, SequenceInv, MemoryInv, StreamInv,
           ReadHeader, OnFirst
    PROVE  /\ conn' # 0 => InStream(c', pc', op', Coming(input', pending'), posted')
           /\ conn' = 0 => late
<1>1. /\ pc = "header" /\ op' = op /\ ~gone /\ sc.ids /\ ~sc.binary
  BY DEF ReadHeader, OnFirst
<1>2. AtHeader(c, op, Coming(input, pending), posted) /\ (sc.http => ~c.comma)
  BY <1>1 DEF StreamInv, InStream
<1>3. /\ IsSequence(c.buffer) /\ IsSequence(input) /\ IsClient(c) /\ conn # 0
      /\ IsSequence(Joined(Answers, pending)) /\ op.id \in DOMAIN sc.body
      /\ IsSequence(Owed(Later(op, posted)))
  <2>1. IsSequence(c.buffer) /\ IsSequence(input)
    BY DEF MemoryInv, Holds, IsSequence
  <2>2. IsSequence(Joined(Answers, pending))
    BY AnswerLists DEF MemoryInv
  <2>3. IsClient(c) /\ op.id \in DOMAIN sc.body /\ conn # 0
    BY <1>1 DEF SequenceInv, StreamInv
  <2> QED
    BY <1>1, <2>1, <2>2, <2>3, LaterIsSequence
<1>4. PICK n \in 0 .. Len(input), eof \in BOOLEAN :
         LET got == [c EXCEPT !.buffer = @ \o SubSeq(input, 1, n)]
             header == ProcessHeader(got, eof)
             goesOn == header.result = "INCOMPLETE" /\ ~OutOfTime
         IN  /\ eof => gone
             /\ \/ /\ header.result = "COMPLETE" \/ goesOn
                   /\ c' = header.k /\ pc' = IF goesOn THEN "header" ELSE "body"
                   /\ input' = SubSeq(input, n + 1, Len(input))
                   /\ UNCHANGED <<pending, posted, conn>>
                \/ header.result # "COMPLETE" /\ ~goesOn /\ Fail
  BY Zenon DEF ReadHeader
<1>5. eof = FALSE
  BY <1>1, <1>4
<1> DEFINE got == [c EXCEPT !.buffer = @ \o SubSeq(input, 1, n)]
           rest == SubSeq(input, n + 1, Len(input))
           header == ProcessHeader(got, FALSE)
           data == Coming(rest, pending)
<1>6. /\ AtHeader(got, op, data, posted) /\ IsClient(got) /\ IsSequence(got.buffer)
      /\ got.comma = c.comma /\ IsSequence(rest)
  <2>1. got = Received(c, First(input, n)) /\ rest = After(input, n)
    BY DEF Received, First, After
  <2> HIDE DEF got, rest
  <2>2. IsSequence(Joined(Answers, pending)) /\ n \in 0 .. Len(input)
    BY <1>3
  <2>3. LET j == Received(c, First(input, n))
        IN  /\ AtHeader(j, op, Coming(After(input, n), pending), posted)
            /\ IsClient(j) /\ IsSequence(j.buffer) /\ j.comma = c.comma
            /\ IsSequence(After(input, n))
    BY <1>2, <1>3, <2>2, ReceivedHeader
  <2> QED
    BY <2>1, <2>3
<1>7. \/ /\ header.result = "COMPLETE" \/ (header.result = "INCOMPLETE" /\ ~late)
         /\ c' = header.k
         /\ pc' = IF header.result = "INCOMPLETE" /\ ~late THEN "header" ELSE "body"
         /\ input' = rest /\ UNCHANGED <<pending, posted, conn>>
      \/ /\ header.result # "COMPLETE" /\ ~(header.result = "INCOMPLETE" /\ ~late) /\ Fail
  BY <1>4, <1>5, Zenon DEF OutOfTime
<1> HIDE DEF got, rest
<1>8. IsSequence(data)
  BY <1>3, <1>6, JoinElements DEF Coming
<1> HIDE DEF data, header
<1>9. Processed(header, op, data, posted)
  <2>1. sc.http => ~got.comma
    BY <1>2, <1>6
  <2> QED
    BY <1>1, <1>3, <1>6, <1>8, <2>1, AnswerProcessed DEF header
<1>10. header.result \in {"COMPLETE", "INCOMPLETE"}
  BY <1>9 DEF Processed
<1>11. CASE conn' = 0
  <2>1. header.result # "COMPLETE" /\ ~(header.result = "INCOMPLETE" /\ ~late)
    BY <1>3, <1>7, <1>11
  <2> QED
    BY <1>10, <1>11, <2>1
<1>12. CASE conn' # 0
  <2>1. ~Fail
    BY <1>12 DEF Fail, Disconnect
  <2>2. /\ c' = header.k /\ input' = rest /\ pending' = pending /\ posted' = posted
        /\ pc' = IF header.result = "INCOMPLETE" /\ ~late THEN "header" ELSE "body"
        /\ header.result = "COMPLETE" \/ (header.result = "INCOMPLETE" /\ ~late)
    BY <1>7, <2>1
  <2>3. data = Coming(input', pending')
    BY <2>2 DEF data
  <2>4. sc.http => ~c'.comma
    BY <1>9, <2>2 DEF Processed
  <2>5. CASE header.result = "COMPLETE"
    <3>1. pc' = "body" /\ AtBody(c', op', data, posted')
      BY <1>1, <1>9, <2>2, <2>5 DEF Processed
    <3> QED
      BY <1>12, <2>3, <2>4, <3>1, Zenon DEF InStream
  <2>6. CASE header.result = "INCOMPLETE"
    <3>1. pc' = "header" /\ AtHeader(c', op', data, posted')
      BY <1>1, <1>9, <2>2, <2>6 DEF Processed
    <3> QED
      BY <1>12, <2>3, <2>4, <3>1, Zenon DEF InStream
  <2> QED
    BY <1>10, <2>5, <2>6
<1> QED
  BY <1>11, <1>12

\* ReadResponse receives n more units of the body, which is then complete unless the time
\* is up.
LEMMA ResponseReceived ==
    ASSUME ReadResponse, ~gone, c.contentLength \in Nat, IsSequence(c.body), IsSequence(input)
    PROVE  \E n \in 0 .. Len(input) :
              /\ Finish(c.body \o SubSeq(input, 1, n), SubSeq(input, n + 1, Len(input)))
              /\ c.contentLength <= Len(c.body) + n \/ late
<1>1. Len(c.body) \in Nat /\ Len(input) \in Nat
  BY JoinElements
<1> DEFINE missing == c.contentLength - Len(c.body)
           receive(n) == Finish(c.body \o SubSeq(input, 1, n), SubSeq(input, n + 1, Len(input)))
<1>2. \/ missing <= 0 /\ receive(0)
      \/ missing > 0 /\ Len(input) >= missing /\ receive(missing)
      \/ missing > 0 /\ late /\ \E n \in 0 .. Len(input) : n < missing /\ receive(n)
  BY Zenon DEF ReadResponse
<1> HIDE DEF receive
<1>3. CASE missing <= 0 /\ receive(0)
  <2>1. 0 \in 0 .. Len(input) /\ c.contentLength <= Len(c.body) + 0
    BY <1>1, <1>3
  <2> QED
    BY <1>3, <2>1, Zenon DEF receive
<1>4. CASE missing > 0 /\ Len(input) >= missing /\ receive(missing)
  <2>1. missing \in 0 .. Len(input) /\ c.contentLength <= Len(c.body) + missing
    BY <1>1, <1>4
  <2> HIDE DEF missing
  <2> QED
    BY <1>4, <2>1, Zenon DEF receive
<1>5. CASE late /\ \E n \in 0 .. Len(input) : receive(n)
  BY <1>5, Zenon DEF receive
<1> QED
  BY <1>2, <1>3, <1>4, <1>5, Zenon

\* The first unit of a body is there as soon as one is.
LEMMA BodyBegins ==
    ASSUME NEW r, NEW length \in Nat \ {0}, NEW body, IsSequence(body), length <= Len(body),
           NEW data, IsSequence(data), NEW z, IsSequence(z),
           Join(body, data) = Join(BodyOf(1, r, length), z)
    PROVE  body # <<>> /\ body[1] = Unit(1, r, 1)
<1> DEFINE B == BodyOf(1, r, length)
<1>1. IsSequence(B) /\ Len(B) = length /\ B[1] = Unit(1, r, 1)
  <2>1. 1 \in 1 .. length /\ length \in Nat
    OBVIOUS
  <2> QED
    BY <2>1, BodyUnits
<1> HIDE DEF B
<1>2. Len(body) \in Nat
  BY JoinElements
<1>3. 1 \in 1 .. Len(B) /\ 1 \in 1 .. Len(body)
  BY <1>1, <1>2
<1>4. Join(B, z)[1] = B[1] /\ Join(body, data)[1] = body[1]
  BY <1>1, <1>3, JoinFront
<1>5. body # <<>>
  BY <1>3, EmptyIsSequence
<1> QED
  BY <1>1, <1>4, <1>5 DEF B

\* ReadResponse while the server is there: what it returns is the answer, and the next
\* one begins behind it.
LEMMA ReadResponseStream ==
    ASSUME UnitsDistinct, AnswersReadable, OnceInv, SequenceInv, MemoryInv, StreamInv,
           ReadResponse, OnFirst, MemoryInv'
    PROVE  /\ conn' # 0 => InStream(c', pc', op', Coming(input', pending'), posted')
           /\ conn' = 0 => late \/ ~c.http.keepAlive
<1>1. pc = "body" /\ op' = op /\ ~gone /\ sc.ids /\ ~sc.binary
  BY DEF ReadResponse, OnFirst
<1>2. AtBody(c, op, Coming(input, pending), posted) /\ (sc.http => ~c.comma)
  BY <1>1 DEF StreamInv, InStream
<1>3. /\ IsSequence(c.body) /\ IsSequence(input) /\ IsClient(c) /\ conn # 0
      /\ IsSequence(Joined(Answers, pending)) /\ op.id \in DOMAIN sc.body
      /\ IsSequence(Owed(Later(op, posted))) /\ c.contentLength \in Nat
  <2>1. IsSequence(c.body) /\ IsSequence(input) /\ c.contentLength \in Nat
    BY DEF MemoryInv, Holds, IsSequence
  <2>2. IsSequence(Joined(Answers, pending))
    BY AnswerLists DEF MemoryInv
  <2>3. IsClient(c) /\ op.id \in DOMAIN sc.body /\ conn # 0
    BY <1>1 DEF SequenceInv, StreamInv
  <2> QED
    BY <1>1, <2>1, <2>2, <2>3, LaterIsSequence
<1>4. ~sc.mixed /\ op.id \in RequestNumbers
  BY <1>1, <1>3, LengthsRead, AnswerIsSequence
<1>5. op.id # -1
  BY <1>4 DEF RequestNumbers
<1>6. op.kind # "notify" => AnswerLength(op.id, op.kind) \in Nat \ {0}
  <2>1. AnswerLength(op.id, op.kind) \in BodyNumbers => AnswerLength(op.id, op.kind) \in Nat \ {0}
    BY DEF BodyNumbers
  <2> QED
    BY <1>3, <2>1, AnswerIsSequence
<1>7. PICK n \in 0 .. Len(input) :
         /\ Finish(c.body \o SubSeq(input, 1, n), SubSeq(input, n + 1, Len(input)))
         /\ c.contentLength <= Len(c.body) + n \/ late
  BY <1>1, <1>3, ResponseReceived
<1>8. PICK body, rest, length :
         /\ body = Join(c.body, First(input, n)) /\ rest = After(input, n)
         /\ length = c.contentLength
  OBVIOUS
<1>9. /\ IsSequence(body) /\ IsSequence(Coming(rest, pending))
      /\ Len(body) = Len(c.body) + n
      /\ Join(body, Coming(rest, pending))
            = Join(BodyOf(1, op.id, length), Join(Lead(c), Owed(Later(op, posted))))
  BY <1>2, <1>3, <1>8, ReceivedBody
<1>10. Finish(body, rest) /\ (length <= Len(body) \/ late) /\ length \in Nat
  <2>1. Finish(body, rest)
    BY <1>7, <1>8, Zenon DEF Join, First, After
  <2> QED
    BY <1>3, <1>7, <1>8, <1>9, <2>1
<1>11. length = AnswerLength(op.id, op.kind) /\ c.response # "none" /\ (c.comma <=> ~sc.http)
  BY <1>2, <1>8, Zenon DEF AtBody
<1>12. \/ op.kind = "get"
       \/ op.kind \in {"call", "notify"} /\ posted = <<>>
  BY <1>1, <1>4 DEF SequenceInv
<1>13. c.ids # <<>> /\ Head(c.ids) = op.id
  <2>1. CASE op.kind = "get"
    BY <1>1, <1>4, <2>1 DEF SequenceInv
  <2>2. CASE op.kind # "get"
    BY <1>1, <1>4, <2>2 DEF SequenceInv
  <2> QED
    BY <2>1, <2>2
\* What the client that has taken the body leaves.
<1>14. ASSUME c'.body = body, c'.response = c.response, c'.contentLength = c.contentLength,
              c'.comma = c.comma, length <= Len(body)
       PROVE  Outstanding(c', Coming(rest, pending), Later(op, posted))
  <2>1. PICK k, list, data : k = c' /\ list = Later(op, posted) /\ data = Coming(rest, pending)
    OBVIOUS
  <2>2. k.response = "heap" => Len(body) <= length
    <3>1. (\E S : Holds(c, S) /\ input \in Seq(S))'
      BY DEF MemoryInv
    <3>2. PICK T : Holds(c', T)
      BY <3>1
    <3> QED
      BY <1>8, <1>14, <2>1, <3>2 DEF Holds
  <2>3. Lead(k) = Lead(c)
    BY <1>14, <2>1 DEF Lead
  <2>4. k.contentLength = length /\ k.response # "none" /\ k.body = body
    BY <1>8, <1>11, <1>14, <2>1
  <2>5. /\ IsSequence(data) /\ IsSequence(Owed(list))
        /\ Join(body, data) = Join(BodyOf(1, op.id, length), Join(Lead(k), Owed(list)))
    BY <1>3, <1>9, <2>1, <2>3
  <2>6. Outstanding(k, data, list)
    BY <1>9, <1>10, <1>14, <2>2, <2>4, <2>5, CompleteBody
  <2> QED
    BY <2>1, <2>6
<1>15. CASE op.kind = "notify"
  <2>1. length = 0 /\ length <= Len(body)
    <3>1. length = 0
      BY <1>1, <1>11, <1>15 DEF AnswerLength
    <3>2. Len(body) \in Nat
      BY <1>9, JoinElements
    <3> QED
      BY <3>1, <3>2
  <2>2. /\ c' = [c EXCEPT !.body = body, !.ids = NotifyPops(@)]
        /\ pc' = "idle" /\ input' = rest /\ UNCHANGED <<conn, pending, posted>>
    BY <1>10, <1>15 DEF Finish
  <2>3. /\ c'.body = body /\ c'.response = c.response /\ c'.contentLength = c.contentLength
        /\ c'.comma = c.comma
    BY <1>3, <2>2 DEF IsClient, Fields
  <2>4. posted' = <<>> /\ Later(op, posted) = <<>>
    BY <1>12, <1>15, <2>2 DEF Later
  <2>5. Outstanding(c', Coming(input', pending'), posted')
    BY <1>14, <2>1, <2>2, <2>3, <2>4
  <2>6. AtIdle(c', Coming(input', pending'), posted')
    BY <2>4, <2>5 DEF AtIdle
  <2>7. sc.http => ~c'.comma
    BY <1>2, <2>3
  <2> QED
    BY <1>3, <2>2, <2>6, <2>7, Zenon DEF InStream
<1>16. CASE op.kind # "notify" /\ length <= Len(body)
  <2>1. length \in Nat \ {0}
    BY <1>11, <1>16, <1>6
  <2>2. body # <<>> /\ body[1] = Unit(1, op.id, 1)
    <3>1. PICK z : z = Join(Lead(c), Owed(Later(op, posted)))
      OBVIOUS
    <3>2. IsSequence(z)
      <4>1. IsSequence(Lead(c))
        BY LeadIsLead
      <4> QED
        BY <1>3, <3>1, <4>1, JoinElements
    <3> QED
      BY <1>9, <1>16, <2>1, <3>1, <3>2, BodyBegins
  <2>3. Parsed(body) = {op.id}
    <3>1. RequestOf(body[1]) = op.id
      BY <1>4, <2>2, RequestOfUnit
    <3>2. Len(body) >= c.contentLength
      <4>1. Len(body) \in Nat
        BY <1>9, JoinElements
      <4> QED
        BY <1>8, <1>10, <1>16, <4>1
    <3> QED
      BY <1>13, <2>2, <3>1, <3>2 DEF Parsed
  <2>5. /\ c' = [c EXCEPT !.body = body, !.processed = TRUE, !.ids = IF @ = <<>> THEN @ ELSE Tail(@)]
        /\ pc' = "idle" /\ CloseIfAsked(rest)
        /\ posted' = IF op.kind = "get" THEN Tail(posted) ELSE posted
    BY <1>10, <1>16, <1>5, <2>3 DEF Finish
  <2>6. CASE ~(sc.http /\ ~c.http.keepAlive)
    <3>1. input' = rest /\ pending' = pending /\ conn' = conn
      BY <2>5, <2>6 DEF CloseIfAsked
    <3>2. /\ c'.body = body /\ c'.response = c.response /\ c'.contentLength = c.contentLength
          /\ c'.comma = c.comma /\ c'.processed = TRUE
      BY <1>3, <2>5 DEF IsClient, Fields
    <3>3. posted' = Later(op, posted)
      BY <1>12, <2>5 DEF Later
    <3>4. Outstanding(c', Coming(input', pending'), posted')
      BY <1>14, <1>16, <3>1, <3>2, <3>3
    <3>5. AtIdle(c', Coming(input', pending'), posted')
      BY <3>2, <3>4 DEF AtIdle
    <3>6. sc.http => ~c'.comma
      BY <1>2, <3>2
    <3> QED
      BY <1>3, <2>5, <3>1, <3>5, <3>6, Zenon DEF InStream
  <2>7. CASE sc.http /\ ~c.http.keepAlive
    BY <2>5, <2>7 DEF CloseIfAsked, Disconnect
  <2> QED
    BY <2>6, <2>7
<1>17. CASE op.kind # "notify" /\ ~(length <= Len(body))
  <2>1. late
    BY <1>10, <1>17
  <2>2. Parsed(body) = {-1}
    <3>1. ~(Len(body) >= c.contentLength)
      <4>1. Len(body) \in Nat
        BY <1>9, JoinElements
      <4> QED
        BY <1>8, <1>10, <1>17, <4>1
    <3> QED
      BY <1>1, <3>1 DEF Parsed
  <2>3. conn' = 0
    BY <1>10, <1>17, <2>2 DEF Finish, Fail, Disconnect
  <2> QED
    BY <2>1, <2>3
<1> QED
  BY <1>15, <1>16, <1>17

\* What the server sends it was to send.
LEMMA RespondStream ==
    ASSUME UnitsDistinct, OnceInv, MemoryInv, StreamInv, Respond, OnFirst
    PROVE  InStream(c', pc', op', Coming(input', pending'), posted')
<1> DEFINE A == Answer(1, Head(pending)[1], Head(pending)[2])
<1>1. /\ pending # <<>> /\ pending' = Tail(pending) /\ UNCHANGED <<c, pc, op, posted>>
      /\ input' = Join(input, A)
  BY DEF Respond, OnFirst, Join
<1>2. pending \in Seq((DOMAIN sc.body) \X Kinds)
  BY DEF MemoryInv
<1>3. Head(pending) \in (DOMAIN sc.body) \X Kinds /\ Tail(pending) \in Seq((DOMAIN sc.body) \X Kinds)
  BY <1>1, <1>2, HeadTailProperties
<1>4. Answers[Head(pending)] = A
  BY <1>3 DEF Answers
<1>5. /\ IsSequence(input) /\ IsSequence(Joined(Answers, Tail(pending)))
      /\ \A p \in (DOMAIN sc.body) \X Kinds : IsSequence(Answers[p])
  <2>1. IsSequence(input)
    BY DEF MemoryInv, IsSequence
  <2> QED
    BY <1>3, <2>1, AnswerLists
<1> HIDE DEF A
<1>6. Joined(Answers, pending) = Join(A, Joined(Answers, Tail(pending)))
  BY <1>1, <1>2, <1>4, <1>5, JoinedFirst
<1>7. Join(Join(input, A), Joined(Answers, Tail(pending)))
         = Join(input, Join(A, Joined(Answers, Tail(pending))))
  <2>1. IsSequence(A)
    BY <1>3, <1>4, <1>5
  <2> QED
    BY <1>5, <2>1, JoinAssociative
<1>8. Coming(input', pending') = Coming(input, pending)
  BY <1>1, <1>6, <1>7 DEF Coming
<1>9. InStream(c, pc, op, Coming(input, pending), posted)
  BY DEF StreamInv
<1> QED
  BY <1>1, <1>8, <1>9

\* What the server would answer does not change.
LEMMA SameAnswers ==
    ASSUME sc' = sc
    PROVE  Answers' = Answers /\ PostAnswers' = PostAnswers
BY DEF Answers, PostAnswers, Answer

\* Where the client has its place after a step it is in the next state.
LEMMA PlaceThen ==
    ASSUME sc' = sc, InStream(c', pc', op', Coming(input', pending'), posted')
    PROVE  InStream(c, pc, op, Coming(input, pending), posted)'
<1>1. Answers' = Answers /\ PostAnswers' = PostAnswers
  BY SameAnswers
<1>2. PICK data : data = Coming(input', pending') /\ data = Coming(input, pending)'
  BY <1>1 DEF Coming
<1>3. Owed(posted)' = Owed(posted') /\ Owed(Later(op, posted))' = Owed(Later(op', posted'))
  BY <1>1 DEF Owed, Later
<1>4. Answer(1, op.id, op.kind)' = Answer(1, op'.id, op'.kind)
  BY DEF Answer
<1>5. AnswerLength(op.id, op.kind)' = AnswerLength(op'.id, op'.kind)
  BY DEF AnswerLength
<1>6. InStream(c', pc', op', data, posted')
  BY <1>2
<1>7. AtIdle(c', data, posted') => AtIdle(c, Coming(input, pending), posted)'
  BY <1>2, <1>3 DEF AtIdle, Outstanding
<1>8. AtWrite(c', data, posted') => AtWrite(c, Coming(input, pending), posted)'
  BY <1>2, <1>3 DEF AtWrite, Outstanding
<1>9. AtHeader(c', op', data, posted') => AtHeader(c, op, Coming(input, pending), posted)'
  BY <1>2, <1>3, <1>4 DEF AtHeader
<1>10. AtBody(c', op', data, posted') => AtBody(c, op, Coming(input, pending), posted)'
  BY <1>2, <1>3, <1>5 DEF AtBody
<1> QED
  BY <1>6, <1>7, <1>8, <1>9, <1>10 DEF InStream

\* No step loses the place of the client in the stream.
LEMMA NextStream ==
    ASSUME UnitsDistinct, AnswersReadable, OnceInv, SequenceInv, MemoryInv, StreamInv,
           MemoryInv', [Next]_vars
    PROVE  StreamInv'
<1>1. PlacesKept /\ sc' = sc
  BY NextPlaces, PendingKept
<1>2. ASSUME OnFirst' PROVE InStream(c', pc', op', Coming(input', pending'), posted')
  <2>1. conn' # 0 /\ ~Fail
    BY <1>2 DEF OnFirst, Fail, Disconnect
  <2>2. ASSUME UNCHANGED <<sc, conn, conns>>, gone => gone' PROVE OnFirst
    BY <1>2, <2>2 DEF OnFirst
  <2>3. ASSUME NEW kind, Begin(kind)
        PROVE  InStream(c', pc', op', Coming(input', pending'), posted')
    BY <1>2, <2>3, BeginStream
  <2>4. CASE GetPostResult
    BY <1>2, <2>4, GetStream
  <2>5. CASE SetServer
    BY <2>1, <2>5 DEF SetServer, Disconnect
  <2>6. CASE WriteRequest
    BY <1>2, <2>6, WriteStream
  <2>7. CASE WriteFails
    BY <1>2, <2>7, WriteFailsStream
  <2>8. CASE ReadHeader
    <3>1. UNCHANGED <<sc, conn, conns, gone>>
      BY <2>1, <2>8 DEF ReadHeader
    <3> QED
      BY <2>1, <2>2, <2>8, <3>1, ReadHeaderStream
  <2>9. CASE ReadResponse
    <3>1. \E body, rest : Finish(body, rest)
      BY <2>1, <2>9 DEF ReadResponse
    <3>2. UNCHANGED <<sc, conn, conns, gone>>
      BY <2>1, <3>1 DEF Finish, CloseIfAsked, Disconnect
    <3> QED
      BY <2>1, <2>2, <2>9, <3>2, ReadResponseStream
  <2>10. CASE Respond
    <3>1. UNCHANGED <<sc, conn, conns>> /\ ~gone
      BY <2>10 DEF Respond
    <3> QED
      BY <2>2, <2>10, <3>1, RespondStream
  <2>11. CASE ServerCloses \/ ServerStalls \/ TimeIsUp \/ UNCHANGED vars
    <3>1. UNCHANGED <<sc, conn, conns>> /\ (gone => gone')
      BY <2>11 DEF ServerCloses, ServerStalls, TimeIsUp, vars, netVars
    <3>2. UNCHANGED <<c, pc, op, input, pending, posted>>
      BY <2>11 DEF ServerCloses, ServerStalls, TimeIsUp, vars, netVars
    <3>3. InStream(c, pc, op, Coming(input, pending), posted)
      BY <2>2, <3>1 DEF StreamInv
    <3> QED
      <4>1. Coming(input', pending') = Coming(input, pending)
        BY <3>2
      <4> QED
        BY <3>2, <3>3, <4>1
  <2> QED
    BY <2>3, <2>4, <2>5, <2>6, <2>7, <2>8, <2>9, <2>10, <2>11 DEF Next, Operation, Step
<1>3. OnFirst' => InStream(c, pc, op, Coming(input, pending), posted)'
  BY <1>1, <1>2, PlaceThen
<1>4. /\ (conns = 0 => posted = <<>> /\ pc = "idle")'
      /\ (pc # "idle" => conn # 0 /\ op.id \in DOMAIN sc.body)'
      /\ (posted \in Seq(DOMAIN sc.body))'
  BY <1>1 DEF PlacesKept
<1> QED
  BY <1>3, <1>4 DEF StreamInv

\* A call that reads a response on the first connection, and fails.
FailsWithout ==
    /\ sc.ids /\ ~sc.binary /\ conns = 1 /\ pc \in {"header", "body"} /\ conn' = 0
    /\ ~gone /\ ~late /\ c.http.keepAlive

LEMMA FailureHasCause ==
    ASSUME UnitsDistinct, AnswersReadable, OnceInv, SequenceInv, MemoryInv, StreamInv,
           MemoryInv', [Next]_vars
    PROVE  ~FailsWithout
<1> SUFFICES ASSUME FailsWithout PROVE FALSE
  OBVIOUS
<1>1. /\ sc.ids /\ ~sc.binary /\ conns = 1 /\ pc \in {"header", "body"} /\ conn' = 0
      /\ ~gone /\ ~late /\ c.http.keepAlive
  BY DEF FailsWithout
<1>2. conn \in {0, conns} /\ conn # 0
  BY <1>1 DEF MemoryInv, StreamInv
<1>3. OnFirst /\ conn' # conn
  BY <1>1, <1>2 DEF OnFirst
<1>4. ReadHeader \/ ReadResponse
  BY <1>1, <1>3
  DEF Next, Operation, Step, Begin, GetPostResult, SetServer, WriteRequest, WriteFails, Respond,
      ServerCloses, ServerStalls, TimeIsUp, netVars, vars
<1>5. CASE ReadHeader
  BY <1>1, <1>3, <1>5, ReadHeaderStream
<1>6. CASE ReadResponse
  BY <1>1, <1>3, <1>6, ReadResponseStream
<1> QED
  BY <1>4, <1>5, <1>6

\* A call gives up reading its response on the first connection only for a cause: the
\* server has closed, has asked to close, or the time is up.  However the answers are cut
\* into pieces, none is misread or lost, for every protocol whose responses carry an id
\* and are complete before they parse, and an application that collects its posts first.
THEOREM FailsOnlyForCause ==
    ASSUME UnitsDistinct, AnswersReadable PROVE Spec => FailsForCause
<1> DEFINE Inv == OnceInv /\ SequenceInv /\ MemoryInv
<1>1. Init => StreamInv
  BY InitStream
<1>2. Inv /\ Inv' /\ StreamInv /\ [Next]_vars => StreamInv'
  BY NextStream
<1>3. Inv /\ Inv' /\ StreamInv /\ [Next]_vars
      => [sc.ids /\ ~sc.binary /\ conns = 1 /\ pc \in {"header", "body"} /\ conn' = 0
            => gone \/ late \/ ~c.http.keepAlive]_vars
  BY FailureHasCause DEF FailsWithout
<1>4. Spec => []Inv
  BY ClientInvariant
<1> QED
  BY <1>1, <1>2, <1>3, <1>4, PTL DEF Spec, FailsForCause
==============================================================================
