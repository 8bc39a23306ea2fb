------------------------------ MODULE ServeLoop ------------------------------
(***************************************************************************)
(* server.go: the loop of serveConn on one connection, with the buffers    *)
(* between it and a client that pipelines.  A request travels as tokens:   *)
(* two for its header, which may arrive apart, and one for its body.       *)
(*                                                                         *)
(* RequestHeader.readLoop(br, false) is called by serveConn but is not in  *)
(* the repository; it is modelled as its caller uses it: one attempt at    *)
(* the header, which says errNeedMore when the buffer has only part of it. *)
(***************************************************************************)
EXTENDS Naturals, Sequences

CONSTANTS
    MaxRequests,        \* bound: how many requests the client sends
    Kinds               \* the requests: their body, of "none", "chunked", "small" and
                        \* "large", which is over the default MaxRequestBodySize and 8 KB,
                        \* whether they have Expect: 100-continue, and whether
                        \* HeaderReceived raises MaxRequestBodySize for them

ASSUME LoopAssumption ==
    /\ MaxRequests \in Nat
    /\ Kinds \subseteq [body : {"none", "chunked", "small", "large"},
                        expect : BOOLEAN, raise : BOOLEAN]

Parts(k) == <<"H1", "H2">> \o (IF k.body = "none" THEN <<>> ELSE <<"B">>)
Token == (1..MaxRequests) \X {"H1", "H2", "B"}
Response == (1..MaxRequests + 1) \X {"ok", "empty", "417", "error"}

VARIABLES
    conf,               \* what does not change: s.ReduceMemoryUsage (reduce),
                        \* s.StreamRequestBody (stream), s.ContinueHandler # nil (deny)
    kind,               \* the requests sent so far
    part,               \* how many tokens of the last of them
    net, closed,        \* tokens on the way; the client has closed
    pc,
    connRequestNum, cur,    \* cur: the request whose header was read
    br, hasBr,          \* the tokens in br, and br # nil
    streamed,           \* a requestStream has still to read from br
    bw,                 \* the responses in bw
    written, out,       \* the responses written so far, and sent
    goOn,               \* continueReadingRequest
    raised,             \* maxRequestBodySize has been raised
    stop, failed        \* s.stop; a write failed

clientVars == <<kind, part, net, closed>>
readVars == <<br, hasBr, streamed>>
writeVars == <<bw, written, out, failed>>
reqVars == <<connRequestNum, cur, goOn, raised>>
vars == <<conf, clientVars, pc, readVars, writeVars, reqVars, stop>>

Init ==
    /\ conf \in [reduce : BOOLEAN, stream : BOOLEAN, deny : BOOLEAN]
    /\ kind = <<>> /\ part = 0 /\ net = <<>> /\ closed = FALSE
    /\ pc = "top" /\ connRequestNum = 0 /\ cur = 0
    /\ br = <<>> /\ hasBr = FALSE /\ streamed = FALSE
    /\ bw = <<>> /\ written = <<>> /\ out = <<>>
    /\ goOn = TRUE /\ raised = FALSE
    /\ stop = FALSE /\ failed = FALSE

-----------------------------------------------------------------------------
(* The client, and Shutdown. *)

SendRequest ==
    /\ ~closed /\ Len(kind) < MaxRequests
    /\ kind # <<>> => part = Len(Parts(kind[Len(kind)]))
    /\ \E k \in Kinds : kind' = Append(kind, k)
    /\ part' = 1 /\ net' = Append(net, <<Len(kind) + 1, "H1">>)
    /\ UNCHANGED <<conf, closed, pc, readVars, writeVars, reqVars, stop>>

SendMore ==
    /\ ~closed /\ kind # <<>>
    /\ part < Len(Parts(kind[Len(kind)]))
    /\ part' = part + 1
    /\ net' = Append(net, <<Len(kind), Parts(kind[Len(kind)])[part + 1]>>)
    /\ UNCHANGED <<conf, kind, closed, pc, readVars, writeVars, reqVars, stop>>

\* The client closes, or an idle or read timeout passes.
ClientCloses ==
    /\ ~closed
    /\ closed' = TRUE
    /\ UNCHANGED <<conf, kind, part, net, pc, readVars, writeVars, reqVars, stop>>

SetStop ==
    /\ ~stop
    /\ stop' = TRUE
    /\ UNCHANGED <<conf, clientVars, pc, readVars, writeVars, reqVars>>

-----------------------------------------------------------------------------
(* Buffers. *)

\* The next token in br is there, and for a header both of them.
HeaderReady == br # <<>> /\ (Head(br)[2] = "H1" => Len(br) > 1)
WaitsForByte == pc \in {"byte", "peek", "body", "continueBody", "stream"} /\ br = <<>>
WaitsForHeader == pc = "headerWait" /\ ~HeaderReady
Waits == WaitsForByte \/ WaitsForHeader

\* br reads from the connection what has arrived, or some of it.
Fill ==
    /\ Waits /\ net # <<>>
    /\ \E n \in 1..Len(net) :
          /\ br' = br \o SubSeq(net, 1, n)
          /\ net' = SubSeq(net, n + 1, Len(net))
    /\ UNCHANGED <<conf, kind, part, closed, pc, hasBr, streamed, writeVars,
                   reqVars, stop>>

\* A read that can only fail.
AtEOF == Waits /\ net = <<>> /\ closed

\* bw.Flush succeeds.
Flush(w) == out' = out \o w /\ bw' = <<>>

\* Mutant of AfterRead: a reader is released with a request in it.
AfterReadAlways(rest) ==
    /\ br' = rest
    /\ hasBr' = ~conf.reduce

\* What becomes of br when the request has been read: with ReduceMemoryUsage an empty
\* one goes back to readerPool.
\* rest is what it holds then; the requestStream keeps its reference.
AfterRead(rest) ==
    /\ br' = rest
    /\ hasBr' = ~(conf.reduce /\ rest = <<>>)

\* writeErrorResponse: the response is written and bw flushed; the loop ends.
ErrorResponse ==
    LET r == <<connRequestNum, "error">> IN
    /\ written' = Append(written, r)
    /\ Flush(Append(bw, r))
    /\ pc' = "end"
    /\ br' = <<>> /\ hasBr' = FALSE

\* A write or a flush fails and ends the loop.
WriteFails ==
    /\ pc \in {"continue", "write"} \/ (pc = "header" /\ bw # <<>> /\ ~HeaderReady)
    /\ failed' = TRUE /\ pc' = "end"
    /\ UNCHANGED <<conf, clientVars, readVars, bw, written, out, reqVars, stop>>

-----------------------------------------------------------------------------
(* Reading a request. *)

\* The first bytes of a request are awaited in br, or, with ReduceMemoryUsage, in
\* acquireByteReader.
Top ==
    /\ pc = "top"
    /\ connRequestNum' = connRequestNum + 1
    /\ pc' = CASE conf.reduce /\ ~hasBr -> "byte"
               [] connRequestNum > 0 -> "peek"
               [] OTHER -> "header"
    /\ br' = (IF hasBr THEN br ELSE <<>>) /\ hasBr' = TRUE
    /\ streamed' = FALSE
    /\ UNCHANGED <<conf, clientVars, writeVars, cur, goOn, raised, stop>>

Peeked ==
    /\ pc \in {"byte", "peek"} /\ br # <<>>
    /\ pc' = "header"
    /\ UNCHANGED <<conf, clientVars, readVars, writeVars, reqVars, stop>>

\* Nothing was read: the connection ends without a response.
PeekFails ==
    /\ pc \in {"byte", "peek"} /\ AtEOF
    /\ pc' = "end"
    /\ UNCHANGED <<conf, clientVars, readVars, writeVars, reqVars, stop>>

\* Mutant of ReadHeader: the server waits for the header with responses in bw.
ReadHeaderBlocks ==
    /\ pc = "header"
    /\ pc' = "headerWait"
    /\ UNCHANGED <<out, bw>>
    /\ UNCHANGED <<conf, clientVars, readVars, written, failed, reqVars, stop>>

\* The header is tried once; before the server waits for the rest of it, bw is flushed.
ReadHeader ==
    /\ pc = "header"
    /\ pc' = "headerWait"
    /\ IF HeaderReady THEN UNCHANGED <<out, bw>> ELSE Flush(bw)
    /\ UNCHANGED <<conf, clientVars, readVars, written, failed, reqVars, stop>>

\* The header is read; HeaderReceived may raise the limit for the body.
HeaderRead ==
    /\ pc = "headerWait" /\ HeaderReady /\ Head(br)[2] = "H1"
    /\ cur' = Head(br)[1]
    /\ br' = Tail(Tail(br))
    /\ raised' = (raised \/ kind[cur'].raise)
    /\ pc' = IF kind[cur'].expect THEN "expect" ELSE "bodyStart"
    /\ UNCHANGED <<conf, clientVars, hasBr, streamed, writeVars, connRequestNum,
                   goOn, stop>>

\* What is in br is not a header, the connection ended within one, or the first
\* request did not begin in time.
HeaderFails ==
    /\ pc = "headerWait"
    /\ \/ HeaderReady /\ Head(br)[2] # "H1"
       \/ AtEOF
    /\ ErrorResponse
    /\ UNCHANGED <<conf, clientVars, streamed, failed, reqVars, stop>>

\* The connection ended before the header.
HeaderEOF ==
    /\ pc = "headerWait" /\ AtEOF /\ br = <<>>
    /\ pc' = "end"
    /\ UNCHANGED <<conf, clientVars, readVars, writeVars, reqVars, stop>>

TooLarge == kind[cur].body = "large" /\ ~raised

\* What is left to the requestStream from the beginning: a body in chunks.
ChunkedStream == conf.stream /\ kind[cur].body = "chunked"

\* ErrGetOnly: with s.GetOnly a request with another method is refused.
GetOnly ==
    /\ pc \in {"bodyStart", "expect"}
    /\ ErrorResponse
    /\ UNCHANGED <<conf, clientVars, streamed, failed, reqVars, stop>>

\* readLimitBody and readBodyStream, and after 100 Continue ContinueReadBody and
\* ContinueReadBodyStream: there is nothing to read yet, the length is over the limit,
\* which is an error unless the body is streamed, or bytes of it are awaited.
BodyStart(from, wait) ==
    /\ pc = from
    /\ \/ /\ kind[cur].body = "none" \/ ChunkedStream
          /\ pc' = "handle"
          /\ streamed' = ChunkedStream
          /\ AfterRead(br)
          /\ UNCHANGED <<bw, out, written>>
       \/ /\ TooLarge /\ ~conf.stream
          /\ ErrorResponse
          /\ UNCHANGED streamed
       \/ /\ kind[cur].body # "none" /\ ~ChunkedStream /\ (TooLarge => conf.stream)
          /\ pc' = wait
          /\ UNCHANGED <<readVars, bw, out, written>>
    /\ UNCHANGED <<conf, clientVars, failed, reqVars, stop>>

AwaitsBody == pc \in {"body", "continueBody"}
StreamsPart == conf.stream /\ kind[cur].body = "large"

\* The body has been read.
BodyRead ==
    /\ AwaitsBody /\ br # <<>> /\ ~StreamsPart
    /\ pc' = "handle"
    /\ AfterRead(Tail(br))
    /\ UNCHANGED <<conf, clientVars, streamed, writeVars, reqVars, stop>>

\* readBodyWithStreaming has read the first bytes of a large body; the others are in br or
\* still to come.  When the length is over the limit, readBodyIdentity reads as much as its
\* buffer, which had another use before, has room for: the whole body and what follows it.
Prefetch ==
    /\ AwaitsBody /\ br # <<>> /\ StreamsPart
    /\ pc' = "handle"
    /\ \/ /\ streamed' = TRUE
          /\ \/ AfterRead(br) /\ UNCHANGED net
             \/ Tail(br) = <<>> /\ AfterRead(<<>>) /\ net' = br \o net
       \/ /\ TooLarge
          /\ streamed' = FALSE
          /\ \E n \in 1..Len(br) : AfterRead(SubSeq(br, n + 1, Len(br)))
          /\ UNCHANGED net
    /\ UNCHANGED <<conf, kind, part, closed, writeVars, reqVars, stop>>

\* The connection ends within the body, or a chunk is broken or over the limit.
BodyFails ==
    /\ AwaitsBody
    /\ AtEOF \/ (br # <<>> /\ kind[cur].body = "chunked")
    /\ ErrorResponse
    /\ UNCHANGED <<conf, clientVars, streamed, failed, reqVars, stop>>

\* io.EOF is no error for readBodyIdentity.  From readHexInt, where a chunk would begin,
\* it ends the loop without a response and without a flush.
BodyEOF ==
    /\ AwaitsBody /\ AtEOF
    /\ \/ /\ StreamsPart /\ TooLarge
          /\ pc' = "handle" /\ streamed' = TRUE
          /\ AfterRead(br)
       \/ /\ pc = "body" /\ kind[cur].body = "chunked" /\ ~conf.stream
          /\ pc' = "end"
          /\ br' = <<>> /\ hasBr' = FALSE /\ UNCHANGED streamed
    /\ UNCHANGED <<conf, clientVars, writeVars, reqVars, stop>>

\* Expect: 100-continue.  ContinueHandler may deny the body: br is reset.
ExpectDenied ==
    /\ pc = "expect" /\ conf.deny
    /\ goOn' = FALSE
    /\ br' = <<>> /\ hasBr' = ~(conf.reduce /\ br = <<>>)
    /\ pc' = "handle"
    /\ UNCHANGED <<conf, clientVars, streamed, writeVars, connRequestNum, cur,
                   raised, stop>>

\* Or not; then 100 Continue is sent.  Without a handler the flag stays as it is.
ExpectAccepted ==
    /\ pc = "expect" /\ (conf.deny \/ goOn)
    /\ goOn' = TRUE
    /\ pc' = "continue"
    /\ UNCHANGED <<conf, clientVars, readVars, writeVars, connRequestNum, cur,
                   raised, stop>>

SendContinue ==
    /\ pc = "continue"
    /\ Flush(bw)
    /\ hasBr' = TRUE
    /\ pc' = "continueStart"
    /\ UNCHANGED <<conf, clientVars, br, streamed, written, failed, reqVars, stop>>

-----------------------------------------------------------------------------
(* Answering it. *)

\* The Handler runs, unless the request was denied.  With a requestStream it may read
\* the body it was given only in part.
Handle ==
    /\ pc = "handle"
    /\ \/ pc' = "write"
       \/ goOn /\ streamed /\ pc' = "stream"
    /\ UNCHANGED <<conf, clientVars, readVars, writeVars, connRequestNum, cur, goOn,
                   raised, stop>>

\* The handler reads the body to its end, or to the end of the connection.
StreamRead ==
    /\ pc = "stream"
    /\ \/ br # <<>> /\ br' = Tail(br)
       \/ AtEOF /\ br' = br
    /\ pc' = "write"
    /\ UNCHANGED <<conf, clientVars, hasBr, streamed, writeVars, reqVars, stop>>

\* The response of the current request.
Answer ==
    <<cur,
      CASE goOn -> "ok"
        [] kind[cur].expect -> "417"
        [] OTHER -> "empty">>

\* Mutant of WriteResponse: a last response is not flushed.
WriteResponseUnflushed ==
    /\ pc = "write"
    /\ written' = Append(written, Answer)
    /\ \E connectionClose \in BOOLEAN :
          /\ IF ~hasBr \/ br = <<>>
             THEN Flush(Append(bw, Answer))
             ELSE /\ bw' = IF conf.reduce THEN <<>> ELSE Append(bw, Answer)
                  /\ UNCHANGED out
          /\ pc' = IF connectionClose THEN "end" ELSE "idle"
    /\ UNCHANGED <<conf, clientVars, readVars, failed, reqVars, stop>>

\* The response is written; bw is flushed if no further request is in br or if the
\* connection is closed after it.  The loop ends, or the writer may be released.
WriteResponse ==
    /\ pc = "write"
    /\ written' = Append(written, Answer)
    /\ \E connectionClose \in BOOLEAN :
          /\ IF ~hasBr \/ br = <<>> \/ connectionClose
             THEN Flush(Append(bw, Answer))
             ELSE /\ bw' = IF conf.reduce THEN <<>> ELSE Append(bw, Answer)
                  /\ UNCHANGED out
          /\ pc' = IF connectionClose THEN "end" ELSE "idle"
    /\ UNCHANGED <<conf, clientVars, readVars, failed, reqVars, stop>>

\* The handler hijacked the connection: the response is written unless it asked for
\* none, and flushed with what is in bw; br goes to the hijack handler.
WriteHijack ==
    /\ pc = "write" /\ goOn
    /\ \E noResponse \in BOOLEAN :
          LET w == IF noResponse THEN <<>> ELSE <<Answer>> IN
          /\ written' = written \o w
          /\ Flush(bw \o w)
    /\ pc' = "end"
    /\ UNCHANGED <<conf, clientVars, readVars, failed, reqVars, stop>>

CheckStop ==
    /\ pc = "idle"
    /\ pc' = IF stop THEN "end" ELSE "top"
    /\ UNCHANGED <<conf, clientVars, readVars, writeVars, reqVars, stop>>

-----------------------------------------------------------------------------
Client == SendRequest \/ SendMore \/ ClientCloses \/ SetStop

Reading ==
    \/ Fill \/ Top \/ Peeked \/ PeekFails \/ ReadHeader \/ HeaderRead \/ HeaderFails
    \/ HeaderEOF \/ GetOnly \/ BodyStart("bodyStart", "body")
    \/ BodyRead \/ Prefetch \/ BodyFails \/ BodyEOF \/ ExpectDenied \/ ExpectAccepted \/ SendContinue
    \/ BodyStart("continueStart", "continueBody")

Answering == Handle \/ StreamRead \/ WriteResponse \/ WriteHijack \/ CheckStop

Next ==
    \/ Client \/ Reading \/ Answering \/ WriteFails
    \/ pc = "end" /\ UNCHANGED vars

\* The server runs.  The client need not send or close.
Spec == Init /\ [][Next]_vars /\ WF_vars(Reading \/ Answering)

-----------------------------------------------------------------------------
(* Properties. *)

TypeOK ==
    /\ kind \in Seq(Kinds) /\ Len(kind) <= MaxRequests
    /\ part \in 0..3 /\ net \in Seq(Token) /\ closed \in BOOLEAN
    /\ pc \in {"top", "byte", "peek", "header", "headerWait", "bodyStart", "body", "expect",
               "continue", "continueStart", "continueBody", "handle", "stream", "write",
               "idle", "end"}
    /\ connRequestNum \in 0..MaxRequests + 1 /\ cur \in 0..MaxRequests
    /\ br \in Seq(Token) /\ hasBr \in BOOLEAN
    /\ streamed \in BOOLEAN
    /\ bw \in Seq(Response) /\ written \in Seq(Response) /\ out \in Seq(Response)
    /\ goOn \in BOOLEAN /\ raised \in BOOLEAN
    /\ stop \in BOOLEAN /\ failed \in BOOLEAN

\* The loop looks for the header of its n-th request where the n-th request begins:
\* no token of an earlier request is left in br, and none was lost with a reader that
\* was released.  Two settings are excepted: a handler need not read a streamed body,
\* and the body of a denied request may come nevertheless.
Framed ==
    ~conf.stream /\ ~conf.deny /\ pc = "headerWait" /\ br # <<>> =>
        Head(br) = <<connRequestNum, "H1">>

\* The client has ended the connection within a chunked body.
Truncated ==
    /\ closed /\ kind # <<>>
    /\ kind[Len(kind)].body = "chunked" /\ part < Len(Parts(kind[Len(kind)]))

\* Every response that was written is sent, in the order of writing, or still in bw;
\* when the loop ends without a failed write nothing is left behind.  Three cases are
\* excepted, in which bw is released with the responses of pipelined requests in it:
\* ReduceMemoryUsage, a loop that s.stop ends, and a client that ends the connection
\* within a chunked body (BodyEOF).
NothingLost ==
    ~failed /\ ~conf.reduce =>
        IF pc = "end" THEN ~stop /\ ~Truncated => out = written ELSE out \o bw = written

\* A request that was sent as a whole is answered, or the connection ends; but its
\* response may be kept while the server waits for the body of a later request.
\* With ReduceMemoryUsage a response may be lost, and with a ContinueHandler a request:
\* br is reset, with what it holds, when the handler denies one.  So may the requests
\* behind a streamed body that is over the limit (Prefetch).
Sent(n) == Len(kind) > n \/ (Len(kind) = n /\ part = Len(Parts(kind[n])))
BehindStream(n) == conf.stream /\ \E m \in 1..n - 1 : kind[m].body = "large"
EveryAnswered ==
    \A n \in 1..MaxRequests :
        ~conf.reduce /\ ~conf.deny /\ Sent(n) /\ ~BehindStream(n) ~>
            \/ pc = "end"
            \/ \E i \in DOMAIN out : out[i][1] = n
            \/ WaitsForByte /\ pc \in {"body", "continueBody", "stream"} /\ n < cur
=============================================================================
