----------------------------- MODULE Messages -----------------------------
(***************************************************************************)
(* A Request or a Response on its way (http.go): a caller builds a message *)
(* with the setters, Write turns it into bytes, and Read at the other end  *)
(* of the connection turns the bytes into a message again.  The bytes      *)
(* arrive in pieces, the connection may break after any of them, and both  *)
(* message objects are used again for the next message, as the pools of    *)
(* the server and of the clients do.                                       *)
(*                                                                         *)
(* A body is a sequence of bytes; what follows a message on a connection   *)
(* that stays open is one byte of the next one.  The optional fields       *)
(* bodyRaw, bodyStream and uri are sequences of at most one element.       *)
(***************************************************************************)
EXTENDS Header, FiniteSets

CONSTANTS
  Kinds,          \* which of "request" and "response" are sent
  Statuses,       \* what SetStatusCode is called with
  Bodies,         \* what the body setters are called with
  Pairs,          \* the pairs Set and Add are called with
  Deletable,      \* the names Del is called with
  Cookies,        \* the cookies SetCookie is called with
  Lengths,        \* what SetContentLength is called with
  MaxBodySize,    \* the limit of ReadLimitBody, 0 for none
  MinCompressLen, \* shorter bodies are not compressed
  MaxCalls        \* bound: calls of setters and further messages

ASSUME MessagesAssumption ==
  /\ Kinds \subseteq {"request", "response"}
  /\ MaxBodySize \in Nat /\ MinCompressLen \in Nat
  /\ MaxCalls \in Nat

VARIABLES
  src,    \* the message that is built and written
  dst,    \* the message that is read
  phase,  \* "build", "header" and "body" while reading, "done"
  wire,   \* the tokens that have been written and not been consumed
  avail,  \* how many of them have arrived
  tried,  \* how many of them the last attempt to parse the header has seen
  eof,    \* the reader sees the end of the connection behind them
  first,  \* the header being read may be that of "100 Continue"
  result, \* how the read has ended
  want,   \* what was written, as its writer would describe it
  calls   \* counter for the bound

vars == <<src, dst, phase, wire, avail, tried, eof, first, result, want, calls>>

---------------------------------------------------------------------------
(* The parts of a message and its setters.                                 *)

NewMessage(kind) ==
  [hd |-> NewHeader(kind), body |-> <<>>, bodyRaw |-> <<>>, bodyStream |-> <<>>,
   skipBody |-> FALSE, uri |-> <<>>, postArgs |-> <<>>]

\* A stream yields its data and then ends or fails; an io.LimitedReader tells
\* its size.
Stream(data, limited, fails) == [data |-> data, limited |-> limited, fails |-> fails]

closeBodyStream(m) == [m EXCEPT !.bodyStream = <<>>]

ResetBody(m) == [closeBodyStream(m) EXCEPT !.bodyRaw = <<>>, !.body = <<>>]

\* The buffer, without a raw body, which would hide it.
bodyBuffer(m) == [m EXCEPT !.bodyRaw = <<>>]

SetBody(m, b) == [bodyBuffer(closeBodyStream(m)) EXCEPT !.body = b]

AppendBody(m, b) == [bodyBuffer(closeBodyStream(m)) EXCEPT !.body = @ \o b]

SetBodyRaw(m, b) == [ResetBody(m) EXCEPT !.bodyRaw = <<b>>]

SetBodyStream(m, s, size) ==
  [ResetBody(m) EXCEPT !.bodyStream = <<s>>, !.hd = SetContentLength(@, size)]

\* Body reads the stream to its end; the text of an error becomes the body.
Body(m) ==
  IF m.bodyStream = <<>> THEN m
  ELSE LET s == m.bodyStream[1]
       IN  [bodyBuffer(closeBodyStream(m)) EXCEPT !.body = IF s.fails THEN <<"error">> ELSE s.data]

SwapBody(m, b) == [bodyBuffer(Body(m)) EXCEPT !.body = b]

bodyBytes(m) == IF m.bodyRaw # <<>> THEN m.bodyRaw[1] ELSE m.body

\* URI parses the URI once, from the host of the header.
URI(m) == IF m.uri = <<>> THEN [m EXCEPT !.uri = <<m.hd.host>>] ELSE m

SetHost(m, host) == [URI(m) EXCEPT !.uri = <<host>>]

SetRequestURI(m) == [m EXCEPT !.uri = <<>>]

\* All but the body stream, and the buffer only where there is no raw body.
CopyTo(m) ==
  [closeBodyStream(m) EXCEPT !.body = IF m.bodyRaw = <<>> THEN @ ELSE <<>>]

Reset(m) == NewMessage(m.hd.kind)

mustSkipBody(m) == m.skipBody \/ mustSkipContentLength(m.hd)

Compressed(b) == <<"gzip">> \o b

\* A compressed stream ends normally even when its source has failed.
gzipBody(m) ==
  LET Zipped(hd) == SetCanonical(hd, "Content-Encoding", <<"gzip">>)
      s == m.bodyStream[1]
  IN  IF peek(m.hd, "Content-Encoding") # <<>> THEN m
      ELSE IF m.bodyStream # <<>>
      THEN [m EXCEPT !.hd = Zipped(SetContentLength(@, Chunked)),
                     !.bodyStream = <<Stream(Compressed(s.data), FALSE, FALSE)>>]
      ELSE IF Len(bodyBytes(m)) < MinCompressLen THEN m
      ELSE [m EXCEPT !.hd = Zipped(@), !.bodyRaw = <<>>,
                     !.body = Compressed(bodyBytes(m))]

---------------------------------------------------------------------------
(* Write: the message afterwards, its tokens and whether it failed.        *)

Bytes(b) == [i \in DOMAIN b |-> Token("byte", b[i], <<>>)]

writeChunk(b) == <<Token("size", "", <<Len(b)>>)>> \o Bytes(b) \o <<CRLF>>

\* The stream hands out n bytes at a time; only its end writes the last chunk.
writeBodyChunked(s, n) ==
  LET chunks[i \in 0..Len(s.data)] ==
        LET j == IF i + n > Len(s.data) THEN Len(s.data) ELSE i + n
        IN  IF i = Len(s.data)
            THEN IF s.fails THEN <<>> ELSE writeChunk(<<>>)
            ELSE writeChunk(SubSeq(s.data, i + 1, j)) \o chunks[j]
  IN  chunks[0]

limitedReaderSize(s) == IF s.limited THEN Len(s.data) ELSE -1

Written(m, body, failed) ==
  [m |-> m, out |-> AppendBytes(m.hd) \o body, failed |-> failed]

writeBodyStream(m, sendBody, n) ==
  LET s == m.bodyStream[1]
      size == IF m.hd.length >= 0 THEN m.hd.length ELSE limitedReaderSize(s)
      told == IF size >= 0 THEN size ELSE Chunked
      sized == [m EXCEPT !.hd = IF m.hd.length >= 0 THEN @ ELSE SetContentLength(@, told)]
      sent == closeBodyStream(sized)
  IN  IF ~sendBody THEN Written(sent, <<>>, FALSE)
      ELSE IF size >= 0
      THEN Written(sent, Bytes(s.data), s.fails \/ Len(s.data) # size)
      ELSE Written(sent, writeBodyChunked(s, n), s.fails)

\* Mutant: an empty body is sent without a length.
WriteResponseNoLength(m, n) ==
  LET body == bodyBytes(m)
      sendBody == ~mustSkipBody(m)
      sent == [m EXCEPT !.hd = IF body # <<>> THEN SetContentLength(@, Len(body)) ELSE @]
  IN  IF m.bodyStream # <<>> THEN writeBodyStream(m, sendBody, n)
      ELSE Written(sent, Optional(sendBody, Bytes(body)), FALSE)

WriteResponse(m, n) ==
  LET body == bodyBytes(m)
      sendBody == ~mustSkipBody(m)
      sent == [m EXCEPT !.hd = IF sendBody \/ body # <<>>
                               THEN SetContentLength(@, Len(body)) ELSE @]
  IN  IF m.bodyStream # <<>> THEN writeBodyStream(m, sendBody, n)
      ELSE Written(sent, Optional(sendBody, Bytes(body)), FALSE)

\* The arguments of a form are the body of a request that has no other.
RequestBody(m) == IF bodyBytes(m) = <<>> THEN m.postArgs ELSE bodyBytes(m)

\* A request without a host is not written at all.
WriteRequest(m, n) ==
  LET named == IF m.hd.host = <<>> \/ m.uri # <<>>
               THEN [URI(m) EXCEPT !.hd.host = URI(m).uri[1]] ELSE m
      body == RequestBody(m)
      sent == [named EXCEPT !.hd = IF body # <<>> \/ ~ignoreBody(m.hd)
                                   THEN SetContentLength(@, Len(body)) ELSE @]
  IN  IF named.hd.host = <<>> THEN [m |-> URI(m), out |-> <<>>, failed |-> TRUE]
      ELSE IF m.bodyStream # <<>> THEN writeBodyStream(named, TRUE, n)
      ELSE Written(sent, Bytes(body), FALSE)

Write(m, n) == IF IsResponse(m.hd) THEN WriteResponse(m, n) ELSE WriteRequest(m, n)

---------------------------------------------------------------------------
(* Reading a body from the tokens that have arrived: how it ends, the      *)
(* bytes, and how many tokens were used.  "more" blocks.                   *)

Got(res, body, n) == [res |-> res, body |-> body, n |-> n]

Names(b) == [i \in DOMAIN b |-> b[i].k]

TooLarge(n) == MaxBodySize > 0 /\ n > MaxBodySize

appendBodyFixedSize(b, n, ended) ==
  IF Len(b) >= n THEN Got("ok", Names(SubSeq(b, 1, n)), n)
  ELSE Got(IF ended THEN "unexpectedEOF" ELSE "more", Names(b), Len(b))

\* A chunk is its size, its bytes and an end of line; the last one is empty.
readBodyChunked(b, ended) ==
  LET Starved(res) == Got(IF ended THEN res ELSE "more", <<>>, 0)
      read[i \in 0..Len(b), len \in 0..Len(b)] ==
        LET n == b[i + 1].v[1]
            j == i + n + 2   \* the end of line behind the chunk
            more == read[j, len + n]
        IN  IF i >= Len(b) THEN Starved("EOF")
            ELSE IF b[i + 1].t # "size" THEN Got("brokenChunk", <<>>, 0)
            ELSE IF TooLarge(len + n) THEN Got("tooLarge", <<>>, 0)
            ELSE IF j > Len(b) THEN Starved("unexpectedEOF")
            ELSE IF b[j].t # "crlf" THEN Got("brokenChunk", <<>>, 0)
            ELSE IF n = 0 THEN Got("ok", <<>>, j)
            ELSE Got(more.res, Names(SubSeq(b, i + 2, j - 1)) \o more.body, more.n)
  IN  read[0, 0]

readBodyIdentity(b, ended) ==
  IF TooLarge(Len(b)) THEN Got("tooLarge", Names(b), Len(b))
  ELSE Got(IF ended THEN "ok" ELSE "more", Names(b), Len(b))

readBody(length, b, ended) ==
  CASE length >= 0 /\ TooLarge(length) -> Got("tooLarge", <<>>, 0)
    [] length >= 0 /\ ~TooLarge(length) -> appendBodyFixedSize(b, length, ended)
    [] length = Chunked -> readBodyChunked(b, ended)
    [] length = Identity -> readBodyIdentity(b, ended)

---------------------------------------------------------------------------
(* The caller builds a message.  Every action is one call of a setter.     *)

\* Requests have a host, responses to HEAD are told to skip their body.
Fresh(kind) ==
  LET m == NewMessage(kind)
  IN  IF kind = "response"
      THEN {[m EXCEPT !.skipBody = skip] : skip \in BOOLEAN}
      ELSE {[m EXCEPT !.hd.host = <<"h1">>, !.hd.method = method] :
              method \in {"GET", "POST"}}

NothingWanted ==
  [body |-> <<>>, size |-> 0, head |-> <<>>, close |-> FALSE, left |-> 0,
   ends |-> FALSE, failed |-> FALSE, loose |-> FALSE, streamed |-> FALSE,
   broken |-> FALSE]

Init ==
  /\ \E kind \in Kinds : src \in Fresh(kind) /\ dst = NewMessage(kind)
  /\ phase = "build" /\ wire = <<>> /\ avail = 0 /\ tried = 0
  /\ eof = FALSE /\ first = TRUE /\ result = "none"
  /\ want = NothingWanted /\ calls = 0

Call(m) ==
  /\ phase = "build" /\ calls < MaxCalls
  /\ src' = m /\ calls' = calls + 1
  /\ UNCHANGED <<dst, phase, wire, avail, tried, eof, first, result, want>>

CallHeader(hd) == Call([src EXCEPT !.hd = hd])

CallSetBody == \E b \in Bodies : Call(SetBody(src, b))
CallAppendBody == \E b \in Bodies : Call(AppendBody(src, b))
CallSetBodyRaw == \E b \in Bodies : Call(SetBodyRaw(src, b))
CallSwapBody == \E b \in Bodies : Call(SwapBody(src, b))
CallResetBody == Call(ResetBody(src))
CallBody == Call(Body(src))
CallCopyTo == Call(CopyTo(src))

\* A source of a known, a wrong (it ends early) or an unknown size, one that
\* limits itself and one that fails.  GET and HEAD requests have no stream.
CallSetBodyStream ==
  /\ IsResponse(src.hd) \/ ~ignoreBody(src.hd)
  /\ \E b \in Bodies \ {<<>>} :
       LET plain == Stream(b, FALSE, FALSE)
       IN  \/ \E size \in {Len(b), Len(b) + 1, Chunked} :
                Call(SetBodyStream(src, plain, size))
           \/ Call(SetBodyStream(src, Stream(b, TRUE, FALSE), Chunked))
           \/ Call(SetBodyStream(src, Stream(b, FALSE, TRUE), Chunked))
           \/ IsResponse(src.hd) /\ Call(SetBodyStream(src, plain, Identity))

CallSet == \E p \in Pairs : CallHeader(SetCanonical(src.hd, p.k, p.v))
CallAdd == \E p \in Pairs : CallHeader(Add(src.hd, p.k, p.v))
CallDel == \E k \in Deletable : CallHeader(del(src.hd, k))
CallSetCookie == \E c \in Cookies : CallHeader(SetCookie(src.hd, c))
CallDelCookie == \E c \in Cookies : CallHeader(DelCookie(src.hd, c.k))
CallDelAllCookies == CallHeader(DelAllCookies(src.hd))
CallSetConnectionClose == CallHeader(SetConnectionClose(src.hd))
CallResetConnectionClose == CallHeader(ResetConnectionClose(src.hd))

\* SetContentLength sets the length of the stream or of the body that a
\* response to HEAD would have.
CallSetContentLength ==
  /\ IsResponse(src.hd) /\ src.bodyStream = <<>>
  /\ \E n \in Lengths : CallHeader(SetContentLength(src.hd, n))

CallSetStatusCode ==
  IsResponse(src.hd) /\ \E s \in Statuses : CallHeader([src.hd EXCEPT !.status = s])

CallSetProtocol == ~IsResponse(src.hd) /\ CallHeader([src.hd EXCEPT !.http11 = FALSE])
CallSetHost == ~IsResponse(src.hd) /\ Call(SetHost(src, <<"h2">>))
CallSetRequestURI == ~IsResponse(src.hd) /\ Call(SetRequestURI(src))
CallPostArgs == ~IsResponse(src.hd) /\ Call([src EXCEPT !.postArgs = <<"arg">>])

Build ==
  \/ CallSetBody \/ CallAppendBody \/ CallSetBodyRaw \/ CallSwapBody
  \/ CallResetBody \/ CallBody \/ CallCopyTo \/ CallSetBodyStream
  \/ CallSet \/ CallAdd \/ CallDel
  \/ CallSetCookie \/ CallDelCookie \/ CallDelAllCookies
  \/ CallSetConnectionClose \/ CallResetConnectionClose
  \/ CallSetContentLength \/ CallSetStatusCode \/ CallSetProtocol
  \/ CallSetHost \/ CallSetRequestURI \/ CallPostArgs

---------------------------------------------------------------------------
(* The message is written.                                                 *)

NextByte == Token("byte", "next", <<>>)

Framing == {"Content-Length", "Transfer-Encoding", "Connection"}

\* The headers a message shows, without those that frame it.
Visible(hd) == SelectSeq(VisitAll(hd), LAMBDA line : line.k \notin Framing)

\* Nothing tells the end of the body but the end of the connection.
Loose(hd) ==
  IsResponse(hd) /\ ~hd.hasLength /\ peekArg(hd.h, "Transfer-Encoding") # <<"chunked">>

\* What its writer knows of message m, of which Write has made w.
Wanted(m, w) ==
  LET body == IF m.bodyStream # <<>> THEN m.bodyStream[1].data
              ELSE IF IsResponse(m.hd) THEN bodyBytes(m) ELSE RequestBody(m)
      sent == IF IsResponse(m.hd) /\ mustSkipBody(m) THEN <<>> ELSE body
      ends == w.failed \/ w.m.hd.close
      bytes == {i \in DOMAIN w.out : w.out[i].t = "byte"}
  IN  [body |-> sent,
       size |-> IF w.m.hd.hasLength THEN w.m.hd.length ELSE Cardinality(bytes),
       head |-> Visible(w.m.hd), close |-> w.m.hd.close,
       left |-> IF ends THEN 0 ELSE 1, ends |-> ends, failed |-> w.failed,
       loose |-> Loose(w.m.hd), streamed |-> m.bodyStream # <<>>, broken |-> FALSE]

\* The bytes of w are on the connection, behind those of prefix.
Sent(prefix, w) ==
  /\ src' = w.m
  /\ phase' = IF w.out = <<>> THEN "done" ELSE "sent"
  /\ result' = IF w.out = <<>> THEN "unsent" ELSE "none"
  /\ wire' = IF w.out = <<>> THEN <<>>
             ELSE prefix \o w.out \o Optional(~want'.ends, <<NextByte>>)
  /\ avail' = 0 /\ tried' = 0 /\ eof' = FALSE /\ first' = TRUE
  /\ UNCHANGED <<dst, calls>>

WriteMessage ==
  /\ phase = "build"
  /\ \E n \in 1..2 : want' = Wanted(src, Write(src, n)) /\ Sent(<<>>, Write(src, n))

\* WriteGzip compresses the body of a response first.
WriteGzip ==
  /\ phase = "build" /\ IsResponse(src.hd)
  /\ \E n \in 1..2 : LET w == Write(gzipBody(src), n)
                    IN  want' = Wanted(src, w) /\ Sent(<<>>, w)

\* The server has asked for the body of the request before it answers.
WriteAfterContinue ==
  LET w == Write(src, 1)
      go == [NewHeader("response") EXCEPT !.status = 100]
  IN  /\ phase = "build" /\ IsResponse(src.hd) /\ calls < MaxCalls
      /\ want' = Wanted(src, w) /\ Sent(AppendBytes(go), w)

\* A response of another server, which ends with the connection: it has no
\* length, a length that is none, or says that it has none.
WriteForeign ==
  LET Lines == {<<>>, <<Line("Content-Length", <<BadLength>>)>>,
                <<Line("Transfer-Encoding", <<"identity">>)>>}
  IN  /\ phase = "build" /\ src \in Fresh("response") /\ ~src.skipBody
      /\ \E lines \in Lines, b \in Bodies, http11 \in BOOLEAN :
           LET out == <<Token("start", 200, <<http11>>)>> \o lines \o <<EndOfHeader>>
                        \o Bytes(b)
           IN  /\ want' = [NothingWanted EXCEPT !.body = b, !.size = Len(b),
                             !.close = TRUE, !.ends = TRUE, !.loose = TRUE]
               /\ Sent(<<>>, [m |-> src, out |-> out, failed |-> FALSE])

---------------------------------------------------------------------------
(* The message is read.                                                    *)

\* ReadLimitBody starts.  Whoever sent HEAD expects no body.
ReadStart ==
  /\ phase = "sent"
  /\ phase' = "header"
  /\ dst' = [ResetBody(dst) EXCEPT !.uri = <<>>, !.postArgs = <<>>,
                                   !.skipBody = src.skipBody]
  /\ UNCHANGED <<src, wire, avail, tried, eof, first, result, want, calls>>

Arrive ==
  /\ phase \in {"header", "body"} /\ ~eof
  /\ \E n \in avail + 1 .. Len(wire) : avail' = n
  /\ UNCHANGED <<src, dst, phase, wire, tried, eof, first, result, want, calls>>

\* The writer has closed the connection behind the message.
End ==
  /\ phase \in {"header", "body"} /\ ~eof /\ want.ends /\ avail = Len(wire)
  /\ eof' = TRUE
  /\ UNCHANGED <<src, dst, phase, wire, avail, tried, first, result, want, calls>>

\* The connection breaks.
Break ==
  /\ phase \in {"header", "body"} /\ ~eof
  /\ eof' = TRUE /\ wire' = SubSeq(wire, 1, avail)
  /\ want' = [want EXCEPT !.broken = TRUE]
  /\ UNCHANGED <<src, dst, phase, avail, tried, first, result, calls>>

Consume(n) ==
  wire' = SubSeq(wire, n + 1, Len(wire)) /\ avail' = avail - n /\ tried' = 0

Arrived == SubSeq(wire, 1, avail)

\* Mutant: the next attempt adds to what the last one has found.
tryReadOn == parse(dst.hd, Arrived)

\* One attempt to parse the header, from its first byte.
tryRead == parse(resetSkipNormalize(dst.hd), Arrived)

\* Read of the header: it is complete ...
HeaderRead ==
  LET p == tryRead
      again == first /\ IsResponse(p.hd) /\ p.hd.status = 100
  IN  /\ phase = "header" /\ (avail > tried \/ eof)
      /\ p.res = "ok"
      /\ dst' = [dst EXCEPT !.hd = p.hd]
      /\ phase' = IF again THEN "header" ELSE "body"
      /\ first' = FALSE
      /\ Consume(p.n)
      /\ UNCHANGED <<src, eof, result, want, calls>>

\* ... it is not, and more may come ...
HeaderPart ==
  /\ phase = "header" /\ avail > tried /\ ~eof
  /\ tryRead.res = "more"
  /\ dst' = [dst EXCEPT !.hd = tryRead.hd] /\ tried' = avail
  /\ UNCHANGED <<src, phase, wire, avail, eof, first, result, want, calls>>

\* ... or it never will be.
HeaderFails ==
  /\ phase = "header" /\ (avail > tried \/ eof)
  /\ tryRead.res = "error" \/ (tryRead.res = "more" /\ eof)
  /\ dst' = [dst EXCEPT !.hd = resetSkipNormalize(@)]
  /\ phase' = "done"
  /\ result' = IF \A i \in 1..avail : wire[i].t = "crlf" THEN "EOF" ELSE "error"
  /\ UNCHANGED <<src, wire, avail, tried, eof, first, want, calls>>

\* What is left to read of a message whose header is there, and the length
\* its header is given afterwards.
NoBody(m) ==
  IF IsResponse(m.hd) THEN mustSkipBody(m) ELSE m.hd.length = Identity

KeepsLength(m) == NoBody(m) /\ (IsResponse(m.hd) \/ ignoreBody(m.hd))

BodyRead ==
  IF NoBody(dst) THEN Got("ok", <<>>, 0)
  ELSE readBody(dst.hd.length, Arrived, eof)

ReadBody ==
  LET g == BodyRead
  IN  /\ phase = "body" /\ g.res # "more"
      /\ dst' = IF g.res # "ok" /\ ~IsResponse(dst.hd) THEN Reset(dst)
                ELSE [dst EXCEPT !.body = g.body,
                        !.hd = IF g.res # "ok" \/ KeepsLength(dst) THEN @
                               ELSE SetContentLength(@, Len(g.body))]
      /\ phase' = "done" /\ result' = g.res
      /\ Consume(g.n)
      /\ UNCHANGED <<src, eof, first, want, calls>>

---------------------------------------------------------------------------
(* The objects are used again.                                             *)

\* The writer's object is reset, the reader's is read into as it is.
NextMessage ==
  /\ phase = "done" /\ calls < MaxCalls
  /\ src' \in Fresh(src.hd.kind)
  /\ phase' = "build" /\ calls' = calls + 1
  /\ wire' = <<>> /\ avail' = 0 /\ tried' = 0 /\ eof' = FALSE
  /\ result' = "none" /\ want' = NothingWanted
  /\ UNCHANGED <<dst, first>>

\* A request that failed is written again as Write has left it, unless its
\* body was a stream.
Retry ==
  /\ phase = "done" /\ calls < MaxCalls
  /\ ~IsResponse(src.hd) /\ result \notin {"ok", "unsent"} /\ ~want.streamed
  /\ want' = [want EXCEPT !.broken = FALSE]
  /\ LET w == Write(src, 1)
     IN  /\ src' = w.m /\ phase' = "sent" /\ result' = "none"
         /\ wire' = w.out \o Optional(~want.ends, <<NextByte>>)
         /\ avail' = 0 /\ tried' = 0 /\ eof' = FALSE /\ first' = TRUE
         /\ calls' = calls + 1
         /\ UNCHANGED dst

Finished ==
  phase = "done" /\ calls = MaxCalls /\ UNCHANGED vars

Next ==
  \/ Build \/ WriteMessage \/ WriteGzip \/ WriteAfterContinue \/ WriteForeign
  \/ ReadStart \/ Arrive \/ End \/ Break
  \/ HeaderRead \/ HeaderPart \/ HeaderFails \/ ReadBody
  \/ NextMessage \/ Retry \/ Finished

Spec == Init /\ [][Next]_vars

---------------------------------------------------------------------------
(* Properties.                                                             *)

Delivered(m) ==
  IF peek(m.hd, "Content-Encoding") # <<>> /\ m.body # <<>> THEN Tail(m.body) ELSE m.body

\* A message that has arrived is accepted, unless its body is beyond the
\* limit of ReadLimitBody.  The body a reader accepts is the one that was
\* written, whole, and what follows it on the connection is left for the
\* next message: for every order of setters, every way of framing, every
\* division into chunks and pieces, and in spite of a break or of a source
\* that fails (readBody, Response.Write, Request.Write).  Only where nothing
\* but the end of the connection ends the body, a part may pass for the
\* whole.
Framed ==
  phase = "done" =>
    \/ result = "unsent"
    \/ result = "tooLarge" /\ want.size > MaxBodySize
    \/ result # "ok" /\ (want.broken \/ want.failed)
    \/ /\ result = "ok" /\ ~want.failed /\ ~TooLarge(Len(dst.body))
       /\ Delivered(dst) = want.body /\ Len(wire) <= want.left
    \/ /\ result = "ok" /\ want.loose /\ ~TooLarge(Len(dst.body))
       /\ IsPrefix(Delivered(dst), want.body) /\ wire = <<>>

\* The reader sees the headers and the cookies of the writer, in order and
\* each once, whatever the object it reads into has been used for and
\* however often the header was parsed before it was complete (tryRead).  A
\* connection that the writer closes is given up by the reader too, and one
\* that it keeps is given up only for a reason: an old protocol or a body
\* without an end (parseHeaders).
HeadersKept ==
  phase = "done" /\ result = "ok" =>
    /\ Visible(dst.hd) = want.head
    /\ want.close => dst.hd.close
    /\ dst.hd.close => want.close \/ want.loose \/ ~dst.hd.http11

\* A reader never waits for bytes that its writer does not send: once all
\* that was written has arrived, and the end of the connection if the writer
\* closes it, ReadLimitBody goes on until it returns.
NeverStarved ==
  avail = Len(wire) /\ (want.ends => eof) =>
    /\ phase = "header" => avail > tried \/ eof
    /\ phase = "body" => BodyRead.res # "more"
=============================================================================
