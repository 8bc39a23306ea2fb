------------------------------ MODULE Header ------------------------------
(***************************************************************************)
(* RequestHeader and ResponseHeader (header.go) over the lists of pairs of *)
(* args.go.  The two types share most of their code and are one record     *)
(* here, told apart by kind.                                               *)
(*                                                                         *)
(* A header that has a field of its own in the Go type (Content-Length,    *)
(* Connection: close, Host, the cookies) has one here too; all others are  *)
(* the pairs of h, in order.  Server, User-Agent, Content-Type and Date    *)
(* are plain strings that no decision depends on and are left out.  Names  *)
(* are in canonical form (normalizeHeaderKey has been applied).            *)
(*                                                                         *)
(* The bytes on the wire are a sequence of tokens: the first line, one per *)
(* header line, the empty line, and those of the body.  A value is a       *)
(* sequence: of the comma-separated parts of the text, or of cookies.      *)
(***************************************************************************)
EXTENDS Integers, Sequences, SequencesExt

Chunked == -1
Identity == -2
BadLength == -9   \* the value of a Content-Length line that is no number

KV(k, v) == [k |-> k, v |-> v]
Token(t, k, v) == [t |-> t, k |-> k, v |-> v]
Line(k, v) == Token("line", k, v)
EndOfHeader == Token("end", "", <<>>)
CRLF == Token("crlf", "", <<>>)

---------------------------------------------------------------------------
(* The lists of pairs of args.go.                                          *)

FirstArg(h, k) == SelectInSeq(h, LAMBDA kv : kv.k = k)

appendArg(h, k, v) == Append(h, KV(k, v))

setArg(h, k, v) ==
  LET i == FirstArg(h, k)
  IN  IF i = 0 THEN appendArg(h, k, v) ELSE [h EXCEPT ![i].v = v]

delAllArgs(h, k) == SelectSeq(h, LAMBDA kv : kv.k # k)

\* A missing pair is the empty value.
peekArg(h, k) ==
  LET i == FirstArg(h, k) IN IF i = 0 THEN <<>> ELSE h[i].v

hasHeaderValue(v, part) == \E i \in DOMAIN v : v[i] = part

---------------------------------------------------------------------------
(* What the fields of a header are set to.                                 *)

NewHeader(kind) ==
  [kind |-> kind, status |-> 200, method |-> "GET", http11 |-> TRUE,
   close |-> FALSE, length |-> 0, hasLength |-> FALSE, host |-> <<>>,
   h |-> <<>>, cookies |-> <<>>, collected |-> FALSE]

resetSkipNormalize(hd) == NewHeader(hd.kind)

IsResponse(hd) == hd.kind = "response"

mustSkipContentLength(hd) ==
  IsResponse(hd) /\ (hd.status \in {204, 304} \/ hd.status \in 100..199)

ignoreBody(hd) == hd.method \in {"GET", "HEAD"}

\* Mutant: a length leaves the Transfer-Encoding of an earlier stream.
SetContentLengthKeeps(hd, n) ==
  IF mustSkipContentLength(hd) THEN hd
  ELSE [hd EXCEPT !.length = n, !.hasLength = n >= 0,
                  !.close = @ \/ (IsResponse(hd) /\ n = Identity),
                  !.h = IF n >= 0 THEN @
                        ELSE setArg(@, "Transfer-Encoding", <<"chunked">>)]

SetContentLength(hd, n) ==
  IF mustSkipContentLength(hd) THEN hd
  ELSE IF n >= 0
  THEN [hd EXCEPT !.length = n, !.hasLength = TRUE,
                  !.h = delAllArgs(@, "Transfer-Encoding")]
  ELSE LET identity == IsResponse(hd) /\ n = Identity
       IN  [hd EXCEPT !.length = n, !.hasLength = FALSE,
                      !.close = @ \/ identity,
                      !.h = setArg(@, "Transfer-Encoding",
                              IF identity THEN <<"identity">> ELSE <<"chunked">>)]

SetConnectionClose(hd) == [hd EXCEPT !.close = TRUE]

ResetConnectionClose(hd) ==
  IF hd.close
  THEN [hd EXCEPT !.close = FALSE, !.h = delAllArgs(@, "Connection")]
  ELSE hd

\* A cookie of a response is kept under its own name with its whole text,
\* which is a cookie again.
AppendSetCookie(hd, v) == [hd EXCEPT !.cookies = appendArg(@, v[1].k, v)]

\* The Cookie lines of a request stay in h until somebody asks for a cookie.
collectCookies(hd) ==
  IF hd.collected \/ IsResponse(hd) THEN hd
  ELSE LET lines == SelectSeq(hd.h, LAMBDA kv : kv.k = "Cookie")
       IN  [hd EXCEPT !.cookies = FoldLeft(LAMBDA cs, kv : cs \o kv.v, @, lines),
                      !.h = delAllArgs(@, "Cookie"), !.collected = TRUE]

SetCookie(hd, c) ==
  LET hc == collectCookies(hd)
  IN  [hc EXCEPT !.cookies = setArg(@, c.k, IF IsResponse(hd) THEN <<c>> ELSE c.v)]

DelCookie(hd, k) ==
  LET hc == collectCookies(hd) IN [hc EXCEPT !.cookies = delAllArgs(@, k)]

DelAllCookies(hd) == [collectCookies(hd) EXCEPT !.cookies = <<>>]

CookieHeader(hd) == IF IsResponse(hd) THEN "Set-Cookie" ELSE "Cookie"

IsSpecial(hd, k) ==
  k \in {"Content-Length", "Connection", "Transfer-Encoding", CookieHeader(hd)}
          \union (IF IsResponse(hd) THEN {} ELSE {"Host"})

setSpecialHeader(hd, k, v) ==
  CASE k = "Content-Length" ->
         IF v[1] = BadLength THEN hd
         ELSE [hd EXCEPT !.length = v[1], !.hasLength = TRUE]
    [] k = "Connection" /\ v = <<"close">> -> SetConnectionClose(hd)
    [] k = "Connection" /\ v # <<"close">> ->
         [ResetConnectionClose(hd) EXCEPT !.h = setArg(@, k, v)]
    [] k = "Set-Cookie" -> AppendSetCookie(hd, v)
    [] k = "Cookie" -> [collectCookies(hd) EXCEPT !.cookies = @ \o v]
    [] k = "Host" -> [hd EXCEPT !.host = v]
    [] k = "Transfer-Encoding" -> hd

SetCanonical(hd, k, v) ==
  IF IsSpecial(hd, k) THEN setSpecialHeader(hd, k, v)
  ELSE [hd EXCEPT !.h = setArg(@, k, v)]

Add(hd, k, v) ==
  IF IsSpecial(hd, k) THEN setSpecialHeader(hd, k, v)
  ELSE [hd EXCEPT !.h = appendArg(@, k, v)]

del(hd, k) ==
  [hd EXCEPT !.h = delAllArgs(@, k),
             !.host = IF k = "Host" THEN <<>> ELSE @,
             !.cookies = IF k = CookieHeader(hd) THEN <<>> ELSE @,
             !.length = IF k = "Content-Length" THEN 0 ELSE @,
             !.hasLength = @ /\ k # "Content-Length",
             !.close = @ /\ k # "Connection"]

---------------------------------------------------------------------------
(* What a header shows, in the order in which it shows it.                 *)

peek(hd, k) ==
  CASE k = "Connection" /\ hd.close -> <<"close">>
    [] k = "Host" /\ ~IsResponse(hd) -> hd.host
    [] k = "Content-Length" -> IF hd.hasLength THEN <<hd.length>> ELSE <<>>
    [] k = "Cookie" /\ hd.collected -> hd.cookies
    [] OTHER -> peekArg(hd.h, k)

ConnectionUpgrade(hd) == hasHeaderValue(peek(hd, "Connection"), "upgrade")

Optional(present, lines) == IF present THEN lines ELSE <<>>

\* The cookies of a request share one line, those of a response have one each.
CookieLines(hd) ==
  IF IsResponse(hd)
  THEN [i \in DOMAIN hd.cookies |-> Line("Set-Cookie", hd.cookies[i].v)]
  ELSE Optional(hd.cookies # <<>>, <<Line("Cookie", hd.cookies)>>)

HeaderLines(hd) == [i \in DOMAIN hd.h |-> Line(hd.h[i].k, hd.h[i].v)]

LengthLine(hd) ==
  Optional(hd.hasLength, <<Line("Content-Length", <<hd.length>>)>>)

CloseLine(hd) == Optional(hd.close, <<Line("Connection", <<"close">>)>>)

HostLine(hd) == Optional(hd.host # <<>>, <<Line("Host", hd.host)>>)

VisitAll(hd) ==
  LET hc == collectCookies(hd)
  IN  HostLine(hc) \o LengthLine(hc) \o CookieLines(hc) \o HeaderLines(hc)
        \o CloseLine(hc)

---------------------------------------------------------------------------
(* Writing a header.                                                       *)

\* The status line always says HTTP/1.1; a request says what it was told.
FirstLine(hd) ==
  IF IsResponse(hd) THEN Token("start", hd.status, <<TRUE>>)
  ELSE Token("start", hd.method, <<hd.http11>>)

\* Connection: close comes last, behind a Connection line of h.
AppendBytes(hd) ==
  <<FirstLine(hd)>> \o HostLine(hd) \o LengthLine(hd) \o HeaderLines(hd)
    \o CookieLines(hd) \o CloseLine(hd) \o <<EndOfHeader>>

---------------------------------------------------------------------------
(* Reading a header.                                                       *)

parseContentLength(hd, n) ==
  IF hd.length = Chunked THEN hd
  ELSE IF n = BadLength THEN [hd EXCEPT !.length = Identity]
  ELSE [hd EXCEPT !.length = n, !.hasLength = TRUE]

\* One turn of the loop of parseHeaders.
parseLine(hd, line) ==
  CASE line.k = "Content-Length" -> parseContentLength(hd, line.v[1])
    [] line.k = "Connection" /\ line.v = <<"close">> -> SetConnectionClose(hd)
    [] line.k = "Connection" /\ line.v # <<"close">> ->
         [hd EXCEPT !.close = FALSE, !.h = appendArg(@, line.k, line.v)]
    [] line.k = "Transfer-Encoding" ->
         IF line.v = <<"identity">> THEN hd
         ELSE [hd EXCEPT !.length = Chunked, !.h = setArg(@, line.k, <<"chunked">>)]
    [] line.k = "Host" /\ ~IsResponse(hd) -> [hd EXCEPT !.host = line.v]
    [] line.k = "Set-Cookie" /\ IsResponse(hd) -> AppendSetCookie(hd, line.v)
    [] OTHER -> [hd EXCEPT !.h = appendArg(@, line.k, line.v)]

\* The end of a header.  A response without a length ends with the
\* connection; an older protocol closes it unless told otherwise.
HeaderComplete(hd) ==
  LET open == hd.length = Identity /\ IsResponse(hd) /\ ~ConnectionUpgrade(hd)
                /\ ~mustSkipContentLength(hd)
      framed == [hd EXCEPT !.hasLength = @ /\ hd.length >= 0,
                           !.h = IF open
                                 THEN setArg(@, "Transfer-Encoding", <<"identity">>)
                                 ELSE @,
                           !.close = @ \/ open]
  IN  IF framed.http11 THEN framed
      ELSE [framed EXCEPT !.close = @ \/
              ~hasHeaderValue(peekArg(framed.h, "Connection"), "keep-alive")]

parseFirstLine(hd, token) ==
  IF IsResponse(hd)
  THEN [hd EXCEPT !.status = token.k, !.http11 = token.v[1]]
  ELSE [hd EXCEPT !.method = token.k, !.http11 = token.v[1]]

\* The lines of a header, none of which has been read yet.
parseHeaders(hd, lines) ==
  FoldLeft(parseLine, [hd EXCEPT !.length = Identity], lines)

\* Where the empty line is, 0 if it has not arrived.
readRawHeaders(b) == SelectInSeq(b, LAMBDA x : x.t = "end")

\* The i-th line is none to the scanner, or is a length that only a response may
\* have; behind Transfer-Encoding it is not looked at.
BadLine(hd, lines, i) ==
  \/ lines[i].t # "line"
  \/ /\ ~IsResponse(hd) /\ lines[i].k = "Content-Length" /\ lines[i].v[1] = BadLength
     /\ \A j \in 1..(i - 1) :
          ~(lines[j].k = "Transfer-Encoding" /\ lines[j].v # <<"identity">>)

\* The header and what became of it: parsed up to and including the empty
\* line, n tokens of b; more bytes needed; or no header at all.  A request
\* looks for its empty line before it parses a header line, a response
\* parses what there is.
parse(hd, b) ==
  LET first == SelectInSeq(b, LAMBDA x : x.t # "crlf")
      end == readRawHeaders(b)
      started == parseFirstLine(hd, b[first])
      lines == SubSeq(b, first + 1, IF end = 0 THEN Len(b) ELSE end - 1)
      read == parseHeaders(started, lines)
  IN  IF first = 0 THEN [res |-> "more", hd |-> hd, n |-> 0]
      ELSE IF \/ b[first].t # "start"
              \/ /\ IsResponse(hd) \/ end # 0
                 /\ \E i \in DOMAIN lines : BadLine(hd, lines, i)
      THEN [res |-> "error", hd |-> SetConnectionClose(hd), n |-> 0]
      ELSE IF end = 0
      THEN [res |-> "more", n |-> 0,
            hd |-> IF IsResponse(hd) THEN SetConnectionClose(read) ELSE started]
      ELSE [res |-> "ok", hd |-> HeaderComplete(read), n |-> end]
=============================================================================
