---------------------------- MODULE ConnProofs ----------------------------
(***************************************************************************)
(* The proofs about a connection: that serveConn (ServeLoop) reads every   *)
(* header where it begins and loses no response, and that the in-memory    *)
(* connections (PipeConns) deliver what was written, to an end that the    *)
(* listener (InmemoryListener) has accepted once.                          *)
(***************************************************************************)
EXTENDS ServeLoop, InmemoryListener, PoolLemmas, TLAPS

(* serveConn: nothing that was written is lost, and every header is read where  *)
(* it begins.                                                                   *)
LToken == Nat \X {"H1", "H2", "B"}
LResponse == Nat \X {"ok", "empty", "417", "error"}

LoopTypeOK ==
    /\ conf \in [reduce : BOOLEAN, stream : BOOLEAN, deny : BOOLEAN]
    /\ kind \in Seq(Kinds) /\ part \in Nat
    /\ net \in Seq(LToken) /\ br \in Seq(LToken) /\ hasBr \in BOOLEAN
    /\ connRequestNum \in Nat /\ cur \in Nat
    /\ bw \in Seq(LResponse) /\ written \in Seq(LResponse) /\ out \in Seq(LResponse)

\* Responses stay in bw only while more of the pipeline is in br: whenever the loop
\* would end for want of it, bw is empty.
SentInv ==
    ~failed /\ ~conf.reduce =>
        /\ pc # "end" => out \o bw = written
        /\ pc = "end" /\ ~stop /\ ~Truncated => out = written
        /\ pc \in {"idle", "top"} /\ (~hasBr \/ br = <<>>) => bw = <<>>
        /\ pc \in {"byte", "peek", "headerWait"} /\ br = <<>> => bw = <<>>

-----------------------------------------------------------------------------
\* The token that follows t in the stream of requests k,
After(k, t) ==
    IF t[2] = "H1" THEN <<t[1], "H2">>
    ELSE IF t[2] = "H2" /\ k[t[1]].body # "none" THEN <<t[1], "B">>
    ELSE <<t[1] + 1, "H1">>

\* and q is the part of the stream from a up to, and without, z.
Chain(k, q, a, z) ==
    LET s == Append(q, z) IN s[1] = a /\ \A i \in 1..Len(q) : s[i + 1] = After(k, s[i])

\* The next token the client sends, and the next one the loop reads.
NextSent ==
    IF kind = <<>> THEN <<1, "H1">>
    ELSE IF part = Len(Parts(kind[Len(kind)])) THEN <<Len(kind) + 1, "H1">>
    ELSE <<Len(kind), Parts(kind[Len(kind)])[part + 1]>>

InBody == {"bodyStart", "body", "expect", "continue", "continueStart", "continueBody"}
InHeader == {"byte", "peek", "header", "headerWait"}

NextRead ==
    IF pc \in InHeader THEN <<connRequestNum, "H1">>
    ELSE IF pc \in InBody /\ kind[connRequestNum].body # "none" THEN <<connRequestNum, "B">>
    ELSE <<connRequestNum + 1, "H1">>

PartInv ==
    /\ kind = <<>> => part = 0
    /\ kind # <<>> => part \in 1..Len(Parts(kind[Len(kind)]))

\* What is on its way to the loop is the stream from a on, and after a header a is the
\* body of that request.
StreamFrom(a) ==
    /\ pc # "stream" /\ ~streamed
    /\ ~hasBr => br = <<>> /\ pc \notin InHeader \cup InBody
    /\ Chain(kind, br \o net, a, NextSent)
    /\ \A i \in 1..Len(br \o net) : (br \o net)[i][1] \in 1..Len(kind)
    /\ pc \in InBody => cur \in 1..Len(kind) /\ (kind[cur].body # "none" => a = <<cur, "B">>)
    /\ pc \in {"body", "continueBody"} => kind[cur].body # "none"

\* The loop knows where it is: a is what it is about to read.
AtRequest(a) == a = NextRead /\ (pc \in InBody => cur = connRequestNum)

\* A denied request may leave some of the stream behind, but no gap in it.
FramedInv ==
    ~conf.stream /\ pc # "end" =>
        \E a \in LToken : StreamFrom(a) /\ (~conf.deny => AtRequest(a))

LoopInv == LoopTypeOK /\ SentInv /\ PartInv /\ FramedInv

-----------------------------------------------------------------------------
\* The tokens of a request.
LEMMA PartsOf ==
    ASSUME NEW k
    PROVE  /\ Len(Parts(k)) = IF k.body = "none" THEN 2 ELSE 3
           /\ Parts(k)[1] = "H1" /\ Parts(k)[2] = "H2"
           /\ k.body # "none" => Parts(k)[3] = "B"
<1>1. ASSUME NEW S, NEW a \in S, NEW b \in S, NEW c \in S
      PROVE  /\ Len(<<a, b>> \o <<>>) = 2
             /\ (<<a, b>> \o <<>>)[1] = a /\ (<<a, b>> \o <<>>)[2] = b
             /\ Len(<<a, b>> \o <<c>>) = 3 /\ (<<a, b>> \o <<c>>)[1] = a
             /\ (<<a, b>> \o <<c>>)[2] = b /\ (<<a, b>> \o <<c>>)[3] = c
  OBVIOUS
<1>2. CASE k.body = "none"
  <2>1. Parts(k) = <<"H1", "H2">> \o <<>>
    BY <1>2 DEF Parts
  <2> QED BY <1>1, <1>2, <2>1
<1>3. CASE k.body # "none"
  <2>1. Parts(k) = <<"H1", "H2">> \o <<"B">>
    BY <1>3 DEF Parts
  <2> QED BY <1>1, <1>3, <2>1
<1> QED BY <1>2, <1>3

\* The actions of the client change only what it sends, and stop.
LEMMA ClientType == ASSUME LoopTypeOK, Client PROVE LoopTypeOK'
<1> USE DEF LoopTypeOK
<1>0. UNCHANGED <<conf, pc, readVars, writeVars, reqVars>>
  BY DEF Client, SendRequest, SendMore, ClientCloses, SetStop
<1>1. CASE SendRequest
  <2>1. <<Len(kind) + 1, "H1">> \in LToken
    BY DEF LToken
  <2> QED BY <1>0, <1>1, <2>1 DEF SendRequest, readVars, writeVars, reqVars
<1>2. CASE SendMore
  <2>1. PICK k : k = kind[Len(kind)]
    OBVIOUS
  <2>2. part + 1 \in 1..Len(Parts(k)) /\ Len(kind) \in Nat
    BY <1>2, <2>1, PartsOf DEF SendMore
  <2>3. Parts(k)[part + 1] \in {"H1", "H2", "B"}
    <3>1. PICK j \in Nat : j = part + 1
      BY <2>2
    <3>2. j = 1 \/ j = 2 \/ (j = 3 /\ k.body # "none")
      <4>1. CASE k.body = "none"
        <5>1. Len(Parts(k)) = 2
          BY <4>1, PartsOf
        <5> QED BY <2>2, <3>1, <5>1
      <4>2. CASE k.body # "none"
        <5>1. Len(Parts(k)) = 3
          BY <4>2, PartsOf
        <5> QED BY <2>2, <3>1, <4>2, <5>1
      <4> QED BY <4>1, <4>2
    <3> QED BY <3>1, <3>2, PartsOf
  <2>4. <<Len(kind), Parts(k)[part + 1]>> \in LToken
    BY <2>2, <2>3 DEF LToken
  <2> QED BY <1>0, <1>2, <2>1, <2>4 DEF SendMore, readVars, writeVars, reqVars
<1>3. CASE ClientCloses \/ SetStop
  BY <1>0, <1>3 DEF ClientCloses, SetStop, clientVars, readVars, writeVars, reqVars
<1> QED BY <1>1, <1>2, <1>3 DEF Client

\* Fill moves tokens from the connection to br.
LEMMA FillMoves ==
    ASSUME LoopTypeOK, Fill
    PROVE  /\ br' \in Seq(LToken) /\ net' \in Seq(LToken) /\ br' # <<>>
           /\ br' \o net' = br \o net
           /\ UNCHANGED <<conf, kind, part, pc, hasBr, streamed, writeVars, reqVars, stop>>
<1>1. PICK n \in 1..Len(net) :
          br' = br \o SubSeq(net, 1, n) /\ net' = SubSeq(net, n + 1, Len(net))
  BY DEF Fill
<1> DEFINE s == SubSeq(net, 1, n)
           t == SubSeq(net, n + 1, Len(net))
<1>2. /\ net \in Seq(LToken) /\ br \in Seq(LToken) /\ Len(net) \in Nat /\ n \in Nat /\ n >= 1
      /\ s \in Seq(LToken) /\ Len(s) = n /\ \A i \in 1..n : s[i] = net[i]
      /\ t \in Seq(LToken) /\ Len(t) = Len(net) - n
      /\ \A i \in 1..(Len(net) - n) : t[i] = net[i + n]
  BY DEF LoopTypeOK
<1> HIDE DEF s, t
<1>3. s \o t = net
  <2>1. s \o t \in Seq(LToken) /\ Len(s \o t) = Len(net)
    <3>1. s \o t \in Seq(LToken) /\ Len(s \o t) = Len(s) + Len(t)
      BY ONLY <1>2, ConcatProperties
    <3> QED BY <1>2, <3>1
  <2>2. ASSUME NEW i \in 1..Len(net) PROVE (s \o t)[i] = net[i]
    <3>1. CASE i <= n
      BY <1>2, <3>1
    <3>2. CASE i > n
      <4>1. i - n \in 1..(Len(net) - n) /\ (i - n) + n = i
        BY <1>2, <3>2
      <4>2. (s \o t)[i] = t[i - n]
        BY <1>2, <3>2
      <4> QED BY <1>2, <4>1, <4>2
    <3> QED BY <1>2, <3>1, <3>2
  <2> QED BY ONLY <1>2, <2>1, <2>2, SeqEqual
<1>4. (br \o s) \o t = br \o (s \o t)
  BY <1>2
<1>5. br \o s \in Seq(LToken) /\ br \o s # <<>>
  BY <1>2
<1>6. br' = br \o s /\ net' = t
  BY <1>1 DEF s, t
<1> QED BY <1>2, <1>3, <1>4, <1>5, <1>6 DEF Fill

\* What is written, and what is sent.
LEMMA ResponseType ==
    ASSUME LoopTypeOK PROVE Answer \in LResponse /\ <<connRequestNum, "error">> \in LResponse
BY DEF LoopTypeOK, LResponse, Answer

LEMMA FlushType ==
    ASSUME LoopTypeOK, NEW w \in Seq(LResponse), Flush(w)
    PROVE  out' \in Seq(LResponse) /\ bw' \in Seq(LResponse) /\ out' = out \o w /\ bw' = <<>>
BY DEF LoopTypeOK, Flush

\* The error response ends the loop with all responses sent.
LEMMA ErrorType ==
    ASSUME LoopTypeOK, ErrorResponse
    PROVE  /\ out' \in Seq(LResponse) /\ bw' = <<>> /\ written' \in Seq(LResponse)
           /\ br' = <<>> /\ hasBr' = FALSE /\ pc' = "end"
           /\ out \o bw = written => out' = written'
<1>1. PICK r \in LResponse : r = <<connRequestNum, "error">>
  BY ResponseType
<1>2. out \in Seq(LResponse) /\ bw \in Seq(LResponse) /\ written \in Seq(LResponse)
  BY DEF LoopTypeOK
<1>3. /\ written' = Append(written, r) /\ out' = out \o Append(bw, r) /\ bw' = <<>>
      /\ br' = <<>> /\ hasBr' = FALSE /\ pc' = "end"
  BY <1>1 DEF ErrorResponse, Flush
<1>4. out \o Append(bw, r) = Append(out \o bw, r)
  BY <1>2
<1> QED BY <1>2, <1>3, <1>4

\* Steps of the loop that write nothing.
LEMMA QuietType ==
    ASSUME LoopTypeOK, Reading \/ Answering,
           Peeked \/ PeekFails \/ HeaderRead \/ HeaderEOF \/ BodyRead \/ Prefetch \/ BodyEOF
              \/ ExpectDenied \/ ExpectAccepted \/ Handle \/ StreamRead \/ CheckStop \/ Top
              \/ Fill
    PROVE  LoopTypeOK' /\ UNCHANGED <<conf, writeVars>>
<1> USE DEF LoopTypeOK, clientVars, readVars, writeVars, reqVars
<1>0. ASSUME NEW s \in Seq(LToken), s # <<>> PROVE Tail(s) \in Seq(LToken)
  BY <1>0
<1>1. CASE Fill
  BY <1>1, FillMoves
<1>2. CASE Top
  BY <1>2 DEF Top
<1>3. CASE Peeked \/ PeekFails \/ HeaderEOF \/ ExpectAccepted \/ Handle \/ CheckStop
  BY <1>3 DEF Peeked, PeekFails, HeaderEOF, ExpectAccepted, Handle, CheckStop
<1>4. CASE HeaderRead
  <2>1. Len(br) > 1 /\ Len(br) \in Nat
    BY <1>4 DEF HeaderRead, HeaderReady
  <2>2. br[1] \in LToken /\ Head(br) = br[1]
    BY <2>1
  <2>3. Head(br)[1] \in Nat
    BY <2>2 DEF LToken
  <2>4. Tail(br) \in Seq(LToken) /\ Len(Tail(br)) = Len(br) - 1
    BY <2>1
  <2>5. Tail(Tail(br)) \in Seq(LToken)
    <3>1. Tail(br) # <<>>
      <4>1. Len(Tail(br)) > 0
        BY <2>1, <2>4
      <4>2. Len(<<>>) = 0 /\ Len(Tail(br)) \in Nat
        BY <2>4
      <4> QED BY ONLY <4>1, <4>2
    <3> QED BY <1>0, <2>4, <3>1
  <2> QED BY <1>4, <2>3, <2>5 DEF HeaderRead
<1>5. CASE BodyRead
  <2>1. Tail(br) \in Seq(LToken)
    BY <1>0, <1>5 DEF BodyRead
  <2> QED BY <1>5, <2>1 DEF BodyRead, AfterRead
<1>6. CASE ExpectDenied
  BY <1>6 DEF ExpectDenied
<1>7. CASE StreamRead
  BY <1>0, <1>7 DEF StreamRead
<1>8. CASE Prefetch
  <2>1. br' \in Seq(LToken)
    <3>1. ASSUME NEW n \in 1..Len(br) PROVE SubSeq(br, n + 1, Len(br)) \in Seq(LToken)
      OBVIOUS
    <3>2. <<>> \in Seq(LToken)
      OBVIOUS
    <3> QED BY <1>8, <3>1, <3>2 DEF Prefetch, AfterRead
  <2>2. net' \in Seq(LToken)
    <3>1. br \o net \in Seq(LToken)
      BY ConcatProperties
    <3> QED BY <1>8, <3>1 DEF Prefetch
  <2>3. hasBr' \in BOOLEAN
    BY <1>8 DEF Prefetch, AfterRead
  <2> QED BY <1>8, <2>1, <2>2, <2>3 DEF Prefetch
<1>9. CASE BodyEOF
  <2>1. br' \in Seq(LToken)
    <3>1. br' = br \/ br' = <<>>
      BY <1>9 DEF BodyEOF, AfterRead
    <3>2. <<>> \in Seq(LToken)
      OBVIOUS
    <3> QED BY <3>1, <3>2
  <2>2. hasBr' \in BOOLEAN
    BY <1>9 DEF BodyEOF, AfterRead
  <2> QED BY <1>9, <2>1, <2>2 DEF BodyEOF
<1> QED BY <1>1, <1>2, <1>3, <1>4, <1>5, <1>6, <1>7, <1>8, <1>9

LEMMA ErrorStep ==
    ASSUME LoopTypeOK, SentInv, pc # "end", ErrorResponse,
           UNCHANGED <<conf, clientVars, failed, reqVars>>
    PROVE  LoopTypeOK' /\ SentInv'
<1>1. /\ out' \in Seq(LResponse) /\ bw' = <<>> /\ written' \in Seq(LResponse)
      /\ br' = <<>> /\ hasBr' = FALSE /\ pc' = "end"
      /\ out \o bw = written => out' = written'
  BY ErrorType
<1>2. LoopTypeOK'
  <2>1. <<>> \in Seq(LToken) /\ <<>> \in Seq(LResponse)
    OBVIOUS
  <2> QED BY <1>1, <2>1 DEF LoopTypeOK, clientVars, reqVars
<1>3. SentInv'
  BY <1>1 DEF SentInv
<1> QED BY <1>2, <1>3

\* A flush of bw alone.
LEMMA FlushStep ==
    ASSUME LoopTypeOK, Flush(bw)
    PROVE  /\ out' \in Seq(LResponse) /\ bw' \in Seq(LResponse) /\ bw' = <<>>
           /\ out \o bw = written => out' \o bw' = written
<1>1. out \in Seq(LResponse) /\ bw \in Seq(LResponse)
  BY DEF LoopTypeOK
<1>2. out' = out \o bw /\ bw' = <<>> /\ out \o bw \in Seq(LResponse)
  BY <1>1 DEF Flush
<1> QED BY <1>1, <1>2

LEMMA AnswerStep ==
    ASSUME LoopTypeOK, SentInv, WriteResponse \/ WriteHijack PROVE LoopTypeOK' /\ SentInv'
<1>0. /\ out \in Seq(LResponse) /\ bw \in Seq(LResponse) /\ written \in Seq(LResponse)
      /\ UNCHANGED <<conf, clientVars, readVars, failed, reqVars, stop>> /\ pc = "write"
  BY DEF LoopTypeOK, WriteResponse, WriteHijack
<1>1. PICK r \in LResponse : r = Answer
  BY ResponseType
<1>2. CASE WriteResponse
  <2>1. PICK connectionClose \in BOOLEAN :
            /\ IF ~hasBr \/ br = <<>> \/ connectionClose
               THEN Flush(Append(bw, Answer))
               ELSE /\ bw' = IF conf.reduce THEN <<>> ELSE Append(bw, Answer)
                    /\ UNCHANGED out
            /\ pc' = IF connectionClose THEN "end" ELSE "idle"
    BY <1>2 DEF WriteResponse
  <2>2. written' = Append(written, r)
    BY <1>1, <1>2 DEF WriteResponse
  <2>3. /\ out \o Append(bw, r) = Append(out \o bw, r)
        /\ Append(bw, r) \in Seq(LResponse) /\ Append(written, r) \in Seq(LResponse)
        /\ out \o Append(bw, r) \in Seq(LResponse)
    BY <1>0
  <2>4. CASE ~hasBr \/ br = <<>> \/ connectionClose
    <3>1. out' = out \o Append(bw, r) /\ bw' = <<>>
      BY <1>1, <2>1, <2>4 DEF Flush
    <3>2. out' \o bw' = out'
      BY <2>3, <3>1
    <3>3. LoopTypeOK'
      BY <1>0, <2>2, <2>3, <3>1 DEF LoopTypeOK, clientVars, readVars, reqVars
    <3>4. SentInv'
      BY <1>0, <2>1, <2>2, <2>3, <3>1, <3>2 DEF SentInv
    <3> QED BY <3>3, <3>4
  <2>5. CASE ~(~hasBr \/ br = <<>> \/ connectionClose)
    <3>1. /\ out' = out /\ bw' = (IF conf.reduce THEN <<>> ELSE Append(bw, r)) /\ pc' = "idle"
          /\ hasBr /\ br # <<>>
      BY <1>1, <2>1, <2>5
    <3>2. LoopTypeOK'
      BY <1>0, <2>2, <2>3, <3>1 DEF LoopTypeOK, clientVars, readVars, reqVars
    <3>3. hasBr' /\ br' # <<>>
      BY <1>0, <3>1 DEF readVars
    <3>4. SentInv'
      BY <1>0, <2>2, <2>3, <3>1, <3>3 DEF SentInv
    <3> QED BY <3>2, <3>4
  <2> QED BY <2>4, <2>5
<1>3. CASE WriteHijack
  <2>1. PICK w \in {<<>>, <<r>>} : written' = written \o w /\ Flush(bw \o w) /\ pc' = "end"
    BY <1>1, <1>3 DEF WriteHijack
  <2>2. w \in Seq(LResponse)
    <3>1. <<>> \in Seq(LResponse) /\ <<r>> \in Seq(LResponse)
      OBVIOUS
    <3> QED BY <2>1, <3>1
  <2>3. /\ written' = written \o w /\ out' = out \o (bw \o w) /\ bw' = <<>>
        /\ out \o (bw \o w) = (out \o bw) \o w
        /\ written \o w \in Seq(LResponse) /\ out \o (bw \o w) \in Seq(LResponse)
    BY <1>0, <2>1, <2>2 DEF Flush
  <2>4. LoopTypeOK'
    BY <1>0, <2>3 DEF LoopTypeOK, clientVars, readVars, reqVars
  <2>5. SentInv'
    BY <1>0, <2>1, <2>3 DEF SentInv
  <2> QED BY <2>4, <2>5
<1> QED BY <1>2, <1>3

-----------------------------------------------------------------------------
(* The stream of tokens. *)

\* It may be stated without the sequence it ends in.
LEMMA ChainPoints ==
    ASSUME NEW T, NEW k, NEW q \in Seq(T), NEW a, NEW z \in T
    PROVE  Chain(k, q, a, z) <=>
               /\ q = <<>> => a = z
               /\ q # <<>> => q[1] = a /\ After(k, q[Len(q)]) = z
               /\ \A i \in 1..(Len(q) - 1) : q[i + 1] = After(k, q[i])
<1>1. PICK n \in Nat : n = Len(q)
  OBVIOUS
<1>2. PICK s \in Seq(T) : /\ s = Append(q, z) /\ Len(s) = n + 1 /\ s[n + 1] = z
                          /\ \A i \in 1..n : s[i] = q[i]
  <2>1. /\ Append(q, z) \in Seq(T) /\ Len(Append(q, z)) = Len(q) + 1
        /\ Append(q, z)[Len(q) + 1] = z
        /\ \A i \in 1..Len(q) : Append(q, z)[i] = q[i]
    OBVIOUS
  <2> QED BY <1>1, <2>1
<1>3. Chain(k, q, a, z) <=> s[1] = a /\ \A i \in 1..n : s[i + 1] = After(k, s[i])
  BY <1>1, <1>2 DEF Chain
<1>4. q = <<>> <=> n = 0
  BY <1>1, EmptySeq
<1>5. CASE n = 0
  <2>1. s[1] = z
    BY <1>2, <1>5
  <2> QED BY <1>1, <1>3, <1>4, <1>5, <2>1
<1>6. CASE n # 0
  <2>1. s[1] = q[1] /\ s[n] = q[n] /\ n \in 1..n /\ q # <<>>
    BY <1>2, <1>4, <1>6
  <2>2. (\A i \in 1..n : s[i + 1] = After(k, s[i])) <=>
            s[n + 1] = After(k, s[n]) /\ \A i \in 1..(n - 1) : s[i + 1] = After(k, s[i])
    <3>1. ASSUME s[n + 1] = After(k, s[n]), \A i \in 1..(n - 1) : s[i + 1] = After(k, s[i])
          PROVE  \A i \in 1..n : s[i + 1] = After(k, s[i])
      <4> TAKE i \in 1..n
      <4>1. i = n \/ i \in 1..(n - 1)
        OBVIOUS
      <4> QED BY <3>1, <4>1
    <3>2. ASSUME \A i \in 1..n : s[i + 1] = After(k, s[i])
          PROVE  s[n + 1] = After(k, s[n]) /\ \A i \in 1..(n - 1) : s[i + 1] = After(k, s[i])
      <4>1. \A i \in 1..(n - 1) : i \in 1..n
        OBVIOUS
      <4> QED BY <2>1, <3>2, <4>1
    <3> QED BY <3>1, <3>2
  <2>3. \A i \in 1..(n - 1) : s[i + 1] = q[i + 1] /\ s[i] = q[i]
    BY <1>2
  <2> QED BY <1>1, <1>2, <1>3, <1>4, <2>1, <2>2, <2>3
<1> QED BY <1>5, <1>6

\* The loop takes the first token;
LEMMA ChainTail ==
    ASSUME NEW T, NEW k, NEW q \in Seq(T), NEW a, NEW z \in T, q # <<>>, Chain(k, q, a, z)
    PROVE  Head(q) = a /\ Chain(k, Tail(q), After(k, a), z)
<1>1. PICK n \in Nat : n = Len(q) /\ n > 0
  BY EmptySeq
<1>2. /\ q[1] = a /\ After(k, q[n]) = z
      /\ \A i \in 1..(n - 1) : q[i + 1] = After(k, q[i])
  <2>1. /\ q[1] = a /\ After(k, q[Len(q)]) = z
        /\ \A i \in 1..(Len(q) - 1) : q[i + 1] = After(k, q[i])
    BY ChainPoints
  <2> QED BY <1>1, <2>1
<1>3. PICK t \in Seq(T) : /\ t = Tail(q) /\ Len(t) = n - 1
                          /\ \A i \in 1..(n - 1) : t[i] = q[i + 1]
  <2>1. /\ Tail(q) \in Seq(T) /\ Len(Tail(q)) = Len(q) - 1
        /\ \A i \in 1..(Len(q) - 1) : Tail(q)[i] = q[i + 1]
    OBVIOUS
  <2> QED BY <1>1, <2>1
<1>4. Head(q) = a
  BY <1>1, <1>2
<1>5. CASE n = 1
  <2>1. Len(t) = 0
    BY <1>3, <1>5
  <2>2. t = <<>>
    BY <2>1, EmptySeq
  <2>3. After(k, a) = z
    BY <1>2, <1>5
  <2>4. \A i \in 1..(Len(t) - 1) : FALSE
    BY <2>1
  <2>5. Chain(k, t, After(k, a), z)
    BY <2>2, <2>3, <2>4, ChainPoints
  <2> QED BY <1>3, <1>4, <2>5
<1>6. CASE n > 1
  <2>1. t # <<>>
    <3>1. Len(t) > 0
      BY <1>3, <1>6
    <3>2. t = <<>> => Len(t) = 0
      OBVIOUS
    <3> QED BY ONLY <3>1, <3>2
  <2>2. t[1] = After(k, a)
    <3>1. 1 \in 1..(n - 1) /\ 1 + 1 = 2
      BY <1>6
    <3> QED BY <1>2, <1>3, <3>1
  <2>3. t[Len(t)] = q[n]
    <3>1. n - 1 \in 1..(n - 1) /\ (n - 1) + 1 = n
      BY <1>6
    <3> QED BY <1>3, <3>1
  <2>4. ASSUME NEW i \in 1..(Len(t) - 1) PROVE t[i + 1] = After(k, t[i])
    <3>1. PICK j \in 1..(n - 1) : j = i + 1
      BY <1>3
    <3>2. i \in 1..(n - 1)
      BY <1>3
    <3>3. t[j] = q[j + 1] /\ t[i] = q[j]
      BY <1>3, <3>1, <3>2
    <3> QED BY <1>2, <3>1, <3>3
  <2>5. Chain(k, t, After(k, a), z)
    BY <1>2, <2>1, <2>2, <2>3, <2>4, ChainPoints
  <2> QED BY <1>3, <1>4, <2>5
<1> QED BY <1>1, <1>5, <1>6

\* the client adds one at the end;
LEMMA ChainAppend ==
    ASSUME NEW T, NEW k, NEW q \in Seq(T), NEW a, NEW z \in T, Chain(k, q, a, z),
           After(k, z) \in T
    PROVE  Chain(k, Append(q, z), a, After(k, z))
<1>1. PICK n \in Nat : n = Len(q)
  OBVIOUS
<1>2. PICK s \in Seq(T) : /\ s = Append(q, z) /\ Len(s) = n + 1 /\ s[n + 1] = z
                          /\ \A i \in 1..n : s[i] = q[i]
  <2>1. /\ Append(q, z) \in Seq(T) /\ Len(Append(q, z)) = Len(q) + 1
        /\ Append(q, z)[Len(q) + 1] = z
        /\ \A i \in 1..Len(q) : Append(q, z)[i] = q[i]
    OBVIOUS
  <2> QED BY <1>1, <2>1
<1>3. s[1] = a /\ \A i \in 1..n : s[i + 1] = After(k, s[i])
  BY <1>1, <1>2 DEF Chain
<1>4. s # <<>> /\ (n + 1) - 1 = n
  BY <1>2, EmptySeq
<1>5. Chain(k, s, a, After(k, z))
  <2>1. /\ s # <<>> /\ s[1] = a /\ After(k, s[Len(s)]) = After(k, z)
        /\ \A i \in 1..(Len(s) - 1) : s[i + 1] = After(k, s[i])
    BY <1>2, <1>3, <1>4
  <2> QED BY ONLY <2>1, s \in Seq(T), After(k, z) \in T, ChainPoints
<1> QED BY <1>2, <1>5

\* and a later request does not change what was sent.
LEMMA ChainSame ==
    ASSUME NEW T, NEW k, NEW l, NEW q \in Seq(T), NEW a, NEW z \in T, Chain(k, q, a, z),
           \A i \in 1..Len(q) : After(l, q[i]) = After(k, q[i])
    PROVE  Chain(l, q, a, z)
<1>1. PICK n \in Nat : n = Len(q)
  OBVIOUS
<1>2. /\ q = <<>> => a = z
      /\ q # <<>> => q[1] = a /\ After(k, q[n]) = z
      /\ \A i \in 1..(n - 1) : q[i + 1] = After(k, q[i])
  <2>1. /\ q = <<>> => a = z
        /\ q # <<>> => q[1] = a /\ After(k, q[Len(q)]) = z
        /\ \A i \in 1..(Len(q) - 1) : q[i + 1] = After(k, q[i])
    BY ChainPoints
  <2> QED BY <1>1, <2>1
<1>3. q # <<>> => n \in 1..n
  BY <1>1, EmptySeq
<1>4. \A i \in 1..(n - 1) : i \in 1..n
  OBVIOUS
<1>5. /\ q # <<>> => After(l, q[n]) = z
      /\ \A i \in 1..(n - 1) : q[i + 1] = After(l, q[i])
  BY <1>1, <1>2, <1>3, <1>4
<1> QED BY <1>1, <1>2, <1>5, ChainPoints

\* What is left of it when its first part is dropped has no gap either.
LEMMA ChainDrop ==
    ASSUME NEW T, NEW k, NEW b \in Seq(T), NEW q \in Seq(T), NEW a, NEW z \in T,
           Chain(k, b \o q, a, z)
    PROVE  \E c \in T : Chain(k, q, c, z)
<1>1. PICK m \in Nat, n \in Nat : m = Len(b) /\ n = Len(q)
  OBVIOUS
<1>2. PICK s \in Seq(T) : /\ s = b \o q /\ Len(s) = m + n
                          /\ \A i \in 1..n : s[m + i] = q[i]
  <2>1. b \o q \in Seq(T) /\ Len(b \o q) = Len(b) + Len(q)
        /\ \A i \in 1..Len(q) : (b \o q)[Len(b) + i] = q[i]
    BY ConcatProperties
  <2> QED BY <1>1, <2>1
<1>3. /\ s # <<>> => After(k, s[m + n]) = z
      /\ \A i \in 1..((m + n) - 1) : s[i + 1] = After(k, s[i])
  <2>1. /\ s # <<>> => After(k, s[Len(s)]) = z
        /\ \A i \in 1..(Len(s) - 1) : s[i + 1] = After(k, s[i])
    <3>1. Chain(k, s, a, z)
      BY <1>2
    <3> QED BY ONLY <3>1, ChainPoints, s \in Seq(T), z \in T
  <2> QED BY <1>2, <2>1
<1>4. CASE n = 0
  <2>1. q = <<>> /\ \A i \in 1..(Len(q) - 1) : FALSE
    <3>1. Len(q) = 0
      BY <1>1, <1>4
    <3>2. q = <<>>
      BY ONLY <3>1, q \in Seq(T), EmptySeq
    <3> QED BY <3>1, <3>2
  <2>2. Chain(k, q, z, z)
    BY <2>1, ChainPoints
  <2> QED BY <2>2
<1>5. CASE n > 0
  <2>1. q # <<>> /\ s # <<>> /\ q[1] \in T
    <3>1. Len(q) # 0 /\ Len(s) # 0
      BY <1>1, <1>2, <1>5
    <3> QED BY <1>1, <1>5, <3>1, EmptySeq
  <2>2. After(k, q[Len(q)]) = z
    <3>1. s[m + n] = q[n]
      BY <1>2, <1>5
    <3> QED BY <1>1, <1>3, <2>1, <3>1
  <2>3. ASSUME NEW i \in 1..(Len(q) - 1) PROVE q[i + 1] = After(k, q[i])
    <3>1. i \in 1..n /\ i + 1 \in 1..n /\ m + i \in 1..((m + n) - 1)
      BY <1>1
    <3>2. s[m + (i + 1)] = q[i + 1] /\ s[m + i] = q[i]
      BY <1>2, <3>1
    <3>3. s[(m + i) + 1] = After(k, s[m + i])
      BY <1>3, <3>1
    <3>4. (m + i) + 1 = m + (i + 1)
      BY <3>1
    <3> QED BY <3>2, <3>3, <3>4
  <2>4. Chain(k, q, q[1], z)
    BY <2>1, <2>2, <2>3, ChainPoints
  <2> QED BY <2>1, <2>4
<1> QED BY <1>4, <1>5

-----------------------------------------------------------------------------
\* What is sent next is a token, and it does not depend on the loop.
LEMMA NextSentType == ASSUME LoopTypeOK, PartInv PROVE NextSent \in LToken
<1>1. CASE kind = <<>>
  BY <1>1 DEF NextSent, LToken
<1>2. CASE kind # <<>>
  <2>1. PICK k : k = kind[Len(kind)]
    OBVIOUS
  <2>2. Len(kind) \in Nat /\ part \in 1..Len(Parts(k))
    BY <1>2, <2>1 DEF PartInv, LoopTypeOK
  <2>3. CASE part = Len(Parts(k))
    BY <1>2, <2>1, <2>2, <2>3 DEF NextSent, LToken
  <2>4. CASE part # Len(Parts(k))
    <3>1. NextSent = <<Len(kind), Parts(k)[part + 1]>>
      BY <1>2, <2>1, <2>4 DEF NextSent
    <3>2. Parts(k)[part + 1] \in {"H2", "B"}
      <4>1. CASE k.body = "none"
        <5>1. Len(Parts(k)) = 2 /\ Parts(k)[2] = "H2"
          BY <4>1, PartsOf
        <5>2. part + 1 = 2
          BY <2>2, <2>4, <5>1
        <5> QED BY <5>1, <5>2
      <4>2. CASE k.body # "none"
        <5>1. Len(Parts(k)) = 3 /\ Parts(k)[2] = "H2" /\ Parts(k)[3] = "B"
          BY <4>2, PartsOf
        <5>2. part + 1 = 2 \/ part + 1 = 3
          BY <2>2, <2>4, <5>1
        <5> QED BY <5>1, <5>2
      <4> QED BY <4>1, <4>2
    <3> QED BY <2>2, <3>1, <3>2 DEF LToken
  <2> QED BY <2>3, <2>4
<1> QED BY <1>1, <1>2

\* The client sends its next token, and the one after that follows it in the stream.
LEMMA ClientSends ==
    ASSUME LoopTypeOK, PartInv, SendRequest \/ SendMore
    PROVE  /\ net' = Append(net, NextSent) /\ PartInv'
           /\ NextSent' = After(kind', NextSent) /\ NextSent[1] \in 1..Len(kind')
           /\ \A n \in 1..Len(kind) : n \in 1..Len(kind') /\ kind'[n] = kind[n]
<1>0. PICK n \in Nat : n = Len(kind)
  BY DEF LoopTypeOK
<1>1. kind = <<>> <=> n = 0
  BY <1>0, EmptySeq DEF LoopTypeOK
<1>2. CASE SendRequest
  <2>1. PICK k : /\ kind' = Append(kind, k) /\ k \in Kinds /\ part' = 1
                 /\ net' = Append(net, <<n + 1, "H1">>)
                 /\ kind # <<>> => part = Len(Parts(kind[Len(kind)]))
    BY <1>0, <1>2 DEF SendRequest
  <2>2. NextSent = <<n + 1, "H1">>
    BY <1>0, <1>1, <2>1 DEF NextSent
  <2>3. /\ Len(kind') = n + 1 /\ kind'[n + 1] = k /\ kind' # <<>>
        /\ \A i \in 1..n : kind'[i] = kind[i]
    <3>1. /\ Len(Append(kind, k)) = Len(kind) + 1 /\ Append(kind, k)[Len(kind) + 1] = k
          /\ Append(kind, k) # <<>>
          /\ \A i \in 1..Len(kind) : Append(kind, k)[i] = kind[i]
      BY <2>1 DEF LoopTypeOK
    <3> QED BY <1>0, <2>1, <3>1
  <2>4. kind'[Len(kind')] = k
    BY <2>3
  <2>5. Len(Parts(k)) \in {2, 3} /\ Parts(k)[2] = "H2"
    BY PartsOf
  <2>6. NextSent' = <<n + 1, "H2">>
    BY <2>1, <2>3, <2>4, <2>5 DEF NextSent
  <2>7. After(kind', NextSent) = <<n + 1, "H2">>
    BY <2>2 DEF After
  <2>8. PartInv'
    BY <2>1, <2>3, <2>4, <2>5 DEF PartInv
  <2>9. \A i \in 1..n : i \in 1..(n + 1)
    OBVIOUS
  <2> QED BY <1>0, <2>1, <2>2, <2>3, <2>6, <2>7, <2>8, <2>9
<1>3. CASE SendMore
  <2>1. PICK k : k = kind[n]
    OBVIOUS
  <2>2. /\ kind # <<>> /\ part < Len(Parts(k)) /\ part' = part + 1 /\ kind' = kind
        /\ net' = Append(net, <<n, Parts(k)[part + 1]>>)
    BY <1>0, <1>3, <2>1 DEF SendMore
  <2>3. part \in 1..Len(Parts(k)) /\ n \in 1..n
    BY <1>0, <1>1, <2>1, <2>2 DEF PartInv
  <2>4. NextSent = <<n, Parts(k)[part + 1]>>
    <3>1. part # Len(Parts(k))
      BY <2>2, <2>3
    <3> QED BY <1>0, <2>1, <2>2, <3>1 DEF NextSent
  <2>5. PartInv'
    <3>1. part + 1 \in 1..Len(Parts(k))
      BY <2>2, <2>3
    <3> QED BY <1>0, <2>1, <2>2, <3>1 DEF PartInv
  <2>6. NextSent' = After(kind, NextSent)
    <3>1. NextSent' = IF part + 1 = Len(Parts(k)) THEN <<n + 1, "H1">>
                      ELSE <<n, Parts(k)[(part + 1) + 1]>>
      BY <1>0, <2>1, <2>2 DEF NextSent
    <3>2. CASE k.body = "none"
      <4>1. Len(Parts(k)) = 2 /\ Parts(k)[2] = "H2"
        BY <3>2, PartsOf
      <4>2. part + 1 = 2
        BY <2>2, <2>3, <4>1
      <4> QED BY <2>1, <2>4, <3>1, <3>2, <4>1, <4>2 DEF After
    <3>3. CASE k.body # "none"
      <4>1. Len(Parts(k)) = 3 /\ Parts(k)[2] = "H2" /\ Parts(k)[3] = "B"
        BY <3>3, PartsOf
      <4>2. CASE part = 1
        BY <2>1, <2>4, <3>1, <3>3, <4>1, <4>2 DEF After
      <4>3. CASE part = 2
        BY <2>1, <2>4, <3>1, <3>3, <4>1, <4>3 DEF After
      <4>4. part = 1 \/ part = 2
        BY <2>2, <2>3, <4>1
      <4> QED BY <4>2, <4>3, <4>4
    <3> QED BY <3>2, <3>3
  <2> QED BY <1>0, <2>2, <2>3, <2>4, <2>5, <2>6
<1> QED BY <1>2, <1>3

\* The client sends: the stream is longer.
LEMMA StreamSend ==
    ASSUME LoopTypeOK, PartInv, NEW a, StreamFrom(a), SendRequest \/ SendMore
    PROVE  StreamFrom(a)'
<1>0. br \o net \in Seq(LToken)
  BY ConcatProperties DEF LoopTypeOK
<1>1. PICK q \in Seq(LToken) : q = br \o net
  BY <1>0
<1>2. PICK z \in LToken : z = NextSent
  BY NextSentType
<1>4. PICK k : k = kind'
  OBVIOUS
<1>5. PICK y : y = NextSent'
  OBVIOUS
<1>6. /\ net' = Append(net, z) /\ y = After(k, z) /\ z[1] \in 1..Len(k)
      /\ \A n \in 1..Len(kind) : n \in 1..Len(k) /\ k[n] = kind[n]
  BY <1>2, <1>4, <1>5, ClientSends
<1>7. UNCHANGED <<pc, br, hasBr, streamed, cur, connRequestNum>>
  BY DEF SendRequest, SendMore, readVars, reqVars
<1>8. br' \o net' = Append(q, z)
  <2>1. br \o Append(net, z) = Append(br \o net, z)
    BY DEF LoopTypeOK
  <2> QED BY <1>1, <1>6, <1>7, <2>1
<1>9. /\ Chain(kind, q, a, z) /\ \A i \in 1..Len(q) : q[i][1] \in 1..Len(kind)
      /\ pc \in InBody =>
            cur \in 1..Len(kind) /\ (kind[cur].body # "none" => a = <<cur, "B">>)
      /\ pc \in {"body", "continueBody"} => kind[cur].body # "none"
      /\ pc # "stream" /\ ~streamed
      /\ ~hasBr => br = <<>> /\ pc \notin InHeader \cup InBody
  BY <1>1, <1>2 DEF StreamFrom
<1>10. Chain(k, Append(q, z), a, y)
  <2>1. \A i \in 1..Len(q) : After(k, q[i]) = After(kind, q[i])
    BY <1>6, <1>9 DEF After
  <2>2. Chain(k, q, a, z)
    BY <1>9, <2>1, ChainSame
  <2>3. After(k, z) \in LToken
    BY DEF After, LToken
  <2> QED BY <1>6, <2>2, <2>3, ChainAppend
<1>12. \A i \in 1..Len(Append(q, z)) : Append(q, z)[i][1] \in 1..Len(k)
  <2> TAKE i \in 1..Len(Append(q, z))
  <2>1. CASE i \in 1..Len(q)
    <3>1. Append(q, z)[i] = q[i]
      BY <2>1
    <3> QED BY <1>6, <1>9, <2>1, <3>1
  <2>2. CASE i = Len(q) + 1
    BY <1>6, <2>2
  <2>3. i \in 1..Len(q) \/ i = Len(q) + 1
    OBVIOUS
  <2> QED BY <2>1, <2>2, <2>3
<1>13. /\ pc' \in InBody =>
              cur' \in 1..Len(kind') /\ (kind'[cur'].body # "none" => a = <<cur', "B">>)
       /\ pc' \in {"body", "continueBody"} => kind'[cur'].body # "none"
  BY <1>4, <1>6, <1>7, <1>9 DEF InBody
<1> QED BY <1>4, <1>5, <1>7, <1>8, <1>9, <1>10, <1>12, <1>13 DEF StreamFrom

\* The loop moves and reads no token.
LEMMA StreamMove ==
    ASSUME LoopTypeOK, NEW a, StreamFrom(a), UNCHANGED <<kind, part>>, br' \o net' = br \o net,
           pc' # "stream", ~streamed',
           ~hasBr' => br' = <<>> /\ pc' \notin InHeader \cup InBody,
           pc' \in InBody => pc \in InBody /\ cur' = cur,
           pc' \in {"body", "continueBody"} => pc' \in InBody /\ kind[cur].body # "none"
    PROVE  StreamFrom(a)'
<1>1. NextSent' = NextSent
  BY DEF NextSent
<1> QED BY <1>1 DEF StreamFrom

\* A token is read from a buffer b, with the tokens n still to come.
LEMMA StreamTake ==
    ASSUME NEW k, NEW b \in Seq(LToken), NEW n \in Seq(LToken), NEW a, NEW z \in LToken,
           b # <<>>, Chain(k, b \o n, a, z),
           \A i \in 1..Len(b \o n) : (b \o n)[i][1] \in 1..Len(k)
    PROVE  /\ Head(b) = a /\ a[1] \in 1..Len(k) /\ Tail(b) \in Seq(LToken)
           /\ Chain(k, Tail(b) \o n, After(k, a), z)
           /\ \A i \in 1..Len(Tail(b) \o n) : (Tail(b) \o n)[i][1] \in 1..Len(k)
<1>0. b \o n \in Seq(LToken)
  BY ConcatProperties
<1>1. PICK q \in Seq(LToken) : q = b \o n
  BY <1>0
<1>2. Len(b) \in Nat /\ Len(b) > 0
  BY EmptySeq
<1>3. /\ q # <<>> /\ Head(q) = b[1] /\ q[1] = b[1] /\ Head(b) = b[1] /\ Len(q) \in Nat
      /\ Len(q) = Len(b) + Len(n) /\ 1 \in 1..Len(q)
  BY <1>1, <1>2
<1>4. Tail(q) = Tail(b) \o n /\ Tail(b) \in Seq(LToken)
  BY <1>1, <1>2
<1>5. Chain(k, q, a, z) /\ \A i \in 1..Len(q) : q[i][1] \in 1..Len(k)
  BY <1>1
<1>6. Head(q) = a /\ Chain(k, Tail(q), After(k, a), z)
  BY ONLY <1>3, <1>5, ChainTail, q \in Seq(LToken), z \in LToken
<1>7. \A i \in 1..Len(Tail(q)) : Tail(q)[i][1] \in 1..Len(k)
  <2>1. Len(Tail(q)) = Len(q) - 1 /\ \A i \in 1..(Len(q) - 1) : Tail(q)[i] = q[i + 1]
    BY <1>3
  <2>2. \A i \in 1..(Len(q) - 1) : i + 1 \in 1..Len(q)
    BY <1>3
  <2> QED BY <1>5, <2>1, <2>2
<1>8. a[1] \in 1..Len(k)
  BY <1>3, <1>5, <1>6
<1> QED BY <1>3, <1>4, <1>6, <1>7, <1>8

\* A header is read: the two tokens of a request.
LEMMA StreamHeader ==
    ASSUME LoopTypeOK, PartInv, NEW a \in LToken, StreamFrom(a), HeaderRead
    PROVE  \E c \in LToken : StreamFrom(c)' /\ (AtRequest(a) => AtRequest(c)')
<1>0. /\ br \in Seq(LToken) /\ net \in Seq(LToken) /\ pc = "headerWait" /\ HeaderReady
      /\ br' = Tail(Tail(br)) /\ UNCHANGED <<conf, clientVars, hasBr, streamed, connRequestNum>>
      /\ cur' = Head(br)[1] /\ Head(br)[2] = "H1" /\ pc' \in {"expect", "bodyStart"}
  BY DEF HeaderRead, LoopTypeOK
<1>2. PICK z \in LToken : z = NextSent
  BY NextSentType
<1>3. hasBr /\ ~streamed
  BY <1>0 DEF InHeader, StreamFrom
<1>4. br # <<>> /\ Len(br) > 1 /\ Len(br) \in Nat
  BY <1>0 DEF HeaderReady
<1>5. /\ Chain(kind, br \o net, a, z)
      /\ \A i \in 1..Len(br \o net) : (br \o net)[i][1] \in 1..Len(kind)
  BY <1>2 DEF StreamFrom
<1>6. PICK b \in Seq(LToken) :
          /\ b = Tail(br) /\ Head(br) = a /\ a[1] \in 1..Len(kind)
          /\ Chain(kind, b \o net, After(kind, a), z)
          /\ \A i \in 1..Len(b \o net) : (b \o net)[i][1] \in 1..Len(kind)
  BY ONLY <1>0, <1>4, <1>5, z \in LToken, StreamTake
<1>1. PICK n \in 1..Len(kind) : a[1] = n /\ a = <<n, "H1">>
  BY <1>0, <1>6 DEF LToken
<1>7. After(kind, a) = <<n, "H2">>
  BY <1>1 DEF After
<1>8. b # <<>>
  <2>1. Len(b) = Len(br) - 1
    BY <1>0, <1>4, <1>6
  <2>2. Len(b) > 0
    BY <1>4, <2>1
  <2>3. b = <<>> => Len(b) = 0
    OBVIOUS
  <2> QED BY ONLY <2>2, <2>3
<1>9. PICK d \in Seq(LToken) :
          /\ d = Tail(b)
          /\ Chain(kind, d \o net, After(kind, <<n, "H2">>), z)
          /\ \A i \in 1..Len(d \o net) : (d \o net)[i][1] \in 1..Len(kind)
  BY ONLY <1>0, <1>6, <1>7, <1>8, z \in LToken, StreamTake
<1>10. br' = d /\ net' = net /\ kind' = kind /\ part' = part /\ cur' = n
  BY <1>0, <1>1, <1>6, <1>9 DEF clientVars
<1>11. NextSent' = z
  BY <1>2, <1>10 DEF NextSent
<1>12. PICK c : c = After(kind, <<n, "H2">>)
  OBVIOUS
<1>13. c \in LToken /\ (kind[n].body # "none" => c = <<n, "B">>)
  BY <1>12 DEF After, LToken, LoopTypeOK
<1>14. StreamFrom(c)'
  BY <1>0, <1>3, <1>9, <1>10, <1>11, <1>12, <1>13 DEF StreamFrom
<1>15. ASSUME AtRequest(a) PROVE AtRequest(c)'
  <2>1. n = connRequestNum /\ connRequestNum' = connRequestNum
    BY <1>0, <1>1, <1>15 DEF AtRequest, NextRead, InHeader
  <2>2. NextRead' = c
    BY <1>0, <1>10, <1>12, <2>1 DEF NextRead, After, InHeader, InBody
  <2> QED BY <1>10, <2>1, <2>2 DEF AtRequest
<1> QED BY <1>13, <1>14, <1>15

\* A body is read.
LEMMA StreamBody ==
    ASSUME LoopTypeOK, PartInv, NEW a \in LToken, StreamFrom(a), BodyRead
    PROVE  \E c \in LToken : StreamFrom(c)' /\ (AtRequest(a) => AtRequest(c)')
<1>0. /\ br \in Seq(LToken) /\ net \in Seq(LToken) /\ pc \in {"body", "continueBody"}
      /\ br # <<>> /\ br' = Tail(br) /\ hasBr' = ~(conf.reduce /\ Tail(br) = <<>>)
      /\ UNCHANGED <<conf, clientVars, reqVars, streamed>> /\ pc' = "handle"
  BY DEF BodyRead, AfterRead, AwaitsBody, LoopTypeOK
<1>1. PICK n \in Nat : n = cur
  BY DEF LoopTypeOK
<1>2. PICK z \in LToken : z = NextSent
  BY NextSentType
<1>3. a = <<n, "B">> /\ ~streamed
  BY <1>0, <1>1 DEF InBody, StreamFrom
<1>4. /\ Chain(kind, br \o net, a, z)
      /\ \A i \in 1..Len(br \o net) : (br \o net)[i][1] \in 1..Len(kind)
  BY <1>2 DEF StreamFrom
<1>5. /\ Chain(kind, Tail(br) \o net, After(kind, a), z)
      /\ \A i \in 1..Len(Tail(br) \o net) : (Tail(br) \o net)[i][1] \in 1..Len(kind)
  BY ONLY <1>0, <1>4, z \in LToken, StreamTake
<1>6. PICK c \in LToken : c = After(kind, a) /\ c = <<n + 1, "H1">>
  <2>1. a[1] = n /\ a[2] = "B"
    BY <1>3
  <2>2. After(kind, a) = <<n + 1, "H1">>
    BY <2>1 DEF After
  <2>3. <<n + 1, "H1">> \in LToken
    BY DEF LToken
  <2> QED BY <2>2, <2>3
<1>7. NextSent' = z /\ net' = net /\ kind' = kind
  BY <1>0, <1>2 DEF NextSent, clientVars
<1>8. (~hasBr' => br' = <<>>) /\ pc' \notin InHeader \cup InBody
  BY <1>0 DEF InHeader, InBody
<1>9. StreamFrom(c)'
  BY <1>0, <1>3, <1>5, <1>6, <1>7, <1>8 DEF StreamFrom
<1>10. ASSUME AtRequest(a) PROVE AtRequest(c)'
  <2>1. n = connRequestNum /\ connRequestNum' = connRequestNum
    BY <1>0, <1>1, <1>10 DEF AtRequest, InBody, reqVars
  <2> QED BY <1>6, <1>8, <2>1 DEF AtRequest, NextRead
<1> QED BY <1>9, <1>10

\* A request is denied, and with it what is in br.
LEMMA StreamDenied ==
    ASSUME LoopTypeOK, PartInv, NEW a \in LToken, StreamFrom(a), ExpectDenied
    PROVE  \E c \in LToken : StreamFrom(c)'
<1>0. /\ br \in Seq(LToken) /\ net \in Seq(LToken)
      /\ br' = <<>> /\ hasBr' = ~(conf.reduce /\ br = <<>>)
      /\ UNCHANGED <<kind, part, net, streamed>> /\ pc' = "handle"
  BY DEF ExpectDenied, LoopTypeOK, clientVars
<1>1. PICK z \in LToken : z = NextSent
  BY NextSentType
<1>2. /\ Chain(kind, br \o net, a, z) /\ ~streamed
      /\ \A i \in 1..Len(br \o net) : (br \o net)[i][1] \in 1..Len(kind)
  BY <1>1 DEF StreamFrom
<1>3. PICK c \in LToken : Chain(kind, net, c, z)
  BY ONLY <1>0, <1>2, z \in LToken, ChainDrop
<1>4. br' \o net' = net
  BY <1>0
<1>5. \A i \in 1..Len(net) : net[i][1] \in 1..Len(kind)
  <2> TAKE i \in 1..Len(net)
  <2>1. Len(br) + i \in 1..Len(br \o net) /\ (br \o net)[Len(br) + i] = net[i]
    BY <1>0
  <2> QED BY <1>2, <2>1
<1>6. NextSent' = z /\ pc' \notin InHeader \cup InBody
  BY <1>0, <1>1 DEF NextSent, InHeader, InBody
<1> QED BY <1>0, <1>2, <1>3, <1>4, <1>5, <1>6 DEF StreamFrom

LEMMA FramedStep == ASSUME LoopInv, [Next]_vars PROVE PartInv' /\ FramedInv'
<1> USE DEF LoopInv
<1>1. CASE SendRequest \/ SendMore
  <2>1. UNCHANGED <<conf, pc, cur, connRequestNum>> /\ PartInv'
        /\ \A n \in 1..Len(kind) : kind'[n] = kind[n]
    BY <1>1, ClientSends DEF SendRequest, SendMore, reqVars
  <2> SUFFICES ASSUME ~conf.stream, pc # "end"
               PROVE  \E a \in LToken : StreamFrom(a)' /\ (~conf.deny => AtRequest(a)')
    BY <2>1 DEF FramedInv
  <2>2. PICK a \in LToken : StreamFrom(a) /\ (~conf.deny => AtRequest(a))
    BY DEF FramedInv
  <2>3. StreamFrom(a)'
    BY <1>1, <2>2, StreamSend
  <2>4. ASSUME AtRequest(a) PROVE AtRequest(a)'
    <3>1. pc \in InBody => connRequestNum \in 1..Len(kind)
      BY <2>2, <2>4 DEF StreamFrom, AtRequest
    <3>2. NextRead' = NextRead
      BY <2>1, <3>1 DEF NextRead
    <3> QED BY <2>1, <2>4, <3>2 DEF AtRequest
  <2> QED BY <2>2, <2>3, <2>4
<1>2. CASE ~(SendRequest \/ SendMore)
  <2>0. UNCHANGED <<kind, part, conf>>
    BY <1>2 DEF Next, Client, ClientCloses, SetStop, Reading, Fill, Top, Peeked, PeekFails,
                ReadHeader, HeaderRead, HeaderFails, HeaderEOF, GetOnly, BodyStart, BodyRead,
                Prefetch, BodyFails, BodyEOF,
                ExpectDenied, ExpectAccepted, SendContinue, Answering, Handle, StreamRead,
                WriteResponse, WriteHijack, CheckStop, WriteFails, vars, clientVars
  <2>1. PartInv'
    BY <2>0 DEF PartInv
  <2> DEFINE Goal == \E a \in LToken : StreamFrom(a)' /\ (~conf.deny => AtRequest(a)')
  <2> SUFFICES ASSUME ~conf.stream, pc' # "end" PROVE Goal
    BY <2>0, <2>1 DEF FramedInv
  <2>2. pc # "end"
    BY <1>2 DEF Next, Client, ClientCloses, SetStop, Reading, Fill, Waits, WaitsForByte,
                WaitsForHeader, Top, Peeked, PeekFails, AwaitsBody,
                ReadHeader, HeaderRead, HeaderFails, HeaderEOF, GetOnly, BodyStart, BodyRead,
                Prefetch, BodyFails, BodyEOF,
                ExpectDenied, ExpectAccepted, SendContinue, Answering, Handle, StreamRead,
                WriteResponse, WriteHijack, CheckStop, WriteFails, vars
  <2>3. PICK a \in LToken : StreamFrom(a) /\ (~conf.deny => AtRequest(a))
    BY <2>2 DEF FramedInv
  <2> USE <2>0, <2>3
  <2>n. ~streamed /\ pc # "stream" /\ (~hasBr => br = <<>> /\ pc \notin InHeader \cup InBody)
    BY DEF StreamFrom
  <2>q. connRequestNum \in Nat
    BY DEF LoopTypeOK
  <2>b. {"body", "continueBody"} \subseteq InBody
    BY DEF InBody
  <2>m. ASSUME StreamFrom(a)', ~conf.deny => NextRead' = NextRead,
               pc' \in InBody => pc \in InBody /\ UNCHANGED <<cur, connRequestNum>>
        PROVE  Goal
    BY <2>m DEF AtRequest
  <2> HIDE DEF Goal
  <2>4. CASE ClientCloses \/ SetStop \/ UNCHANGED vars
    <3>1. UNCHANGED <<br, net, pc, hasBr, streamed, cur, connRequestNum>>
      BY <2>4 DEF ClientCloses, SetStop, vars, clientVars, readVars, reqVars
    <3>2. NextRead' = NextRead
      BY <3>1 DEF NextRead
    <3>3. pc \in {"body", "continueBody"} => kind[cur].body # "none"
      BY DEF StreamFrom
    <3>4. StreamFrom(a)'
      BY <2>n, <2>b, <3>1, <3>3, StreamMove
    <3> QED BY <2>m, <3>1, <3>2, <3>4
  <2>5. CASE Fill
    <3>1. /\ br' \o net' = br \o net /\ UNCHANGED <<pc, hasBr, streamed, cur, connRequestNum>>
          /\ pc \in InHeader \cup InBody
      BY <2>5, <2>n, FillMoves
         DEF Fill, Waits, WaitsForByte, WaitsForHeader, InHeader, InBody, reqVars
    <3>2. NextRead' = NextRead
      BY <3>1 DEF NextRead
    <3>3. pc \in {"body", "continueBody"} => kind[cur].body # "none"
      BY DEF StreamFrom
    <3>4. StreamFrom(a)'
      BY <2>n, <2>b, <3>1, <3>3, StreamMove
    <3> QED BY <2>m, <3>1, <3>2, <3>4
  <2>6. CASE Top
    <3>1. /\ pc = "top" /\ pc' \in InHeader /\ br' = br /\ net' = net /\ hasBr' = TRUE
          /\ connRequestNum' = connRequestNum + 1 /\ streamed' = FALSE
      BY <2>6, <2>n DEF Top, InHeader, clientVars
    <3>2. NextRead' = NextRead
      BY <3>1 DEF NextRead, InHeader, InBody
    <3>3. pc' \notin InBody /\ pc' \notin {"body", "continueBody", "stream"}
      BY <3>1 DEF InHeader, InBody
    <3>4. StreamFrom(a)'
      BY <3>1, <3>3, StreamMove
    <3> QED BY <2>m, <3>2, <3>3, <3>4
  <2>7. CASE Peeked \/ ReadHeader \/ CheckStop \/ Handle \/ WriteResponse
    <3>1. /\ UNCHANGED <<br, net, hasBr, streamed, connRequestNum, cur>>
          /\ \/ pc \in InHeader /\ pc' \in InHeader
             \/ pc \in {"idle", "handle", "write"} /\ pc' \in {"top", "write", "idle"}
      BY <2>7, <2>n DEF Peeked, ReadHeader, CheckStop, Handle, WriteResponse, InHeader,
                        clientVars, readVars, reqVars
    <3>2. NextRead' = NextRead
      BY <3>1 DEF NextRead, InHeader, InBody
    <3>3. pc' \notin InBody /\ pc' \notin {"body", "continueBody", "stream"}
      BY <3>1 DEF InHeader, InBody
    <3>4. ~hasBr' => br' = <<>> /\ pc' \notin InHeader \cup InBody
      BY <2>n, <3>1 DEF InHeader, InBody
    <3>5. StreamFrom(a)'
      BY <2>n, <3>1, <3>3, <3>4, StreamMove
    <3> QED BY <2>m, <3>2, <3>3, <3>5
  <2>8. CASE HeaderRead
    BY <2>8, StreamHeader DEF Goal
  <2>9. CASE BodyRead
    BY <2>9, StreamBody DEF Goal
  <2>10. CASE ExpectAccepted \/ SendContinue
    <3>1. /\ UNCHANGED <<br, net, streamed, connRequestNum, cur>> /\ (hasBr' = hasBr \/ hasBr')
          /\ pc \in InBody /\ pc' \in {"continue", "continueStart"}
      BY <2>10 DEF ExpectAccepted, SendContinue, InBody, clientVars, readVars, reqVars
    <3>2. NextRead' = NextRead
      BY <3>1 DEF NextRead, InHeader, InBody
    <3>3. pc' \notin {"body", "continueBody", "stream"}
      BY <3>1
    <3>4. StreamFrom(a)'
      BY <2>n, <3>1, <3>3, StreamMove
    <3> QED BY <2>m, <3>1, <3>2, <3>4
  <2>11. ASSUME NEW wait \in {"body", "continueBody"},
                NEW from \in {"bodyStart", "continueStart"}, BodyStart(from, wait)
         PROVE  Goal
    <3>1. pc = from /\ UNCHANGED <<net, connRequestNum, cur>> /\ pc \in InBody
      BY <2>11 DEF BodyStart, clientVars, reqVars, InBody
    <3>2. CASE pc' = "handle"
      <4>1. /\ kind[cur].body = "none" /\ streamed' = FALSE /\ br' = br
            /\ hasBr' = ~(conf.reduce /\ br = <<>>)
        BY <2>11, <2>n, <3>2 DEF BodyStart, ChunkedStream, AfterRead, ErrorResponse
      <4>2. ~conf.deny => NextRead' = NextRead
        BY <3>1, <3>2, <4>1 DEF NextRead, AtRequest, InHeader, InBody
      <4>3. ~hasBr' => br' = <<>>
        BY <4>1
      <4>4. pc' \notin InHeader \cup InBody
        BY <3>2 DEF InHeader, InBody
      <4>5. StreamFrom(a)'
        BY <3>1, <3>2, <4>1, <4>3, <4>4, StreamMove
      <4> QED BY <2>m, <4>2, <4>4, <4>5
    <3>3. CASE pc' # "handle"
      <4>1. /\ pc' = wait /\ kind[cur].body # "none" /\ UNCHANGED <<br, hasBr, streamed>>
        BY <2>11, <3>3 DEF BodyStart, ErrorResponse, readVars
      <4>2. NextRead' = NextRead
        BY <3>1, <4>1 DEF NextRead, InHeader, InBody
      <4>3. StreamFrom(a)'
        BY <2>n, <2>b, <3>1, <4>1, StreamMove
      <4> QED BY <2>m, <3>1, <4>2, <4>3
    <3> QED BY <3>2, <3>3
  <2>12. CASE ExpectDenied
    BY <2>12, StreamDenied DEF Goal, ExpectDenied
  <2>13. CASE PeekFails \/ HeaderFails \/ HeaderEOF \/ GetOnly \/ Prefetch \/ BodyFails
                \/ BodyEOF \/ StreamRead \/ WriteHijack \/ WriteFails
    BY <2>13, <2>n DEF PeekFails, HeaderFails, HeaderEOF, GetOnly, Prefetch, StreamsPart,
                       BodyFails, BodyEOF, StreamRead, WriteHijack, WriteFails, ErrorResponse
  <2> QED BY <1>2, <2>4, <2>5, <2>6, <2>7, <2>8, <2>9, <2>10, <2>11, <2>12, <2>13
          DEF Next, Client, Reading, Answering
<1> QED BY <1>1, <1>2

\* A chunked body ends too early only if the client has ended within it.
LEMMA CutBody ==
    ASSUME LoopTypeOK, PartInv, FramedInv, AtEOF, pc = "body", kind[cur].body = "chunked",
           ~conf.stream
    PROVE  Truncated
<1>1. closed /\ br = <<>> /\ net = <<>>
  BY DEF AtEOF, Waits, WaitsForByte, WaitsForHeader
<1>2. PICK a \in LToken : StreamFrom(a)
  BY DEF FramedInv
<1>3. PICK z \in LToken : z = NextSent
  BY NextSentType
<1>4. a = <<cur, "B">> /\ Chain(kind, br \o net, a, z)
  BY <1>2, <1>3 DEF StreamFrom, InBody
<1>5. PICK e \in Seq(LToken) : e = <<>> /\ e = br \o net
  <2>1. <<>> \in Seq(LToken) /\ <<>> \o <<>> = <<>>
    OBVIOUS
  <2> QED BY <1>1, <2>1
<1>6. a = z
  <2>1. Chain(kind, e, a, z)
    BY <1>4, <1>5
  <2> QED BY ONLY <1>5, <2>1, e \in Seq(LToken), z \in LToken, ChainPoints
<1>7. NextSent = <<cur, "B">>
  BY <1>3, <1>4, <1>6
<1>8. kind # <<>> /\ part # Len(Parts(kind[Len(kind)]))
  BY <1>7 DEF NextSent
<1>9. cur = Len(kind)
  BY <1>7, <1>8 DEF NextSent
<1>10. part < Len(Parts(kind[Len(kind)]))
  <2>1. PICK k : k = kind[Len(kind)]
    OBVIOUS
  <2>2. Len(Parts(k)) \in Nat
    BY PartsOf
  <2> QED BY <1>8, <2>1, <2>2 DEF PartInv
<1> QED BY <1>1, <1>8, <1>9, <1>10 DEF Truncated

LEMMA SentStep ==
    ASSUME LoopTypeOK, SentInv, PartInv, FramedInv, [Next]_vars PROVE LoopTypeOK' /\ SentInv'
<1> USE DEF clientVars, readVars, writeVars, reqVars
<1>1. CASE Client
  <2>1. /\ UNCHANGED <<conf, pc, br, hasBr, bw, written, out, failed>> /\ (stop => stop')
        /\ Truncated => Truncated'
    BY <1>1 DEF Client, SendRequest, SendMore, ClientCloses, SetStop, Truncated
  <2>2. SentInv'
    BY <2>1 DEF SentInv
  <2> QED BY <1>1, <2>2, ClientType
<1>2. CASE Fill
  <2>1. LoopTypeOK' /\ UNCHANGED <<conf, writeVars>>
    BY <1>2, QuietType DEF Reading
  <2>2. br' # <<>> /\ UNCHANGED <<pc, hasBr, stop>>
    BY <1>2, FillMoves
  <2>3. Waits
    BY <1>2 DEF Fill
  <2> QED BY <2>1, <2>2, <2>3 DEF SentInv, Waits, WaitsForByte, WaitsForHeader
<1>3. CASE Top
  <2>1. LoopTypeOK' /\ UNCHANGED <<conf, writeVars>>
    BY <1>3, QuietType DEF Reading
  <2>2. /\ pc = "top" /\ pc' \in {"byte", "peek", "header"} /\ UNCHANGED stop
        /\ br' = IF hasBr THEN br ELSE <<>>
    BY <1>3 DEF Top
  <2> QED BY <2>1, <2>2 DEF SentInv
<1>4. CASE Peeked \/ PeekFails \/ HeaderRead \/ HeaderEOF \/ BodyRead \/ Prefetch
              \/ ExpectDenied \/ ExpectAccepted \/ Handle \/ StreamRead \/ CheckStop
  <2>1. LoopTypeOK' /\ UNCHANGED <<conf, writeVars>>
    BY <1>4, QuietType DEF Reading, Answering
  <2>2. /\ UNCHANGED stop
        /\ \/ pc' \in {"header", "expect", "bodyStart", "handle", "continue", "write", "stream"}
              /\ pc # "end"
           \/ pc \in {"byte", "peek", "headerWait"} /\ br = <<>> /\ pc' = "end"
           \/ pc = "idle" /\ UNCHANGED <<br, hasBr>> /\ pc' = IF stop THEN "end" ELSE "top"
    BY <1>4 DEF Peeked, PeekFails, HeaderRead, HeaderEOF, BodyRead, Prefetch, AwaitsBody,
                ExpectDenied, ExpectAccepted, Handle, StreamRead, CheckStop, AtEOF, Waits,
                WaitsForByte, WaitsForHeader
  <2>3. out \in Seq(LResponse) /\ out \o <<>> = out
    BY DEF LoopTypeOK
  <2>4. SentInv'
    BY <2>1, <2>2, <2>3 DEF SentInv
  <2> QED BY <2>1, <2>4
<1>5. CASE ReadHeader
  <2>1. /\ pc = "header" /\ pc' = "headerWait"
        /\ UNCHANGED <<conf, clientVars, readVars, written, failed, reqVars, stop>>
    BY <1>5 DEF ReadHeader
  <2>2. CASE HeaderReady
    <3>1. UNCHANGED <<out, bw>> /\ br # <<>>
      BY <1>5, <2>2 DEF ReadHeader, HeaderReady
    <3> QED BY <2>1, <3>1 DEF LoopTypeOK, SentInv
  <2>3. CASE ~HeaderReady
    <3>1. Flush(bw)
      BY <1>5, <2>3 DEF ReadHeader
    <3> QED BY <2>1, <3>1, FlushStep DEF LoopTypeOK, SentInv
  <2> QED BY <2>2, <2>3
<1>6. CASE SendContinue
  <2>1. /\ pc = "continue" /\ pc' = "continueStart" /\ Flush(bw) /\ hasBr' = TRUE
        /\ UNCHANGED <<conf, clientVars, br, streamed, written, failed, reqVars, stop>>
    BY <1>6 DEF SendContinue
  <2> QED BY <2>1, FlushStep DEF LoopTypeOK, SentInv
<1>7. CASE HeaderFails \/ GetOnly \/ BodyFails
  <2>1. /\ pc # "end" /\ ErrorResponse
        /\ UNCHANGED <<conf, clientVars, failed, reqVars>>
    BY <1>7 DEF HeaderFails, GetOnly, BodyFails, AwaitsBody
  <2> QED BY <2>1, ErrorStep
<1>8. ASSUME NEW wait \in {"body", "continueBody"}, NEW from \in {"bodyStart", "continueStart"},
             BodyStart(from, wait)
      PROVE  LoopTypeOK' /\ SentInv'
  <2>1. pc # "end" /\ UNCHANGED <<conf, clientVars, failed, reqVars, stop>>
    BY <1>8 DEF BodyStart
  <2>2. CASE ErrorResponse
    BY <2>1, <2>2, ErrorStep
  <2>3. CASE ~ErrorResponse
    <3>1. /\ UNCHANGED <<br, bw, out, written>> /\ pc' \in {"handle", wait}
          /\ hasBr' \in BOOLEAN
      BY <1>8, <2>3 DEF BodyStart, AfterRead, LoopTypeOK
    <3> QED BY <2>1, <3>1 DEF LoopTypeOK, SentInv
  <2> QED BY <2>2, <2>3
<1>9. CASE WriteFails
  BY <1>9 DEF WriteFails, LoopTypeOK, SentInv
<1>10. CASE UNCHANGED vars
  BY <1>10 DEF vars, LoopTypeOK, SentInv, Truncated
<1>11. CASE BodyEOF
  <2>1. LoopTypeOK' /\ UNCHANGED <<conf, writeVars>>
    BY <1>11, QuietType DEF Reading
  <2>2. pc # "end" /\ UNCHANGED <<clientVars, stop>>
    BY <1>11 DEF BodyEOF, AwaitsBody
  <2>3. pc' = "handle" \/ (pc' = "end" /\ Truncated)
    BY <1>11, CutBody DEF BodyEOF
  <2>4. Truncated' = Truncated
    BY <2>2 DEF Truncated
  <2> QED BY <2>1, <2>2, <2>3, <2>4 DEF SentInv
<1> QED BY <1>1, <1>2, <1>3, <1>4, <1>5, <1>6, <1>7, <1>8, <1>9, <1>10, <1>11, AnswerStep
        DEF Next, Reading, Answering

LEMMA LoopInvInit == Init => LoopInv
<1> SUFFICES ASSUME Init PROVE LoopInv
  OBVIOUS
<1> USE DEF Init
<1>1. LoopTypeOK
  <2>1. \A S : <<>> \in Seq(S)
    OBVIOUS
  <2> QED BY <2>1 DEF LoopTypeOK
<1>2. SentInv
  BY DEF SentInv
<1>3. PartInv
  BY DEF PartInv
<1>4. FramedInv
  <2>1. br \o net = <<>> /\ Len(<<>>) = 0 /\ <<>> \in Seq(LToken)
    OBVIOUS
  <2>2. NextRead = <<1, "H1">> /\ NextSent = <<1, "H1">>
    BY DEF NextRead, NextSent, InHeader, InBody
  <2>3. <<1, "H1">> \in LToken
    BY DEF LToken
  <2>4. Chain(kind, <<>>, <<1, "H1">>, <<1, "H1">>)
    <3>1. PICK a \in LToken : a = <<1, "H1">>
      BY <2>3
    <3>2. PICK e \in Seq(LToken) : e = <<>> /\ Len(e) = 0
      BY <2>1
    <3>3. \A i \in 1..(Len(e) - 1) : FALSE
      BY <3>2
    <3>4. Chain(kind, e, a, a)
      BY ONLY <3>2, <3>3, a \in LToken, ChainPoints
    <3> QED BY <3>1, <3>2, <3>4
  <2>5. StreamFrom(<<1, "H1">>) /\ AtRequest(<<1, "H1">>)
    BY <2>1, <2>2, <2>4 DEF StreamFrom, AtRequest, InHeader, InBody
  <2> QED BY <2>3, <2>5 DEF FramedInv
<1> QED BY <1>1, <1>2, <1>3, <1>4 DEF LoopInv

LEMMA LoopInvStep == LoopInv /\ [Next]_vars => LoopInv'
BY SentStep, FramedStep DEF LoopInv

\* Every response that was written is sent in the order of writing or still in bw, and
\* a loop that ends by itself leaves none behind, whatever the client pipelines and
\* however its tokens arrive: unless a write failed, ReduceMemoryUsage is set, or the
\* client has ended the connection within a chunked body.
THEOREM NothingLostCorrect == Spec => []NothingLost
<1>1. LoopInv => NothingLost
  BY DEF LoopInv, SentInv, NothingLost
<1> QED BY <1>1, LoopInvInit, LoopInvStep, PTL DEF Spec

\* The loop looks for the header of its n-th request where the n-th request begins,
\* though br may be released with ReduceMemoryUsage and is filled with any number of
\* tokens at once: with bodies that are not streamed and no 100-continue denied.
THEOREM FramedCorrect == Spec => []Framed
<1>1. LoopInv => Framed
  <2> SUFFICES ASSUME LoopInv, ~conf.stream, ~conf.deny, pc = "headerWait", br # <<>>
               PROVE  Head(br) = <<connRequestNum, "H1">>
    BY DEF Framed
  <2>1. LoopTypeOK /\ PartInv
    BY DEF LoopInv
  <2>2. PICK z \in LToken : z = NextSent
    BY <2>1, NextSentType
  <2>3. PICK a \in LToken : StreamFrom(a) /\ a = NextRead
    BY DEF LoopInv, FramedInv, AtRequest
  <2>4. /\ Chain(kind, br \o net, a, z)
        /\ \A i \in 1..Len(br \o net) : (br \o net)[i][1] \in 1..Len(kind)
    BY <2>2, <2>3 DEF StreamFrom
  <2>5. br \in Seq(LToken) /\ net \in Seq(LToken)
    BY <2>1 DEF LoopTypeOK
  <2>6. Head(br) = a
    BY ONLY <2>4, <2>5, br # <<>>, z \in LToken, StreamTake
  <2> QED BY <2>3, <2>6 DEF NextRead, InHeader
<1> QED BY <1>1, LoopInvInit, LoopInvStep, PTL DEF Spec

-----------------------------------------------------------------------------
(* InmemoryListener: who has the lock, and which connections are on the way. *)
ListenerTypeOK ==
    /\ lock \in Pipes \cup Closers \cup {None} /\ conns \in Seq(Pipes)
    /\ dpc \in [Pipes -> {"start", "locked", "wait", "conn", "err"}]
    /\ acc \in [Acceptors -> Seq(Pipes)]
    /\ cpc \in [Closers -> {"start", "locked", "done"}]

\* Who has ln.lock: a Dial waits for Accept under it.
LockInv ==
    /\ \A p \in Pipes : lock = p <=> dpc[p] \in {"locked", "wait"}
    /\ \A x \in Closers : lock = x <=> cpc[x] = "locked"

\* Accept has returned p.
Taken(p) == \E a \in Acceptors : InSeq(p, acc[a])

\* At most one connection is on the way to Accept, that of the Dial that waits.
ConnsInv ==
    /\ Len(conns) <= 1
    /\ \A p \in Pipes : InSeq(p, conns) => dpc[p] = "wait" /\ ~Taken(p)

AccInv ==
    /\ \A p \in Pipes : Taken(p) => dpc[p] \in {"wait", "conn"}
    /\ \A p \in Pipes : dpc[p] = "conn" => Taken(p)
    /\ \A a, b \in Acceptors : \A i \in 1..Len(acc[a]), j \in 1..Len(acc[b]) :
          acc[a][i] = acc[b][j] => a = b /\ i = j

ListenerInv == ListenerTypeOK /\ LockInv /\ ConnsInv /\ AccInv

LEMMA AcceptedTaken == ListenerTypeOK => \A p : Accepted(p) <=> Taken(p)
BY DEF ListenerTypeOK, Accepted, Taken, ToSet, InSeq

LEMMA ListenerInvInit == ListenerInit => ListenerInv
BY ListenerAssumption DEF ListenerInit, ListenerInv, ListenerTypeOK, LockInv, ConnsInv, AccInv,
                          Taken, InSeq

LEMMA DialSteps == ASSUME ListenerInv, NEW p \in Pipes, DialStep(p) PROVE ListenerInv'
<1> USE ListenerAssumption DEF ListenerInv, ListenerTypeOK
<1>1. CASE DialLock(p)
  BY <1>1 DEF DialLock, LockInv, ConnsInv, AccInv, Taken
<1>2. CASE DialSend(p)
  <2>1. dpc[p] = "locked" /\ lock = p /\ ~Taken(p)
    BY <1>2 DEF DialSend, LockInv, AccInv
  <2>2. conns = <<>>
    <3>1. \A q \in Pipes : ~InSeq(q, conns)
      BY <2>1 DEF LockInv, ConnsInv
    <3>2. Len(conns) = 0
      BY <3>1 DEF InSeq
    <3> QED BY <3>2, EmptySeq
  <2>3. /\ conns' \in Seq(Pipes) /\ Len(conns') = 1
        /\ \A q : InSeq(q, conns') <=> q = p
    BY <1>2, <2>2 DEF DialSend, InSeq
  <2>4. /\ dpc' = [dpc EXCEPT ![p] = "wait"] /\ UNCHANGED <<lock, acc, cpc>>
    BY <1>2 DEF DialSend
  <2>5. \A q : Taken(q)' <=> Taken(q)
    BY <2>4 DEF Taken
  <2> HIDE DEF Taken
  <2> QED BY <2>1, <2>3, <2>4, <2>5 DEF LockInv, ConnsInv, AccInv
<1>3. CASE DialReturn(p)
  <2>1. /\ dpc[p] = "wait" /\ lock = p /\ lock' = None /\ Taken(p)
        /\ dpc' = [dpc EXCEPT ![p] = "conn"] /\ UNCHANGED <<conns, acc, cpc>>
    BY <1>3, AcceptedTaken DEF DialReturn, LockInv
  <2>2. \A q : Taken(q)' <=> Taken(q)
    BY <2>1 DEF Taken
  <2> HIDE DEF Taken
  <2> QED BY <2>1, <2>2 DEF LockInv, ConnsInv, AccInv
<1>4. CASE DialClosed(p)
  <2>1. /\ dpc[p] = "locked" /\ lock = p /\ lock' = None /\ ~Taken(p)
        /\ dpc' = [dpc EXCEPT ![p] = "err"] /\ UNCHANGED <<conns, acc, cpc>>
    BY <1>4 DEF DialClosed, LockInv, AccInv
  <2>2. \A q : Taken(q)' <=> Taken(q)
    BY <2>1 DEF Taken
  <2> HIDE DEF Taken
  <2> QED BY <2>1, <2>2 DEF LockInv, ConnsInv, AccInv
<1> QED BY <1>1, <1>2, <1>3, <1>4 DEF DialStep

LEMMA AcceptSteps == ASSUME ListenerInv, NEW a \in Acceptors, AcceptStep(a) PROVE ListenerInv'
<1> USE DEF ListenerInv, ListenerTypeOK
<1>1. CASE Accept(a)
  <2>0. conns # <<>> /\ conns' = Tail(conns) /\ UNCHANGED <<lock, dpc, cpc>>
    BY <1>1 DEF Accept
  <2>1. PICK p \in Pipes : p = conns[1] /\ Head(conns) = p /\ InSeq(p, conns) /\ Len(conns) = 1
    <3>1. Len(conns) \in Nat /\ Len(conns) > 0
      BY <2>0, EmptySeq
    <3>2. conns \in Seq(Pipes) /\ Len(conns) \in Nat /\ Len(conns) <= 1
      BY DEF ConnsInv
    <3>a. PICK n \in Nat : n = Len(conns)
      BY <3>1
    <3>b. n > 0 /\ n <= 1
      BY <3>1, <3>2, <3>a
    <3>c. n = 1
      BY ONLY <3>b, n \in Nat
    <3>3. Len(conns) = 1
      BY ONLY <3>a, <3>c
    <3>4. conns[1] \in Pipes /\ Head(conns) = conns[1] /\ InSeq(conns[1], conns)
      BY ONLY <3>2, <3>3 DEF InSeq
    <3> QED BY <3>3, <3>4
  <2>2. conns' \in Seq(Pipes) /\ Len(conns') = 0
    BY <2>0, <2>1
  <2>3. acc' = [acc EXCEPT ![a] = Append(acc[a], p)]
    BY <1>1, <2>1 DEF Accept
  <2>4. /\ acc' \in [Acceptors -> Seq(Pipes)]
        /\ \A b \in Acceptors : b # a => acc'[b] = acc[b]
        /\ Len(acc'[a]) = Len(acc[a]) + 1 /\ acc'[a][Len(acc[a]) + 1] = p
        /\ \A i \in 1..Len(acc[a]) : acc'[a][i] = acc[a][i]
    BY <2>3
  <2>5. dpc[p] = "wait" /\ ~Taken(p)
    BY <2>1 DEF ConnsInv
  <2>6. \A q : Taken(q)' <=> Taken(q) \/ q = p
    <3>1. \A q : InSeq(q, acc'[a]) <=> InSeq(q, acc[a]) \/ q = p
      BY <2>3, AppendMembers
    <3> QED BY <2>4, <3>1 DEF Taken
  <2>7. ASSUME NEW b \in Acceptors, NEW c \in Acceptors, NEW i \in 1..Len(acc'[b]),
               NEW j \in 1..Len(acc'[c]), acc'[b][i] = acc'[c][j]
        PROVE  b = c /\ i = j
    <3>1. \A d \in Acceptors : \A k \in 1..Len(acc[d]) : acc[d][k] # p
      BY <2>5 DEF Taken, InSeq
    <3>2. CASE b # a /\ c # a
      BY <2>4, <2>7, <3>2 DEF AccInv
    <3>3. ASSUME b = a, c # a PROVE FALSE
      <4>1. j \in 1..Len(acc[c]) /\ acc'[c][j] = acc[c][j] /\ acc[c][j] # p
        BY <2>4, <3>1, <3>3
      <4>2. i \in 1..Len(acc[a]) /\ acc[a][i] = acc[c][j]
        BY <2>4, <2>7, <3>3, <4>1
      <4> QED BY <3>3, <4>1, <4>2 DEF AccInv
    <3>4. ASSUME b # a, c = a PROVE FALSE
      <4>1. i \in 1..Len(acc[b]) /\ acc'[b][i] = acc[b][i] /\ acc[b][i] # p
        BY <2>4, <3>1, <3>4
      <4>2. j \in 1..Len(acc[a]) /\ acc[a][j] = acc[b][i]
        BY <2>4, <2>7, <3>4, <4>1
      <4> QED BY <3>4, <4>1, <4>2 DEF AccInv
    <3>5. CASE b = a /\ c = a
      <4>1. \A k \in 1..Len(acc[a]) : acc'[a][k] # p
        BY <2>4, <3>1
      <4>2. i = Len(acc[a]) + 1 \/ i \in 1..Len(acc[a])
        BY <2>4, <3>5
      <4>3. j = Len(acc[a]) + 1 \/ j \in 1..Len(acc[a])
        BY <2>4, <3>5
      <4> QED BY <2>4, <2>7, <3>5, <4>1, <4>2, <4>3 DEF AccInv
    <3> QED BY <3>2, <3>3, <3>4, <3>5
  <2>8. AccInv'
    BY <2>0, <2>5, <2>6, <2>7 DEF AccInv
  <2>9. ConnsInv'
    BY <2>2 DEF ConnsInv, InSeq
  <2> QED BY <2>0, <2>2, <2>4, <2>8, <2>9 DEF LockInv
<1>2. CASE AcceptClosed(a)
  BY <1>2 DEF AcceptClosed, LockInv, ConnsInv, AccInv, Taken
<1> QED BY <1>1, <1>2 DEF AcceptStep

LEMMA CloseSteps == ASSUME ListenerInv, NEW x \in Closers, CloseStep(x) PROVE ListenerInv'
<1>1. /\ \/ lock = None /\ cpc[x] = "start" /\ lock' = x /\ cpc' = [cpc EXCEPT ![x] = "locked"]
         \/ cpc[x] = "locked" /\ lock' = None /\ cpc' = [cpc EXCEPT ![x] = "done"]
      /\ UNCHANGED <<conns, dpc, acc>>
  BY DEF CloseStep, CloseLock, CloseUnlock
<1>2. \A q : Taken(q)' <=> Taken(q)
  BY <1>1 DEF Taken
<1>3. ListenerTypeOK' /\ LockInv'
  BY <1>1, ListenerAssumption DEF ListenerInv, ListenerTypeOK, LockInv
<1> QED BY <1>1, <1>2, <1>3 DEF ListenerInv, ConnsInv, AccInv

LEMMA ListenerInvStep == ListenerInv /\ [ListenerNext]_listenerVars => ListenerInv'
<1> SUFFICES ASSUME ListenerInv, [ListenerNext]_listenerVars PROVE ListenerInv'
  OBVIOUS
<1>1. CASE UNCHANGED lvars
  BY <1>1 DEF lvars, ListenerInv, ListenerTypeOK, LockInv, ConnsInv, AccInv, Taken
<1> QED BY <1>1, DialSteps, AcceptSteps, CloseSteps
        DEF ListenerNext, ClientEnd, ServerEnd, listenerVars

\* Dial returns a connection only when exactly one Accept has returned its other end.
THEOREM DialAcceptedCorrect == ListenerSpec => []DialAccepted
<1>1. ListenerInv => DialAccepted
  <2> SUFFICES ASSUME ListenerInv, NEW p \in Pipes, dpc[p] = "conn"
               PROVE  \E a \in Acceptors : \E i \in DOMAIN acc[a] :
                         \A b \in Acceptors : \A j \in DOMAIN acc[b] :
                            acc[b][j] = p <=> b = a /\ j = i
    BY DEF DialAccepted
  <2>0. \A a \in Acceptors : acc[a] \in Seq(Pipes) /\ DOMAIN acc[a] = 1..Len(acc[a])
    BY DEF ListenerInv, ListenerTypeOK
  <2>a. PICK a \in Acceptors : InSeq(p, acc[a])
    BY DEF ListenerInv, AccInv, Taken
  <2>1. PICK i \in 1..Len(acc[a]) : acc[a][i] = p
    BY <2>a DEF InSeq
  <2>2. \A b \in Acceptors : \A j \in 1..Len(acc[b]) : acc[b][j] = p <=> b = a /\ j = i
    BY <2>1 DEF ListenerInv, AccInv
  <2> QED BY <2>0, <2>1, <2>2
<1> QED BY <1>1, ListenerInvInit, ListenerInvStep, PTL DEF ListenerSpec

-----------------------------------------------------------------------------
(* What Read returns.  The j-th byte a pipe carries is <<p, j>>: the bytes of s *)
(* follow the first m of the pipe p,                                            *)
Carries(s, p, m) == \A j \in 1..Len(s) : s[j] = <<p, m + j>>

\* and the buffers f of a channel c hold those from the one after from up to to,
\* cut anyhow: off[i] bytes come before those of the i-th buffer.
InOrder(c, f, p, from, to) ==
    \E off \in Seq(Nat) :
        /\ Len(off) = Len(c) + 1 /\ off[1] = from /\ off[Len(c) + 1] = to
        /\ \A i \in 1..Len(c) :
              off[i + 1] = off[i] + Len(f[c[i]]) /\ Carries(f[c[i]], p, off[i])
        /\ \A i \in 1..(Len(c) + 1) : off[i] <= to

Bytes == Pipes \X Nat
RdRecords == [pc : {"idle", "loop", "block", "deadline", "stop", "eof"},
              b : Bufs \cup {NoBuf}, bb : Nat, n : Nat, mayBlock : BOOLEAN]
WrRecords == [pc : {"idle", "send", "block"}, b : Bufs \cup {NoBuf}]

PipesTypeOK ==
    /\ buf \in [Bufs -> Seq(Bytes)] /\ pool \subseteq Bufs
    /\ chan \in [Pipes -> Seq(Bufs)] /\ stopped \in [Pipes -> BOOLEAN]
    /\ wr \in [Pipes -> WrRecords] /\ rd \in [Pipes -> RdRecords]
    /\ sent \in [Pipes -> Seq(Bytes)] /\ got \in [Pipes -> Seq(Bytes)]
    /\ atClose \in [Pipes -> Nat]

\* The buffer is in use by the pipe,
Uses(p, b) == wr[p].b = b \/ rd[p].b = b \/ InSeq(b, chan[p])

\* and by no other.
Exclusive == \A p \in Pipes : \A b \in Bufs :
    Uses(p, b) => b \notin pool /\ \A q \in Pipes : Uses(q, b) => q = p

\* Within a pipe it has one use.
OneUse(p) ==
    /\ wr[p].pc = "idle" <=> wr[p].b = NoBuf
    /\ wr[p].b # NoBuf => wr[p].b # rd[p].b /\ ~InSeq(wr[p].b, chan[p])
    /\ rd[p].b # NoBuf => ~InSeq(rd[p].b, chan[p])
    /\ Distinct(chan[p])
    /\ rd[p].pc \in {"block", "deadline", "stop", "eof"} => rd[p].b = NoBuf

\* How much of the buffer it has received the reader has not yet returned.
Unread(p) == IF rd[p].b = NoBuf THEN 0 ELSE Len(buf[rd[p].b]) - rd[p].bb

\* What was written, what was read and what is between.
DataInv(p) ==
    /\ Carries(sent[p], p, 0) /\ Carries(got[p], p, 0)
    /\ wr[p].b # NoBuf => Carries(buf[wr[p].b], p, Len(sent[p]))
    /\ rd[p].b # NoBuf => /\ rd[p].bb <= Len(buf[rd[p].b]) /\ rd[p].bb <= Len(got[p])
                          /\ Carries(buf[rd[p].b], p, Len(got[p]) - rd[p].bb)
    /\ InOrder(chan[p], buf, p, Len(got[p]) + Unread(p), Len(sent[p]))

EOFInv(p) ==
    /\ atClose[p] <= Len(sent[p])
    /\ rd[p].pc \in {"stop", "eof"} => stopped[p]
    /\ rd[p].pc = "eof" => Len(got[p]) >= atClose[p]

PipeInv(p) == OneUse(p) /\ DataInv(p) /\ EOFInv(p)

PipesInv == PipesTypeOK /\ Exclusive /\ \A p \in Pipes : PipeInv(p)

\* Bytes that follow bytes.
LEMMA CarriesConcat ==
    ASSUME NEW B, NEW s \in Seq(B), NEW t \in Seq(B), NEW p, NEW m \in Nat,
           Carries(s, p, m), Carries(t, p, m + Len(s))
    PROVE  s \o t \in Seq(B) /\ Len(s \o t) = Len(s) + Len(t) /\ Carries(s \o t, p, m)
<1>1. /\ s \o t \in Seq(B) /\ Len(s \o t) = Len(s) + Len(t)
      /\ Len(s) \in Nat /\ Len(t) \in Nat
  OBVIOUS
<1>2. ASSUME NEW j \in 1..Len(s \o t) PROVE (s \o t)[j] = <<p, m + j>>
  <2>1. CASE j <= Len(s)
    BY <1>1, <2>1 DEF Carries
  <2>2. CASE j > Len(s)
    <3>0. j - Len(s) \in 1..Len(t)
      BY <1>1, <2>2
    <3>1. PICK k \in 1..Len(t) : k = j - Len(s)
      BY <3>0
    <3>2. (s \o t)[j] = t[k] /\ t[k] = <<p, (m + Len(s)) + k>>
      BY <1>1, <2>2, <3>1 DEF Carries
    <3>3. (m + Len(s)) + k = m + j
      BY <1>1, <3>1
    <3> QED BY <3>2, <3>3
  <2> QED BY <1>1, <2>1, <2>2
<1> QED BY <1>1, <1>2 DEF Carries

\* The bytes of a buffer from some place on, up to another.
LEMMA CarriesCut ==
    ASSUME NEW B, NEW s \in Seq(B), NEW p, NEW m \in Nat, Carries(s, p, m),
           NEW k \in Nat, NEW n \in Nat, k + n <= Len(s)
    PROVE  LET t == SubSeq(SubSeq(s, k + 1, Len(s)), 1, n)
           IN  t \in Seq(B) /\ Len(t) = n /\ Carries(t, p, m + k)
<1> DEFINE r == SubSeq(s, k + 1, Len(s))
           t == SubSeq(r, 1, n)
<1>1. /\ r \in Seq(B) /\ Len(r) = Len(s) - k /\ Len(s) \in Nat
      /\ \A j \in 1..(Len(s) - k) : r[j] = s[k + j]
  OBVIOUS
<1> HIDE DEF r
<1>2. t \in Seq(B) /\ Len(t) = n /\ \A j \in 1..n : t[j] = r[j]
  BY <1>1
<1> HIDE DEF t
<1>3. ASSUME NEW j \in 1..n PROVE t[j] = <<p, (m + k) + j>>
  <2>1. t[j] = s[k + j] /\ k + j \in 1..Len(s)
    BY <1>1, <1>2
  <2>2. s[k + j] = <<p, m + (k + j)>>
    BY <2>1 DEF Carries
  <2>3. m + (k + j) = (m + k) + j
    OBVIOUS
  <2> QED BY <2>1, <2>2, <2>3
<1> QED BY <1>2, <1>3 DEF r, t, Carries

\* Two sequences that carry the same bytes from the start: the shorter is a prefix.
LEMMA CarriesPrefix ==
    ASSUME NEW B, NEW s \in Seq(B), NEW t \in Seq(B), NEW p,
           Carries(s, p, 0), Carries(t, p, 0), Len(s) <= Len(t)
    PROVE  IsPrefix(s, t)
<1> DEFINE u == SubSeq(s, 1, Len(s))
           v == SubSeq(t, 1, Len(s))
<1>1. /\ Len(s) \in Nat /\ Len(t) \in Nat
      /\ u \in Seq(B) /\ Len(u) = Len(s) /\ \A j \in 1..Len(s) : u[j] = s[j]
      /\ v \in Seq(B) /\ Len(v) = Len(s) /\ \A j \in 1..Len(s) : v[j] = t[j]
  OBVIOUS
<1> HIDE DEF u, v
<1>2. \A j \in 1..Len(s) : s[j] = <<p, 0 + j>> /\ t[j] = <<p, 0 + j>>
  BY <1>1 DEF Carries
<1>3. u = v
  BY <1>1, <1>2, SeqEqual
<1> QED BY <1>3 DEF u, v, IsPrefix

-----------------------------------------------------------------------------
\* The channel is between what was read and what was written;
LEMMA InOrderBounds ==
    ASSUME NEW B, NEW c \in Seq(B), NEW f, NEW p, NEW from, NEW to, InOrder(c, f, p, from, to)
    PROVE  /\ from \in Nat /\ to \in Nat /\ from <= to
           /\ c = <<>> => from = to
<1>1. PICK off \in Seq(Nat) : /\ Len(off) = Len(c) + 1 /\ off[1] = from /\ off[Len(c) + 1] = to
                              /\ \A i \in 1..(Len(c) + 1) : off[i] <= to
  BY DEF InOrder
<1>2. Len(c) \in Nat /\ 1 \in 1..Len(off) /\ Len(c) + 1 \in 1..Len(off)
  BY <1>1
<1>3. off[1] \in Nat /\ off[Len(c) + 1] \in Nat
  BY <1>2
<1>4. ASSUME c = <<>> PROVE from = to
  <2>1. Len(c) + 1 = 1
    BY <1>4
  <2> QED BY <1>1, <2>1
<1> QED BY <1>1, <1>2, <1>3, <1>4

\* the reader takes its first buffer,
LEMMA InOrderTail ==
    ASSUME NEW B, NEW c \in Seq(B), c # <<>>, NEW f, NEW p, NEW from, NEW to,
           InOrder(c, f, p, from, to)
    PROVE  /\ Carries(f[Head(c)], p, from)
           /\ InOrder(Tail(c), f, p, from + Len(f[Head(c)]), to)
<1>1. PICK off \in Seq(Nat) :
          /\ Len(off) = Len(c) + 1 /\ off[1] = from /\ off[Len(c) + 1] = to
          /\ \A i \in 1..Len(c) :
                off[i + 1] = off[i] + Len(f[c[i]]) /\ Carries(f[c[i]], p, off[i])
          /\ \A i \in 1..(Len(c) + 1) : off[i] <= to
  BY DEF InOrder
<1>2. /\ Len(c) \in Nat /\ Len(c) > 0 /\ Head(c) = c[1]
      /\ Tail(c) \in Seq(B) /\ Len(Tail(c)) = Len(c) - 1
      /\ \A i \in 1..(Len(c) - 1) : Tail(c)[i] = c[i + 1]
  BY EmptySeq
<1>3. PICK new \in Seq(Nat) :
          Len(new) = Len(c) /\ \A i \in 1..Len(c) : new[i] = off[i + 1]
  <2>1. off # <<>>
    BY <1>1, <1>2
  <2>2. /\ Tail(off) \in Seq(Nat) /\ Len(Tail(off)) = Len(off) - 1
        /\ \A i \in 1..(Len(off) - 1) : Tail(off)[i] = off[i + 1]
    BY <2>1
  <2>3. Len(off) - 1 = Len(c)
    BY <1>1, <1>2
  <2> QED BY <2>2, <2>3
<1>4. Carries(f[Head(c)], p, from) /\ new[1] = from + Len(f[Head(c)])
  BY <1>1, <1>2, <1>3
<1>5. ASSUME NEW i \in 1..(Len(c) - 1)
      PROVE  /\ new[i + 1] = new[i] + Len(f[Tail(c)[i]])
             /\ Carries(f[Tail(c)[i]], p, new[i])
  <2>1. PICK k \in 1..Len(c) : k = i + 1
    BY <1>2
  <2>2. i \in 1..Len(c) /\ new[i] = off[k] /\ new[k] = off[k + 1] /\ Tail(c)[i] = c[k]
    BY <1>2, <1>3, <2>1
  <2>3. off[k + 1] = off[k] + Len(f[c[k]]) /\ Carries(f[c[k]], p, off[k])
    BY <1>1
  <2> QED BY <2>1, <2>2, <2>3
<1>6. \A i \in 1..Len(c) : new[i] <= to
  BY <1>1, <1>2, <1>3
<1>7. new[Len(c)] = to
  BY <1>1, <1>2, <1>3
<1>8. (Len(c) - 1) + 1 = Len(c)
  BY <1>2
<1> QED BY <1>2, <1>3, <1>4, <1>5, <1>6, <1>7, <1>8 DEF InOrder

\* the writer adds one at the end,
LEMMA InOrderAppend ==
    ASSUME NEW B, NEW c \in Seq(B), NEW b \in B, NEW f, NEW p, NEW from, NEW to,
           InOrder(c, f, p, from, to), Carries(f[b], p, to), Len(f[b]) \in Nat
    PROVE  InOrder(Append(c, b), f, p, from, to + Len(f[b]))
<1>1. PICK off \in Seq(Nat) :
          /\ Len(off) = Len(c) + 1 /\ off[1] = from /\ off[Len(c) + 1] = to
          /\ \A i \in 1..Len(c) :
                off[i + 1] = off[i] + Len(f[c[i]]) /\ Carries(f[c[i]], p, off[i])
          /\ \A i \in 1..(Len(c) + 1) : off[i] <= to
  BY DEF InOrder
<1>2. PICK l \in Nat : l = Len(c)
  OBVIOUS
<1>3. PICK d \in Seq(B) : /\ d = Append(c, b) /\ Len(d) = l + 1 /\ d[l + 1] = b
                          /\ \A i \in 1..l : d[i] = c[i]
  <2>1. /\ Append(c, b) \in Seq(B) /\ Len(Append(c, b)) = Len(c) + 1
        /\ Append(c, b)[Len(c) + 1] = b
        /\ \A i \in 1..Len(c) : Append(c, b)[i] = c[i]
    OBVIOUS
  <2> QED BY <1>2, <2>1
<1>4. PICK m \in Nat : m = to + Len(f[b]) /\ to <= m
  BY <1>1, <1>2
<1>5. PICK new \in Seq(Nat) : /\ Len(new) = l + 2 /\ new[l + 2] = m
                              /\ \A i \in 1..(l + 1) : new[i] = off[i]
  <2>1. /\ Append(off, m) \in Seq(Nat) /\ Len(Append(off, m)) = Len(off) + 1
        /\ Append(off, m)[Len(off) + 1] = m
        /\ \A i \in 1..Len(off) : Append(off, m)[i] = off[i]
    OBVIOUS
  <2>2. Len(off) = l + 1 /\ Len(off) + 1 = l + 2
    BY <1>1, <1>2
  <2> QED BY <2>1, <2>2
<1>6. ASSUME NEW i \in 1..(l + 1)
      PROVE  new[i + 1] = new[i] + Len(f[d[i]]) /\ Carries(f[d[i]], p, new[i])
  <2>1. CASE i = l + 1
    BY <1>1, <1>2, <1>3, <1>4, <1>5, <2>1
  <2>2. CASE i \in 1..l
    <3>0. i \in 1..(l + 1) /\ i + 1 \in 1..(l + 1)
      BY <2>2
    <3>1. new[i] = off[i] /\ new[i + 1] = off[i + 1] /\ d[i] = c[i]
      BY ONLY <1>3, <1>5, <2>2, <3>0
    <3> QED BY <1>1, <1>2, <2>2, <3>1
  <2> QED BY <2>1, <2>2
<1>7. ASSUME NEW i \in 1..(l + 2) PROVE new[i] <= m
  <2>1. CASE i = l + 2
    BY <1>5, <2>1
  <2>2. CASE i \in 1..(l + 1)
    <3>1. new[i] = off[i] /\ off[i] <= to /\ off[i] \in Nat /\ to \in Nat
      BY <1>1, <1>2, <1>5, <2>2
    <3> QED BY <1>4, <3>1
  <2> QED BY <2>1, <2>2
<1>8. new[1] = from
  <2>1. 1 \in 1..(l + 1)
    OBVIOUS
  <2> QED BY <1>1, <1>5, <2>1
<1>9. InOrder(d, f, p, from, m)
  <2>1. (l + 1) + 1 = l + 2
    OBVIOUS
  <2> QED BY <1>3, <1>5, <1>6, <1>7, <1>8, <2>1 DEF InOrder
<1> QED BY <1>3, <1>4, <1>9

\* and a buffer that is not in it may change.
LEMMA InOrderSame ==
    ASSUME NEW c, NEW f, NEW g, NEW p, NEW from, NEW to, InOrder(c, f, p, from, to),
           \A i \in 1..Len(c) : g[c[i]] = f[c[i]]
    PROVE  InOrder(c, g, p, from, to)
BY DEF InOrder

-----------------------------------------------------------------------------
\* A step of a pipe leaves the others alone, takes buffers from the pool only and
\* gives back only those it had.
Alone(p) ==
    /\ \A q \in Pipes : q # p =>
          /\ wr'[q] = wr[q] /\ rd'[q] = rd[q] /\ chan'[q] = chan[q]
          /\ sent'[q] = sent[q] /\ got'[q] = got[q]
          /\ stopped'[q] = stopped[q] /\ atClose'[q] = atClose[q]
    /\ \A b \in Bufs : Uses(p, b)' => b \notin pool' /\ (Uses(p, b) \/ b \in pool)
    /\ \A b \in pool' : b \in pool \/ Uses(p, b)
    /\ \A b \in Bufs \ pool : buf'[b] = buf[b]

\* Then what holds of the others still does.
LEMMA AloneKeeps ==
    ASSUME PipesInv, NEW p \in Pipes, Alone(p), PipesTypeOK', PipeInv(p)'
    PROVE  PipesInv'
<1>1. ASSUME NEW q \in Pipes, q # p, NEW b PROVE Uses(q, b)' <=> Uses(q, b)
  BY <1>1 DEF Uses, Alone
<1>2. Exclusive'
  <2> SUFFICES ASSUME NEW q \in Pipes, NEW b \in Bufs, Uses(q, b)'
               PROVE  b \notin pool' /\ \A x \in Pipes : Uses(x, b)' => x = q
    BY DEF Exclusive
  <2>1. CASE q = p
    <3>1. b \notin pool' /\ (Uses(p, b) \/ b \in pool)
      BY <2>1 DEF Alone
    <3>2. ASSUME NEW x \in Pipes, x # p PROVE ~Uses(x, b)
      BY <3>1, <3>2 DEF PipesInv, Exclusive
    <3> QED BY <1>1, <2>1, <3>1, <3>2
  <2>2. CASE q # p
    <3>1. Uses(q, b) /\ b \notin pool /\ ~Uses(p, b)
      BY <1>1, <2>2 DEF PipesInv, Exclusive
    <3>2. ~Uses(p, b)' /\ b \notin pool'
      BY <3>1 DEF Alone
    <3>3. \A x \in Pipes : Uses(x, b)' => x = q
      BY <1>1, <3>1, <3>2 DEF PipesInv, Exclusive
    <3> QED BY <3>2, <3>3
  <2> QED BY <2>1, <2>2
<1>3. ASSUME NEW q \in Pipes, q # p PROVE PipeInv(q)'
  <2>0. /\ wr'[q] = wr[q] /\ rd'[q] = rd[q] /\ chan'[q] = chan[q]
        /\ sent'[q] = sent[q] /\ got'[q] = got[q]
        /\ stopped'[q] = stopped[q] /\ atClose'[q] = atClose[q]
    BY <1>3 DEF Alone
  <2>1. \A b \in Bufs : Uses(q, b) => buf'[b] = buf[b]
    BY <1>3 DEF Alone, PipesInv, Exclusive
  <2>2. wr[q].b # NoBuf => buf'[wr[q].b] = buf[wr[q].b]
    BY <2>1 DEF Uses, PipesInv, PipesTypeOK, WrRecords
  <2>3. rd[q].b # NoBuf => buf'[rd[q].b] = buf[rd[q].b]
    BY <2>1 DEF Uses, PipesInv, PipesTypeOK, RdRecords
  <2>4. \A i \in 1..Len(chan[q]) : buf'[chan[q][i]] = buf[chan[q][i]]
    <3> TAKE i \in 1..Len(chan[q])
    <3>1. chan[q][i] \in Bufs /\ InSeq(chan[q][i], chan[q])
      BY DEF InSeq, PipesInv, PipesTypeOK
    <3> QED BY <2>1, <3>1 DEF Uses
  <2>5. OneUse(q)' /\ EOFInv(q)'
    BY <2>0 DEF PipesInv, PipeInv, OneUse, EOFInv
  <2>6. Unread(q)' = Unread(q)
    BY <2>0, <2>3 DEF Unread
  <2>7. InOrder(chan[q], buf, q, Len(got[q]) + Unread(q), Len(sent[q]))
    BY DEF PipesInv, PipeInv, DataInv
  <2>8. InOrder(chan[q], buf', q, Len(got[q]) + Unread(q), Len(sent[q]))
    BY <2>4, <2>7, InOrderSame
  <2>9. DataInv(q)'
    BY <2>0, <2>2, <2>3, <2>6, <2>8 DEF PipesInv, PipeInv, DataInv
  <2> QED BY <2>5, <2>9 DEF PipeInv
<1> QED BY <1>2, <1>3 DEF PipesInv

-----------------------------------------------------------------------------
(* Write. *)
LEMMA WriteStartInv == ASSUME PipesInv, NEW p \in Pipes, WriteStart(p) PROVE PipesInv'
<1> USE PipeAssumption DEF PipesInv
<1>1. PICK n \in WriteLens :
          LET b == CHOOSE x \in pool : TRUE IN
          /\ pool # {}
          /\ buf' = [buf EXCEPT ![b] = [i \in 1 .. n |-> <<p, Len(sent[p]) + i>>]]
          /\ pool' = pool \ {b}
          /\ wr' = [wr EXCEPT ![p] = [pc |-> "send", b |-> b]]
  BY DEF WriteStart
<1>2. PICK b \in pool : b = CHOOSE x \in pool : TRUE
  BY <1>1
<1>3. PICK s \in Seq(Bytes) : s = [i \in 1 .. n |-> <<p, Len(sent[p]) + i>>]
  <2>1. n \in Nat /\ Len(sent[p]) \in Nat
    BY DEF PipesTypeOK
  <2>2. \A i \in 1..n : <<p, Len(sent[p]) + i>> \in Bytes
    BY <2>1 DEF Bytes
  <2>3. [i \in 1..n |-> <<p, Len(sent[p]) + i>>] \in [1..n -> Bytes]
    BY <2>2
  <2>4. [1..n -> Bytes] \subseteq Seq(Bytes)
    BY ONLY <2>1, SeqDef
  <2> QED BY ONLY <2>3, <2>4
<1>4. Carries(s, p, Len(sent[p]))
  <2>1. n \in Nat
    OBVIOUS
  <2> QED BY <1>3, <2>1 DEF Carries
<1>5. /\ buf' = [buf EXCEPT ![b] = s] /\ pool' = pool \ {b} /\ b \in Bufs
      /\ wr' = [wr EXCEPT ![p] = [pc |-> "send", b |-> b]]
      /\ wr[p].pc = "idle" /\ UNCHANGED <<chan, stopped, rd, sent, got, atClose>>
  BY <1>1, <1>2, <1>3 DEF WriteStart, PipesTypeOK
<1>6. PipesTypeOK'
  BY <1>5 DEF PipesTypeOK, WrRecords
<1>7. /\ wr'[p].b = b /\ wr'[p].pc = "send" /\ b # NoBuf /\ buf'[b] = s
      /\ \A q \in Pipes : q # p => wr'[q] = wr[q]
      /\ \A x \in Bufs : x # b => buf'[x] = buf[x]
  BY <1>5 DEF PipesTypeOK
<1>8. ~Uses(p, b) /\ rd[p].b # b /\ ~InSeq(b, chan[p])
  BY <1>5 DEF Exclusive, Uses
<1>9. Alone(p)
  <2>1. \A x \in Bufs : Uses(p, x)' => x = b \/ Uses(p, x)
    BY <1>5, <1>7 DEF Uses
  <2>2. \A x \in Bufs : Uses(p, x) => x \notin pool
    BY DEF Exclusive
  <2>3. \A x \in Bufs \ pool : buf'[x] = buf[x]
    BY <1>7
  <2>4. pool' = pool \ {b} /\ b \in pool
    BY <1>5
  <2>5. \A x \in Bufs : Uses(p, x)' => x \notin pool' /\ (Uses(p, x) \/ x \in pool)
    BY <2>1, <2>2, <2>4
  <2> QED BY <1>5, <1>7, <2>3, <2>4, <2>5 DEF Alone
<1>10. OneUse(p)' /\ EOFInv(p)'
  BY <1>5, <1>7, <1>8 DEF PipeInv, OneUse, EOFInv
<1>11. DataInv(p)'
  <2>1. rd[p].b # NoBuf => buf'[rd[p].b] = buf[rd[p].b]
    BY <1>7, <1>8 DEF PipesTypeOK, RdRecords
  <2>2. \A i \in 1..Len(chan[p]) : buf'[chan[p][i]] = buf[chan[p][i]]
    BY <1>7, <1>8 DEF InSeq, PipesTypeOK
  <2>3. Unread(p)' = Unread(p)
    BY <1>5, <2>1 DEF Unread
  <2>4. InOrder(chan[p], buf, p, Len(got[p]) + Unread(p), Len(sent[p]))
    BY DEF PipeInv, DataInv
  <2>5. InOrder(chan[p], buf', p, Len(got[p]) + Unread(p), Len(sent[p]))
    BY <2>2, <2>4, InOrderSame
  <2> QED BY <1>4, <1>5, <1>7, <2>1, <2>3, <2>5 DEF PipeInv, DataInv
<1> QED BY <1>6, <1>9, <1>10, <1>11, AloneKeeps DEF PipeInv

LEMMA WriteSendInv == ASSUME PipesInv, NEW p \in Pipes, WriteSend(p) PROVE PipesInv'
<1> USE PipeAssumption DEF PipesInv
<1>1. wr[p].b \in Bufs
  BY DEF WriteSend, PipeInv, OneUse, PipesTypeOK, WrRecords
<1>2. PICK b \in Bufs : b = wr[p].b
  BY <1>1
<1>3. /\ chan' = [chan EXCEPT ![p] = Append(chan[p], b)]
      /\ sent' = [sent EXCEPT ![p] = sent[p] \o buf[b]]
      /\ wr' = [wr EXCEPT ![p] = [pc |-> "idle", b |-> NoBuf]]
      /\ UNCHANGED <<buf, pool, stopped, rd, got, atClose>>
  BY <1>2 DEF WriteSend
<1>4. /\ sent[p] \in Seq(Bytes) /\ buf[b] \in Seq(Bytes) /\ chan[p] \in Seq(Bufs)
      /\ Len(sent[p]) \in Nat /\ Len(buf[b]) \in Nat /\ b # NoBuf /\ atClose[p] \in Nat
  BY DEF PipesTypeOK
<1>5. Carries(sent[p], p, 0) /\ Carries(buf[b], p, Len(sent[p]))
  BY <1>2, <1>4 DEF PipeInv, DataInv
<1>6. /\ sent[p] \o buf[b] \in Seq(Bytes) /\ Len(sent[p] \o buf[b]) = Len(sent[p]) + Len(buf[b])
      /\ Carries(sent[p] \o buf[b], p, 0)
  <2>1. Carries(buf[b], p, 0 + Len(sent[p]))
    <3>1. 0 + Len(sent[p]) = Len(sent[p])
      BY <1>4
    <3> QED BY <1>5, <3>1
  <2> QED BY <1>4, <1>5, <2>1, CarriesConcat
<1>7. PipesTypeOK'
  BY <1>3, <1>6 DEF PipesTypeOK, WrRecords
<1>8. /\ wr'[p].b = NoBuf /\ wr'[p].pc = "idle"
      /\ chan'[p] = Append(chan[p], b) /\ sent'[p] = sent[p] \o buf[b]
      /\ \A q \in Pipes : q # p => wr'[q] = wr[q] /\ chan'[q] = chan[q] /\ sent'[q] = sent[q]
  BY <1>3 DEF PipesTypeOK
<1>9. /\ \A x : InSeq(x, chan'[p]) <=> InSeq(x, chan[p]) \/ x = b
      /\ Distinct(chan'[p])
  <2>1. ~InSeq(b, chan[p]) /\ Distinct(chan[p])
    BY <1>2, <1>4 DEF PipeInv, OneUse
  <2> QED BY <1>4, <1>8, <2>1, AppendMembers
<1>10. Alone(p)
  <2>1. \A x \in Bufs : Uses(p, x)' <=> Uses(p, x)
    BY <1>2, <1>3, <1>8, <1>9 DEF Uses
  <2> QED BY <1>3, <1>8, <2>1 DEF Alone, Exclusive
<1>11. OneUse(p)' /\ EOFInv(p)'
  <2>1. OneUse(p)'
    BY <1>2, <1>3, <1>4, <1>8, <1>9 DEF PipeInv, OneUse
  <2>2. EOFInv(p)'
    BY <1>3, <1>4, <1>6, <1>8 DEF PipeInv, EOFInv
  <2> QED BY <2>1, <2>2
<1>12. DataInv(p)'
  <2>1. Unread(p)' = Unread(p)
    BY <1>3 DEF Unread
  <2>2. InOrder(chan[p], buf, p, Len(got[p]) + Unread(p), Len(sent[p]))
    BY DEF PipeInv, DataInv
  <2>3. InOrder(chan'[p], buf, p, Len(got[p]) + Unread(p), Len(sent'[p]))
    <3>1. InOrder(Append(chan[p], b), buf, p, Len(got[p]) + Unread(p),
                  Len(sent[p]) + Len(buf[b]))
      BY ONLY <1>4, <1>5, <2>2, b \in Bufs, InOrderAppend
    <3> QED BY <1>6, <1>8, <3>1
  <2> QED BY <1>3, <1>6, <1>8, <2>1, <2>3 DEF PipeInv, DataInv
<1> QED BY <1>7, <1>10, <1>11, <1>12, AloneKeeps DEF PipeInv

LEMMA WriteBlockInv ==
    ASSUME PipesInv, NEW p \in Pipes, WriteBlock(p) \/ WriteFail(p) PROVE PipesInv'
<1> USE PipeAssumption DEF PipesInv
<1>1. /\ wr[p].pc # "idle" /\ wr[p].b # NoBuf /\ wr[p].b \in Bufs
      /\ UNCHANGED <<buf, chan, stopped, rd, sent, got, atClose>>
  BY DEF WriteBlock, WriteFail, PipesTypeOK, PipeInv, OneUse, WrRecords
<1>b. PICK b \in Bufs : b = wr[p].b /\ b # NoBuf
  BY <1>1
<1>2. /\ wr' \in [Pipes -> WrRecords] /\ \A q \in Pipes : q # p => wr'[q] = wr[q]
      /\ \/ wr'[p].pc = "block" /\ wr'[p].b = b /\ pool' = pool
         \/ wr'[p].pc = "idle" /\ wr'[p].b = NoBuf /\ pool' = pool \cup {b}
  <2>1. CASE WriteBlock(p)
    BY <1>b, <2>1 DEF WriteBlock, PipesTypeOK, WrRecords
  <2>2. CASE WriteFail(p)
    BY <1>b, <2>2 DEF WriteFail, PipesTypeOK, WrRecords
  <2> QED BY <2>1, <2>2
<1>3. PipesTypeOK'
  BY <1>1, <1>2 DEF PipesTypeOK
<1>4. OneUse(p)' /\ EOFInv(p)'
  BY <1>1, <1>b, <1>2 DEF PipeInv, OneUse, EOFInv
<1>5. DataInv(p)'
  <2>1. Unread(p)' = Unread(p)
    BY <1>1 DEF Unread
  <2> QED BY <1>1, <1>b, <1>2, <2>1 DEF PipeInv, DataInv
<1>6. Alone(p)
  <2>1. \A x \in Bufs : Uses(p, x)' => Uses(p, x) /\ (x = b => pool' = pool)
    BY <1>1, <1>b, <1>2 DEF Uses, PipeInv, OneUse
  <2>2. Uses(p, b)
    BY <1>b DEF Uses
  <2>3. \A x \in Bufs : Uses(p, x) => x \notin pool
    BY DEF Exclusive
  <2>4. pool' = pool \/ pool' = pool \cup {b}
    BY <1>2
  <2>5. \A x \in Bufs : Uses(p, x)' => x \notin pool'
    BY <2>1, <2>3, <2>4
  <2> QED BY <1>1, <1>2, <2>1, <2>2, <2>4, <2>5 DEF Alone
<1> QED BY <1>3, <1>4, <1>5, <1>6, AloneKeeps DEF PipeInv

-----------------------------------------------------------------------------
(* Read. *)

\* The reader moves without data: it keeps the buffer it has, or gives it back.
LEMMA ReaderMoves ==
    ASSUME PipesInv, NEW p \in Pipes, UNCHANGED <<buf, chan, stopped, wr, sent, got, atClose>>,
           rd' \in [Pipes -> RdRecords], \A q \in Pipes : q # p => rd'[q] = rd[q],
           \/ rd'[p].b = rd[p].b /\ rd'[p].bb = rd[p].bb /\ pool' = pool
           \/ rd'[p].b = NoBuf /\ Unread(p) = 0 /\ pool' = pool \cup ({rd[p].b} \ {NoBuf}),
           rd'[p].pc \in {"block", "deadline", "stop", "eof"} => rd'[p].b = NoBuf,
           rd'[p].pc \in {"stop", "eof"} => stopped[p],
           rd'[p].pc = "eof" => Len(got[p]) >= atClose[p]
    PROVE  PipesInv'
<1> USE PipeAssumption DEF PipesInv
<1>1. PipesTypeOK'
  BY DEF PipesTypeOK, RdRecords
<1>2. OneUse(p)' /\ EOFInv(p)'
  BY DEF PipeInv, OneUse, EOFInv
<1>3. Unread(p)' = Unread(p)
  BY DEF Unread
<1>4. DataInv(p)'
  BY <1>3 DEF PipeInv, DataInv
<1>5. Alone(p)
  <2>1. PICK b \in Bufs \cup {NoBuf} : b = rd[p].b
    BY DEF PipesTypeOK, RdRecords
  <2>2. \/ rd'[p].b = b /\ pool' = pool
        \/ rd'[p].b = NoBuf /\ pool' = pool \cup ({b} \ {NoBuf})
    BY <2>1
  <2>3. b # NoBuf => Uses(p, b) /\ wr[p].b # b /\ ~InSeq(b, chan[p])
    BY <2>1 DEF Uses, PipeInv, OneUse
  <2>4. \A x \in Bufs : Uses(p, x)' => Uses(p, x) /\ (x = b => rd'[p].b = b)
    BY <2>1, <2>2, <2>3 DEF Uses
  <2>5. \A x \in Bufs : Uses(p, x) => x \notin pool
    BY DEF Exclusive
  <2>6. NoBuf \notin Bufs
    OBVIOUS
  <2>7. \A x \in Bufs : Uses(p, x)' => x \notin pool'
    BY <2>2, <2>4, <2>5, <2>6
  <2>8. \A x \in pool' : x \in pool \/ Uses(p, x)
    BY <2>2, <2>3
  <2> QED BY <2>4, <2>7, <2>8 DEF Alone
<1> QED BY <1>1, <1>2, <1>4, <1>5, AloneKeeps DEF PipeInv

\* The reader receives a buffer when it has read the one before to the end.
LEMMA TakeInv ==
    ASSUME PipesInv, NEW p \in Pipes, chan[p] # <<>>, Unread(p) = 0, Take(p),
           pool' = pool \cup ({rd[p].b} \ {NoBuf}),
           UNCHANGED <<buf, stopped, wr, sent, got, atClose>>
    PROVE  PipesInv'
<1> USE PipeAssumption DEF PipesInv
<1>1. chan[p] \in Seq(Bufs) /\ Distinct(chan[p])
  BY DEF PipesTypeOK, PipeInv, OneUse
<1>2. /\ Head(chan[p]) \in Bufs /\ InSeq(Head(chan[p]), chan[p]) /\ Tail(chan[p]) \in Seq(Bufs)
      /\ \A w : InSeq(w, Tail(chan[p])) <=> InSeq(w, chan[p]) /\ w # Head(chan[p])
      /\ Distinct(Tail(chan[p]))
  BY ONLY <1>1, chan[p] # <<>>, TailMembers
<1>3. PICK h \in Bufs : h = Head(chan[p]) /\ h # NoBuf
  BY <1>2
<1>4. /\ chan' = [chan EXCEPT ![p] = Tail(chan[p])]
      /\ chan' \in [Pipes -> Seq(Bufs)] /\ chan'[p] = Tail(chan[p])
      /\ \A q \in Pipes : q # p => chan'[q] = chan[q]
  BY <1>2 DEF Take, PipesTypeOK
<1>5. /\ rd' \in [Pipes -> RdRecords] /\ \A q \in Pipes : q # p => rd'[q] = rd[q]
      /\ rd'[p].b = h /\ rd'[p].bb = 0 /\ rd'[p].pc = "loop"
  <2>1. PICK r \in RdRecords : r = rd[p]
    BY DEF PipesTypeOK
  <2>2. PICK new : /\ rd' = [rd EXCEPT ![p] = new]
                   /\ new = [r EXCEPT !.b = h, !.bb = 0, !.pc = "loop",
                                      !.mayBlock = r.mayBlock /\ buf[h] # <<>>]
    <3>1. rd' = [rd EXCEPT ![p] =
                    [rd[p] EXCEPT !.b = Head(chan[p]), !.bb = 0, !.pc = "loop",
                                  !.mayBlock = rd[p].mayBlock /\ buf[Head(chan[p])] # <<>>]]
      BY ONLY Take(p) DEF Take
    <3> QED BY ONLY <1>3, <2>1, <3>1
  <2>3. new \in RdRecords /\ new.b = h /\ new.bb = 0 /\ new.pc = "loop"
    BY <2>2 DEF RdRecords
  <2> QED BY <2>2, <2>3 DEF PipesTypeOK
<1>6. PipesTypeOK'
  <2>1. pool' \subseteq Bufs
    BY DEF PipesTypeOK, RdRecords
  <2> QED BY <1>4, <1>5, <2>1 DEF PipesTypeOK
<1>7. OneUse(p)' /\ EOFInv(p)'
  <2>1. wr[p].b # NoBuf => wr[p].b # h
    BY <1>2, <1>3 DEF PipeInv, OneUse
  <2>2. OneUse(p)'
    BY <1>2, <1>3, <1>4, <1>5, <2>1 DEF PipeInv, OneUse
  <2>3. EOFInv(p)'
    BY <1>5 DEF PipeInv, EOFInv
  <2> QED BY <2>2, <2>3
<1>8. DataInv(p)'
  <2>0. Len(got[p]) \in Nat /\ Len(buf[h]) \in Nat
    BY DEF PipesTypeOK
  <2>1. InOrder(chan[p], buf, p, Len(got[p]), Len(sent[p]))
    <3>1. Len(got[p]) + Unread(p) = Len(got[p])
      BY <2>0
    <3> QED BY <3>1 DEF PipeInv, DataInv
  <2>2. /\ Carries(buf[h], p, Len(got[p]))
        /\ InOrder(chan'[p], buf, p, Len(got[p]) + Len(buf[h]), Len(sent[p]))
    BY ONLY <1>1, <1>3, <1>4, <2>1, chan[p] # <<>>, InOrderTail
  <2>3. Unread(p)' = Len(buf[h])
    BY <1>3, <1>5, <2>0 DEF Unread
  <2>4. Len(got[p]) - 0 = Len(got[p]) /\ 0 <= Len(buf[h]) /\ 0 <= Len(got[p])
    BY <2>0
  <2> QED BY <1>3, <1>5, <2>2, <2>3, <2>4 DEF PipeInv, DataInv
<1>9. Alone(p)
  <2>1. PICK b \in Bufs \cup {NoBuf} : b = rd[p].b
    BY DEF PipesTypeOK, RdRecords
  <2>2. b # NoBuf => Uses(p, b) /\ wr[p].b # b /\ ~InSeq(b, chan[p])
    BY <2>1 DEF Uses, PipeInv, OneUse
  <2>3. \A x \in Bufs : Uses(p, x)' => Uses(p, x)
    BY <1>2, <1>3, <1>4, <1>5 DEF Uses
  <2>4. b # NoBuf => ~Uses(p, b)'
    BY <1>2, <1>3, <1>4, <1>5, <2>2 DEF Uses
  <2>5. \A x \in Bufs : Uses(p, x) => x \notin pool
    BY DEF Exclusive
  <2>6. pool' = pool \cup ({b} \ {NoBuf})
    BY <2>1
  <2>7. \A x \in Bufs : Uses(p, x)' => x \notin pool'
    BY <2>3, <2>4, <2>5, <2>6
  <2>8. \A x \in pool' : x \in pool \/ Uses(p, x)
    BY <2>2, <2>6
  <2> QED BY <1>4, <1>5, <2>3, <2>7, <2>8 DEF Alone
<1> QED BY <1>6, <1>7, <1>8, <1>9, AloneKeeps DEF PipeInv

LEMMA ReadCopyInv == ASSUME PipesInv, NEW p \in Pipes, ReadCopy(p) PROVE PipesInv'
<1> USE PipeAssumption DEF PipesInv
<1>1. rd[p].pc = "loop" /\ rd[p].b # NoBuf /\ Rest(p) # <<>>
      /\ UNCHANGED <<buf, pool, chan, stopped, wr, sent, atClose>>
  BY DEF ReadCopy, BBEmpty
<1>2. PICK r \in RdRecords : r = rd[p]
  BY DEF PipesTypeOK
<1>3. /\ r.b \in Bufs /\ r.bb \in Nat /\ r.n \in Nat /\ r.pc = "loop" /\ r.b # NoBuf
      /\ buf[r.b] \in Seq(Bytes) /\ got[p] \in Seq(Bytes)
      /\ Len(buf[r.b]) \in Nat /\ Len(got[p]) \in Nat
  BY <1>1, <1>2 DEF PipesTypeOK, RdRecords
<1>4. /\ r.bb <= Len(buf[r.b]) /\ r.bb <= Len(got[p])
      /\ Carries(buf[r.b], p, Len(got[p]) - r.bb) /\ Carries(got[p], p, 0)
  BY <1>1, <1>2 DEF PipeInv, DataInv
<1>5. Rest(p) = SubSeq(buf[r.b], r.bb + 1, Len(buf[r.b])) /\ Len(Rest(p)) = Len(buf[r.b]) - r.bb
  BY <1>2, <1>3, <1>4 DEF Rest
<1>6. PICK n \in Nat : n = IF r.n < Len(Rest(p)) THEN r.n ELSE Len(Rest(p))
  BY <1>3, <1>4, <1>5
<1>7. n <= r.n /\ r.bb + n <= Len(buf[r.b])
  BY <1>3, <1>4, <1>5, <1>6
<1>8. PICK t \in Seq(Bytes) : /\ t = SubSeq(Rest(p), 1, n) /\ Len(t) = n
                              /\ Carries(t, p, Len(got[p]))
  <2>1. PICK m \in Nat : m = Len(got[p]) - r.bb
    BY <1>3, <1>4
  <2>2. m + r.bb = Len(got[p])
    BY <1>3, <2>1
  <2>3. LET u == SubSeq(SubSeq(buf[r.b], r.bb + 1, Len(buf[r.b])), 1, n)
        IN  u \in Seq(Bytes) /\ Len(u) = n /\ Carries(u, p, m + r.bb)
    <3>1. Carries(buf[r.b], p, m)
      BY <1>4, <2>1
    <3> QED BY ONLY <1>3, <1>7, <3>1, m \in Nat, n \in Nat, CarriesCut
  <2> QED BY <1>5, <2>2, <2>3
<1>9. /\ got[p] \o t \in Seq(Bytes) /\ Len(got[p] \o t) = Len(got[p]) + n
      /\ Carries(got[p] \o t, p, 0)
  <2>1. 0 + Len(got[p]) = Len(got[p])
    BY <1>3
  <2>2. Carries(t, p, 0 + Len(got[p]))
    BY <1>8, <2>1
  <2>3. /\ got[p] \o t \in Seq(Bytes) /\ Len(got[p] \o t) = Len(got[p]) + Len(t)
        /\ Carries(got[p] \o t, p, 0)
    BY ONLY <1>3, <1>4, <2>2, t \in Seq(Bytes), CarriesConcat
  <2> QED BY <1>8, <2>3
<1>10. /\ got' = [got EXCEPT ![p] = got[p] \o t]
       /\ got' \in [Pipes -> Seq(Bytes)] /\ got'[p] = got[p] \o t
       /\ \A q \in Pipes : q # p => got'[q] = got[q]
  BY <1>2, <1>6, <1>8, <1>9 DEF ReadCopy, PipesTypeOK
<1>11. /\ rd' \in [Pipes -> RdRecords] /\ \A q \in Pipes : q # p => rd'[q] = rd[q]
       /\ rd'[p].b = r.b /\ rd'[p].bb = r.bb + n /\ rd'[p].pc \in {"idle", "loop"}
  <2>1. PICK new : /\ rd' = [rd EXCEPT ![p] = new]
                   /\ new = [r EXCEPT !.bb = r.bb + n, !.n = r.n - n, !.mayBlock = FALSE,
                                      !.pc = IF r.n = n THEN "idle" ELSE "loop"]
    <3>1. LET m == IF rd[p].n < Len(Rest(p)) THEN rd[p].n ELSE Len(Rest(p))
          IN  rd' = [rd EXCEPT ![p] =
                        [rd[p] EXCEPT !.bb = rd[p].bb + m, !.n = rd[p].n - m,
                                      !.mayBlock = FALSE,
                                      !.pc = IF rd[p].n = m THEN "idle" ELSE "loop"]]
      BY ONLY ReadCopy(p) DEF ReadCopy
    <3> QED BY ONLY <1>2, <1>6, <3>1
  <2>2. r.bb + n \in Nat /\ r.n - n \in Nat
    BY <1>3, <1>7
  <2>3. new \in RdRecords /\ new.b = r.b /\ new.bb = r.bb + n /\ new.pc \in {"idle", "loop"}
    BY <2>1, <2>2 DEF RdRecords
  <2> QED BY <2>1, <2>3 DEF PipesTypeOK
<1>12. PipesTypeOK'
  BY <1>1, <1>10, <1>11 DEF PipesTypeOK
<1>13. OneUse(p)' /\ EOFInv(p)'
  <2>1. OneUse(p)'
    BY <1>1, <1>2, <1>3, <1>11 DEF PipeInv, OneUse
  <2>2. EOFInv(p)'
    BY <1>1, <1>11 DEF PipeInv, EOFInv
  <2> QED BY <2>1, <2>2
<1>14. DataInv(p)'
  <2>1. Unread(p) = Len(buf[r.b]) - r.bb /\ Unread(p)' = Len(buf[r.b]) - (r.bb + n)
    BY <1>1, <1>2, <1>3, <1>11 DEF Unread
  <2>2. Len(got'[p]) + Unread(p)' = Len(got[p]) + Unread(p)
    BY <1>3, <1>9, <1>10, <2>1
  <2>3. Len(got'[p]) - (r.bb + n) = Len(got[p]) - r.bb /\ r.bb + n <= Len(got'[p])
    BY <1>3, <1>4, <1>9, <1>10
  <2>4. InOrder(chan[p], buf, p, Len(got'[p]) + Unread(p)', Len(sent[p]))
    BY <2>2 DEF PipeInv, DataInv
  <2>5. wr[p].b # NoBuf => Carries(buf[wr[p].b], p, Len(sent[p]))
    BY DEF PipeInv, DataInv
  <2>6. Carries(sent[p], p, 0)
    BY DEF PipeInv, DataInv
  <2> QED BY <1>1, <1>3, <1>4, <1>7, <1>9, <1>10, <1>11, <2>3, <2>4, <2>5, <2>6 DEF DataInv
<1>15. Alone(p)
  <2>1. \A x \in Bufs : Uses(p, x)' <=> Uses(p, x)
    BY <1>1, <1>2, <1>11 DEF Uses
  <2> QED BY <1>1, <1>10, <1>11, <2>1 DEF Alone, Exclusive
<1> QED BY <1>12, <1>13, <1>14, <1>15, AloneKeeps DEF PipeInv

\* With nothing left to copy the buffer is used up.
LEMMA EmptyUnread == ASSUME PipesInv, NEW p \in Pipes, BBEmpty(p) PROVE Unread(p) = 0
<1>1. CASE rd[p].b = NoBuf
  BY <1>1 DEF Unread
<1>2. CASE rd[p].b # NoBuf
  <2>1. PICK b \in Bufs : b = rd[p].b
    BY <1>2 DEF PipesInv, PipesTypeOK, RdRecords
  <2>2. PICK k \in Nat : k = rd[p].bb
    BY DEF PipesInv, PipesTypeOK, RdRecords
  <2>3. buf[b] \in Seq(Bytes) /\ Len(buf[b]) \in Nat /\ k <= Len(buf[b])
    BY <1>2, <2>1, <2>2 DEF PipesInv, PipesTypeOK, PipeInv, DataInv
  <2>4. SubSeq(buf[b], k + 1, Len(buf[b])) = <<>>
    BY <1>2, <2>1, <2>2 DEF BBEmpty, Rest
  <2>5. Len(SubSeq(buf[b], k + 1, Len(buf[b]))) = Len(buf[b]) - k
    BY <2>3
  <2>6. Len(buf[b]) - k = 0
    BY <2>4, <2>5
  <2> QED BY <1>2, <2>1, <2>2, <2>6 DEF Unread
<1> QED BY <1>1, <1>2

\* A reader that has no buffer, with the channel empty, has read everything.
LEMMA AllRead ==
    ASSUME PipesInv, NEW p \in Pipes, rd[p].b = NoBuf, chan[p] = <<>>
    PROVE  Len(got[p]) = Len(sent[p]) /\ Len(got[p]) \in Nat
<1>1. Len(got[p]) \in Nat /\ Unread(p) = 0 /\ chan[p] \in Seq(Bufs)
  BY DEF PipesInv, PipesTypeOK, Unread
<1>2. InOrder(chan[p], buf, p, Len(got[p]) + Unread(p), Len(sent[p]))
  BY DEF PipesInv, PipeInv, DataInv
<1>3. Len(got[p]) + Unread(p) = Len(sent[p])
  <2>1. PICK m : m = Len(got[p]) + Unread(p)
    OBVIOUS
  <2>2. PICK n : n = Len(sent[p])
    OBVIOUS
  <2>3. PICK c \in Seq(Bufs) : c = chan[p]
    BY <1>1
  <2>4. InOrder(c, buf, p, m, n)
    BY <1>2, <2>1, <2>2, <2>3
  <2>5. c = <<>> => m = n
    BY ONLY <2>4, InOrderBounds, c \in Seq(Bufs)
  <2> QED BY <2>1, <2>2, <2>3, <2>5
<1> QED BY <1>1, <1>3

\* Only the program counter of the reader changes.
LEMMA ReaderPc ==
    ASSUME PipesTypeOK, NEW p \in Pipes,
           NEW c \in {"idle", "loop", "block", "deadline", "stop", "eof"},
           rd' = [rd EXCEPT ![p].pc = c]
    PROVE  /\ rd' \in [Pipes -> RdRecords] /\ \A q \in Pipes : q # p => rd'[q] = rd[q]
           /\ rd'[p].b = rd[p].b /\ rd'[p].bb = rd[p].bb /\ rd'[p].pc = c
<1>1. PICK r \in RdRecords : r = rd[p]
  BY DEF PipesTypeOK
<1>2. PICK new : new = [r EXCEPT !.pc = c]
  OBVIOUS
<1>3. new \in RdRecords /\ new.b = r.b /\ new.bb = r.bb /\ new.pc = c
  BY <1>2 DEF RdRecords
<1>4. rd' = [rd EXCEPT ![p] = new]
  BY <1>1, <1>2
<1> QED BY <1>1, <1>3, <1>4 DEF PipesTypeOK

LEMMA ReadStartInv == ASSUME PipesInv, NEW p \in Pipes, ReadStart(p) PROVE PipesInv'
<1>1. PICK n \in Nat : rd' = [rd EXCEPT ![p].pc = "loop", ![p].n = n, ![p].mayBlock = TRUE]
  BY PipeAssumption DEF ReadStart
<1>2. PICK r \in RdRecords : r = rd[p]
  BY DEF PipesInv, PipesTypeOK
<1>3. PICK new : new = [r EXCEPT !.pc = "loop", !.n = n, !.mayBlock = TRUE]
  OBVIOUS
<1>4. new \in RdRecords /\ new.b = r.b /\ new.bb = r.bb /\ new.pc = "loop"
  BY <1>3 DEF RdRecords
<1>5. rd' = [rd EXCEPT ![p] = new]
  BY <1>1, <1>2, <1>3
<1>6. /\ rd' \in [Pipes -> RdRecords] /\ \A q \in Pipes : q # p => rd'[q] = rd[q]
      /\ rd'[p].b = rd[p].b /\ rd'[p].bb = rd[p].bb /\ rd'[p].pc = "loop"
  BY <1>2, <1>4, <1>5 DEF PipesInv, PipesTypeOK
<1>7. UNCHANGED <<buf, pool, chan, stopped, wr, sent, got, atClose>>
  BY DEF ReadStart
<1> QED BY <1>6, <1>7, ReaderMoves

LEMMA ReadNextInv == ASSUME PipesInv, NEW p \in Pipes, ReadNext(p) PROVE PipesInv'
<1>1. /\ Unread(p) = 0 /\ pool' = pool \cup ({rd[p].b} \ {NoBuf})
      /\ UNCHANGED <<buf, stopped, wr, sent, got, atClose>>
  BY EmptyUnread DEF ReadNext
<1>2. CASE chan[p] # <<>> /\ Take(p)
  BY <1>1, <1>2, TakeInv
<1>3. CASE chan[p] = <<>>
  <2>0. /\ UNCHANGED chan
        /\ rd' = [rd EXCEPT ![p] = [rd[p] EXCEPT !.b = NoBuf, !.bb = 0,
                                       !.pc = IF rd[p].mayBlock THEN "block" ELSE "idle"]]
    BY <1>3 DEF ReadNext
  <2>1. PICK r \in RdRecords : r = rd[p]
    BY DEF PipesInv, PipesTypeOK
  <2>2. PICK new : new = [r EXCEPT !.b = NoBuf, !.bb = 0,
                                   !.pc = IF r.mayBlock THEN "block" ELSE "idle"]
    OBVIOUS
  <2>3. new \in RdRecords /\ new.b = NoBuf /\ new.pc \in {"block", "idle"}
    BY <2>2 DEF RdRecords
  <2>4. rd' = [rd EXCEPT ![p] = new]
    BY <2>0, <2>1, <2>2
  <2>5. /\ rd' \in [Pipes -> RdRecords] /\ \A q \in Pipes : q # p => rd'[q] = rd[q]
        /\ rd'[p].b = NoBuf /\ rd'[p].pc \in {"block", "idle"}
    BY <2>1, <2>3, <2>4 DEF PipesInv, PipesTypeOK
  <2> QED BY <1>1, <2>0, <2>5, ReaderMoves
<1> QED BY <1>2, <1>3 DEF ReadNext

LEMMA ReadWaitInv ==
    ASSUME PipesInv, NEW p \in Pipes, ReadBlocked(p) \/ ReadLast(p) PROVE PipesInv'
<1>1. /\ rd[p].b = NoBuf /\ Unread(p) = 0 /\ PipesTypeOK
      /\ UNCHANGED <<buf, pool, stopped, wr, sent, got, atClose>>
  BY DEF ReadBlocked, ReadLast, PipesInv, PipeInv, OneUse, Unread
<1>2. pool' = pool \cup ({rd[p].b} \ {NoBuf})
  BY <1>1
<1>3. CASE chan[p] # <<>> /\ Take(p)
  BY <1>1, <1>2, <1>3, TakeInv
<1>4. CASE UNCHANGED chan /\ rd' = [rd EXCEPT ![p].pc = "deadline"]
  BY <1>1, <1>4, ReaderPc, ReaderMoves
<1>5. CASE stopped[p] /\ UNCHANGED chan /\ rd' = [rd EXCEPT ![p].pc = "stop"]
  BY <1>1, <1>5, ReaderPc, ReaderMoves
<1>6. CASE /\ chan[p] = <<>> /\ UNCHANGED chan /\ rd[p].pc \in {"deadline", "stop"}
           /\ rd' = [rd EXCEPT ![p].pc = IF rd[p].pc = "stop" THEN "eof" ELSE "idle"]
  <2>1. CASE rd[p].pc = "stop"
    <3>1. stopped[p] /\ atClose[p] <= Len(sent[p])
      BY <2>1 DEF PipesInv, PipeInv, EOFInv
    <3>2. Len(got[p]) >= atClose[p]
      <4>1. Len(got[p]) = Len(sent[p]) /\ Len(got[p]) \in Nat
        BY <1>1, <1>6, AllRead
      <4>2. atClose[p] \in Nat
        BY DEF PipesInv, PipesTypeOK
      <4> QED BY <3>1, <4>1, <4>2
    <3>3. rd' = [rd EXCEPT ![p].pc = "eof"]
      BY <1>6, <2>1
    <3> QED BY <1>1, <1>6, <3>1, <3>2, <3>3, ReaderPc, ReaderMoves
  <2>2. CASE rd[p].pc # "stop"
    <3>1. rd' = [rd EXCEPT ![p].pc = "idle"]
      BY <1>6, <2>2
    <3> QED BY <1>1, <1>6, <3>1, ReaderPc, ReaderMoves
  <2> QED BY <2>1, <2>2
<1> QED BY <1>3, <1>4, <1>5, <1>6 DEF ReadBlocked, ReadLast

-----------------------------------------------------------------------------
LEMMA ClosePipeInv == ASSUME PipesInv, NEW p \in Pipes, ClosePipe(p) PROVE PipesInv'
<1> USE DEF PipesInv
<1>1. Len(sent[p]) \in Nat
  BY DEF PipesTypeOK
<1>2. /\ ~stopped[p] /\ stopped' \in [Pipes -> BOOLEAN] /\ atClose' \in [Pipes -> Nat]
      /\ stopped'[p] = TRUE /\ atClose'[p] = Len(sent[p])
      /\ \A q \in Pipes : q # p => stopped'[q] = stopped[q] /\ atClose'[q] = atClose[q]
      /\ UNCHANGED <<buf, pool, chan, wr, rd, sent, got>>
  BY <1>1 DEF ClosePipe, PipesTypeOK
<1>3. PipesTypeOK'
  BY <1>2 DEF PipesTypeOK
<1>4. OneUse(p)' /\ EOFInv(p)'
  BY <1>1, <1>2 DEF PipeInv, OneUse, EOFInv
<1>5. DataInv(p)'
  <2>1. Unread(p)' = Unread(p)
    BY <1>2 DEF Unread
  <2> QED BY <1>2, <2>1 DEF PipeInv, DataInv
<1>6. Alone(p)
  <2>1. \A x \in Bufs : Uses(p, x)' <=> Uses(p, x)
    BY <1>2 DEF Uses
  <2> QED BY <1>2, <2>1 DEF Alone, Exclusive
<1> QED BY <1>3, <1>4, <1>5, <1>6, AloneKeeps DEF PipeInv

LEMMA PipesInvInit == PipesInit => PipesInv
<1> SUFFICES ASSUME PipesInit PROVE PipesInv
  OBVIOUS
<1> USE PipeAssumption DEF PipesInit
<1>1. PipesTypeOK
  <2>1. \A B : <<>> \in Seq(B)
    OBVIOUS
  <2>2. [pc |-> "idle", b |-> NoBuf] \in WrRecords
    BY DEF WrRecords
  <2>3. [pc |-> "idle", b |-> NoBuf, bb |-> 0, n |-> 0, mayBlock |-> TRUE] \in RdRecords
    BY DEF RdRecords
  <2>4. wr \in [Pipes -> WrRecords] /\ rd \in [Pipes -> RdRecords]
    BY <2>2, <2>3
  <2> QED BY <2>1, <2>4 DEF PipesTypeOK
<1>2. \A p \in Pipes : /\ wr[p].b = NoBuf /\ wr[p].pc = "idle" /\ chan[p] = <<>>
                       /\ rd[p].b = NoBuf /\ rd[p].pc = "idle" /\ sent[p] = <<>>
                       /\ got[p] = <<>> /\ atClose[p] = 0 /\ Len(chan[p]) = 0
  OBVIOUS
<1>3. Exclusive
  BY <1>2 DEF Exclusive, Uses, InSeq
<1>4. ASSUME NEW p \in Pipes PROVE PipeInv(p)
  <2>1. InOrder(<<>>, buf, p, 0, 0)
    <3>1. /\ <<0>> \in Seq(Nat) /\ Len(<<0>>) = 1 /\ <<0>>[1] = 0
          /\ \A i \in 1..1 : <<0>>[i] <= 0
      OBVIOUS
    <3>2. Len(<<>>) + 1 = 1 /\ \A i \in 1..Len(<<>>) : FALSE
      OBVIOUS
    <3> QED BY ONLY <3>1, <3>2 DEF InOrder
  <2>2. Len(got[p]) + Unread(p) = 0 /\ Len(sent[p]) = 0
    BY <1>2 DEF Unread
  <2>3. DataInv(p)
    BY <1>2, <2>1, <2>2 DEF DataInv, Carries
  <2>4. OneUse(p) /\ EOFInv(p)
    BY <1>2, <2>2 DEF OneUse, EOFInv, Distinct
  <2> QED BY <2>3, <2>4 DEF PipeInv
<1> QED BY <1>1, <1>3, <1>4 DEF PipesInv

LEMMA PipesInvStep == PipesInv /\ [ListenerNext]_listenerVars => PipesInv'
<1> SUFFICES ASSUME PipesInv, [ListenerNext]_listenerVars PROVE PipesInv'
  OBVIOUS
<1>1. CASE UNCHANGED pvars
  BY <1>1 DEF pvars, PipesInv, PipesTypeOK, Exclusive, Uses, PipeInv, OneUse, DataInv, EOFInv,
              Unread
<1>2. ASSUME NEW p \in Pipes, WriteStep(p) PROVE PipesInv'
  BY <1>2, WriteStartInv, WriteSendInv, WriteBlockInv DEF WriteStep
<1>3. ASSUME NEW p \in Pipes, ReadStep(p) PROVE PipesInv'
  BY <1>3, ReadStartInv, ReadCopyInv, ReadNextInv, ReadWaitInv DEF ReadStep
<1>4. ASSUME NEW p \in Pipes, DialStep(p) PROVE UNCHANGED pvars \/ ClosePipe(p)
  BY <1>4 DEF DialStep, DialLock, DialSend, DialReturn, DialClosed
<1>5. ASSUME NEW a \in Acceptors, AcceptStep(a) PROVE UNCHANGED pvars
  BY <1>5 DEF AcceptStep, Accept, AcceptClosed
<1>6. ASSUME NEW x \in Closers, CloseStep(x) PROVE UNCHANGED pvars
  BY <1>6 DEF CloseStep, CloseLock, CloseUnlock
<1>7. UNCHANGED listenerVars => UNCHANGED pvars
  BY DEF listenerVars
<1> QED BY <1>1, <1>2, <1>3, <1>4, <1>5, <1>6, <1>7, ClosePipeInv
        DEF ListenerNext, ClientEnd, ServerEnd

\* Read returns what the other end wrote, in order, though the writes and the reads
\* are cut anyhow and the buffers are shared by all pipes, and io.EOF only after all
\* that was written before Close.
THEOREM ReadFaithfulCorrect == ListenerSpec => []ReadFaithful
<1>1. PipesInv => ReadFaithful
  <2> SUFFICES ASSUME PipesInv, NEW p \in Pipes
               PROVE  /\ IsPrefix(got[p], sent[p])
                      /\ rd[p].pc = "eof" => Len(got[p]) >= atClose[p]
    BY DEF ReadFaithful
  <2>1. /\ got[p] \in Seq(Bytes) /\ sent[p] \in Seq(Bytes) /\ chan[p] \in Seq(Bufs)
        /\ Len(got[p]) \in Nat /\ Len(sent[p]) \in Nat
    BY DEF PipesInv, PipesTypeOK
  <2>2. Carries(got[p], p, 0) /\ Carries(sent[p], p, 0)
    BY DEF PipesInv, PipeInv, DataInv
  <2>3. Unread(p) \in Nat
    BY DEF Unread, PipesInv, PipesTypeOK, RdRecords, PipeInv, DataInv
  <2>4. Len(got[p]) + Unread(p) <= Len(sent[p])
    BY <2>1, InOrderBounds DEF PipesInv, PipeInv, DataInv
  <2>5. Len(got[p]) <= Len(sent[p])
    BY <2>1, <2>3, <2>4
  <2>6. IsPrefix(got[p], sent[p])
    BY ONLY <2>1, <2>2, <2>5, CarriesPrefix
  <2> QED BY <2>6 DEF PipesInv, PipeInv, EOFInv
<1>2. ListenerInit => PipesInv
  BY PipesInvInit DEF ListenerInit
<1> QED BY <1>1, <1>2, PipesInvStep, PTL DEF ListenerSpec
=============================================================================
