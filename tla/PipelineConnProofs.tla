------------------------- MODULE PipelineConnProofs -------------------------
(***************************************************************************)
(* Proofs about PipelineConn for any number of calls, any capacity of the  *)
(* channels and any number of loops.                                       *)
(***************************************************************************)
EXTENDS PipelineConn, PoolLemmas, TLAPS

\* A writer or a reader has a work in hand where it needs one, and nowhere else.
HandOK(l) ==
    /\ IF wpc[l] \in {"write", "push"} THEN ww[l] \in Calls ELSE ww[l] = None
    /\ IF rpc[l] = "read" THEN rw[l] \in Calls ELSE rw[l] = None

\* Loops are started one after the other, and start their writer and reader themselves.
StartOK(l) ==
    /\ l > gens => lpc[l] = "off"
    /\ lpc[l] \notin {"run", "stop"} => wpc[l] = "off" /\ rpc[l] = "off"

\* Where a call's work is, and whether it is answered.
CallOK(k) ==
    /\ \A p, q \in Works(k) : p = q
    /\ done[k] => Works(k) = {}
    /\ pc[k] \in {"init", "put", "putAgain"} => ~done[k] /\ Works(k) = {}
    /\ pc[k] = "wait" => done[k] \/ Works(k) # {}

QueuesOK == \A g \in Loops : Distinct(chW[g]) /\ Distinct(chR[g])

AnswerInv ==
    /\ TypeOK /\ QueuesOK
    /\ \A l \in Loops : HandOK(l) /\ StartOK(l)
    /\ \A k \in Calls : CallOK(k)

\* What has been sent on the connection of loop l, or will be with the next flush, and
\* was not answered yet.
Stream(l) == wire[l] \o buf[l]

\* The requests st, in the order in which they are answered, belong to the works that the
\* reader has (n of them, 0 or 1, then x) and will find in ch, and to the work w of a
\* writer that is about to push it; what a writer that ended leaves behind comes last.
InOrder(st, n, x, ch, p, w) ==
    /\ n = 1 => Len(st) >= 1 /\ st[1] = x
    /\ Len(st) >= n + Len(ch)
    /\ \A i \in 1..Len(ch) : st[i + n] = ch[i]
    /\ p \in {"start", "take", "write"} => Len(st) = n + Len(ch)
    /\ p = "push" => Len(st) = n + Len(ch) + 1 /\ st[Len(st)] = w

OrderOK(l) ==
    InOrder(Stream(l), IF rpc[l] = "read" THEN 1 ELSE 0, rw[l], chR[1], wpc[l], ww[l])

\* Loop l, as long as no connection is ever idle: it is the only one, and it keeps the
\* channels it was started with.
LoopOK(l) ==
    /\ lpc[l] # "off" => l = 1 /\ gen = 1 /\ gens = 1
    /\ lpc[l] # "ended"
    /\ open[l] <=> lpc[l] = "run"
    /\ lpc[l] = "run" => wpc[l] \notin {"off", "ended"} /\ rpc[l] \notin {"off", "ended"}
    /\ lpc[l] \in {"stop", "drain", "drainRecv"} => lerr[l]
    /\ lpc[l] = "dial" => chR[1] = <<>>
    /\ lpc[l] = "off" => chR[l] = <<>>
    /\ wpc[l] \in {"take", "write", "push"} => wgen[l] = 1
    /\ rpc[l] \in {"take", "read"} => rgen[l] = 1
    /\ wpc[l] \notin {"take", "write", "push"} => buf[l] = <<>>
    /\ open[l] /\ rpc[l] \in {"start", "take", "read"} => OrderOK(l)

OrderInv ==
    ~conf.idle => /\ gen = gens /\ gen \in {0, 1}
                  /\ gen = 0 => \A l \in Loops : lpc[l] = "off"
                  /\ \A l \in Loops : LoopOK(l)

PipelineInv == AnswerInv /\ OrderInv /\ ResponseMatches

-----------------------------------------------------------------------------
(* Queues, and where a work is. *)

LEMMA PushMembers ==
    ASSUME NEW ch \in [Loops -> Seq(Calls)], NEW g \in Loops, NEW k \in Calls,
           ~InSeq(k, ch[g]), \A l \in Loops : Distinct(ch[l])
    PROVE  /\ Push(ch, g, k) \in [Loops -> Seq(Calls)]
           /\ \A l \in Loops : Distinct(Push(ch, g, k)[l])
           /\ \A l \in Loops : \A x : InSeq(x, Push(ch, g, k)[l]) <=>
                                    InSeq(x, ch[l]) \/ (x = k /\ l = g)
<1>1. \A l \in Loops : Push(ch, g, k)[l] = IF l = g THEN Append(ch[g], k) ELSE ch[l]
  BY DEF Push
<1>2. Append(ch[g], k) \in Seq(Calls) /\ ch[g] \in Seq(Calls)
  OBVIOUS
<1>3. /\ Distinct(Append(ch[g], k))
      /\ \A x : InSeq(x, Append(ch[g], k)) <=> InSeq(x, ch[g]) \/ x = k
  BY <1>2, AppendMembers
<1>4. Push(ch, g, k) \in [Loops -> Seq(Calls)]
  BY <1>2 DEF Push
<1> QED BY <1>1, <1>3, <1>4

LEMMA PopMembers ==
    ASSUME NEW ch \in [Loops -> Seq(Calls)], NEW g \in Loops, ch[g] # <<>>,
           \A l \in Loops : Distinct(ch[l])
    PROVE  /\ Head(ch[g]) \in Calls /\ InSeq(Head(ch[g]), ch[g])
           /\ Pop(ch, g) \in [Loops -> Seq(Calls)]
           /\ \A l \in Loops : Distinct(Pop(ch, g)[l])
           /\ \A l \in Loops : \A x : InSeq(x, Pop(ch, g)[l]) <=>
                                    InSeq(x, ch[l]) /\ ~(x = Head(ch[g]) /\ l = g)
<1>1. \A l \in Loops : Pop(ch, g)[l] = IF l = g THEN Tail(ch[g]) ELSE ch[l]
  BY DEF Pop
<1>2. ch[g] \in Seq(Calls)
  OBVIOUS
<1>3. /\ Head(ch[g]) \in Calls /\ InSeq(Head(ch[g]), ch[g]) /\ Tail(ch[g]) \in Seq(Calls)
      /\ Distinct(Tail(ch[g]))
      /\ \A x : InSeq(x, Tail(ch[g])) <=> InSeq(x, ch[g]) /\ x # Head(ch[g])
  BY <1>2, TailMembers
<1>4. Pop(ch, g) \in [Loops -> Seq(Calls)]
  BY <1>3 DEF Pop
<1> QED BY <1>1, <1>3, <1>4

Places == {"chW", "chR", "writer", "reader"} \X Loops

LEMMA WorksAre ==
    ASSUME NEW k
    PROVE  /\ Works(k) \subseteq Places
           /\ \A l \in Loops : /\ <<"chW", l>> \in Works(k) <=> InSeq(k, chW[l])
                               /\ <<"chR", l>> \in Works(k) <=> InSeq(k, chR[l])
                               /\ <<"writer", l>> \in Works(k) <=> ww[l] = k
                               /\ <<"reader", l>> \in Works(k) <=> rw[l] = k
BY DEF Works, Places

LEMMA WorksBecome ==
    ASSUME NEW k, NEW S \in SUBSET Places,
           \A l \in Loops : /\ <<"chW", l>> \in S <=> InSeq(k, chW'[l])
                            /\ <<"chR", l>> \in S <=> InSeq(k, chR'[l])
                            /\ <<"writer", l>> \in S <=> ww'[l] = k
                            /\ <<"reader", l>> \in S <=> rw'[l] = k
    PROVE  Works(k)' = S
<1>1. ASSUME NEW p PROVE p \in Works(k)' <=> p \in S
  <2>1. CASE p \notin Places
    BY <2>1 DEF Works, Places
  <2>2. CASE p \in Places
    <3>1. PICK n \in {"chW", "chR", "writer", "reader"}, l \in Loops : p = <<n, l>>
      BY <2>2 DEF Places
    <3> QED BY <3>1 DEF Works
  <2> QED BY <2>1, <2>2
<1> QED BY <1>1

LEMMA WorksKept ==
    ASSUME NEW k,
           \A l \in Loops : /\ InSeq(k, chW'[l]) <=> InSeq(k, chW[l])
                            /\ InSeq(k, chR'[l]) <=> InSeq(k, chR[l])
                            /\ ww'[l] = k <=> ww[l] = k
                            /\ rw'[l] = k <=> rw[l] = k
    PROVE  Works(k)' = Works(k)
<1>1. PICK S : S = Works(k)
  OBVIOUS
<1>2. S \in SUBSET Places
  BY <1>1, WorksAre
<1>3. \A l \in Loops : /\ <<"chW", l>> \in S <=> InSeq(k, chW'[l])
                       /\ <<"chR", l>> \in S <=> InSeq(k, chR'[l])
                       /\ <<"writer", l>> \in S <=> ww'[l] = k
                       /\ <<"reader", l>> \in S <=> rw'[l] = k
  BY <1>1, WorksAre
<1> QED BY <1>1, <1>2, <1>3, WorksBecome

\* A step that is about the work of call x only.
LEMMA OneCall ==
    ASSUME AnswerInv, NEW x \in Calls,
           \A k \in Calls \ {x} : Works(k)' = Works(k) /\ pc'[k] = pc[k] /\ done'[k] = done[k],
           CallOK(x)'
    PROVE  \A k \in Calls : CallOK(k)'
BY DEF AnswerInv, CallOK

\* A step that moves no work.
LEMMA SameWorks ==
    ASSUME UNCHANGED <<chW, chR, ww, rw>>
    PROVE  \A k : Works(k)' = Works(k)
BY DEF Works

-----------------------------------------------------------------------------
(* Every step keeps AnswerInv. *)

\* A pair of channels that is not nil.
LEMMA PairInLoops ==
    ASSUME NEW g \in 0..MaxLoops, g # 0
    PROVE  g \in Loops
BY PipelineAssumption DEF Loops

LEMMA AnswerCallInit ==
    ASSUME AnswerInv, NEW k \in Calls, CallInit(k)
    PROVE  AnswerInv'
<1>1. /\ UNCHANGED <<chW, chR, ww, rw, wpc, rpc, done>> /\ pc[k] = "init"
      /\ pc' = [pc EXCEPT ![k] = "put"]
  BY DEF CallInit, writerVars, readerVars
<1>2. TypeOK'
  <2>1. pc' \in [Calls -> {"init", "put", "putAgain", "wait", "done"}]
    BY <1>1 DEF AnswerInv, TypeOK
  <2>2. /\ gen' \in 0..MaxLoops /\ gens' \in 0..MaxLoops
        /\ lpc' \in [Loops -> {"off", "dial", "run", "stop", "drain", "drainRecv", "ended"}]
    <3>1. CASE UNCHANGED <<gen, gens, lpc>>
      BY <3>1 DEF AnswerInv, TypeOK
    <3>2. CASE /\ gens < MaxLoops /\ gen' = gens + 1 /\ gens' = gens + 1
               /\ lpc' = [lpc EXCEPT ![gens + 1] = "dial"]
      <4>1. gens + 1 \in 0..MaxLoops
        BY <3>2, PipelineAssumption DEF AnswerInv, TypeOK
      <4> QED BY <3>2, <4>1 DEF AnswerInv, TypeOK
    <3> QED BY <3>1, <3>2 DEF CallInit
  <2> QED BY <2>1, <2>2 DEF CallInit, AnswerInv, TypeOK, writerVars, readerVars
<1>3. QueuesOK' /\ \A l \in Loops : HandOK(l)' /\ StartOK(l)'
  <2>1. QueuesOK' /\ \A l \in Loops : HandOK(l)'
    BY <1>1 DEF AnswerInv, QueuesOK, HandOK
  <2>2. ASSUME NEW l \in Loops PROVE StartOK(l)'
    <3>1. CASE UNCHANGED <<gen, gens, lpc>>
      BY <1>1, <3>1 DEF AnswerInv, StartOK
    <3>2. CASE gens' = gens + 1 /\ lpc' = [lpc EXCEPT ![gens + 1] = "dial"]
      <4>1. gens \in Int /\ l \in Int /\ lpc'[l] = IF l = gens + 1 THEN "dial" ELSE lpc[l]
        BY <3>2, PipelineAssumption DEF AnswerInv, TypeOK, Loops
      <4> QED BY <1>1, <3>2, <4>1 DEF AnswerInv, StartOK
    <3> QED BY <3>1, <3>2 DEF CallInit
  <2> QED BY <2>1, <2>2
<1>4. \A x \in Calls : CallOK(x)'
  <2>1. \A x \in Calls : Works(x)' = Works(x) /\ done'[x] = done[x]
    BY <1>1, SameWorks
  <2>2. \A x \in Calls : pc'[x] = IF x = k THEN "put" ELSE pc[x]
    BY <1>1 DEF AnswerInv, TypeOK
  <2> QED BY <1>1, <2>1, <2>2 DEF AnswerInv, CallOK
<1> QED BY <1>2, <1>3, <1>4 DEF AnswerInv

LEMMA AnswerCallReturns ==
    ASSUME AnswerInv, NEW k \in Calls, CallOverflow(k) \/ CallTimeout(k) \/ CallDone(k)
    PROVE  AnswerInv'
<1>1. /\ UNCHANGED <<conf, gen, gens, chW, chR, resp, loopVars, writerVars, readerVars, open, wire>>
      /\ pc' = [pc EXCEPT ![k] = "done"]
      /\ done' = done \/ done' = [done EXCEPT ![k] = FALSE]
      /\ werr' = werr \/ werr' = [werr EXCEPT ![k] = "ErrPipelineOverflow"]
  BY DEF CallOverflow, CallTimeout, CallDone
<1>2. TypeOK'
  <2>1. /\ pc' \in [Calls -> {"init", "put", "putAgain", "wait", "done"}]
        /\ done' \in [Calls -> BOOLEAN]
        /\ werr' \in [Calls -> {"none", "ErrPipelineOverflow", "errPipelineConnStopped",
                                "ErrTimeout", "write", "read"}]
    BY <1>1 DEF AnswerInv, TypeOK
  <2> QED BY <1>1, <2>1 DEF AnswerInv, TypeOK, loopVars, writerVars, readerVars
<1>3. QueuesOK' /\ \A l \in Loops : HandOK(l)' /\ StartOK(l)'
  BY <1>1 DEF AnswerInv, QueuesOK, HandOK, StartOK, writerVars, readerVars, loopVars
<1>4. \A x \in Calls : CallOK(x)'
  <2>1. \A x \in Calls : Works(x)' = Works(x)
    BY <1>1, SameWorks DEF writerVars, readerVars
  <2>2. /\ \A x \in Calls : pc'[x] = IF x = k THEN "done" ELSE pc[x]
        /\ \A x \in Calls : done'[x] => done[x]
        /\ \A x \in Calls : x # k => done'[x] = done[x]
    BY <1>1 DEF AnswerInv, TypeOK
  <2> QED BY <2>1, <2>2 DEF AnswerInv, CallOK
<1> QED BY <1>2, <1>3, <1>4 DEF AnswerInv

LEMMA AnswerCallPut ==
    ASSUME AnswerInv, NEW k \in Calls, CallPut(k)
    PROVE  AnswerInv'
<1>1. /\ UNCHANGED <<conf, gen, gens, chR, done, werr, resp, loopVars, writerVars, readerVars,
                     open, wire>>
      /\ pc' = [pc EXCEPT ![k] = "wait"] /\ pc[k] \in {"put", "putAgain"}
      /\ chW' = Push(chW, gen, k)
  BY DEF CallPut
<1>2. gen \in Loops
  BY PairInLoops DEF CallPut, HasRoom, AnswerInv, TypeOK
<1>3. Works(k) = {} /\ ~InSeq(k, chW[gen])
  BY <1>1, <1>2, WorksAre DEF AnswerInv, CallOK
<1>4. /\ chW' \in [Loops -> Seq(Calls)] /\ \A l \in Loops : Distinct(chW'[l])
      /\ \A l \in Loops : \A x : InSeq(x, chW'[l]) <=> InSeq(x, chW[l]) \/ (x = k /\ l = gen)
  BY <1>1, <1>2, <1>3, PushMembers DEF AnswerInv, TypeOK, QueuesOK
<1>5. TypeOK'
  <2>1. pc' \in [Calls -> {"init", "put", "putAgain", "wait", "done"}]
    BY <1>1 DEF AnswerInv, TypeOK
  <2> QED BY <1>1, <1>4, <2>1 DEF AnswerInv, TypeOK, loopVars, writerVars, readerVars
<1>6. QueuesOK' /\ \A l \in Loops : HandOK(l)' /\ StartOK(l)'
  BY <1>1, <1>4 DEF AnswerInv, QueuesOK, HandOK, StartOK, writerVars, readerVars, loopVars
<1>7. \A x \in Calls : CallOK(x)'
  <2>1. ASSUME NEW x \in Calls \ {k} PROVE Works(x)' = Works(x)
    BY <1>1, <1>4, WorksKept DEF writerVars, readerVars
  <2>2. Works(k)' = {<<"chW", gen>>}
    <3>1. {<<"chW", gen>>} \in SUBSET Places
      BY <1>2 DEF Places
    <3>2. \A l \in Loops : ~InSeq(k, chW[l]) /\ ~InSeq(k, chR[l]) /\ ww[l] # k /\ rw[l] # k
      BY <1>3, WorksAre
    <3>3. \A l \in Loops : InSeq(k, chW'[l]) <=> l = gen
      BY <1>4, <3>2
    <3> QED BY <1>1, <3>1, <3>2, <3>3, WorksBecome DEF writerVars, readerVars
  <2>3. \A x \in Calls : pc'[x] = IF x = k THEN "wait" ELSE pc[x]
    BY <1>1 DEF AnswerInv, TypeOK
  <2>4. CallOK(k)'
    BY <1>1, <2>2, <2>3 DEF AnswerInv, CallOK
  <2> QED BY <1>1, <2>1, <2>3, <2>4, OneCall
<1> QED BY <1>5, <1>6, <1>7 DEF AnswerInv

\* A work is in one place only.
LEMMA OnlyAt ==
    ASSUME AnswerInv, NEW x \in Calls, NEW p \in Works(x)
    PROVE  /\ \A l \in Loops : /\ InSeq(x, chW[l]) <=> p = <<"chW", l>>
                               /\ InSeq(x, chR[l]) <=> p = <<"chR", l>>
                               /\ ww[l] = x <=> p = <<"writer", l>>
                               /\ rw[l] = x <=> p = <<"reader", l>>
           /\ ~done[x] /\ pc[x] \notin {"init", "put", "putAgain"}
<1>1. \A q \in Works(x) : q = p
  BY DEF AnswerInv, CallOK
<1>2. ~done[x] /\ pc[x] \notin {"init", "put", "putAgain"}
  BY DEF AnswerInv, CallOK
<1>3. \A q : q = p => q \in Works(x)
  OBVIOUS
<1> QED BY <1>1, <1>2, <1>3, WorksAre

\* Nothing but the work of x changes its place.
OthersKept(x) ==
    \A k \in Calls \ {x} : \A l \in Loops : /\ InSeq(k, chW'[l]) <=> InSeq(k, chW[l])
                                            /\ InSeq(k, chR'[l]) <=> InSeq(k, chR[l])
                                            /\ ww'[l] = k <=> ww[l] = k
                                            /\ rw'[l] = k <=> rw[l] = k

\* The work of x is taken from where it was, and answered.
LEMMA Answered ==
    ASSUME AnswerInv, NEW x \in Calls, Works(x) # {}, OthersKept(x),
           \A l \in Loops : ~InSeq(x, chW'[l]) /\ ~InSeq(x, chR'[l]) /\ ww'[l] # x /\ rw'[l] # x,
           done' = [done EXCEPT ![x] = TRUE],
           \A k \in Calls : pc'[k] = pc[k] \/ (pc[k] = "put" /\ pc'[k] = "putAgain")
    PROVE  \A k \in Calls : CallOK(k)'
<1>1. Works(x)' = {}
  <2>1. PICK S \in SUBSET Places : S = {}
    OBVIOUS
  <2>2. \A q : q \notin S
    BY <2>1
  <2>3. Works(x)' = S
    BY <2>2, WorksBecome
  <2> QED BY <2>1, <2>3
<1>2. \A k \in Calls \ {x} : Works(k)' = Works(k)
  BY WorksKept DEF OthersKept
<1>3. \A k \in Calls : done'[k] = IF k = x THEN TRUE ELSE done[k]
  BY DEF AnswerInv, TypeOK
<1>4. pc[x] \notin {"init", "put", "putAgain"}
  BY DEF AnswerInv, CallOK
<1>5. CallOK(x)'
  <2>1. pc'[x] \notin {"init", "put", "putAgain"} /\ done'[x]
    BY <1>3, <1>4
  <2> QED BY <1>1, <2>1 DEF CallOK
<1>6. ASSUME NEW k \in Calls \ {x} PROVE CallOK(k)'
  <2>1. Works(k)' = Works(k) /\ done'[k] = done[k]
    BY <1>2, <1>3
  <2>2. CallOK(k)
    BY DEF AnswerInv
  <2> QED BY <2>1, <2>2 DEF CallOK
<1> QED BY <1>5, <1>6

\* The work of x goes to place p.
LEMMA Moved ==
    ASSUME AnswerInv, NEW x \in Calls, Works(x) # {}, OthersKept(x), NEW p \in Places,
           \A l \in Loops : /\ InSeq(x, chW'[l]) <=> p = <<"chW", l>>
                            /\ InSeq(x, chR'[l]) <=> p = <<"chR", l>>
                            /\ ww'[l] = x <=> p = <<"writer", l>>
                            /\ rw'[l] = x <=> p = <<"reader", l>>,
           done' = done, pc' = pc
    PROVE  \A k \in Calls : CallOK(k)'
<1>1. Works(x)' = {p}
  <2>1. {p} \in SUBSET Places
    OBVIOUS
  <2>2. \A q : q \in {p} <=> p = q
    OBVIOUS
  <2> QED BY <2>1, <2>2, WorksBecome
<1>2. \A k \in Calls \ {x} : Works(k)' = Works(k)
  BY WorksKept DEF OthersKept
<1>3. ~done[x] /\ pc[x] \notin {"init", "put", "putAgain"}
  BY DEF AnswerInv, CallOK
<1>4. CallOK(x)'
  BY <1>1, <1>3 DEF CallOK
<1> QED BY <1>2, <1>4, OneCall

LEMMA AnswerCallReplace ==
    ASSUME AnswerInv, NEW k \in Calls, CallReplace(k)
    PROVE  AnswerInv'
<1>1. /\ UNCHANGED <<conf, gen, gens, chR, resp, loopVars, writerVars, readerVars, open, wire>>
      /\ pc' = [pc EXCEPT ![k] = "putAgain"] /\ pc[k] = "put"
  BY DEF CallReplace
<1>2. /\ pc' \in [Calls -> {"init", "put", "putAgain", "wait", "done"}]
      /\ \A x \in Calls : pc'[x] = IF x = k THEN "putAgain" ELSE pc[x]
  BY <1>1 DEF AnswerInv, TypeOK
<1>3. \A l \in Loops : HandOK(l)' /\ StartOK(l)'
  BY <1>1 DEF AnswerInv, HandOK, StartOK, writerVars, readerVars, loopVars
<1>4. CASE UNCHANGED <<chW, done, werr>>
  <2>1. TypeOK' /\ QueuesOK'
    BY <1>1, <1>2, <1>4 DEF AnswerInv, TypeOK, QueuesOK, loopVars, writerVars, readerVars
  <2>2. \A x \in Calls : Works(x)' = Works(x)
    BY <1>1, <1>4, SameWorks DEF writerVars, readerVars
  <2>3. \A x \in Calls : CallOK(x)'
    BY <1>1, <1>2, <1>4, <2>2 DEF AnswerInv, CallOK
  <2> QED BY <1>3, <2>1, <2>3 DEF AnswerInv
<1>5. CASE /\ HasWork(chW, gen) /\ Answer(Head(chW[gen]), "ErrPipelineOverflow")
           /\ chW' = Pop(chW, gen)
  <2>1. gen \in Loops /\ chW[gen] # <<>>
    BY <1>5, PairInLoops DEF HasWork, AnswerInv, TypeOK
  <2>2. PICK x : x = Head(chW[gen])
    OBVIOUS
  <2>3. /\ x \in Calls /\ InSeq(x, chW[gen])
        /\ chW' \in [Loops -> Seq(Calls)] /\ \A l \in Loops : Distinct(chW'[l])
        /\ \A l \in Loops : \A y : InSeq(y, chW'[l]) <=> InSeq(y, chW[l]) /\ ~(y = x /\ l = gen)
    BY <1>5, <2>1, <2>2, PopMembers DEF AnswerInv, TypeOK, QueuesOK
  <2>4. <<"chW", gen>> \in Works(x)
    BY <2>1, <2>3, WorksAre
  <2>5. /\ done' = [done EXCEPT ![x] = TRUE]
        /\ werr' = [werr EXCEPT ![x] = "ErrPipelineOverflow"]
    BY <1>5, <2>2 DEF Answer
  <2>6. TypeOK' /\ QueuesOK'
    <3>1. /\ done' \in [Calls -> BOOLEAN]
          /\ werr' \in [Calls -> {"none", "ErrPipelineOverflow", "errPipelineConnStopped",
                                  "ErrTimeout", "write", "read"}]
      BY <2>5 DEF AnswerInv, TypeOK
    <3> QED BY <1>1, <1>2, <2>3, <3>1
            DEF AnswerInv, TypeOK, QueuesOK, loopVars, writerVars, readerVars
  <2>7. OthersKept(x)
    BY <1>1, <2>3 DEF OthersKept, writerVars, readerVars
  <2>8. \A l \in Loops : ~InSeq(x, chW'[l]) /\ ~InSeq(x, chR'[l]) /\ ww'[l] # x /\ rw'[l] # x
    BY <1>1, <2>3, <2>4, OnlyAt DEF writerVars, readerVars
  <2>9. \A y \in Calls : CallOK(y)'
    BY <1>1, <1>2, <2>3, <2>4, <2>5, <2>7, <2>8, Answered
  <2> QED BY <1>3, <2>6, <2>9 DEF AnswerInv
<1> QED BY <1>4, <1>5 DEF CallReplace

\* The steps of the loop that touch no work.
LEMMA AnswerLoop ==
    ASSUME AnswerInv, NEW l \in Loops,
           \/ DialOk(l) \/ OneEnded(l) \/ BothEnded(l) \/ DrainCheck(l) \/ WorkerReturned(l)
    PROVE  AnswerInv'
<1>1. UNCHANGED <<conf, gens, chW, chR, callVars, resp, ww, buf, flush, wgen, rgen, rw>>
  BY DEF DialOk, OneEnded, BothEnded, DrainCheck, WorkerReturned, writerVars, readerVars
<1>2. TypeOK' /\ \A m \in Loops : HandOK(m)' /\ StartOK(m)'
  <2>1. CASE DialOk(l)
    <3>1. /\ lpc' = [lpc EXCEPT ![l] = "run"] /\ wpc' = [wpc EXCEPT ![l] = "start"]
          /\ rpc' = [rpc EXCEPT ![l] = "start"] /\ wire' = [wire EXCEPT ![l] = <<>>]
          /\ open' = [open EXCEPT ![l] = TRUE] /\ UNCHANGED <<gen, lerr>> /\ lpc[l] = "dial"
      BY <2>1 DEF DialOk
    <3>2. /\ lpc' \in [Loops -> {"off", "dial", "run", "stop", "drain", "drainRecv", "ended"}]
          /\ wpc' \in [Loops -> {"off", "start", "take", "write", "push", "ended", "failed"}]
          /\ rpc' \in [Loops -> {"off", "start", "take", "read", "ended", "failed"}]
          /\ wire' \in [Loops -> Seq(Calls)]
          /\ open' \in [Loops -> BOOLEAN]
      BY <3>1 DEF AnswerInv, TypeOK
    <3>3. TypeOK'
      BY <1>1, <3>1, <3>2 DEF AnswerInv, TypeOK, callVars
    <3>4. \A m \in Loops : /\ lpc'[m] = IF m = l THEN "run" ELSE lpc[m]
                           /\ wpc'[m] = IF m = l THEN "start" ELSE wpc[m]
                           /\ rpc'[m] = IF m = l THEN "start" ELSE rpc[m]
      BY <3>1 DEF AnswerInv, TypeOK
    <3> QED BY <1>1, <3>1, <3>3, <3>4 DEF AnswerInv, HandOK, StartOK
  <2>2. CASE BothEnded(l)
    <3>1. /\ lpc' = [lpc EXCEPT ![l] = "drain"] /\ wpc' = [wpc EXCEPT ![l] = "off"]
          /\ rpc' = [rpc EXCEPT ![l] = "off"] /\ UNCHANGED <<gen, lerr, open, wire>>
          /\ lpc[l] = "stop" /\ wpc[l] \in {"ended", "failed"} /\ rpc[l] \in {"ended", "failed"}
      BY <2>2 DEF BothEnded
    <3>2. /\ lpc' \in [Loops -> {"off", "dial", "run", "stop", "drain", "drainRecv", "ended"}]
          /\ wpc' \in [Loops -> {"off", "start", "take", "write", "push", "ended", "failed"}]
          /\ rpc' \in [Loops -> {"off", "start", "take", "read", "ended", "failed"}]
      BY <3>1 DEF AnswerInv, TypeOK
    <3>3. TypeOK'
      BY <1>1, <3>1, <3>2 DEF AnswerInv, TypeOK, callVars
    <3>4. \A m \in Loops : /\ lpc'[m] = IF m = l THEN "drain" ELSE lpc[m]
                           /\ wpc'[m] = IF m = l THEN "off" ELSE wpc[m]
                           /\ rpc'[m] = IF m = l THEN "off" ELSE rpc[m]
      BY <3>1 DEF AnswerInv, TypeOK
    <3> QED BY <1>1, <3>1, <3>3, <3>4 DEF AnswerInv, HandOK, StartOK
  <2>3. CASE OneEnded(l)
    <3>1. PICK e \in BOOLEAN :
             /\ lerr' = [lerr EXCEPT ![l] = e] /\ lpc' = [lpc EXCEPT ![l] = "stop"]
             /\ open' = [open EXCEPT ![l] = FALSE] /\ UNCHANGED <<gen, wpc, rpc, wire>>
             /\ lpc[l] = "run"
      BY <2>3 DEF OneEnded, writerVars, readerVars
    <3>2. /\ lpc' \in [Loops -> {"off", "dial", "run", "stop", "drain", "drainRecv", "ended"}]
          /\ lerr' \in [Loops -> BOOLEAN] /\ open' \in [Loops -> BOOLEAN]
      BY <3>1 DEF AnswerInv, TypeOK
    <3>3. TypeOK'
      BY <1>1, <3>1, <3>2 DEF AnswerInv, TypeOK, callVars
    <3>4. \A m \in Loops : lpc'[m] = IF m = l THEN "stop" ELSE lpc[m]
      BY <3>1 DEF AnswerInv, TypeOK
    <3> QED BY <1>1, <3>1, <3>3, <3>4 DEF AnswerInv, HandOK, StartOK
  <2>4. CASE DrainCheck(l) \/ WorkerReturned(l)
    <3>1. PICK p \in {"drainRecv", "dial", "ended"} :
             /\ lpc' = [lpc EXCEPT ![l] = p] /\ gen' \in {gen, 0}
             /\ UNCHANGED <<lerr, wpc, rpc, open, wire>> /\ lpc[l] = "drain"
      BY <2>4 DEF DrainCheck, WorkerReturned, writerVars, readerVars
    <3>2. /\ lpc' \in [Loops -> {"off", "dial", "run", "stop", "drain", "drainRecv", "ended"}]
          /\ gen' \in 0..MaxLoops
      BY <3>1, PipelineAssumption DEF AnswerInv, TypeOK
    <3>3. TypeOK'
      BY <1>1, <3>1, <3>2 DEF AnswerInv, TypeOK, callVars
    <3>4. \A m \in Loops : lpc'[m] = IF m = l THEN p ELSE lpc[m]
      BY <3>1 DEF AnswerInv, TypeOK
    <3> QED BY <1>1, <3>1, <3>3, <3>4 DEF AnswerInv, HandOK, StartOK
  <2> QED BY <2>1, <2>2, <2>3, <2>4
<1>3. QueuesOK'
  BY <1>1 DEF AnswerInv, QueuesOK
<1>4. \A x \in Calls : CallOK(x)'
  <2>1. \A x \in Calls : Works(x)' = Works(x)
    BY <1>1, SameWorks
  <2> QED BY <1>1, <2>1 DEF AnswerInv, CallOK, callVars
<1> QED BY <1>2, <1>3, <1>4 DEF AnswerInv

\* The type of w.done and w.err after an answer.
LEMMA AnswerTypes ==
    ASSUME TypeOK, NEW x \in Calls,
           NEW e \in {"none", "ErrPipelineOverflow", "errPipelineConnStopped", "ErrTimeout",
                      "write", "read"},
           Answer(x, e)
    PROVE  /\ done' = [done EXCEPT ![x] = TRUE]
           /\ done' \in [Calls -> BOOLEAN]
           /\ werr' \in [Calls -> {"none", "ErrPipelineOverflow", "errPipelineConnStopped",
                                   "ErrTimeout", "write", "read"}]
BY DEF TypeOK, Answer

LEMMA AnswerDrain ==
    ASSUME AnswerInv, NEW l \in Loops, Drain(l)
    PROVE  AnswerInv'
<1>1. /\ UNCHANGED <<conf, gen, gens, chW, pc, resp, lerr, writerVars, readerVars, open, wire>>
      /\ lpc' = [lpc EXCEPT ![l] = "drain"] /\ lpc[l] = "drainRecv"
      /\ HasWork(chR, gen) /\ chR' = Pop(chR, gen)
      /\ Answer(Head(chR[gen]), "errPipelineConnStopped")
  BY DEF Drain
<1>2. /\ lpc' \in [Loops -> {"off", "dial", "run", "stop", "drain", "drainRecv", "ended"}]
      /\ \A m \in Loops : lpc'[m] = IF m = l THEN "drain" ELSE lpc[m]
  BY <1>1 DEF AnswerInv, TypeOK
<1>3. \A m \in Loops : HandOK(m)' /\ StartOK(m)'
  BY <1>1, <1>2 DEF AnswerInv, HandOK, StartOK, writerVars, readerVars
<1>4. gen \in Loops /\ chR[gen] # <<>>
  BY <1>1, PairInLoops DEF HasWork, AnswerInv, TypeOK
<1>5. PICK x : x = Head(chR[gen])
  OBVIOUS
<1>6. /\ x \in Calls /\ InSeq(x, chR[gen])
      /\ chR' \in [Loops -> Seq(Calls)] /\ \A m \in Loops : Distinct(chR'[m])
      /\ \A m \in Loops : \A y : InSeq(y, chR'[m]) <=> InSeq(y, chR[m]) /\ ~(y = x /\ m = gen)
  BY <1>1, <1>4, <1>5, PopMembers DEF AnswerInv, TypeOK, QueuesOK
<1>7. <<"chR", gen>> \in Works(x)
  BY <1>4, <1>6, WorksAre
<1>8. /\ done' = [done EXCEPT ![x] = TRUE] /\ TypeOK' /\ QueuesOK'
  <2>1. /\ done' = [done EXCEPT ![x] = TRUE]
        /\ done' \in [Calls -> BOOLEAN]
        /\ werr' \in [Calls -> {"none", "ErrPipelineOverflow", "errPipelineConnStopped",
                                "ErrTimeout", "write", "read"}]
    BY <1>1, <1>5, <1>6, AnswerTypes DEF AnswerInv
  <2> QED BY <1>1, <1>2, <1>6, <2>1 DEF AnswerInv, TypeOK, QueuesOK, writerVars, readerVars
<1>9. \A y \in Calls : CallOK(y)'
  <2>1. OthersKept(x)
    BY <1>1, <1>6 DEF OthersKept, writerVars, readerVars
  <2>2. \A m \in Loops : ~InSeq(x, chW'[m]) /\ ~InSeq(x, chR'[m]) /\ ww'[m] # x /\ rw'[m] # x
    BY <1>1, <1>6, <1>7, OnlyAt DEF writerVars, readerVars
  <2> QED BY <1>1, <1>6, <1>7, <1>8, <2>1, <2>2, Answered
<1> QED BY <1>3, <1>8, <1>9 DEF AnswerInv

\* The steps of the writer that move no work.
LEMMA AnswerWriter ==
    ASSUME AnswerInv, NEW l \in Loops, WriterStart(l) \/ WriterWrite(l) \/ WriterFlush(l)
    PROVE  AnswerInv'
<1>1. UNCHANGED <<conf, gen, gens, chW, chR, callVars, resp, loopVars, readerVars, open, ww>>
  BY DEF WriterStart, WriterWrite, WriterFlush
<1>2. TypeOK' /\ \A m \in Loops : HandOK(m)' /\ StartOK(m)'
  <2>1. CASE WriterStart(l)
    <3>1. /\ wpc[l] = "start" /\ wpc' = [wpc EXCEPT ![l] = "take"] /\ wire' = wire
          /\ wgen' = [wgen EXCEPT ![l] = gen]
          /\ flush' = [flush EXCEPT ![l] = FALSE] /\ buf' = [buf EXCEPT ![l] = <<>>]
      BY <2>1 DEF WriterStart
    <3>2. /\ wpc' \in [Loops -> {"off", "start", "take", "write", "push", "ended", "failed"}]
          /\ wgen' \in [Loops -> 0..MaxLoops] /\ flush' \in [Loops -> BOOLEAN]
          /\ buf' \in [Loops -> Seq(Calls)]
          /\ \A m \in Loops : wpc'[m] = IF m = l THEN "take" ELSE wpc[m]
      BY <3>1 DEF AnswerInv, TypeOK
    <3>3. TypeOK'
      BY <1>1, <3>1, <3>2 DEF AnswerInv, TypeOK, callVars, loopVars, readerVars
    <3> QED BY <1>1, <3>1, <3>2, <3>3 DEF AnswerInv, HandOK, StartOK, loopVars, readerVars
  <2>2. CASE WriterWrite(l)
    <3>1. /\ wpc[l] = "write" /\ wpc' = [wpc EXCEPT ![l] = "push"]
          /\ wire' = wire /\ wgen' = wgen
          /\ buf' = [buf EXCEPT ![l] = Append(@, ww[l])]
          /\ flush' = [flush EXCEPT ![l] = \/ @
                                           \/ ~HasWork(chW, wgen[l])
                                           \/ ~HasRoom(chR, wgen[l])]
      BY <2>2 DEF WriterWrite
    <3>2. ww[l] \in Calls
      BY <3>1 DEF AnswerInv, HandOK
    <3>3. /\ wpc' \in [Loops -> {"off", "start", "take", "write", "push", "ended", "failed"}]
          /\ buf' \in [Loops -> Seq(Calls)]
          /\ \A m \in Loops : wpc'[m] = IF m = l THEN "push" ELSE wpc[m]
      BY <3>1, <3>2 DEF AnswerInv, TypeOK
    <3>4. flush' \in [Loops -> BOOLEAN]
      BY <3>1 DEF AnswerInv, TypeOK
    <3>5. TypeOK'
      BY <1>1, <3>1, <3>3, <3>4 DEF AnswerInv, TypeOK, callVars, loopVars, readerVars
    <3> QED BY <1>1, <3>1, <3>3, <3>5 DEF AnswerInv, HandOK, StartOK, loopVars, readerVars
  <2>3. CASE WriterFlush(l)
    <3>1. /\ wire' = Flushed(l) /\ buf' = [buf EXCEPT ![l] = <<>>]
          /\ flush' = [flush EXCEPT ![l] = FALSE] /\ UNCHANGED <<wpc, wgen>>
      BY <2>3 DEF WriterFlush
    <3>2. /\ buf' \in [Loops -> Seq(Calls)] /\ flush' \in [Loops -> BOOLEAN]
          /\ wire' \in [Loops -> Seq(Calls)]
      BY <3>1 DEF AnswerInv, TypeOK, Flushed
    <3>3. TypeOK'
      BY <1>1, <3>1, <3>2 DEF AnswerInv, TypeOK, callVars, loopVars, readerVars
    <3> QED BY <1>1, <3>1, <3>3 DEF AnswerInv, HandOK, StartOK, loopVars, readerVars
  <2> QED BY <2>1, <2>2, <2>3
<1>3. QueuesOK'
  BY <1>1 DEF AnswerInv, QueuesOK
<1>4. \A x \in Calls : CallOK(x)'
  <2>1. \A x \in Calls : Works(x)' = Works(x)
    BY <1>1, SameWorks DEF readerVars
  <2> QED BY <1>1, <2>1 DEF AnswerInv, CallOK, callVars
<1> QED BY <1>2, <1>3, <1>4 DEF AnswerInv

LEMMA AnswerWriterTake ==
    ASSUME AnswerInv, NEW l \in Loops, WriterTake(l)
    PROVE  AnswerInv'
<1>1. PICK g, x : g = wgen[l] /\ x = Head(chW[wgen[l]])
  OBVIOUS
<1>2. /\ UNCHANGED <<conf, gen, gens, chR, callVars, resp, loopVars, wgen, buf, flush,
                     readerVars, open, wire>>
      /\ wpc[l] = "take" /\ wpc' = [wpc EXCEPT ![l] = "write"]
      /\ ww' = [ww EXCEPT ![l] = x] /\ chW' = Pop(chW, g)
  BY <1>1 DEF WriterTake
<1>3. g \in Loops /\ chW[g] # <<>> /\ ww[l] = None
  BY <1>1, <1>2, PairInLoops DEF WriterTake, HasWork, AnswerInv, TypeOK, HandOK
<1>4. /\ x \in Calls /\ InSeq(x, chW[g])
      /\ chW' \in [Loops -> Seq(Calls)] /\ \A m \in Loops : Distinct(chW'[m])
      /\ \A m \in Loops : \A y : InSeq(y, chW'[m]) <=> InSeq(y, chW[m]) /\ ~(y = x /\ m = g)
  <2>1. x = Head(chW[g]) /\ chW \in [Loops -> Seq(Calls)] /\ \A m \in Loops : Distinct(chW[m])
    BY <1>1 DEF AnswerInv, TypeOK, QueuesOK
  <2> QED BY <1>2, <1>3, <2>1, PopMembers
<1>5. /\ wpc' \in [Loops -> {"off", "start", "take", "write", "push", "ended", "failed"}]
      /\ ww' \in [Loops -> Calls \cup {None}]
      /\ \A m \in Loops : wpc'[m] = IF m = l THEN "write" ELSE wpc[m]
      /\ \A m \in Loops : ww'[m] = IF m = l THEN x ELSE ww[m]
  BY <1>2, <1>4 DEF AnswerInv, TypeOK
<1>6. TypeOK' /\ QueuesOK'
  BY <1>2, <1>4, <1>5 DEF AnswerInv, TypeOK, QueuesOK, callVars, loopVars, readerVars
<1>7. \A m \in Loops : HandOK(m)' /\ StartOK(m)'
  BY <1>2, <1>4, <1>5 DEF AnswerInv, HandOK, StartOK, loopVars, readerVars
<1>8. \A y \in Calls : CallOK(y)'
  <2>1. <<"chW", g>> \in Works(x)
    BY <1>3, <1>4, WorksAre
  <2>2. OthersKept(x)
    BY <1>2, <1>3, <1>4, <1>5, PipelineAssumption DEF OthersKept, readerVars
  <2>3. PICK p \in Places : p = <<"writer", l>>
    BY DEF Places
  <2>4. \A m \in Loops : /\ InSeq(x, chW'[m]) <=> p = <<"chW", m>>
                         /\ InSeq(x, chR'[m]) <=> p = <<"chR", m>>
                         /\ ww'[m] = x <=> p = <<"writer", m>>
                         /\ rw'[m] = x <=> p = <<"reader", m>>
    BY <1>2, <1>3, <1>4, <1>5, <2>1, <2>3, OnlyAt DEF readerVars
  <2> QED BY <1>2, <1>4, <2>1, <2>2, <2>4, Moved DEF callVars
<1> QED BY <1>6, <1>7, <1>8 DEF AnswerInv

LEMMA AnswerWriterPush ==
    ASSUME AnswerInv, NEW l \in Loops, WriterPush(l)
    PROVE  AnswerInv'
<1>1. PICK g, x : g = wgen[l] /\ x = ww[l]
  OBVIOUS
<1>2. /\ UNCHANGED <<conf, gen, gens, chW, callVars, resp, loopVars, wgen, buf, flush,
                     readerVars, open, wire>>
      /\ wpc[l] = "push" /\ wpc' = [wpc EXCEPT ![l] = "take"]
      /\ ww' = [ww EXCEPT ![l] = None] /\ chR' = Push(chR, g, x)
  BY <1>1 DEF WriterPush
<1>3. g \in Loops /\ x \in Calls
  BY <1>1, <1>2, PairInLoops DEF WriterPush, HasRoom, AnswerInv, TypeOK, HandOK
<1>4. <<"writer", l>> \in Works(x)
  BY <1>1, WorksAre
<1>5. ~InSeq(x, chR[g])
  BY <1>3, <1>4, OnlyAt
<1>6. /\ chR' \in [Loops -> Seq(Calls)] /\ \A m \in Loops : Distinct(chR'[m])
      /\ \A m \in Loops : \A y : InSeq(y, chR'[m]) <=> InSeq(y, chR[m]) \/ (y = x /\ m = g)
  BY <1>2, <1>3, <1>5, PushMembers DEF AnswerInv, TypeOK, QueuesOK
<1>7. /\ wpc' \in [Loops -> {"off", "start", "take", "write", "push", "ended", "failed"}]
      /\ ww' \in [Loops -> Calls \cup {None}]
      /\ \A m \in Loops : wpc'[m] = IF m = l THEN "take" ELSE wpc[m]
      /\ \A m \in Loops : ww'[m] = IF m = l THEN None ELSE ww[m]
  BY <1>2 DEF AnswerInv, TypeOK
<1>8. TypeOK' /\ QueuesOK'
  BY <1>2, <1>6, <1>7 DEF AnswerInv, TypeOK, QueuesOK, callVars, loopVars, readerVars
<1>9. \A m \in Loops : HandOK(m)' /\ StartOK(m)'
  BY <1>2, <1>7 DEF AnswerInv, HandOK, StartOK, loopVars, readerVars
<1>10. \A y \in Calls : CallOK(y)'
  <2>1. OthersKept(x)
    BY <1>1, <1>2, <1>6, <1>7, PipelineAssumption DEF OthersKept, readerVars
  <2>2. PICK p \in Places : p = <<"chR", g>>
    BY <1>3 DEF Places
  <2>3. \A m \in Loops : /\ InSeq(x, chW'[m]) <=> p = <<"chW", m>>
                         /\ InSeq(x, chR'[m]) <=> p = <<"chR", m>>
                         /\ ww'[m] = x <=> p = <<"writer", m>>
                         /\ rw'[m] = x <=> p = <<"reader", m>>
    BY <1>2, <1>3, <1>4, <1>6, <1>7, <2>2, OnlyAt, PipelineAssumption DEF readerVars
  <2> QED BY <1>2, <1>3, <1>4, <2>1, <2>3, Moved DEF callVars
<1> QED BY <1>8, <1>9, <1>10 DEF AnswerInv

\* The writer gives up the work in its hand, if it has one, and answers it.
LEMMA AnswerHand ==
    ASSUME AnswerInv, NEW l \in Loops, NEW e, NEW end \in {"take", "ended", "failed"},
           e \in {"none", "ErrPipelineOverflow", "errPipelineConnStopped", "ErrTimeout",
                  "write", "read"},
           IF ww[l] # None THEN Answer(ww[l], e) ELSE UNCHANGED <<done, werr>>,
           ww' = [ww EXCEPT ![l] = None], wpc' = [wpc EXCEPT ![l] = end],
           wpc[l] \in {"take", "write", "push"},
           wgen' = wgen \/ wgen' = [wgen EXCEPT ![l] = 0],
           buf' = buf \/ buf' = [buf EXCEPT ![l] = <<>>],
           flush' = flush \/ flush' = [flush EXCEPT ![l] = FALSE],
           wire' = wire \/ wire' = Flushed(l),
           UNCHANGED <<conf, gen, gens, chW, chR, pc, resp, loopVars, readerVars, open>>
    PROVE  AnswerInv'
<1>1. /\ wpc' \in [Loops -> {"off", "start", "take", "write", "push", "ended", "failed"}]
      /\ ww' \in [Loops -> Calls \cup {None}]
      /\ \A m \in Loops : wpc'[m] = IF m = l THEN end ELSE wpc[m]
      /\ \A m \in Loops : ww'[m] = IF m = l THEN None ELSE ww[m]
  BY DEF AnswerInv, TypeOK
<1>2. /\ wgen' \in [Loops -> 0..MaxLoops] /\ buf' \in [Loops -> Seq(Calls)]
      /\ wire' \in [Loops -> Seq(Calls)]
  <2>0. /\ wgen \in [Loops -> 0..MaxLoops] /\ buf \in [Loops -> Seq(Calls)]
        /\ wire \in [Loops -> Seq(Calls)] /\ 0 \in 0..MaxLoops
    BY PipelineAssumption DEF AnswerInv, TypeOK
  <2>1. wgen' \in [Loops -> 0..MaxLoops]
    <3>1. CASE wgen' = wgen
      BY <2>0, <3>1
    <3>2. CASE wgen' = [wgen EXCEPT ![l] = 0]
      BY <2>0, <3>2
    <3> QED BY <3>1, <3>2
  <2>2. buf' \in [Loops -> Seq(Calls)]
    <3>1. CASE buf' = buf
      BY <2>0, <3>1
    <3>2. CASE buf' = [buf EXCEPT ![l] = <<>>]
      BY <2>0, <3>2
    <3> QED BY <3>1, <3>2
  <2>3. wire' \in [Loops -> Seq(Calls)]
    <3>1. CASE wire' = wire
      BY <2>0, <3>1
    <3>2. CASE wire' = Flushed(l)
      BY <2>0, <3>2 DEF Flushed
    <3> QED BY <3>1, <3>2
  <2> QED BY <2>1, <2>2, <2>3
<1>3. flush' \in [Loops -> BOOLEAN]
  BY DEF AnswerInv, TypeOK
<1>4. QueuesOK'
  BY DEF AnswerInv, QueuesOK
<1>5. \A m \in Loops : HandOK(m)' /\ StartOK(m)'
  BY <1>1 DEF AnswerInv, HandOK, StartOK, loopVars, readerVars
<1>6. /\ done' \in [Calls -> BOOLEAN]
      /\ werr' \in [Calls -> {"none", "ErrPipelineOverflow", "errPipelineConnStopped",
                              "ErrTimeout", "write", "read"}]
      /\ \A y \in Calls : CallOK(y)'
  <2>1. CASE ww[l] = None
    <3>1. \A k \in Calls : Works(k)' = Works(k)
      BY <1>1, <2>1, PipelineAssumption, WorksKept DEF readerVars
    <3> QED BY <2>1, <3>1 DEF AnswerInv, TypeOK, CallOK
  <2>2. CASE ww[l] # None
    <3>1. PICK x : x = ww[l]
      OBVIOUS
    <3>2. x \in Calls
      BY <2>2, <3>1 DEF AnswerInv, TypeOK
    <3>3. <<"writer", l>> \in Works(x)
      BY <3>1, WorksAre
    <3>4. /\ done' = [done EXCEPT ![x] = TRUE]
          /\ done' \in [Calls -> BOOLEAN]
          /\ werr' \in [Calls -> {"none", "ErrPipelineOverflow", "errPipelineConnStopped",
                                  "ErrTimeout", "write", "read"}]
      BY <2>2, <3>1, <3>2, AnswerTypes DEF AnswerInv
    <3>5. OthersKept(x)
      BY <1>1, <3>1, PipelineAssumption DEF OthersKept, readerVars
    <3>6. \A m \in Loops : ~InSeq(x, chW'[m]) /\ ~InSeq(x, chR'[m]) /\ ww'[m] # x /\ rw'[m] # x
      BY <1>1, <3>2, <3>3, OnlyAt, PipelineAssumption DEF readerVars
    <3> QED BY <3>2, <3>3, <3>4, <3>5, <3>6, Answered
  <2> QED BY <2>1, <2>2
<1>7. TypeOK'
  BY <1>1, <1>2, <1>3, <1>6 DEF AnswerInv, TypeOK, loopVars, readerVars
<1> QED BY <1>4, <1>5, <1>6, <1>7 DEF AnswerInv

LEMMA AnswerWriterGivesUp ==
    ASSUME AnswerInv, NEW l \in Loops,
           WriterExpired(l) \/ WriterFail(l) \/ WriterStop(l) \/ WriterIdle(l)
    PROVE  AnswerInv'
<1>1. CASE WriterExpired(l)
  <2>1. ww[l] # None /\ wpc[l] = "write"
    BY <1>1, PipelineAssumption DEF WriterExpired, AnswerInv, HandOK
  <2> QED BY <1>1, <2>1, AnswerHand DEF WriterExpired
<1>2. ASSUME NEW end \in {"ended", "failed"},
             NEW e \in {"none", "errPipelineConnStopped", "write"},
             WriterReturn(l, end, e), wpc[l] \in {"take", "write", "push"}
      PROVE  AnswerInv'
  BY <1>2, AnswerHand DEF WriterReturn
<1>3. CASE WriterFail(l) \/ WriterStop(l) \/ WriterIdle(l)
  BY <1>2, <1>3 DEF WriterFail, WriterStop, WriterIdle, WriterBlocked
<1> QED BY <1>1, <1>3

\* The reader starts, or stops with no work in its hand.
LEMMA AnswerReader ==
    ASSUME AnswerInv, NEW l \in Loops, ReaderStart(l) \/ ReaderStop(l)
    PROVE  AnswerInv'
<1>1. /\ UNCHANGED <<conf, gen, gens, chW, chR, callVars, resp, loopVars, writerVars, open, wire>>
      /\ rpc[l] \in {"start", "take"}
      /\ rpc' = [rpc EXCEPT ![l] = "take"] \/ rpc' = [rpc EXCEPT ![l] = "ended"]
      /\ rgen' = [rgen EXCEPT ![l] = gen] \/ rgen' = [rgen EXCEPT ![l] = 0]
      /\ rw' = rw \/ rw' = [rw EXCEPT ![l] = None]
  BY DEF ReaderStart, ReaderStop, ReaderReturn, callVars
<1>2. rw[l] = None /\ rw \in [Loops -> Calls \cup {None}]
  BY <1>1 DEF AnswerInv, HandOK, TypeOK
<1>3. rw' = rw
  BY <1>1, <1>2
<1>4. PICK p \in {"take", "ended"} : rpc' = [rpc EXCEPT ![l] = p]
  BY <1>1
<1>5. PICK g \in 0..MaxLoops : rgen' = [rgen EXCEPT ![l] = g]
  BY <1>1, PipelineAssumption DEF AnswerInv, TypeOK
<1>6. /\ rpc' \in [Loops -> {"off", "start", "take", "read", "ended", "failed"}]
      /\ rgen' \in [Loops -> 0..MaxLoops]
      /\ \A m \in Loops : rpc'[m] = IF m = l THEN p ELSE rpc[m]
  BY <1>4, <1>5 DEF AnswerInv, TypeOK
<1>7. TypeOK' /\ QueuesOK'
  BY <1>1, <1>3, <1>6 DEF AnswerInv, TypeOK, QueuesOK, callVars, loopVars, writerVars
<1>8. \A m \in Loops : HandOK(m)' /\ StartOK(m)'
  BY <1>1, <1>2, <1>3, <1>6 DEF AnswerInv, HandOK, StartOK, loopVars, writerVars
<1>9. \A x \in Calls : CallOK(x)'
  <2>1. \A x \in Calls : Works(x)' = Works(x)
    BY <1>1, <1>3, SameWorks DEF writerVars
  <2> QED BY <1>1, <2>1 DEF AnswerInv, CallOK, callVars
<1> QED BY <1>7, <1>8, <1>9 DEF AnswerInv

LEMMA AnswerReaderTake ==
    ASSUME AnswerInv, NEW l \in Loops, ReaderTake(l)
    PROVE  AnswerInv'
<1>1. PICK g, x : g = rgen[l] /\ x = Head(chR[rgen[l]])
  OBVIOUS
<1>2. /\ UNCHANGED <<conf, gen, gens, chW, callVars, resp, loopVars, writerVars, rgen, open, wire>>
      /\ rpc[l] = "take" /\ rpc' = [rpc EXCEPT ![l] = "read"]
      /\ rw' = [rw EXCEPT ![l] = x] /\ chR' = Pop(chR, g)
  BY <1>1 DEF ReaderTake
<1>3. g \in Loops /\ chR[g] # <<>> /\ rw[l] = None
  BY <1>1, <1>2, PairInLoops DEF ReaderTake, HasWork, AnswerInv, TypeOK, HandOK
<1>4. /\ x \in Calls /\ InSeq(x, chR[g])
      /\ chR' \in [Loops -> Seq(Calls)] /\ \A m \in Loops : Distinct(chR'[m])
      /\ \A m \in Loops : \A y : InSeq(y, chR'[m]) <=> InSeq(y, chR[m]) /\ ~(y = x /\ m = g)
  <2>1. x = Head(chR[g]) /\ chR \in [Loops -> Seq(Calls)] /\ \A m \in Loops : Distinct(chR[m])
    BY <1>1 DEF AnswerInv, TypeOK, QueuesOK
  <2> QED BY <1>2, <1>3, <2>1, PopMembers
<1>5. /\ rpc' \in [Loops -> {"off", "start", "take", "read", "ended", "failed"}]
      /\ rw' \in [Loops -> Calls \cup {None}]
      /\ \A m \in Loops : rpc'[m] = IF m = l THEN "read" ELSE rpc[m]
      /\ \A m \in Loops : rw'[m] = IF m = l THEN x ELSE rw[m]
  BY <1>2, <1>4 DEF AnswerInv, TypeOK
<1>6. TypeOK' /\ QueuesOK'
  BY <1>2, <1>4, <1>5 DEF AnswerInv, TypeOK, QueuesOK, callVars, loopVars, writerVars
<1>7. \A m \in Loops : HandOK(m)' /\ StartOK(m)'
  BY <1>2, <1>4, <1>5 DEF AnswerInv, HandOK, StartOK, loopVars, writerVars
<1>8. \A y \in Calls : CallOK(y)'
  <2>1. <<"chR", g>> \in Works(x)
    BY <1>3, <1>4, WorksAre
  <2>2. OthersKept(x)
    BY <1>2, <1>3, <1>4, <1>5, PipelineAssumption DEF OthersKept, writerVars
  <2>3. PICK p \in Places : p = <<"reader", l>>
    BY DEF Places
  <2>4. \A m \in Loops : /\ InSeq(x, chW'[m]) <=> p = <<"chW", m>>
                         /\ InSeq(x, chR'[m]) <=> p = <<"chR", m>>
                         /\ ww'[m] = x <=> p = <<"writer", m>>
                         /\ rw'[m] = x <=> p = <<"reader", m>>
    BY <1>2, <1>3, <1>4, <1>5, <2>1, <2>3, OnlyAt DEF writerVars
  <2> QED BY <1>2, <1>4, <2>1, <2>2, <2>4, Moved DEF callVars
<1> QED BY <1>6, <1>7, <1>8 DEF AnswerInv

\* The reader has the response, or the error, for the work in its hand.
LEMMA AnswerReaderRead ==
    ASSUME AnswerInv, NEW l \in Loops, ReaderRead(l) \/ ReaderFail(l)
    PROVE  AnswerInv'
<1>1. PICK x : x = rw[l]
  OBVIOUS
<1>2. /\ UNCHANGED <<conf, gen, gens, chW, chR, pc, loopVars, writerVars, open>>
      /\ rpc[l] = "read" /\ rw' = [rw EXCEPT ![l] = None]
      /\ rpc' = [rpc EXCEPT ![l] = "take"] \/ rpc' = [rpc EXCEPT ![l] = "failed"]
      /\ Answer(x, "none") \/ Answer(x, "read")
  BY <1>1 DEF ReaderRead, ReaderFail, ReaderReturn
<1>3. x \in Calls
  BY <1>1, <1>2 DEF AnswerInv, HandOK
<1>4. /\ rgen' \in [Loops -> 0..MaxLoops] /\ resp' \in [Calls -> Calls \cup {None}]
      /\ wire' \in [Loops -> Seq(Calls)]
  <2>1. /\ rgen \in [Loops -> 0..MaxLoops] /\ resp \in [Calls -> Calls \cup {None}]
        /\ wire \in [Loops -> Seq(Calls)] /\ 0 \in 0..MaxLoops
    BY PipelineAssumption DEF AnswerInv, TypeOK
  <2>2. CASE ReaderRead(l)
    <3>1. /\ resp' = [resp EXCEPT ![x] = Head(wire[l])] /\ wire' = [wire EXCEPT ![l] = Tail(@)]
          /\ wire[l] # <<>> /\ rgen' = rgen
      BY <1>1, <2>2 DEF ReaderRead
    <3>2. wire[l] \in Seq(Calls) /\ Head(wire[l]) \in Calls /\ Tail(wire[l]) \in Seq(Calls)
      BY <2>1, <3>1
    <3> QED BY <2>1, <3>1, <3>2
  <2>3. CASE ReaderFail(l)
    <3>1. rgen' = [rgen EXCEPT ![l] = 0] /\ UNCHANGED <<resp, wire>>
      BY <2>3 DEF ReaderFail, ReaderReturn
    <3> QED BY <2>1, <3>1
  <2> QED BY <2>2, <2>3
<1>5. PICK p \in {"take", "failed"} : rpc' = [rpc EXCEPT ![l] = p]
  BY <1>2
<1>6. /\ rpc' \in [Loops -> {"off", "start", "take", "read", "ended", "failed"}]
      /\ rw' \in [Loops -> Calls \cup {None}]
      /\ \A m \in Loops : rpc'[m] = IF m = l THEN p ELSE rpc[m]
      /\ \A m \in Loops : rw'[m] = IF m = l THEN None ELSE rw[m]
  BY <1>2, <1>5 DEF AnswerInv, TypeOK
<1>7. /\ done' = [done EXCEPT ![x] = TRUE]
      /\ done' \in [Calls -> BOOLEAN]
      /\ werr' \in [Calls -> {"none", "ErrPipelineOverflow", "errPipelineConnStopped",
                              "ErrTimeout", "write", "read"}]
  BY <1>2, <1>3, AnswerTypes DEF AnswerInv
<1>8. TypeOK' /\ QueuesOK'
  BY <1>2, <1>4, <1>6, <1>7 DEF AnswerInv, TypeOK, QueuesOK, loopVars, writerVars
<1>9. \A m \in Loops : HandOK(m)' /\ StartOK(m)'
  BY <1>2, <1>6 DEF AnswerInv, HandOK, StartOK, loopVars, writerVars
<1>10. \A y \in Calls : CallOK(y)'
  <2>1. <<"reader", l>> \in Works(x)
    BY <1>1, WorksAre
  <2>2. OthersKept(x)
    BY <1>1, <1>2, <1>6, PipelineAssumption DEF OthersKept, writerVars
  <2>3. \A m \in Loops : ~InSeq(x, chW'[m]) /\ ~InSeq(x, chR'[m]) /\ ww'[m] # x /\ rw'[m] # x
    BY <1>2, <1>3, <1>6, <2>1, OnlyAt, PipelineAssumption DEF writerVars
  <2> QED BY <1>2, <1>3, <1>7, <2>1, <2>2, <2>3, Answered
<1> QED BY <1>8, <1>9, <1>10 DEF AnswerInv

LEMMA AnswerNext ==
    ASSUME AnswerInv, [Next]_vars
    PROVE  AnswerInv'
<1>1. ASSUME NEW k \in Calls, CallStep(k) \/ CallTimeout(k) PROVE AnswerInv'
  BY <1>1, AnswerCallInit, AnswerCallPut, AnswerCallReplace, AnswerCallReturns DEF CallStep
<1>2. ASSUME NEW l \in Loops, Loop(l) PROVE AnswerInv'
  BY <1>2, AnswerLoop, AnswerDrain DEF Loop
<1>3. ASSUME NEW l \in Loops, Writer(l) \/ WriterFail(l) \/ WriterIdle(l) PROVE AnswerInv'
  BY <1>3, AnswerWriter, AnswerWriterTake, AnswerWriterPush, AnswerWriterGivesUp DEF Writer
<1>4. ASSUME NEW l \in Loops, Reader(l) \/ ReaderFail(l) PROVE AnswerInv'
  BY <1>4, AnswerReader, AnswerReaderTake, AnswerReaderRead DEF Reader
<1>5. CASE UNCHANGED vars
  <2>1. TypeOK' /\ QueuesOK' /\ \A l \in Loops : HandOK(l)' /\ StartOK(l)'
    BY <1>5 DEF vars, callVars, loopVars, writerVars, readerVars, AnswerInv, TypeOK, QueuesOK,
                HandOK, StartOK
  <2>2. \A k \in Calls : Works(k)' = Works(k)
    BY <1>5, SameWorks DEF vars, writerVars, readerVars
  <2>3. \A k \in Calls : CallOK(k)'
    BY <1>5, <2>2 DEF AnswerInv, CallOK, vars, callVars
  <2> QED BY <2>1, <2>3 DEF AnswerInv
<1> QED BY <1>1, <1>2, <1>3, <1>4, <1>5 DEF Next, DialFail

LEMMA AnswerInit ==
    ASSUME Init
    PROVE  AnswerInv
<1> USE DEF Init
<1>1. TypeOK
  <2>1. /\ gen \in 0..MaxLoops /\ gens \in 0..MaxLoops
        /\ wgen \in [Loops -> 0..MaxLoops] /\ rgen \in [Loops -> 0..MaxLoops]
    BY PipelineAssumption
  <2>2. /\ chW \in [Loops -> Seq(Calls)] /\ chR \in [Loops -> Seq(Calls)]
        /\ buf \in [Loops -> Seq(Calls)] /\ wire \in [Loops -> Seq(Calls)]
    OBVIOUS
  <2>3. /\ done \in [Calls -> BOOLEAN] /\ lerr \in [Loops -> BOOLEAN]
        /\ flush \in [Loops -> BOOLEAN] /\ open \in [Loops -> BOOLEAN]
    OBVIOUS
  <2> QED BY <2>1, <2>2, <2>3 DEF TypeOK
<1>2. \A x : ~InSeq(x, <<>>)
  BY DEF InSeq
<1>3. QueuesOK
  BY DEF QueuesOK, Distinct
<1>4. \A l \in Loops : HandOK(l) /\ StartOK(l)
  BY DEF HandOK, StartOK
<1>5. \A k \in Calls : Works(k) = {}
  BY <1>2, PipelineAssumption DEF Works
<1>6. \A k \in Calls : CallOK(k)
  BY <1>5 DEF CallOK
<1> QED BY <1>1, <1>3, <1>4, <1>6 DEF AnswerInv

-----------------------------------------------------------------------------
(* The order of the works and of the requests. *)

\* A request is written,
LEMMA OrderWritten ==
    ASSUME NEW st \in Seq(Calls), NEW n \in {0, 1}, NEW x, NEW ch \in Seq(Calls), NEW w \in Calls,
           InOrder(st, n, x, ch, "write", w)
    PROVE  InOrder(Append(st, w), n, x, ch, "push", w)
<1>1. /\ Len(Append(st, w)) = Len(st) + 1 /\ Len(st) \in Nat /\ Len(ch) \in Nat
      /\ \A i \in 1..Len(st) : Append(st, w)[i] = st[i]
      /\ Append(st, w)[Len(st) + 1] = w
  OBVIOUS
<1> QED BY <1>1 DEF InOrder

\* its work is pushed,
LEMMA OrderPushed ==
    ASSUME NEW st \in Seq(Calls), NEW n \in {0, 1}, NEW x, NEW ch \in Seq(Calls), NEW w \in Calls,
           NEW v, InOrder(st, n, x, ch, "push", w)
    PROVE  InOrder(st, n, x, Append(ch, w), "take", v)
<1>1. /\ Len(Append(ch, w)) = Len(ch) + 1 /\ Len(st) \in Nat /\ Len(ch) \in Nat
      /\ \A i \in 1..Len(ch) : Append(ch, w)[i] = ch[i]
      /\ Append(ch, w)[Len(ch) + 1] = w
  OBVIOUS
<1> QED BY <1>1 DEF InOrder

\* and taken by the reader,
LEMMA OrderTaken ==
    ASSUME NEW st \in Seq(Calls), NEW x, NEW ch \in Seq(Calls), ch # <<>>, NEW w, NEW p,
           InOrder(st, 0, x, ch, p, w)
    PROVE  InOrder(st, 1, Head(ch), Tail(ch), p, w)
<1>1. /\ Len(Tail(ch)) = Len(ch) - 1 /\ Len(st) \in Nat /\ Len(ch) \in Nat /\ Len(ch) > 0
      /\ \A i \in 1..Len(Tail(ch)) : Tail(ch)[i] = ch[i + 1]
      /\ Head(ch) = ch[1]
  BY EmptySeq
<1> QED BY <1>1 DEF InOrder

\* which then reads its response.
LEMMA OrderRead ==
    ASSUME NEW st \in Seq(Calls), NEW x, NEW y, NEW ch \in Seq(Calls), NEW w, NEW p,
           InOrder(st, 1, x, ch, p, w)
    PROVE  st # <<>> /\ Head(st) = x /\ InOrder(Tail(st), 0, y, ch, p, w)
<1>0. Len(st) \in Nat /\ Len(ch) \in Nat
  OBVIOUS
<1>1. PICK m \in Nat, c \in Nat : m = Len(st) /\ c = Len(ch)
  BY <1>0
<1>2. /\ m >= 1 /\ st[1] = x /\ m >= 1 + c /\ \A i \in 1..c : st[i + 1] = ch[i]
      /\ p \in {"start", "take", "write"} => m = 1 + c
      /\ p = "push" => m = 1 + c + 1 /\ st[m] = w
  BY <1>1 DEF InOrder
<1>3. st # <<>> /\ Head(st) = x
  BY <1>1, <1>2
<1>4. PICK t : t = Tail(st) /\ Len(t) = m - 1 /\ \A i \in 1..(m - 1) : t[i] = st[i + 1]
  <2>1. Len(Tail(st)) = Len(st) - 1 /\ \A i \in 1..(Len(st) - 1) : Tail(st)[i] = st[i + 1]
    BY <1>3
  <2> QED BY <1>1, <2>1
<1>5. /\ \A i \in 1..c : t[i + 0] = ch[i]
      /\ m - 1 >= 0 + c
      /\ p \in {"start", "take", "write"} => m - 1 = 0 + c
      /\ p = "push" => m - 1 = 0 + c + 1 /\ t[m - 1] = w
  BY ONLY <1>1, <1>2, <1>4
<1>6. InOrder(t, 0, y, ch, p, w)
  BY <1>1, <1>4, <1>5 DEF InOrder
<1> QED BY <1>3, <1>4, <1>6

\* The writer goes on to another point, or ends.
LEMMA OrderSame ==
    ASSUME NEW st \in Seq(Calls), NEW n \in {0, 1}, NEW x, NEW ch \in Seq(Calls), NEW w, NEW v,
           NEW p, NEW q, InOrder(st, n, x, ch, p, w),
           \/ p \in {"start", "take", "write"} /\ q \in {"start", "take", "write"}
           \/ q \in {"failed", "ended"}
    PROVE  InOrder(st, n, x, ch, q, v)
BY DEF InOrder

\* Sequences put together.
LEMMA StreamAppend ==
    ASSUME NEW a \in Seq(Calls), NEW b \in Seq(Calls), NEW w \in Calls
    PROVE  a \o Append(b, w) = Append(a \o b, w) /\ a \o b \in Seq(Calls)
OBVIOUS

LEMMA StreamFlush ==
    ASSUME NEW a \in Seq(Calls), NEW b \in Seq(Calls)
    PROVE  (a \o b) \o <<>> = a \o b
OBVIOUS

LEMMA StreamTail ==
    ASSUME NEW a \in Seq(Calls), NEW b \in Seq(Calls), a # <<>>
    PROVE  Tail(a) \o b = Tail(a \o b) /\ Head(a \o b) = Head(a)
OBVIOUS

\* A step of the one loop that runs: the others stay off.
LEMMA OneLoop ==
    ASSUME AnswerInv, OrderInv, ~conf.idle, conf' = conf, gen' = gen, gens' = gens,
           1 \in Loops, LoopOK(1)', lpc[1] # "off", lpc'[1] # "off",
           \A m \in Loops \ {1} : /\ lpc'[m] = lpc[m] /\ wpc'[m] = wpc[m] /\ rpc'[m] = rpc[m]
                                  /\ open'[m] = open[m] /\ buf'[m] = buf[m] /\ chR'[m] = chR[m]
    PROVE  OrderInv'
<1>1. gen = 1 /\ gens = 1
  BY DEF OrderInv, LoopOK
<1>2. ASSUME NEW m \in Loops \ {1} PROVE LoopOK(m)'
  <2>1. lpc[m] = "off" /\ LoopOK(m) /\ StartOK(m)
    BY DEF OrderInv, LoopOK, AnswerInv
  <2>2. wpc[m] = "off" /\ rpc[m] = "off" /\ ~open[m] /\ buf[m] = <<>> /\ chR[m] = <<>>
    BY <2>1 DEF LoopOK, StartOK
  <2>3. /\ lpc'[m] = "off" /\ wpc'[m] = "off" /\ rpc'[m] = "off" /\ ~open'[m] /\ buf'[m] = <<>>
        /\ chR'[m] = <<>>
    BY <2>1, <2>2
  <2> QED BY <2>3 DEF LoopOK
<1> QED BY <1>1, <1>2 DEF OrderInv

\* What is known of a loop that takes a step.
LEMMA TheLoop ==
    ASSUME AnswerInv, OrderInv, ~conf.idle, NEW l \in Loops,
           lpc[l] # "off" \/ wpc[l] # "off" \/ rpc[l] # "off"
    PROVE  l = 1 /\ gen = 1 /\ gens = 1 /\ lpc[1] # "off" /\ LoopOK(1) /\ StartOK(1) /\ HandOK(1)
BY DEF AnswerInv, OrderInv, LoopOK, StartOK

\* A step that changes nothing that LoopOK is about.
LEMMA OrderFrame ==
    ASSUME OrderInv, UNCHANGED <<conf, gen, gens, chR, lpc, lerr, wpc, wgen, ww, buf, rpc, rgen, rw,
                                 open, wire>>
    PROVE  OrderInv'
BY DEF OrderInv, LoopOK, OrderOK, Stream

LEMMA OrderCallInit ==
    ASSUME AnswerInv, OrderInv, NEW k \in Calls, CallInit(k), ~conf.idle
    PROVE  OrderInv'
<1>1. UNCHANGED <<conf, chR, lerr, wpc, wgen, ww, buf, rpc, rgen, rw, open, wire>>
  BY DEF CallInit, writerVars, readerVars
<1>2. CASE gen # 0
  BY <1>1, <1>2, OrderFrame DEF CallInit
<1>3. CASE gen = 0
  <2>1. gen' = 1 /\ gens' = 1 /\ lpc' = [lpc EXCEPT ![1] = "dial"] /\ 1 \in Loops
    BY <1>3, PipelineAssumption DEF CallInit, OrderInv, Loops
  <2>2. \A l \in Loops : lpc[l] = "off" /\ LoopOK(l) /\ StartOK(l)
    BY <1>3 DEF OrderInv, AnswerInv
  <2>3. \A l \in Loops : lpc'[l] = IF l = 1 THEN "dial" ELSE "off"
    BY <2>1, <2>2 DEF AnswerInv, TypeOK
  <2>4. \A l \in Loops : /\ wpc'[l] = "off" /\ rpc'[l] = "off" /\ ~open'[l] /\ buf'[l] = <<>>
                         /\ chR'[l] = <<>>
    BY <1>1, <2>2 DEF LoopOK, StartOK
  <2>5. ASSUME NEW l \in Loops PROVE LoopOK(l)'
    BY <2>1, <2>3, <2>4 DEF LoopOK
  <2> QED BY <2>1, <2>5 DEF OrderInv
<1> QED BY <1>2, <1>3

\* Dialing, and the end of a connection.
LEMMA OrderLoop ==
    ASSUME AnswerInv, OrderInv, NEW l \in Loops, ~conf.idle,
           \/ DialOk(l) \/ OneEnded(l) \/ BothEnded(l) \/ DrainCheck(l) \/ Drain(l)
           \/ WorkerReturned(l)
    PROVE  OrderInv'
<1>1. lpc[l] # "off"
  BY DEF DialOk, OneEnded, BothEnded, DrainCheck, Drain, WorkerReturned
<1>2. l = 1 /\ gen = 1 /\ gens = 1 /\ LoopOK(1) /\ StartOK(1) /\ 1 \in Loops
  BY <1>1, TheLoop
<1>3. /\ DOMAIN lpc = Loops /\ DOMAIN wpc = Loops /\ DOMAIN rpc = Loops /\ DOMAIN open = Loops
      /\ DOMAIN wire = Loops /\ DOMAIN lerr = Loops /\ DOMAIN chR = Loops
  BY DEF AnswerInv, TypeOK
<1>4. UNCHANGED <<conf, gens, buf, wgen, rgen, ww, rw>>
  BY DEF DialOk, OneEnded, BothEnded, DrainCheck, Drain, WorkerReturned, writerVars, readerVars
<1>5. CASE DialOk(l)
  <2>1. /\ lpc'[1] = "run" /\ wpc'[1] = "start" /\ rpc'[1] = "start" /\ open'[1]
        /\ wire'[1] = <<>> /\ UNCHANGED <<gen, chR, lerr>> /\ lpc[1] = "dial"
        /\ \A m \in Loops \ {1} : /\ lpc'[m] = lpc[m] /\ wpc'[m] = wpc[m] /\ rpc'[m] = rpc[m]
                                  /\ open'[m] = open[m] /\ chR'[m] = chR[m]
    BY <1>2, <1>3, <1>5 DEF DialOk
  <2>2. chR'[1] = <<>> /\ buf'[1] = <<>>
    BY <1>2, <1>4, <2>1 DEF LoopOK, StartOK
  <2>3. Stream(1)' = <<>>
    BY <2>1, <2>2 DEF Stream
  <2>4. OrderOK(1)'
    BY <2>1, <2>2, <2>3 DEF OrderOK, InOrder
  <2>5. LoopOK(1)'
    BY <1>2, <1>4, <2>1, <2>2, <2>4 DEF LoopOK
  <2> QED BY <1>1, <1>2, <1>4, <2>1, <2>5, OneLoop
<1>6. CASE OneEnded(l)
  <2>1. /\ lpc'[1] = "stop" /\ ~open'[1] /\ UNCHANGED <<gen, chR, wpc, rpc, wire>>
        /\ lpc[1] = "run"
        /\ \A m \in Loops \ {1} : lpc'[m] = lpc[m] /\ open'[m] = open[m]
    BY <1>2, <1>3, <1>6 DEF OneEnded, writerVars, readerVars
  <2>2. lerr'[1] = TRUE
    <3>1. wpc[1] # "ended" /\ rpc[1] # "ended"
      BY <1>2, <2>1 DEF LoopOK
    <3> QED BY <1>2, <1>3, <1>6, <3>1 DEF OneEnded
  <2>3. LoopOK(1)'
    BY <1>2, <1>4, <2>1, <2>2 DEF LoopOK
  <2> QED BY <1>1, <1>2, <1>4, <2>1, <2>3, OneLoop
<1>7. CASE BothEnded(l)
  <2>1. /\ lpc'[1] = "drain" /\ wpc'[1] = "off" /\ rpc'[1] = "off" /\ lpc[1] = "stop"
        /\ wpc[1] \in {"ended", "failed"} /\ UNCHANGED <<gen, chR, lerr, open, wire>>
        /\ \A m \in Loops \ {1} : lpc'[m] = lpc[m] /\ wpc'[m] = wpc[m] /\ rpc'[m] = rpc[m]
    BY <1>2, <1>3, <1>7 DEF BothEnded
  <2>2. LoopOK(1)'
    BY <1>2, <1>4, <2>1 DEF LoopOK
  <2> QED BY <1>1, <1>2, <1>4, <2>1, <2>2, OneLoop
<1>8. CASE DrainCheck(l)
  <2>1. /\ lpc'[1] = "drainRecv" /\ lpc[1] = "drain"
        /\ UNCHANGED <<gen, chR, lerr, open, wire, wpc, rpc>>
        /\ \A m \in Loops \ {1} : lpc'[m] = lpc[m]
    BY <1>2, <1>3, <1>8 DEF DrainCheck, writerVars, readerVars
  <2>2. LoopOK(1)'
    BY <1>2, <1>4, <2>1 DEF LoopOK
  <2> QED BY <1>1, <1>2, <1>4, <2>1, <2>2, OneLoop
<1>9. CASE Drain(l)
  <2>1. /\ lpc'[1] = "drain" /\ lpc[1] = "drainRecv"
        /\ UNCHANGED <<gen, lerr, open, wire, wpc, rpc>>
        /\ \A m \in Loops \ {1} : lpc'[m] = lpc[m] /\ chR'[m] = chR[m]
    BY <1>2, <1>3, <1>9 DEF Drain, Pop, writerVars, readerVars
  <2>2. LoopOK(1)'
    BY <1>2, <1>4, <2>1 DEF LoopOK
  <2> QED BY <1>1, <1>2, <1>4, <2>1, <2>2, OneLoop
<1>10. CASE WorkerReturned(l)
  <2>1. lerr[1] /\ chR[1] = <<>>
    BY <1>2, <1>10 DEF WorkerReturned, LoopOK, HasWork
  <2>2. /\ lpc'[1] = "dial" /\ lpc[1] = "drain"
        /\ UNCHANGED <<gen, chR, lerr, open, wire, wpc, rpc>>
        /\ \A m \in Loops \ {1} : lpc'[m] = lpc[m]
    BY <1>2, <1>3, <1>10, <2>1 DEF WorkerReturned, writerVars, readerVars
  <2>3. LoopOK(1)'
    BY <1>2, <1>4, <2>1, <2>2 DEF LoopOK
  <2> QED BY <1>1, <1>2, <1>4, <2>2, <2>3, OneLoop
<1> QED BY <1>5, <1>6, <1>7, <1>8, <1>9, <1>10

\* The writer.
LEMMA OrderWriter ==
    ASSUME AnswerInv, OrderInv, NEW l \in Loops, ~conf.idle,
           \/ WriterStart(l) \/ WriterTake(l) \/ WriterExpired(l) \/ WriterWrite(l)
           \/ WriterPush(l) \/ WriterFlush(l)
    PROVE  OrderInv'
<1>1. wpc[l] \in {"start", "take", "write", "push"}
  BY DEF WriterStart, WriterTake, WriterExpired, WriterWrite, WriterPush, WriterFlush,
         WriterBlocked
<1>2. /\ l = 1 /\ gen = 1 /\ gens = 1 /\ LoopOK(1) /\ StartOK(1) /\ HandOK(1) /\ 1 \in Loops
      /\ lpc[1] # "off"
  BY <1>1, TheLoop
<1>3. /\ DOMAIN wpc = Loops /\ DOMAIN wgen = Loops /\ DOMAIN ww = Loops /\ DOMAIN buf = Loops
      /\ DOMAIN wire = Loops /\ DOMAIN chR = Loops /\ wire[1] \in Seq(Calls)
      /\ buf[1] \in Seq(Calls) /\ chR[1] \in Seq(Calls)
  BY <1>2 DEF AnswerInv, TypeOK
<1>4. UNCHANGED <<conf, gen, gens, lpc, lerr, rpc, rgen, rw, open>>
  BY DEF WriterStart, WriterTake, WriterExpired, WriterWrite, WriterPush, WriterFlush, loopVars,
         readerVars
<1>5. PICK st, n, x, ch, p, w : /\ st = Stream(1) /\ n = (IF rpc[1] = "read" THEN 1 ELSE 0)
                                /\ x = rw[1] /\ ch = chR[1] /\ p = wpc[1] /\ w = ww[1]
  OBVIOUS
<1>6. /\ st \in Seq(Calls) /\ n \in {0, 1} /\ ch \in Seq(Calls)
      /\ open[1] /\ rpc[1] \in {"start", "take", "read"} => InOrder(st, n, x, ch, p, w)
  BY <1>2, <1>3, <1>5 DEF LoopOK, OrderOK, Stream
<1>7. ASSUME open[1] /\ rpc[1] \in {"start", "take", "read"} =>
                InOrder(Stream(1)', n, x, chR'[1], wpc'[1], ww'[1]),
             wpc'[1] \in {"take", "write", "push"}, wgen'[1] = 1,
             \A m \in Loops \ {1} : wpc'[m] = wpc[m] /\ buf'[m] = buf[m] /\ chR'[m] = chR[m]
      PROVE  OrderInv'
  <2>1. open'[1] /\ rpc'[1] \in {"start", "take", "read"} => OrderOK(1)'
    BY <1>4, <1>5, <1>7 DEF OrderOK
  <2>2. lpc[1] \in {"run", "stop"}
    BY <1>1, <1>2 DEF StartOK
  <2>3. LoopOK(1)'
    BY <1>2, <1>4, <1>7, <2>1, <2>2 DEF LoopOK
  <2> QED BY <1>2, <1>4, <1>7, <2>3, OneLoop
<1>8. CASE WriterStart(l)
  <2>1. /\ wpc[1] = "start" /\ wpc'[1] = "take" /\ wgen'[1] = 1 /\ buf'[1] = <<>>
        /\ UNCHANGED <<chR, wire, ww>>
        /\ \A m \in Loops \ {1} : wpc'[m] = wpc[m] /\ buf'[m] = buf[m]
    BY <1>2, <1>3, <1>8 DEF WriterStart
  <2>2. Stream(1)' = st
    BY <1>2, <1>5, <2>1 DEF Stream, LoopOK
  <2>3. InOrder(st, n, x, ch, p, w) => InOrder(st, n, x, ch, "take", w)
    BY <1>5, <1>6, <2>1, OrderSame
  <2> QED BY <1>5, <1>6, <1>7, <2>1, <2>2, <2>3
<1>9. CASE WriterTake(l)
  <2>1. /\ wpc[1] = "take" /\ wpc'[1] = "write" /\ UNCHANGED <<chR, wire, buf, wgen>>
        /\ \A m \in Loops \ {1} : wpc'[m] = wpc[m]
    BY <1>2, <1>3, <1>9 DEF WriterTake
  <2>2. Stream(1)' = st
    BY <1>5, <2>1 DEF Stream
  <2>3. \A v : InOrder(st, n, x, ch, p, w) => InOrder(st, n, x, ch, "write", v)
    BY <1>5, <1>6, <2>1, OrderSame
  <2>4. wgen[1] = 1
    BY <1>2, <2>1 DEF LoopOK
  <2> QED BY <1>5, <1>6, <1>7, <2>1, <2>2, <2>3, <2>4
<1>10. CASE WriterExpired(l)
  <2>1. /\ wpc[1] = "write" /\ wpc'[1] = "take" /\ UNCHANGED <<chR, wire, buf, wgen>>
        /\ \A m \in Loops \ {1} : wpc'[m] = wpc[m]
    BY <1>2, <1>3, <1>10 DEF WriterExpired
  <2>2. Stream(1)' = st
    BY <1>5, <2>1 DEF Stream
  <2>3. \A v : InOrder(st, n, x, ch, p, w) => InOrder(st, n, x, ch, "take", v)
    BY <1>5, <1>6, <2>1, OrderSame
  <2>4. wgen[1] = 1
    BY <1>2, <2>1 DEF LoopOK
  <2> QED BY <1>5, <1>6, <1>7, <2>1, <2>2, <2>3, <2>4
<1>11. CASE WriterWrite(l)
  <2>1. /\ wpc[1] = "write" /\ wpc'[1] = "push" /\ UNCHANGED <<chR, wire, ww, wgen>>
        /\ buf'[1] = Append(buf[1], ww[1])
        /\ \A m \in Loops \ {1} : wpc'[m] = wpc[m] /\ buf'[m] = buf[m]
    BY <1>2, <1>3, <1>11 DEF WriterWrite
  <2>2. ww[1] \in Calls /\ wgen[1] = 1
    BY <1>2, <2>1 DEF HandOK, LoopOK
  <2>3. Stream(1)' = Append(st, w)
    BY <1>3, <1>5, <2>1, <2>2, StreamAppend DEF Stream
  <2>4. InOrder(st, n, x, ch, p, w) => InOrder(Append(st, w), n, x, ch, "push", w)
    BY <1>5, <1>6, <2>1, <2>2, OrderWritten
  <2> QED BY <1>5, <1>6, <1>7, <2>1, <2>2, <2>3, <2>4
<1>12. CASE WriterPush(l)
  <2>1. /\ wpc[1] = "push" /\ wpc'[1] = "take" /\ UNCHANGED <<wire, buf, wgen>>
        /\ chR' = Push(chR, wgen[1], ww[1])
        /\ \A m \in Loops \ {1} : wpc'[m] = wpc[m]
    BY <1>2, <1>3, <1>12 DEF WriterPush
  <2>2. ww[1] \in Calls /\ wgen[1] = 1
    BY <1>2, <2>1 DEF HandOK, LoopOK
  <2>3. chR'[1] = Append(ch, w) /\ \A m \in Loops \ {1} : chR'[m] = chR[m]
    BY <1>2, <1>3, <1>5, <2>1, <2>2 DEF Push
  <2>4. Stream(1)' = st
    BY <1>5, <2>1 DEF Stream
  <2>5. \A v : InOrder(st, n, x, ch, p, w) => InOrder(st, n, x, Append(ch, w), "take", v)
    BY <1>5, <1>6, <2>1, <2>2, OrderPushed
  <2> QED BY <1>5, <1>6, <1>7, <2>1, <2>2, <2>3, <2>4, <2>5
<1>13. CASE WriterFlush(l)
  <2>1. /\ wpc[1] \in {"take", "push"} /\ UNCHANGED <<wpc, ww, chR, wgen>> /\ open[1]
        /\ wire'[1] = wire[1] \o buf[1] /\ buf'[1] = <<>>
        /\ \A m \in Loops \ {1} : buf'[m] = buf[m]
    BY <1>2, <1>3, <1>13 DEF WriterFlush, WriterBlocked, Flushed
  <2>2. Stream(1)' = st
    BY <1>3, <1>5, <2>1, StreamFlush DEF Stream
  <2>3. wgen[1] = 1
    BY <1>2, <2>1 DEF LoopOK
  <2> QED BY <1>5, <1>6, <1>7, <2>1, <2>2, <2>3
<1> QED BY <1>8, <1>9, <1>10, <1>11, <1>12, <1>13

\* The writer ends: what was not flushed is, if the connection is open.
LEMMA OrderWriterReturn ==
    ASSUME AnswerInv, OrderInv, NEW l \in Loops, ~conf.idle, WriterFail(l) \/ WriterStop(l)
    PROVE  OrderInv'
<1>1. wpc[l] \in {"take", "write", "push"}
  BY DEF WriterFail, WriterStop, WriterBlocked
<1>2. /\ l = 1 /\ gen = 1 /\ gens = 1 /\ LoopOK(1) /\ StartOK(1) /\ HandOK(1) /\ 1 \in Loops
      /\ lpc[1] # "off"
  BY <1>1, TheLoop
<1>3. /\ DOMAIN wpc = Loops /\ DOMAIN wgen = Loops /\ DOMAIN ww = Loops /\ DOMAIN buf = Loops
      /\ DOMAIN wire = Loops /\ wire[1] \in Seq(Calls)
      /\ buf[1] \in Seq(Calls) /\ chR[1] \in Seq(Calls)
  BY <1>2 DEF AnswerInv, TypeOK
<1>4. UNCHANGED <<conf, gen, gens, chR, lpc, lerr, rpc, rgen, rw, open>>
  BY DEF WriterFail, WriterStop, WriterReturn, loopVars, readerVars
<1>5. /\ wpc'[1] \in {"failed", "ended"} /\ (wpc'[1] = "ended" => lpc[1] = "stop")
      /\ wire' = Flushed(1) /\ buf'[1] = <<>>
      /\ \A m \in Loops \ {1} : wpc'[m] = wpc[m] /\ buf'[m] = buf[m]
  BY <1>2, <1>3 DEF WriterFail, WriterStop, WriterReturn, Stopping
<1>6. ASSUME open[1], rpc[1] \in {"start", "take", "read"} PROVE OrderOK(1)'
  <2>1. wire'[1] = wire[1] \o buf[1]
    BY <1>2, <1>3, <1>5, <1>6 DEF Flushed
  <2>2. Stream(1)' = Stream(1) /\ Stream(1) \in Seq(Calls)
    BY <1>3, <1>5, <2>1, StreamFlush DEF Stream
  <2>3. PICK st, n, x, ch, p, w : /\ st = Stream(1) /\ n = (IF rpc[1] = "read" THEN 1 ELSE 0)
                                  /\ x = rw[1] /\ ch = chR[1] /\ p = wpc[1] /\ w = ww[1]
    OBVIOUS
  <2>4. InOrder(st, n, x, ch, p, w) /\ st \in Seq(Calls) /\ n \in {0, 1} /\ ch \in Seq(Calls)
    BY <1>2, <1>3, <1>6, <2>2, <2>3 DEF LoopOK, OrderOK
  <2>5. \A q \in {"failed", "ended"} : \A v : InOrder(st, n, x, ch, q, v)
    BY <2>4, OrderSame
  <2> QED BY <1>4, <1>5, <2>2, <2>3, <2>5 DEF OrderOK
<1>7. lpc[1] \in {"run", "stop"}
  BY <1>1, <1>2 DEF StartOK
<1>8. LoopOK(1)'
  BY <1>2, <1>4, <1>5, <1>6, <1>7 DEF LoopOK
<1> QED BY <1>2, <1>4, <1>5, <1>8, OneLoop

\* The reader.
LEMMA OrderReader ==
    ASSUME AnswerInv, OrderInv, NEW l \in Loops, ~conf.idle,
           ReaderStart(l) \/ ReaderTake(l) \/ ReaderFail(l) \/ ReaderStop(l)
    PROVE  OrderInv'
<1>1. rpc[l] \in {"start", "take", "read"}
  BY DEF ReaderStart, ReaderTake, ReaderFail, ReaderStop
<1>2. /\ l = 1 /\ gen = 1 /\ gens = 1 /\ LoopOK(1) /\ StartOK(1) /\ HandOK(1) /\ 1 \in Loops
      /\ lpc[1] # "off" /\ lpc[1] \in {"run", "stop"}
  BY <1>1, TheLoop DEF StartOK
<1>3. /\ DOMAIN rpc = Loops /\ DOMAIN rgen = Loops /\ DOMAIN rw = Loops /\ DOMAIN chR = Loops
      /\ wire[1] \in Seq(Calls) /\ buf[1] \in Seq(Calls) /\ chR[1] \in Seq(Calls)
  BY <1>2 DEF AnswerInv, TypeOK
<1>4. UNCHANGED <<conf, gen, gens, lpc, lerr, wpc, wgen, ww, buf, open, wire>>
  BY DEF ReaderStart, ReaderTake, ReaderFail, ReaderStop, ReaderReturn, loopVars, writerVars
<1>5. Stream(1)' = Stream(1) /\ Stream(1) \in Seq(Calls)
  BY <1>3, <1>4 DEF Stream
<1>6. PICK st, x, ch, p, w : st = Stream(1) /\ x = rw[1] /\ ch = chR[1] /\ p = wpc[1] /\ w = ww[1]
  OBVIOUS
<1>7. CASE ReaderStart(l)
  <2>1. /\ rpc[1] = "start" /\ rpc'[1] = "take" /\ rgen'[1] = 1 /\ UNCHANGED <<chR, rw>>
        /\ \A m \in Loops \ {1} : rpc'[m] = rpc[m]
    BY <1>2, <1>3, <1>7 DEF ReaderStart
  <2>2. open'[1] => OrderOK(1)'
    BY <1>2, <1>4, <1>5, <2>1 DEF LoopOK, OrderOK
  <2>3. LoopOK(1)'
    BY <1>2, <1>4, <2>1, <2>2 DEF LoopOK
  <2> QED BY <1>2, <1>4, <2>1, <2>3, OneLoop
<1>8. CASE ReaderTake(l)
  <2>1. rpc[1] = "take" /\ rgen[1] = 1 /\ chR[1] # <<>>
    BY <1>2, <1>8 DEF ReaderTake, LoopOK, HasWork
  <2>2. /\ rpc'[1] = "read" /\ rgen' = rgen /\ rw'[1] = Head(ch) /\ chR'[1] = Tail(ch)
        /\ \A m \in Loops \ {1} : rpc'[m] = rpc[m] /\ chR'[m] = chR[m]
    BY <1>2, <1>3, <1>6, <1>8, <2>1 DEF ReaderTake, Pop
  <2>3. ASSUME open[1] PROVE OrderOK(1)'
    <3>1. InOrder(st, 0, x, ch, p, w)
      BY <1>2, <1>6, <2>1, <2>3 DEF LoopOK, OrderOK
    <3>2. InOrder(st, 1, Head(ch), Tail(ch), p, w)
      BY <1>3, <1>5, <1>6, <2>1, <3>1, OrderTaken
    <3> QED BY <1>4, <1>5, <1>6, <2>2, <3>2 DEF OrderOK
  <2>4. LoopOK(1)'
    BY <1>2, <1>4, <2>1, <2>2, <2>3 DEF LoopOK
  <2> QED BY <1>2, <1>4, <2>2, <2>4, OneLoop
<1>9. CASE ReaderFail(l) \/ ReaderStop(l)
  <2>1. /\ rpc'[1] \in {"failed", "ended"} /\ (rpc'[1] = "ended" => lpc[1] = "stop")
        /\ UNCHANGED chR /\ \A m \in Loops \ {1} : rpc'[m] = rpc[m]
    BY <1>2, <1>3, <1>9 DEF ReaderFail, ReaderStop, ReaderReturn, Stopping
  <2>2. LoopOK(1)'
    BY <1>2, <1>4, <2>1 DEF LoopOK
  <2> QED BY <1>2, <1>4, <2>1, <2>2, OneLoop
<1> QED BY <1>7, <1>8, <1>9

\* The reader reads a response: it is the one to the work in its hand.
LEMMA OrderReaderRead ==
    ASSUME AnswerInv, OrderInv, ResponseMatches, NEW l \in Loops, ~conf.idle, ReaderRead(l)
    PROVE  OrderInv' /\ ResponseMatches'
<1>1. rpc[l] = "read"
  BY DEF ReaderRead
<1>2. /\ l = 1 /\ gen = 1 /\ gens = 1 /\ LoopOK(1) /\ StartOK(1) /\ HandOK(1) /\ 1 \in Loops
      /\ lpc[1] # "off" /\ lpc[1] \in {"run", "stop"}
  BY <1>1, TheLoop DEF StartOK
<1>3. /\ DOMAIN rpc = Loops /\ DOMAIN rw = Loops /\ DOMAIN wire = Loops /\ DOMAIN resp = Calls
      /\ wire[1] \in Seq(Calls) /\ buf[1] \in Seq(Calls) /\ chR[1] \in Seq(Calls)
  BY <1>2 DEF AnswerInv, TypeOK
<1>4. UNCHANGED <<conf, gen, gens, chR, lpc, lerr, wpc, wgen, ww, buf, rgen, open>>
  BY DEF ReaderRead, loopVars, writerVars
<1>5. /\ open[1] /\ wire[1] # <<>> /\ rpc'[1] = "take" /\ wire'[1] = Tail(wire[1])
      /\ resp' = [resp EXCEPT ![rw[1]] = Head(wire[1])] /\ rw[1] \in Calls
      /\ \A m \in Loops \ {1} : rpc'[m] = rpc[m]
  BY <1>1, <1>2, <1>3 DEF ReaderRead, HandOK
<1>6. PICK st, x, ch, p, w : st = Stream(1) /\ x = rw[1] /\ ch = chR[1] /\ p = wpc[1] /\ w = ww[1]
  OBVIOUS
<1>7. InOrder(st, 1, x, ch, p, w) /\ st \in Seq(Calls) /\ ch \in Seq(Calls)
  BY <1>1, <1>2, <1>3, <1>5, <1>6 DEF LoopOK, OrderOK, Stream
<1>8. Head(st) = x /\ \A y : InOrder(Tail(st), 0, y, ch, p, w)
  BY <1>7, OrderRead
<1>9. Stream(1)' = Tail(st) /\ Head(st) = Head(wire[1])
  BY <1>3, <1>4, <1>5, <1>6, StreamTail DEF Stream
<1>10. OrderOK(1)'
  BY <1>4, <1>5, <1>6, <1>8, <1>9 DEF OrderOK
<1>11. LoopOK(1)'
  BY <1>1, <1>2, <1>4, <1>5, <1>10 DEF LoopOK
<1>12. OrderInv'
  BY <1>2, <1>4, <1>5, <1>11, OneLoop
<1>13. \A k \in Calls : resp'[k] = IF k = rw[1] THEN rw[1] ELSE resp[k]
  BY <1>3, <1>5, <1>6, <1>8, <1>9
<1>14. ResponseMatches'
  BY <1>13 DEF ResponseMatches
<1> QED BY <1>12, <1>14

LEMMA OrderNext ==
    ASSUME AnswerInv, OrderInv, ResponseMatches, [Next]_vars
    PROVE  OrderInv' /\ ResponseMatches'
<1> USE DEF callVars, loopVars, writerVars, readerVars
<1>1. ASSUME NEW k \in Calls, CallStep(k) \/ CallTimeout(k)
      PROVE  /\ conf' = conf /\ resp' = resp
             /\ ~conf.idle => OrderInv'
  <2>1. CASE CallInit(k)
    BY <2>1, OrderCallInit DEF CallInit
  <2>2. CASE CallPut(k)
    BY <2>2, OrderFrame DEF CallPut
  <2>3. CASE CallReplace(k)
    BY <2>3, OrderFrame DEF CallReplace
  <2>4. CASE CallOverflow(k) \/ CallTimeout(k) \/ CallDone(k)
    BY <2>4, OrderFrame DEF CallOverflow, CallTimeout, CallDone
  <2> QED BY <1>1, <2>1, <2>2, <2>3, <2>4 DEF CallStep
<1>2. ASSUME NEW l \in Loops, Loop(l)
      PROVE  conf' = conf /\ resp' = resp /\ (~conf.idle => OrderInv')
  <2>1. conf' = conf /\ resp' = resp
    BY <1>2 DEF Loop, DialOk, OneEnded, BothEnded, DrainCheck, Drain, WorkerReturned
  <2> QED BY <1>2, <2>1, OrderLoop DEF Loop
<1>3. ASSUME NEW l \in Loops, Writer(l) \/ WriterFail(l) \/ WriterIdle(l)
      PROVE  conf' = conf /\ resp' = resp /\ (~conf.idle => OrderInv')
  <2>1. CASE Writer(l) /\ ~WriterStop(l)
    <3>1. conf' = conf /\ resp' = resp
      BY <2>1 DEF Writer, WriterStart, WriterTake, WriterExpired, WriterWrite, WriterPush,
                  WriterFlush
    <3> QED BY <2>1, <3>1, OrderWriter DEF Writer
  <2>2. CASE WriterFail(l) \/ WriterStop(l)
    <3>1. conf' = conf /\ resp' = resp
      BY <2>2 DEF WriterFail, WriterStop, WriterReturn
    <3> QED BY <2>2, <3>1, OrderWriterReturn
  <2>3. CASE WriterIdle(l)
    BY <2>3 DEF WriterIdle, WriterReturn
  <2> QED BY <1>3, <2>1, <2>2, <2>3
<1>4. ASSUME NEW l \in Loops, Reader(l) \/ ReaderFail(l), ~ReaderRead(l)
      PROVE  conf' = conf /\ resp' = resp /\ (~conf.idle => OrderInv')
  <2>1. conf' = conf /\ resp' = resp
    BY <1>4 DEF Reader, ReaderStart, ReaderTake, ReaderStop, ReaderFail, ReaderReturn
  <2> QED BY <1>4, <2>1, OrderReader DEF Reader
<1>5. ASSUME NEW l \in Loops, ReaderRead(l)
      PROVE  conf' = conf /\ (~conf.idle => OrderInv' /\ ResponseMatches')
  BY <1>5, OrderReaderRead DEF ReaderRead
<1>6. CASE UNCHANGED vars
  BY <1>6, OrderFrame DEF vars, ResponseMatches
<1>7. ASSUME conf' = conf, resp' = resp, ~conf.idle => OrderInv'
      PROVE  OrderInv' /\ ResponseMatches'
  <2>1. ResponseMatches'
    BY <1>7 DEF ResponseMatches
  <2>2. conf.idle => OrderInv'
    BY <1>7 DEF OrderInv
  <2> QED BY <1>7, <2>1, <2>2
<1>8. ASSUME NEW l \in Loops, ReaderRead(l) PROVE OrderInv' /\ ResponseMatches'
  <2>1. conf.idle => OrderInv' /\ ResponseMatches'
    BY <1>5, <1>8 DEF OrderInv, ResponseMatches
  <2> QED BY <1>5, <1>8, <2>1
<1> QED BY <1>1, <1>2, <1>3, <1>4, <1>6, <1>7, <1>8 DEF Next, DialFail

LEMMA OrderInit ==
    ASSUME Init
    PROVE  OrderInv /\ ResponseMatches
<1>1. ASSUME NEW l \in Loops PROVE LoopOK(l)
  <2>1. /\ lpc[l] = "off" /\ wpc[l] = "off" /\ rpc[l] = "off" /\ open[l] = FALSE
        /\ chR[l] = <<>> /\ buf[l] = <<>>
    BY DEF Init
  <2> QED BY <2>1 DEF LoopOK
<1>2. ResponseMatches
  BY DEF Init, ResponseMatches
<1> QED BY <1>1, <1>2 DEF Init, OrderInv

LEMMA InvHolds == Spec => []PipelineInv
<1>1. Init => PipelineInv
  BY AnswerInit, OrderInit DEF PipelineInv
<1>2. PipelineInv /\ [Next]_vars => PipelineInv'
  BY AnswerNext, OrderNext DEF PipelineInv
<1> QED BY <1>1, <1>2, PTL DEF Spec

-----------------------------------------------------------------------------
(* The theorems. *)

\* Every variable keeps its type, whatever the numbers of calls and loops and the
\* capacity of chR and chW are.
THEOREM PipelineTypeCorrect == Spec => []TypeOK
<1>1. PipelineInv => TypeOK
  BY DEF PipelineInv, AnswerInv
<1> QED BY <1>1, InvHolds, PTL

\* The work of a call that waits on w.done is in one queue or in one goroutine's hand, or
\* it has been answered: no path through writer, reader and the drain loop of init loses
\* it or answers it twice, also when an idle connection left two loops on one pair of
\* channels.
THEOREM OneAnswerCorrect == Spec => []OneAnswer
<1>1. ASSUME PipelineInv PROVE OneAnswer
  <2>1. ASSUME NEW k \in Calls PROVE Cardinality(Works(k)) <= 1
    <3>1. \A p, q \in Works(k) : p = q
      BY <1>1 DEF PipelineInv, AnswerInv, CallOK
    <3>2. CASE Works(k) = {}
      BY <3>2, FS_EmptySet
    <3>3. CASE Works(k) # {}
      <4>1. PICK p \in Works(k) : TRUE
        BY <3>3
      <4>2. Works(k) = {p}
        BY <3>1, <4>1
      <4> QED BY <4>2, FS_Singleton
    <3> QED BY <3>2, <3>3
  <2> QED BY <1>1, <2>1 DEF PipelineInv, AnswerInv, QueuesOK, CallOK, OneAnswer
<1> QED BY <1>1, InvHolds, PTL

\* As long as no connection is ever idle, the response that the reader gives to a work is
\* the one to the request of that work: the order in which the writer writes requests is
\* the order of chR, also after writes, reads and dials that fail.
THEOREM ResponseMatchesCorrect == Spec => []ResponseMatches
<1>1. PipelineInv => ResponseMatches
  BY DEF PipelineInv
<1> QED BY <1>1, InvHolds, PTL

=============================================================================
