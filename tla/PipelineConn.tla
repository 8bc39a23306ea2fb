---------------------------- MODULE PipelineConn ----------------------------
(***************************************************************************)
(* client.go: pipelineConnClient, one connection of a PipelineClient.      *)
(* Calls put their work into chW; the writer goroutine writes the requests *)
(* to the connection and moves the works to chR; the reader goroutine      *)
(* takes them from there in the same order and reads their responses.  The *)
(* goroutine that init starts (here a loop) keeps dialing and running a    *)
(* writer and a reader until an idle connection ends.                      *)
(*                                                                         *)
(* c.chR and c.chW are created, and set to nil, together: gen is the       *)
(* number of the current pair, 0 when they are nil.  The loop that init    *)
(* starts with pair g is loop g.                                           *)
(***************************************************************************)
EXTENDS Integers, Sequences, FiniteSets, PoolSeq

CONSTANTS
    Calls,              \* the calls of Do and DoDeadline; each has its own work
    DeadlineCalls,      \* the ones that may be DoDeadline
    MaxPendingRequests, \* the capacity of chR and chW
    MaxLoops,           \* bound: how often init may create channels and a loop
    None

ASSUME PipelineAssumption ==
    /\ DeadlineCalls \subseteq Calls
    /\ MaxPendingRequests \in Nat \ {0} /\ MaxLoops \in Nat \ {0}
    /\ None \notin Calls

Loops == 1..MaxLoops

VARIABLES
    conf,               \* what does not change: the calls that are DoDeadline (deadline),
                        \* and whether a connection is ever idle for
                        \* MaxIdleConnDuration (idle)
    gen, gens,          \* the current pair of channels and how many were made
    chW, chR,           \* the contents of each pair
    pc, done, werr,     \* each call's pc, its work's done channel and error
    resp,               \* whose response a work was given
    lpc, lerr,          \* each loop's pc and whether worker() returns an error
    wpc, wgen, ww,      \* its writer: pc, channels, work in hand
    buf, flush,         \* the writer's unflushed requests; flushTimerCh # nil
    rpc, rgen, rw,      \* its reader: pc, channels, work in hand
    open, wire          \* its connection: open, and the requests the server has

loopVars == <<lpc, lerr>>
writerVars == <<wpc, wgen, ww, buf, flush>>
readerVars == <<rpc, rgen, rw>>
callVars == <<pc, done, werr>>
vars == <<conf, gen, gens, chW, chR, callVars, resp, loopVars, writerVars, readerVars,
          open, wire>>

Init ==
    /\ conf \in [deadline : SUBSET DeadlineCalls, idle : BOOLEAN]
    /\ gen = 0 /\ gens = 0
    /\ chW = [g \in Loops |-> <<>>] /\ chR = [g \in Loops |-> <<>>]
    /\ pc = [k \in Calls |-> "init"] /\ done = [k \in Calls |-> FALSE]
    /\ werr = [k \in Calls |-> "none"] /\ resp = [k \in Calls |-> None]
    /\ lpc = [l \in Loops |-> "off"] /\ lerr = [l \in Loops |-> FALSE]
    /\ wpc = [l \in Loops |-> "off"] /\ wgen = [l \in Loops |-> 0]
    /\ ww = [l \in Loops |-> None]
    /\ buf = [l \in Loops |-> <<>>] /\ flush = [l \in Loops |-> FALSE]
    /\ rpc = [l \in Loops |-> "off"] /\ rgen = [l \in Loops |-> 0]
    /\ rw = [l \in Loops |-> None]
    /\ open = [l \in Loops |-> FALSE] /\ wire = [l \in Loops |-> <<>>]

\* A channel of pair 0 is nil: it is never ready.
HasRoom(ch, g) == g # 0 /\ Len(ch[g]) < MaxPendingRequests
HasWork(ch, g) == g # 0 /\ ch[g] # <<>>
Push(ch, g, k) == [ch EXCEPT ![g] = Append(@, k)]
Pop(ch, g) == [ch EXCEPT ![g] = Tail(@)]

\* w.err = e; w.done <- struct{}{}
Answer(k, e) ==
    /\ ~done[k]
    /\ done' = [done EXCEPT ![k] = TRUE]
    /\ werr' = [werr EXCEPT ![k] = e]

-----------------------------------------------------------------------------
(* Do and DoDeadline. *)

\* init: the channels and the loop are created if c.chR is nil.
CallInit(k) ==
    /\ pc[k] = "init"
    /\ pc' = [pc EXCEPT ![k] = "put"]
    /\ \/ /\ gen # 0
          /\ UNCHANGED <<gen, gens, lpc>>
       \/ /\ gen = 0 /\ gens < MaxLoops
          /\ gen' = gens + 1 /\ gens' = gens + 1
          /\ lpc' = [lpc EXCEPT ![gens + 1] = "dial"]
    /\ UNCHANGED <<conf, chW, chR, done, werr, resp, lerr, writerVars, readerVars, open,
                   wire>>

\* c.chW <- w
CallPut(k) ==
    /\ pc[k] \in {"put", "putAgain"}
    /\ HasRoom(chW, gen)
    /\ chW' = Push(chW, gen, k)
    /\ pc' = [pc EXCEPT ![k] = "wait"]
    /\ UNCHANGED <<conf, gen, gens, chR, done, werr, resp, loopVars, writerVars, readerVars,
                   open, wire>>

\* Do, chW is full: the oldest work is answered with ErrPipelineOverflow.
CallReplace(k) ==
    /\ pc[k] = "put" /\ k \notin conf.deadline
    /\ ~HasRoom(chW, gen)
    /\ pc' = [pc EXCEPT ![k] = "putAgain"]
    /\ \/ /\ HasWork(chW, gen)
          /\ Answer(Head(chW[gen]), "ErrPipelineOverflow")
          /\ chW' = Pop(chW, gen)
       \/ /\ ~HasWork(chW, gen)
          /\ UNCHANGED <<chW, done, werr>>
    /\ UNCHANGED <<conf, gen, gens, chR, resp, loopVars, writerVars, readerVars, open, wire>>

\* Do, chW is full again: the call fails.
CallOverflow(k) ==
    /\ pc[k] = "putAgain" /\ ~HasRoom(chW, gen)
    /\ werr' = [werr EXCEPT ![k] = "ErrPipelineOverflow"]
    /\ pc' = [pc EXCEPT ![k] = "done"]
    /\ UNCHANGED <<conf, gen, gens, chW, chR, done, resp, loopVars, writerVars, readerVars,
                   open, wire>>

\* DoDeadline: the timer fires, before the work is queued or after.
CallTimeout(k) ==
    /\ k \in conf.deadline
    /\ pc[k] = "wait" \/ (pc[k] = "put" /\ ~HasRoom(chW, gen))
    /\ pc' = [pc EXCEPT ![k] = "done"]
    /\ UNCHANGED <<conf, gen, gens, chW, chR, done, werr, resp, loopVars, writerVars,
                   readerVars, open, wire>>

\* <-w.done
CallDone(k) ==
    /\ pc[k] = "wait" /\ done[k]
    /\ done' = [done EXCEPT ![k] = FALSE]
    /\ pc' = [pc EXCEPT ![k] = "done"]
    /\ UNCHANGED <<conf, gen, gens, chW, chR, werr, resp, loopVars, writerVars, readerVars,
                   open, wire>>

-----------------------------------------------------------------------------
(* The loop of init and worker. *)

DialOk(l) ==
    /\ lpc[l] = "dial"
    /\ lpc' = [lpc EXCEPT ![l] = "run"]
    /\ wpc' = [wpc EXCEPT ![l] = "start"] /\ rpc' = [rpc EXCEPT ![l] = "start"]
    /\ open' = [open EXCEPT ![l] = TRUE] /\ wire' = [wire EXCEPT ![l] = <<>>]
    /\ UNCHANGED <<conf, gen, gens, chW, chR, callVars, resp, lerr, wgen, ww, buf, flush,
                   rgen, rw>>

\* worker returns the error of the dial and is called again.
DialFail(l) == lpc[l] = "dial" /\ UNCHANGED vars

\* The writer or the reader ended: the connection is closed and the other is told to
\* stop.  worker returns the error of the one that ended first.
OneEnded(l) ==
    /\ lpc[l] = "run"
    /\ wpc[l] \in {"ended", "failed"} \/ rpc[l] \in {"ended", "failed"}
    /\ \E e \in BOOLEAN :
          /\ \/ wpc[l] = (IF e THEN "failed" ELSE "ended")
             \/ rpc[l] = (IF e THEN "failed" ELSE "ended")
          /\ lerr' = [lerr EXCEPT ![l] = e]
    /\ lpc' = [lpc EXCEPT ![l] = "stop"]
    /\ open' = [open EXCEPT ![l] = FALSE]
    /\ UNCHANGED <<conf, gen, gens, chW, chR, callVars, resp, writerVars, readerVars, wire>>

BothEnded(l) ==
    /\ lpc[l] = "stop"
    /\ wpc[l] \in {"ended", "failed"} /\ rpc[l] \in {"ended", "failed"}
    /\ lpc' = [lpc EXCEPT ![l] = "drain"]
    /\ wpc' = [wpc EXCEPT ![l] = "off"] /\ rpc' = [rpc EXCEPT ![l] = "off"]
    /\ UNCHANGED <<conf, gen, gens, chW, chR, callVars, resp, lerr, wgen, ww, buf, flush,
                   rgen, rw, open, wire>>

\* len(c.chR) > 0: the loop goes on to receive from c.chR.
DrainCheck(l) ==
    /\ lpc[l] = "drain" /\ HasWork(chR, gen)
    /\ lpc' = [lpc EXCEPT ![l] = "drainRecv"]
    /\ UNCHANGED <<conf, gen, gens, chW, chR, callVars, resp, lerr, writerVars,
                   readerVars, open,
                   wire>>

\* The work received is answered.
Drain(l) ==
    /\ lpc[l] = "drainRecv" /\ HasWork(chR, gen)
    /\ Answer(Head(chR[gen]), "errPipelineConnStopped")
    /\ chR' = Pop(chR, gen)
    /\ lpc' = [lpc EXCEPT ![l] = "drain"]
    /\ UNCHANGED <<conf, gen, gens, chW, pc, resp, lerr, writerVars, readerVars, open, wire>>

\* Mutant of WorkerReturned: the works left in chR are not answered.
WorkerReturnedEarly(l) ==
    /\ lpc[l] = "drain"
    /\ \/ /\ lerr[l]
          /\ lpc' = [lpc EXCEPT ![l] = "dial"]
          /\ UNCHANGED gen
       \/ /\ ~lerr[l] /\ ~HasWork(chW, gen)
          /\ lpc' = [lpc EXCEPT ![l] = "ended"]
          /\ UNCHANGED gen
       \/ /\ ~lerr[l] /\ HasWork(chW, gen)
          /\ lpc' = [lpc EXCEPT ![l] = "dial"]
          /\ gen' = 0
    /\ UNCHANGED <<conf, gens, chW, chR, callVars, resp, lerr, writerVars, readerVars,
                   open, wire>>

\* worker returned: dial again after an error; otherwise end the loop if the queues
\* are empty, and forget the channels and go on if they are not.
WorkerReturned(l) ==
    /\ lpc[l] = "drain" /\ ~HasWork(chR, gen)
    /\ \/ /\ lerr[l]
          /\ lpc' = [lpc EXCEPT ![l] = "dial"]
          /\ UNCHANGED gen
       \/ /\ ~lerr[l] /\ ~HasWork(chW, gen)
          /\ lpc' = [lpc EXCEPT ![l] = "ended"]
          /\ UNCHANGED gen
       \/ /\ ~lerr[l] /\ HasWork(chW, gen)
          /\ lpc' = [lpc EXCEPT ![l] = "dial"]
          /\ gen' = 0
    /\ UNCHANGED <<conf, gens, chW, chR, callVars, resp, lerr, writerVars, readerVars,
                   open, wire>>

Stopping(l) == lpc[l] = "stop"

-----------------------------------------------------------------------------
(* The writer. *)

WriterStart(l) ==
    /\ wpc[l] = "start"
    /\ wgen' = [wgen EXCEPT ![l] = gen]
    /\ flush' = [flush EXCEPT ![l] = FALSE] /\ buf' = [buf EXCEPT ![l] = <<>>]
    /\ wpc' = [wpc EXCEPT ![l] = "take"]
    /\ UNCHANGED <<conf, gen, gens, chW, chR, callVars, resp, loopVars, ww, readerVars,
                   open, wire>>

\* w = <-chW
WriterTake(l) ==
    /\ wpc[l] = "take" /\ HasWork(chW, wgen[l])
    /\ ww' = [ww EXCEPT ![l] = Head(chW[wgen[l]])]
    /\ chW' = Pop(chW, wgen[l])
    /\ wpc' = [wpc EXCEPT ![l] = "write"]
    /\ UNCHANGED <<conf, gen, gens, chR, callVars, resp, loopVars, wgen, buf, flush,
                   readerVars, open, wire>>

\* Mutant of WriterExpired: continue is missing.
WriterExpiredGoesOn(l) ==
    /\ wpc[l] = "write" /\ ww[l] \in conf.deadline
    /\ Answer(ww[l], "ErrTimeout")
    /\ UNCHANGED ww
    /\ wpc' = [wpc EXCEPT ![l] = "push"]
    /\ UNCHANGED <<conf, gen, gens, chW, chR, pc, resp, loopVars, wgen, buf, flush,
                   readerVars, open, wire>>

\* The deadline of w has passed.
WriterExpired(l) ==
    /\ wpc[l] = "write" /\ ww[l] \in conf.deadline
    /\ Answer(ww[l], "ErrTimeout")
    /\ ww' = [ww EXCEPT ![l] = None]
    /\ wpc' = [wpc EXCEPT ![l] = "take"]
    /\ UNCHANGED <<conf, gen, gens, chW, chR, pc, resp, loopVars, wgen, buf, flush,
                   readerVars, open, wire>>

\* Mutant of WriterWrite: the flush timer is armed only when chR is full.
WriterWriteNoFlush(l) ==
    /\ wpc[l] = "write"
    /\ buf' = [buf EXCEPT ![l] = Append(@, ww[l])]
    /\ flush' = [flush EXCEPT ![l] = \/ @
                                     \/ ~HasRoom(chR, wgen[l])]
    /\ wpc' = [wpc EXCEPT ![l] = "push"]
    /\ UNCHANGED <<conf, gen, gens, chW, chR, callVars, resp, loopVars, wgen, ww, readerVars,
                   open, wire>>

\* The request goes to the buffer, and the flush timer is armed if no other request
\* is about to follow.
WriterWrite(l) ==
    /\ wpc[l] = "write"
    /\ buf' = [buf EXCEPT ![l] = Append(@, ww[l])]
    /\ flush' = [flush EXCEPT ![l] = \/ @
                                     \/ ~HasWork(chW, wgen[l])
                                     \/ ~HasRoom(chR, wgen[l])]
    /\ wpc' = [wpc EXCEPT ![l] = "push"]
    /\ UNCHANGED <<conf, gen, gens, chW, chR, callVars, resp, loopVars, wgen, ww, readerVars,
                   open, wire>>

\* chR <- w
WriterPush(l) ==
    /\ wpc[l] = "push" /\ HasRoom(chR, wgen[l])
    /\ chR' = Push(chR, wgen[l], ww[l])
    /\ ww' = [ww EXCEPT ![l] = None]
    /\ wpc' = [wpc EXCEPT ![l] = "take"]
    /\ UNCHANGED <<conf, gen, gens, chW, callVars, resp, loopVars, wgen, buf, flush,
                   readerVars, open, wire>>

\* The slow paths: no work in chW, or no room in chR.
WriterBlocked(l) ==
    \/ wpc[l] = "take" /\ ~HasWork(chW, wgen[l])
    \/ wpc[l] = "push" /\ ~HasRoom(chR, wgen[l])

\* What the flush sends reaches the server if the connection is open.
Flushed(l) == [wire EXCEPT ![l] = IF open[l] THEN @ \o buf[l] ELSE @]

WriterFlush(l) ==
    /\ WriterBlocked(l) /\ flush[l] /\ open[l]
    /\ wire' = Flushed(l)
    /\ buf' = [buf EXCEPT ![l] = <<>>] /\ flush' = [flush EXCEPT ![l] = FALSE]
    /\ UNCHANGED <<conf, gen, gens, chW, chR, callVars, resp, loopVars, wpc, wgen, ww,
                   readerVars, open>>

\* The writer returns at pc end, with an answer to the work in its hand; the deferred
\* Flush sends what it can.
WriterReturn(l, end, e) ==
    /\ IF ww[l] # None THEN Answer(ww[l], e) ELSE UNCHANGED <<done, werr>>
    /\ wire' = Flushed(l)
    /\ buf' = [buf EXCEPT ![l] = <<>>] /\ flush' = [flush EXCEPT ![l] = FALSE]
    /\ ww' = [ww EXCEPT ![l] = None] /\ wgen' = [wgen EXCEPT ![l] = 0]
    /\ wpc' = [wpc EXCEPT ![l] = end]
    /\ UNCHANGED <<conf, gen, gens, chW, chR, pc, resp, loopVars, readerVars, open>>

\* A write or a flush fails.
WriterFail(l) ==
    /\ wpc[l] = "write" \/ (WriterBlocked(l) /\ flush[l])
    /\ WriterReturn(l, "failed", "write")

\* stopCh is closed.
WriterStop(l) ==
    /\ WriterBlocked(l) /\ Stopping(l)
    /\ WriterReturn(l, "ended", "errPipelineConnStopped")

\* The stop timer fires.
WriterIdle(l) ==
    /\ conf.idle /\ wpc[l] = "take" /\ WriterBlocked(l)
    /\ WriterReturn(l, "ended", "none")

-----------------------------------------------------------------------------
(* The reader. *)

ReaderStart(l) ==
    /\ rpc[l] = "start"
    /\ rgen' = [rgen EXCEPT ![l] = gen]
    /\ rpc' = [rpc EXCEPT ![l] = "take"]
    /\ UNCHANGED <<conf, gen, gens, chW, chR, callVars, resp, loopVars, writerVars, rw,
                   open, wire>>

\* w = <-chR
ReaderTake(l) ==
    /\ rpc[l] = "take" /\ HasWork(chR, rgen[l])
    /\ rw' = [rw EXCEPT ![l] = Head(chR[rgen[l]])]
    /\ chR' = Pop(chR, rgen[l])
    /\ rpc' = [rpc EXCEPT ![l] = "read"]
    /\ UNCHANGED <<conf, gen, gens, chW, callVars, resp, loopVars, writerVars, rgen,
                   open, wire>>

\* The next response on this connection answers the oldest request the server has.
ReaderRead(l) ==
    /\ rpc[l] = "read" /\ open[l] /\ wire[l] # <<>>
    /\ resp' = [resp EXCEPT ![rw[l]] = Head(wire[l])]
    /\ wire' = [wire EXCEPT ![l] = Tail(@)]
    /\ Answer(rw[l], "none")
    /\ rw' = [rw EXCEPT ![l] = None]
    /\ rpc' = [rpc EXCEPT ![l] = "take"]
    /\ UNCHANGED <<conf, gen, gens, chW, chR, pc, loopVars, writerVars, rgen, open>>

ReaderReturn(l, end) ==
    /\ rw' = [rw EXCEPT ![l] = None] /\ rgen' = [rgen EXCEPT ![l] = 0]
    /\ rpc' = [rpc EXCEPT ![l] = end]
    /\ UNCHANGED <<conf, gen, gens, chW, chR, pc, resp, loopVars, writerVars, open, wire>>

\* The read fails: the server closed the connection, or worker did.
ReaderFail(l) ==
    /\ rpc[l] = "read"
    /\ Answer(rw[l], "read")
    /\ ReaderReturn(l, "failed")

\* stopCh is closed and chR is empty.
ReaderStop(l) ==
    /\ rpc[l] = "take" /\ ~HasWork(chR, rgen[l]) /\ Stopping(l)
    /\ ReaderReturn(l, "ended")
    /\ UNCHANGED <<done, werr>>

-----------------------------------------------------------------------------
CallStep(k) ==
    \/ CallInit(k) \/ CallPut(k) \/ CallReplace(k) \/ CallOverflow(k) \/ CallDone(k)

Loop(l) ==
    \/ DialOk(l) \/ OneEnded(l) \/ BothEnded(l) \/ DrainCheck(l) \/ Drain(l)
    \/ WorkerReturned(l)

Writer(l) ==
    \/ WriterStart(l) \/ WriterTake(l) \/ WriterExpired(l) \/ WriterWrite(l)
    \/ WriterPush(l) \/ WriterFlush(l) \/ WriterStop(l)

Reader(l) == ReaderStart(l) \/ ReaderTake(l) \/ ReaderRead(l) \/ ReaderStop(l)

\* All calls returned and nothing is left to do.
Quiet == \A k \in Calls : pc[k] = "done"

Next ==
    \/ \E k \in Calls : CallStep(k) \/ CallTimeout(k)
    \/ \E l \in Loops :
          \/ Loop(l) \/ DialFail(l) \/ Writer(l) \/ WriterFail(l) \/ WriterIdle(l)
          \/ Reader(l) \/ ReaderFail(l)
    \/ Quiet /\ UNCHANGED vars

(***************************************************************************)
(* Every goroutine that can run does, a dial succeeds in the end, and a    *)
(* server that has a request answers it or closes the connection.  A read  *)
(* on a connection that worker closed fails; no other failure and no idle  *)
(* timeout has to happen.                                                  *)
(***************************************************************************)
Fairness ==
    /\ \A k \in Calls : WF_vars(CallStep(k))
    /\ \A l \in Loops :
          /\ WF_vars(Loop(l)) /\ WF_vars(Writer(l)) /\ WF_vars(Reader(l))
          /\ WF_vars(~open[l] /\ ReaderFail(l))

Spec == Init /\ [][Next]_vars /\ Fairness
-----------------------------------------------------------------------------
(* Properties. *)

TypeOK ==
    /\ gen \in 0..MaxLoops /\ gens \in 0..MaxLoops
    /\ chW \in [Loops -> Seq(Calls)] /\ chR \in [Loops -> Seq(Calls)]
    /\ pc \in [Calls -> {"init", "put", "putAgain", "wait", "done"}]
    /\ done \in [Calls -> BOOLEAN]
    /\ werr \in [Calls -> {"none", "ErrPipelineOverflow", "errPipelineConnStopped",
                           "ErrTimeout", "write", "read"}]
    /\ resp \in [Calls -> Calls \cup {None}]
    /\ lpc \in [Loops -> {"off", "dial", "run", "stop", "drain", "drainRecv", "ended"}]
    /\ lerr \in [Loops -> BOOLEAN]
    /\ wpc \in [Loops -> {"off", "start", "take", "write", "push", "ended", "failed"}]
    /\ wgen \in [Loops -> 0..MaxLoops] /\ rgen \in [Loops -> 0..MaxLoops]
    /\ ww \in [Loops -> Calls \cup {None}] /\ rw \in [Loops -> Calls \cup {None}]
    /\ buf \in [Loops -> Seq(Calls)] /\ wire \in [Loops -> Seq(Calls)]
    /\ flush \in [Loops -> BOOLEAN] /\ open \in [Loops -> BOOLEAN]
    /\ rpc \in [Loops -> {"off", "start", "take", "read", "ended", "failed"}]

\* Where the work of call k is: in a queue, or in the hands of a writer or a reader.
Works(k) ==
    {p \in {"chW", "chR", "writer", "reader"} \X Loops :
        \/ p[1] = "chW" /\ InSeq(k, chW[p[2]])
        \/ p[1] = "chR" /\ InSeq(k, chR[p[2]])
        \/ p[1] = "writer" /\ ww[p[2]] = k
        \/ p[1] = "reader" /\ rw[p[2]] = k}

\* A waiting call's work is in exactly one place or has been answered, and an
\* answered work is nowhere: none is answered twice (w.done has room for one answer)
\* and none disappears, whether its turn comes, it is pushed out of a full queue, its
\* deadline passes or the connection fails at any point of its way.
OneAnswer ==
    \A k \in Calls :
        /\ Cardinality(Works(k)) <= 1
        /\ done[k] => Works(k) = {}
        /\ pc[k] = "wait" => done[k] \/ Works(k) # {}
        /\ \A g \in Loops : Distinct(chW[g]) /\ Distinct(chR[g])

\* A call gets the response to its own request, although requests are pushed out,
\* expire and fail on the way: the order of chR is the order on the connection.  This
\* is so as long as one loop runs; an idle connection that ends may leave two, which
\* share the channels.
ResponseMatches == ~conf.idle => \A k \in Calls : resp[k] \in {None, k}

\* Every call returns, unless an idle connection ended (no loop serves the channels
\* then, and init starts none) or a work expired (which may leave the request before it
\* unflushed).
CallsReturn ==
    \A k \in Calls :
        ~conf.idle /\ conf.deadline = {} /\ pc[k] # "init" ~> pc[k] = "done"
=============================================================================
