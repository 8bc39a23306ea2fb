--------------------------- MODULE HandlerProofs ---------------------------
(***************************************************************************)
(* Proofs about the two handlers of the repository: TimeoutHandler, for    *)
(* any number of connections, RequestCtx objects and requests and any      *)
(* concurrency, and FSHandler, for any number of requests and versions of  *)
(* the file.                                                               *)
(***************************************************************************)
EXTENDS TimeoutHandler, FSHandler, PoolLemmas, TLAPS

(***************************************************************************)
(* TimeoutHandler.                                                         *)
(***************************************************************************)

\* The connection has a RequestCtx.
HasCtx(c) == pc[c] \in {"read", "select", "stopTimer", "respond"}

\* A RequestCtx has one owner: the pool, a connection, or a handler that it was left to.
OwnersInv ==
    /\ \A c \in Conns : HasCtx(c) => ctx[c] \in Ctxs \ pool
    /\ \A c, d \in Conns : c # d /\ HasCtx(c) /\ HasCtx(d) => ctx[c] # ctx[d]

\* One that comes into use is as good as new.
Clean(x) == ~timeoutCh[x] /\ ~timer[x] /\ ~timedOut[x]

CleanInv ==
    /\ \A x \in pool : Clean(x)
    /\ \A c \in Conns :
          /\ pc[c] = "read" => Clean(ctx[c])
          /\ pc[c] \in {"stopTimer", "respond"} /\ ~timedOut[ctx[c]] => ~timeoutCh[ctx[c]]
          /\ pc[c] = "respond" => ~timer[ctx[c]]

\* A connection in the select waits for the handler of its own request, which alone
\* sends to timeoutCh.
SelectInv ==
    \A c \in Conns : pc[c] = "select" =>
        /\ num[c] \in 1..MaxRequests /\ gctx[Current(c)] = ctx[c]
        /\ gpc[Current(c)] # "off" /\ ~timedOut[ctx[c]]
        /\ timeoutCh[ctx[c]] <=> gpc[Current(c)] # "run"

\* A running handler has the RequestCtx of the connection that waits for it, or one that
\* timed out.
Awaited(r) == pc[r[1]] = "select" /\ Current(r[1]) = r

HandlerInv ==
    /\ \A r \in Requests : gpc[r] = "run" =>
          gctx[r] \in Ctxs \ pool /\ (Awaited(r) \/ timedOut[gctx[r]])
    /\ \A r, q \in Requests : r # q /\ gpc[r] = "run" /\ gpc[q] = "run" => gctx[r] # gctx[q]

\* Requests that were not read yet have left no trace.
FutureInv ==
    /\ \A c \in Conns, n \in 1..MaxRequests :
          n > num[c] => gpc[<<c, n>>] = "off" /\ answer[<<c, n>>] = "none"
    /\ \A r \in Requests : answer[r] = "ok" => gpc[r] \in {"sent", "done"}

Inv == TypeOK /\ OwnersInv /\ CleanInv /\ SelectInv /\ HandlerInv /\ FutureInv

-----------------------------------------------------------------------------
LEMMA InvInit == Init => Inv
<1> SUFFICES ASSUME Init PROVE Inv
  OBVIOUS
<1>1. TypeOK
  BY TimeoutAssumption DEF Init, TypeOK
<1>2. OwnersInv /\ CleanInv /\ SelectInv /\ HandlerInv /\ FutureInv
  BY DEF Init, OwnersInv, CleanInv, SelectInv, HandlerInv, FutureInv, HasCtx, Clean, Requests
<1> QED BY <1>1, <1>2 DEF Inv

LEMMA TypeStep == TypeOK /\ OwnersInv /\ [Next]_vars => TypeOK'
<1> SUFFICES ASSUME TypeOK, OwnersInv, [Next]_vars PROVE TypeOK'
  OBVIOUS
<1> USE TimeoutAssumption DEF TypeOK, connVars, timerVars
<1>1. ASSUME NEW c \in Conns, Accept(c) PROVE TypeOK'
  BY <1>1 DEF Accept
<1>2. ASSUME NEW c \in Conns, Request(c) PROVE TypeOK'
  <2> DEFINE r == <<c, num[c] + 1>>
  <2>1. /\ r \in Requests /\ ctx[c] \in Ctxs /\ pc[c] = "read"
        /\ num' = [num EXCEPT ![c] = num[c] + 1] /\ num[c] + 1 \in 0..MaxRequests
        /\ UNCHANGED <<pool, ctx, timeoutCh, sending, tick, timedOut>>
    BY <1>2 DEF Request, Requests, OwnersInv, HasCtx
  <2>2. CASE sem < Concurrency
    <3>1. /\ sem' = sem + 1 /\ gpc' = [gpc EXCEPT ![r] = "run"]
          /\ gctx' = [gctx EXCEPT ![r] = ctx[c]]
          /\ timer' = [timer EXCEPT ![ctx[c]] = TRUE] /\ pc' = [pc EXCEPT ![c] = "select"]
          /\ UNCHANGED answer
      BY <1>2, <2>2 DEF Request, initTimer
    <3> HIDE DEF r
    <3> QED BY <2>1, <2>2, <3>1
  <2>3. CASE ~(sem < Concurrency)
    <3>1. /\ answer' = [answer EXCEPT ![r] = "429"] /\ pc' = [pc EXCEPT ![c] = "respond"]
          /\ UNCHANGED <<sem, gpc, gctx, timer>>
      BY <1>2, <2>3 DEF Request
    <3> HIDE DEF r
    <3> QED BY <2>1, <3>1
  <2> QED BY <2>2, <2>3
<1>3. ASSUME NEW c \in Conns, SelectDone(c) PROVE TypeOK'
  BY <1>3 DEF SelectDone
<1>4. ASSUME NEW c \in Conns, SelectTimer(c) PROVE TypeOK'
  BY <1>4 DEF SelectTimer
<1>5. ASSUME NEW c \in Conns, StopTimer(c) PROVE TypeOK'
  BY <1>5 DEF StopTimer
<1>6. ASSUME NEW c \in Conns, Respond(c) PROVE TypeOK'
  BY <1>6 DEF Respond
<1>7. ASSUME NEW c \in Conns, End(c) PROVE TypeOK'
  BY <1>7 DEF End, OwnersInv, HasCtx
<1>8. ASSUME NEW r \in Requests, HandlerDone(r) PROVE TypeOK'
  BY <1>8 DEF HandlerDone
<1>9. ASSUME NEW r \in Requests, HandlerLeaves(r) PROVE TypeOK'
  BY <1>9 DEF HandlerLeaves
<1>10. ASSUME NEW x \in Ctxs, TimerFires(x) PROVE TypeOK'
  BY <1>10 DEF TimerFires
<1>11. ASSUME NEW x \in Ctxs, TimerSends(x) PROVE TypeOK'
  BY <1>11 DEF TimerSends
<1>12. CASE UNCHANGED vars
  BY <1>12 DEF vars
<1> QED BY <1>1, <1>2, <1>3, <1>4, <1>5, <1>6, <1>7, <1>8, <1>9, <1>10, <1>11, <1>12
        DEF Next, Conn, Goroutine

LEMMA AcceptStep ==
    ASSUME Inv, TypeOK', NEW c \in Conns, Accept(c) PROVE Inv'
<1> USE TimeoutAssumption DEF Inv, TypeOK, connVars, timerVars, Accept, HasCtx, Clean, Current, Awaited
<1>1. OwnersInv'
  BY DEF OwnersInv
<1>2. CleanInv'
  BY DEF OwnersInv, CleanInv, HandlerInv, SelectInv, Requests
<1>3. SelectInv'
  BY DEF OwnersInv, CleanInv, SelectInv, HandlerInv, Requests
<1>4. HandlerInv'
  BY DEF OwnersInv, CleanInv, SelectInv, HandlerInv, Requests
<1>5. FutureInv'
  BY DEF FutureInv, SelectInv, Requests
<1> QED BY <1>1, <1>2, <1>3, <1>4, <1>5

LEMMA SelectDoneStep ==
    ASSUME Inv, TypeOK', NEW c \in Conns, SelectDone(c) PROVE Inv'
<1> USE TimeoutAssumption DEF Inv, TypeOK, connVars, timerVars, SelectDone, HasCtx, Clean, Current, Awaited
<1>1. OwnersInv'
  BY DEF OwnersInv
<1>2. CleanInv'
  BY DEF OwnersInv, CleanInv, HandlerInv, SelectInv, Requests
<1>3. SelectInv'
  BY DEF OwnersInv, CleanInv, SelectInv, HandlerInv, Requests
<1>4. HandlerInv'
  BY DEF OwnersInv, CleanInv, SelectInv, HandlerInv, Requests
<1>5. FutureInv'
  BY DEF FutureInv, SelectInv, Requests
<1> QED BY <1>1, <1>2, <1>3, <1>4, <1>5

LEMMA SelectTimerStep ==
    ASSUME Inv, TypeOK', NEW c \in Conns, SelectTimer(c) PROVE Inv'
<1> USE TimeoutAssumption DEF Inv, TypeOK, connVars, timerVars, SelectTimer, HasCtx, Clean, Current, Awaited
<1>1. OwnersInv'
  BY DEF OwnersInv
<1>2. CleanInv'
  BY DEF OwnersInv, CleanInv, HandlerInv, SelectInv, Requests
<1>3. SelectInv'
  BY DEF OwnersInv, CleanInv, SelectInv, HandlerInv, Requests
<1>4. HandlerInv'
  BY DEF OwnersInv, CleanInv, SelectInv, HandlerInv, Requests
<1>5. FutureInv'
  BY DEF FutureInv, SelectInv, Requests
<1> QED BY <1>1, <1>2, <1>3, <1>4, <1>5

LEMMA StopTimerStep ==
    ASSUME Inv, TypeOK', NEW c \in Conns, StopTimer(c) PROVE Inv'
<1> USE TimeoutAssumption DEF Inv, TypeOK, connVars, timerVars, StopTimer, HasCtx, Clean, Current, Awaited
<1>1. OwnersInv'
  BY DEF OwnersInv
<1>2. CleanInv'
  BY DEF OwnersInv, CleanInv, HandlerInv, SelectInv, Requests
<1>3. SelectInv'
  BY DEF OwnersInv, CleanInv, SelectInv, HandlerInv, Requests
<1>4. HandlerInv'
  BY DEF OwnersInv, CleanInv, SelectInv, HandlerInv, Requests
<1>5. FutureInv'
  BY DEF FutureInv, SelectInv, Requests
<1> QED BY <1>1, <1>2, <1>3, <1>4, <1>5

LEMMA RespondStep ==
    ASSUME Inv, TypeOK', NEW c \in Conns, Respond(c) PROVE Inv'
<1> USE TimeoutAssumption DEF Inv, TypeOK, connVars, timerVars, Respond, HasCtx, Clean, Current, Awaited
<1>1. OwnersInv'
  BY DEF OwnersInv
<1>2. CleanInv'
  BY DEF OwnersInv, CleanInv, HandlerInv, SelectInv, Requests
<1>3. SelectInv'
  BY DEF OwnersInv, CleanInv, SelectInv, HandlerInv, Requests
<1>4. HandlerInv'
  BY DEF OwnersInv, CleanInv, SelectInv, HandlerInv, Requests
<1>5. FutureInv'
  BY DEF FutureInv, SelectInv, Requests
<1> QED BY <1>1, <1>2, <1>3, <1>4, <1>5

LEMMA EndStep ==
    ASSUME Inv, TypeOK', NEW c \in Conns, End(c) PROVE Inv'
<1> USE TimeoutAssumption DEF Inv, TypeOK, connVars, timerVars, End, HasCtx, Clean, Current, Awaited
<1>1. OwnersInv'
  BY DEF OwnersInv
<1>2. CleanInv'
  BY DEF OwnersInv, CleanInv, HandlerInv, SelectInv, Requests
<1>3. SelectInv'
  BY DEF OwnersInv, CleanInv, SelectInv, HandlerInv, Requests
<1>4. HandlerInv'
  BY DEF OwnersInv, CleanInv, SelectInv, HandlerInv, Requests
<1>5. FutureInv'
  BY DEF FutureInv, SelectInv, Requests
<1> QED BY <1>1, <1>2, <1>3, <1>4, <1>5

LEMMA HandlerDoneStep ==
    ASSUME Inv, TypeOK', NEW r \in Requests, HandlerDone(r) PROVE Inv'
<1> USE TimeoutAssumption DEF Inv, TypeOK, connVars, timerVars, HandlerDone, HasCtx, Clean, Current, Awaited
<1>1. OwnersInv'
  BY DEF OwnersInv
<1>2. CleanInv'
  BY DEF OwnersInv, CleanInv, HandlerInv, SelectInv, Requests
<1>3. SelectInv'
  BY DEF OwnersInv, CleanInv, SelectInv, HandlerInv, Requests
<1>4. HandlerInv'
  BY DEF OwnersInv, CleanInv, SelectInv, HandlerInv, Requests
<1>5. FutureInv'
  BY DEF FutureInv, SelectInv, Requests
<1> QED BY <1>1, <1>2, <1>3, <1>4, <1>5

LEMMA HandlerLeavesStep ==
    ASSUME Inv, TypeOK', NEW r \in Requests, HandlerLeaves(r) PROVE Inv'
<1> USE TimeoutAssumption DEF Inv, TypeOK, connVars, timerVars, HandlerLeaves, HasCtx, Clean, Current, Awaited
<1>1. OwnersInv'
  BY DEF OwnersInv
<1>2. CleanInv'
  BY DEF OwnersInv, CleanInv, HandlerInv, SelectInv, Requests
<1>3. SelectInv'
  BY DEF OwnersInv, CleanInv, SelectInv, HandlerInv, Requests
<1>4. HandlerInv'
  BY DEF OwnersInv, CleanInv, SelectInv, HandlerInv, Requests
<1>5. FutureInv'
  BY DEF FutureInv, SelectInv, Requests
<1> QED BY <1>1, <1>2, <1>3, <1>4, <1>5

LEMMA TimerFiresStep ==
    ASSUME Inv, TypeOK', NEW x \in Ctxs, TimerFires(x) PROVE Inv'
<1> USE TimeoutAssumption DEF Inv, TypeOK, connVars, timerVars, TimerFires, HasCtx, Clean, Current, Awaited
<1>1. OwnersInv'
  BY DEF OwnersInv
<1>2. CleanInv'
  BY DEF OwnersInv, CleanInv, HandlerInv, SelectInv, Requests
<1>3. SelectInv'
  BY DEF OwnersInv, CleanInv, SelectInv, HandlerInv, Requests
<1>4. HandlerInv'
  BY DEF OwnersInv, CleanInv, SelectInv, HandlerInv, Requests
<1>5. FutureInv'
  BY DEF FutureInv, SelectInv, Requests
<1> QED BY <1>1, <1>2, <1>3, <1>4, <1>5

LEMMA TimerSendsStep ==
    ASSUME Inv, TypeOK', NEW x \in Ctxs, TimerSends(x) PROVE Inv'
<1> USE TimeoutAssumption DEF Inv, TypeOK, connVars, timerVars, TimerSends, HasCtx, Clean, Current, Awaited
<1>1. OwnersInv'
  BY DEF OwnersInv
<1>2. CleanInv'
  BY DEF OwnersInv, CleanInv, HandlerInv, SelectInv, Requests
<1>3. SelectInv'
  BY DEF OwnersInv, CleanInv, SelectInv, HandlerInv, Requests
<1>4. HandlerInv'
  BY DEF OwnersInv, CleanInv, SelectInv, HandlerInv, Requests
<1>5. FutureInv'
  BY DEF FutureInv, SelectInv, Requests
<1> QED BY <1>1, <1>2, <1>3, <1>4, <1>5

LEMMA RequestStep ==
    ASSUME Inv, TypeOK', NEW c \in Conns, Request(c) PROVE Inv'
<1> USE TimeoutAssumption DEF Inv, TypeOK, connVars, timerVars, HasCtx, Clean, Current, Awaited
<1>n. PICK n \in Nat : n = num[c] + 1
  OBVIOUS
<1> DEFINE r == <<c, n>>
<1>1. /\ pc[c] = "read" /\ n \in 1..MaxRequests /\ r \in Requests /\ gpc[r] = "off"
      /\ num' = [num EXCEPT ![c] = n]
      /\ UNCHANGED <<pool, ctx, timeoutCh, sending, tick, timedOut>>
  BY <1>n DEF Request, FutureInv, Requests
<1>2. ctx[c] \in Ctxs \ pool /\ Clean(ctx[c])
  BY <1>1 DEF OwnersInv, CleanInv
<1>3. CASE sem < Concurrency
  <2>1. /\ gpc' = [gpc EXCEPT ![r] = "run"] /\ gctx' = [gctx EXCEPT ![r] = ctx[c]]
        /\ timer' = [timer EXCEPT ![ctx[c]] = TRUE] /\ pc' = [pc EXCEPT ![c] = "select"]
        /\ UNCHANGED answer
    BY <1>n, <1>3 DEF Request, initTimer
  <2>2. OwnersInv'
    BY <1>1, <2>1 DEF OwnersInv
  <2>3. CleanInv'
    BY <1>1, <1>2, <2>1 DEF OwnersInv, CleanInv
  <2>4. SelectInv'
    BY <1>1, <1>2, <2>1 DEF OwnersInv, CleanInv, SelectInv, Requests
  <2>5. HandlerInv'
    <3>1. ASSUME NEW q \in Requests, gpc[q] = "run"
          PROVE  q[1] \in Conns /\ gctx[q] \in Ctxs \ pool /\ gctx[q] # ctx[c]
                 /\ ((Awaited(q) /\ q[1] # c) \/ timedOut[gctx[q]])
      BY <1>1, <1>2, <3>1 DEF OwnersInv, SelectInv, HandlerInv, Requests
    <3>2. ASSUME NEW q \in Requests, q # r, gpc'[q] = "run"
          PROVE  /\ gpc[q] = "run" /\ gctx'[q] = gctx[q]
                 /\ gctx'[q] \in Ctxs \ pool' /\ (Awaited(q)' \/ timedOut'[gctx'[q]])
      <4>1. gpc[q] = "run" /\ gctx'[q] = gctx[q]
        BY <2>1, <3>2
      <4> QED BY <1>1, <2>1, <3>1, <4>1
    <3>3. gctx'[r] = ctx[c] /\ Awaited(r)'
      BY <1>1, <2>1
    <3> HIDE DEF r, Awaited
    <3> QED BY <1>1, <1>2, <3>1, <3>2, <3>3 DEF HandlerInv
  <2>6. FutureInv'
    BY <1>n, <1>1, <2>1 DEF FutureInv, Requests
  <2> QED BY <2>2, <2>3, <2>4, <2>5, <2>6
<1>4. CASE ~(sem < Concurrency)
  <2>1. /\ answer' = [answer EXCEPT ![r] = "429"] /\ pc' = [pc EXCEPT ![c] = "respond"]
        /\ UNCHANGED <<sem, gpc, gctx, timer>>
    BY <1>n, <1>4 DEF Request
  <2>2. OwnersInv'
    BY <1>1, <2>1 DEF OwnersInv
  <2>3. CleanInv'
    BY <1>1, <1>2, <2>1 DEF OwnersInv, CleanInv
  <2>4. SelectInv'
    BY <1>1, <2>1 DEF SelectInv, Requests
  <2>5. HandlerInv'
    BY <1>1, <2>1 DEF HandlerInv, Requests
  <2>6. FutureInv'
    BY <1>n, <1>1, <2>1 DEF FutureInv, Requests
  <2> QED BY <2>2, <2>3, <2>4, <2>5, <2>6
<1> QED BY <1>3, <1>4

LEMMA InvStep == Inv /\ [Next]_vars => Inv'
<1> SUFFICES ASSUME Inv, [Next]_vars PROVE Inv'
  OBVIOUS
<1>1. TypeOK'
  BY TypeStep DEF Inv
<1>2. CASE UNCHANGED vars
  BY <1>2 DEF vars, connVars, timerVars, Inv, TypeOK, OwnersInv, CleanInv, SelectInv, HandlerInv,
              FutureInv, HasCtx, Clean, Current, Awaited
<1> QED BY <1>1, <1>2, AcceptStep, RequestStep, SelectDoneStep, SelectTimerStep, StopTimerStep,
           RespondStep, EndStep, HandlerDoneStep, HandlerLeavesStep, TimerFiresStep,
           TimerSendsStep
        DEF Next, Conn, Goroutine

-----------------------------------------------------------------------------
\* A RequestCtx that a handler may still use after its timeout is in no pool and no
\* other request uses it, and a request is answered with the handler's response only
\* when its own handler has returned.
THEOREM CtxNotSharedCorrect == Spec => []CtxNotShared
<1>1. Inv => CtxNotShared
  <2> SUFFICES ASSUME Inv, NEW r \in Requests
               PROVE  /\ gpc[r] = "run" =>
                            /\ gctx[r] \notin pool
                            /\ \A c \in Conns : pc[c] = "read" => ctx[c] # gctx[r]
                            /\ \A q \in Requests \ {r} : gpc[q] = "run" => gctx[q] # gctx[r]
                      /\ answer[r] = "ok" => gpc[r] \in {"sent", "done"}
    BY DEF CtxNotShared
  <2> QED BY DEF Inv, TypeOK, OwnersInv, CleanInv, SelectInv, HandlerInv, FutureInv, HasCtx, Clean,
                 Current, Awaited, Requests
<1> QED BY <1>1, InvInit, InvStep, PTL DEF Spec

\* initTimer never meets an active timer: it does not panic.
THEOREM TimerIdleCorrect == Spec => []TimerIdle
<1>1. Inv => TimerIdle
  BY DEF Inv, CleanInv, Clean, TimerIdle
<1> QED BY <1>1, InvInit, InvStep, PTL DEF Spec

(***************************************************************************)
(* FSHandler: the lock under which the compressed file is made, and where  *)
(* each open file is known.                                                *)
(***************************************************************************)

\* A request that has no file yet,
Before == {"start", "open", "stat", "remove", "compress", "lock", "create", "copy", "rename",
           "reopen"}

\* and one that has the lock of getFileLock.
Locked == {"create", "copy", "rename", "reopen"}

FSPCs == Before \cup Holding \cup {"insert", "done"}

Amounts == {"part", "cut", "whole"}
Copies == [ver : Nat, made : Amounts]

RequestRecords ==
    [pc : FSPCs, enc : Encodings, must : BOOLEAN, slash : BOOLEAN, index : BOOLEAN,
     file : FSRequests \cup {Nil}, copy : Copies, status : Nat]

FileRecords ==
    [st : {"none", "open", "closed"}, mem : BOOLEAN, compressed : BOOLEAN, made : Amounts,
     readers : Int, idle : Nat, old : BOOLEAN]

\* A compressed file to which nobody writes any more.
Finished(copy) == copy \in Copies /\ copy.made # "part"

FSTypeOK ==
    /\ orig \in Nat
    /\ cache \in [Encodings -> FSRequests \cup {Nil}]
    /\ ff \in [FSRequests -> FileRecords]
    /\ rq \in [FSRequests -> RequestRecords]
    /\ cleaner \in [pending : SUBSET FSRequests, release : SUBSET FSRequests,
                    stopped : BOOLEAN]

\* A request that has the compressed file open has a finished one.
Compares(req) == req.pc = "stat" => req.copy.made # "part"

\* The lock, and the files that are made under it.
CopyInv ==
    /\ \A r \in FSRequests : flock = r <=> rq[r].pc \in Locked
    /\ gz = Nil \/ Finished(gz)
    /\ \A r \in FSRequests : rq[r].pc = "rename" => Finished(tmp)
    /\ \A f \in FSRequests : ff[f].made # "part"
    /\ \A r \in FSRequests : Compares(rq[r])

\* Nobody but the request that opens it knows of file f.
Unknown(f) ==
    f \notin Cached /\ f \notin cleaner.pending /\ f \notin cleaner.release /\ Holders(f) = {}

\* The readers of f are counted; one of them has f from a cache or keeps it pending.
\* A file is in one of three places: a cache, pendingFiles or filesToRelease.
FileInv(f) ==
    /\ ff[f].readers = Cardinality(Holders(f))
    /\ Holders(f) # {} => f \in Cached \cup cleaner.pending
    /\ f \in Cached => ff[f].st = "open" /\ f \notin cleaner.pending /\ f \notin cleaner.release
    /\ f \in cleaner.pending => ff[f].st = "open" /\ f \notin cleaner.release
    /\ f \in cleaner.release => ff[f].st = "open"
    /\ ff[f].st = "closed" => ff[f].idle = 0
    /\ rq[f].pc \in Before => ff[f].st = "none" /\ Unknown(f)
    /\ rq[f].pc \in {"insert", "lost"} => ff[f].st = "open" /\ Unknown(f)
    /\ rq[f].pc \in Holding => rq[f].file \in FSRequests

FilesInv == \A f \in FSRequests : FileInv(f)

FSInv == FSTypeOK /\ CopyInv /\ FilesInv

-----------------------------------------------------------------------------
\* Request r goes to one of the points P,
Goes(r, P) ==
    \E new \in RequestRecords : rq' = [rq EXCEPT ![r] = new] /\ new.pc \in P /\ Compares(new)

\* or opens a file that nobody knows of yet.
Opens(r) ==
    /\ \E file \in FileRecords :
          ff' = [ff EXCEPT ![r] = file] /\ file.st = "open" /\ file.readers = 0 /\ file.made # "part"
    /\ Goes(r, {"insert"})

Works(r, P) == (ff' = ff /\ Goes(r, P)) \/ Opens(r)

LEMMA GotoGoes ==
    ASSUME FSTypeOK, NEW r \in FSRequests, NEW to \in FSPCs \ {"stat"}, Goto(r, to)
    PROVE  Goes(r, {to})
<1>1. PICK q \in RequestRecords : q = rq[r]
  BY DEF FSTypeOK
<1> DEFINE new == [q EXCEPT !.pc = to]
<1>2. new \in RequestRecords /\ new.pc = to
  BY <1>1 DEF RequestRecords
<1>3. rq' = [rq EXCEPT ![r] = new]
  BY <1>1 DEF Goto, FSTypeOK
<1> QED BY <1>2, <1>3 DEF Goes, Compares

LEMMA AnswerGoes ==
    ASSUME NEW r \in FSRequests, NEW s \in Nat, Answer(r, s)
    PROVE  Goes(r, {"done"})
<1> DEFINE new == [NewRequest EXCEPT !.pc = "done", !.status = s]
<1>1. new \in RequestRecords /\ new.pc = "done"
  BY DEF RequestRecords, NewRequest, FSPCs, Encodings, Copies, Amounts, Copy
<1> QED BY <1>1 DEF Answer, Goes, Compares

LEMMA NoFileRecord == NoFile \in FileRecords /\ NoFile.readers = 0 /\ NoFile.made # "part"
BY DEF FileRecords, NoFile, Amounts

LEMMA CreateDirIndexOpens ==
    ASSUME FSTypeOK, NEW r \in FSRequests, CreateDirIndex(r)
    PROVE  Opens(r)
<1>1. PICK c \in BOOLEAN : c = rq[r].must
  BY DEF FSTypeOK, RequestRecords
<1> DEFINE file == [NoFile EXCEPT !.st = "open", !.mem = TRUE, !.compressed = c]
<1>2. file \in FileRecords /\ file.st = "open" /\ file.readers = 0 /\ file.made # "part"
  BY NoFileRecord DEF FileRecords
<1>3. Goes(r, {"insert"}) /\ ff' = [ff EXCEPT ![r] = file]
  BY <1>1, GotoGoes DEF CreateDirIndex, FSPCs
<1> QED BY <1>2, <1>3 DEF Opens

LEMMA OpenFailedWorks ==
    ASSUME FSTypeOK, NEW r \in FSRequests, NEW err, OpenFailed(r, err)
    PROVE  Works(r, {"open", "done"})
<1>1. PICK q \in RequestRecords : q = rq[r]
  BY DEF FSTypeOK
<1>2. CASE CreateDirIndex(r)
  BY <1>2, CreateDirIndexOpens DEF Works
<1>3. CASE ~CreateDirIndex(r)
  <2>1. ff' = ff
    BY <1>3 DEF OpenFailed
  <2>2. ASSUME NEW new \in RequestRecords, new.pc = "open", rq' = [rq EXCEPT ![r] = new]
        PROVE  Goes(r, {"open", "done"})
    BY <2>2 DEF Goes, Compares
  <2>3. CASE Answer(r, 302) \/ Answer(r, 403) \/ Answer(r, 404)
    BY <2>3, AnswerGoes, <2>1 DEF Works, Goes
  <2>4. CASE rq' = [rq EXCEPT ![r].index = TRUE, ![r].pc = "open"]
    <3> DEFINE new == [q EXCEPT !.index = TRUE, !.pc = "open"]
    <3>1. new \in RequestRecords /\ new.pc = "open"
      BY <1>1 DEF RequestRecords, FSPCs, Before
    <3>2. rq' = [rq EXCEPT ![r] = new]
      BY <1>1, <2>4 DEF FSTypeOK
    <3> QED BY <2>1, <2>2, <3>1, <3>2 DEF Works
  <2>5. CASE rq' = [rq EXCEPT ![r].must = FALSE, ![r].pc = "open"]
    <3> DEFINE new == [q EXCEPT !.must = FALSE, !.pc = "open"]
    <3>1. new \in RequestRecords /\ new.pc = "open"
      BY <1>1 DEF RequestRecords, FSPCs, Before
    <3>2. rq' = [rq EXCEPT ![r] = new]
      BY <1>1, <2>5 DEF FSTypeOK
    <3> QED BY <2>1, <2>2, <3>1, <3>2 DEF Works
  <2> QED BY <1>3, <2>3, <2>4, <2>5 DEF OpenFailed
<1> QED BY <1>2, <1>3

LEMMA NewFSFileWorks ==
    ASSUME FSTypeOK, NEW r \in FSRequests, NEW c \in BOOLEAN, NEW made \in Amounts \ {"part"},
           NewFSFile(r, c, made)
    PROVE  Works(r, {"open", "done"})
<1> DEFINE file == [NoFile EXCEPT !.st = "open", !.compressed = c, !.made = made]
<1>1. CASE OpenFailed(r, "error")
  BY <1>1, OpenFailedWorks
<1>2. CASE /\ ff' = [ff EXCEPT ![r] = file]
           /\ rq' = [rq EXCEPT ![r].pc = "insert", ![r].copy = NewRequest.copy]
  <2>1. file \in FileRecords /\ file.st = "open" /\ file.readers = 0 /\ file.made # "part"
    BY NoFileRecord DEF FileRecords
  <2>2. PICK q \in RequestRecords : q = rq[r]
    BY DEF FSTypeOK
  <2>3. PICK copy \in Copies : copy = NewRequest.copy
    BY DEF NewRequest, Copy, Copies, Amounts
  <2> DEFINE new == [q EXCEPT !.pc = "insert", !.copy = copy]
  <2>4. new \in RequestRecords /\ new.pc = "insert"
    BY DEF RequestRecords, FSPCs
  <2>5. rq' = [rq EXCEPT ![r] = new]
    BY <1>2, <2>2, <2>3 DEF FSTypeOK
  <2>6. Goes(r, {"insert"})
    BY <2>4, <2>5 DEF Goes, Compares
  <2> QED BY <1>2, <2>1, <2>6 DEF Works, Opens
<1> QED BY <1>1, <1>2 DEF NewFSFile

\* What such a step does to each request and each file.
LEMMA GoesPointwise ==
    ASSUME FSTypeOK, NEW r \in FSRequests, NEW P, Goes(r, P)
    PROVE  /\ rq' \in [FSRequests -> RequestRecords] /\ rq'[r].pc \in P /\ Compares(rq'[r])
           /\ \A q \in FSRequests : q # r => rq'[q] = rq[q]
BY DEF Goes, FSTypeOK

LEMMA WorksPointwise ==
    ASSUME FSTypeOK, NEW r \in FSRequests, NEW P, Works(r, P)
    PROVE  /\ rq' \in [FSRequests -> RequestRecords] /\ ff' \in [FSRequests -> FileRecords]
           /\ \A q \in FSRequests : q # r => rq'[q] = rq[q] /\ ff'[q] = ff[q]
           /\ Compares(rq'[r])
           /\ \/ rq'[r].pc \in P /\ ff'[r] = ff[r]
              \/ /\ rq'[r].pc = "insert" /\ ff'[r].st = "open" /\ ff'[r].readers = 0
                 /\ ff'[r].made # "part"
<1>1. CASE ff' = ff /\ Goes(r, P)
  BY <1>1, GoesPointwise DEF FSTypeOK
<1>2. CASE Opens(r)
  <2>1. /\ rq' \in [FSRequests -> RequestRecords] /\ rq'[r].pc = "insert" /\ Compares(rq'[r])
        /\ \A q \in FSRequests : q # r => rq'[q] = rq[q]
    BY <1>2, GoesPointwise DEF Opens
  <2>2. PICK file \in FileRecords :
           ff' = [ff EXCEPT ![r] = file] /\ file.st = "open" /\ file.readers = 0 /\ file.made # "part"
    BY <1>2 DEF Opens
  <2>3. ff' \in [FSRequests -> FileRecords] /\ ff'[r] = file
        /\ \A q \in FSRequests : q # r => ff'[q] = ff[q]
    BY <2>2 DEF FSTypeOK
  <2> QED BY <2>1, <2>2, <2>3
<1> QED BY <1>1, <1>2 DEF Works

\* A request that has no file yet disturbs no file that others know of.
LEMMA WorkFiles ==
    ASSUME FSTypeOK, FilesInv, NEW r \in FSRequests, rq[r].pc \in Before,
           Works(r, Before \cup {"done"}), UNCHANGED <<cache, cleaner>>
    PROVE  FilesInv'
<1>1. /\ \A q \in FSRequests : q # r => rq'[q] = rq[q] /\ ff'[q] = ff[q]
      /\ \/ rq'[r].pc \in Before \cup {"done"} /\ ff'[r] = ff[r]
         \/ rq'[r].pc = "insert" /\ ff'[r].st = "open" /\ ff'[r].readers = 0
  BY WorksPointwise
<1>2. r \notin Holders(r) /\ \A f : Holders(f)' = Holders(f)
  <2>1. rq[r].pc \notin Holding /\ rq'[r].pc \notin Holding
    BY <1>1 DEF Before, Holding
  <2> QED BY <1>1, <2>1 DEF Holders
<1>3. Cached' = Cached /\ \A f : Unknown(f)' <=> Unknown(f)
  BY <1>2 DEF Cached, Unknown
<1>4. ff[r].st = "none" /\ Unknown(r) /\ ff[r].readers = Cardinality(Holders(r))
  BY DEF FilesInv, FileInv
<1>5. ff[r].readers = 0 /\ Holders(r) = {}
  BY <1>4, FS_EmptySet DEF Unknown
<1>6. ASSUME NEW f \in FSRequests, f # r PROVE FileInv(f)'
  BY <1>1, <1>2, <1>3, <1>6 DEF FilesInv, FileInv
<1>7. FileInv(r)'
  <2>1. CASE rq'[r].pc \in Before \cup {"done"} /\ ff'[r] = ff[r]
    <3>1. rq'[r].pc \notin Holding /\ rq'[r].pc \notin {"insert", "lost"}
      BY <2>1 DEF Before, Holding
    <3> QED BY <1>2, <1>3, <1>4, <2>1, <3>1 DEF FilesInv, FileInv
  <2>2. CASE rq'[r].pc = "insert" /\ ff'[r].st = "open" /\ ff'[r].readers = 0
    <3>1. rq'[r].pc \notin Holding /\ rq'[r].pc \notin Before
      BY <2>2 DEF Before, Holding
    <3> QED BY <1>2, <1>3, <1>4, <1>5, <2>2, <3>1 DEF FileInv, Unknown
  <2> QED BY <1>1, <2>1, <2>2
<1> QED BY <1>6, <1>7 DEF FilesInv

\* A step of a request that has not the lock, and does not take it, leaves it alone.
LEMMA WorkUnlocked ==
    ASSUME FSInv, NEW r \in FSRequests, rq[r].pc \in Before \ Locked, NEW P,
           P \subseteq (Before \cup {"done"}) \ Locked, Works(r, P),
           UNCHANGED <<cache, cleaner, flock, tmp, orig>>, gz' \in {gz, Nil}
    PROVE  FSInv'
<1>1. /\ rq' \in [FSRequests -> RequestRecords] /\ ff' \in [FSRequests -> FileRecords]
      /\ \A q \in FSRequests : q # r => rq'[q] = rq[q] /\ ff'[q] = ff[q]
      /\ Compares(rq'[r])
      /\ \/ rq'[r].pc \in P /\ ff'[r] = ff[r]
         \/ rq'[r].pc = "insert" /\ ff'[r].made # "part"
  BY WorksPointwise DEF FSInv
<1>2. rq'[r].pc \notin Locked
  BY <1>1 DEF Locked
<1>3. CopyInv'
  <2>1. \A q \in FSRequests : rq'[q].pc \in Locked <=> rq[q].pc \in Locked
    BY <1>1, <1>2
  <2>2. \A q \in FSRequests : rq'[q].pc = "rename" => rq[q].pc = "rename"
    BY <1>1, <1>2 DEF Locked
  <2>3. \A f \in FSRequests : ff'[f].made # "part" /\ Compares(rq'[f])
    BY <1>1 DEF FSInv, CopyInv
  <2> QED BY <2>1, <2>2, <2>3 DEF FSInv, CopyInv, Compares
<1>4. FilesInv'
  <2>1. Works(r, Before \cup {"done"})
    BY DEF Works, Goes
  <2> QED BY <2>1, WorkFiles DEF FSInv
<1> QED BY <1>1, <1>3, <1>4 DEF FSInv, FSTypeOK

\* A step of the request that has the lock, or takes it.
LEMMA WorkLocked ==
    ASSUME FSInv, NEW r \in FSRequests, rq[r].pc \in Before, flock \in {r, Nil},
           NEW P, P \subseteq Before \cup {"done"}, Works(r, P),
           UNCHANGED <<cache, cleaner, orig>>,
           flock' = IF rq'[r].pc \in Locked THEN r ELSE Nil,
           gz' = Nil \/ Finished(gz)', rq'[r].pc = "rename" => Finished(tmp)'
    PROVE  FSInv'
<1>1. /\ rq' \in [FSRequests -> RequestRecords] /\ ff' \in [FSRequests -> FileRecords]
      /\ \A q \in FSRequests : q # r => rq'[q] = rq[q] /\ ff'[q] = ff[q]
      /\ Compares(rq'[r])
      /\ \/ rq'[r].pc \in P /\ ff'[r] = ff[r]
         \/ rq'[r].pc = "insert" /\ ff'[r].made # "part"
  BY WorksPointwise DEF FSInv
<1>2. CopyInv'
  <2>1. \A q \in FSRequests : q # r => rq[q].pc \notin Locked
    BY FSAssumption DEF FSInv, CopyInv
  <2>2. \A q \in FSRequests : q # r => rq'[q].pc \notin Locked /\ rq'[q].pc # "rename"
    BY <1>1, <2>1 DEF Locked
  <2>3. \A f \in FSRequests : ff'[f].made # "part" /\ Compares(rq'[f])
    BY <1>1 DEF FSInv, CopyInv
  <2>4. \A q \in FSRequests : flock' = q <=> rq'[q].pc \in Locked
    BY <2>2, FSAssumption
  <2> QED BY <2>2, <2>3, <2>4 DEF CopyInv, Compares
<1>3. FilesInv'
  <2>1. Works(r, Before \cup {"done"})
    BY DEF Works, Goes
  <2> QED BY <2>1, WorkFiles DEF FSInv
<1> QED BY <1>1, <1>2, <1>3 DEF FSInv, FSTypeOK

LEMMA GotoWorks ==
    ASSUME FSTypeOK, NEW r \in FSRequests, NEW to \in FSPCs \ {"stat"}, Goto(r, to), UNCHANGED ff
    PROVE  Works(r, {to}) /\ rq'[r].pc = to
<1>1. Goes(r, {to})
  BY GotoGoes
<1> QED BY <1>1, GoesPointwise DEF Works

\* openFSFile and compressAndOpenFSFile up to the lock.
LEMMA UnlockedSteps ==
    ASSUME FSInv, NEW r \in FSRequests,
           OpenFSFile(r) \/ StatOriginal(r) \/ RemoveStale(r) \/ CompressAndOpen(r) \/ Reject(r)
    PROVE  FSInv'
<1> DEFINE P == {"open", "stat", "remove", "compress", "lock", "done"}
<1>t. FSTypeOK
  BY DEF FSInv
<1>p. P \subseteq (Before \cup {"done"}) \ Locked /\ P \subseteq FSPCs
  BY DEF Before, Locked, FSPCs
<1>1. ASSUME NEW Q, Q \subseteq P, Works(r, Q) PROVE Works(r, P)
  BY <1>1 DEF Works, Goes
<1>2. ASSUME NEW to \in P \ {"stat"}, Goto(r, to), UNCHANGED ff PROVE Works(r, P)
  BY <1>t, <1>p, <1>2, GotoWorks, <1>1
<1>3. ASSUME NEW err, OpenFailed(r, err) PROVE Works(r, P)
  BY <1>t, <1>3, OpenFailedWorks, <1>1
<1>4. ASSUME NEW c \in BOOLEAN, NEW made \in Amounts \ {"part"}, NewFSFile(r, c, made)
      PROVE  Works(r, P)
  BY <1>t, <1>4, NewFSFileWorks, <1>1
<1>5. ASSUME NEW to \in {"stat", "lock"}, NEW v \in Copies, UNCHANGED ff,
             to = "stat" => v.made # "part", rq' = [rq EXCEPT ![r].pc = to, ![r].copy = v]
      PROVE  Works(r, P)
  <2>1. PICK q \in RequestRecords : q = rq[r]
    BY <1>t DEF FSTypeOK
  <2> DEFINE new == [q EXCEPT !.pc = to, !.copy = v]
  <2>2. new \in RequestRecords /\ new.pc = to /\ Compares(new)
    BY <1>p, <1>5 DEF RequestRecords, Compares
  <2>3. rq' = [rq EXCEPT ![r] = new]
    BY <1>t, <1>5, <2>1 DEF FSTypeOK
  <2> QED BY <1>5, <2>2, <2>3 DEF Works, Goes
<1>6. ASSUME rq[r].pc \in Before \ Locked, Works(r, P),
             UNCHANGED <<cache, cleaner, flock, tmp, orig>>, gz' \in {gz, Nil}
      PROVE  FSInv'
  BY <1>p, <1>6, WorkUnlocked
<1>g. gz # Nil => gz \in Copies /\ gz.made # "part"
  BY DEF FSInv, CopyInv, Finished
<1>o. Copy(orig, "part") \in Copies
  BY <1>t DEF FSTypeOK, Copy, Copies, Amounts
<1>c. /\ rq[r].copy.made \in Amounts
      /\ rq[r].pc = "stat" => rq[r].copy.made # "part"
  BY <1>t DEF FSInv, CopyInv, Compares, FSTypeOK, RequestRecords, Copies
<1>w. "whole" \in Amounts \ {"part"}
  BY DEF Amounts
<1> HIDE DEF P
<1>7. CASE OpenFSFile(r)
  <2>1. Works(r, P)
    BY <1>g, <1>w, <1>2, <1>3, <1>4, <1>5, <1>7 DEF OpenFSFile, P
  <2>2. /\ rq[r].pc = "open" /\ UNCHANGED <<cache, cleaner, flock, tmp, orig, gz>>
    BY <1>7 DEF OpenFSFile, At, disk
  <2> QED BY <1>6, <2>1, <2>2 DEF Before, Locked
<1>8. CASE StatOriginal(r)
  <2>1. Works(r, P)
    BY <1>c, <1>2, <1>3, <1>4, <1>8 DEF StatOriginal, At, P
  <2>2. /\ rq[r].pc = "stat" /\ UNCHANGED <<cache, cleaner, flock, tmp, orig, gz>>
    BY <1>8 DEF StatOriginal, At, disk
  <2> QED BY <1>6, <2>1, <2>2 DEF Before, Locked
<1>9. CASE RemoveStale(r)
  <2>1. Works(r, P)
    BY <1>2, <1>9 DEF RemoveStale, P
  <2>2. /\ rq[r].pc = "remove" /\ UNCHANGED <<cache, cleaner, flock, tmp, orig>> /\ gz' = Nil
    BY <1>9 DEF RemoveStale, At
  <2> QED BY <1>6, <2>1, <2>2 DEF Before, Locked
<1>10. CASE CompressAndOpen(r)
  <2>1. Works(r, P)
    BY <1>o, <1>w, <1>3, <1>4, <1>5, <1>10 DEF CompressAndOpen
  <2>2. /\ rq[r].pc = "compress" /\ UNCHANGED <<cache, cleaner, flock, tmp, orig, gz>>
    BY <1>10 DEF CompressAndOpen, At, disk
  <2> QED BY <1>6, <2>1, <2>2 DEF Before, Locked
<1>11. CASE Reject(r)
  <2>1. Goes(r, {"done"}) /\ UNCHANGED ff
    BY <1>11, AnswerGoes DEF Reject
  <2>2. Works(r, P)
    BY <1>1, <2>1 DEF Works, P
  <2>3. /\ rq[r].pc = "start" /\ UNCHANGED <<cache, cleaner, flock, tmp, orig, gz>>
    BY <1>11 DEF Reject, At, disk
  <2> QED BY <1>6, <2>2, <2>3 DEF Before, Locked
<1> QED BY <1>7, <1>8, <1>9, <1>10, <1>11

\* The compressed file is made under the lock.
LEMMA LockedSteps ==
    ASSUME FSInv, NEW r \in FSRequests,
           LockFile(r) \/ CreateTmp(r) \/ CopyTmp(r) \/ RenameTmp(r) \/ Reopen(r)
    PROVE  FSInv'
<1> DEFINE P == {"open", "done"}
<1>t. FSTypeOK
  BY DEF FSInv
<1>v. rq[r].copy.ver \in Nat
  BY <1>t DEF FSTypeOK, RequestRecords, Copies
<1>g. /\ gz # Nil => Finished(gz)
      /\ rq[r].pc \in Locked => flock = r
      /\ rq[r].pc = "rename" => Finished(tmp)
  BY DEF FSInv, CopyInv
<1>l. {"create", "copy", "rename", "reopen"} \subseteq Locked /\ Locked \subseteq Before
      /\ Before \subseteq FSPCs /\ P \cap Locked = {} /\ "insert" \notin Locked
      /\ P \subseteq Before \cup {"done"} /\ "lock" \in Before /\ "stat" \notin Locked
  BY DEF Locked, Before, FSPCs
<1>1. ASSUME Works(r, P), rq[r].pc \in Locked, flock' = Nil, UNCHANGED <<cache, cleaner, orig, gz>>
      PROVE  FSInv'
  <2>1. rq'[r].pc \notin Locked
    BY <1>t, <1>l, <1>1, WorksPointwise
  <2>2. rq'[r].pc # "rename"
    BY <2>1, <1>l
  <2>3. gz' = Nil \/ Finished(gz)'
    BY <1>g, <1>1 DEF Finished
  <2> HIDE DEF P
  <2> QED BY <1>1, <1>g, <1>l, <2>1, <2>2, <2>3, WorkLocked
<1>2. ASSUME NEW to \in Locked, Goto(r, to), rq[r].pc \in Before, flock \in {r, Nil}, flock' = r,
             UNCHANGED <<cache, cleaner, orig, ff>>, gz' = Nil \/ Finished(gz)',
             to = "rename" => Finished(tmp)'
      PROVE  FSInv'
  <2>1. Works(r, {to}) /\ rq'[r].pc = to
    BY <1>t, <1>l, <1>2, GotoWorks
  <2>2. {to} \subseteq Before \cup {"done"}
    BY <1>l
  <2> QED BY <1>2, <2>1, <2>2, WorkLocked
<1>3. ASSUME NEW err, OpenFailed(r, err) PROVE Works(r, P)
  BY <1>t, <1>3, OpenFailedWorks
<1> HIDE DEF P
<1>4. CASE LockFile(r)
  <2>1. /\ rq[r].pc = "lock" /\ flock = Nil /\ flock' = r /\ Goto(r, "create")
        /\ UNCHANGED <<cache, cleaner, orig, ff, gz>>
    BY <1>4 DEF LockFile, At
  <2>2. gz' = Nil \/ Finished(gz)'
    BY <1>g, <2>1 DEF Finished
  <2> QED BY <1>l, <1>2, <2>1, <2>2
<1>5. CASE CreateTmp(r)
  <2>1. rq[r].pc = "create" /\ UNCHANGED <<conf, orig, gz, cache, cleaner>>
    BY <1>5 DEF CreateTmp, At
  <2>2. gz' = Nil \/ Finished(gz)'
    BY <1>g, <2>1 DEF Finished
  <2>3. CASE Goto(r, "reopen") /\ UNCHANGED <<ff, flock>>
    BY <1>g, <1>l, <1>2, <2>1, <2>2, <2>3
  <2>4. CASE Goto(r, "copy") /\ UNCHANGED <<ff, flock>>
    BY <1>g, <1>l, <1>2, <2>1, <2>2, <2>4
  <2>5. CASE flock' = Nil /\ \E err : OpenFailed(r, err)
    BY <1>l, <1>1, <1>3, <2>1, <2>5
  <2> QED BY <1>5, <2>3, <2>4, <2>5 DEF CreateTmp
<1>6. CASE CopyTmp(r)
  <2>1. rq[r].pc = "copy" /\ UNCHANGED <<conf, orig, gz, cache, cleaner>>
    BY <1>6 DEF CopyTmp, At
  <2>2. gz' = Nil \/ Finished(gz)'
    BY <1>g, <2>1 DEF Finished
  <2>3. CASE /\ \E made \in {"cut", "whole"} : tmp' = Copy(rq[r].copy.ver, made)
             /\ Goto(r, "rename") /\ UNCHANGED <<ff, flock>>
    <3>1. Finished(tmp)'
      BY <1>v, <2>3 DEF Finished, Copies, Copy, Amounts
    <3> QED BY <1>g, <1>l, <1>2, <2>1, <2>2, <2>3, <3>1
  <2>4. CASE flock' = Nil /\ OpenFailed(r, "error")
    BY <1>l, <1>1, <1>3, <2>1, <2>4
  <2> QED BY <1>6, <2>3, <2>4 DEF CopyTmp
<1>7. CASE RenameTmp(r)
  <2>1. rq[r].pc = "rename" /\ UNCHANGED <<conf, orig, cache, cleaner>>
    BY <1>7 DEF RenameTmp, At
  <2>2. CASE /\ gz' = tmp /\ tmp' = Nil
             /\ Goto(r, "reopen") /\ UNCHANGED <<ff, flock>>
    <3>1. Finished(gz)'
      BY <1>g, <2>1, <2>2 DEF Finished
    <3> QED BY <1>g, <1>l, <1>2, <2>1, <2>2, <3>1
  <2>3. CASE flock' = Nil /\ OpenFailed(r, "error") /\ UNCHANGED <<gz, tmp>>
    BY <1>l, <1>1, <1>3, <2>1, <2>3
  <2> QED BY <1>7, <2>2, <2>3 DEF RenameTmp
<1>8. CASE Reopen(r)
  <2>1. rq[r].pc = "reopen" /\ flock' = Nil /\ UNCHANGED <<orig, gz, cache, cleaner>>
    BY <1>8 DEF Reopen, At
  <2>2. CASE gz # Nil /\ NewFSFile(r, TRUE, gz.made)
    <3>1. gz.made \in Amounts \ {"part"}
      BY <1>g, <2>2 DEF Finished, Copies
    <3>2. Works(r, P)
      BY <1>t, <2>2, <3>1, NewFSFileWorks DEF P
    <3> QED BY <1>l, <1>1, <2>1, <3>2
  <2>3. CASE OpenFailed(r, "error")
    BY <1>l, <1>1, <1>3, <2>1, <2>3
  <2> QED BY <1>8, <2>2, <2>3 DEF Reopen
<1> QED BY <1>4, <1>5, <1>6, <1>7, <1>8

-----------------------------------------------------------------------------
LEMMA HoldersFinite ==
    ASSUME NEW f
    PROVE  /\ IsFiniteSet(Holders(f)) /\ Cardinality(Holders(f)) \in Nat
           /\ Cardinality(Holders(f)) = 0 <=> Holders(f) = {}
BY FSAssumption, FS_Subset, FS_CardinalityType, FS_EmptySet DEF Holders

\* Who holds f after a step of r.
LEMMA HoldersStep ==
    ASSUME FSTypeOK, NEW r \in FSRequests, NEW new \in RequestRecords,
           rq' = [rq EXCEPT ![r] = new], NEW f
    PROVE  Holders(f)' = IF new.file = f /\ new.pc \in Holding
                         THEN Holders(f) \cup {r} ELSE Holders(f) \ {r}
<1>1. \A q \in FSRequests : rq'[q] = IF q = r THEN new ELSE rq[q]
  BY DEF FSTypeOK
<1> QED BY <1>1 DEF Holders

\* The disk and the lock are left alone.
LEMMA CopyQuiet ==
    ASSUME FSInv, UNCHANGED disk, NEW r \in FSRequests, rq[r].pc \notin Locked,
           rq'[r].pc \notin Locked \cup {"stat"}, \A q \in FSRequests : q # r => rq'[q] = rq[q],
           \A f \in FSRequests : ff'[f].made # "part"
    PROVE  CopyInv'
<1>1. \A q \in FSRequests : rq'[q].pc \in Locked <=> rq[q].pc \in Locked
  OBVIOUS
<1>2. \A q \in FSRequests : rq'[q].pc = "rename" => rq[q].pc = "rename"
  BY DEF Locked
<1>3. \A q \in FSRequests : Compares(rq'[q])
  BY DEF FSInv, CopyInv, Compares
<1> QED BY <1>1, <1>2, <1>3 DEF FSInv, CopyInv, Compares, disk

\* r finds f in a cache and counts as its reader.
LEMMA JoinStep ==
    ASSUME FSInv, NEW r \in FSRequests, NEW f \in FSRequests, f \in Cached,
           UNCHANGED <<disk, cache, cleaner>>,
           NEW new \in RequestRecords, rq' = [rq EXCEPT ![r] = new], new.file = f,
           ff' = [ff EXCEPT ![f].readers = @ + 1],
           \/ rq[r].pc = "start" /\ new.pc = "have"
           \/ rq[r].pc = "insert" /\ new.pc = "lost"
    PROVE  FSInv'
<1>t. FSTypeOK
  BY DEF FSInv
<1>1. /\ rq' \in [FSRequests -> RequestRecords] /\ rq'[r] = new
      /\ \A q \in FSRequests : q # r => rq'[q] = rq[q]
  BY <1>t DEF FSTypeOK
<1>2. PICK file \in FileRecords : file = ff[f]
  BY <1>t DEF FSTypeOK
<1>3. PICK n \in Int : n = file.readers + 1
  BY DEF FileRecords
<1> DEFINE more == [file EXCEPT !.readers = n]
<1>4. /\ more \in FileRecords /\ more.readers = n /\ more.st = file.st /\ more.idle = file.idle
      /\ more.made = file.made
  BY DEF FileRecords
<1>5. ff' = [ff EXCEPT ![f] = more]
  BY <1>t, <1>2, <1>3 DEF FSTypeOK
<1> HIDE DEF more
<1>6. /\ ff' \in [FSRequests -> FileRecords] /\ ff'[f] = more
      /\ \A q \in FSRequests : q # f => ff'[q] = ff[q]
  BY ONLY <1>t, <1>4, <1>5, f \in FSRequests DEF FSTypeOK
<1>7. rq[r].pc \notin Holding /\ new.pc \in Holding /\ r \notin Holders(f)
      /\ rq[r].pc \notin Locked /\ new.pc \notin Locked /\ new.pc \notin Before
  BY DEF Holding, Holders, Locked, Before
<1>8. r # f /\ Unknown(r)
  <2>1. Unknown(r)
    BY DEF FSInv, FilesInv, FileInv, Before
  <2> QED BY <2>1 DEF Unknown
<1>9. /\ Holders(f)' = Holders(f) \cup {r}
      /\ \A g \in FSRequests : g # f => Holders(g)' = Holders(g)
  <2>1. \A g \in FSRequests : r \notin Holders(g)
    BY <1>7 DEF Holders
  <2>2. \A g : Holders(g)' = IF new.file = g /\ new.pc \in Holding
                             THEN Holders(g) \cup {r} ELSE Holders(g) \ {r}
    BY <1>t, HoldersStep
  <2> QED BY <1>7, <2>1, <2>2
<1>10. Cardinality(Holders(f)') = Cardinality(Holders(f)) + 1
  BY <1>7, <1>9, HoldersFinite, CountOneMore
<1>11. Cached' = Cached
  BY DEF Cached
<1>12. CopyInv'
  <2>1. \A g \in FSRequests : ff'[g].made # "part"
    BY <1>2, <1>4, <1>6 DEF FSInv, CopyInv
  <2> QED BY <1>1, <1>7, <2>1, CopyQuiet
<1>13. FileInv(f)'
  BY <1>1, <1>2, <1>3, <1>4, <1>6, <1>8, <1>9, <1>10, <1>11 DEF FSInv, FilesInv, FileInv, Unknown
<1>14. ASSUME NEW g \in FSRequests, g # f, g # r PROVE FileInv(g)'
  BY <1>1, <1>6, <1>9, <1>11, <1>14 DEF FSInv, FilesInv, FileInv, Unknown
<1>15. FileInv(r)'
  <2>1. ff'[r] = ff[r] /\ Holders(r)' = {} /\ Unknown(r)'
    BY <1>6, <1>8, <1>9, <1>11 DEF Unknown
  <2>2. new.pc = "lost" => ff[r].st = "open"
    BY DEF FSInv, FilesInv, FileInv
  <2>3. FileInv(r) /\ Holders(r) = {} /\ new.pc # "insert"
    BY <1>8 DEF FSInv, FilesInv, Unknown
  <2> QED BY <1>1, <1>7, <1>11, <2>1, <2>2, <2>3 DEF FileInv, Unknown
<1>16. FilesInv'
  BY <1>13, <1>14, <1>15 DEF FilesInv
<1>17. FSTypeOK'
  BY <1>t, <1>1, <1>6 DEF FSTypeOK, disk
<1> QED BY <1>12, <1>16, <1>17 DEF FSInv

\* One field of one file changes.
LEMMA ReadersUpdate ==
    ASSUME FSTypeOK, NEW f \in FSRequests, NEW v \in Int
    PROVE  \E file \in FileRecords :
              /\ file = [ff[f] EXCEPT !.readers = v] /\ file.readers = v
              /\ file.idle = ff[f].idle /\ file.st = ff[f].st /\ file.made = ff[f].made
<1>1. PICK file \in FileRecords : file = ff[f]
  BY DEF FSTypeOK
<1> DEFINE new == [file EXCEPT !.readers = v]
<1>2. /\ new \in FileRecords /\ new.readers = v /\ new.idle = file.idle
      /\ new.st = file.st /\ new.made = file.made
  BY DEF FileRecords
<1>3. new = [ff[f] EXCEPT !.readers = v]
  BY <1>1
<1> HIDE DEF new
<1> QED BY <1>1, <1>2, <1>3

LEMMA IdleUpdate ==
    ASSUME FSTypeOK, NEW f \in FSRequests, NEW v \in Nat
    PROVE  \E file \in FileRecords :
              /\ file = [ff[f] EXCEPT !.idle = v] /\ file.readers = ff[f].readers
              /\ file.idle = v /\ file.st = ff[f].st /\ file.made = ff[f].made
<1>1. PICK file \in FileRecords : file = ff[f]
  BY DEF FSTypeOK
<1> DEFINE new == [file EXCEPT !.idle = v]
<1>2. /\ new \in FileRecords /\ new.readers = file.readers /\ new.idle = v
      /\ new.st = file.st /\ new.made = file.made
  BY DEF FileRecords
<1>3. new = [ff[f] EXCEPT !.idle = v]
  BY <1>1
<1> HIDE DEF new
<1> QED BY <1>1, <1>2, <1>3

LEMMA OldUpdate ==
    ASSUME FSTypeOK, NEW f \in FSRequests, NEW v \in BOOLEAN
    PROVE  \E file \in FileRecords :
              /\ file = [ff[f] EXCEPT !.old = v] /\ file.readers = ff[f].readers
              /\ file.idle = ff[f].idle /\ file.st = ff[f].st /\ file.made = ff[f].made
<1>1. PICK file \in FileRecords : file = ff[f]
  BY DEF FSTypeOK
<1> DEFINE new == [file EXCEPT !.old = v]
<1>2. /\ new \in FileRecords /\ new.readers = file.readers /\ new.idle = file.idle
      /\ new.st = file.st /\ new.made = file.made
  BY DEF FileRecords
<1>3. new = [ff[f] EXCEPT !.old = v]
  BY <1>1
<1> HIDE DEF new
<1> QED BY <1>1, <1>2, <1>3

LEMMA FilePointwise ==
    ASSUME FSTypeOK, NEW f \in FSRequests, NEW file \in FileRecords, ff' = [ff EXCEPT ![f] = file]
    PROVE  /\ ff' \in [FSRequests -> FileRecords] /\ ff'[f] = file
           /\ \A g \in FSRequests : g # f => ff'[g] = ff[g]
BY DEF FSTypeOK

\* The second look into the cache finds nothing: r caches the file it has opened.
LEMMA CacheStep ==
    ASSUME FSInv, NEW r \in FSRequests, rq[r].pc = "insert", NEW e \in Encodings, cache[e] = Nil,
           UNCHANGED <<disk, cleaner>>, cache' = [cache EXCEPT ![e] = r],
           NEW new \in RequestRecords, rq' = [rq EXCEPT ![r] = new], new.file = r,
           new.pc = "have", ff' = [ff EXCEPT ![r].readers = @ + 1]
    PROVE  FSInv'
<1>t. FSTypeOK
  BY DEF FSInv
<1>1. /\ rq' \in [FSRequests -> RequestRecords] /\ rq'[r] = new
      /\ \A q \in FSRequests : q # r => rq'[q] = rq[q]
  BY <1>t DEF FSTypeOK
<1>2. PICK n \in Int : n = ff[r].readers + 1
  BY <1>t DEF FSTypeOK, FileRecords
<1>3. PICK file \in FileRecords :
         /\ file = [ff[r] EXCEPT !.readers = n] /\ file.readers = n /\ file.st = ff[r].st
         /\ file.idle = ff[r].idle /\ file.made = ff[r].made
  BY <1>t, ReadersUpdate
<1>4. ff' = [ff EXCEPT ![r] = file]
  BY <1>t, <1>2, <1>3 DEF FSTypeOK
<1>5. /\ ff' \in [FSRequests -> FileRecords] /\ ff'[r] = file
      /\ \A g \in FSRequests : g # r => ff'[g] = ff[g]
  BY <1>t, <1>4, FilePointwise
<1>6. Unknown(r) /\ ff[r].st = "open" /\ ff[r].readers = 0
  <2>1. Unknown(r) /\ ff[r].st = "open" /\ ff[r].readers = Cardinality(Holders(r))
    BY DEF FSInv, FilesInv, FileInv
  <2> QED BY <2>1, FS_EmptySet DEF Unknown
<1>7. /\ Holders(r)' = {r}
      /\ \A g \in FSRequests : g # r => Holders(g)' = Holders(g)
  <2>1. \A g : Holders(g)' = IF new.file = g /\ new.pc \in Holding
                             THEN Holders(g) \cup {r} ELSE Holders(g) \ {r}
    BY <1>t, HoldersStep
  <2>2. new.pc \in Holding /\ \A g \in FSRequests : r \notin Holders(g)
    BY DEF Holders, Holding
  <2> QED BY <1>6, <2>1, <2>2 DEF Unknown
<1>8. \A g \in FSRequests : g \in Cached' <=> g \in Cached \/ g = r
  BY <1>t, FSAssumption DEF Cached, FSTypeOK
<1>9. CopyInv'
  <2>1. \A g \in FSRequests : ff'[g].made # "part"
    BY <1>3, <1>5 DEF FSInv, CopyInv
  <2>2. rq[r].pc \notin Locked /\ rq'[r].pc \notin Locked \cup {"stat"}
    BY <1>1 DEF Locked, Holding
  <2> QED BY <1>1, <2>1, <2>2, CopyQuiet
<1>10. ASSUME NEW g \in FSRequests, g # r PROVE FileInv(g)'
  BY <1>1, <1>5, <1>7, <1>8, <1>10 DEF FSInv, FilesInv, FileInv, Unknown
<1>11. FileInv(r)'
  <2>1. Cardinality(Holders(r)') = 1
    BY <1>7, FS_Singleton
  <2>2. new.pc \notin Before
    BY DEF Before
  <2> QED BY <1>1, <1>2, <1>3, <1>5, <1>6, <1>7, <1>8, <2>1, <2>2 DEF FileInv, Unknown
<1>12. FSTypeOK'
  BY <1>t, <1>1, <1>5 DEF FSTypeOK, disk
<1>13. FilesInv'
  BY <1>10, <1>11 DEF FilesInv
<1> QED BY <1>9, <1>12, <1>13 DEF FSInv

LEMMA LookupStep == ASSUME FSInv, NEW r \in FSRequests, Lookup(r) PROVE FSInv'
<1>t. FSTypeOK
  BY DEF FSInv
<1>1. PICK e \in Encodings, s \in BOOLEAN :
         /\ rq' = [rq EXCEPT ![r] = [@ EXCEPT !.enc = e, !.must = (e # ""), !.slash = s,
                     !.file = cache[e], !.pc = IF cache[e] = Nil THEN "open" ELSE "have"]]
         /\ ff' = IF cache[e] = Nil THEN ff ELSE [ff EXCEPT ![cache[e]].readers = @ + 1]
  BY DEF Lookup
<1>2. rq[r].pc = "start" /\ UNCHANGED <<disk, cache, cleaner>>
  BY DEF Lookup, At
<1>3. PICK q \in RequestRecords : q = rq[r]
  BY <1>t DEF FSTypeOK
<1>4. PICK hit \in FSRequests \cup {Nil} : hit = cache[e]
  BY <1>t DEF FSTypeOK
<1>5. PICK m \in BOOLEAN : m = (e # "")
  BY DEF Encodings
<1>6. PICK p \in {"open", "have"} : p = IF hit = Nil THEN "open" ELSE "have"
  OBVIOUS
<1> DEFINE new == [q EXCEPT !.enc = e, !.must = m, !.slash = s, !.file = hit, !.pc = p]
<1>7. new \in RequestRecords /\ new.file = hit /\ new.pc = p
  BY DEF RequestRecords, FSPCs, Before, Holding
<1>8. rq' = [rq EXCEPT ![r] = new]
  BY <1>t, <1>1, <1>3, <1>4, <1>5, <1>6 DEF FSTypeOK
<1> HIDE DEF new
<1>9. CASE hit = Nil
  <2>1. Works(r, {"open"})
    BY <1>1, <1>4, <1>6, <1>7, <1>8, <1>9 DEF Works, Goes, Compares
  <2>2. {"open"} \subseteq (Before \cup {"done"}) \ Locked /\ "start" \in Before \ Locked
    BY DEF Before, Locked
  <2> QED BY <1>2, <2>1, <2>2, WorkUnlocked DEF disk
<1>10. CASE hit # Nil
  <2>1. hit \in FSRequests /\ hit \in Cached
    BY <1>4, <1>10 DEF Cached
  <2>2. ff' = [ff EXCEPT ![hit].readers = @ + 1]
    BY <1>1, <1>4, <1>10
  <2> QED BY <1>2, <1>6, <1>7, <1>8, <1>10, <2>1, <2>2, JoinStep
<1> QED BY <1>9, <1>10

LEMMA InsertStep == ASSUME FSInv, NEW r \in FSRequests, Insert(r) PROVE FSInv'
<1>t. FSTypeOK
  BY DEF FSInv
<1>1. PICK q \in RequestRecords : q = rq[r]
  BY <1>t DEF FSTypeOK
<1>2. PICK e \in Encodings : e = rq[r].enc
  BY <1>t DEF FSTypeOK, RequestRecords
<1>3. PICK f \in FSRequests : f = IF cache[e] = Nil THEN r ELSE cache[e]
  BY <1>t DEF FSTypeOK
<1>4. PICK p \in {"have", "lost"} : p = IF f = r THEN "have" ELSE "lost"
  OBVIOUS
<1>5. /\ rq[r].pc = "insert" /\ UNCHANGED <<disk, cleaner>>
      /\ cache' = [cache EXCEPT ![e] = f]
      /\ ff' = [ff EXCEPT ![f].readers = @ + 1]
      /\ rq' = [rq EXCEPT ![r].file = f, ![r].pc = p]
  BY <1>2, <1>3, <1>4 DEF Insert, At
<1> DEFINE new == [q EXCEPT !.file = f, !.pc = p]
<1>6. new \in RequestRecords /\ new.file = f /\ new.pc = p
  BY DEF RequestRecords, FSPCs, Holding
<1>7. rq' = [rq EXCEPT ![r] = new]
  BY <1>t, <1>1, <1>5 DEF FSTypeOK
<1> HIDE DEF new
<1>8. CASE cache[e] = Nil
  <2>1. f = r /\ p = "have"
    BY <1>3, <1>4, <1>8
  <2> QED BY <1>5, <1>6, <1>7, <1>8, <2>1, CacheStep
<1>9. CASE cache[e] # Nil
  <2>1. f \in Cached /\ f = cache[e]
    BY <1>3, <1>9 DEF Cached
  <2>2. cache' = cache
    BY <1>t, <1>5, <2>1 DEF FSTypeOK
  <2>3. f # r
    <3>1. Unknown(r)
      BY <1>5 DEF FSInv, FilesInv, FileInv
    <3> QED BY <2>1, <3>1 DEF Unknown
  <2> QED BY <1>4, <1>5, <1>6, <1>7, <2>1, <2>2, <2>3, JoinStep
<1> QED BY <1>8, <1>9

\* A request that is done with its file is not counted any more.
LEMMA LeaveStep ==
    ASSUME FSInv, NEW r \in FSRequests, rq[r].pc \in {"have", "read", "dec"},
           UNCHANGED <<disk, cache, cleaner>>, DecReaders(r), NEW s \in Nat, Answer(r, s)
    PROVE  FSInv'
<1>t. FSTypeOK
  BY DEF FSInv
<1>f. PICK f \in FSRequests : f = rq[r].file
  BY DEF FSInv, FilesInv, FileInv, Holding
<1>1. PICK new \in RequestRecords : rq' = [rq EXCEPT ![r] = new] /\ new.pc = "done"
  BY AnswerGoes DEF Goes
<1>2. /\ rq' \in [FSRequests -> RequestRecords] /\ rq'[r] = new
      /\ \A q \in FSRequests : q # r => rq'[q] = rq[q]
  BY <1>t, <1>1 DEF FSTypeOK
<1>3. PICK n \in Int : n = ff[f].readers - 1
  BY <1>t DEF FSTypeOK, FileRecords
<1>4. PICK file \in FileRecords :
         /\ file = [ff[f] EXCEPT !.readers = n] /\ file.readers = n /\ file.st = ff[f].st
         /\ file.idle = ff[f].idle /\ file.made = ff[f].made
  BY <1>t, ReadersUpdate
<1>5. ff' = [ff EXCEPT ![f] = file]
  BY <1>t, <1>f, <1>3, <1>4 DEF FSTypeOK, DecReaders
<1>6. /\ ff' \in [FSRequests -> FileRecords] /\ ff'[f] = file
      /\ \A g \in FSRequests : g # f => ff'[g] = ff[g]
  BY <1>t, <1>5, FilePointwise
<1>7. /\ r \in Holders(f) /\ Holders(f)' = Holders(f) \ {r}
      /\ \A g \in FSRequests : g # f => Holders(g)' = Holders(g)
  <2>1. \A g : Holders(g)' = IF new.file = g /\ new.pc \in Holding
                             THEN Holders(g) \cup {r} ELSE Holders(g) \ {r}
    BY <1>t, <1>1, HoldersStep
  <2>2. new.pc \notin Holding /\ rq[r].pc \in Holding
    BY <1>1 DEF Holding
  <2>3. r \in Holders(f) /\ \A g \in FSRequests : g # f => r \notin Holders(g)
    BY <1>f, <2>2 DEF Holders
  <2> QED BY <2>1, <2>2, <2>3
<1>8. Cardinality(Holders(f)') = Cardinality(Holders(f)) - 1
  BY <1>7, HoldersFinite, CountOneLess
<1>9. Cached' = Cached
  BY DEF Cached
<1>10. CopyInv'
  <2>1. \A g \in FSRequests : ff'[g].made # "part"
    BY <1>4, <1>6 DEF FSInv, CopyInv
  <2>2. rq[r].pc \notin Locked /\ rq'[r].pc \notin Locked \cup {"stat"}
    BY <1>1, <1>2 DEF Locked
  <2> QED BY <1>2, <2>1, <2>2, CopyQuiet
<1>11. ASSUME NEW g \in FSRequests, g # f, g # r PROVE FileInv(g)'
  BY <1>2, <1>6, <1>7, <1>9, <1>11 DEF FSInv, FilesInv, FileInv, Unknown
<1>12. new.pc \notin Before /\ new.pc \notin Holding /\ new.pc \notin {"insert", "lost"}
  BY <1>1 DEF Before, Holding
<1>13. ASSUME r # f PROVE FileInv(r)'
  BY <1>2, <1>6, <1>7, <1>9, <1>12, <1>13 DEF FSInv, FilesInv, FileInv, Unknown
<1>14. FileInv(f)'
  <2>1. FileInv(f) /\ Holders(f) # {}
    BY <1>7 DEF FSInv, FilesInv
  <2>2. /\ ff'[f].readers = Cardinality(Holders(f)') /\ ff'[f].st = ff[f].st
        /\ f \in Cached' \cup cleaner'.pending
        /\ ff'[f].idle = ff[f].idle
    BY <1>3, <1>4, <1>6, <1>8, <1>9, <2>1 DEF FileInv
  <2>3. rq[f].pc \notin Before /\ rq[f].pc \notin {"insert", "lost"}
    BY <2>1 DEF FileInv, Unknown
  <2>4. rq'[f] = rq[f] \/ rq'[f] = new
    BY <1>2
  <2> QED BY <1>9, <1>12, <2>1, <2>2, <2>3, <2>4 DEF FileInv
<1>15. FilesInv'
  BY <1>11, <1>13, <1>14 DEF FilesInv
<1>16. FSTypeOK'
  BY <1>t, <1>2, <1>6 DEF FSTypeOK, disk
<1> QED BY <1>10, <1>15, <1>16 DEF FSInv

\* A holder of a file goes on with it; the idle readers of the file may change.
LEMMA ReadingStep ==
    ASSUME FSInv, NEW r \in FSRequests, rq[r].pc \in {"have", "read"},
           NEW to \in {"read", "dec"}, Goto(r, to), UNCHANGED <<disk, cache, cleaner>>,
           \/ UNCHANGED ff
           \/ \E m \in Nat : ff' = [ff EXCEPT ![rq[r].file] = [ff[rq[r].file] EXCEPT !.idle = m]]
    PROVE  FSInv'
<1>t. FSTypeOK
  BY DEF FSInv
<1>f. PICK f \in FSRequests : f = rq[r].file
  BY DEF FSInv, FilesInv, FileInv, Holding
<1>0. PICK q \in RequestRecords : q = rq[r]
  BY <1>t DEF FSTypeOK
<1> DEFINE new == [q EXCEPT !.pc = to]
<1>1. new \in RequestRecords /\ new.pc = to /\ new.file = f
  BY <1>f, <1>0 DEF RequestRecords, FSPCs, Holding
<1>2. rq' = [rq EXCEPT ![r] = new]
  BY <1>t, <1>0 DEF FSTypeOK, Goto
<1> HIDE DEF new
<1>3. /\ rq' \in [FSRequests -> RequestRecords] /\ rq'[r] = new
      /\ \A g \in FSRequests : g # r => rq'[g] = rq[g]
  BY ONLY <1>t, <1>1, <1>2, r \in FSRequests DEF FSTypeOK
<1>4. /\ ff' \in [FSRequests -> FileRecords]
      /\ \A g \in FSRequests : g # f => ff'[g] = ff[g]
      /\ ff'[f].readers = ff[f].readers /\ ff'[f].st = ff[f].st /\ ff'[f].made = ff[f].made
  <2>1. CASE UNCHANGED ff
    BY <1>t, <2>1 DEF FSTypeOK
  <2>2. ASSUME NEW m \in Nat, ff' = [ff EXCEPT ![f] = [ff[f] EXCEPT !.idle = m]]
        PROVE  /\ ff' \in [FSRequests -> FileRecords]
               /\ \A g \in FSRequests : g # f => ff'[g] = ff[g]
               /\ ff'[f].readers = ff[f].readers /\ ff'[f].st = ff[f].st
               /\ ff'[f].made = ff[f].made
    <3>1. PICK file \in FileRecords :
             /\ file = [ff[f] EXCEPT !.idle = m] /\ file.readers = ff[f].readers
             /\ file.st = ff[f].st /\ file.made = ff[f].made
      BY <1>t, IdleUpdate
    <3> QED BY <1>t, <2>2, <3>1, FilePointwise
  <2> QED BY <1>f, <2>1, <2>2
<1>5. /\ r \in Holders(f) /\ \A g : Holders(g)' = Holders(g)
  <2>1. \A g : Holders(g)' = IF new.file = g /\ new.pc \in Holding
                             THEN Holders(g) \cup {r} ELSE Holders(g) \ {r}
    BY <1>t, <1>1, <1>2, HoldersStep
  <2>2. new.pc \in Holding /\ rq[r].pc \in Holding
    BY <1>1 DEF Holding
  <2>3. r \in Holders(f) /\ \A g : g # f => r \notin Holders(g)
    BY <1>f, <2>2 DEF Holders
  <2> QED BY <1>1, <2>1, <2>2, <2>3
<1>6. Cached' = Cached
  BY DEF Cached
<1>7. CopyInv'
  <2>1. \A g \in FSRequests : ff'[g].made # "part"
    BY <1>4 DEF FSInv, CopyInv
  <2>2. rq[r].pc \notin Locked /\ rq'[r].pc \notin Locked \cup {"stat"}
    BY <1>1, <1>3 DEF Locked, Holding
  <2> QED BY <1>3, <2>1, <2>2, CopyQuiet
<1>8. FileInv(f) /\ ff[f].st = "open"
  BY <1>5 DEF FSInv, FilesInv, FileInv
<1>9. new.pc \notin Before /\ new.pc \notin {"insert", "lost"}
  BY <1>1 DEF Before
<1>10. ASSUME NEW g \in FSRequests PROVE FileInv(g)'
  <2>1. FileInv(g) /\ (Unknown(g)' <=> Unknown(g))
    BY <1>5, <1>6 DEF FSInv, FilesInv, Unknown
  <2>2. /\ ff'[g].readers = ff[g].readers /\ ff'[g].st = ff[g].st
        /\ ff'[g].st = "closed" => ff'[g].idle = ff[g].idle
    BY <1>4, <1>8
  <2>3. rq'[g] = rq[g] \/ rq'[g] = new
    BY <1>3
  <2> QED BY <1>1, <1>5, <1>6, <1>9, <2>1, <2>2, <2>3 DEF FileInv
<1>11. FSTypeOK'
  BY <1>t, <1>3, <1>4 DEF FSTypeOK, disk
<1>12. FilesInv'
  BY <1>10 DEF FilesInv
<1> QED BY <1>7, <1>11, <1>12 DEF FSInv

LEMMA ReaderSteps ==
    ASSUME FSInv, NEW r \in FSRequests,
           NotModified(r) \/ NewReader(r) \/ CloseReader(r) \/ CloseDec(r)
    PROVE  FSInv'
<1>t. FSTypeOK
  BY DEF FSInv
<1>0. UNCHANGED <<disk, cache, cleaner>>
  BY DEF NotModified, NewReader, CloseReader, CloseDec
<1>1. ASSUME rq[r].pc \in {"have", "read", "dec"}, DecReaders(r), NEW s \in Nat, Answer(r, s)
      PROVE  FSInv'
  BY <1>0, <1>1, LeaveStep
<1>2. ASSUME rq[r].pc \in {"have", "read"}, NEW to \in {"read", "dec"}, Goto(r, to), UNCHANGED ff
      PROVE  FSInv'
  BY <1>0, <1>2, ReadingStep
<1>3. ASSUME rq[r].pc \in {"have", "read"}, NEW to \in {"read", "dec"}, Goto(r, to), NEW m \in Nat,
             ff' = [ff EXCEPT ![rq[r].file].idle = m]
      PROVE  FSInv'
  <2>1. ff' = [ff EXCEPT ![rq[r].file] = [ff[rq[r].file] EXCEPT !.idle = m]]
    BY <1>3
  <2> QED BY <1>0, <1>3, <2>1, ReadingStep
<1>4. CASE NotModified(r) \/ CloseDec(r)
  BY <1>1, <1>4 DEF NotModified, CloseDec, At
<1>f. ASSUME rq[r].pc \in {"have", "read"} PROVE ff[rq[r].file].idle \in Nat
  <2>1. rq[r].file \in FSRequests
    BY <1>f DEF FSInv, FilesInv, FileInv, Holding
  <2> QED BY <1>t, <2>1 DEF FSTypeOK, FileRecords
<1>5. CASE NewReader(r)
  <2>1. rq[r].pc = "have"
    BY <1>5 DEF NewReader, At
  <2>2. PICK m \in Nat : m = ff[rq[r].file].idle
    BY <1>f, <2>1
  <2>3. CASE DecReaders(r) /\ Answer(r, 500)
    BY <1>1, <2>1, <2>3
  <2>4. CASE Goto(r, "read") /\ UNCHANGED ff
    BY <1>2, <2>1, <2>4
  <2>5. CASE m > 0 /\ ff' = [ff EXCEPT ![rq[r].file].idle = m - 1] /\ Goto(r, "read")
    <3>1. PICK n \in Nat : n = m - 1
      BY <2>5
    <3> QED BY <1>3, <2>1, <2>5, <3>1
  <2> QED BY <1>5, <2>2, <2>3, <2>4, <2>5 DEF NewReader
<1>6. CASE CloseReader(r)
  <2>1. rq[r].pc = "read"
    BY <1>6 DEF CloseReader, At
  <2>2. PICK m \in Nat : m = ff[rq[r].file].idle
    BY <1>f, <2>1
  <2>3. CASE DecReaders(r) /\ Answer(r, 200)
    BY <1>1, <2>1, <2>3
  <2>4. CASE Goto(r, "dec") /\ UNCHANGED ff
    BY <1>2, <2>1, <2>4
  <2>5. CASE ff' = [ff EXCEPT ![rq[r].file].idle = m + 1] /\ Goto(r, "dec")
    <3>1. PICK n \in Nat : n = m + 1
      OBVIOUS
    <3> QED BY <1>3, <2>1, <2>5, <3>1
  <2> QED BY <1>6, <2>2, <2>3, <2>4, <2>5 DEF CloseReader
<1> QED BY <1>4, <1>5, <1>6

\* fsFile.Release
LEMMA ReleaseFile ==
    ASSUME FSTypeOK, NEW f \in FSRequests, Release(f)
    PROVE  /\ ff' \in [FSRequests -> FileRecords]
           /\ ff'[f].st = "closed" /\ ff'[f].idle = 0 /\ ff'[f].readers = ff[f].readers
           /\ ff'[f].made # "part"
           /\ \A g \in FSRequests : g # f => ff'[g] = ff[g]
<1>1. PICK n \in Int : n = ff[f].readers
  BY DEF FSTypeOK, FileRecords
<1>2. PICK new \in FileRecords : new = NoFile
  BY NoFileRecord
<1>3. new.idle = 0 /\ new.made # "part"
  BY <1>2 DEF NoFile
<1> DEFINE file == [new EXCEPT !.st = "closed", !.readers = n]
<1>4. file \in FileRecords /\ file.st = "closed" /\ file.idle = 0 /\ file.readers = n /\ file.made # "part"
  BY <1>3 DEF FileRecords
<1>5. ff' = [ff EXCEPT ![f] = file]
  BY <1>1, <1>2 DEF Release
<1> HIDE DEF file
<1> QED BY <1>1, <1>4, <1>5, FilePointwise

LEMMA ReleaseLostStep == ASSUME FSInv, NEW r \in FSRequests, ReleaseLost(r) PROVE FSInv'
<1>t. FSTypeOK
  BY DEF FSInv
<1>0. rq[r].pc = "lost" /\ Release(r) /\ Goto(r, "have") /\ UNCHANGED <<disk, cache, cleaner>>
  BY DEF ReleaseLost, At
<1>1. /\ ff' \in [FSRequests -> FileRecords]
      /\ ff'[r].st = "closed" /\ ff'[r].idle = 0 /\ ff'[r].readers = ff[r].readers
      /\ ff'[r].made # "part"
      /\ \A g \in FSRequests : g # r => ff'[g] = ff[g]
  BY <1>t, <1>0, ReleaseFile
<1>2. PICK q \in RequestRecords : q = rq[r]
  BY <1>t DEF FSTypeOK
<1> DEFINE new == [q EXCEPT !.pc = "have"]
<1>3. new \in RequestRecords /\ new.pc = "have" /\ new.file = rq[r].file
  BY <1>2 DEF RequestRecords, FSPCs, Holding
<1>4. rq' = [rq EXCEPT ![r] = new]
  BY <1>t, <1>0, <1>2 DEF FSTypeOK, Goto
<1> HIDE DEF new
<1>5. /\ rq' \in [FSRequests -> RequestRecords] /\ rq'[r] = new
      /\ \A g \in FSRequests : g # r => rq'[g] = rq[g]
  BY <1>t, <1>3, <1>4 DEF FSTypeOK
<1>6. \A g : Holders(g)' = Holders(g)
  BY <1>0, <1>3, <1>5 DEF Holders, Holding
<1>7. Cached' = Cached /\ \A g : Unknown(g)' <=> Unknown(g)
  BY <1>0, <1>6 DEF Cached, Unknown
<1>8. FileInv(r) /\ Unknown(r) /\ rq[r].file \in FSRequests
  BY <1>0 DEF FSInv, FilesInv, FileInv, Holding
<1>9. CopyInv'
  <2>1. \A g \in FSRequests : ff'[g].made # "part"
    BY <1>1 DEF FSInv, CopyInv
  <2>2. rq[r].pc \notin Locked /\ rq'[r].pc \notin Locked \cup {"stat"}
    BY <1>0, <1>3, <1>5 DEF Locked
  <2> QED BY <1>0, <1>5, <2>1, <2>2, CopyQuiet
<1>10. ASSUME NEW g \in FSRequests, g # r PROVE FileInv(g)'
  BY <1>0, <1>1, <1>5, <1>6, <1>7, <1>10 DEF FSInv, FilesInv, FileInv
<1>11. FileInv(r)'
  <2>1. new.pc \notin Before /\ new.pc \notin {"insert", "lost"}
    BY <1>3 DEF Before
  <2> QED BY <1>0, <1>1, <1>3, <1>5, <1>6, <1>7, <1>8, <2>1 DEF FileInv, Unknown
<1>12. FSTypeOK'
  BY <1>t, <1>0, <1>1, <1>5 DEF FSTypeOK, disk
<1>13. FilesInv'
  BY <1>10, <1>11 DEF FilesInv
<1> QED BY <1>9, <1>12, <1>13 DEF FSInv

\* cleanCache: what is read stays pending, what is not is to be closed.
LEMMA CleanCacheStep == ASSUME FSInv, CleanCache PROVE FSInv'
<1>t. FSTypeOK
  BY DEF FSInv
<1>0. cleaner.release = {} /\ UNCHANGED <<disk, ff, rq>>
  BY DEF CleanCache
<1>1. PICK fs \in SUBSET FSRequests : fs = cleaner.pending \cup Expired
  BY <1>t DEF FSTypeOK, Expired, Cached
<1>2. /\ cleaner' = [cleaner EXCEPT !.pending = fs \ Unread(fs), !.release = Unread(fs)]
      /\ cache' = [e \in Encodings |-> IF cache[e] \in Expired THEN Nil ELSE cache[e]]
  BY <1>1 DEF CleanCache
<1>3. /\ cleaner' \in [pending : SUBSET FSRequests, release : SUBSET FSRequests,
                       stopped : BOOLEAN]
      /\ cleaner'.pending = fs \ Unread(fs) /\ cleaner'.release = Unread(fs)
  <2>1. Unread(fs) \in SUBSET FSRequests
    BY DEF Unread
  <2> HIDE DEF Unread
  <2> QED BY <1>t, <1>2, <2>1 DEF FSTypeOK
<1>4. \A f \in FSRequests : f \in Cached' <=> f \in Cached /\ f \notin Expired
  BY <1>t, <1>2, FSAssumption DEF FSTypeOK, Cached
<1>5. Expired \subseteq Cached
  BY DEF Expired
<1>6. \A f : Holders(f)' = Holders(f)
  BY <1>0 DEF Holders
<1>7. ASSUME NEW f \in FSRequests PROVE FileInv(f)'
  <2>1. FileInv(f)
    BY DEF FSInv, FilesInv
  <2>2. f \in Unread(fs) <=> f \in fs /\ Holders(f) = {}
    BY <2>1, HoldersFinite DEF Unread, FileInv
  <2>3. Unknown(f) => Unknown(f)'
    BY <1>1, <1>3, <1>4, <1>5, <1>6, <2>2 DEF Unknown
  <2> QED BY <1>0, <1>1, <1>3, <1>4, <1>5, <1>6, <2>1, <2>2, <2>3 DEF FileInv
<1>8. CopyInv'
  BY <1>0 DEF FSInv, CopyInv, disk, Finished
<1>9. FSTypeOK'
  <2>1. cache' \in [Encodings -> FSRequests \cup {Nil}]
    BY <1>t, <1>2 DEF FSTypeOK
  <2> QED BY <1>t, <1>0, <1>3, <2>1 DEF FSTypeOK, disk
<1>10. FilesInv'
  BY <1>7 DEF FilesInv
<1> QED BY <1>8, <1>9, <1>10 DEF FSInv

LEMMA CleanReleaseStep == ASSUME FSInv, NEW f \in FSRequests, CleanRelease(f) PROVE FSInv'
<1>t. FSTypeOK
  BY DEF FSInv
<1>0. f \in cleaner.release /\ Release(f) /\ UNCHANGED <<disk, cache, rq>>
  BY DEF CleanRelease
<1>1. /\ ff' \in [FSRequests -> FileRecords]
      /\ ff'[f].st = "closed" /\ ff'[f].idle = 0 /\ ff'[f].readers = ff[f].readers
      /\ ff'[f].made # "part"
      /\ \A g \in FSRequests : g # f => ff'[g] = ff[g]
  BY <1>t, <1>0, ReleaseFile
<1>2. PICK rest \in SUBSET FSRequests : rest = cleaner.release \ {f}
  BY <1>t DEF FSTypeOK
<1>3. cleaner' = [cleaner EXCEPT !.release = rest]
  BY <1>2 DEF CleanRelease
<1>4. /\ cleaner' \in [pending : SUBSET FSRequests, release : SUBSET FSRequests,
                       stopped : BOOLEAN]
      /\ cleaner'.pending = cleaner.pending /\ cleaner'.release = rest
  BY <1>t, <1>3 DEF FSTypeOK
<1>5. Cached' = Cached /\ \A g : Holders(g)' = Holders(g)
  BY <1>0 DEF Cached, Holders
<1>6. FileInv(f)
  BY DEF FSInv, FilesInv
<1>7. ASSUME NEW g \in FSRequests, g # f PROVE FileInv(g)'
  BY <1>0, <1>1, <1>2, <1>4, <1>5, <1>7 DEF FSInv, FilesInv, FileInv, Unknown
<1>8. FileInv(f)'
  <2>1. f \notin Cached /\ f \notin cleaner.pending /\ ~Unknown(f)
    BY <1>0, <1>6 DEF FileInv, Unknown
  <2> QED BY <1>0, <1>1, <1>2, <1>4, <1>5, <1>6, <2>1 DEF FileInv
<1>9. CopyInv'
  <2>1. \A g \in FSRequests : ff'[g].made # "part"
    BY <1>1 DEF FSInv, CopyInv
  <2> QED BY <1>0, <2>1 DEF FSInv, CopyInv, disk, Finished
<1>10. FSTypeOK'
  BY <1>t, <1>0, <1>1, <1>4 DEF FSTypeOK, disk
<1>11. FilesInv'
  BY <1>7, <1>8 DEF FilesInv
<1> QED BY <1>9, <1>10, <1>11 DEF FSInv

LEMMA ExpireStep == ASSUME FSInv, NEW f \in FSRequests, Expire(f) PROVE FSInv'
<1>t. FSTypeOK
  BY DEF FSInv
<1>0. ff' = [ff EXCEPT ![f].old = TRUE] /\ UNCHANGED <<disk, cache, rq, cleaner>>
  BY DEF Expire
<1>1. PICK file \in FileRecords :
         /\ file = [ff[f] EXCEPT !.old = TRUE] /\ file.readers = ff[f].readers
         /\ file.idle = ff[f].idle /\ file.st = ff[f].st /\ file.made = ff[f].made
  BY <1>t, OldUpdate
<1>2. ff' = [ff EXCEPT ![f] = file]
  BY <1>0, <1>1
<1>3. /\ ff' \in [FSRequests -> FileRecords] /\ ff'[f] = file
      /\ \A g \in FSRequests : g # f => ff'[g] = ff[g]
  BY <1>t, <1>2, FilePointwise
<1>4. \A g \in FSRequests : /\ ff'[g].readers = ff[g].readers /\ ff'[g].idle = ff[g].idle
                            /\ ff'[g].st = ff[g].st /\ ff'[g].made = ff[g].made
  BY <1>1, <1>3
<1>5. Cached' = Cached /\ \A g : Holders(g)' = Holders(g) /\ (Unknown(g)' <=> Unknown(g))
  BY <1>0 DEF Cached, Holders, Unknown
<1>6. FilesInv'
  BY <1>0, <1>4, <1>5 DEF FSInv, FilesInv, FileInv
<1>7. CopyInv'
  BY <1>0, <1>4 DEF FSInv, CopyInv, disk, Finished
<1>8. FSTypeOK'
  BY <1>t, <1>0, <1>3 DEF FSTypeOK, disk
<1> QED BY <1>6, <1>7, <1>8 DEF FSInv

LEMMA StopStep == ASSUME FSInv, CleanStop PROVE FSInv'
<1>t. FSTypeOK
  BY DEF FSInv
<1>0. cleaner' = [cleaner EXCEPT !.stopped = TRUE] /\ UNCHANGED <<disk, cache, ff, rq>>
  BY DEF CleanStop
<1>1. /\ cleaner' \in [pending : SUBSET FSRequests, release : SUBSET FSRequests,
                       stopped : BOOLEAN]
      /\ cleaner'.pending = cleaner.pending /\ cleaner'.release = cleaner.release
  BY <1>t, <1>0 DEF FSTypeOK
<1>2. Cached' = Cached /\ \A g : Holders(g)' = Holders(g) /\ (Unknown(g)' <=> Unknown(g))
  BY <1>0, <1>1 DEF Cached, Holders, Unknown
<1>3. FilesInv'
  BY <1>0, <1>1, <1>2 DEF FSInv, FilesInv, FileInv
<1>4. CopyInv'
  BY <1>0 DEF FSInv, CopyInv, disk, Finished
<1> QED BY <1>t, <1>0, <1>1, <1>3, <1>4 DEF FSInv, FSTypeOK, disk

LEMMA PublishStep == ASSUME FSInv, Publish \/ UNCHANGED fsVars PROVE FSInv'
<1>0. UNCHANGED <<gz, tmp, flock, cache, ff, rq, cleaner>> /\ orig' \in Nat
  BY FSAssumption DEF Publish, fsVars, FSInv, FSTypeOK
<1>1. Cached' = Cached /\ \A g : Holders(g)' = Holders(g) /\ (Unknown(g)' <=> Unknown(g))
  BY <1>0 DEF Cached, Holders, Unknown
<1>2. FilesInv'
  BY <1>0, <1>1 DEF FSInv, FilesInv, FileInv
<1>3. CopyInv'
  BY <1>0 DEF FSInv, CopyInv, Finished
<1> QED BY <1>0, <1>2, <1>3 DEF FSInv, FSTypeOK

LEMMA FSInvInit == FSInit => FSInv
<1> SUFFICES ASSUME FSInit PROVE FSInv
  OBVIOUS
<1>n. NewRequest \in RequestRecords /\ NewRequest.pc = "start"
  BY DEF NewRequest, RequestRecords, FSPCs, Before, Encodings, Copies, Amounts, Copy
<1>1. FSTypeOK
  <2>1. cleaner \in [pending : SUBSET FSRequests, release : SUBSET FSRequests,
                     stopped : BOOLEAN]
    BY DEF FSInit
  <2>2. orig \in Nat /\ cache \in [Encodings -> FSRequests \cup {Nil}]
        /\ ff \in [FSRequests -> FileRecords] /\ rq \in [FSRequests -> RequestRecords]
    BY <1>n, NoFileRecord DEF FSInit
  <2> QED BY <2>1, <2>2 DEF FSTypeOK
<1>2. \A r \in FSRequests : rq[r] = NewRequest /\ ff[r] = NoFile
  BY DEF FSInit
<1>3. CopyInv
  <2>1. gz = Nil \/ Finished(gz)
    <3>1. gz = Nil \/ gz = Copy(1, "whole")
      BY DEF FSInit
    <3>2. Finished(Copy(1, "whole"))
      BY DEF Finished, Copies, Copy, Amounts
    <3> QED BY <3>1, <3>2
  <2>2. \A r \in FSRequests : flock # r /\ rq[r].pc \notin Locked /\ rq[r].pc # "rename"
    BY <1>n, <1>2, FSAssumption DEF FSInit, Locked
  <2> QED BY <1>2, <1>n, <2>1, <2>2, NoFileRecord DEF CopyInv, Compares
<1>4. \A f \in FSRequests : Unknown(f)
  <2>1. Cached = {} /\ cleaner.pending = {} /\ cleaner.release = {}
    BY FSAssumption DEF FSInit, Cached
  <2>2. \A f : Holders(f) = {}
    BY <1>n, <1>2 DEF Holders, Holding
  <2> QED BY <2>1, <2>2 DEF Unknown
<1>5. ASSUME NEW f \in FSRequests PROVE FileInv(f)
  <2>1. NoFile.st = "none" /\ NoFile.readers = 0
    BY DEF NoFile
  <2>2. rq[f].pc = "start" /\ rq[f].pc \notin Holding
    BY <1>n, <1>2 DEF Holding
  <2> QED BY <1>2, <1>4, <2>1, <2>2, FS_EmptySet DEF FileInv, Unknown
<1> QED BY <1>1, <1>3, <1>5 DEF FSInv, FilesInv

LEMMA FSInvStep == FSInv /\ [FSNext]_fsVars => FSInv'
<1> SUFFICES ASSUME FSInv, [FSNext]_fsVars PROVE FSInv'
  OBVIOUS
<1>1. ASSUME NEW r \in FSRequests, Step(r) PROVE FSInv'
  BY <1>1, LookupStep, UnlockedSteps, LockedSteps, InsertStep, ReleaseLostStep, ReaderSteps
     DEF Step
<1>2. ASSUME NEW r \in FSRequests, Reject(r) \/ CleanRelease(r) \/ Expire(r) PROVE FSInv'
  BY <1>2, UnlockedSteps, CleanReleaseStep, ExpireStep
<1> QED BY <1>1, <1>2, CleanCacheStep, StopStep, PublishStep DEF FSNext

\* A file is closed only when no request reads it, no cache has it and the cleaner has
\* forgotten it, and with it every idle reader, however many requests race for it.
THEOREM ReleasedUnusedCorrect == FSSpec => []ReleasedUnused
<1>1. FSInv => ReleasedUnused
  BY DEF FSInv, FilesInv, FileInv, ReleasedUnused
<1> QED BY <1>1, FSInvInit, FSInvStep, PTL DEF FSSpec

\* No request opens or caches a compressed file that somebody still writes, with any
\* number of requests and versions of the original.
THEOREM CompressedFinishedCorrect == FSSpec => []CompressedFinished
<1>1. FSInv => CompressedFinished
  BY DEF FSInv, CopyInv, Finished, CompressedFinished
<1> QED BY <1>1, FSInvInit, FSInvStep, PTL DEF FSSpec

\* readersCount is exact: the number of requests that hold the file.
ReadersCounted == \A f \in FSRequests : ff[f].readers = Cardinality(Holders(f))

\* The count under cacheLock, on which the cleaner relies, is never too small or too
\* large, although requests leave in three different ways.
THEOREM ReadersCountedCorrect == FSSpec => []ReadersCounted
<1>1. FSInv => ReadersCounted
  BY DEF FSInv, FilesInv, FileInv, ReadersCounted
<1> QED BY <1>1, FSInvInit, FSInvStep, PTL DEF FSSpec
=============================================================================
