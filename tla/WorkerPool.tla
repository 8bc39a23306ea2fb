----------------------------- MODULE WorkerPool -----------------------------
(***************************************************************************)
(* workerpool.go: the pool of goroutines that serves the connections       *)
(* Server.Serve accepts.  Its actors are the acceptor (the goroutine of    *)
(* Server.Serve, the only caller of Serve and Stop), one goroutine per     *)
(* live workerChan running workerFunc, and the cleaner goroutine of Start. *)
(* They share wp.lock, wp.ready, wp.workersCount, wp.mustStop and the      *)
(* channels of the workers.                                                *)
(*                                                                         *)
(* A workerChan and the goroutine that reads it are one element of         *)
(* Workers; a worker whose pc is "pooled" is a channel in workerChanPool   *)
(* (sync.Pool may equally allocate a fresh one, which is empty too).       *)
(***************************************************************************)
EXTENDS Integers, Sequences, FiniteSets, PoolSeq

CONSTANTS
    Workers,                \* the workerChans
    Conns,                  \* the connections the listener delivers
    MaxWorkersCount,        \* wp.MaxWorkersCount
    workerChanCap,          \* 0 when GOMAXPROCS = 1, 1 otherwise
    MaxIdleWorkerDuration,  \* wp.MaxIdleWorkerDuration, in clock ticks
    MaxTime,                \* bound: the clock stops there
    Nil,                    \* the nil connection, the request to stop
    Empty                   \* an empty channel, and no connection

ASSUME PoolAssumption ==
    /\ MaxWorkersCount \in Nat
    /\ workerChanCap \in {0, 1}
    /\ MaxIdleWorkerDuration \in Nat
    /\ MaxTime \in Nat
    /\ IsFiniteSet(Workers)
    /\ Nil \notin Conns
    /\ Empty \notin Conns
    /\ Nil # Empty

VARIABLES
    lock,           \* who holds wp.lock across several steps: "free", "stop" or "clean"
    ready,          \* wp.ready, the idle workers, least recently released first
    workersCount,   \* wp.workersCount
    mustStop,       \* wp.mustStop
    pc,             \* where each worker goroutine is
    box,            \* what each worker's channel holds
    cur,            \* the connection each worker serves
    lastUseTime,    \* workerChan.lastUseTime
    apc, ac, aw,    \* the acceptor: its pc, the connection and the worker of Serve
    cpc,            \* the cleaner's pc
    criticalTime, lo, hi, scratch,    \* the cleaner's locals
    conn,           \* what became of each connection
    now             \* the clock

acceptorVars == <<apc, ac, aw>>
cleanerVars == <<cpc, criticalTime, lo, hi, scratch>>
workerVars == <<pc, box, cur, lastUseTime>>
poolVars == <<lock, ready, workersCount, mustStop>>
vars == <<poolVars, workerVars, acceptorVars, cleanerVars, conn, now>>

WorkerPCs == {"pooled", "recv", "serving", "stamp", "release", "exit", "put"}

\* The goroutines that workersCount counts.
LivePCs == {"recv", "serving", "stamp", "release", "exit"}

\* close(wp.stopCh) has happened.
StopChClosed == apc \in {"stopLock", "stopLoop", "stopped"}

Init ==
    /\ lock = "free" /\ ready = <<>> /\ workersCount = 0 /\ mustStop = FALSE
    /\ pc = [w \in Workers |-> "pooled"]
    /\ box = [w \in Workers |-> Empty]
    /\ cur = [w \in Workers |-> Empty]
    /\ lastUseTime = [w \in Workers |-> 0]
    /\ apc = "accept" /\ ac = Empty /\ aw = Empty
    /\ cpc = "clean" /\ criticalTime = 0 /\ lo = 0 /\ hi = -1 /\ scratch = <<>>
    /\ conn = [c \in Conns |-> "new"]
    /\ now = 0

(***************************************************************************)
(* Channels.  A send on a channel of capacity 1 needs room; one on a       *)
(* channel of capacity 0 needs the reader at its receive, and box[w] is    *)
(* then the message handed over.                                           *)
(***************************************************************************)
CanSend(w) == box[w] = Empty /\ (workerChanCap = 1 \/ pc[w] = "recv")

Send(w, m) == CanSend(w) /\ box' = [box EXCEPT ![w] = m]

-----------------------------------------------------------------------------
(* The acceptor: Serve and Stop. *)

\* getCh takes the most recently released worker.
GetReady(c) ==
    /\ apc = "accept" /\ conn[c] = "new" /\ lock = "free"
    /\ ready # <<>>
    /\ aw' = ready[Len(ready)]
    /\ ready' = SubSeq(ready, 1, Len(ready) - 1)
    /\ apc' = "send" /\ ac' = c
    /\ conn' = [conn EXCEPT ![c] = "accepted"]
    /\ UNCHANGED <<lock, workersCount, mustStop, workerVars, cleanerVars, now>>

\* getCh starts a worker: no worker is ready and the limit is not reached.
GetNew(c) ==
    /\ apc = "accept" /\ conn[c] = "new" /\ lock = "free"
    /\ ready = <<>>
    /\ workersCount < MaxWorkersCount
    /\ workersCount' = workersCount + 1
    /\ \E w \in Workers :
          /\ pc[w] = "pooled"
          /\ pc' = [pc EXCEPT ![w] = "recv"]
          /\ aw' = w
    /\ apc' = "send" /\ ac' = c
    /\ conn' = [conn EXCEPT ![c] = "accepted"]
    /\ UNCHANGED <<lock, ready, mustStop, box, cur, lastUseTime, cleanerVars, now>>

\* Serve returns false; its caller answers 503 and closes the connection.
Refuse(c) ==
    /\ apc = "accept" /\ conn[c] = "new" /\ lock = "free"
    /\ ready = <<>>
    /\ workersCount >= MaxWorkersCount
    /\ conn' = [conn EXCEPT ![c] = "refused"]
    /\ UNCHANGED <<poolVars, workerVars, acceptorVars, cleanerVars, now>>

\* Serve: ch.ch <- c
SendConn ==
    /\ apc = "send"
    /\ Send(aw, ac)
    /\ apc' = "accept" /\ ac' = Empty /\ aw' = Empty
    /\ UNCHANGED <<poolVars, pc, cur, lastUseTime, cleanerVars, conn, now>>

\* Stop, up to the lock: the accept loop ended with an error.
StopClose ==
    /\ apc = "accept"
    /\ apc' = "stopLock"
    /\ UNCHANGED <<poolVars, workerVars, ac, aw, cleanerVars, conn, now>>

StopLock ==
    /\ apc = "stopLock" /\ lock = "free"
    /\ apc' = "stopLoop" /\ lock' = "stop"
    /\ UNCHANGED <<ready, workersCount, mustStop, workerVars, ac, aw,
                   cleanerVars, conn, now>>

\* ready[i].ch <- nil, under the lock.
StopSend ==
    /\ apc = "stopLoop" /\ ready # <<>>
    /\ Send(Head(ready), Nil)
    /\ ready' = Tail(ready)
    /\ UNCHANGED <<lock, workersCount, mustStop, pc, cur, lastUseTime,
                   acceptorVars, cleanerVars, conn, now>>

\* Mutant of StopUnlock: mustStop is not set.
StopUnlockForgets ==
    /\ apc = "stopLoop" /\ ready = <<>>
    /\ apc' = "stopped" /\ lock' = "free"
    /\ UNCHANGED <<ready, workersCount, mustStop, workerVars, ac, aw, cleanerVars, conn, now>>

StopUnlock ==
    /\ apc = "stopLoop" /\ ready = <<>>
    /\ apc' = "stopped" /\ lock' = "free" /\ mustStop' = TRUE
    /\ UNCHANGED <<ready, workersCount, workerVars, ac, aw, cleanerVars, conn, now>>

-----------------------------------------------------------------------------
(* A worker: workerFunc and release. *)

\* Mutant of RecvConn: a worker that finds the pool stopped leaves its loop, and the
\* connection it was handed just before.
RecvConnStops(w) ==
    /\ pc[w] = "recv" /\ box[w] \in Conns
    /\ cur' = [cur EXCEPT ![w] = IF mustStop THEN Empty ELSE box[w]]
    /\ box' = [box EXCEPT ![w] = Empty]
    /\ pc' = [pc EXCEPT ![w] = IF mustStop THEN "exit" ELSE "serving"]
    /\ UNCHANGED <<poolVars, lastUseTime, acceptorVars, cleanerVars, conn, now>>

RecvConn(w) ==
    /\ pc[w] = "recv" /\ box[w] \in Conns
    /\ cur' = [cur EXCEPT ![w] = box[w]]
    /\ box' = [box EXCEPT ![w] = Empty]
    /\ pc' = [pc EXCEPT ![w] = "serving"]
    /\ UNCHANGED <<poolVars, lastUseTime, acceptorVars, cleanerVars, conn, now>>

\* Mutant of RecvNil: it returns instead of leaving the loop.
RecvNilReturns(w) ==
    /\ pc[w] = "recv" /\ box[w] = Nil
    /\ box' = [box EXCEPT ![w] = Empty]
    /\ pc' = [pc EXCEPT ![w] = "put"]
    /\ UNCHANGED <<poolVars, cur, lastUseTime, acceptorVars, cleanerVars, conn, now>>

RecvNil(w) ==
    /\ pc[w] = "recv" /\ box[w] = Nil
    /\ box' = [box EXCEPT ![w] = Empty]
    /\ pc' = [pc EXCEPT ![w] = "exit"]
    /\ UNCHANGED <<poolVars, cur, lastUseTime, acceptorVars, cleanerVars, conn, now>>

\* WorkerFunc returns; the connection is closed unless the error is errHijacked,
\* and connState hears of it.
WorkerFunc(w) ==
    /\ pc[w] = "serving"
    /\ \E end \in {"closed", "hijacked"} :
          conn' = [conn EXCEPT ![cur[w]] = end]
    /\ cur' = [cur EXCEPT ![w] = Empty]
    /\ pc' = [pc EXCEPT ![w] = "stamp"]
    /\ UNCHANGED <<poolVars, box, lastUseTime, acceptorVars, cleanerVars, now>>

\* release: ch.lastUseTime = time.Now(), before the lock is taken.
Stamp(w) ==
    /\ pc[w] = "stamp"
    /\ lastUseTime' = [lastUseTime EXCEPT ![w] = now]
    /\ pc' = [pc EXCEPT ![w] = "release"]
    /\ UNCHANGED <<poolVars, box, cur, acceptorVars, cleanerVars, conn, now>>

\* Mutant of Release: the loop ends although the worker was made ready.
ReleaseLeaves(w) ==
    /\ pc[w] = "release" /\ lock = "free"
    /\ \/ /\ mustStop
          /\ pc' = [pc EXCEPT ![w] = "exit"]
          /\ UNCHANGED ready
       \/ /\ ~mustStop
          /\ ready' = Append(ready, w)
          /\ pc' = [pc EXCEPT ![w] = "exit"]
    /\ UNCHANGED <<lock, workersCount, mustStop, box, cur, lastUseTime,
                   acceptorVars, cleanerVars, conn, now>>

Release(w) ==
    /\ pc[w] = "release" /\ lock = "free"
    /\ \/ /\ mustStop
          /\ pc' = [pc EXCEPT ![w] = "exit"]
          /\ UNCHANGED ready
       \/ /\ ~mustStop
          /\ ready' = Append(ready, w)
          /\ pc' = [pc EXCEPT ![w] = "recv"]
    /\ UNCHANGED <<lock, workersCount, mustStop, box, cur, lastUseTime,
                   acceptorVars, cleanerVars, conn, now>>

Exit(w) ==
    /\ pc[w] = "exit" /\ lock = "free"
    /\ workersCount' = workersCount - 1
    /\ pc' = [pc EXCEPT ![w] = "put"]
    /\ UNCHANGED <<lock, ready, mustStop, box, cur, lastUseTime, acceptorVars,
                   cleanerVars, conn, now>>

\* wp.workerChanPool.Put(vch), in the goroutine getCh started.
Put(w) ==
    /\ pc[w] = "put"
    /\ pc' = [pc EXCEPT ![w] = "pooled"]
    /\ UNCHANGED <<poolVars, box, cur, lastUseTime, acceptorVars, cleanerVars,
                   conn, now>>

-----------------------------------------------------------------------------
(* The cleaner: the goroutine of Start, and clean. *)

CleanStart ==
    /\ cpc = "clean"
    /\ criticalTime' = now - MaxIdleWorkerDuration
    /\ cpc' = "lock"
    /\ UNCHANGED <<poolVars, workerVars, acceptorVars, lo, hi, scratch, conn, now>>

CleanLock ==
    /\ cpc = "lock" /\ lock = "free"
    /\ lock' = "clean" /\ cpc' = "search"
    /\ lo' = 0 /\ hi' = Len(ready) - 1
    /\ UNCHANGED <<ready, workersCount, mustStop, workerVars, acceptorVars,
                   criticalTime, scratch, conn, now>>

Expired(i) == lastUseTime[ready[i]] < criticalTime

\* Mutant of CleanSearch: the comparison is the wrong way round.
CleanSearchSwapped ==
    /\ cpc = "search" /\ lo <= hi
    /\ LET mid == (lo + hi) \div 2
       IN \/ ~Expired(mid + 1) /\ lo' = mid + 1 /\ UNCHANGED hi
          \/ Expired(mid + 1) /\ hi' = mid - 1 /\ UNCHANGED lo
    /\ UNCHANGED <<poolVars, workerVars, acceptorVars, cpc, criticalTime, scratch,
                   conn, now>>

\* One round of the binary search.  lo and hi are the 0-based l and r.
CleanSearch ==
    /\ cpc = "search" /\ lo <= hi
    /\ LET mid == (lo + hi) \div 2
       IN \/ Expired(mid + 1) /\ lo' = mid + 1 /\ UNCHANGED hi
          \/ ~Expired(mid + 1) /\ hi' = mid - 1 /\ UNCHANGED lo
    /\ UNCHANGED <<poolVars, workerVars, acceptorVars, cpc, criticalTime, scratch,
                   conn, now>>

\* Mutant of CleanUnlock: the stopped workers stay in ready.
CleanUnlockKeepsReady ==
    /\ cpc = "search" /\ lo > hi
    /\ scratch' = SubSeq(ready, 1, hi + 1)
    /\ UNCHANGED ready
    /\ lock' = "free" /\ cpc' = "notify"
    /\ lo' = 0 /\ hi' = -1
    /\ UNCHANGED <<workersCount, mustStop, workerVars, acceptorVars, criticalTime,
                   conn, now>>

\* The workers ready[:r+1] move to scratch (none when r = -1) and the lock is
\* released.
CleanUnlock ==
    /\ cpc = "search" /\ lo > hi
    /\ scratch' = SubSeq(ready, 1, hi + 1)
    /\ ready' = SubSeq(ready, hi + 2, Len(ready))
    /\ lock' = "free" /\ cpc' = "notify"
    /\ lo' = 0 /\ hi' = -1
    /\ UNCHANGED <<workersCount, mustStop, workerVars, acceptorVars, criticalTime,
                   conn, now>>

\* tmp[i].ch <- nil, outside the lock.
CleanNotify ==
    /\ cpc = "notify" /\ scratch # <<>>
    /\ Send(Head(scratch), Nil)
    /\ scratch' = Tail(scratch)
    /\ UNCHANGED <<poolVars, pc, cur, lastUseTime, acceptorVars, cpc,
                   criticalTime, lo, hi, conn, now>>

\* select: leave when stopCh is closed, sleep otherwise.
CleanSelect ==
    /\ cpc = "notify" /\ scratch = <<>>
    /\ cpc' = IF StopChClosed THEN "done" ELSE "sleep"
    /\ criticalTime' = 0
    /\ UNCHANGED <<poolVars, workerVars, acceptorVars, lo, hi, scratch, conn, now>>

\* time.Sleep returns.  Nothing else depends on how long it took.
CleanWake ==
    /\ cpc = "sleep"
    /\ cpc' = "clean"
    /\ UNCHANGED <<poolVars, workerVars, acceptorVars, criticalTime, lo, hi,
                   scratch, conn, now>>

-----------------------------------------------------------------------------
Tick ==
    /\ now < MaxTime
    /\ now' = now + 1
    /\ UNCHANGED <<poolVars, workerVars, acceptorVars, cleanerVars, conn>>

\* The pool is stopped and all its goroutines have ended.
AllEnded == apc = "stopped" /\ cpc = "done" /\ \A w \in Workers : pc[w] = "pooled"

Terminated == AllEnded /\ UNCHANGED vars

Acceptor ==
    \/ \E c \in Conns : GetReady(c) \/ GetNew(c) \/ Refuse(c)
    \/ SendConn \/ StopClose \/ StopLock \/ StopSend \/ StopUnlock

Worker(w) ==
    \/ RecvConn(w) \/ RecvNil(w) \/ WorkerFunc(w) \/ Stamp(w)
    \/ Release(w) \/ Exit(w) \/ Put(w)

Cleaner ==
    \/ CleanStart \/ CleanLock \/ CleanSearch \/ CleanUnlock
    \/ CleanNotify \/ CleanSelect \/ CleanWake

Next == Acceptor \/ Cleaner \/ Tick \/ Terminated \/ \E w \in Workers : Worker(w)

(***************************************************************************)
(* Every goroutine that can run eventually does.  Strong fairness where a  *)
(* goroutine waits for wp.lock: sync.Mutex hands the lock to a starved     *)
(* waiter.  WorkerFunc is fair: serving a connection ends.  Nothing makes  *)
(* the acceptor accept or stop.                                            *)
(***************************************************************************)
Fairness ==
    /\ WF_vars(SendConn) /\ WF_vars(StopSend) /\ WF_vars(StopUnlock)
    /\ SF_vars(StopLock) /\ SF_vars(CleanLock)
    /\ WF_vars(CleanStart \/ CleanSearch \/ CleanUnlock \/ CleanNotify
               \/ CleanSelect \/ CleanWake)
    /\ \A w \in Workers :
          /\ WF_vars(RecvConn(w) \/ RecvNil(w) \/ WorkerFunc(w) \/ Stamp(w) \/ Put(w))
          /\ SF_vars(Release(w) \/ Exit(w))

Spec == Init /\ [][Next]_vars /\ Fairness
-----------------------------------------------------------------------------
(* Properties. *)

TypeOK ==
    /\ lock \in {"free", "stop", "clean"}
    /\ ready \in Seq(Workers)
    /\ workersCount \in Int
    /\ mustStop \in BOOLEAN
    /\ pc \in [Workers -> WorkerPCs]
    /\ box \in [Workers -> Conns \cup {Nil, Empty}]
    /\ cur \in [Workers -> Conns \cup {Empty}]
    /\ lastUseTime \in [Workers -> Int]
    /\ apc \in {"accept", "send", "stopLock", "stopLoop", "stopped"}
    /\ ac \in Conns \cup {Empty}
    /\ apc = "send" => ac \in Conns /\ aw \in Workers
    /\ cpc \in {"clean", "lock", "search", "notify", "sleep", "done"}
    /\ criticalTime \in Int /\ lo \in Int /\ hi \in Int
    /\ scratch \in Seq(Workers)
    /\ conn \in [Conns -> {"new", "accepted", "refused", "closed", "hijacked"}]
    /\ now \in Int

Live == {w \in Workers : pc[w] \in LivePCs}

\* workersCount is the number of worker goroutines, and never more than
\* MaxWorkersCount: no path through workerFunc, getCh, clean and Stop loses or
\* repeats a decrement.
WorkersCounted ==
    /\ workersCount = Cardinality(Live)
    /\ workersCount <= MaxWorkersCount

\* Where the next message of worker w comes from: w is ready, the acceptor or the
\* cleaner is about to send to it, or the message is in its channel.
SourceNames == {"ready", "acceptor", "cleaner", "box"}

Source(w, src) ==
    \/ src = "ready" /\ InSeq(w, ready)
    \/ src = "acceptor" /\ apc = "send" /\ aw = w
    \/ src = "cleaner" /\ InSeq(w, scratch)
    \/ src = "box" /\ box[w] # Empty

\* A worker at its receive has exactly one source of its next message and any
\* other worker has none.  So no two actors ever send to one worker (a send, the
\* ones of Stop under wp.lock included, never finds the channel full), no worker is
\* forgotten, and a channel that returns to workerChanPool is empty and in no list.
OneSource ==
    /\ Distinct(ready) /\ Distinct(scratch)
    /\ \A w \in Workers :
          IF pc[w] = "recv"
          THEN \E src \in SourceNames :
                  \A s \in SourceNames : Source(w, s) <=> s = src
          ELSE \A s \in SourceNames : ~Source(w, s)

AcceptorHolds(c) == apc = "send" /\ ac = c

Holders(c) == {w \in Workers : box[w] = c \/ cur[w] = c}

\* An accepted connection is with exactly one goroutine until it is closed or
\* hijacked, and with none before and after: it is not lost when its worker is
\* cleaned or the pool is stopped, and it is never served twice.
ConnInOnePlace ==
    \A c \in Conns :
        IF conn[c] = "accepted"
        THEN IF AcceptorHolds(c) THEN Holders(c) = {}
                                 ELSE \E w \in Workers : Holders(c) = {w}
        ELSE ~AcceptorHolds(c) /\ Holders(c) = {}

Sorted(s) == \A i, j \in 1..Len(s) :
                i <= j => lastUseTime[s[i]] <= lastUseTime[s[j]]

\* When ready is in the order of lastUseTime, the binary search of clean ends with
\* exactly the expired workers at ready[:r+1]: it stops no worker used since
\* criticalTime and leaves no older one.
SearchFindsExpired ==
    cpc = "search" /\ lo > hi /\ Sorted(ready) =>
        \A i \in 1..Len(ready) : Expired(i) <=> i <= hi + 1

\* After Stop every worker ends, busy ones included, and so does the cleaner.
StopEndsAll == apc = "stopLock" ~> AllEnded

\* Serve promises the acceptor what ConnService says: what it accepts is served to its
\* end, once, also while the pool is being cleaned or stopped.
Service == INSTANCE ConnService WITH service <- conn, MaxInService <- MaxWorkersCount
ImplementsService == Service!Spec
=============================================================================
