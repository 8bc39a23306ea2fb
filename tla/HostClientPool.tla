--------------------------- MODULE HostClientPool ---------------------------
(***************************************************************************)
(* client.go: the connections of a HostClient.  Requests acquire a         *)
(* connection (acquireConn), use it and release or close it; a request     *)
(* that finds the limit reached may wait for one in c.connsWait            *)
(* (MaxConnWaitTimeout > 0).  Besides the requests there are the           *)
(* goroutines of dialConnFor, one for each waiter a freed slot is given    *)
(* to, the cleaner (connsCleaner) and a caller of CloseIdleConnections.    *)
(*                                                                         *)
(* Each critical section of c.connsLock is one step, except the one of     *)
(* releaseConn: between w.waiting() and w.tryDeliver the waiter, which     *)
(* needs only w.mu, may give up.                                           *)
(*                                                                         *)
(* How long a connection was idle is left open: the cleaner may find any   *)
(* prefix of c.conns expired, and a waiter may time out at any moment.     *)
(***************************************************************************)
EXTENDS Integers, Sequences, FiniteSets, PoolSeq

CONSTANTS
    Calls,              \* the calls of doNonNilReqResp; each is one attempt
    Conns,              \* the clientConns
    MaxConnsChoices,    \* the values MaxConns is given, by the user or SetMaxConns
    ClosingChoices,     \* the sets of calls that may have req.ConnectionClose()
    None

ASSUME HostClientAssumption ==
    /\ IsFiniteSet(Calls) /\ IsFiniteSet(Conns)
    /\ MaxConnsChoices # {} /\ MaxConnsChoices \subseteq Nat \ {0}
    /\ ClosingChoices \subseteq SUBSET Calls
    /\ None \notin Conns /\ None \notin Calls

VARIABLES
    conns,              \* c.conns, the idle connections
    connsCount,         \* c.connsCount
    maxConns,           \* c.MaxConns
    connsCleanerRun,    \* c.connsCleanerRun
    connsWait,          \* c.connsWait: the calls whose wantConns are queued
    locked,             \* the waiter to whom the holder of connsLock delivers, or None
    wres, wconn,        \* the wantConns: "none" while waiting(), and w.conn
    pc, hold,           \* each actor's pc and the connection it holds
    scratch,            \* the connections the sweepers are about to close
    conf,               \* what does not change: MaxConnWaitTimeout > 0 (wait), and
                        \* req.ConnectionClose() of each call (close)
    err,                \* the error each call returns
    est                 \* the connections that are open on the network

vars == <<conns, connsCount, maxConns, connsCleanerRun, connsWait, locked,
          wres, wconn, pc, hold, scratch, conf, err, est>>

Call(k) == <<"call", k>>
Dialer(k) == <<"dialConnFor", k>>
Cleaner == <<"connsCleaner", None>>
Closer == <<"CloseIdleConnections", None>>

Sweepers == {Cleaner, Closer}
Actors == {Call(k) : k \in Calls} \cup {Dialer(k) : k \in Calls} \cup Sweepers

Unlocked == locked = None

Init ==
    /\ conns = <<>> /\ connsCount = 0 /\ connsCleanerRun = FALSE
    /\ maxConns \in MaxConnsChoices
    /\ connsWait = <<>> /\ locked = None
    /\ wres = [k \in Calls |-> "none"] /\ wconn = [k \in Calls |-> None]
    /\ pc = [a \in Actors |-> "idle"] /\ hold = [a \in Actors |-> None]
    /\ scratch = [a \in Sweepers |-> <<>>]
    /\ conf \in [wait : BOOLEAN, close : [Calls -> BOOLEAN]]
    /\ {k \in Calls : conf.close[k]} \in ClosingChoices
    /\ err = [k \in Calls |-> "none"]
    /\ est = {}

-----------------------------------------------------------------------------
(* acquireConn *)

\* An idle connection is there: the one released last is taken.
AcquireIdle(k) ==
    /\ Unlocked /\ pc[Call(k)] = "idle"
    /\ conns # <<>>
    /\ hold' = [hold EXCEPT ![Call(k)] = conns[Len(conns)]]
    /\ conns' = SubSeq(conns, 1, Len(conns) - 1)
    /\ pc' = [pc EXCEPT ![Call(k)] = "use"]
    /\ UNCHANGED <<connsCount, maxConns, connsCleanerRun, connsWait, locked, wres,
                   wconn, scratch, conf, err, est>>

\* A slot is free: take it, start the cleaner if need be, and dial.
AcquireSlot(k) ==
    /\ Unlocked /\ pc[Call(k)] = "idle"
    /\ conns = <<>> /\ connsCount < maxConns
    /\ connsCount' = connsCount + 1
    /\ \/ /\ ~connsCleanerRun /\ ~conf.close[k]
          /\ connsCleanerRun' = TRUE
          /\ pc' = [pc EXCEPT ![Call(k)] = "dial", ![Cleaner] = "scan"]
       \/ /\ connsCleanerRun \/ conf.close[k]
          /\ pc' = [pc EXCEPT ![Call(k)] = "dial"]
          /\ UNCHANGED connsCleanerRun
    /\ UNCHANGED <<conns, maxConns, connsWait, locked, wres, wconn, hold, scratch,
                   conf, err, est>>

\* Neither: fail, or go on to wait.
AcquireFull(k) ==
    /\ Unlocked /\ pc[Call(k)] = "idle"
    /\ conns = <<>> /\ connsCount >= maxConns
    /\ \/ /\ conf.wait
          /\ pc' = [pc EXCEPT ![Call(k)] = "queue"]
          /\ UNCHANGED err
       \/ /\ ~conf.wait
          /\ pc' = [pc EXCEPT ![Call(k)] = "done"]
          /\ err' = [err EXCEPT ![k] = "ErrNoFreeConns"]
    /\ UNCHANGED <<conns, connsCount, maxConns, connsCleanerRun, connsWait, locked,
                   wres, wconn, hold, scratch, conf, est>>

\* The positions of the wantConns in the queue that still wait, and the first.
Waiting == {i \in 1..Len(connsWait) : wres[connsWait[i]] = "none"}

FirstWaiting(i) == i \in Waiting /\ \A j \in Waiting : i <= j

\* Mutant of After: popFront advances twice.
AfterSkips(i) == SubSeq(connsWait, i + 2, Len(connsWait))

After(i) == SubSeq(connsWait, i + 1, Len(connsWait))

\* queueForIdle: clearFront and pushBack, in a critical section of its own.
QueueForIdle(k) ==
    /\ Unlocked /\ pc[Call(k)] = "queue"
    /\ \/ Waiting = {} /\ connsWait' = <<k>>
       \/ \E i \in Waiting :
             FirstWaiting(i) /\ connsWait' = Append(After(i - 1), k)
    /\ pc' = [pc EXCEPT ![Call(k)] = "wait"]
    /\ UNCHANGED <<conns, connsCount, maxConns, connsCleanerRun, locked, wres, wconn,
                   hold, scratch, conf, err, est>>

\* <-w.ready with a connection.
WaitGotConn(k) ==
    /\ pc[Call(k)] = "wait" /\ wres[k] = "conn"
    /\ hold' = [hold EXCEPT ![Call(k)] = wconn[k]]
    /\ wconn' = [wconn EXCEPT ![k] = None]
    /\ pc' = [pc EXCEPT ![Call(k)] = "use"]
    /\ UNCHANGED <<conns, connsCount, maxConns, connsCleanerRun, connsWait, locked,
                   wres, scratch, conf, err, est>>

\* <-w.ready with the error of a dial.
WaitGotErr(k) ==
    /\ pc[Call(k)] = "wait" /\ wres[k] = "err"
    /\ pc' = [pc EXCEPT ![Call(k)] = "done"]
    /\ err' = [err EXCEPT ![k] = "dial"]
    /\ UNCHANGED <<conns, connsCount, maxConns, connsCleanerRun, connsWait, locked,
                   wres, wconn, hold, scratch, conf, est>>

\* Mutant of WaitTimeout: a call to which nothing was delivered goes on waiting.
WaitTimeoutGoesOn(k) ==
    /\ pc[Call(k)] = "wait" /\ wconn[k] # None
    /\ \E e \in {"ErrNoFreeConns", "ErrTimeout"} : err' = [err EXCEPT ![k] = e]
    /\ wres' = [wres EXCEPT ![k] = "err"]
    /\ hold' = [hold EXCEPT ![Call(k)] = wconn[k]]
    /\ wconn' = [wconn EXCEPT ![k] = None]
    /\ pc' = [pc EXCEPT ![Call(k)] = "release"]
    /\ UNCHANGED <<conns, connsCount, maxConns, connsCleanerRun, connsWait, locked,
                   scratch, conf, est>>

\* <-tc.C, then w.cancel: a connection delivered meanwhile is released.
WaitTimeout(k) ==
    /\ pc[Call(k)] = "wait"
    /\ \E e \in {"ErrNoFreeConns", "ErrTimeout"} : err' = [err EXCEPT ![k] = e]
    /\ wres' = [wres EXCEPT ![k] = "err"]
    /\ \/ /\ wconn[k] # None
          /\ hold' = [hold EXCEPT ![Call(k)] = wconn[k]]
          /\ wconn' = [wconn EXCEPT ![k] = None]
          /\ pc' = [pc EXCEPT ![Call(k)] = "release"]
       \/ /\ wconn[k] = None
          /\ pc' = [pc EXCEPT ![Call(k)] = "done"]
          /\ UNCHANGED <<hold, wconn>>
    /\ UNCHANGED <<conns, connsCount, maxConns, connsCleanerRun, connsWait, locked,
                   scratch, conf, est>>

\* dialHostHard and acquireClientConn.
DialOk(k) ==
    /\ pc[Call(k)] = "dial"
    /\ \E c \in Conns \ est :
          /\ hold' = [hold EXCEPT ![Call(k)] = c]
          /\ est' = est \cup {c}
    /\ pc' = [pc EXCEPT ![Call(k)] = "use"]
    /\ UNCHANGED <<conns, connsCount, maxConns, connsCleanerRun, connsWait, locked,
                   wres, wconn, scratch, conf, err>>

-----------------------------------------------------------------------------
(***************************************************************************)
(* decConnsCount, by actor a, which goes on at next: the slot goes to the  *)
(* first waiter that still waits, for which a connection is dialed, or is  *)
(* given up.                                                               *)
(***************************************************************************)
DecConnsCount(a, next) ==
    /\ Unlocked
    /\ \/ /\ Waiting = {}
          /\ connsCount' = connsCount - 1
          /\ connsWait' = <<>>
          /\ pc' = [pc EXCEPT ![a] = next]
       \/ \E i \in Waiting :
             /\ FirstWaiting(i)
             /\ connsWait' = After(i)
             /\ pc' = [pc EXCEPT ![a] = next, ![Dialer(connsWait[i])] = "dial"]
             /\ UNCHANGED connsCount

DialFail(k) ==
    /\ pc[Call(k)] = "dial"
    /\ DecConnsCount(Call(k), "done")
    /\ err' = [err EXCEPT ![k] = "dial"]
    /\ UNCHANGED <<conns, maxConns, connsCleanerRun, locked, wres, wconn, hold,
                   scratch, conf, est>>

\* Mutant of DialForOk: tryDeliver does not see that the waiter gave up.
DialForOkOverwrites(k) ==
    /\ pc[Dialer(k)] = "dial"
    /\ \E c \in Conns \ est :
          /\ est' = est \cup {c}
          /\ \/ /\ wres[k] \in {"none", "err"}
                /\ wres' = [wres EXCEPT ![k] = "conn"]
                /\ wconn' = [wconn EXCEPT ![k] = c]
                /\ pc' = [pc EXCEPT ![Dialer(k)] = "done"]
                /\ UNCHANGED hold
             \/ /\ wres[k] = "conn"
                /\ hold' = [hold EXCEPT ![Dialer(k)] = c]
                /\ pc' = [pc EXCEPT ![Dialer(k)] = "release"]
                /\ UNCHANGED <<wres, wconn>>
    /\ UNCHANGED <<conns, connsCount, maxConns, connsCleanerRun, connsWait, locked,
                   scratch, conf, err>>

\* dialConnFor: the connection is delivered unless the waiter gave up.
DialForOk(k) ==
    /\ pc[Dialer(k)] = "dial"
    /\ \E c \in Conns \ est :
          /\ est' = est \cup {c}
          /\ \/ /\ wres[k] = "none"
                /\ wres' = [wres EXCEPT ![k] = "conn"]
                /\ wconn' = [wconn EXCEPT ![k] = c]
                /\ pc' = [pc EXCEPT ![Dialer(k)] = "done"]
                /\ UNCHANGED hold
             \/ /\ wres[k] # "none"
                /\ hold' = [hold EXCEPT ![Dialer(k)] = c]
                /\ pc' = [pc EXCEPT ![Dialer(k)] = "release"]
                /\ UNCHANGED <<wres, wconn>>
    /\ UNCHANGED <<conns, connsCount, maxConns, connsCleanerRun, connsWait, locked,
                   scratch, conf, err>>

DialForFail(k) ==
    /\ pc[Dialer(k)] = "dial"
    /\ wres' = [wres EXCEPT ![k] = IF wres[k] = "none" THEN "err" ELSE wres[k]]
    /\ pc' = [pc EXCEPT ![Dialer(k)] = "dec"]
    /\ UNCHANGED <<conns, connsCount, maxConns, connsCleanerRun, connsWait, locked,
                   wconn, hold, scratch, conf, err, est>>

\* Mutant of DialForDec: a failed dial keeps its slot.
DialForDecForgets(k) ==
    /\ pc[Dialer(k)] = "dec"
    /\ pc' = [pc EXCEPT ![Dialer(k)] = "done"]
    /\ UNCHANGED <<conns, connsCount, connsWait, maxConns, connsCleanerRun, locked, wres,
                   wconn, hold,
                   scratch, conf, err, est>>

DialForDec(k) ==
    /\ pc[Dialer(k)] = "dec"
    /\ DecConnsCount(Dialer(k), "done")
    /\ UNCHANGED <<conns, maxConns, connsCleanerRun, locked, wres, wconn, hold,
                   scratch, conf, err, est>>

-----------------------------------------------------------------------------
(* The end of a request: releaseConn or closeConn. *)

\* The exchange with the server is over, well or not.
Finish(k) ==
    /\ pc[Call(k)] = "use"
    /\ \E next \in {"release", "close"} :
          /\ conf.close[k] => next = "close"
          /\ pc' = [pc EXCEPT ![Call(k)] = next]
    /\ UNCHANGED <<conns, connsCount, maxConns, connsCleanerRun, connsWait, locked,
                   wres, wconn, hold, scratch, conf, err, est>>

\* releaseConn finds no waiter.
ReleaseIdle(a) ==
    /\ Unlocked /\ pc[a] = "release"
    /\ Waiting = {}
    /\ conns' = Append(conns, hold[a])
    /\ connsWait' = <<>>
    /\ hold' = [hold EXCEPT ![a] = None]
    /\ pc' = [pc EXCEPT ![a] = "done"]
    /\ UNCHANGED <<connsCount, maxConns, connsCleanerRun, locked, wres, wconn,
                   scratch, conf, err, est>>

\* releaseConn finds a waiter for which w.waiting() holds; the lock stays taken.
ReleaseFound(a) ==
    /\ Unlocked /\ pc[a] = "release"
    /\ \E i \in Waiting :
          /\ FirstWaiting(i)
          /\ locked' = connsWait[i]
          /\ connsWait' = After(i)
    /\ pc' = [pc EXCEPT ![a] = "deliver"]
    /\ UNCHANGED <<conns, connsCount, maxConns, connsCleanerRun, wres, wconn, hold,
                   scratch, conf, err, est>>

\* w.tryDeliver; the loop ends whether it succeeds or not.
TryDeliver(a) ==
    /\ pc[a] = "deliver"
    /\ \/ /\ wres[locked] = "none"
          /\ wres' = [wres EXCEPT ![locked] = "conn"]
          /\ wconn' = [wconn EXCEPT ![locked] = hold[a]]
          /\ UNCHANGED conns
       \/ /\ wres[locked] # "none"
          /\ conns' = Append(conns, hold[a])
          /\ UNCHANGED <<wres, wconn>>
    /\ locked' = None
    /\ hold' = [hold EXCEPT ![a] = None]
    /\ pc' = [pc EXCEPT ![a] = "done"]
    /\ UNCHANGED <<connsCount, maxConns, connsCleanerRun, connsWait, scratch,
                   conf, err, est>>

\* closeConn: decConnsCount first,
CloseDec(a) ==
    /\ pc[a] = "close"
    /\ DecConnsCount(a, "closeNet")
    /\ UNCHANGED <<conns, maxConns, connsCleanerRun, locked, wres, wconn, hold,
                   scratch, conf, err, est>>

\* then cc.c.Close() and releaseClientConn.
CloseNet(a) ==
    /\ pc[a] = "closeNet"
    /\ est' = est \ {hold[a]}
    /\ hold' = [hold EXCEPT ![a] = None]
    /\ pc' = [pc EXCEPT ![a] = IF a \in Sweepers THEN "sweep" ELSE "done"]
    /\ UNCHANGED <<conns, connsCount, maxConns, connsCleanerRun, connsWait, locked,
                   wres, wconn, scratch, conf, err>>

-----------------------------------------------------------------------------
(* connsCleaner, CloseIdleConnections and SetMaxConns. *)

\* The first i idle connections expired.
CleanScan ==
    /\ Unlocked /\ pc[Cleaner] = "scan"
    /\ \E i \in 0..Len(conns) :
          /\ scratch' = [scratch EXCEPT ![Cleaner] = SubSeq(conns, 1, i)]
          /\ conns' = SubSeq(conns, i + 1, Len(conns))
    /\ pc' = [pc EXCEPT ![Cleaner] = "sweep"]
    /\ UNCHANGED <<connsCount, maxConns, connsCleanerRun, connsWait, locked, wres,
                   wconn, hold, conf, err, est>>

\* The next connection a sweeper closes.
SweepNext(a) ==
    /\ pc[a] = "sweep" /\ scratch[a] # <<>>
    /\ hold' = [hold EXCEPT ![a] = Head(scratch[a])]
    /\ scratch' = [scratch EXCEPT ![a] = Tail(scratch[a])]
    /\ pc' = [pc EXCEPT ![a] = "close"]
    /\ UNCHANGED <<conns, connsCount, maxConns, connsCleanerRun, connsWait, locked,
                   wres, wconn, conf, err, est>>

\* The cleaner stops when there is no connection, and sleeps and scans otherwise.
CleanCheck ==
    /\ Unlocked /\ pc[Cleaner] = "sweep" /\ scratch[Cleaner] = <<>>
    /\ \/ /\ connsCount = 0
          /\ connsCleanerRun' = FALSE
          /\ pc' = [pc EXCEPT ![Cleaner] = "idle"]
       \/ /\ connsCount # 0
          /\ pc' = [pc EXCEPT ![Cleaner] = "scan"]
          /\ UNCHANGED connsCleanerRun
    /\ UNCHANGED <<conns, connsCount, maxConns, connsWait, locked, wres, wconn, hold,
                   scratch, conf, err, est>>

CloseIdleStart ==
    /\ Unlocked /\ pc[Closer] = "idle" /\ conns # <<>>
    /\ scratch' = [scratch EXCEPT ![Closer] = conns]
    /\ conns' = <<>>
    /\ pc' = [pc EXCEPT ![Closer] = "sweep"]
    /\ UNCHANGED <<connsCount, maxConns, connsCleanerRun, connsWait, locked, wres,
                   wconn, hold, conf, err, est>>

CloseIdleEnd ==
    /\ pc[Closer] = "sweep" /\ scratch[Closer] = <<>>
    /\ pc' = [pc EXCEPT ![Closer] = "idle"]
    /\ UNCHANGED <<conns, connsCount, maxConns, connsCleanerRun, connsWait, locked,
                   wres, wconn, hold, scratch, conf, err, est>>

SetMaxConns(m) ==
    /\ Unlocked
    /\ maxConns' = m
    /\ UNCHANGED <<conns, connsCount, connsCleanerRun, connsWait, locked, wres,
                   wconn, pc, hold, scratch, conf, err, est>>

-----------------------------------------------------------------------------
Request(k) ==
    \/ AcquireIdle(k) \/ AcquireSlot(k) \/ AcquireFull(k) \/ QueueForIdle(k)
    \/ WaitGotConn(k) \/ WaitGotErr(k) \/ WaitTimeout(k)
    \/ DialOk(k) \/ DialFail(k) \/ Finish(k)

DialConnFor(k) == DialForOk(k) \/ DialForFail(k) \/ DialForDec(k)

Dispose(a) ==
    ReleaseIdle(a) \/ ReleaseFound(a) \/ TryDeliver(a) \/ CloseDec(a) \/ CloseNet(a)

Sweep == CleanScan \/ CleanCheck \/ CloseIdleStart \/ CloseIdleEnd
         \/ \E a \in Sweepers : SweepNext(a)

Next ==
    \/ \E k \in Calls : Request(k) \/ DialConnFor(k)
    \/ \E a \in Actors : Dispose(a)
    \/ Sweep
    \/ \E m \in MaxConnsChoices : SetMaxConns(m)

(***************************************************************************)
(* Every goroutine that can run does.  Weak fairness is enough for the     *)
(* critical sections too: connsLock is held across steps only once per     *)
(* release.  A dial ends one way or the other, an exchange with the server *)
(* ends, a timer fires.  CloseIdleConnections and SetMaxConns need not be  *)
(* called.                                                                 *)
(***************************************************************************)
Fairness ==
    /\ \A k \in Calls : WF_vars(Request(k)) /\ WF_vars(DialConnFor(k))
    /\ \A a \in Actors : WF_vars(Dispose(a))
    /\ \A a \in Sweepers : WF_vars(SweepNext(a))
    /\ WF_vars(CleanScan \/ CleanCheck) /\ WF_vars(CloseIdleEnd)

Spec == Init /\ [][Next]_vars /\ Fairness
-----------------------------------------------------------------------------
(* Properties. *)

TypeOK ==
    /\ conns \in Seq(Conns)
    /\ connsCount \in Int
    /\ maxConns \in MaxConnsChoices
    /\ connsCleanerRun \in BOOLEAN
    /\ connsWait \in Seq(Calls)
    /\ locked \in Calls \cup {None}
    /\ wres \in [Calls -> {"none", "conn", "err"}]
    /\ wconn \in [Calls -> Conns \cup {None}]
    /\ pc \in [Actors -> {"idle", "dial", "queue", "wait", "use", "release", "deliver",
                          "close", "closeNet", "dec", "scan", "sweep", "done"}]
    /\ hold \in [Actors -> Conns \cup {None}]
    /\ scratch \in [Sweepers -> Seq(Conns)]
    /\ conf \in [wait : BOOLEAN, close : [Calls -> BOOLEAN]]
    /\ err \in [Calls -> {"none", "dial", "ErrNoFreeConns", "ErrTimeout"}]
    /\ est \in SUBSET Conns

HoldingPCs == {"use", "release", "deliver", "close", "closeNet"}

SweepingPCs == {"sweep", "close", "closeNet"}

\* The places a connection can be: the idle list, an actor's hands, a wantConn, a
\* sweeper's list.  An actor that has ended, or a call that no longer waits, keeps
\* none: a connection left there would be lost.
Places ==
    {<<"idle", None>>} \cup {<<"hold", a>> : a \in Actors}
    \cup {<<"want", k>> : k \in Calls} \cup {<<"scratch", a>> : a \in Sweepers}

Has(p, c) ==
    \/ p[1] = "idle" /\ InSeq(c, conns)
    \/ p[1] = "hold" /\ hold[p[2]] = c /\ pc[p[2]] \in HoldingPCs
    \/ p[1] = "want" /\ wconn[p[2]] = c /\ pc[Call(p[2])] = "wait"
    \/ p[1] = "scratch" /\ InSeq(c, scratch[p[2]]) /\ pc[p[2]] \in SweepingPCs

\* Every open connection is in exactly one place, a closed one in none: no two
\* requests share a connection, none is dropped when its waiter times out while it is
\* being delivered, and the cleaner closes none that a request has.
OneOwner ==
    /\ Distinct(conns) /\ \A a \in Sweepers : Distinct(scratch[a])
    /\ \A c \in Conns :
          IF c \in est
          THEN \E p \in Places : \A q \in Places : Has(q, c) <=> q = p
          ELSE \A q \in Places : ~Has(q, c)

\* The open connections whose slot has been given up or passed on.
Leaving == {c \in est : \E a \in Actors : pc[a] = "closeNet" /\ hold[a] = c}

DialingCalls == {k \in Calls : pc[Call(k)] = "dial"}

DialingFor == {k \in Calls : pc[Dialer(k)] \in {"dial", "dec"}}

\* connsCount is the number of connections that are open or being dialed, those that
\* closeConn has already counted out excepted: no error path, timeout or hand-over of
\* a slot to a waiter loses a slot or frees it twice.
SlotsCounted ==
    connsCount = Cardinality(est \ Leaving) + Cardinality(DialingCalls)
                 + Cardinality(DialingFor)

\* A call that waits for an answer has someone to give it: it is queued, a connection
\* is being delivered to it, or one is being dialed for it.
WaiterKnown ==
    \A k \in Calls :
        pc[Call(k)] = "wait" /\ wres[k] = "none" =>
            InSeq(k, connsWait) \/ locked = k \/ pc[Dialer(k)] = "dial"

\* Every call returns: none waits forever for a connection or for the lock.
CallsReturn ==
    \A k \in Calls : pc[Call(k)] # "idle" ~> pc[Call(k)] = "done"
=============================================================================
