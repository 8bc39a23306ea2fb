--------------------------- MODULE TimeoutHandler ---------------------------
(***************************************************************************)
(* server.go: TimeoutHandler (TimeoutWithCodeHandler) as serveConn calls   *)
(* it, with the RequestCtx objects that connections take from ctxPool, and *)
(* timer.go, whose timer each RequestCtx keeps.  A handler runs in a       *)
(* goroutine of its own that may outlive its request, its connection and   *)
(* the server's Shutdown (ctx.Done and ctx.Err are not in the model).       *)
(*                                                                         *)
(* Serve has been called: it makes s.concurrencyCh, without which every    *)
(* request is answered 429.                                                *)
(*                                                                         *)
(* The runtime's timer fires in two steps: it becomes inactive, then its   *)
(* time is sent to the channel; Stop and Reset may come between them.      *)
(***************************************************************************)
EXTENDS Integers, FiniteSets

CONSTANTS
    Conns,          \* the connections
    Ctxs,           \* the RequestCtx objects
    MaxRequests,    \* bound: requests on a connection
    Concurrency,    \* the capacity of s.concurrencyCh
    None

ASSUME TimeoutAssumption ==
    /\ MaxRequests \in Nat /\ Concurrency \in Nat \ {0}
    /\ IsFiniteSet(Conns)
    /\ None \notin Ctxs \cup (Conns \X (1..MaxRequests))

Requests == Conns \X (1..MaxRequests)

VARIABLES
    pool,               \* s.ctxPool
    pc, ctx, num,       \* each connection: pc, RequestCtx, connRequestNum
    gpc, gctx,          \* the handler goroutine of each request, and its RequestCtx
    sem,                \* how full s.concurrencyCh is
    timeoutCh,          \* ctx.timeoutCh holds a value
    timer,              \* ctx.timeoutTimer is active
    sending, tick,      \* times about to be sent; a time is in the timer's channel
    timedOut,           \* ctx.timeoutResponse # nil
    answer              \* what each request was answered

connVars == <<pc, ctx, num>>
timerVars == <<timer, sending, tick>>
vars == <<pool, connVars, gpc, gctx, sem, timeoutCh, timerVars, timedOut, answer>>

Init ==
    /\ pool = Ctxs
    /\ pc = [c \in Conns |-> "new"] /\ ctx = [c \in Conns |-> None]
    /\ num = [c \in Conns |-> 0]
    /\ gpc = [r \in Requests |-> "off"] /\ gctx = [r \in Requests |-> None]
    /\ sem = 0 /\ timeoutCh = [x \in Ctxs |-> FALSE]
    /\ timer = [x \in Ctxs |-> FALSE]
    /\ sending = [x \in Ctxs |-> 0] /\ tick = [x \in Ctxs |-> FALSE]
    /\ timedOut = [x \in Ctxs |-> FALSE]
    /\ answer = [r \in Requests |-> "none"]

Current(c) == <<c, num[c]>>

\* Bound: every request under way finds a RequestCtx left, should it time out.
CtxLeft ==
    Cardinality({c \in Conns : pc[c] \in {"select", "stopTimer", "respond"}})
        < Cardinality(pool)

\* Mutant of initTimer: the timer is not reset.
initTimerNoReset(x) == UNCHANGED timer

\* A new timer or a reset one; it panics if the timer is active.
initTimer(x) ==
    /\ ~timer[x]
    /\ timer' = [timer EXCEPT ![x] = TRUE]

-----------------------------------------------------------------------------
(* serveConn. *)

Accept(c) ==
    /\ pc[c] = "new" /\ CtxLeft
    /\ \E x \in pool : ctx' = [ctx EXCEPT ![c] = x] /\ pool' = pool \ {x}
    /\ pc' = [pc EXCEPT ![c] = "read"]
    /\ UNCHANGED <<num, gpc, gctx, sem, timeoutCh, timerVars, timedOut, answer>>

\* A request is read and the handler called: it takes a place in concurrencyCh and
\* starts its goroutine and the timer, or answers 429.
Request(c) ==
    /\ pc[c] = "read" /\ num[c] < MaxRequests /\ CtxLeft
    /\ num' = [num EXCEPT ![c] = @ + 1]
    /\ \/ /\ sem < Concurrency
          /\ sem' = sem + 1
          /\ gpc' = [gpc EXCEPT ![<<c, num[c] + 1>>] = "run"]
          /\ gctx' = [gctx EXCEPT ![<<c, num[c] + 1>>] = ctx[c]]
          /\ initTimer(ctx[c])
          /\ pc' = [pc EXCEPT ![c] = "select"]
          /\ UNCHANGED answer
       \/ /\ sem = Concurrency
          /\ answer' = [answer EXCEPT ![<<c, num[c] + 1>>] = "429"]
          /\ pc' = [pc EXCEPT ![c] = "respond"]
          /\ UNCHANGED <<sem, gpc, gctx, timer>>
    /\ UNCHANGED <<pool, ctx, timeoutCh, sending, tick, timedOut>>

\* <-ch
SelectDone(c) ==
    /\ pc[c] = "select" /\ timeoutCh[ctx[c]]
    /\ timeoutCh' = [timeoutCh EXCEPT ![ctx[c]] = FALSE]
    /\ answer' = [answer EXCEPT ![Current(c)] = "ok"]
    /\ pc' = [pc EXCEPT ![c] = "stopTimer"]
    /\ UNCHANGED <<pool, ctx, num, gpc, gctx, sem, timerVars, timedOut>>

\* <-ctx.timeoutTimer.C
SelectTimer(c) ==
    /\ pc[c] = "select" /\ tick[ctx[c]]
    /\ tick' = [tick EXCEPT ![ctx[c]] = FALSE]
    /\ timedOut' = [timedOut EXCEPT ![ctx[c]] = TRUE]
    /\ answer' = [answer EXCEPT ![Current(c)] = "timeout"]
    /\ pc' = [pc EXCEPT ![c] = "stopTimer"]
    /\ UNCHANGED <<pool, ctx, num, gpc, gctx, sem, timeoutCh, timer, sending>>

\* Mutant of StopTimer: the timer is not stopped.
StopTimerNot(c) ==
    /\ pc[c] = "stopTimer"
    /\ UNCHANGED timer
    /\ tick' = [tick EXCEPT ![ctx[c]] = @ /\ timer[ctx[c]]]
    /\ pc' = [pc EXCEPT ![c] = "respond"]
    /\ UNCHANGED <<pool, ctx, num, gpc, gctx, sem, timeoutCh, sending, timedOut,
                   answer>>

\* stopTimer: Stop, and if the timer was not active its channel is emptied.
StopTimer(c) ==
    /\ pc[c] = "stopTimer"
    /\ timer' = [timer EXCEPT ![ctx[c]] = FALSE]
    /\ tick' = [tick EXCEPT ![ctx[c]] = @ /\ timer[ctx[c]]]
    /\ pc' = [pc EXCEPT ![c] = "respond"]
    /\ UNCHANGED <<pool, ctx, num, gpc, gctx, sem, timeoutCh, sending, timedOut,
                   answer>>

\* Mutant of Respond: the RequestCtx is kept after a timeout.
RespondReuses(c) ==
    /\ pc[c] = "respond"
    /\ pc' = [pc EXCEPT ![c] = "read"]
    /\ timedOut' = [timedOut EXCEPT ![ctx[c]] = FALSE]
    /\ UNCHANGED <<ctx, pool, num, gpc, gctx, sem, timeoutCh, timerVars, answer>>

\* The response is written: that of a timed out RequestCtx from a new one, and the old
\* one is left to its handler.
Respond(c) ==
    /\ pc[c] = "respond"
    /\ pc' = [pc EXCEPT ![c] = "read"]
    /\ \/ /\ timedOut[ctx[c]]
          /\ \E x \in pool : ctx' = [ctx EXCEPT ![c] = x] /\ pool' = pool \ {x}
       \/ /\ ~timedOut[ctx[c]]
          /\ UNCHANGED <<ctx, pool>>
    /\ UNCHANGED <<num, gpc, gctx, sem, timeoutCh, timerVars, timedOut, answer>>

\* The connection ends: releaseCtx.
End(c) ==
    /\ pc[c] = "read" /\ ~timedOut[ctx[c]]
    /\ pool' = pool \cup {ctx[c]}
    /\ pc' = [pc EXCEPT ![c] = "done"]
    /\ UNCHANGED <<ctx, num, gpc, gctx, sem, timeoutCh, timerVars, timedOut, answer>>

-----------------------------------------------------------------------------
(* The handler's goroutine. *)

\* h(ctx) returns; ch <- struct{}{}
HandlerDone(r) ==
    /\ gpc[r] = "run" /\ ~timeoutCh[gctx[r]]
    /\ timeoutCh' = [timeoutCh EXCEPT ![gctx[r]] = TRUE]
    /\ gpc' = [gpc EXCEPT ![r] = "sent"]
    /\ UNCHANGED <<pool, connVars, gctx, sem, timerVars, timedOut, answer>>

\* <-concurrencyCh
HandlerLeaves(r) ==
    /\ gpc[r] = "sent" /\ sem > 0
    /\ sem' = sem - 1
    /\ gpc' = [gpc EXCEPT ![r] = "done"]
    /\ UNCHANGED <<pool, connVars, gctx, timeoutCh, timerVars, timedOut, answer>>

-----------------------------------------------------------------------------
(* The runtime's timers. *)

TimerFires(x) ==
    /\ timer[x]
    /\ timer' = [timer EXCEPT ![x] = FALSE]
    /\ sending' = [sending EXCEPT ![x] = @ + 1]
    /\ UNCHANGED <<pool, connVars, gpc, gctx, sem, timeoutCh, tick, timedOut, answer>>

\* The send does not block: the channel has room for one time.
TimerSends(x) ==
    /\ sending[x] > 0
    /\ sending' = [sending EXCEPT ![x] = @ - 1]
    /\ tick' = [tick EXCEPT ![x] = TRUE]
    /\ UNCHANGED <<pool, connVars, gpc, gctx, sem, timeoutCh, timer, timedOut, answer>>

-----------------------------------------------------------------------------
Conn(c) == SelectDone(c) \/ SelectTimer(c) \/ StopTimer(c) \/ Respond(c)

Goroutine(r) == HandlerDone(r) \/ HandlerLeaves(r)

\* All connections ended; handlers may still run.
Quiet == \A c \in Conns : pc[c] \in {"new", "done"}

Next ==
    \/ \E c \in Conns : Accept(c) \/ Request(c) \/ Conn(c) \/ End(c)
    \/ \E r \in Requests : Goroutine(r)
    \/ \E x \in Ctxs : TimerFires(x) \/ TimerSends(x)
    \/ Quiet /\ UNCHANGED vars

\* Timers fire and connections go on; a handler need not return.
Fairness ==
    /\ \A c \in Conns : WF_vars(Conn(c))
    /\ \A x \in Ctxs : WF_vars(TimerFires(x)) /\ WF_vars(TimerSends(x))

Spec == Init /\ [][Next]_vars /\ Fairness

-----------------------------------------------------------------------------
(* Properties. *)

TypeOK ==
    /\ pool \in SUBSET Ctxs
    /\ pc \in [Conns -> {"new", "read", "select", "stopTimer", "respond", "done"}]
    /\ ctx \in [Conns -> Ctxs \cup {None}] /\ num \in [Conns -> 0..MaxRequests]
    /\ gpc \in [Requests -> {"off", "run", "sent", "done"}]
    /\ gctx \in [Requests -> Ctxs \cup {None}]
    /\ sem \in 0..Concurrency
    /\ timeoutCh \in [Ctxs -> BOOLEAN] /\ timer \in [Ctxs -> BOOLEAN]
    /\ sending \in [Ctxs -> Nat] /\ tick \in [Ctxs -> BOOLEAN]
    /\ timedOut \in [Ctxs -> BOOLEAN]
    /\ answer \in [Requests -> {"none", "ok", "429", "timeout"}]

\* The comment in serveConn: a RequestCtx that a timed out handler may still use is
\* neither used for another request nor put back into the pool.  So a request is
\* answered with its handler's response only if that handler has returned: no value
\* that the handler of another request has left in timeoutCh is taken for it.
CtxNotShared ==
    \A r \in Requests :
        /\ gpc[r] = "run" =>
              /\ gctx[r] \notin pool
              /\ \A c \in Conns : pc[c] = "read" => ctx[c] # gctx[r]
              /\ \A q \in Requests \ {r} : gpc[q] = "run" => gctx[q] # gctx[r]
        /\ answer[r] = "ok" => gpc[r] \in {"sent", "done"}

\* initTimer does not panic: no active timer comes back into use.
TimerIdle ==
    \A c \in Conns : pc[c] = "read" => ~timer[ctx[c]]

\* Every request is answered, even if its handler never returns.
EveryAnswered == \A c \in Conns : pc[c] = "select" ~> pc[c] = "read"
=============================================================================
