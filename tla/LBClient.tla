------------------------------ MODULE LBClient ------------------------------
(***************************************************************************)
(* lbclient.go over client.go: an LBClient gives each call to the client   *)
(* with the least load, HostClient.DoDeadline (module ClientDeadline) runs *)
(* it in a goroutine, and the goroutine runs HostClient.Do, which retries. *)
(* The load of a client is its pending requests and its penalty: a failed  *)
(* call adds one, and a timer takes it away again.                         *)
(***************************************************************************)
EXTENDS ClientDeadline

CONSTANTS
    NClients,       \* len(cc.Clients)
    MaxPenalty,     \* maxPenalty
    MaxAttempts,    \* MaxIdemponentCallAttempts
    Requests,       \* what kinds of requests the calls make
    HealthCheck     \* whether cc.HealthCheck is set; it may say anything

ASSUME LBAssumption ==
    /\ NClients \in Nat \ {0} /\ MaxPenalty \in Nat /\ MaxAttempts \in Nat \ {0}
    /\ HealthCheck \in BOOLEAN
    /\ Requests \subseteq [retryable : BOOLEAN, stream : BOOLEAN]

Clients == 1..NClients

VARIABLES
    lpc,                    \* each call's pc in LBClient and lbClient
    min,                    \* get's minC, minN, minT, and the next client to look at
    penalty, total,         \* of each lbClient
    timers,                 \* its pending AfterFuncs
    pending,                \* pendingRequests of each HostClient
    do                      \* HostClient.Do of each call: where it is ("off", "try",
                            \* or what it returned), its request and its attempts

lbVars == <<lpc, min, penalty, total, timers>>
doVars == <<pending, do>>
lbAllVars == <<vars, lbVars, doVars>>

\* Do, not running, in state st.
DoAt(st) == [st |-> st, req |-> None, attempts |-> 0]

LBInit ==
    /\ Init
    /\ lpc = [k \in Calls |-> "get"]
    /\ min = [k \in Calls |-> [c |-> 0, n |-> 0, t |-> 0, next |-> 1]]
    /\ penalty = [c \in Clients |-> 0] /\ total = [c \in Clients |-> 0]
    /\ timers = [c \in Clients |-> 0] /\ pending = [c \in Clients |-> 0]
    /\ do = [k \in Calls |-> DoAt("off")]

-----------------------------------------------------------------------------
(* LBClient.get and lbClient.DoDeadline. *)

\* lbClient.PendingRequests
Load(c) == pending[c] + penalty[c]

\* get looks at one client: the first, or one that may have less load.  The loads of
\* the others may have changed since it looked at them.
Get(k) ==
    LET c == min[k].next
        less == \/ c = 1 \/ Load(c) < min[k].n
                \/ Load(c) = min[k].n /\ total[c] < min[k].t
    IN  /\ lpc[k] = "get" /\ c \in Clients
        /\ min' = [min EXCEPT ![k] =
              IF less THEN [c |-> c, n |-> Load(c), t |-> total[c], next |-> c + 1]
                      ELSE [@ EXCEPT !.next = c + 1]]
        /\ lpc' = [lpc EXCEPT ![k] = IF c = NClients THEN "call" ELSE "get"]
        /\ UNCHANGED <<vars, penalty, total, timers, doVars>>

\* c.c.DoDeadline
Call(k) ==
    /\ lpc[k] = "call"
    /\ Caller(k)
    /\ UNCHANGED <<lbVars, doVars>>

\* Whether the call was healthy: what HealthCheck says, or err == nil by default.
isHealthy(k, ok) == HealthCheck \/ ok = (result[k] = k /\ do[k].st = "nil")

Healthy(k) ==
    /\ lpc[k] = "call" /\ pc[k] = "done" /\ isHealthy(k, TRUE)
    /\ total' = [total EXCEPT ![min[k].c] = @ + 1]
    /\ lpc' = [lpc EXCEPT ![k] = "done"]
    /\ UNCHANGED <<vars, min, penalty, timers, doVars>>

\* incPenalty adds first
incPenalty(k) ==
    /\ lpc[k] = "call" /\ pc[k] = "done" /\ isHealthy(k, FALSE)
    /\ penalty' = [penalty EXCEPT ![min[k].c] = @ + 1]
    /\ lpc' = [lpc EXCEPT ![k] =
          IF penalty'[min[k].c] > MaxPenalty THEN "over" ELSE "timer"]
    /\ UNCHANGED <<vars, min, total, timers, doVars>>

\* Mutant of TooMany: the penalty over the maximum is kept.
TooManyKeeps(k) ==
    /\ lpc[k] = "over"
    /\ total' = [total EXCEPT ![min[k].c] = @ + 1]
    /\ lpc' = [lpc EXCEPT ![k] = "done"]
    /\ UNCHANGED <<vars, min, penalty, timers, doVars>>

\* and takes the penalty back if there are too many; the call then counts as handled.
TooMany(k) ==
    /\ lpc[k] = "over"
    /\ penalty' = [penalty EXCEPT ![min[k].c] = @ - 1]
    /\ total' = [total EXCEPT ![min[k].c] = @ + 1]
    /\ lpc' = [lpc EXCEPT ![k] = "done"]
    /\ UNCHANGED <<vars, min, timers, doVars>>

\* time.AfterFunc(penaltyDuration, c.decPenalty)
AfterFunc(k) ==
    /\ lpc[k] = "timer"
    /\ timers' = [timers EXCEPT ![min[k].c] = @ + 1]
    /\ lpc' = [lpc EXCEPT ![k] = "done"]
    /\ UNCHANGED <<vars, min, penalty, total, doVars>>

\* Mutant of decPenalty: it waits until the client has nothing to do.
decPenaltyIdle(c) ==
    /\ timers[c] > 0 /\ pending[c] = 0
    /\ timers' = [timers EXCEPT ![c] = @ - 1]
    /\ penalty' = [penalty EXCEPT ![c] = @ - 1]
    /\ UNCHANGED <<vars, lpc, min, total, doVars>>

decPenalty(c) ==
    /\ timers[c] > 0
    /\ timers' = [timers EXCEPT ![c] = @ - 1]
    /\ penalty' = [penalty EXCEPT ![c] = @ - 1]
    /\ UNCHANGED <<vars, lpc, min, total, doVars>>

-----------------------------------------------------------------------------
(* HostClient.Do, in the goroutine of the call. *)

\* What an attempt, c.do, may end with: its error and whether it may be retried.
\* io.EOF is the end of the connection before a response, but also between two
\* chunks of one (readHexInt).
Outcomes ==
    { [err |-> "nil", retry |-> FALSE], [err |-> "noConn", retry |-> FALSE],
      [err |-> "ErrBodyTooLarge", retry |-> FALSE], [err |-> "write", retry |-> TRUE],
      [err |-> "read", retry |-> TRUE], [err |-> "EOF", retry |-> TRUE] }

\* Do tries once more after outcome o.
Again(d, o) ==
    /\ o.retry /\ ~d.req.stream
    /\ d.req.retryable \/ o.err = "EOF"
    /\ d.attempts + 1 < MaxAttempts

DoStart(k, r) ==
    /\ gpc[k] = "do" /\ do[k].st = "off"
    /\ pending' = [pending EXCEPT ![min[k].c] = @ + 1]
    /\ do' = [do EXCEPT ![k] = [DoAt("try") EXCEPT !.req = r]]
    /\ UNCHANGED <<vars, lbVars>>

\* One attempt.
DoTry(k, o) ==
    /\ do[k].st = "try"
    /\ IF Again(do[k], o)
       THEN /\ do' = [do EXCEPT ![k].attempts = @ + 1]
            /\ UNCHANGED pending
       ELSE /\ do' = [do EXCEPT ![k] = DoAt(IF o.err = "nil" THEN "nil" ELSE "failed")]
            /\ pending' = [pending EXCEPT ![min[k].c] = @ - 1]
    /\ UNCHANGED <<vars, lbVars>>

\* Do has returned: clientDoDeadline's goroutine goes on.
DoReturned(k) ==
    /\ do[k].st \in {"nil", "failed"}
    /\ Goroutine(k)
    /\ UNCHANGED <<lbVars, doVars>>

-----------------------------------------------------------------------------
LBCall(k) ==
    Get(k) \/ Call(k) \/ Healthy(k) \/ incPenalty(k) \/ TooMany(k) \/ AfterFunc(k)

LBGoroutine(k) ==
    \/ \E r \in Requests : DoStart(k, r)
    \/ \E o \in Outcomes : DoTry(k, o)
    \/ DoReturned(k)

Finished ==
    /\ \A k \in Calls : lpc[k] = "done" /\ gpc[k] \in {"off", "done"}
    /\ \A c \in Clients : timers[c] = 0
    /\ UNCHANGED lbAllVars

LBNext ==
    \/ \E k \in Calls : LBCall(k) \/ LBGoroutine(k)
    \/ \E c \in Clients : decPenalty(c)
    \/ Finished

\* Timers fire; an attempt may take for ever.
LBFairness ==
    /\ \A k \in Calls :
          /\ WF_lbAllVars(LBCall(k))
          /\ WF_lbAllVars(DoReturned(k) /\ gpc[k] # "do")
    /\ \A c \in Clients : WF_lbAllVars(decPenalty(c))

LBSpec == LBInit /\ [][LBNext]_lbAllVars /\ LBFairness

-----------------------------------------------------------------------------
\* The load of a client is exact although requests outlive their calls and penalties
\* are taken back by timers and by calls that went over the maximum: it is the Do's that
\* run, the timers that are pending and the calls between the two halves of a penalty.
\* So no counter falls below zero, where uint32 would make the client look overloaded
\* for ever.
LoadCounted ==
    \A c \in Clients :
        /\ pending[c] = Cardinality({k \in Calls : min[k].c = c /\ do[k].st = "try"})
        /\ penalty[c] = timers[c] +
             Cardinality({k \in Calls : min[k].c = c /\ lpc[k] \in {"over", "timer"}})
        /\ timers[c] <= MaxPenalty

\* Every call returns, however long its attempts take, and clients recover: when the
\* calls have returned all penalties go away.
PenaltiesExpire ==
    /\ <>(\A k \in Calls : lpc[k] = "done")
    /\ (\A k \in Calls : lpc[k] = "done") ~> (\A c \in Clients : penalty[c] = 0)
=============================================================================
