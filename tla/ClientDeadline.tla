--------------------------- MODULE ClientDeadline ---------------------------
(***************************************************************************)
(* client.go: clientDoDeadline, and clientGetURLDeadline, which has the    *)
(* same protocol.  A call runs the request in a goroutine of its own and   *)
(* waits for its answer or for the deadline; the two agree under a mutex   *)
(* on which of them came first.  The answer travels through a channel of a *)
(* pool that all calls share.                                              *)
(***************************************************************************)
EXTENDS Naturals, FiniteSets

CONSTANTS
    Calls,      \* the calls; each starts one goroutine
    Chans,      \* the channels of errorChPool (clientURLResponseChPool)
    None

ASSUME DeadlineAssumption ==
    IsFiniteSet(Calls) /\ None \notin Calls /\ "ErrTimeout" \notin Calls \cup {None}

VARIABLES
    pool,                   \* the channels in the pool
    buffer,                 \* the answer in each channel (capacity 1)
    pc, ch, result,         \* each call: pc, channel, what it returns
    gpc,                    \* its goroutine
    mu,                     \* who holds its mutex
    timedout, responded     \* the flags the mutex protects

vars == <<pool, buffer, pc, ch, result, gpc, mu, timedout, responded>>

Init ==
    /\ pool = Chans /\ buffer = [x \in Chans |-> None]
    /\ pc = [k \in Calls |-> "start"] /\ ch = [k \in Calls |-> None]
    /\ result = [k \in Calls |-> None]
    /\ gpc = [k \in Calls |-> "off"]
    /\ mu = [k \in Calls |-> "free"]
    /\ timedout = [k \in Calls |-> FALSE] /\ responded = [k \in Calls |-> FALSE]

-----------------------------------------------------------------------------
(* The caller. *)

\* The deadline has passed before the call.
Late(k) ==
    /\ pc[k] = "start"
    /\ result' = [result EXCEPT ![k] = "ErrTimeout"]
    /\ pc' = [pc EXCEPT ![k] = "done"]
    /\ UNCHANGED <<pool, buffer, ch, gpc, mu, timedout, responded>>

\* A channel is taken from the pool and the goroutine started.
Start(k) ==
    /\ pc[k] = "start"
    /\ \E x \in pool :
          /\ ch' = [ch EXCEPT ![k] = x]
          /\ pool' = pool \ {x}
    /\ gpc' = [gpc EXCEPT ![k] = "do"]
    /\ pc' = [pc EXCEPT ![k] = "select"]
    /\ UNCHANGED <<buffer, result, mu, timedout, responded>>

\* err = <-ch, then errorChPool.Put; at pc from.
Receive(k) ==
    /\ buffer[ch[k]] # None
    /\ result' = [result EXCEPT ![k] = buffer[ch[k]]]
    /\ buffer' = [buffer EXCEPT ![ch[k]] = None]
    /\ pc' = [pc EXCEPT ![k] = "put"]

SelectAnswer(k) ==
    /\ pc[k] = "select"
    /\ Receive(k)
    /\ UNCHANGED <<pool, ch, gpc, mu, timedout, responded>>

\* <-tc.C
SelectTimer(k) ==
    /\ pc[k] = "select"
    /\ pc' = [pc EXCEPT ![k] = "lock"]
    /\ UNCHANGED <<pool, buffer, ch, result, gpc, mu, timedout, responded>>

\* Mutant of Decide: the timer wins even when the goroutine has responded.
DecideIgnoresResponse(k) ==
    /\ pc[k] = "lock" /\ mu[k] = "free"
    /\ \/ /\ responded[k]
          /\ Receive(k)
          /\ UNCHANGED timedout
       \/ /\ TRUE
          /\ timedout' = [timedout EXCEPT ![k] = TRUE]
          /\ result' = [result EXCEPT ![k] = "ErrTimeout"]
          /\ pc' = [pc EXCEPT ![k] = "put"]
          /\ UNCHANGED buffer
    /\ UNCHANGED <<pool, ch, gpc, mu, responded>>

\* Under the mutex: the goroutine has responded, or the call times out.
Decide(k) ==
    /\ pc[k] = "lock" /\ mu[k] = "free"
    /\ \/ /\ responded[k]
          /\ Receive(k)
          /\ UNCHANGED timedout
       \/ /\ ~responded[k]
          /\ timedout' = [timedout EXCEPT ![k] = TRUE]
          /\ result' = [result EXCEPT ![k] = "ErrTimeout"]
          /\ pc' = [pc EXCEPT ![k] = "put"]
          /\ UNCHANGED buffer
    /\ UNCHANGED <<pool, ch, gpc, mu, responded>>

\* The channel returns to the pool and the call to its caller.
Return(k) ==
    /\ pc[k] = "put"
    /\ pool' = pool \cup {ch[k]}
    /\ pc' = [pc EXCEPT ![k] = "done"]
    /\ UNCHANGED <<buffer, ch, result, gpc, mu, timedout, responded>>

-----------------------------------------------------------------------------
(* The goroutine. *)

\* c.Do returns and the mutex is taken.
GoLock(k) ==
    /\ gpc[k] = "do" /\ mu[k] = "free"
    /\ mu' = [mu EXCEPT ![k] = "goroutine"]
    /\ gpc' = [gpc EXCEPT ![k] = "check"]
    /\ UNCHANGED <<pool, buffer, pc, ch, result, timedout, responded>>

\* Mutant of GoCopy: timedout is not checked.
GoCopyUnchecked(k) ==
    /\ gpc[k] = "check"
    /\ gpc' = [gpc EXCEPT ![k] = "copied"]
    /\ UNCHANGED <<pool, buffer, pc, ch, result, mu, timedout, responded>>

\* The copies go to the caller's resp and req, unless the call timed out.
GoCopy(k) ==
    /\ gpc[k] = "check" /\ ~timedout[k]
    /\ gpc' = [gpc EXCEPT ![k] = "copied"]
    /\ UNCHANGED <<pool, buffer, pc, ch, result, mu, timedout, responded>>

\* ch <- errDo
GoSend(k) ==
    /\ gpc[k] = "copied" /\ buffer[ch[k]] = None
    /\ buffer' = [buffer EXCEPT ![ch[k]] = k]
    /\ gpc' = [gpc EXCEPT ![k] = "sent"]
    /\ UNCHANGED <<pool, pc, ch, result, mu, timedout, responded>>

\* responded = true and the unlock, or the unlock alone.
GoUnlock(k) ==
    /\ \/ /\ gpc[k] = "sent"
          /\ responded' = [responded EXCEPT ![k] = TRUE]
       \/ /\ gpc[k] = "check" /\ timedout[k]
          /\ UNCHANGED responded
    /\ mu' = [mu EXCEPT ![k] = "free"]
    /\ gpc' = [gpc EXCEPT ![k] = "done"]
    /\ UNCHANGED <<pool, buffer, pc, ch, result, timedout>>

-----------------------------------------------------------------------------
AllDone ==
    /\ \A k \in Calls : pc[k] = "done" /\ gpc[k] \in {"off", "done"}
    /\ UNCHANGED vars

Caller(k) ==
    Late(k) \/ Start(k) \/ SelectAnswer(k) \/ SelectTimer(k) \/ Decide(k) \/ Return(k)

Goroutine(k) == GoLock(k) \/ GoCopy(k) \/ GoSend(k) \/ GoUnlock(k)

Next == (\E k \in Calls : Caller(k) \/ Goroutine(k)) \/ AllDone

\* The timer fires; the request itself may take for ever (GoLock is not fair).
Fairness ==
    \A k \in Calls :
        WF_vars(Caller(k)) /\ WF_vars(GoCopy(k) \/ GoSend(k) \/ GoUnlock(k))

Spec == Init /\ [][Next]_vars /\ Fairness

-----------------------------------------------------------------------------
TypeOK ==
    /\ pool \in SUBSET Chans
    /\ buffer \in [Chans -> Calls \cup {None}]
    /\ pc \in [Calls -> {"start", "select", "lock", "put", "done"}]
    /\ ch \in [Calls -> Chans \cup {None}]
    /\ result \in [Calls -> Calls \cup {None, "ErrTimeout"}]
    /\ gpc \in [Calls -> {"off", "do", "check", "copied", "sent", "done"}]
    /\ mu \in [Calls -> {"free", "goroutine"}]
    /\ timedout \in [Calls -> BOOLEAN] /\ responded \in [Calls -> BOOLEAN]

\* A call returns its own answer or ErrTimeout, and not ErrTimeout once its goroutine
\* has delivered the answer (and overwritten the caller's resp).
OwnAnswer ==
    \A k \in Calls :
        /\ result[k] \in {None, k, "ErrTimeout"}
        /\ responded[k] => result[k] # "ErrTimeout"

\* The comment in clientDoDeadline: on timeout req and resp no longer may be accessed.
\* The goroutine writes to the caller's resp when it is past the check of timedout.
\* (In clientGetURLDeadline it reads the response into the caller's dst before that.)
NoAccessAfterReturn == \A k \in Calls : pc[k] = "done" => gpc[k] # "copied"
=============================================================================
