-------------------------- MODULE InmemoryListener --------------------------
(***************************************************************************)
(* fasthttputil/inmemory_listener.go: Dial makes a pipe, hands one end to  *)
(* Accept and waits, under the lock, until it has been accepted.  A pipe   *)
(* is named by the Dial that makes it; Accept runs in a loop, as it does   *)
(* in Server.Serve, until it fails.                                        *)
(***************************************************************************)
EXTENDS PipeConns

CONSTANTS Acceptors, Closers, None

ASSUME ListenerAssumption == Pipes \cap Closers = {} /\ None \notin Pipes \cup Closers

VARIABLES
    lock, lnClosed, conns,  \* ln.lock, ln.closed, ln.conns (capacity 1024)
    dpc,                    \* each Dial
    acc,                    \* the pipes each Accept loop has returned
    apc,                    \* "loop" or "done"
    cpc                     \* each Close

lvars == <<lock, lnClosed, conns, dpc, acc, apc, cpc>>
listenerVars == <<pvars, lvars>>

ListenerInit ==
    /\ PipesInit
    /\ lock = None /\ lnClosed = FALSE /\ conns = <<>>
    /\ dpc = [p \in Pipes |-> "start"]
    /\ acc = [a \in Acceptors |-> <<>>] /\ apc = [a \in Acceptors |-> "loop"]
    /\ cpc = [x \in Closers |-> "start"]

Accepted(p) == \E a \in Acceptors : p \in ToSet(acc[a])

-----------------------------------------------------------------------------
DialLock(p) ==
    /\ dpc[p] = "start" /\ lock = None
    /\ lock' = p
    /\ dpc' = [dpc EXCEPT ![p] = "locked"]
    /\ UNCHANGED <<pvars, lnClosed, conns, acc, apc, cpc>>

\* Mutant of DialSend: the lock is released before the connection is accepted.
DialSendOnly(p) ==
    /\ dpc[p] = "locked" /\ ~lnClosed
    /\ conns' = Append(conns, p)
    /\ lock' = None
    /\ dpc' = [dpc EXCEPT ![p] = "conn"]
    /\ UNCHANGED <<pvars, lnClosed, acc, apc, cpc>>

\* ln.conns <- acceptConn{sConn, accepted}
DialSend(p) ==
    /\ dpc[p] = "locked" /\ ~lnClosed
    /\ conns' = Append(conns, p)
    /\ dpc' = [dpc EXCEPT ![p] = "wait"]
    /\ UNCHANGED <<pvars, lock, lnClosed, acc, apc, cpc>>

\* <-accepted, and the lock is released.
DialReturn(p) ==
    /\ dpc[p] = "wait" /\ Accepted(p)
    /\ lock' = None
    /\ dpc' = [dpc EXCEPT ![p] = "conn"]
    /\ UNCHANGED <<pvars, lnClosed, conns, acc, apc, cpc>>

\* Mutant of DialClosed: it returns without releasing the lock.
DialClosedLocked(p) ==
    /\ dpc[p] = "locked" /\ lnClosed
    /\ ClosePipe(p)
    /\ dpc' = [dpc EXCEPT ![p] = "err"]
    /\ UNCHANGED <<lock, lnClosed, conns, acc, apc, cpc>>

\* The listener is closed: both ends of the new pipe are.
DialClosed(p) ==
    /\ dpc[p] = "locked" /\ lnClosed
    /\ ClosePipe(p)
    /\ lock' = None
    /\ dpc' = [dpc EXCEPT ![p] = "err"]
    /\ UNCHANGED <<lnClosed, conns, acc, apc, cpc>>

Accept(a) ==
    /\ apc[a] = "loop" /\ conns # <<>>
    /\ acc' = [acc EXCEPT ![a] = Append(@, Head(conns))]
    /\ conns' = Tail(conns)
    /\ UNCHANGED <<pvars, lock, lnClosed, dpc, apc, cpc>>

\* The channel is closed and empty: ErrInmemoryListenerClosed.
AcceptClosed(a) ==
    /\ apc[a] = "loop" /\ conns = <<>> /\ lnClosed
    /\ apc' = [apc EXCEPT ![a] = "done"]
    /\ UNCHANGED <<pvars, lock, lnClosed, conns, dpc, acc, cpc>>

\* InmemoryListener.Close; a second one returns an error.
CloseLock(x) ==
    /\ cpc[x] = "start" /\ lock = None
    /\ lock' = x
    /\ cpc' = [cpc EXCEPT ![x] = "locked"]
    /\ UNCHANGED <<pvars, lnClosed, conns, dpc, acc, apc>>

CloseUnlock(x) ==
    /\ cpc[x] = "locked"
    /\ lnClosed' = TRUE
    /\ lock' = None
    /\ cpc' = [cpc EXCEPT ![x] = "done"]
    /\ UNCHANGED <<pvars, conns, dpc, acc, apc>>

\* The client writes to the connection it has dialed and closes it; the server
\* reads from the one it has accepted until EOF, or closes it.
ClientEnd(p) == dpc[p] = "conn" /\ (WriteStep(p) \/ ClosePipe(p)) /\ UNCHANGED lvars
ServerEnd(p) == Accepted(p) /\ (ReadStep(p) \/ ClosePipe(p)) /\ UNCHANGED lvars

-----------------------------------------------------------------------------
DialStep(p) == DialLock(p) \/ DialSend(p) \/ DialReturn(p) \/ DialClosed(p)
AcceptStep(a) == Accept(a) \/ AcceptClosed(a)
CloseStep(x) == CloseLock(x) \/ CloseUnlock(x)

ListenerNext ==
    \/ \E p \in Pipes : DialStep(p) \/ ClientEnd(p) \/ ServerEnd(p)
    \/ \E a \in Acceptors : AcceptStep(a)
    \/ \E x \in Closers : CloseStep(x)

\* Goroutines run; a mutex is given to each of those that wait for it (starvation
\* mode of sync.Mutex); the ends of a pipe finish the calls they make.
ListenerFairness ==
    /\ \A p \in Pipes :
          /\ SF_listenerVars(DialLock(p))
          /\ WF_listenerVars(DialSend(p) \/ DialReturn(p) \/ DialClosed(p))
          /\ WF_listenerVars(Accepted(p) /\ ReadStep(p) /\ UNCHANGED lvars)
          /\ WF_listenerVars(dpc[p] = "conn" /\ UNCHANGED lvars
                       /\ (WriteSend(p) \/ WriteBlock(p) \/ WriteFail(p)))
    /\ \A a \in Acceptors : WF_listenerVars(AcceptStep(a))
    /\ \A x \in Closers : SF_listenerVars(CloseLock(x)) /\ WF_listenerVars(CloseUnlock(x))

ListenerSpec == ListenerInit /\ [][ListenerNext]_listenerVars /\ ListenerFairness

-----------------------------------------------------------------------------
\* "It only returns once the server has accepted the connection": Dial returns a
\* connection whose other end exactly one Accept has returned, once.
DialAccepted ==
    \A p \in Pipes : dpc[p] = "conn" =>
        \E a \in Acceptors : \E i \in DOMAIN acc[a] :
            \A b \in Acceptors : \A j \in DOMAIN acc[b] :
                acc[b][j] = p <=> b = a /\ j = i

\* Close and Dial return although Dial waits for Accept under the lock that Close
\* needs, as long as somebody accepts.
ListenerReturns ==
    /\ \A x \in Closers : <>(cpc[x] = "done")
    /\ \A p \in Pipes : <>(dpc[p] \in {"conn", "err"})
=============================================================================
