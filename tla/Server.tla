------------------------------- MODULE Server -------------------------------
(***************************************************************************)
(* server.go and peripconn.go: the life of a Server.  Serve calls accept   *)
(* connections and give them to their worker pool (what the pool promises  *)
(* is module ConnService); ServeConn calls serve a connection themselves;  *)
(* serveConn reads requests until the connection ends or is hijacked;      *)
(* Shutdown closes the listeners and waits for s.open to become 0.         *)
(*                                                                         *)
(* With MaxConnsPerIP > 0 the net.Conn that all of them hold is a          *)
(* perIPConn, a wrapper that Close returns to a sync.Pool.                 *)
(***************************************************************************)
EXTENDS Integers, FiniteSets

CONSTANTS
    Conns,              \* the connections the listeners deliver
    Direct,             \* the connections ServeConn is called with
    Serves,             \* the calls of Serve, each with its own listener
    Shutdowns,          \* the calls of Shutdown
    IPs, NoIP,          \* the clients' IPv4 addresses; NoIP: not IPv4
    Wraps,              \* the perIPConn objects
    MaxConnsPerIP,      \* s.MaxConnsPerIP; 0 is no limit
    Concurrency,        \* s.getConcurrency()
    CloseOnShutdown,    \* s.CloseOnShutdown
    MaxRequests,        \* bound: the requests a client sends on a connection
    None

ASSUME ServerAssumption ==
    /\ MaxConnsPerIP \in Nat /\ Concurrency \in Nat \ {0} /\ MaxRequests \in Nat
    /\ CloseOnShutdown \in BOOLEAN
    /\ Conns \cap Direct = {} /\ IsFiniteSet(Conns \cup Direct) /\ IsFiniteSet(Serves)
    /\ NoIP \notin IPs /\ Wraps \cap (Conns \cup Direct) = {}
    /\ None \notin Conns \cup Direct \cup Wraps \cup Serves \cup Shutdowns

AllConns == Conns \cup Direct

VARIABLES
    mu,                 \* which Shutdown holds s.mu
    lns, lnOpen,        \* s.ln, and the listeners that are open
    todo,               \* the listeners a Shutdown has still to close
    stop,               \* s.stop
    open, concurrency,  \* s.open, s.concurrency
    perIP,              \* s.perIPConnCounter.m
    inner,              \* perIPConn.Conn, None in the pool
    spc, shpc,          \* the pcs of the Serve and the Shutdown calls
    cpc, hpc,           \* of each connection's goroutine and its hijack goroutine
    serveOf,            \* the Serve call that accepted the connection
    ip, wrap,           \* its address, and the perIPConn its goroutine holds
    sock,               \* whether the connection itself is open
    hook,               \* the last state the ConnState hook was told of each net.Conn
    reqs                \* how many requests have been read

counters == <<open, concurrency>>
connVars == <<serveOf, ip, wrap, sock, perIP, inner>>
listenVars == <<mu, lns, lnOpen, todo, stop, shpc>>
vars == <<listenVars, counters, spc, cpc, hpc, connVars, hook, reqs>>

Init ==
    /\ mu = None /\ lns = {} /\ lnOpen = Serves /\ todo = {} /\ stop = FALSE
    /\ open = 0 /\ concurrency = 0
    /\ perIP = [i \in IPs |-> 0] /\ inner = [w \in Wraps |-> None]
    /\ spc = [s \in Serves |-> "off"] /\ shpc = [d \in Shutdowns |-> "off"]
    /\ cpc = [c \in AllConns |-> "new"] /\ hpc = [c \in AllConns |-> "off"]
    /\ serveOf = [c \in AllConns |-> None]
    /\ ip = [c \in AllConns |-> NoIP] /\ wrap = [c \in AllConns |-> None]
    /\ sock = [c \in AllConns |-> "none"]
    /\ hook = [nc \in AllConns \cup Wraps |-> "none"]
    /\ reqs = [c \in AllConns |-> 0]

Goto(c, p) == cpc' = [cpc EXCEPT ![c] = p]

\* The net.Conn in the hands of c's goroutine, and the connection it stands for.
NetConn(c) == IF wrap[c] = None THEN c ELSE wrap[c]
Target(c) == IF wrap[c] = None THEN c ELSE inner[wrap[c]]

\* setState: the ConnState hook is called with the net.Conn, which may be a perIPConn
\* that is back in its pool or with another connection.
setState(c, st) == hook' = [hook EXCEPT ![NetConn(c)] = st]

\* perIPConn.Close, or Close of the connection itself: the connection is closed,
Close(c) ==
    /\ Target(c) # None
    /\ sock' = [sock EXCEPT ![Target(c)] = "closed"]
    /\ UNCHANGED <<serveOf, ip, wrap, perIP, inner>>

\* and then a perIPConn leaves the counter and goes back to the pool.
Unregister(c) ==
    /\ Target(c) # None
    /\ IF wrap[c] = None
       THEN UNCHANGED <<perIP, inner>>
       ELSE /\ perIP' = [perIP EXCEPT ![ip[Target(c)]] = @ - 1]
            /\ inner' = [inner EXCEPT ![wrap[c]] = None]
    /\ UNCHANGED <<serveOf, ip, wrap, sock>>

\* wrapPerIPConn for a connection from i: on to pc ok, or to "reject".
wrapPerIPConn(c, i, ok) ==
    /\ ip' = [ip EXCEPT ![c] = i]
    /\ sock' = [sock EXCEPT ![c] = "open"]
    /\ \/ /\ MaxConnsPerIP = 0 \/ i = NoIP
          /\ Goto(c, ok)
          /\ UNCHANGED <<perIP, inner, wrap>>
       \/ /\ MaxConnsPerIP > 0 /\ i # NoIP
          /\ perIP' = [perIP EXCEPT ![i] = @ + 1]
          /\ \/ /\ perIP[i] + 1 > MaxConnsPerIP
                /\ Goto(c, "reject")
                /\ UNCHANGED <<inner, wrap>>
             \/ /\ perIP[i] + 1 <= MaxConnsPerIP
                /\ \E w \in Wraps :
                      /\ inner[w] = None
                      /\ inner' = [inner EXCEPT ![w] = c]
                      /\ wrap' = [wrap EXCEPT ![c] = w]
                /\ Goto(c, ok)

\* The Serve call that works on c goes back to Accept.
ServeNext(c) ==
    spc' = IF serveOf[c] = None THEN spc ELSE [spc EXCEPT ![serveOf[c]] = "accept"]

\* Mutant of Reject: Unregister is not called.
RejectKeeps(c) ==
    /\ cpc[c] = "reject"
    /\ Goto(c, "rejected")
    /\ UNCHANGED <<listenVars, counters, spc, hpc, connVars, hook, reqs>>

\* The connection is over the limit of its address: it is uncounted,
Reject(c) ==
    /\ cpc[c] = "reject"
    /\ perIP' = [perIP EXCEPT ![ip[c]] = @ - 1]
    /\ Goto(c, "rejected")
    /\ UNCHANGED <<listenVars, counters, spc, hpc, serveOf, ip, wrap, sock, inner, hook,
                   reqs>>

\* answered with an error, and closed.
RejectClose(c) ==
    /\ cpc[c] = "rejected"
    /\ sock' = [sock EXCEPT ![c] = "closed"]
    /\ Goto(c, "done") /\ ServeNext(c)
    /\ UNCHANGED <<listenVars, counters, hpc, serveOf, ip, wrap, perIP, inner, hook, reqs>>

-----------------------------------------------------------------------------
(* Serve. *)

\* The listener is registered under s.mu.
ServeListen(s) ==
    /\ spc[s] = "off" /\ mu = None
    /\ lns' = lns \cup {s}
    /\ spc' = [spc EXCEPT ![s] = "count"]
    /\ UNCHANGED <<mu, lnOpen, todo, stop, shpc, counters, cpc, hpc, connVars, hook,
                   reqs>>

\* The wait for a connection counts as an open connection.
ServeCount(s) ==
    /\ spc[s] = "count"
    /\ open' = open + 1
    /\ spc' = [spc EXCEPT ![s] = "accept"]
    /\ UNCHANGED <<listenVars, concurrency, cpc, hpc, connVars, hook, reqs>>

acceptConn(s, c) ==
    /\ spc[s] = "accept" /\ s \in lnOpen /\ cpc[c] = "new"
    /\ spc' = [spc EXCEPT ![s] = "busy"]
    /\ serveOf' = [serveOf EXCEPT ![c] = s]
    /\ \E i \in IPs \cup {NoIP} : wrapPerIPConn(c, i, "state")
    /\ UNCHANGED <<listenVars, counters, hpc, hook, reqs>>

\* Accept fails, because the listener is closed or for good; the pool is stopped.
AcceptError(s) ==
    /\ spc[s] = "accept"
    /\ spc' = [spc EXCEPT ![s] = "return"]
    /\ UNCHANGED <<listenVars, counters, cpc, hpc, connVars, hook, reqs>>

ServeReturn(s) ==
    /\ spc[s] = "return"
    /\ open' = open - 1
    /\ spc' = [spc EXCEPT ![s] = "returned"]
    /\ UNCHANGED <<listenVars, concurrency, cpc, hpc, connVars, hook, reqs>>

ServeState(c) ==
    /\ cpc[c] = "state"
    /\ setState(c, "New")
    /\ Goto(c, "count")
    /\ UNCHANGED <<listenVars, counters, spc, hpc, connVars, reqs>>

\* s.open is incremented, by Serve before it calls the pool and by ServeConn before
\* it calls serveConn.
CountOpen(c) ==
    /\ cpc[c] = "count"
    /\ open' = open + 1
    /\ Goto(c, IF c \in Direct THEN "begin" ELSE "hand")
    /\ UNCHANGED <<listenVars, concurrency, spc, hpc, connVars, hook, reqs>>

\* The pcs of a connection that is served.
ServingPCs == {"begin", "read", "handle", "idle", "cleanup", "uncount"}

\* The connections in the service of the pool of Serve call s.
InService(s) ==
    {c \in Conns : serveOf[c] = s /\ cpc[c] \in ServingPCs \cup {"finish", "unregister", "closed"}}

\* wp.Serve accepts (ConnService!Accept).
PoolAccepts(c) ==
    /\ cpc[c] = "hand"
    /\ Cardinality(InService(serveOf[c])) < Concurrency
    /\ Goto(c, "begin") /\ ServeNext(c)
    /\ UNCHANGED <<listenVars, counters, hpc, connVars, hook, reqs>>

\* wp.Serve refuses (ConnService!Refuse).
PoolRefuses(c) ==
    /\ cpc[c] = "hand"
    /\ open' = open - 1
    /\ Goto(c, "refuse")
    /\ UNCHANGED <<listenVars, concurrency, spc, hpc, connVars, hook, reqs>>

\* c.Close of a connection that Serve or ServeConn refuses.
RefuseClose(c) ==
    /\ cpc[c] = "refuse"
    /\ Close(c)
    /\ Goto(c, "refuseUnregister")
    /\ UNCHANGED <<listenVars, counters, spc, hpc, hook, reqs>>

RefuseUnregister(c) ==
    /\ cpc[c] = "refuseUnregister"
    /\ Unregister(c)
    /\ Goto(c, IF c \in Direct THEN "done" ELSE "refused")
    /\ UNCHANGED <<listenVars, counters, spc, hpc, hook, reqs>>

RefuseState(c) ==
    /\ cpc[c] = "refused"
    /\ setState(c, "Closed")
    /\ Goto(c, "done") /\ ServeNext(c)
    /\ UNCHANGED <<listenVars, counters, hpc, connVars, reqs>>

-----------------------------------------------------------------------------
(* ServeConn. *)

ServeConn(c) ==
    /\ cpc[c] = "new"
    /\ \E i \in IPs \cup {NoIP} : wrapPerIPConn(c, i, "limit")
    /\ UNCHANGED <<listenVars, counters, spc, hpc, serveOf, hook, reqs>>

\* s.concurrency is incremented and compared with the limit.
ServeConnLimit(c) ==
    /\ cpc[c] = "limit"
    /\ concurrency' = concurrency + 1
    /\ Goto(c, IF concurrency + 1 > Concurrency THEN "overLimit" ELSE "count")
    /\ UNCHANGED <<listenVars, open, spc, hpc, connVars, hook, reqs>>

ServeConnOverLimit(c) ==
    /\ cpc[c] = "overLimit"
    /\ concurrency' = concurrency - 1
    /\ Goto(c, "refuse")
    /\ UNCHANGED <<listenVars, open, spc, hpc, connVars, hook, reqs>>

-----------------------------------------------------------------------------
(* serveConn, run by a worker of the pool or by ServeConn. *)

Begin(c) ==
    /\ cpc[c] = "begin"
    /\ concurrency' = concurrency + 1
    /\ Goto(c, "read")
    /\ UNCHANGED <<listenVars, open, spc, hpc, connVars, hook, reqs>>

\* Mutant of ReadRequest: the hook is told of the first request only.
ReadRequestOnce(c) ==
    /\ cpc[c] = "read" /\ reqs[c] < MaxRequests
    /\ IF reqs[c] = 0 THEN setState(c, "Active") ELSE UNCHANGED hook
    /\ reqs' = [reqs EXCEPT ![c] = @ + 1]
    /\ Goto(c, "handle")
    /\ UNCHANGED <<listenVars, counters, spc, hpc, connVars>>

\* A request is read.
ReadRequest(c) ==
    /\ cpc[c] = "read" /\ reqs[c] < MaxRequests
    /\ setState(c, "Active")
    /\ reqs' = [reqs EXCEPT ![c] = @ + 1]
    /\ Goto(c, "handle")
    /\ UNCHANGED <<listenVars, counters, spc, hpc, connVars>>

\* The client closes, the request is malformed or a timeout passes.
ReadFails(c) ==
    /\ cpc[c] = "read"
    /\ Goto(c, "cleanup")
    /\ UNCHANGED <<listenVars, counters, spc, hpc, connVars, hook, reqs>>

\* The response says Connection: close, or cannot be written.
RespondClose(c) ==
    /\ cpc[c] = "handle"
    /\ Goto(c, "cleanup")
    /\ UNCHANGED <<listenVars, counters, spc, hpc, connVars, hook, reqs>>

\* The response leaves the connection open.
RespondKeep(c) ==
    /\ cpc[c] = "handle" /\ ~(CloseOnShutdown /\ stop)
    /\ setState(c, "Idle")
    /\ Goto(c, "idle")
    /\ UNCHANGED <<listenVars, counters, spc, hpc, connVars, reqs>>

\* The handler hijacked the connection: a goroutine of its own takes it over.
RespondHijack(c) ==
    /\ cpc[c] = "handle"
    /\ hpc' = [hpc EXCEPT ![c] = "run"]
    /\ Goto(c, "cleanup")
    /\ UNCHANGED <<listenVars, counters, spc, connVars, hook, reqs>>

\* The end of the loop's body.
CheckStop(c) ==
    /\ cpc[c] = "idle"
    /\ Goto(c, IF stop THEN "cleanup" ELSE "read")
    /\ UNCHANGED <<listenVars, counters, spc, hpc, connVars, hook, reqs>>

\* Mutant of CleanupOpen: a hijacked connection stays counted.
CleanupOpenUnhijacked(c) ==
    /\ cpc[c] = "cleanup"
    /\ open' = IF hpc[c] = "off" THEN open - 1 ELSE open
    /\ Goto(c, "uncount")
    /\ UNCHANGED <<listenVars, concurrency, spc, hpc, connVars, hook, reqs>>

\* serveConnCleanup: s.open first,
CleanupOpen(c) ==
    /\ cpc[c] = "cleanup"
    /\ open' = open - 1
    /\ Goto(c, "uncount")
    /\ UNCHANGED <<listenVars, concurrency, spc, hpc, connVars, hook, reqs>>

\* then s.concurrency, which ServeConn decrements once more.
CleanupConcurrency(c) ==
    /\ cpc[c] = "uncount"
    /\ concurrency' = concurrency - 1
    /\ Goto(c, IF c \in Direct THEN "uncountDirect" ELSE "finish")
    /\ UNCHANGED <<listenVars, open, spc, hpc, connVars, hook, reqs>>

ServeConnUncount(c) ==
    /\ cpc[c] = "uncountDirect"
    /\ concurrency' = concurrency - 1
    /\ Goto(c, "finish")
    /\ UNCHANGED <<listenVars, open, spc, hpc, connVars, hook, reqs>>

\* Mutant of FinishClose: errHijacked is not treated specially.
FinishCloseAlways(c) ==
    /\ cpc[c] = "finish"
    /\ Close(c)
    /\ Goto(c, "unregister")
    /\ UNCHANGED <<listenVars, counters, spc, hpc, hook, reqs>>

\* serveConn returned: the worker or ServeConn closes the connection
FinishClose(c) ==
    /\ cpc[c] = "finish" /\ hpc[c] = "off"
    /\ Close(c)
    /\ Goto(c, "unregister")
    /\ UNCHANGED <<listenVars, counters, spc, hpc, hook, reqs>>

FinishUnregister(c) ==
    /\ cpc[c] = "unregister"
    /\ Unregister(c)
    /\ Goto(c, "closed")
    /\ UNCHANGED <<listenVars, counters, spc, hpc, hook, reqs>>

\* and tells the hook;
FinishState(c) ==
    /\ cpc[c] = "closed"
    /\ setState(c, "Closed")
    /\ Goto(c, "done")
    /\ UNCHANGED <<listenVars, counters, spc, hpc, connVars, reqs>>

\* a hijacked connection it leaves to the hijack goroutine.
FinishHijacked(c) ==
    /\ cpc[c] = "finish" /\ hpc[c] # "off"
    /\ setState(c, "Hijacked")
    /\ Goto(c, "done")
    /\ UNCHANGED <<listenVars, counters, spc, hpc, connVars, reqs>>

\* The hijack handler is done with the connection: hijackConnHandler closes it, or,
\* with KeepHijackedConns, the application does through hijackConn.Close.
HijackClose(c) ==
    /\ hpc[c] = "run"
    /\ Close(c)
    /\ hpc' = [hpc EXCEPT ![c] = "unregister"]
    /\ UNCHANGED <<listenVars, counters, spc, cpc, hook, reqs>>

HijackUnregister(c) ==
    /\ hpc[c] = "unregister"
    /\ Unregister(c)
    /\ hpc' = [hpc EXCEPT ![c] = "done"]
    /\ UNCHANGED <<listenVars, counters, spc, cpc, hook, reqs>>

-----------------------------------------------------------------------------
(* Shutdown, and the owner of a listener, who may close it as well. *)

CloseListener(s) ==
    /\ s \in lnOpen
    /\ lnOpen' = lnOpen \ {s}
    /\ UNCHANGED <<mu, lns, todo, stop, shpc, counters, spc, cpc, hpc, connVars, hook,
                   reqs>>

\* s.mu is taken and s.stop set; with no listeners that is all.
ShutdownStart(d) ==
    /\ shpc[d] = "off" /\ mu = None
    /\ IF lns = {}
       THEN /\ shpc' = [shpc EXCEPT ![d] = "returned"]
            /\ UNCHANGED <<mu, stop, todo>>
       ELSE /\ shpc' = [shpc EXCEPT ![d] = "close"]
            /\ mu' = d /\ stop' = TRUE /\ todo' = lns
    /\ UNCHANGED <<lns, lnOpen, counters, spc, cpc, hpc, connVars, hook, reqs>>

\* ln.Close for one listener after the other; closing one that is closed already is
\* an error and ends the call.
ShutdownClose(d) ==
    /\ shpc[d] = "close"
    /\ \/ \E s \in todo :
             /\ todo' = todo \ {s}
             /\ \/ /\ s \in lnOpen
                   /\ lnOpen' = lnOpen \ {s}
                   /\ UNCHANGED <<mu, stop, shpc>>
                \/ /\ s \notin lnOpen
                   /\ mu' = None /\ stop' = FALSE
                   /\ shpc' = [shpc EXCEPT ![d] = "failed"]
                   /\ UNCHANGED lnOpen
       \/ /\ todo = {}
          /\ shpc' = [shpc EXCEPT ![d] = "wait"]
          /\ UNCHANGED <<mu, stop, todo, lnOpen>>
    /\ UNCHANGED <<lns, counters, spc, cpc, hpc, connVars, hook, reqs>>

\* Mutant of ShutdownPoll: the acceptors' own share of s.open is not waited for.
ShutdownPollServing(d) ==
    /\ shpc[d] = "wait" /\ open <= Cardinality(lns)
    /\ shpc' = [shpc EXCEPT ![d] = "reset"]
    /\ UNCHANGED <<mu, lns, lnOpen, todo, stop, counters, spc, cpc, hpc, connVars, hook,
                   reqs>>

\* s.open is 0.
ShutdownPoll(d) ==
    /\ shpc[d] = "wait" /\ open = 0
    /\ shpc' = [shpc EXCEPT ![d] = "reset"]
    /\ UNCHANGED <<mu, lns, lnOpen, todo, stop, counters, spc, cpc, hpc, connVars, hook,
                   reqs>>

ShutdownReturn(d) ==
    /\ shpc[d] = "reset"
    /\ lns' = {} /\ stop' = FALSE /\ mu' = None
    /\ shpc' = [shpc EXCEPT ![d] = "returned"]
    /\ UNCHANGED <<lnOpen, todo, counters, spc, cpc, hpc, connVars, hook, reqs>>

-----------------------------------------------------------------------------
\* The goroutine of a Serve or ServeConn call or of a worker, when it does not wait
\* for the client or the handler.
ConnStep(c) ==
    \/ Reject(c) \/ RejectClose(c)
    \/ ServeState(c) \/ CountOpen(c) \/ PoolAccepts(c) \/ PoolRefuses(c)
    \/ RefuseClose(c) \/ RefuseUnregister(c) \/ RefuseState(c)
    \/ ServeConnLimit(c) \/ ServeConnOverLimit(c)
    \/ Begin(c) \/ CheckStop(c)
    \/ CleanupOpen(c) \/ CleanupConcurrency(c) \/ ServeConnUncount(c)
    \/ FinishClose(c) \/ FinishUnregister(c) \/ FinishState(c) \/ FinishHijacked(c)

Respond(c) == RespondClose(c) \/ RespondKeep(c) \/ RespondHijack(c)

ServeStep(s) ==
    ServeListen(s) \/ ServeCount(s) \/ (s \notin lnOpen /\ AcceptError(s)) \/ ServeReturn(s)

ShutdownStep(d) ==
    ShutdownStart(d) \/ ShutdownClose(d) \/ ShutdownPoll(d) \/ ShutdownReturn(d)

\* All calls returned.
Quiet ==
    /\ \A s \in Serves : spc[s] = "returned" /\ s \notin lnOpen
    /\ \A d \in Shutdowns : shpc[d] \in {"returned", "failed"}
    /\ \A c \in AllConns : cpc[c] \in {"new", "done"} /\ hpc[c] \in {"off", "done"}

Next ==
    \/ \E s \in Serves :
          \/ ServeStep(s) \/ AcceptError(s) \/ CloseListener(s)
          \/ \E c \in Conns : acceptConn(s, c)
    \/ \E c \in Direct : ServeConn(c)
    \/ \E c \in AllConns :
          \/ ConnStep(c) \/ ReadRequest(c) \/ ReadFails(c) \/ Respond(c)
          \/ HijackClose(c) \/ HijackUnregister(c)
    \/ \E d \in Shutdowns : ShutdownStep(d)
    \/ Quiet /\ UNCHANGED vars

(***************************************************************************)
(* Goroutines run, handlers return, and a read ends at the latest with     *)
(* ReadTimeout or IdleTimeout, which the comment on Shutdown recommends to *)
(* set.  Nobody has to connect, to hijack or to close a listener.          *)
(***************************************************************************)
Fairness ==
    /\ \A s \in Serves : WF_vars(ServeStep(s))
    /\ \A c \in AllConns :
          WF_vars(ConnStep(c)) /\ WF_vars(ReadFails(c)) /\ WF_vars(Respond(c))
    /\ \A d \in Shutdowns : WF_vars(ShutdownStep(d))

Spec == Init /\ [][Next]_vars /\ Fairness

-----------------------------------------------------------------------------
(* Properties. *)

TypeOK ==
    /\ mu \in Shutdowns \cup {None} /\ lns \in SUBSET Serves
    /\ lnOpen \in SUBSET Serves /\ todo \in SUBSET Serves /\ stop \in BOOLEAN
    /\ open \in Nat /\ concurrency \in Nat
    /\ perIP \in [IPs -> Nat] /\ inner \in [Wraps -> AllConns \cup {None}]
    /\ spc \in [Serves -> {"off", "count", "accept", "busy", "return", "returned"}]
    /\ shpc \in [Shutdowns -> {"off", "close", "wait", "reset", "returned", "failed"}]
    /\ cpc \in [AllConns -> ServingPCs \cup
                  {"new", "reject", "rejected", "state", "count", "hand", "refuse",
                   "refuseUnregister", "refused", "limit", "overLimit", "uncountDirect",
                   "finish", "unregister", "closed", "done"}]
    /\ hpc \in [AllConns -> {"off", "run", "unregister", "done"}]
    /\ serveOf \in [AllConns -> Serves \cup {None}]
    /\ ip \in [AllConns -> IPs \cup {NoIP}] /\ wrap \in [AllConns -> Wraps \cup {None}]
    /\ sock \in [AllConns -> {"none", "open", "closed"}]
    /\ hook \in [AllConns \cup Wraps -> {"none", "New", "Active", "Idle", "Hijacked", "Closed"}]
    /\ reqs \in [AllConns -> 0..MaxRequests]

\* c is open and not refused by wrapPerIPConn; it is closed and about to be uncounted.
Admitted(c) == sock[c] = "open" /\ cpc[c] \notin {"reject", "rejected"}
Unregistering(c) == cpc[c] \in {"refuseUnregister", "unregister"} \/ hpc[c] = "unregister"

\* What the counter of address i is to count.  Unregister comes before the error response
\* to a refused connection and its Close, and after the Close of a perIPConn.
Counted(c) == Admitted(c) \/ cpc[c] = "reject" \/ Unregistering(c)
Registered(i) == {c \in AllConns : ip[c] = i /\ Counted(c)}
AdmittedFrom(i) == {c \in AllConns : ip[c] = i /\ Admitted(c)}

\* The counter of an address is the number of its connections that are open, hijacked ones
\* included, or have just to be uncounted, and at most MaxConnsPerIP are admitted at a
\* time: the limit holds, and no address is locked out by a connection that was closed but
\* never uncounted, whoever closes it.
IPLimitExact ==
    MaxConnsPerIP > 0 =>
        \A i \in IPs :
            /\ perIP[i] = Cardinality(Registered(i))
            /\ Cardinality(AdmittedFrom(i)) <= MaxConnsPerIP

\* As long as a connection is open, or a goroutine has still to close it or to finish
\* closing it, the perIPConn that its goroutines hold is its own: no Close of one
\* connection, by a worker, by ServeConn or by a hijack handler, reaches another
\* connection through a recycled perIPConn.
OwnWrapper ==
    \A c \in AllConns :
        sock[c] = "open" \/ Unregistering(c) \/ hpc[c] = "run" => Target(c) = c

\* The comment in Serve: Shutdown does not read s.open as 0 while an accepted
\* connection is not counted yet.  When Shutdown has seen 0, no connection of a
\* listener is on its way to a handler or in one.
ShutdownDrained ==
    (\E d \in Shutdowns : shpc[d] = "reset") =>
        \A c \in Conns : cpc[c] \in {"new", "uncount", "finish", "unregister", "closed", "done"}

\* The comments on the ConnState constants: the transitions of a connection.
Transitions ==
    {<<"none", "New">>, <<"New", "Active">>, <<"New", "Closed">>,
     <<"Active", "Idle">>, <<"Active", "Hijacked">>, <<"Active", "Closed">>,
     <<"Idle", "Active">>, <<"Idle", "Closed">>}

\* The ConnState hook hears of the states of a connection in the documented order,
\* although the acceptor, a worker and Serve's refusal report them.  (ServeConn reports
\* no StateNew.)  Of a perIPConn it may hear Closed or Hijacked late, when the wrapper is
\* back in its pool or with the next connection; the other states are reported by the
\* goroutine of the connection that it wraps then, and while that connection is open.
HookOrder ==
    [][/\ \A c \in Conns : hook'[c] # hook[c] => <<hook[c], hook'[c]>> \in Transitions
       /\ \A w \in Wraps :
             hook'[w] # hook[w] /\ hook'[w] \notin {"Closed", "Hijacked"} =>
                 \E c \in AllConns :
                     inner[w] = c /\ sock[c] = "open" /\ cpc'[c] # cpc[c]]_vars

\* Shutdown returns: the listeners' acceptors and every connection get out of the way.
ShutdownReturns ==
    \A d \in Shutdowns : shpc[d] = "close" ~> shpc[d] \in {"returned", "failed"}
=============================================================================
