---------------------------- MODULE ServerProofs ----------------------------
(***************************************************************************)
(* Proofs about Server for any number of Serve, ServeConn and Shutdown     *)
(* calls, of connections and addresses, and for any limits.                *)
(***************************************************************************)
EXTENDS Server, PoolLemmas, TLAPS

PCs == ServingPCs \cup
         {"new", "reject", "rejected", "state", "count", "hand", "refuse",
          "refuseUnregister", "refused", "limit", "overLimit", "uncountDirect",
          "finish", "unregister", "closed", "done"}

\* Where the goroutine of a connection has still to close it.
OpenPCs == {"reject", "rejected", "state", "count", "hand", "refuse", "limit", "overLimit", "begin", "read",
            "handle", "idle", "cleanup", "uncount", "uncountDirect", "finish"}

\* Where it may be once the connection is hijacked.
HijackedPCs == {"cleanup", "uncount", "uncountDirect", "finish", "done"}

\* A connection is open until its goroutine, or the hijack goroutine, closes it.
SockOK(c) ==
    /\ sock[c] = "open" <=> hpc[c] = "run" \/ (hpc[c] = "off" /\ cpc[c] \in OpenPCs)
    /\ hpc[c] # "off" => cpc[c] \in HijackedPCs

\* A connection that was admitted has its perIPConn until it is uncounted.
WrapOK(c) ==
    /\ cpc[c] \in {"new", "reject", "rejected"} => wrap[c] = None
    /\ cpc[c] = "reject" => MaxConnsPerIP > 0 /\ ip[c] \in IPs
    /\ Admitted(c) \/ Unregistering(c) =>
          IF MaxConnsPerIP > 0 /\ ip[c] # NoIP
          THEN wrap[c] \in Wraps /\ inner[wrap[c]] = c
          ELSE wrap[c] = None

ConnInv == \A c \in AllConns : SockOK(c) /\ WrapOK(c)

\* Where a connection of a listener is in the hands of its Serve call.
BusyPCs == {"reject", "rejected", "state", "count", "hand", "refuse", "refuseUnregister",
            "refused"}

BusyInv ==
    /\ \A c \in Direct : serveOf[c] = None /\ cpc[c] \notin {"state", "hand", "refused"}
    /\ \A c \in Conns : /\ cpc[c] \notin {"limit", "overLimit", "uncountDirect"}
                        /\ cpc[c] \in BusyPCs => serveOf[c] \in Serves /\ spc[serveOf[c]] = "busy"
    /\ \A c, d \in Conns : cpc[c] \in BusyPCs /\ cpc[d] \in BusyPCs /\ serveOf[c] = serveOf[d]
                               => c = d

\* What s.open counts: connections, and the Serve calls that accept.
CountedPCs == {"hand", "begin", "read", "handle", "idle", "cleanup"}

CountedConns == {c \in AllConns : cpc[c] \in CountedPCs}
CountedServes == {s \in Serves : spc[s] \in {"accept", "busy", "return"}}

OpenCounted == open = Cardinality(CountedConns) + Cardinality(CountedServes)

\* What a Shutdown that holds s.mu has closed.
ListenInv ==
    /\ \A d \in Shutdowns : shpc[d] \in {"close", "wait", "reset"} => mu = d
    /\ \A s \in Serves : spc[s] # "off" /\ s \in lnOpen => s \in lns
    /\ \A d \in Shutdowns : shpc[d] = "close" => lns \cap lnOpen \subseteq todo
    /\ \A d \in Shutdowns : shpc[d] \in {"wait", "reset"} => lns \cap lnOpen = {}

\* What the hook was told last of a connection without perIPConn.
HookOK(c) ==
    /\ cpc[c] \in {"new", "reject", "rejected", "state"} => hook[c] = "none"
    /\ cpc[c] \in {"count", "hand", "refuse", "refuseUnregister", "refused", "begin"} =>
          hook[c] = "New"
    /\ cpc[c] = "read" => hook[c] \in {"New", "Idle"}
    /\ cpc[c] = "handle" => hook[c] = "Active"
    /\ cpc[c] = "idle" => hook[c] = "Idle"
    /\ cpc[c] \in {"cleanup", "uncount", "finish", "unregister", "closed"} =>
          hook[c] \in IF hpc[c] = "off" THEN {"New", "Active", "Idle"} ELSE {"Active"}

HookInv == \A c \in Conns : wrap[c] = None => HookOK(c)

\* What s.concurrency counts: serveConn calls, and the ServeConn calls once more.
InServePCs == {"read", "handle", "idle", "cleanup", "uncount"}
InDirectPCs == InServePCs \cup {"overLimit", "count", "begin", "uncountDirect"}

InServeConn == {c \in AllConns : cpc[c] \in InServePCs}
InDirect == {c \in Direct : cpc[c] \in InDirectPCs}

ConcurrencyCounted == concurrency = Cardinality(InServeConn) + Cardinality(InDirect)

Types ==
    /\ mu \in Shutdowns \cup {None} /\ lns \in SUBSET Serves
    /\ lnOpen \in SUBSET Serves /\ todo \in SUBSET Serves /\ stop \in BOOLEAN
    /\ open \in Int /\ concurrency \in Int
    /\ perIP \in [IPs -> Int] /\ inner \in [Wraps -> AllConns \cup {None}]
    /\ spc \in [Serves -> {"off", "count", "accept", "busy", "return", "returned"}]
    /\ shpc \in [Shutdowns -> {"off", "close", "wait", "reset", "returned", "failed"}]
    /\ cpc \in [AllConns -> PCs]
    /\ hpc \in [AllConns -> {"off", "run", "unregister", "done"}]
    /\ serveOf \in [AllConns -> Serves \cup {None}]
    /\ ip \in [AllConns -> IPs \cup {NoIP}] /\ wrap \in [AllConns -> Wraps \cup {None}]
    /\ sock \in [AllConns -> {"none", "open", "closed"}]
    /\ hook \in [AllConns \cup Wraps -> {"none", "New", "Active", "Idle", "Hijacked", "Closed"}]
    /\ reqs \in [AllConns -> 0..MaxRequests]

\* Without a limit the addresses are not counted.
NotCounted == MaxConnsPerIP = 0 => \A i \in IPs : perIP[i] = 0

ServerInv ==
    /\ Types /\ ConnInv /\ IPLimitExact /\ BusyInv /\ OpenCounted /\ ListenInv
    /\ ShutdownDrained /\ HookInv /\ ConcurrencyCounted /\ NotCounted

-----------------------------------------------------------------------------
(* The steps of the connections that only move a goroutine on. *)

\* These leave connVars and hpc alone.
MoveOn(c) ==
    \/ ServeState(c) \/ CountOpen(c) \/ PoolAccepts(c) \/ PoolRefuses(c) \/ RefuseState(c)
    \/ ServeConnLimit(c) \/ ServeConnOverLimit(c) \/ Begin(c) \/ CheckStop(c)
    \/ CleanupOpen(c) \/ CleanupConcurrency(c) \/ ServeConnUncount(c)
    \/ FinishState(c) \/ FinishHijacked(c)
    \/ ReadRequest(c) \/ ReadFails(c) \/ RespondClose(c) \/ RespondKeep(c)

\* The two steps of Close, wherever it is called.
Closes(c) == RefuseClose(c) \/ FinishClose(c) \/ HijackClose(c)
Unregisters(c) == RefuseUnregister(c) \/ FinishUnregister(c) \/ HijackUnregister(c)

CloseMoves(c, p, h) ==
    \/ cpc[c] = "refuse" /\ p = "refuseUnregister" /\ h = hpc[c]
    \/ cpc[c] = "finish" /\ hpc[c] = "off" /\ p = "unregister" /\ h = "off"
    \/ hpc[c] = "run" /\ h = "unregister" /\ p = cpc[c]

UnregisterMoves(c, p, h) ==
    \/ cpc[c] = "refuseUnregister" /\ p = (IF c \in Direct THEN "done" ELSE "refused") /\ h = hpc[c]
    \/ cpc[c] = "unregister" /\ p = "closed" /\ h = hpc[c]
    \/ hpc[c] = "unregister" /\ h = "done" /\ p = cpc[c]

ConnAction(c) ==
    \/ MoveOn(c) \/ Reject(c) \/ RejectClose(c) \/ Closes(c) \/ Unregisters(c)
    \/ RespondHijack(c)

ServeAction(s) == ServeListen(s) \/ ServeCount(s) \/ AcceptError(s) \/ ServeReturn(s)

LEMMA NextCases ==
    ASSUME Next
    PROVE  \/ \E s \in Serves : ServeAction(s) \/ CloseListener(s)
           \/ \E s \in Serves : \E c \in Conns : acceptConn(s, c)
           \/ \E c \in Direct : ServeConn(c)
           \/ \E c \in AllConns : ConnAction(c)
           \/ \E d \in Shutdowns : ShutdownStep(d)
           \/ UNCHANGED vars
BY DEF Next, ServeStep, ConnStep, Respond, MoveOn, ConnAction, Closes, Unregisters, ServeAction

\* Whatever step MoveOn takes, it is one of these moves.
Moves ==
    {<<"state", "count">>, <<"count", "begin">>, <<"count", "hand">>, <<"hand", "begin">>,
     <<"hand", "refuse">>, <<"refused", "done">>, <<"limit", "overLimit">>, <<"limit", "count">>,
     <<"overLimit", "refuse">>, <<"begin", "read">>, <<"idle", "cleanup">>, <<"idle", "read">>,
     <<"cleanup", "uncount">>, <<"uncount", "uncountDirect">>, <<"uncount", "finish">>,
     <<"uncountDirect", "finish">>, <<"closed", "done">>, <<"finish", "done">>,
     <<"read", "handle">>, <<"read", "cleanup">>, <<"handle", "cleanup">>, <<"handle", "idle">>}

LEMMA MoveOnMoves ==
    ASSUME NEW c \in AllConns, MoveOn(c)
    PROVE  \E p : /\ cpc' = [cpc EXCEPT ![c] = p] /\ <<cpc[c], p>> \in Moves
                  /\ cpc[c] = "finish" => hpc[c] # "off"
                  /\ cpc[c] = "uncount" => (p = "uncountDirect" <=> c \in Direct)
                  /\ cpc[c] = "count" => (p = "begin" <=> c \in Direct)
                  /\ hpc' = hpc
                  /\ UNCHANGED <<serveOf, ip, wrap, sock, perIP, inner>>
                  /\ UNCHANGED listenVars
<1> USE DEF Goto, connVars, Moves
<1>1. CASE ServeState(c) \/ CountOpen(c) \/ PoolAccepts(c) \/ PoolRefuses(c) \/ RefuseState(c)
  BY <1>1 DEF ServeState, CountOpen, PoolAccepts, PoolRefuses, RefuseState
<1>2. CASE ServeConnLimit(c) \/ ServeConnOverLimit(c) \/ Begin(c) \/ CheckStop(c)
  BY <1>2 DEF ServeConnLimit, ServeConnOverLimit, Begin, CheckStop
<1>3. CASE \/ CleanupOpen(c) \/ CleanupConcurrency(c) \/ ServeConnUncount(c)
           \/ FinishState(c) \/ FinishHijacked(c)
  BY <1>3 DEF CleanupOpen, CleanupConcurrency, ServeConnUncount, FinishState, FinishHijacked
<1>4. CASE ReadRequest(c) \/ ReadFails(c) \/ RespondClose(c) \/ RespondKeep(c)
  BY <1>4 DEF ReadRequest, ReadFails, RespondClose, RespondKeep
<1> QED BY <1>1, <1>2, <1>3, <1>4 DEF MoveOn

-----------------------------------------------------------------------------
(* Connections and the counters of their addresses. *)

LEMMA RegisteredFinite ==
    ASSUME NEW i
    PROVE  /\ IsFiniteSet(Registered(i)) /\ Cardinality(Registered(i)) \in Nat
           /\ IsFiniteSet(AdmittedFrom(i)) /\ Cardinality(AdmittedFrom(i)) \in Nat
           /\ Cardinality(AdmittedFrom(i)) <= Cardinality(Registered(i))
<1>1. /\ Registered(i) \subseteq AllConns /\ IsFiniteSet(AllConns)
      /\ AdmittedFrom(i) \subseteq Registered(i)
  BY ServerAssumption DEF Registered, AdmittedFrom, AllConns, Counted
<1>2. IsFiniteSet(Registered(i)) /\ Cardinality(Registered(i)) \in Nat
  BY <1>1, FS_Subset, FS_CardinalityType
<1> QED BY <1>1, <1>2, FS_Subset, FS_CardinalityType

\* The admitted connections of an address become no more.
LEMMA FewerAdmitted ==
    ASSUME NEW i, \A d \in AllConns : Admitted(d)' => Admitted(d) /\ ip'[d] = ip[d]
    PROVE  Cardinality(AdmittedFrom(i)') \in Nat
           /\ Cardinality(AdmittedFrom(i)') <= Cardinality(AdmittedFrom(i))
<1>1. PICK S, T : S = AdmittedFrom(i) /\ T = AdmittedFrom(i)'
  OBVIOUS
<1>2. T \subseteq S
  BY <1>1 DEF AdmittedFrom
<1>3. IsFiniteSet(S)
  BY <1>1, RegisteredFinite
<1>4. IsFiniteSet(T) /\ Cardinality(T) <= Cardinality(S)
  BY ONLY <1>2, <1>3, FS_Subset
<1> QED BY <1>1, <1>4, FS_CardinalityType

\* A step that counts no connection in or out.
LEMMA SameRegistered ==
    ASSUME IPLimitExact, perIP' = perIP,
           \A d \in AllConns : /\ Counted(d)' <=> Counted(d)
                               /\ Counted(d) => ip'[d] = ip[d]
                               /\ Admitted(d)' => Admitted(d)
    PROVE  IPLimitExact'
<1>1. \A i : Registered(i)' = Registered(i)
  BY DEF Registered
<1>2. ASSUME MaxConnsPerIP > 0, NEW i \in IPs PROVE Cardinality(AdmittedFrom(i)') <= MaxConnsPerIP
  <2>1. \A d \in AllConns : Admitted(d)' => Admitted(d) /\ ip'[d] = ip[d]
    BY DEF Counted
  <2>2. Cardinality(AdmittedFrom(i)') \in Nat /\ Cardinality(AdmittedFrom(i)) \in Nat
        /\ Cardinality(AdmittedFrom(i)') <= Cardinality(AdmittedFrom(i))
    BY <2>1, FewerAdmitted, RegisteredFinite
  <2>3. Cardinality(AdmittedFrom(i)) <= MaxConnsPerIP
    BY <1>2 DEF IPLimitExact
  <2> QED BY <2>2, <2>3, ServerAssumption
<1> QED BY <1>1, <1>2 DEF IPLimitExact

\* A connection is counted out.
LEMMA CountedOut ==
    ASSUME ServerInv, NEW c \in AllConns, Counted(c), ~Counted(c)', ip' = ip,
           \A d \in AllConns \ {c} : Counted(d)' <=> Counted(d),
           \A d \in AllConns : Admitted(d)' => Admitted(d),
           IF MaxConnsPerIP > 0 /\ ip[c] # NoIP
           THEN perIP' = [perIP EXCEPT ![ip[c]] = @ - 1]
           ELSE MaxConnsPerIP = 0 \/ perIP' = perIP
    PROVE  IPLimitExact'
<1>1. ASSUME MaxConnsPerIP > 0, NEW i \in IPs
      PROVE  /\ perIP'[i] = Cardinality(Registered(i)')
             /\ Cardinality(AdmittedFrom(i)') <= MaxConnsPerIP
  <2>1. /\ perIP \in [IPs -> Int] /\ perIP[i] = Cardinality(Registered(i))
        /\ ip[c] \in IPs \cup {NoIP}
        /\ Cardinality(AdmittedFrom(i)) <= MaxConnsPerIP
    BY <1>1 DEF ServerInv, Types, IPLimitExact
  <2>2. Registered(i)' = Registered(i) \ {c}
    BY DEF Registered
  <2>3. perIP'[i] = Cardinality(Registered(i)')
    <3>1. CASE ip[c] = i
      <4>1. perIP' = [perIP EXCEPT ![i] = @ - 1]
        BY <1>1, <3>1, ServerAssumption
      <4>2. perIP'[i] = perIP[i] - 1
        BY <2>1, <4>1
      <4>3. c \in Registered(i)
        BY <3>1 DEF Registered
      <4>4. Cardinality(Registered(i) \ {c}) = Cardinality(Registered(i)) - 1
        BY <4>3, RegisteredFinite, CountOneLess
      <4> QED BY <2>1, <2>2, <4>2, <4>4
    <3>2. CASE ip[c] # i
      <4>1. perIP'[i] = perIP[i]
        BY <1>1, <2>1, <3>2, ServerAssumption
      <4>2. Registered(i) \ {c} = Registered(i)
        BY <3>2 DEF Registered
      <4> QED BY <2>1, <2>2, <4>1, <4>2
    <3> QED BY <3>1, <3>2
  <2>4. Cardinality(AdmittedFrom(i)') <= MaxConnsPerIP
    <3>1. Cardinality(AdmittedFrom(i)') \in Nat /\ Cardinality(AdmittedFrom(i)) \in Nat
          /\ Cardinality(AdmittedFrom(i)') <= Cardinality(AdmittedFrom(i))
      BY FewerAdmitted, RegisteredFinite
    <3> QED BY <2>1, <3>1, ServerAssumption
  <2> QED BY <2>3, <2>4
<1> QED BY <1>1 DEF IPLimitExact

LEMMA ConnMoveOn ==
    ASSUME ServerInv, NEW c \in AllConns, MoveOn(c)
    PROVE  ConnInv' /\ IPLimitExact'
<1>1. PICK p : /\ cpc' = [cpc EXCEPT ![c] = p] /\ <<cpc[c], p>> \in Moves
               /\ cpc[c] = "finish" => hpc[c] # "off"
               /\ hpc' = hpc /\ UNCHANGED <<serveOf, ip, wrap, sock, perIP, inner>>
  BY MoveOnMoves
<1>2. \A d \in AllConns : cpc'[d] = IF d = c THEN p ELSE cpc[d]
  BY <1>1 DEF ServerInv, Types
<1>3. /\ cpc[c] \notin {"new", "reject", "rejected", "refuseUnregister", "unregister"}
      /\ p \notin {"new", "reject", "rejected", "refuseUnregister", "unregister"}
  BY <1>1 DEF Moves
<1>4. /\ hpc[c] = "off" => (cpc[c] \in OpenPCs <=> p \in OpenPCs)
      /\ cpc[c] \in HijackedPCs => p \in HijackedPCs
  BY <1>1 DEF Moves, OpenPCs, HijackedPCs
<1>5. \A d \in AllConns : /\ Admitted(d)' <=> Admitted(d)
                          /\ Unregistering(d)' <=> Unregistering(d)
                          /\ Counted(d)' <=> Counted(d)
  BY <1>1, <1>2, <1>3 DEF Admitted, Unregistering, Counted
<1>6. ASSUME NEW d \in AllConns PROVE SockOK(d)' /\ WrapOK(d)'
  BY <1>1, <1>2, <1>3, <1>4, <1>5 DEF ServerInv, ConnInv, SockOK, WrapOK
<1>7. IPLimitExact'
  BY <1>1, <1>5, SameRegistered DEF ServerInv
<1> QED BY <1>6, <1>7 DEF ConnInv

LEMMA ConnWrap ==
    ASSUME ServerInv, NEW c \in AllConns, cpc[c] = "new", NEW i \in IPs \cup {NoIP},
           NEW ok \in {"state", "limit"}, wrapPerIPConn(c, i, ok), hpc' = hpc
    PROVE  /\ ConnInv' /\ IPLimitExact'
           /\ cpc' = [cpc EXCEPT ![c] = ok] \/ cpc' = [cpc EXCEPT ![c] = "reject"]
<1>0. /\ DOMAIN cpc = AllConns /\ DOMAIN ip = AllConns /\ DOMAIN sock = AllConns
      /\ DOMAIN wrap = AllConns /\ DOMAIN inner = Wraps /\ perIP \in [IPs -> Int]
  BY DEF ServerInv, Types
<1>1. wrap[c] = None /\ hpc[c] = "off" /\ sock[c] # "open" /\ ~Counted(c)
  BY DEF ServerInv, ConnInv, SockOK, WrapOK, OpenPCs, HijackedPCs, Counted, Admitted,
         Unregistering
<1>2. /\ \A d \in AllConns : ip'[d] = IF d = c THEN i ELSE ip[d]
      /\ \A d \in AllConns : sock'[d] = IF d = c THEN "open" ELSE sock[d]
  BY <1>0 DEF wrapPerIPConn
<1>3. ASSUME NEW p \in {"state", "limit", "reject"}, Goto(c, p)
      PROVE  /\ \A d \in AllConns : cpc'[d] = IF d = c THEN p ELSE cpc[d]
             /\ \A d \in AllConns \ {c} : /\ Admitted(d)' <=> Admitted(d)
                                          /\ Unregistering(d)' <=> Unregistering(d)
                                          /\ Counted(d)' <=> Counted(d)
             /\ Counted(c)' /\ (Admitted(c)' <=> p # "reject") /\ ~Unregistering(c)'
             /\ \A d \in AllConns : SockOK(d)'
  <2>1. \A d \in AllConns : cpc'[d] = IF d = c THEN p ELSE cpc[d]
    BY <1>0, <1>3 DEF Goto
  <2>2. \A d \in AllConns : SockOK(d)'
    BY <1>1, <1>2, <2>1 DEF ServerInv, ConnInv, SockOK, OpenPCs, HijackedPCs
  <2> QED BY <1>1, <1>2, <2>1, <2>2 DEF Admitted, Unregistering, Counted
<1>4. CASE (MaxConnsPerIP = 0 \/ i = NoIP) /\ Goto(c, ok) /\ UNCHANGED <<perIP, inner, wrap>>
  <2>1. ASSUME NEW d \in AllConns PROVE SockOK(d)' /\ WrapOK(d)'
    BY <1>1, <1>2, <1>3, <1>4, ServerAssumption DEF ServerInv, ConnInv, WrapOK
  <2>2. IPLimitExact'
    <3>1. CASE MaxConnsPerIP = 0
      BY <3>1 DEF IPLimitExact
    <3>2. CASE i = NoIP
      <4>1. \A j \in IPs : Registered(j)' = Registered(j) /\ AdmittedFrom(j)' = AdmittedFrom(j)
        BY <1>1, <1>2, <1>3, <1>4, <3>2, ServerAssumption DEF Registered, AdmittedFrom, Counted
      <4> QED BY <1>4, <4>1 DEF ServerInv, IPLimitExact
    <3> QED BY <1>4, <3>1, <3>2
  <2> QED BY <1>4, <2>1, <2>2 DEF ConnInv, Goto
<1>5. CASE MaxConnsPerIP > 0 /\ i # NoIP
  <2>1. perIP' = [perIP EXCEPT ![i] = @ + 1] /\ i \in IPs
    BY <1>5 DEF wrapPerIPConn
  <2>2. /\ perIP'[i] = perIP[i] + 1 /\ perIP[i] \in Int
        /\ \A j \in IPs \ {i} : perIP'[j] = perIP[j]
    BY <1>0, <2>1
  \* The counter follows, whichever way the connection goes.
  <2>3. ASSUME NEW p \in {"state", "limit", "reject"}, Goto(c, p),
               p # "reject" => perIP[i] + 1 <= MaxConnsPerIP
        PROVE  IPLimitExact'
    <3>1. Registered(i)' = Registered(i) \cup {c} /\ c \notin Registered(i)
      BY <1>1, <1>2, <1>3, <2>3 DEF Registered
    <3>2. \A j \in IPs \ {i} : Registered(j)' = Registered(j) /\ AdmittedFrom(j)' = AdmittedFrom(j)
      BY <1>1, <1>2, <1>3, <2>3 DEF Registered, AdmittedFrom, Counted
    <3>3. perIP[i] = Cardinality(Registered(i)) /\ Cardinality(AdmittedFrom(i)) <= MaxConnsPerIP
      BY <1>5, <2>1 DEF ServerInv, IPLimitExact
    <3>4. Cardinality(Registered(i)') = perIP'[i] /\ IsFiniteSet(Registered(i)')
      BY <2>2, <3>1, <3>3, RegisteredFinite, CountOneMore
    <3>5. Cardinality(AdmittedFrom(i)') <= MaxConnsPerIP
      <4>1. CASE p = "reject"
        <5>1. AdmittedFrom(i)' = AdmittedFrom(i)
          BY <1>1, <1>2, <1>3, <2>3, <4>1 DEF AdmittedFrom, Counted
        <5> QED BY <3>3, <5>1
      <4>2. CASE p # "reject"
        <5>1. PICK S, T : S = Registered(i)' /\ T = AdmittedFrom(i)'
          OBVIOUS
        <5>2. T \subseteq S
          BY <5>1 DEF Registered, AdmittedFrom, Counted
        <5>3. IsFiniteSet(S) /\ Cardinality(S) = perIP[i] + 1
          BY <2>2, <3>4, <5>1
        <5>4. Cardinality(T) <= Cardinality(S) /\ Cardinality(T) \in Nat
          BY ONLY <5>2, <5>3, FS_Subset, FS_CardinalityType
        <5> QED BY <2>2, <2>3, <4>2, <5>1, <5>3, <5>4, ServerAssumption
      <4> QED BY <4>1, <4>2
    <3>6. \A j \in IPs : /\ perIP'[j] = Cardinality(Registered(j)')
                         /\ Cardinality(AdmittedFrom(j)') <= MaxConnsPerIP
      <4>1. ASSUME NEW j \in IPs \ {i} PROVE /\ perIP'[j] = Cardinality(Registered(j)')
                                             /\ Cardinality(AdmittedFrom(j)') <= MaxConnsPerIP
        BY <1>5, <2>2, <3>2, <4>1 DEF ServerInv, IPLimitExact
      <4> QED BY <3>4, <3>5, <4>1
    <3> QED BY <3>6 DEF IPLimitExact
  <2>4. CASE /\ perIP[i] + 1 > MaxConnsPerIP /\ Goto(c, "reject") /\ UNCHANGED <<inner, wrap>>
    <3>1. ASSUME NEW d \in AllConns PROVE SockOK(d)' /\ WrapOK(d)'
      BY <1>1, <1>2, <1>3, <1>5, <2>1, <2>4 DEF ServerInv, ConnInv, WrapOK
    <3> QED BY <2>3, <2>4, <3>1 DEF ConnInv, Goto
  <2>5. CASE /\ perIP[i] + 1 <= MaxConnsPerIP
             /\ \E w \in Wraps : /\ inner[w] = None
                                 /\ inner' = [inner EXCEPT ![w] = c]
                                 /\ wrap' = [wrap EXCEPT ![c] = w]
             /\ Goto(c, ok)
    <3>1. PICK w \in Wraps : inner[w] = None /\ inner' = [inner EXCEPT ![w] = c]
                             /\ wrap' = [wrap EXCEPT ![c] = w]
      BY <2>5
    <3>2. /\ \A d \in AllConns : wrap'[d] = IF d = c THEN w ELSE wrap[d]
          /\ \A v \in Wraps : inner'[v] = IF v = w THEN c ELSE inner[v]
      BY <1>0, <3>1
    <3>3. ASSUME NEW d \in AllConns PROVE SockOK(d)' /\ WrapOK(d)'
      <4>1. d # None
        BY ServerAssumption DEF AllConns
      <4> QED BY <1>1, <1>2, <1>3, <1>5, <2>5, <3>1, <3>2, <4>1 DEF ServerInv, ConnInv, WrapOK
    <3> QED BY <2>3, <2>5, <3>3 DEF ConnInv, Goto
  <2> QED BY <1>5, <2>4, <2>5, ServerAssumption DEF wrapPerIPConn
<1> QED BY <1>4, <1>5, ServerAssumption DEF wrapPerIPConn

\* A connection over the limit is counted out,
LEMMA ConnReject ==
    ASSUME ServerInv, NEW c \in AllConns, Reject(c)
    PROVE  ConnInv' /\ IPLimitExact'
<1>1. /\ cpc[c] = "reject" /\ perIP' = [perIP EXCEPT ![ip[c]] = @ - 1]
      /\ UNCHANGED <<hpc, ip, wrap, sock, inner>>
      /\ \A d \in AllConns : cpc'[d] = IF d = c THEN "rejected" ELSE cpc[d]
  BY DEF Reject, Goto, ServerInv, Types
<1>2. sock[c] = "open" /\ hpc[c] = "off" /\ ip[c] \in IPs /\ MaxConnsPerIP > 0
  BY <1>1 DEF ServerInv, ConnInv, SockOK, WrapOK, OpenPCs, HijackedPCs
<1>3. /\ \A d \in AllConns : /\ Admitted(d)' <=> Admitted(d)
                             /\ Unregistering(d)' <=> Unregistering(d)
      /\ \A d \in AllConns \ {c} : Counted(d)' <=> Counted(d)
      /\ Counted(c) /\ ~Counted(c)'
  BY <1>1, <1>2 DEF Admitted, Unregistering, Counted
<1>4. ASSUME NEW d \in AllConns PROVE SockOK(d)' /\ WrapOK(d)'
  BY <1>1, <1>2, <1>3 DEF ServerInv, ConnInv, SockOK, WrapOK, OpenPCs, HijackedPCs
<1>5. IPLimitExact'
  BY <1>1, <1>2, <1>3, ServerAssumption, CountedOut
<1> QED BY <1>4, <1>5 DEF ConnInv

\* and closed after that.
LEMMA ConnRejectClose ==
    ASSUME ServerInv, NEW c \in AllConns, RejectClose(c)
    PROVE  ConnInv' /\ IPLimitExact'
<1>1. /\ cpc[c] = "rejected" /\ UNCHANGED <<hpc, ip, wrap, perIP, inner>>
      /\ \A d \in AllConns : cpc'[d] = IF d = c THEN "done" ELSE cpc[d]
      /\ \A d \in AllConns : sock'[d] = IF d = c THEN "closed" ELSE sock[d]
  BY DEF RejectClose, Goto, ServerInv, Types
<1>2. hpc[c] = "off"
  BY <1>1 DEF ServerInv, ConnInv, SockOK, HijackedPCs
<1>3. \A d \in AllConns : /\ Admitted(d)' <=> Admitted(d)
                          /\ Unregistering(d)' <=> Unregistering(d)
                          /\ Counted(d)' <=> Counted(d)
  BY <1>1, <1>2 DEF Admitted, Unregistering, Counted
<1>4. ASSUME NEW d \in AllConns PROVE SockOK(d)' /\ WrapOK(d)'
  BY <1>1, <1>2, <1>3 DEF ServerInv, ConnInv, SockOK, WrapOK, OpenPCs, HijackedPCs
<1>5. IPLimitExact'
  BY <1>1, <1>3, SameRegistered DEF ServerInv
<1> QED BY <1>4, <1>5 DEF ConnInv

\* Close and Unregister reach the connection they are called for.
LEMMA OwnTarget ==
    ASSUME ServerInv, NEW c \in AllConns, sock[c] = "open" \/ Unregistering(c)
    PROVE  /\ Target(c) = c
           /\ Admitted(c) \/ Unregistering(c) =>
                 (wrap[c] = None <=> ~(MaxConnsPerIP > 0 /\ ip[c] # NoIP))
BY ServerAssumption DEF ServerInv, ConnInv, WrapOK, Target, Admitted

\* Where the first step of Close is taken,
LEMMA CloseEnds ==
    ASSUME Types, NEW c \in AllConns, Closes(c)
    PROVE  \E p, h :
              /\ cpc' = [cpc EXCEPT ![c] = p] /\ hpc' = [hpc EXCEPT ![c] = h]
              /\ CloseMoves(c, p, h) /\ Close(c)
              /\ UNCHANGED <<listenVars, counters, spc, serveOf, ip, wrap, hook, reqs>>
<1>0. cpc = [cpc EXCEPT ![c] = cpc[c]] /\ hpc = [hpc EXCEPT ![c] = hpc[c]]
  BY DEF Types
<1> USE DEF CloseMoves, Close, Goto
<1>1. CASE RefuseClose(c)
  BY <1>0, <1>1 DEF RefuseClose
<1>2. CASE FinishClose(c)
  BY <1>0, <1>2 DEF FinishClose
<1>3. CASE HijackClose(c)
  BY <1>0, <1>3 DEF HijackClose
<1> QED BY <1>1, <1>2, <1>3 DEF Closes

\* the second one,
LEMMA UnregisterEnds ==
    ASSUME Types, NEW c \in AllConns, Unregisters(c)
    PROVE  \E p, h :
              /\ cpc' = [cpc EXCEPT ![c] = p] /\ hpc' = [hpc EXCEPT ![c] = h]
              /\ UnregisterMoves(c, p, h) /\ Unregister(c)
              /\ UNCHANGED <<listenVars, counters, spc, serveOf, ip, wrap, hook, reqs>>
<1>0. cpc = [cpc EXCEPT ![c] = cpc[c]] /\ hpc = [hpc EXCEPT ![c] = hpc[c]]
  BY DEF Types
<1>1. Unregister(c) => UNCHANGED <<serveOf, ip, wrap>>
  BY DEF Unregister
<1> USE DEF UnregisterMoves, Goto
<1>2. CASE RefuseUnregister(c)
  BY <1>0, <1>1, <1>2 DEF RefuseUnregister
<1>3. CASE FinishUnregister(c)
  BY <1>0, <1>1, <1>3 DEF FinishUnregister
<1>4. CASE HijackUnregister(c)
  BY <1>0, <1>1, <1>4 DEF HijackUnregister
<1> QED BY <1>2, <1>3, <1>4 DEF Unregisters

\* and either of them.
LEMMA EndMoves ==
    ASSUME Types, NEW c \in AllConns, Closes(c) \/ Unregisters(c)
    PROVE  \E p, h :
              /\ cpc' = [cpc EXCEPT ![c] = p] /\ hpc' = [hpc EXCEPT ![c] = h]
              /\ CloseMoves(c, p, h) \/ UnregisterMoves(c, p, h)
              /\ UNCHANGED <<listenVars, counters, spc, serveOf, ip, wrap, hook, reqs>>
BY CloseEnds, UnregisterEnds

LEMMA ConnClose ==
    ASSUME ServerInv, NEW c \in AllConns, Closes(c)
    PROVE  ConnInv' /\ IPLimitExact' /\ Admitted(c) /\ sock' = [sock EXCEPT ![c] = "closed"]
           /\ UNCHANGED <<perIP, inner>>
<1>1. PICK p, h : /\ cpc' = [cpc EXCEPT ![c] = p] /\ hpc' = [hpc EXCEPT ![c] = h]
                  /\ CloseMoves(c, p, h) /\ Close(c) /\ UNCHANGED <<ip, wrap>>
  BY CloseEnds DEF ServerInv
<1>2. /\ \A d \in AllConns : cpc'[d] = IF d = c THEN p ELSE cpc[d]
      /\ \A d \in AllConns : hpc'[d] = IF d = c THEN h ELSE hpc[d]
  BY <1>1 DEF ServerInv, Types
<1>3. Admitted(c)
  BY <1>1 DEF CloseMoves, ServerInv, ConnInv, SockOK, OpenPCs, HijackedPCs, Admitted
<1>4. sock' = [sock EXCEPT ![c] = "closed"] /\ UNCHANGED <<perIP, inner>>
  BY <1>1, <1>3, OwnTarget DEF Close, Admitted
<1>5. \A d \in AllConns : sock'[d] = IF d = c THEN "closed" ELSE sock[d]
  BY <1>4 DEF ServerInv, Types
<1>6. /\ \A d \in AllConns \ {c} : /\ Admitted(d)' <=> Admitted(d)
                                   /\ Unregistering(d)' <=> Unregistering(d)
                                   /\ Counted(d)' <=> Counted(d)
      /\ ~Admitted(c)' /\ Unregistering(c)' /\ Counted(c)' /\ Counted(c)
  BY <1>1, <1>2, <1>3, <1>5 DEF CloseMoves, Admitted, Unregistering, Counted
<1>7. ASSUME NEW d \in AllConns PROVE SockOK(d)' /\ WrapOK(d)'
  <2>1. CASE d = c
    <3>1. SockOK(c)'
      BY <1>1, <1>2, <1>5 DEF CloseMoves, ServerInv, ConnInv, SockOK, OpenPCs, HijackedPCs
    <3>2. p \notin {"new", "reject", "rejected"}
      BY <1>1, <1>3 DEF CloseMoves, Admitted, ServerInv, ConnInv, SockOK, HijackedPCs
    <3>3. WrapOK(c)'
      BY <1>1, <1>2, <1>3, <1>4, <1>6, <3>2 DEF ServerInv, ConnInv, WrapOK
    <3> QED BY <2>1, <3>1, <3>3
  <2>2. CASE d # c
    BY <1>1, <1>2, <1>4, <1>5, <1>6, <2>2 DEF ServerInv, ConnInv, SockOK, WrapOK
  <2> QED BY <2>1, <2>2
<1>8. IPLimitExact'
  BY <1>1, <1>4, <1>6, SameRegistered DEF ServerInv
<1> QED BY <1>3, <1>4, <1>7, <1>8 DEF ConnInv

LEMMA ConnUnregister ==
    ASSUME ServerInv, NEW c \in AllConns, Unregisters(c)
    PROVE  /\ ConnInv' /\ IPLimitExact' /\ sock' = sock
           /\ \/ UNCHANGED <<perIP, inner>>
              \/ /\ wrap[c] \in Wraps /\ ip[c] \in IPs /\ MaxConnsPerIP > 0
                 /\ perIP' = [perIP EXCEPT ![ip[c]] = @ - 1]
                 /\ inner' = [inner EXCEPT ![wrap[c]] = None]
<1>1. PICK p, h : /\ cpc' = [cpc EXCEPT ![c] = p] /\ hpc' = [hpc EXCEPT ![c] = h]
                  /\ UnregisterMoves(c, p, h) /\ Unregister(c) /\ UNCHANGED <<ip, wrap>>
  BY UnregisterEnds DEF ServerInv
<1>2. /\ \A d \in AllConns : cpc'[d] = IF d = c THEN p ELSE cpc[d]
      /\ \A d \in AllConns : hpc'[d] = IF d = c THEN h ELSE hpc[d]
      /\ DOMAIN inner = Wraps /\ wrap[c] \in Wraps \cup {None} /\ ip[c] \in IPs \cup {NoIP}
  BY <1>1 DEF ServerInv, Types
<1>3. /\ Unregistering(c) /\ sock[c] # "open" /\ sock' = sock
      /\ p \notin {"new", "reject", "rejected", "refuseUnregister", "unregister"} /\ h # "unregister"
  BY <1>1 DEF UnregisterMoves, Unregister, Unregistering, ServerInv, ConnInv, SockOK, OpenPCs,
              HijackedPCs
<1>4. IF wrap[c] = None THEN perIP' = perIP /\ inner' = inner
      ELSE perIP' = [perIP EXCEPT ![ip[c]] = @ - 1] /\ inner' = [inner EXCEPT ![wrap[c]] = None]
  BY <1>1, <1>3, OwnTarget DEF Unregister
<1>5. wrap[c] = None <=> ~(MaxConnsPerIP > 0 /\ ip[c] # NoIP)
  BY <1>3, OwnTarget
<1>6. /\ \A d \in AllConns \ {c} : /\ Admitted(d)' <=> Admitted(d)
                                   /\ Unregistering(d)' <=> Unregistering(d)
                                   /\ Counted(d)' <=> Counted(d)
      /\ ~Admitted(c)' /\ ~Unregistering(c)' /\ ~Counted(c)' /\ Counted(c)
  BY <1>2, <1>3 DEF Admitted, Unregistering, Counted
<1>7. \A d \in AllConns \ {c} : (Admitted(d) \/ Unregistering(d)) /\ wrap[d] # None =>
                                    inner'[wrap[d]] = inner[wrap[d]]
  <2>1. ASSUME NEW d \in AllConns \ {c}, Admitted(d) \/ Unregistering(d), wrap[d] # None
        PROVE  inner'[wrap[d]] = inner[wrap[d]]
    <3>1. wrap[d] \in Wraps /\ inner[wrap[d]] = d
      BY <2>1, OwnTarget DEF ServerInv, Types, Target, Admitted
    <3>2. wrap[c] # None => wrap[c] \in Wraps /\ inner[wrap[c]] = c
      BY <1>3, OwnTarget DEF ServerInv, Types, Target
    <3> QED BY <1>2, <1>4, <3>1, <3>2
  <2> QED BY <2>1
<1>8. ASSUME NEW d \in AllConns PROVE SockOK(d)' /\ WrapOK(d)'
  <2>1. CASE d = c
    <3>1. SockOK(c)'
      BY <1>1, <1>2, <1>3 DEF UnregisterMoves, ServerInv, ConnInv, SockOK, OpenPCs, HijackedPCs
    <3>2. WrapOK(c)'
      BY <1>2, <1>3, <1>6 DEF WrapOK
    <3> QED BY <2>1, <3>1, <3>2
  <2>2. CASE d # c
    BY <1>1, <1>2, <1>3, <1>6, <1>7, <2>2, ServerAssumption
       DEF ServerInv, ConnInv, SockOK, WrapOK
  <2> QED BY <2>1, <2>2
<1>9. IPLimitExact'
  <2>1. \A d \in AllConns : Admitted(d)' => Admitted(d)
    BY <1>6
  <2> QED BY <1>1, <1>4, <1>5, <1>6, <2>1, CountedOut
<1> QED BY <1>2, <1>3, <1>4, <1>5, <1>8, <1>9 DEF ConnInv

LEMMA ConnHijack ==
    ASSUME ServerInv, NEW c \in AllConns, RespondHijack(c)
    PROVE  ConnInv' /\ IPLimitExact'
<1>1. /\ cpc[c] = "handle" /\ UNCHANGED <<ip, wrap, sock, perIP, inner>>
      /\ \A d \in AllConns : cpc'[d] = IF d = c THEN "cleanup" ELSE cpc[d]
      /\ \A d \in AllConns : hpc'[d] = IF d = c THEN "run" ELSE hpc[d]
  BY DEF RespondHijack, Goto, connVars, ServerInv, Types
<1>2. hpc[c] = "off"
  BY <1>1 DEF ServerInv, ConnInv, SockOK, HijackedPCs
<1>3. \A d \in AllConns : /\ Admitted(d)' <=> Admitted(d)
                          /\ Unregistering(d)' <=> Unregistering(d)
                          /\ Counted(d)' <=> Counted(d)
  BY <1>1, <1>2 DEF Admitted, Unregistering, Counted
<1>4. ASSUME NEW d \in AllConns PROVE SockOK(d)' /\ WrapOK(d)'
  BY <1>1, <1>3 DEF ServerInv, ConnInv, SockOK, WrapOK, OpenPCs, HijackedPCs
<1>5. IPLimitExact'
  BY <1>1, <1>3, SameRegistered DEF ServerInv
<1> QED BY <1>4, <1>5 DEF ConnInv

\* The steps of Serve and Shutdown leave the connections alone.
LEMMA ConnSame ==
    ASSUME ServerInv, UNCHANGED <<cpc, hpc, ip, wrap, sock, perIP, inner>>
    PROVE  ConnInv' /\ IPLimitExact'
<1>1. ConnInv'
  BY DEF ServerInv, ConnInv, SockOK, WrapOK, Admitted, Unregistering
<1>2. IPLimitExact'
  <2>1. \A d \in AllConns : (Counted(d)' <=> Counted(d)) /\ (Admitted(d)' <=> Admitted(d))
    BY DEF Counted, Admitted, Unregistering
  <2> QED BY <2>1, SameRegistered DEF ServerInv
<1> QED BY <1>1, <1>2

LEMMA OthersSame ==
    ASSUME \/ \E s \in Serves : ServeAction(s) \/ CloseListener(s)
           \/ \E d \in Shutdowns : ShutdownStep(d)
           \/ UNCHANGED vars
    PROVE  UNCHANGED <<cpc, hpc, serveOf, ip, wrap, sock, perIP, inner, hook, reqs, concurrency>>
BY DEF ServeAction, ServeListen, ServeCount, AcceptError, ServeReturn, CloseListener,
       ShutdownStep, ShutdownStart, ShutdownClose, ShutdownPoll, ShutdownReturn, vars,
       listenVars, counters, connVars

LEMMA ConnInvNext ==
    ASSUME ServerInv, [Next]_vars
    PROVE  ConnInv' /\ IPLimitExact'
<1>1. ASSUME NEW s \in Serves, NEW c \in Conns, acceptConn(s, c) PROVE ConnInv' /\ IPLimitExact'
  <2>1. PICK i \in IPs \cup {NoIP} : wrapPerIPConn(c, i, "state")
    BY <1>1 DEF acceptConn
  <2> QED BY <1>1, <2>1, ConnWrap DEF acceptConn, AllConns
<1>2. ASSUME NEW c \in Direct, ServeConn(c) PROVE ConnInv' /\ IPLimitExact'
  <2>1. PICK i \in IPs \cup {NoIP} : wrapPerIPConn(c, i, "limit")
    BY <1>2 DEF ServeConn
  <2> QED BY <1>2, <2>1, ConnWrap DEF ServeConn, AllConns
<1>3. ASSUME NEW c \in AllConns, ConnAction(c) PROVE ConnInv' /\ IPLimitExact'
  BY <1>3, ConnMoveOn, ConnReject, ConnRejectClose, ConnClose, ConnUnregister, ConnHijack
     DEF ConnAction
<1>4. CASE \/ \E s \in Serves : ServeAction(s) \/ CloseListener(s)
           \/ \E d \in Shutdowns : ShutdownStep(d)
           \/ UNCHANGED vars
  BY <1>4, OthersSame, ConnSame
<1> QED BY <1>1, <1>2, <1>3, <1>4, NextCases

-----------------------------------------------------------------------------
(* The Serve calls and the counters. *)

\* Who the Serve call of a connection is while it works on it.
LEMMA BusyServe ==
    ASSUME ServerInv, NEW c \in AllConns, cpc[c] \in BusyPCs, ServeNext(c)
    PROVE  \/ c \in Direct /\ spc' = spc
           \/ /\ c \in Conns /\ serveOf[c] \in Serves /\ spc[serveOf[c]] = "busy"
              /\ \A s \in Serves : spc'[s] = IF s = serveOf[c] THEN "accept" ELSE spc[s]
              /\ spc' = [spc EXCEPT ![serveOf[c]] = "accept"]
<1>1. CASE c \in Direct
  BY <1>1 DEF ServerInv, BusyInv, ServeNext
<1>2. CASE c \in Conns
  <2>1. serveOf[c] \in Serves /\ spc[serveOf[c]] = "busy"
    BY <1>2 DEF ServerInv, BusyInv
  <2>2. serveOf[c] # None
    BY <2>1, ServerAssumption
  <2> QED BY <1>2, <2>1, <2>2 DEF ServeNext, ServerInv, Types
<1> QED BY <1>1, <1>2 DEF AllConns

LEMMA MoveOnServe ==
    ASSUME NEW c \in AllConns, MoveOn(c)
    PROVE  \/ spc' = spc
           \/ cpc[c] \in {"hand", "refused"} /\ ServeNext(c)
BY DEF MoveOn, Goto, ServeState, CountOpen, PoolAccepts, PoolRefuses, RefuseState,
       ServeConnLimit, ServeConnOverLimit, Begin, CheckStop, CleanupOpen, CleanupConcurrency,
       ServeConnUncount, FinishState, FinishHijacked, ReadRequest, ReadFails, RespondClose,
       RespondKeep

LEMMA BusyInvNext ==
    ASSUME ServerInv, [Next]_vars
    PROVE  BusyInv'
<1>0. /\ DOMAIN cpc = AllConns /\ DOMAIN serveOf = AllConns /\ DOMAIN spc = Serves
      /\ \A c : c \in AllConns <=> c \in Conns \/ c \in Direct
      /\ \A c \in Conns : c \notin Direct
  BY ServerAssumption DEF ServerInv, Types, AllConns
\* A step of c that leaves its Serve call busy,
<1>1. ASSUME NEW c \in AllConns, NEW p, \A d \in AllConns : cpc'[d] = IF d = c THEN p ELSE cpc[d],
             spc' = spc, serveOf' = serveOf,
             c \in Conns => p \notin {"limit", "overLimit", "uncountDirect"},
             c \in Conns => p \notin BusyPCs \/ cpc[c] \in BusyPCs,
             c \in Direct => p \notin {"state", "hand", "refused"}
      PROVE  BusyInv'
  BY <1>0, <1>1 DEF ServerInv, BusyInv
\* or lets it go on.
<1>2. ASSUME NEW c \in AllConns, NEW p, \A d \in AllConns : cpc'[d] = IF d = c THEN p ELSE cpc[d],
             cpc[c] \in BusyPCs, ServeNext(c), serveOf' = serveOf, p \in {"begin", "done"}
      PROVE  BusyInv'
  <2>1. p \notin BusyPCs /\ p \notin {"limit", "overLimit", "uncountDirect", "state", "hand", "refused"}
    BY <1>2 DEF BusyPCs
  <2>2. CASE c \in Direct /\ spc' = spc
    BY <1>1, <1>2, <2>1, <2>2
  <2>3. CASE /\ c \in Conns /\ serveOf[c] \in Serves /\ spc[serveOf[c]] = "busy"
             /\ \A s \in Serves : spc'[s] = IF s = serveOf[c] THEN "accept" ELSE spc[s]
    BY <1>0, <1>2, <2>1, <2>3 DEF ServerInv, BusyInv
  <2> QED BY <1>2, <2>2, <2>3, BusyServe
<1>3. ASSUME NEW c \in AllConns, MoveOn(c) PROVE BusyInv'
  <2>1. PICK p : /\ cpc' = [cpc EXCEPT ![c] = p] /\ <<cpc[c], p>> \in Moves
                 /\ cpc[c] = "uncount" => (p = "uncountDirect" <=> c \in Direct)
                 /\ cpc[c] = "count" => (p = "begin" <=> c \in Direct)
                 /\ serveOf' = serveOf
    BY <1>3, MoveOnMoves
  <2>2. \A d \in AllConns : cpc'[d] = IF d = c THEN p ELSE cpc[d]
    BY <1>0, <2>1
  <2>3. /\ c \in Conns => cpc[c] \notin {"limit", "overLimit", "uncountDirect"}
        /\ c \in Direct => cpc[c] \notin {"state", "hand", "refused"}
    BY DEF ServerInv, BusyInv
  <2>4. /\ c \in Conns => p \notin {"limit", "overLimit", "uncountDirect"}
        /\ c \in Conns => p \notin BusyPCs \/ cpc[c] \in BusyPCs
        /\ c \in Direct => p \notin {"state", "hand", "refused"}
        /\ cpc[c] \in {"hand", "refused"} => p \in {"begin", "done", "refuse"}
    BY <1>0, <2>1, <2>3 DEF Moves, BusyPCs
  <2>5. CASE spc' = spc
    BY <1>1, <2>1, <2>2, <2>4, <2>5
  <2>6. CASE cpc[c] \in {"hand", "refused"} /\ ServeNext(c) /\ p \in {"begin", "done"}
    BY <1>2, <2>1, <2>2, <2>6 DEF BusyPCs
  <2>7. CASE p = "refuse"
    <3>1. spc' = spc
      <4>1. PoolRefuses(c) \/ ServeConnOverLimit(c)
        BY <1>0, <1>3, <2>2, <2>7
           DEF MoveOn, Goto, ServeState, CountOpen, PoolAccepts, RefuseState,
               ServeConnLimit, Begin, CheckStop, CleanupOpen, CleanupConcurrency,
               ServeConnUncount, FinishState, FinishHijacked, ReadRequest, ReadFails,
               RespondClose, RespondKeep
      <4> QED BY <4>1 DEF PoolRefuses, ServeConnOverLimit
    <3> QED BY <2>5, <3>1
  <2> QED BY <1>3, <2>4, <2>5, <2>6, <2>7, MoveOnServe
<1>4. ASSUME NEW c \in AllConns, Reject(c) \/ RejectClose(c) PROVE BusyInv'
  <2>1. CASE Reject(c)
    <3>1. /\ \A d \in AllConns : cpc'[d] = IF d = c THEN "rejected" ELSE cpc[d]
          /\ cpc[c] \in BusyPCs /\ spc' = spc /\ serveOf' = serveOf
      BY <1>0, <2>1 DEF Reject, Goto, BusyPCs
    <3> QED BY <1>0, <1>1, <3>1
  <2>2. CASE RejectClose(c)
    <3>1. /\ \A d \in AllConns : cpc'[d] = IF d = c THEN "done" ELSE cpc[d]
          /\ cpc[c] \in BusyPCs /\ ServeNext(c) /\ serveOf' = serveOf
      BY <1>0, <2>2 DEF RejectClose, Goto, BusyPCs
    <3> QED BY <1>2, <3>1
  <2> QED BY <1>4, <2>1, <2>2
<1>5. ASSUME NEW c \in AllConns, Closes(c) \/ Unregisters(c) \/ RespondHijack(c)
      PROVE  BusyInv'
  <2>1. CASE Closes(c) \/ Unregisters(c)
    <3>1. PICK p, h : /\ cpc' = [cpc EXCEPT ![c] = p] /\ serveOf' = serveOf /\ spc' = spc
                      /\ CloseMoves(c, p, h) \/ UnregisterMoves(c, p, h)
      BY <2>1, EndMoves DEF ServerInv
    <3>2. \A d \in AllConns : cpc'[d] = IF d = c THEN p ELSE cpc[d]
      BY <1>0, <3>1
    <3>3. /\ c \in Conns => cpc[c] \notin {"limit", "overLimit", "uncountDirect"}
          /\ c \in Direct => cpc[c] \notin {"state", "hand", "refused"}
      BY DEF ServerInv, BusyInv
    <3>4. /\ c \in Conns => p \notin {"limit", "overLimit", "uncountDirect"}
          /\ p \notin BusyPCs \/ cpc[c] \in BusyPCs
          /\ c \in Direct => p \notin {"state", "hand", "refused"}
      BY <3>1, <3>3 DEF CloseMoves, UnregisterMoves, BusyPCs
    <3> QED BY <1>1, <3>1, <3>2, <3>4
  <2>2. CASE RespondHijack(c)
    <3>1. /\ \A d \in AllConns : cpc'[d] = IF d = c THEN "cleanup" ELSE cpc[d]
          /\ serveOf' = serveOf /\ spc' = spc
      BY <1>0, <2>2 DEF RespondHijack, Goto, connVars
    <3>2. "cleanup" \notin BusyPCs
      BY DEF BusyPCs
    <3> QED BY <1>1, <3>1, <3>2
  <2> QED BY <1>5, <2>1, <2>2
<1>6. ASSUME NEW s \in Serves, NEW c \in Conns, acceptConn(s, c) PROVE BusyInv'
  <2>1. /\ spc[s] = "accept" /\ \A t \in Serves : spc'[t] = IF t = s THEN "busy" ELSE spc[t]
        /\ \A d \in AllConns : serveOf'[d] = IF d = c THEN s ELSE serveOf[d]
    BY <1>0, <1>6 DEF acceptConn
  <2>2. PICK p \in {"state", "reject"} : \A d \in AllConns : cpc'[d] = IF d = c THEN p ELSE cpc[d]
    <3>1. PICK i \in IPs \cup {NoIP} : wrapPerIPConn(c, i, "state")
      BY <1>6 DEF acceptConn
    <3>2. cpc' = [cpc EXCEPT ![c] = "state"] \/ cpc' = [cpc EXCEPT ![c] = "reject"]
      BY <3>1 DEF wrapPerIPConn, Goto
    <3> QED BY <1>0, <3>2
  <2> QED BY <1>0, <2>1, <2>2 DEF ServerInv, BusyInv
<1>7. ASSUME NEW c \in Direct, ServeConn(c) PROVE BusyInv'
  <2>1. PICK p \in {"limit", "reject"} : \A d \in AllConns : cpc'[d] = IF d = c THEN p ELSE cpc[d]
    <3>1. PICK i \in IPs \cup {NoIP} : wrapPerIPConn(c, i, "limit")
      BY <1>7 DEF ServeConn
    <3>2. cpc' = [cpc EXCEPT ![c] = "limit"] \/ cpc' = [cpc EXCEPT ![c] = "reject"]
      BY <3>1 DEF wrapPerIPConn, Goto
    <3> QED BY <1>0, <3>2
  <2>2. spc' = spc /\ serveOf' = serveOf
    BY <1>7 DEF ServeConn
  <2> QED BY <1>0, <1>1, <2>1, <2>2
<1>8. CASE \/ \E s \in Serves : ServeAction(s) \/ CloseListener(s)
           \/ \E d \in Shutdowns : ShutdownStep(d)
           \/ UNCHANGED vars
  <2>1. UNCHANGED <<cpc, serveOf>>
    BY <1>8, OthersSame
  <2>2. \A t \in Serves : spc[t] = "busy" => spc'[t] = "busy"
    BY <1>0, <1>8
       DEF ServeAction, ServeListen, ServeCount, AcceptError, ServeReturn, CloseListener,
           ShutdownStep, ShutdownStart, ShutdownClose, ShutdownPoll, ShutdownReturn, vars
  <2> QED BY <2>1, <2>2 DEF ServerInv, BusyInv
<1> QED BY <1>3, <1>4, <1>5, <1>6, <1>7, <1>8, NextCases DEF ConnAction

\* The counters, as a step moves c from one point to another.
OpenMoves(from, to) ==
    open' = open + (IF to \in CountedPCs THEN 1 ELSE 0) - (IF from \in CountedPCs THEN 1 ELSE 0)

ConcurrencyMoves(c, from, to) ==
    concurrency' = concurrency
        + (IF to \in InServePCs THEN 1 ELSE 0) - (IF from \in InServePCs THEN 1 ELSE 0)
        + (IF c \in Direct /\ to \in InDirectPCs THEN 1 ELSE 0)
        - (IF c \in Direct /\ from \in InDirectPCs THEN 1 ELSE 0)

LEMMA MoveOnCounters ==
    ASSUME ServerInv, NEW c \in AllConns, MoveOn(c)
    PROVE  OpenMoves(cpc[c], cpc'[c]) /\ ConcurrencyMoves(c, cpc[c], cpc'[c])
<1>0. /\ DOMAIN cpc = AllConns /\ open \in Int /\ concurrency \in Int
      /\ c \in Conns => cpc[c] \notin {"limit", "overLimit", "uncountDirect"}
      /\ c \in Direct => cpc[c] \notin {"state", "hand", "refused"}
      /\ c \notin Direct => c \in Conns
  BY DEF ServerInv, Types, BusyInv, AllConns
<1> USE DEF Goto, counters, OpenMoves, ConcurrencyMoves, CountedPCs, InServePCs, InDirectPCs
<1>1. CASE ServeState(c) \/ RefuseState(c) \/ FinishState(c) \/ FinishHijacked(c)
  BY <1>0, <1>1 DEF ServeState, RefuseState, FinishState, FinishHijacked
<1>2. CASE CountOpen(c)
  BY <1>0, <1>2 DEF CountOpen
<1>3. CASE PoolAccepts(c) \/ PoolRefuses(c)
  BY <1>0, <1>3 DEF PoolAccepts, PoolRefuses
<1>4. CASE ServeConnLimit(c)
  BY <1>0, <1>4 DEF ServeConnLimit
<1>5. CASE ServeConnOverLimit(c) \/ Begin(c)
  BY <1>0, <1>5 DEF ServeConnOverLimit, Begin
<1>6. CASE CheckStop(c)
  BY <1>0, <1>6 DEF CheckStop
<1>7. CASE CleanupOpen(c) \/ CleanupConcurrency(c) \/ ServeConnUncount(c)
  BY <1>0, <1>7 DEF CleanupOpen, CleanupConcurrency, ServeConnUncount
<1>8. CASE ReadRequest(c) \/ ReadFails(c)
  BY <1>0, <1>8 DEF ReadRequest, ReadFails
<1>9. CASE RespondClose(c) \/ RespondKeep(c)
  BY <1>0, <1>9 DEF RespondClose, RespondKeep
<1> QED BY <1>1, <1>2, <1>3, <1>4, <1>5, <1>6, <1>7, <1>8, <1>9 DEF MoveOn

\* A step of a connection moves its goroutine only, the counters with it, and lets its
\* Serve call at most go back to Accept.
LEMMA ConnActionCounters ==
    ASSUME ServerInv, NEW c \in AllConns, ConnAction(c)
    PROVE  /\ \A d \in AllConns : cpc'[d] = IF d = c THEN cpc'[c] ELSE cpc[d]
           /\ OpenMoves(cpc[c], cpc'[c]) /\ ConcurrencyMoves(c, cpc[c], cpc'[c])
           /\ \A s \in Serves : spc'[s] = spc[s] \/ (spc[s] = "busy" /\ spc'[s] = "accept")
<1>0. DOMAIN cpc = AllConns /\ open \in Int /\ concurrency \in Int
  BY DEF ServerInv, Types
<1>1. CASE MoveOn(c)
  <2>1. \A d \in AllConns : cpc'[d] = IF d = c THEN cpc'[c] ELSE cpc[d]
    BY <1>0, <1>1, MoveOnMoves
  <2>2. \A s \in Serves : spc'[s] = spc[s] \/ (spc[s] = "busy" /\ spc'[s] = "accept")
    BY <1>1, MoveOnServe, BusyServe DEF BusyPCs
  <2> QED BY <1>1, <2>1, <2>2, MoveOnCounters
<1>2. CASE Reject(c)
  <2>1. /\ cpc' = [cpc EXCEPT ![c] = "rejected"] /\ cpc[c] = "reject" /\ spc' = spc
        /\ open' = open /\ concurrency' = concurrency
    BY <1>2 DEF Reject, Goto, counters
  <2>2. OpenMoves(cpc[c], cpc'[c]) /\ ConcurrencyMoves(c, cpc[c], cpc'[c])
    BY <1>0, <2>1 DEF OpenMoves, ConcurrencyMoves, CountedPCs, InServePCs, InDirectPCs
  <2> QED BY <1>0, <2>1, <2>2
<1>3. CASE RejectClose(c)
  <2>1. /\ cpc' = [cpc EXCEPT ![c] = "done"] /\ cpc[c] = "rejected" /\ ServeNext(c)
        /\ open' = open /\ concurrency' = concurrency
    BY <1>3 DEF RejectClose, Goto, counters
  <2>2. \A s \in Serves : spc'[s] = spc[s] \/ (spc[s] = "busy" /\ spc'[s] = "accept")
    BY <2>1, BusyServe DEF BusyPCs
  <2>3. OpenMoves(cpc[c], cpc'[c]) /\ ConcurrencyMoves(c, cpc[c], cpc'[c])
    BY <1>0, <2>1 DEF OpenMoves, ConcurrencyMoves, CountedPCs, InServePCs, InDirectPCs
  <2> QED BY <1>0, <2>1, <2>2, <2>3
<1>4. CASE Closes(c) \/ Unregisters(c) \/ RespondHijack(c)
  <2>1. /\ spc' = spc /\ open' = open /\ concurrency' = concurrency
        /\ \E p : /\ cpc' = [cpc EXCEPT ![c] = p]
                  /\ \/ cpc[c] = "refuse" /\ p = "refuseUnregister"
                     \/ cpc[c] = "refuseUnregister" /\ p \in {"done", "refused"}
                     \/ cpc[c] = "finish" /\ p = "unregister"
                     \/ cpc[c] = "unregister" /\ p = "closed"
                     \/ cpc[c] = "handle" /\ p = "cleanup"
                     \/ p = cpc[c]
    <3>1. CASE Closes(c) \/ Unregisters(c)
      <4>1. PICK p, h : /\ cpc' = [cpc EXCEPT ![c] = p] /\ UNCHANGED counters /\ spc' = spc
                        /\ CloseMoves(c, p, h) \/ UnregisterMoves(c, p, h)
        BY <3>1, EndMoves DEF ServerInv
      <4> QED BY <4>1 DEF CloseMoves, UnregisterMoves, counters
    <3>2. CASE RespondHijack(c)
      BY <3>2 DEF RespondHijack, Goto, counters
    <3> QED BY <1>4, <3>1, <3>2
  <2>2. /\ \A d \in AllConns : cpc'[d] = IF d = c THEN cpc'[c] ELSE cpc[d]
        /\ \/ cpc[c] = "refuse" /\ cpc'[c] = "refuseUnregister"
           \/ cpc[c] = "refuseUnregister" /\ cpc'[c] \in {"done", "refused"}
           \/ cpc[c] = "finish" /\ cpc'[c] = "unregister"
           \/ cpc[c] = "unregister" /\ cpc'[c] = "closed"
           \/ cpc[c] = "handle" /\ cpc'[c] = "cleanup"
           \/ cpc'[c] = cpc[c]
    BY <1>0, <2>1
  <2>3. OpenMoves(cpc[c], cpc'[c]) /\ ConcurrencyMoves(c, cpc[c], cpc'[c])
    BY <1>0, <2>1, <2>2 DEF OpenMoves, ConcurrencyMoves, CountedPCs, InServePCs, InDirectPCs
  <2> QED BY <2>1, <2>2, <2>3
<1> QED BY <1>1, <1>2, <1>3, <1>4 DEF ConnAction

\* A connection is accepted, or given to ServeConn: it is not counted yet.
LEMMA ArriveCounters ==
    ASSUME ServerInv, NEW c \in AllConns, NEW i, NEW ok \in {"state", "limit"},
           wrapPerIPConn(c, i, ok), cpc[c] = "new", UNCHANGED counters
    PROVE  /\ \A d \in AllConns : cpc'[d] = IF d = c THEN cpc'[c] ELSE cpc[d]
           /\ cpc'[c] \in {ok, "reject"}
           /\ OpenMoves(cpc[c], cpc'[c]) /\ ConcurrencyMoves(c, cpc[c], cpc'[c])
<1>0. DOMAIN cpc = AllConns /\ open \in Int /\ concurrency \in Int
  BY DEF ServerInv, Types
<1>1. cpc' = [cpc EXCEPT ![c] = ok] \/ cpc' = [cpc EXCEPT ![c] = "reject"]
  BY DEF wrapPerIPConn, Goto
<1>2. cpc'[c] \in {ok, "reject"} /\ \A d \in AllConns : cpc'[d] = IF d = c THEN cpc'[c] ELSE cpc[d]
  BY <1>0, <1>1
<1>3. OpenMoves(cpc[c], cpc'[c]) /\ ConcurrencyMoves(c, cpc[c], cpc'[c])
  BY <1>0, <1>2 DEF OpenMoves, ConcurrencyMoves, CountedPCs, InServePCs, InDirectPCs, counters
<1> QED BY <1>2, <1>3

\* The counters stay right when they follow a move of one goroutine.
LEMMA CountersMoved ==
    ASSUME ServerInv, NEW c \in AllConns,
           \A d \in AllConns : cpc'[d] = IF d = c THEN cpc'[c] ELSE cpc[d],
           OpenMoves(cpc[c], cpc'[c]), ConcurrencyMoves(c, cpc[c], cpc'[c]),
           CountedServes' = CountedServes
    PROVE  OpenCounted' /\ ConcurrencyCounted'
<1>0. /\ IsFiniteSet(AllConns) /\ IsFiniteSet(Direct) /\ Direct \subseteq AllConns
      /\ open \in Int /\ concurrency \in Int /\ Cardinality(CountedServes) \in Nat
  <2>1. IsFiniteSet(AllConns) /\ Direct \subseteq AllConns /\ IsFiniteSet(Serves)
    BY ServerAssumption DEF AllConns
  <2>2. IsFiniteSet(Direct) /\ IsFiniteSet(CountedServes)
    BY <2>1, FS_Subset DEF CountedServes
  <2> QED BY <2>1, <2>2, FS_CardinalityType DEF ServerInv, Types
<1>1. PICK f, g, p : f = cpc /\ g = cpc' /\ p = cpc'[c]
  OBVIOUS
<1>2. OnlyMoves(AllConns, f, g, c, p) /\ OnlyMoves(Direct, f, g, c, p)
  BY <1>0, <1>1 DEF OnlyMoves
<1>3. /\ NumberAt(AllConns, f, CountedPCs) \in Nat
      /\ NumberAt(AllConns, g, CountedPCs) = NumberAt(AllConns, f, CountedPCs)
             + (IF c \in AllConns /\ p \in CountedPCs THEN 1 ELSE 0)
             - (IF c \in AllConns /\ f[c] \in CountedPCs THEN 1 ELSE 0)
  <2>1. IsFiniteSet(AllConns) /\ OnlyMoves(AllConns, f, g, c, p)
    BY <1>0, <1>2
  <2> QED BY ONLY <2>1, CountMoved, Zenon
<1>4. /\ NumberAt(AllConns, f, InServePCs) \in Nat
      /\ NumberAt(AllConns, g, InServePCs) = NumberAt(AllConns, f, InServePCs)
             + (IF c \in AllConns /\ p \in InServePCs THEN 1 ELSE 0)
             - (IF c \in AllConns /\ f[c] \in InServePCs THEN 1 ELSE 0)
  <2>1. IsFiniteSet(AllConns) /\ OnlyMoves(AllConns, f, g, c, p)
    BY <1>0, <1>2
  <2> QED BY ONLY <2>1, CountMoved, Zenon
<1>5. /\ NumberAt(Direct, f, InDirectPCs) \in Nat
      /\ NumberAt(Direct, g, InDirectPCs) = NumberAt(Direct, f, InDirectPCs)
             + (IF c \in Direct /\ p \in InDirectPCs THEN 1 ELSE 0)
             - (IF c \in Direct /\ f[c] \in InDirectPCs THEN 1 ELSE 0)
  BY <1>0, <1>2, CountMoved
<1>6. OpenCounted'
  <2>1. open = NumberAt(AllConns, f, CountedPCs) + Cardinality(CountedServes)
    BY <1>1 DEF ServerInv, OpenCounted, CountedConns, NumberAt
  <2>2. open' = NumberAt(AllConns, g, CountedPCs) + Cardinality(CountedServes)
    BY <1>0, <1>1, <1>3, <2>1 DEF OpenMoves
  <2> QED BY <1>1, <2>2 DEF OpenCounted, CountedConns, NumberAt
<1>7. ConcurrencyCounted'
  <2>1. concurrency = NumberAt(AllConns, f, InServePCs) + NumberAt(Direct, f, InDirectPCs)
    BY <1>1 DEF ServerInv, ConcurrencyCounted, InServeConn, InDirect, NumberAt
  <2>2. concurrency' = NumberAt(AllConns, g, InServePCs) + NumberAt(Direct, g, InDirectPCs)
    BY <1>0, <1>1, <1>4, <1>5, <2>1 DEF ConcurrencyMoves
  <2> QED BY <1>1, <2>2 DEF ConcurrencyCounted, InServeConn, InDirect, NumberAt
<1> QED BY <1>6, <1>7

\* The counters and what they count, at every step.
LEMMA CountersNext ==
    ASSUME ServerInv, [Next]_vars
    PROVE  OpenCounted' /\ ConcurrencyCounted'
<1>0. /\ DOMAIN spc = Serves /\ open \in Int /\ IsFiniteSet(Serves)
      /\ IsFiniteSet(CountedServes)
      /\ Cardinality(CountedServes) \in Nat /\ Cardinality(CountedConns) \in Nat
  <2>1. IsFiniteSet(Serves) /\ IsFiniteSet(AllConns)
    BY ServerAssumption DEF AllConns
  <2>2. IsFiniteSet(CountedServes) /\ IsFiniteSet(CountedConns)
    BY <2>1, FS_Subset DEF CountedServes, CountedConns
  <2> QED BY <2>1, <2>2, FS_CardinalityType DEF ServerInv, Types
<1>1. ASSUME NEW c \in AllConns, ConnAction(c) PROVE OpenCounted' /\ ConcurrencyCounted'
  <2>1. CountedServes' = CountedServes
    BY <1>1, ConnActionCounters DEF CountedServes
  <2> QED BY <1>1, <2>1, ConnActionCounters, CountersMoved
<1>2. ASSUME NEW s \in Serves, NEW c \in Conns, acceptConn(s, c)
      PROVE  OpenCounted' /\ ConcurrencyCounted'
  <2>1. PICK i \in IPs \cup {NoIP} : wrapPerIPConn(c, i, "state")
    BY <1>2 DEF acceptConn
  <2>2. CountedServes' = CountedServes
    BY <1>0, <1>2 DEF acceptConn, CountedServes
  <2>3. c \in AllConns /\ cpc[c] = "new" /\ UNCHANGED counters
    BY <1>2 DEF acceptConn, AllConns
  <2> QED BY <2>1, <2>2, <2>3, ArriveCounters, CountersMoved
<1>3. ASSUME NEW c \in Direct, ServeConn(c) PROVE OpenCounted' /\ ConcurrencyCounted'
  <2>1. PICK i \in IPs \cup {NoIP} : wrapPerIPConn(c, i, "limit")
    BY <1>3 DEF ServeConn
  <2>2. CountedServes' = CountedServes
    BY <1>3 DEF ServeConn, CountedServes
  <2>3. c \in AllConns /\ cpc[c] = "new" /\ UNCHANGED counters
    BY <1>3 DEF ServeConn, AllConns
  <2> QED BY <2>1, <2>2, <2>3, ArriveCounters, CountersMoved
<1>4. CASE \/ \E s \in Serves : ServeAction(s) \/ CloseListener(s)
           \/ \E d \in Shutdowns : ShutdownStep(d)
           \/ UNCHANGED vars
  <2>1. UNCHANGED <<cpc, concurrency>>
    BY <1>4, OthersSame
  <2>2. ConcurrencyCounted' /\ CountedConns' = CountedConns
    BY <2>1 DEF ServerInv, ConcurrencyCounted, InServeConn, InDirect, CountedConns
  <2>3. CASE \E s \in Serves : ServeCount(s)
    <3>1. PICK s \in Serves : ServeCount(s)
      BY <2>3
    <3>2. CountedServes' = CountedServes \cup {s} /\ s \notin CountedServes /\ open' = open + 1
      BY <1>0, <3>1 DEF ServeCount, CountedServes
    <3>3. Cardinality(CountedServes') = Cardinality(CountedServes) + 1
      BY <1>0, <3>2, CountOneMore
    <3> QED BY <1>0, <2>2, <3>2, <3>3 DEF ServerInv, OpenCounted
  <2>4. CASE \E s \in Serves : ServeReturn(s)
    <3>1. PICK s \in Serves : ServeReturn(s)
      BY <2>4
    <3>2. CountedServes' = CountedServes \ {s} /\ s \in CountedServes /\ open' = open - 1
      BY <1>0, <3>1 DEF ServeReturn, CountedServes
    <3>3. Cardinality(CountedServes') = Cardinality(CountedServes) - 1
      BY <1>0, <3>2, CountOneLess
    <3> QED BY <1>0, <2>2, <3>2, <3>3 DEF ServerInv, OpenCounted
  <2>5. CASE \/ \E s \in Serves : ServeListen(s) \/ AcceptError(s) \/ CloseListener(s)
             \/ \E d \in Shutdowns : ShutdownStep(d)
             \/ UNCHANGED vars
    <3>1. open' = open /\ CountedServes' = CountedServes
      BY <1>0, <2>5
         DEF ServeListen, AcceptError, CloseListener, CountedServes, counters,
             ShutdownStep, ShutdownStart, ShutdownClose, ShutdownPoll, ShutdownReturn, vars
    <3> QED BY <2>2, <3>1 DEF ServerInv, OpenCounted
  <2> QED BY <1>4, <2>2, <2>3, <2>4, <2>5 DEF ServeAction
<1> QED BY <1>1, <1>2, <1>3, <1>4, NextCases

-----------------------------------------------------------------------------
(* Shutdown. *)

\* The steps of the connections touch no listener, and start no Serve call.
LEMMA ConnStepsListen ==
    ASSUME ServerInv,
           \/ \E s \in Serves : \E c \in Conns : acceptConn(s, c)
           \/ \E c \in Direct : ServeConn(c)
           \/ \E c \in AllConns : ConnAction(c)
    PROVE  /\ UNCHANGED <<mu, lns, lnOpen, todo, stop, shpc>>
           /\ \A s \in Serves : spc'[s] # "off" => spc[s] # "off"
<1>1. ASSUME NEW c \in AllConns, ConnAction(c)
      PROVE  /\ UNCHANGED <<mu, lns, lnOpen, todo, stop, shpc>>
             /\ \A s \in Serves : spc'[s] # "off" => spc[s] # "off"
  <2>1. UNCHANGED listenVars
    <3>1. CASE Closes(c) \/ Unregisters(c)
      BY <3>1, EndMoves DEF ServerInv
    <3>2. CASE MoveOn(c) \/ Reject(c) \/ RejectClose(c) \/ RespondHijack(c)
      BY <3>2, MoveOnMoves DEF Reject, RejectClose, RespondHijack
    <3> QED BY <1>1, <3>1, <3>2 DEF ConnAction
  <2> QED BY <1>1, <2>1, ConnActionCounters DEF listenVars
<1>2. ASSUME NEW s \in Serves, NEW c \in Conns, acceptConn(s, c)
      PROVE  /\ UNCHANGED <<mu, lns, lnOpen, todo, stop, shpc>>
             /\ \A t \in Serves : spc'[t] # "off" => spc[t] # "off"
  BY <1>2 DEF acceptConn, listenVars, ServerInv, Types
<1>3. ASSUME NEW c \in Direct, ServeConn(c)
      PROVE  /\ UNCHANGED <<mu, lns, lnOpen, todo, stop, shpc>>
             /\ \A t \in Serves : spc'[t] # "off" => spc[t] # "off"
  BY <1>3 DEF ServeConn, listenVars
<1> QED BY <1>1, <1>2, <1>3

\* s.mu keeps Serve from registering a listener, and other Shutdown calls from starting,
\* while a Shutdown closes the listeners and waits.
LEMMA ListenInvNext ==
    ASSUME ServerInv, [Next]_vars
    PROVE  ListenInv'
<1>0. /\ DOMAIN spc = Serves /\ DOMAIN shpc = Shutdowns /\ lns \in SUBSET Serves
      /\ \A d \in Shutdowns : d # None
  BY ServerAssumption DEF ServerInv, Types
<1>1. CASE \/ \E s \in Serves : \E c \in Conns : acceptConn(s, c)
           \/ \E c \in Direct : ServeConn(c)
           \/ \E c \in AllConns : ConnAction(c)
  BY <1>1, ConnStepsListen DEF ServerInv, ListenInv
<1>2. ASSUME NEW s \in Serves, ServeAction(s) \/ CloseListener(s) PROVE ListenInv'
  <2>1. CASE ServeListen(s)
    BY <1>0, <2>1 DEF ServeListen, ServerInv, ListenInv
  <2>2. CASE ServeCount(s) \/ AcceptError(s) \/ ServeReturn(s)
    BY <1>0, <2>2 DEF ServeCount, AcceptError, ServeReturn, listenVars, ServerInv, ListenInv
  <2>3. CASE CloseListener(s)
    BY <2>3 DEF CloseListener, ServerInv, ListenInv
  <2> QED BY <1>2, <2>1, <2>2, <2>3 DEF ServeAction
<1>3. ASSUME NEW d \in Shutdowns, ShutdownStep(d) PROVE ListenInv'
  <2>1. CASE ShutdownStart(d)
    BY <1>0, <2>1 DEF ShutdownStart, ServerInv, ListenInv
  <2>2. CASE ShutdownClose(d)
    BY <1>0, <2>2 DEF ShutdownClose, ServerInv, ListenInv
  <2>3. CASE ShutdownPoll(d) \/ ShutdownReturn(d)
    BY <1>0, <2>3 DEF ShutdownPoll, ShutdownReturn, ServerInv, ListenInv
  <2> QED BY <1>3, <2>1, <2>2, <2>3 DEF ShutdownStep
<1>4. CASE UNCHANGED vars
  BY <1>4 DEF vars, listenVars, ServerInv, ListenInv
<1> QED BY <1>1, <1>2, <1>3, <1>4, NextCases

\* Where the connections of the listeners may be once Shutdown has seen s.open = 0.
DrainedPCs == {"new", "uncount", "finish", "unregister", "closed", "done"}

LEMMA ShutdownDrainedNext ==
    ASSUME ServerInv, [Next]_vars
    PROVE  ShutdownDrained'
<1>0. /\ DOMAIN cpc = AllConns /\ DOMAIN shpc = Shutdowns /\ cpc \in [AllConns -> PCs]
      /\ Conns \subseteq AllConns
  BY DEF ServerInv, Types, AllConns
<1>1. CASE \E c \in AllConns : ConnAction(c)
  <2>1. PICK c \in AllConns : ConnAction(c)
    BY <1>1
  <2>2. shpc' = shpc
    BY <1>1, ConnStepsListen
  <2>3. \A d \in AllConns : cpc'[d] = IF d = c THEN cpc'[c] ELSE cpc[d]
    BY <2>1, ConnActionCounters
  <2>4. c \in Conns /\ cpc[c] \in DrainedPCs => cpc'[c] \in DrainedPCs
    <3> USE DEF DrainedPCs
    <3>1. CASE MoveOn(c)
      BY <1>0, <3>1, MoveOnMoves, ServerAssumption DEF Moves, ServerInv, BusyInv
    <3>2. CASE Reject(c) \/ RejectClose(c) \/ RespondHijack(c)
      BY <1>0, <3>2 DEF Reject, RejectClose, RespondHijack, Goto
    <3>3. CASE Closes(c) \/ Unregisters(c)
      BY <1>0, <3>3, EndMoves DEF ServerInv, CloseMoves, UnregisterMoves
    <3> QED BY <2>1, <3>1, <3>2, <3>3 DEF ConnAction
  <2> QED BY <1>0, <2>2, <2>3, <2>4 DEF ServerInv, ShutdownDrained, DrainedPCs
<1>2. CASE \E s \in Serves : \E c \in Conns : acceptConn(s, c)
  <2>1. PICK s \in Serves, c \in Conns : acceptConn(s, c)
    BY <1>2
  <2>2. spc[s] = "accept" /\ s \in lnOpen /\ shpc' = shpc
    BY <2>1 DEF acceptConn, listenVars
  <2>3. \A d \in Shutdowns : shpc[d] # "reset"
    BY <2>2 DEF ServerInv, ListenInv
  <2> QED BY <2>2, <2>3 DEF ShutdownDrained
<1>3. CASE \E c \in Direct : ServeConn(c)
  <2>1. PICK c \in Direct : ServeConn(c)
    BY <1>3
  <2>2. shpc' = shpc /\ \A d \in Conns : cpc'[d] = cpc[d]
    BY <1>0, <2>1, ServerAssumption DEF ServeConn, wrapPerIPConn, Goto, listenVars
  <2> QED BY <2>2 DEF ServerInv, ShutdownDrained
<1>4. CASE \E d \in Shutdowns : ShutdownPoll(d)
  <2>1. open = 0 /\ cpc' = cpc
    BY <1>4 DEF ShutdownPoll
  <2>2. CountedConns = {} /\ CountedServes = {}
    <3>1. IsFiniteSet(CountedConns) /\ IsFiniteSet(CountedServes)
      BY ServerAssumption, FS_Subset DEF CountedConns, CountedServes, AllConns
    <3>2. Cardinality(CountedConns) = 0 /\ Cardinality(CountedServes) = 0
      <4>1. Cardinality(CountedConns) \in Nat /\ Cardinality(CountedServes) \in Nat
        BY <3>1, FS_CardinalityType
      <4> QED BY <2>1, <4>1 DEF ServerInv, OpenCounted
    <3> QED BY <3>1, <3>2, FS_EmptySet
  <2>3. ASSUME NEW c \in Conns PROVE cpc[c] \in DrainedPCs
    <3>1. cpc[c] \notin CountedPCs
      BY <1>0, <2>2 DEF CountedConns
    <3>2. cpc[c] \notin BusyPCs
      BY <2>2 DEF CountedServes, ServerInv, BusyInv
    <3>3. cpc[c] \notin {"limit", "overLimit", "uncountDirect"} /\ cpc[c] \in PCs
      BY <1>0 DEF ServerInv, BusyInv
    <3> QED BY <3>1, <3>2, <3>3 DEF CountedPCs, BusyPCs, PCs, ServingPCs, DrainedPCs
  <2> QED BY <2>1, <2>3 DEF ShutdownDrained, DrainedPCs
<1>5. CASE \/ \E s \in Serves : ServeAction(s) \/ CloseListener(s)
           \/ \E d \in Shutdowns : ShutdownStart(d) \/ ShutdownClose(d) \/ ShutdownReturn(d)
           \/ UNCHANGED vars
  <2>1. cpc' = cpc
    BY <1>5, OthersSame DEF ShutdownStep
  <2>2. \A d \in Shutdowns : shpc'[d] = "reset" => shpc[d] = "reset"
    BY <1>0, <1>5
       DEF ServeAction, ServeListen, ServeCount, AcceptError, ServeReturn, CloseListener,
           ShutdownStart, ShutdownClose, ShutdownReturn, vars, listenVars
  <2> QED BY <2>1, <2>2 DEF ServerInv, ShutdownDrained
<1> QED BY <1>1, <1>2, <1>3, <1>4, <1>5, NextCases DEF ShutdownStep

-----------------------------------------------------------------------------
(* The ConnState hook. *)

\* A step is heard by the hook, if at all, as a documented transition,
HookStep(c) == hook'[c] # hook[c] => <<hook[c], hook'[c]>> \in Transitions

\* and through a perIPConn, unless it is the last one, from the connection it wraps.
WrapStep(w) ==
    hook'[w] # hook[w] /\ hook'[w] \notin {"Closed", "Hijacked"} =>
        \E c \in AllConns : inner[w] = c /\ sock[c] = "open" /\ cpc'[c] # cpc[c]

\* A step of a connection of a listener.
LEMMA HookConnAction ==
    ASSUME ServerInv, NEW c \in Conns, ConnAction(c), wrap[c] = None
    PROVE  HookOK(c)' /\ HookStep(c)
<1>0. /\ DOMAIN cpc = AllConns /\ DOMAIN hpc = AllConns /\ DOMAIN hook = AllConns \cup Wraps
      /\ c \in AllConns /\ c \notin Direct /\ NetConn(c) = c
      /\ HookOK(c) /\ SockOK(c) /\ cpc[c] \notin {"limit", "overLimit", "uncountDirect"}
  BY ServerAssumption DEF ServerInv, Types, AllConns, HookInv, ConnInv, BusyInv, NetConn
<1> USE <1>0 DEF HookOK, HookStep, Transitions, SockOK, HijackedPCs, Goto, setState
<1>1. CASE ServeState(c) \/ CountOpen(c) \/ PoolAccepts(c) \/ PoolRefuses(c)
  BY <1>1 DEF ServeState, CountOpen, PoolAccepts, PoolRefuses
<1>2. CASE RefuseState(c) \/ Begin(c) \/ CheckStop(c)
  BY <1>2 DEF RefuseState, Begin, CheckStop
<1>3. CASE CleanupOpen(c) \/ CleanupConcurrency(c)
  BY <1>3 DEF CleanupOpen, CleanupConcurrency
<1>4. CASE FinishState(c) \/ FinishHijacked(c)
  BY <1>4 DEF FinishState, FinishHijacked
<1>5. CASE ReadRequest(c) \/ ReadFails(c)
  BY <1>5 DEF ReadRequest, ReadFails
<1>6. CASE RespondClose(c) \/ RespondKeep(c)
  BY <1>6 DEF RespondClose, RespondKeep
<1>7. CASE RespondHijack(c)
  BY <1>7 DEF RespondHijack
<1>8. CASE Closes(c) \/ Unregisters(c)
  <2>1. PICK p, h : /\ cpc' = [cpc EXCEPT ![c] = p] /\ hpc' = [hpc EXCEPT ![c] = h]
                    /\ CloseMoves(c, p, h) \/ UnregisterMoves(c, p, h)
                    /\ hook' = hook
    BY <1>8, EndMoves DEF ServerInv
  <2>2. cpc'[c] = p /\ hpc'[c] = h /\ hook' = hook
    BY <2>1
  <2> QED BY <2>1, <2>2 DEF CloseMoves, UnregisterMoves
<1>9. CASE Reject(c) \/ RejectClose(c)
  BY <1>9 DEF Reject, RejectClose
<1>10. CASE ServeConnLimit(c) \/ ServeConnOverLimit(c) \/ ServeConnUncount(c)
  BY <1>10 DEF ServeConnLimit, ServeConnOverLimit, ServeConnUncount
<1> QED BY <1>1, <1>2, <1>3, <1>4, <1>5, <1>6, <1>7, <1>8, <1>9, <1>10 DEF ConnAction, MoveOn

\* Of which net.Conn the hook hears, and when of another state than the last ones.
LEMMA HookHears ==
    ASSUME ServerInv, NEW c \in AllConns, ConnAction(c)
    PROVE  \/ hook' = hook
           \/ \E st : /\ hook' = [hook EXCEPT ![NetConn(c)] = st]
                      /\ st \notin {"Closed", "Hijacked"} =>
                            cpc[c] \in {"state", "read", "handle"} /\ cpc'[c] # cpc[c]
<1>0. DOMAIN cpc = AllConns
  BY DEF ServerInv, Types
<1>1. CASE Closes(c) \/ Unregisters(c)
  BY <1>1, EndMoves DEF ServerInv
<1>2. CASE ServeState(c) \/ ReadRequest(c) \/ RespondKeep(c)
  <2>1. PICK st : hook' = [hook EXCEPT ![NetConn(c)] = st]
    BY <1>2 DEF ServeState, ReadRequest, RespondKeep, setState
  <2>2. cpc[c] \in {"state", "read", "handle"} /\ cpc'[c] # cpc[c]
    BY <1>0, <1>2 DEF ServeState, ReadRequest, RespondKeep, Goto
  <2> QED BY <2>1, <2>2
<1>3. CASE RefuseState(c) \/ FinishState(c) \/ FinishHijacked(c)
  <2>1. PICK st \in {"Closed", "Hijacked"} : hook' = [hook EXCEPT ![NetConn(c)] = st]
    BY <1>3 DEF RefuseState, FinishState, FinishHijacked, setState
  <2> QED BY <2>1
<1>4. CASE \/ Reject(c) \/ RejectClose(c) \/ RespondHijack(c)
           \/ CountOpen(c) \/ PoolAccepts(c) \/ PoolRefuses(c)
           \/ ServeConnLimit(c) \/ ServeConnOverLimit(c) \/ Begin(c) \/ CheckStop(c)
           \/ CleanupOpen(c) \/ CleanupConcurrency(c) \/ ServeConnUncount(c)
           \/ ReadFails(c) \/ RespondClose(c)
  BY <1>4 DEF Reject, RejectClose, RespondHijack, CountOpen, PoolAccepts, PoolRefuses,
              ServeConnLimit, ServeConnOverLimit, Begin, CheckStop, CleanupOpen,
              CleanupConcurrency, ServeConnUncount, ReadFails, RespondClose
<1> QED BY <1>1, <1>2, <1>3, <1>4 DEF ConnAction, MoveOn

\* A step leaves the other connections alone, and what the hook was told of a connection
\* that has a perIPConn.
LEMMA HookOthers ==
    ASSUME ServerInv, NEW c \in AllConns, ConnAction(c), NEW d \in AllConns
    PROVE  /\ d # c => hook'[d] = hook[d] /\ hpc'[d] = hpc[d] /\ cpc'[d] = cpc[d]
           /\ wrap[d] # None => hook'[d] = hook[d]
           /\ wrap' = wrap
<1>1. /\ DOMAIN hook = AllConns \cup Wraps /\ DOMAIN hpc = AllConns
      /\ wrap[c] \in Wraps \cup {None} /\ Wraps \cap AllConns = {}
  BY ServerAssumption DEF ServerInv, Types, AllConns
<1>2. d # c => cpc'[d] = cpc[d]
  BY ConnActionCounters
<1>3. (d # c => hpc'[d] = hpc[d]) /\ wrap' = wrap
  <2>1. CASE Closes(c) \/ Unregisters(c)
    BY <1>1, <2>1, EndMoves DEF ServerInv
  <2>2. CASE MoveOn(c) \/ Reject(c) \/ RejectClose(c) \/ RespondHijack(c)
    BY <1>1, <2>2, MoveOnMoves DEF Reject, RejectClose, RespondHijack, connVars
  <2> QED BY <2>1, <2>2 DEF ConnAction
<1>4. d # NetConn(c) => hook'[d] = hook[d]
  BY <1>1, HookHears
<1>5. d = NetConn(c) => d = c /\ wrap[c] = None
  BY <1>1 DEF NetConn
<1> QED BY <1>2, <1>3, <1>4, <1>5

LEMMA HookWraps ==
    ASSUME ServerInv, NEW c \in AllConns, ConnAction(c), NEW w \in Wraps
    PROVE  WrapStep(w)
<1> SUFFICES ASSUME hook'[w] # hook[w], hook'[w] \notin {"Closed", "Hijacked"}
             PROVE  inner[w] = c /\ sock[c] = "open" /\ cpc'[c] # cpc[c]
  BY DEF WrapStep
<1>0. DOMAIN hook = AllConns \cup Wraps /\ wrap[c] \in Wraps \cup {None} /\ c \notin Wraps
  BY ServerAssumption DEF ServerInv, Types, AllConns
<1>1. PICK st : /\ hook' = [hook EXCEPT ![NetConn(c)] = st]
                /\ st \notin {"Closed", "Hijacked"} =>
                      cpc[c] \in {"state", "read", "handle"} /\ cpc'[c] # cpc[c]
  BY HookHears
<1>2. w = NetConn(c) /\ hook'[w] = st
  BY <1>0, <1>1
<1>3. w = wrap[c] /\ wrap[c] # None
  BY <1>0, <1>2 DEF NetConn
<1>4. cpc[c] \in {"state", "read", "handle"} /\ cpc'[c] # cpc[c]
  BY <1>1, <1>2
<1>5. sock[c] = "open"
  BY <1>4 DEF ServerInv, ConnInv, SockOK, OpenPCs, HijackedPCs
<1>6. inner[w] = c
  BY <1>3, <1>5, OwnTarget DEF Target
<1> QED BY <1>4, <1>5, <1>6

LEMMA HookInvNext ==
    ASSUME ServerInv, [Next]_vars
    PROVE  HookInv' /\ (\A c \in Conns : HookStep(c)) /\ \A w \in Wraps : WrapStep(w)
<1>0. Conns \subseteq AllConns /\ DOMAIN cpc = AllConns /\ DOMAIN wrap = AllConns
  BY DEF AllConns, ServerInv, Types
<1>1. ASSUME NEW c \in AllConns, ConnAction(c), NEW d \in Conns
      PROVE  (wrap'[d] = None => HookOK(d)') /\ HookStep(d)
  <2>1. d \in AllConns
    BY <1>0
  <2>2. CASE wrap[d] # None
    BY <1>1, <2>1, <2>2, HookOthers DEF HookStep
  <2>3. CASE d = c /\ wrap[d] = None
    BY <1>1, <2>3, HookConnAction
  <2>4. CASE d # c /\ wrap[d] = None
    <3>1. hook'[d] = hook[d] /\ hpc'[d] = hpc[d] /\ cpc'[d] = cpc[d]
      BY <1>1, <2>1, <2>4, HookOthers
    <3> QED BY <2>4, <3>1 DEF HookOK, HookStep, ServerInv, HookInv
  <2> QED BY <2>2, <2>3, <2>4
<1>2. ASSUME NEW s \in Serves, NEW c \in Conns, acceptConn(s, c), NEW d \in Conns
      PROVE  (wrap'[d] = None => HookOK(d)') /\ HookStep(d)
  <2>1. hook' = hook /\ hpc' = hpc /\ cpc[c] = "new"
    BY <1>2 DEF acceptConn
  <2>2. PICK i : wrapPerIPConn(c, i, "state") /\ UNCHANGED counters
    BY <1>2 DEF acceptConn
  <2>3. cpc'[c] \in {"state", "reject"} /\ (d # c => cpc'[d] = cpc[d])
    BY <1>0, <2>1, <2>2, ArriveCounters
  <2>4. d # c => wrap'[d] = wrap[d]
    BY <1>0, <2>2 DEF wrapPerIPConn
  <2>5. wrap[c] = None
    BY <1>0, <2>1 DEF ServerInv, ConnInv, WrapOK
  <2> QED BY <2>1, <2>3, <2>4, <2>5 DEF HookOK, HookStep, ServerInv, HookInv
<1>3. ASSUME NEW c \in Direct, ServeConn(c), NEW d \in Conns
      PROVE  (wrap'[d] = None => HookOK(d)') /\ HookStep(d)
  <2>1. hook' = hook /\ hpc' = hpc /\ cpc'[d] = cpc[d] /\ wrap'[d] = wrap[d]
    BY <1>0, <1>3, ServerAssumption DEF ServeConn, wrapPerIPConn, Goto
  <2> QED BY <2>1 DEF HookOK, HookStep, ServerInv, HookInv
<1>4. CASE \/ \E s \in Serves : ServeAction(s) \/ CloseListener(s)
           \/ \E d \in Shutdowns : ShutdownStep(d)
           \/ UNCHANGED vars
  <2>1. UNCHANGED <<cpc, hpc, hook, wrap>>
    BY <1>4, OthersSame
  <2> QED BY <2>1 DEF HookOK, HookStep, WrapStep, ServerInv, HookInv
<1>5. CASE \/ \E s \in Serves : \E c \in Conns : acceptConn(s, c)
           \/ \E c \in Direct : ServeConn(c)
  <2>1. hook' = hook
    BY <1>5 DEF acceptConn, ServeConn
  <2>2. \A w \in Wraps : WrapStep(w)
    BY <2>1 DEF WrapStep
  <2> QED BY <1>2, <1>3, <1>5, <2>2 DEF HookInv
<1>6. CASE \E c \in AllConns : ConnAction(c)
  BY <1>1, <1>6, HookWraps DEF HookInv
<1> QED BY <1>4, <1>5, <1>6, NextCases

-----------------------------------------------------------------------------
(* The invariant as a whole. *)

LEMMA InvInit ==
    ASSUME Init
    PROVE  ServerInv
<1> USE DEF Init
<1>1. Types
  <2>1. /\ mu \in Shutdowns \cup {None} /\ lns \in SUBSET Serves
        /\ lnOpen \in SUBSET Serves /\ todo \in SUBSET Serves
        /\ open \in Int /\ concurrency \in Int
    OBVIOUS
  <2>3. stop \in BOOLEAN
    BY Zenon
  <2>2. /\ perIP \in [IPs -> Int] /\ inner \in [Wraps -> AllConns \cup {None}]
        /\ cpc \in [AllConns -> PCs] /\ reqs \in [AllConns -> 0..MaxRequests]
    BY ServerAssumption DEF PCs
  <2> QED BY <2>1, <2>2, <2>3 DEF Types
<1>2. ConnInv
  BY DEF ConnInv, SockOK, WrapOK, OpenPCs, HijackedPCs, Admitted, Unregistering
<1>3. IPLimitExact
  <2>1. \A i : Registered(i) = {} /\ AdmittedFrom(i) = {}
    BY DEF Registered, AdmittedFrom, Counted, Admitted, Unregistering
  <2> QED BY <2>1, FS_EmptySet, ServerAssumption DEF IPLimitExact
<1>4. BusyInv
  BY DEF BusyInv, BusyPCs, AllConns
<1>5. OpenCounted /\ ConcurrencyCounted
  <2>1. CountedConns = {} /\ CountedServes = {} /\ InServeConn = {} /\ InDirect = {}
    BY DEF CountedConns, CountedServes, InServeConn, InDirect, CountedPCs, InServePCs,
           InDirectPCs, AllConns
  <2> QED BY <2>1, FS_EmptySet DEF OpenCounted, ConcurrencyCounted
<1>6. ListenInv /\ ShutdownDrained
  BY DEF ListenInv, ShutdownDrained
<1>7. HookInv
  BY DEF HookInv, HookOK, AllConns
<1>8. NotCounted
  BY DEF NotCounted
<1> QED BY <1>1, <1>2, <1>3, <1>4, <1>5, <1>6, <1>7, <1>8 DEF ServerInv

\* The types of what the connections' steps change.
LEMMA ConnActionTypes ==
    ASSUME ServerInv, NEW c \in AllConns, ConnAction(c)
    PROVE  Types'
<1>0. Types
  BY DEF ServerInv
<1>1. UNCHANGED <<mu, lns, lnOpen, todo, stop, shpc>>
  BY ConnStepsListen
<1>2. open' \in Int /\ concurrency' \in Int
  BY <1>0, ConnActionCounters DEF OpenMoves, ConcurrencyMoves, Types
<1>3. spc' \in [Serves -> {"off", "count", "accept", "busy", "return", "returned"}]
  <2>1. \/ spc' = spc
        \/ cpc[c] \in BusyPCs /\ ServeNext(c)
    <3>1. CASE Closes(c) \/ Unregisters(c)
      BY <1>0, <3>1, EndMoves
    <3>2. CASE MoveOn(c) \/ Reject(c) \/ RejectClose(c) \/ RespondHijack(c)
      BY <3>2, MoveOnServe DEF BusyPCs, Reject, RejectClose, RespondHijack
    <3> QED BY <3>1, <3>2 DEF ConnAction
  <2> QED BY <1>0, <2>1, BusyServe DEF Types
<1>4. /\ cpc' \in [AllConns -> PCs]
      /\ hpc' \in [AllConns -> {"off", "run", "unregister", "done"}]
  <2>1. CASE Closes(c) \/ Unregisters(c)
    <3>1. PICK p, h : /\ cpc' = [cpc EXCEPT ![c] = p] /\ hpc' = [hpc EXCEPT ![c] = h]
                      /\ CloseMoves(c, p, h) \/ UnregisterMoves(c, p, h)
      BY <1>0, <2>1, EndMoves
    <3>2. p \in PCs /\ h \in {"off", "run", "unregister", "done"}
      BY <1>0, <3>1 DEF Types, CloseMoves, UnregisterMoves, PCs
    <3> QED BY <1>0, <3>1, <3>2 DEF Types
  <2>2. CASE MoveOn(c) \/ Reject(c) \/ RejectClose(c) \/ RespondHijack(c)
    <3>1. cpc' \in [AllConns -> PCs]
      BY <1>0, <2>2, MoveOnMoves
         DEF Types, Reject, RejectClose, RespondHijack, Goto, Moves, PCs, ServingPCs
    <3>2. hpc' = hpc \/ hpc' = [hpc EXCEPT ![c] = "run"]
      BY <2>2, MoveOnMoves DEF Reject, RejectClose, RespondHijack
    <3> QED BY <1>0, <3>1, <3>2 DEF Types
  <2> QED BY <2>1, <2>2 DEF ConnAction
<1>6. /\ serveOf' = serveOf /\ ip' = ip /\ wrap' = wrap
      /\ sock' \in [AllConns -> {"none", "open", "closed"}]
      /\ perIP' \in [IPs -> Int] /\ inner' \in [Wraps -> AllConns \cup {None}]
  <2>1. CASE MoveOn(c) \/ RespondHijack(c)
    BY <1>0, <2>1, MoveOnMoves DEF Types, RespondHijack, connVars
  <2>2. CASE Reject(c)
    <3>1. ip[c] \in IPs
      BY <2>2 DEF Reject, ServerInv, ConnInv, WrapOK
    <3> QED BY <1>0, <2>2, <3>1 DEF Types, Reject
  <2>3. CASE RejectClose(c)
    BY <1>0, <2>3 DEF Types, RejectClose
  <2>4. CASE Closes(c)
    <3>1. UNCHANGED <<serveOf, ip, wrap, perIP, inner>> /\ sock' = [sock EXCEPT ![c] = "closed"]
      BY <1>0, <2>4, EndMoves, ConnClose
    <3> QED BY <1>0, <3>1 DEF Types
  <2>5. CASE Unregisters(c)
    <3>1. UNCHANGED <<serveOf, ip, wrap, sock>>
      BY <1>0, <2>5, EndMoves, ConnUnregister
    <3>2. perIP' \in [IPs -> Int] /\ inner' \in [Wraps -> AllConns \cup {None}]
      BY <1>0, <2>5, ConnUnregister DEF Types
    <3> QED BY <1>0, <3>1, <3>2 DEF Types
  <2> QED BY <2>1, <2>2, <2>3, <2>4, <2>5 DEF ConnAction
<1>7. /\ hook' \in [AllConns \cup Wraps -> {"none", "New", "Active", "Idle", "Hijacked", "Closed"}]
      /\ reqs' \in [AllConns -> 0..MaxRequests]
  <2>0. NetConn(c) \in AllConns \cup Wraps
    BY <1>0 DEF NetConn, Types
  <2>1. CASE \/ ServeState(c) \/ RefuseState(c) \/ FinishState(c) \/ FinishHijacked(c)
             \/ RespondKeep(c)
    BY <1>0, <2>0, <2>1
       DEF Types, ServeState, RefuseState, FinishState, FinishHijacked, RespondKeep, setState
  <2>2. CASE ReadRequest(c)
    BY <1>0, <2>0, <2>2, ServerAssumption DEF Types, ReadRequest, setState
  <2>3. ASSUME ConnAction(c), ~(ServeState(c) \/ RefuseState(c) \/ FinishState(c)
               \/ FinishHijacked(c) \/ RespondKeep(c)), ~ReadRequest(c),
               ~(Closes(c) \/ Unregisters(c))
        PROVE  hook' = hook /\ reqs' = reqs
    BY <2>3
       DEF ConnAction, Reject, RejectClose, RespondHijack,
           MoveOn, CountOpen, PoolAccepts, PoolRefuses, ServeConnLimit, ServeConnOverLimit,
           Begin, CheckStop, CleanupOpen, CleanupConcurrency, ServeConnUncount, ReadFails,
           RespondClose
  <2>4. CASE Closes(c) \/ Unregisters(c)
    BY <1>0, <2>4, EndMoves DEF Types
  <2> QED BY <1>0, <2>1, <2>2, <2>3, <2>4 DEF Types
<1> QED BY <1>0, <1>1, <1>2, <1>3, <1>4, <1>6, <1>7 DEF Types

\* The arrival of a connection.
LEMMA WrapTypes ==
    ASSUME Types, NEW c \in AllConns, NEW i \in IPs \cup {NoIP}, NEW ok \in PCs,
           wrapPerIPConn(c, i, ok)
    PROVE  /\ cpc' \in [AllConns -> PCs] /\ ip' \in [AllConns -> IPs \cup {NoIP}]
           /\ sock' \in [AllConns -> {"none", "open", "closed"}]
           /\ perIP' \in [IPs -> Int] /\ inner' \in [Wraps -> AllConns \cup {None}]
           /\ wrap' \in [AllConns -> Wraps \cup {None}]
BY DEF Types, wrapPerIPConn, Goto, PCs

LEMMA TypesNext ==
    ASSUME ServerInv, [Next]_vars
    PROVE  Types'
<1>0. Types
  BY DEF ServerInv
<1>1. ASSUME NEW s \in Serves, NEW c \in Conns, acceptConn(s, c) PROVE Types'
  <2>1. PICK i \in IPs \cup {NoIP} : wrapPerIPConn(c, i, "state")
    BY <1>1 DEF acceptConn
  <2>2. c \in AllConns /\ "state" \in PCs
    BY DEF AllConns, PCs
  <2>3. /\ spc' = [spc EXCEPT ![s] = "busy"] /\ serveOf' = [serveOf EXCEPT ![c] = s]
        /\ UNCHANGED <<listenVars, counters, hpc, hook, reqs>>
    BY <1>1 DEF acceptConn
  <2>4. /\ spc' \in [Serves -> {"off", "count", "accept", "busy", "return", "returned"}]
        /\ serveOf' \in [AllConns -> Serves \cup {None}]
    BY <1>0, <2>3 DEF Types
  <2> QED BY <1>0, <2>1, <2>2, <2>3, <2>4, WrapTypes DEF Types, listenVars, counters
<1>2. ASSUME NEW c \in Direct, ServeConn(c) PROVE Types'
  <2>1. PICK i \in IPs \cup {NoIP} : wrapPerIPConn(c, i, "limit")
    BY <1>2 DEF ServeConn
  <2>2. c \in AllConns /\ "limit" \in PCs
    BY DEF AllConns, PCs
  <2>3. UNCHANGED <<listenVars, counters, spc, hpc, serveOf, hook, reqs>>
    BY <1>2 DEF ServeConn
  <2> QED BY <1>0, <2>1, <2>2, <2>3, WrapTypes DEF Types, listenVars, counters
<1>3. CASE \/ \E s \in Serves : ServeAction(s) \/ CloseListener(s)
           \/ \E d \in Shutdowns : ShutdownStep(d)
           \/ UNCHANGED vars
  <2>1. UNCHANGED <<cpc, hpc, serveOf, ip, wrap, sock, perIP, inner, hook, reqs, concurrency>>
    BY <1>3, OthersSame
  <2>2. /\ mu' \in Shutdowns \cup {None} /\ lns' \in SUBSET Serves
        /\ lnOpen' \in SUBSET Serves /\ todo' \in SUBSET Serves /\ stop' \in BOOLEAN
        /\ open' \in Int
        /\ spc' \in [Serves -> {"off", "count", "accept", "busy", "return", "returned"}]
        /\ shpc' \in [Shutdowns -> {"off", "close", "wait", "reset", "returned", "failed"}]
    <3>1. ASSUME NEW s \in Serves, ServeAction(s) \/ CloseListener(s) PROVE <2>2
      BY <1>0, <3>1
         DEF Types, ServeAction, ServeListen, ServeCount, AcceptError, ServeReturn,
             CloseListener, listenVars, counters
    <3>2. ASSUME NEW d \in Shutdowns, ShutdownStep(d) PROVE <2>2
      BY <1>0, <3>2
         DEF Types, ShutdownStep, ShutdownStart, ShutdownClose, ShutdownPoll, ShutdownReturn,
             counters
    <3>3. CASE UNCHANGED vars
      BY <1>0, <3>3 DEF Types, vars, listenVars, counters
    <3> QED BY <1>3, <3>1, <3>2, <3>3
  <2> QED BY <1>0, <2>1, <2>2 DEF Types
<1> QED BY <1>1, <1>2, <1>3, ConnActionTypes, NextCases

LEMMA NotCountedNext ==
    ASSUME ServerInv, [Next]_vars
    PROVE  NotCounted'
<1> SUFFICES ASSUME MaxConnsPerIP = 0 PROVE perIP' = perIP
  BY DEF ServerInv, NotCounted
<1>1. ASSUME NEW c \in AllConns, ConnAction(c) PROVE perIP' = perIP
  <2>1. CASE MoveOn(c) \/ RespondHijack(c)
    BY <2>1, MoveOnMoves DEF RespondHijack, connVars
  <2>2. CASE Reject(c)
    BY <2>2 DEF Reject, ServerInv, ConnInv, WrapOK
  <2>3. CASE RejectClose(c)
    BY <2>3 DEF RejectClose
  <2>4. CASE Closes(c) \/ Unregisters(c)
    BY <2>4, ConnClose, ConnUnregister
  <2> QED BY <1>1, <2>1, <2>2, <2>3, <2>4 DEF ConnAction
<1>2. CASE \/ \E s \in Serves : \E c \in Conns : acceptConn(s, c)
           \/ \E c \in Direct : ServeConn(c)
  BY <1>2 DEF acceptConn, ServeConn, wrapPerIPConn
<1> QED BY <1>1, <1>2, OthersSame, NextCases

LEMMA InvNext ==
    ASSUME ServerInv, [Next]_vars
    PROVE  ServerInv'
BY ConnInvNext, BusyInvNext, CountersNext, ListenInvNext, ShutdownDrainedNext, HookInvNext,
   TypesNext, NotCountedNext DEF ServerInv

LEMMA InvHolds == Spec => []ServerInv
<1>1. Init => ServerInv
  BY InvInit
<1>2. ServerInv /\ [Next]_vars => ServerInv'
  BY InvNext
<1> QED BY <1>1, <1>2, PTL DEF Spec

-----------------------------------------------------------------------------
(* The results. *)

\* Every variable keeps its type; s.open, s.concurrency and the counters of the addresses,
\* which the code decrements without a check, are never negative.
THEOREM TypeCorrect == Spec => []TypeOK
<1>1. ServerInv => TypeOK
  <2> SUFFICES ASSUME ServerInv PROVE TypeOK
    OBVIOUS
  <2>1. open \in Nat /\ concurrency \in Nat
    <3>1. IsFiniteSet(AllConns) /\ IsFiniteSet(Serves) /\ Direct \subseteq AllConns
      BY ServerAssumption DEF AllConns
    <3>2. /\ IsFiniteSet(CountedConns) /\ IsFiniteSet(CountedServes)
          /\ IsFiniteSet(InServeConn) /\ IsFiniteSet(InDirect)
      <4>1. /\ CountedConns \subseteq AllConns /\ CountedServes \subseteq Serves
            /\ InServeConn \subseteq AllConns /\ InDirect \subseteq AllConns
        BY <3>1 DEF CountedConns, CountedServes, InServeConn, InDirect
      <4> QED BY <3>1, <4>1, FS_Subset
    <3>3. /\ Cardinality(CountedConns) \in Nat /\ Cardinality(CountedServes) \in Nat
          /\ Cardinality(InServeConn) \in Nat /\ Cardinality(InDirect) \in Nat
      BY <3>2, FS_CardinalityType
    <3> QED BY <3>3 DEF ServerInv, OpenCounted, ConcurrencyCounted
  <2>2. perIP \in [IPs -> Nat]
    <3>1. ASSUME NEW i \in IPs PROVE perIP[i] \in Nat
      <4>1. CASE MaxConnsPerIP = 0
        BY <4>1 DEF ServerInv, NotCounted
      <4>2. CASE MaxConnsPerIP > 0
        BY <4>2, RegisteredFinite DEF ServerInv, IPLimitExact
      <4> QED BY <4>1, <4>2, ServerAssumption
    <3> QED BY <3>1 DEF ServerInv, Types
  <2> QED BY <2>1, <2>2 DEF ServerInv, Types, TypeOK, PCs
<1> QED BY <1>1, InvHolds, PTL

\* Register and Unregister of perIPConnCounter are paired on every way a connection can
\* take: the counter of an address is the number of its connections that are open or have
\* just to be uncounted, and no more than MaxConnsPerIP of them are admitted at a time.
THEOREM IPLimitExactCorrect == Spec => []IPLimitExact
BY InvHolds, PTL DEF ServerInv

\* A recycled perIPConn is never closed through an old reference: perIPConn.Close reaches
\* the connection of the goroutine that calls it.
THEOREM OwnWrapperCorrect == Spec => []OwnWrapper
<1>1. ServerInv => OwnWrapper
  <2>1. ASSUME ServerInv, NEW c \in AllConns,
               sock[c] = "open" \/ Unregistering(c) \/ hpc[c] = "run"
        PROVE  Target(c) = c
    BY <2>1, OwnTarget DEF ServerInv, ConnInv, SockOK
  <2> QED BY <2>1 DEF OwnWrapper
<1> QED BY <1>1, InvHolds, PTL

\* When Shutdown has read s.open = 0, no connection of a listener is on its way to a
\* handler or in one.
THEOREM ShutdownDrainedCorrect == Spec => []ShutdownDrained
BY InvHolds, PTL DEF ServerInv

\* s.open counts the connections between the two places where serveConn and Serve change
\* it, and the Serve calls that accept; s.concurrency counts the serveConn calls, and the
\* ServeConn calls once more.  No interleaving leaves either of them above or below that.
THEOREM CountersCorrect == Spec => [](OpenCounted /\ ConcurrencyCounted)
BY InvHolds, PTL DEF ServerInv

\* setState reports the documented transitions only; through a perIPConn it reports no
\* state but the last ones that is not one of the open connection it wraps.
THEOREM HookOrderCorrect == Spec => HookOrder
<1>1. ServerInv /\ [Next]_vars =>
        [/\ \A c \in Conns : hook'[c] # hook[c] => <<hook[c], hook'[c]>> \in Transitions
         /\ \A w \in Wraps :
               hook'[w] # hook[w] /\ hook'[w] \notin {"Closed", "Hijacked"} =>
                   \E c \in AllConns :
                       inner[w] = c /\ sock[c] = "open" /\ cpc'[c] # cpc[c]]_vars
  BY HookInvNext DEF HookStep, WrapStep
<1> QED BY <1>1, InvHolds, PTL DEF Spec, HookOrder
=============================================================================
