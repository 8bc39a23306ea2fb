-------------------------- MODULE WorkerPoolProofs --------------------------
(***************************************************************************)
(* Proofs about WorkerPool for any number of workers and connections, any  *)
(* limit and both channel capacities.                                      *)
(***************************************************************************)
EXTENDS WorkerPool, PoolLemmas, FiniteSetTheorems, SequenceTheorems, TLAPS

(***************************************************************************)
(* The type invariant needs the bounds of the binary search: clean slices  *)
(* ready with hi.                                                          *)
(***************************************************************************)
LocksMatch ==
    /\ lock = "clean" <=> cpc = "search"
    /\ lock = "stop" <=> apc = "stopLoop"
    /\ scratch # <<>> => cpc = "notify"

SearchBounds ==
    cpc = "search" => 0 <= lo /\ lo <= hi + 1 /\ hi < Len(ready)

TypeInv == TypeOK /\ LocksMatch /\ SearchBounds

LEMMA TypeInit == Init => TypeInv
<1> SUFFICES ASSUME Init PROVE TypeInv
  OBVIOUS
<1>1. /\ pc \in [Workers -> WorkerPCs]
      /\ box \in [Workers -> Conns \cup {Nil, Empty}]
      /\ cur \in [Workers -> Conns \cup {Empty}]
      /\ lastUseTime \in [Workers -> Int]
      /\ conn \in [Conns -> {"new", "accepted", "refused", "closed", "hijacked"}]
  BY DEF Init, WorkerPCs
<1>2. ready \in Seq(Workers) /\ scratch \in Seq(Workers) /\ hi \in Int
  BY DEF Init
<1>3. mustStop \in BOOLEAN
  BY Zenon DEF Init
<1>4. TypeOK
  BY <1>1, <1>2, <1>3 DEF Init, TypeOK
<1>5. LocksMatch /\ SearchBounds
  BY DEF Init, LocksMatch, SearchBounds
<1> QED BY <1>4, <1>5 DEF TypeInv

LEMMA TypeAcceptor ==
    ASSUME TypeInv, Acceptor PROVE TypeInv'
<1> USE PoolAssumption DEF TypeInv, TypeOK, LocksMatch, SearchBounds, WorkerPCs,
        poolVars, workerVars, acceptorVars, cleanerVars
<1>1. ASSUME NEW c \in Conns, GetReady(c) PROVE TypeInv'
  <2>1. /\ Len(ready) \in Nat /\ Len(ready) > 0
        /\ ready[Len(ready)] \in Workers
        /\ SubSeq(ready, 1, Len(ready) - 1) \in Seq(Workers)
    BY <1>1, EmptySeq DEF GetReady
  <2> QED BY <1>1, <2>1 DEF GetReady
<1>2. ASSUME NEW c \in Conns, GetNew(c) PROVE TypeInv'
  BY <1>2 DEF GetNew
<1>3. ASSUME NEW c \in Conns, Refuse(c) PROVE TypeInv'
  BY <1>3 DEF Refuse
<1>4. CASE SendConn
  BY <1>4 DEF SendConn, Send
<1>5. CASE StopClose
  BY <1>5 DEF StopClose
<1>6. CASE StopLock
  BY <1>6 DEF StopLock
<1>7. CASE StopSend
  <2>1. Head(ready) \in Workers /\ Tail(ready) \in Seq(Workers)
    BY <1>7 DEF StopSend
  <2> QED BY <1>7, <2>1 DEF StopSend, Send
<1>8. CASE StopUnlock
  BY <1>8 DEF StopUnlock
<1> QED BY <1>1, <1>2, <1>3, <1>4, <1>5, <1>6, <1>7, <1>8 DEF Acceptor

LEMMA TypeWorker ==
    ASSUME TypeInv, NEW w \in Workers, Worker(w) PROVE TypeInv'
<1> USE PoolAssumption DEF TypeInv, TypeOK, LocksMatch, SearchBounds, WorkerPCs,
        poolVars, workerVars, acceptorVars, cleanerVars
<1>1. CASE RecvConn(w)
  BY <1>1 DEF RecvConn
<1>2. CASE RecvNil(w)
  BY <1>2 DEF RecvNil
<1>3. CASE WorkerFunc(w)
  BY <1>3 DEF WorkerFunc
<1>4. CASE Stamp(w)
  BY <1>4 DEF Stamp
<1>5. CASE Release(w)
  <2>1. Append(ready, w) \in Seq(Workers)
    OBVIOUS
  <2>2. ready' \in Seq(Workers) /\ pc' \in [Workers -> WorkerPCs]
    BY <1>5, <2>1 DEF Release
  <2> QED BY <1>5, <2>2 DEF Release
<1>6. CASE Exit(w)
  BY <1>6 DEF Exit
<1>7. CASE Put(w)
  BY <1>7 DEF Put
<1> QED BY <1>1, <1>2, <1>3, <1>4, <1>5, <1>6, <1>7 DEF Worker

LEMMA TypeCleaner ==
    ASSUME TypeInv, Cleaner PROVE TypeInv'
<1> USE PoolAssumption DEF TypeInv, TypeOK, LocksMatch, SearchBounds, WorkerPCs,
        poolVars, workerVars, acceptorVars, cleanerVars
<1>1. CASE CleanStart
  BY <1>1 DEF CleanStart
<1>2. CASE CleanLock
  BY <1>2 DEF CleanLock
<1>3. CASE CleanSearch
  <2> DEFINE mid == (lo + hi) \div 2
  <2>1. mid \in Int /\ lo <= mid /\ mid <= hi
    BY <1>3 DEF CleanSearch
  <2> HIDE DEF mid
  <2>2. \/ lo' = mid + 1 /\ hi' = hi
        \/ hi' = mid - 1 /\ lo' = lo
    BY <1>3 DEF CleanSearch, mid
  <2> QED BY <1>3, <2>1, <2>2 DEF CleanSearch
<1>4. CASE CleanUnlock
  <2>1. hi + 1 \in 0..Len(ready) /\ hi + 2 \in 1..(Len(ready) + 1)
    BY <1>4 DEF CleanUnlock
  <2>2. /\ SubSeq(ready, 1, hi + 1) \in Seq(Workers)
        /\ SubSeq(ready, hi + 2, Len(ready)) \in Seq(Workers)
    BY <2>1
  <2> QED BY <1>4, <2>2 DEF CleanUnlock
<1>5. CASE CleanNotify
  <2>1. Head(scratch) \in Workers /\ Tail(scratch) \in Seq(Workers)
    BY <1>5 DEF CleanNotify
  <2> QED BY <1>5, <2>1 DEF CleanNotify, Send
<1>6. CASE CleanSelect
  BY <1>6 DEF CleanSelect
<1>7. CASE CleanWake
  BY <1>7 DEF CleanWake
<1> QED BY <1>1, <1>2, <1>3, <1>4, <1>5, <1>6, <1>7 DEF Cleaner

LEMMA TypeStep == TypeInv /\ [Next]_vars => TypeInv'
<1> SUFFICES ASSUME TypeInv, [Next]_vars PROVE TypeInv'
  OBVIOUS
<1>1. CASE Tick
  BY <1>1 DEF Tick, TypeInv, TypeOK, LocksMatch, SearchBounds, poolVars, workerVars,
              acceptorVars, cleanerVars
<1>2. CASE UNCHANGED vars
  BY <1>2 DEF vars, TypeInv, TypeOK, LocksMatch, SearchBounds, poolVars, workerVars,
              acceptorVars, cleanerVars
<1> QED BY <1>1, <1>2, TypeAcceptor, TypeWorker, TypeCleaner DEF Next, Terminated

\* The pool is well typed in every state: in particular the acceptor always sends to
\* a real worker and clean never slices ready outside its bounds.
THEOREM TypeCorrect == Spec => []TypeOK
<1>1. TypeInv => TypeOK
  BY DEF TypeInv
<1> QED BY <1>1, TypeInit, TypeStep, PTL DEF Spec

(***************************************************************************)
(* OneSource, with its four sources spelled out.                           *)
(***************************************************************************)
AcceptorSends(w) == apc = "send" /\ aw = w

SourcesOf(w) ==
    /\ pc[w] = "recv" <=>
          InSeq(w, ready) \/ AcceptorSends(w) \/ InSeq(w, scratch) \/ box[w] # Empty
    /\ InSeq(w, ready) => ~AcceptorSends(w) /\ ~InSeq(w, scratch) /\ box[w] = Empty
    /\ AcceptorSends(w) => ~InSeq(w, scratch) /\ box[w] = Empty
    /\ InSeq(w, scratch) => box[w] = Empty

SourceInv ==
    Distinct(ready) /\ Distinct(scratch) /\ \A w \in Workers : SourcesOf(w)

LEMMA OneSourceExpanded == OneSource <=> SourceInv
<1>1. ASSUME NEW w \in Workers
      PROVE  (IF pc[w] = "recv"
              THEN \E src \in SourceNames :
                      \A s \in SourceNames : Source(w, s) <=> s = src
              ELSE \A s \in SourceNames : ~Source(w, s))
             <=> SourcesOf(w)
  <2>1. /\ Source(w, "ready") <=> InSeq(w, ready)
        /\ Source(w, "acceptor") <=> AcceptorSends(w)
        /\ Source(w, "cleaner") <=> InSeq(w, scratch)
        /\ Source(w, "box") <=> box[w] # Empty
    BY DEF Source, AcceptorSends
  <2> QED BY <2>1 DEF SourceNames, SourcesOf
<1> QED BY <1>1 DEF OneSource, SourceInv

LEMMA SourceInit == Init => SourceInv
BY DEF Init, SourceInv, SourcesOf, AcceptorSends, Distinct, InSeq

LEMMA SourceAcceptor ==
    ASSUME TypeInv, SourceInv, Acceptor PROVE SourceInv'
<1> USE PoolAssumption DEF TypeInv, TypeOK, SourceInv, SourcesOf, AcceptorSends,
        poolVars, workerVars, acceptorVars, cleanerVars
<1>1. ASSUME NEW c \in Conns, GetReady(c) PROVE SourceInv'
  <2>1. /\ aw' \in Workers /\ InSeq(aw', ready)
        /\ \A w : InSeq(w, ready') <=> InSeq(w, ready) /\ w # aw'
        /\ Distinct(ready')
    BY <1>1, FrontMembers DEF GetReady
  <2>2. /\ pc' = pc /\ box' = box /\ scratch' = scratch
        /\ apc = "accept" /\ apc' = "send"
    BY <1>1 DEF GetReady
  <2> QED BY <2>1, <2>2
<1>2. ASSUME NEW c \in Conns, GetNew(c) PROVE SourceInv'
  <2>1. PICK w \in Workers : pc[w] = "pooled" /\ pc' = [pc EXCEPT ![w] = "recv"] /\ aw' = w
    BY <1>2 DEF GetNew
  <2>2. /\ ready' = ready /\ box' = box /\ scratch' = scratch
        /\ apc = "accept" /\ apc' = "send"
    BY <1>2 DEF GetNew
  <2> QED BY <2>1, <2>2
<1>3. ASSUME NEW c \in Conns, Refuse(c) PROVE SourceInv'
  BY <1>3 DEF Refuse
<1>4. CASE SendConn
  <2>1. /\ ready' = ready /\ scratch' = scratch /\ pc' = pc
        /\ apc = "send" /\ apc' = "accept" /\ aw \in Workers
        /\ box' = [box EXCEPT ![aw] = ac] /\ ac # Empty
    BY <1>4 DEF SendConn, Send
  <2> QED BY <2>1
<1>5. CASE StopClose
  BY <1>5 DEF StopClose
<1>6. CASE StopLock
  BY <1>6 DEF StopLock
<1>7. CASE StopSend
  <2>1. /\ Head(ready) \in Workers /\ InSeq(Head(ready), ready)
        /\ \A w : InSeq(w, ready') <=> InSeq(w, ready) /\ w # Head(ready)
        /\ Distinct(ready')
    BY <1>7, TailMembers DEF StopSend
  <2>2. /\ scratch' = scratch /\ pc' = pc /\ apc' = apc /\ aw' = aw
        /\ box' = [box EXCEPT ![Head(ready)] = Nil]
    BY <1>7 DEF StopSend, Send
  <2> QED BY <2>1, <2>2
<1>8. CASE StopUnlock
  BY <1>8 DEF StopUnlock
<1> QED BY <1>1, <1>2, <1>3, <1>4, <1>5, <1>6, <1>7, <1>8 DEF Acceptor

LEMMA SourceWorker ==
    ASSUME TypeInv, SourceInv, NEW v \in Workers, Worker(v) PROVE SourceInv'
<1> USE PoolAssumption DEF TypeInv, TypeOK, SourceInv, SourcesOf, AcceptorSends,
        poolVars, workerVars, acceptorVars, cleanerVars
<1>1. CASE RecvConn(v)
  BY <1>1 DEF RecvConn
<1>2. CASE RecvNil(v)
  BY <1>2 DEF RecvNil
<1>3. CASE WorkerFunc(v)
  BY <1>3 DEF WorkerFunc
<1>4. CASE Stamp(v)
  BY <1>4 DEF Stamp
<1>5. CASE Release(v)
  <2>1. CASE mustStop
    BY <1>5, <2>1 DEF Release
  <2>2. CASE ~mustStop
    <3>1. /\ ready' = Append(ready, v) /\ pc[v] = "release"
          /\ pc' = [pc EXCEPT ![v] = "recv"]
          /\ scratch' = scratch /\ box' = box /\ apc' = apc /\ aw' = aw
      BY <1>5, <2>2 DEF Release
    <3>2. /\ \A w : InSeq(w, ready') <=> InSeq(w, ready) \/ w = v
          /\ Distinct(ready')
      BY <3>1, AppendMembers
    <3> QED BY <3>1, <3>2
  <2> QED BY <2>1, <2>2
<1>6. CASE Exit(v)
  BY <1>6 DEF Exit
<1>7. CASE Put(v)
  BY <1>7 DEF Put
<1> QED BY <1>1, <1>2, <1>3, <1>4, <1>5, <1>6, <1>7 DEF Worker

LEMMA SourceCleaner ==
    ASSUME TypeInv, SourceInv, Cleaner PROVE SourceInv'
<1> USE PoolAssumption DEF TypeInv, TypeOK, SourceInv, SourcesOf, AcceptorSends,
        poolVars, workerVars, acceptorVars, cleanerVars
<1>1. CASE CleanStart
  BY <1>1 DEF CleanStart
<1>2. CASE CleanLock
  BY <1>2 DEF CleanLock
<1>3. CASE CleanSearch
  BY <1>3 DEF CleanSearch
<1>4. CASE CleanUnlock
  <2>1. hi + 1 \in 0..Len(ready)
    BY <1>4 DEF CleanUnlock, SearchBounds
  <2>2. /\ scratch' = SubSeq(ready, 1, hi + 1)
        /\ ready' = SubSeq(ready, hi + 1 + 1, Len(ready))
        /\ scratch = <<>>
        /\ pc' = pc /\ box' = box /\ apc' = apc /\ aw' = aw
    BY <1>4 DEF CleanUnlock, LocksMatch
  <2>3. /\ Distinct(scratch') /\ Distinct(ready')
        /\ \A w : InSeq(w, ready) <=> InSeq(w, scratch') \/ InSeq(w, ready')
        /\ \A w : ~(InSeq(w, scratch') /\ InSeq(w, ready'))
    BY <2>1, <2>2, SplitMembers
  <2>4. \A w : ~InSeq(w, scratch)
    BY <2>2 DEF InSeq
  <2> QED BY <2>2, <2>3, <2>4
<1>5. CASE CleanNotify
  <2>1. /\ Head(scratch) \in Workers /\ InSeq(Head(scratch), scratch)
        /\ \A w : InSeq(w, scratch') <=> InSeq(w, scratch) /\ w # Head(scratch)
        /\ Distinct(scratch')
    BY <1>5, TailMembers DEF CleanNotify
  <2>2. /\ ready' = ready /\ pc' = pc /\ apc' = apc /\ aw' = aw
        /\ box' = [box EXCEPT ![Head(scratch)] = Nil]
    BY <1>5 DEF CleanNotify, Send
  <2> QED BY <2>1, <2>2
<1>6. CASE CleanSelect
  BY <1>6 DEF CleanSelect
<1>7. CASE CleanWake
  BY <1>7 DEF CleanWake
<1> QED BY <1>1, <1>2, <1>3, <1>4, <1>5, <1>6, <1>7 DEF Cleaner

LEMMA SourceStep == TypeInv /\ SourceInv /\ [Next]_vars => SourceInv'
<1> SUFFICES ASSUME TypeInv, SourceInv, [Next]_vars PROVE SourceInv'
  OBVIOUS
<1>1. CASE Tick
  BY <1>1 DEF Tick, SourceInv, SourcesOf, AcceptorSends, poolVars, workerVars,
              acceptorVars, cleanerVars
<1>2. CASE UNCHANGED vars
  BY <1>2 DEF vars, SourceInv, SourcesOf, AcceptorSends, poolVars, workerVars,
              acceptorVars, cleanerVars
<1> QED BY <1>1, <1>2, SourceAcceptor, SourceWorker, SourceCleaner DEF Next, Terminated

\* Every worker at its receive has exactly one source of its next message and every
\* other worker none: no send ever finds a channel full, the ones of Stop under the
\* lock included, and no connection is sent to a worker that is leaving.
THEOREM OneSourceCorrect == Spec => []OneSource
<1>1. SourceInv => OneSource
  BY OneSourceExpanded
<1> QED BY <1>1, TypeInit, TypeStep, SourceInit, SourceStep, PTL DEF Spec

(***************************************************************************)
(* Connections.  A worker serves a connection exactly while its pc says    *)
(* so, which with OneSource keeps a connection from being in a worker's    *)
(* channel and in its hands at once.                                       *)
(***************************************************************************)
Holds(w, c) == box[w] = c \/ cur[w] = c

PlaceOf(c) ==
    /\ conn[c] = "accepted" <=> AcceptorHolds(c) \/ \E w \in Workers : Holds(w, c)
    /\ AcceptorHolds(c) => \A w \in Workers : ~Holds(w, c)
    /\ \A v, w \in Workers : Holds(v, c) /\ Holds(w, c) => v = w

PlaceInv ==
    /\ \A w \in Workers : cur[w] # Empty <=> pc[w] = "serving"
    /\ \A c \in Conns : PlaceOf(c)

LEMMA PlaceImplies == PlaceInv => ConnInOnePlace
<1> SUFFICES ASSUME PlaceInv, NEW c \in Conns
             PROVE  IF conn[c] = "accepted"
                    THEN IF AcceptorHolds(c) THEN Holders(c) = {}
                                             ELSE \E w \in Workers : Holders(c) = {w}
                    ELSE ~AcceptorHolds(c) /\ Holders(c) = {}
  BY DEF ConnInOnePlace
<1>1. \A w : w \in Holders(c) <=> w \in Workers /\ Holds(w, c)
  BY DEF Holders, Holds
<1>2. PlaceOf(c)
  BY DEF PlaceInv
<1>3. ASSUME NEW w \in Workers, Holds(w, c) PROVE Holders(c) = {w}
  BY <1>1, <1>2, <1>3 DEF PlaceOf
<1>4. (\A w \in Workers : ~Holds(w, c)) => Holders(c) = {}
  BY <1>1
<1> QED BY <1>2, <1>3, <1>4 DEF PlaceOf

LEMMA PlaceInit == Init => PlaceInv
BY PoolAssumption DEF Init, PlaceInv, PlaceOf, AcceptorHolds, Holds

LEMMA PlaceStep == TypeInv /\ SourceInv /\ PlaceInv /\ [Next]_vars => PlaceInv'
<1> SUFFICES ASSUME TypeInv, SourceInv, PlaceInv, [Next]_vars PROVE PlaceInv'
  OBVIOUS
<1> USE PoolAssumption DEF TypeInv, TypeOK, PlaceInv, PlaceOf, AcceptorHolds, Holds,
        poolVars, workerVars, acceptorVars, cleanerVars
<1>1. ASSUME NEW c \in Conns, GetReady(c) \/ GetNew(c) PROVE PlaceInv'
  <2>1. /\ apc = "accept" /\ apc' = "send" /\ ac' = c /\ conn[c] = "new"
        /\ conn' = [conn EXCEPT ![c] = "accepted"]
        /\ box' = box /\ cur' = cur
    BY <1>1 DEF GetReady, GetNew
  <2>2. \A w \in Workers : pc'[w] = "serving" <=> pc[w] = "serving"
    BY <1>1 DEF GetReady, GetNew
  <2> QED BY <2>1, <2>2
<1>2. ASSUME NEW c \in Conns, Refuse(c) PROVE PlaceInv'
  BY <1>2 DEF Refuse
<1>3. CASE SendConn
  <2>1. /\ apc = "send" /\ apc' = "accept" /\ ac \in Conns /\ aw \in Workers
        /\ box[aw] = Empty /\ box' = [box EXCEPT ![aw] = ac]
        /\ cur' = cur /\ pc' = pc /\ conn' = conn
    BY <1>3 DEF SendConn, Send, CanSend
  <2>2. ASSUME NEW c \in Conns PROVE PlaceOf(c)'
    <3>1. CASE c = ac
      BY <2>1, <3>1
    <3>2. CASE c # ac
      BY <2>1, <3>2
    <3> QED BY <3>1, <3>2
  <2> QED BY <2>1, <2>2
<1>4. CASE StopClose \/ StopLock \/ StopUnlock
  BY <1>4 DEF StopClose, StopLock, StopUnlock
<1>5. ASSUME NEW v \in Workers, CanSend(v), box' = [box EXCEPT ![v] = Nil],
             UNCHANGED <<pc, cur, apc, ac, conn>>
      PROVE  PlaceInv'
  BY <1>5 DEF CanSend
<1>6. CASE StopSend
  <2>1. Head(ready) \in Workers
    BY <1>6 DEF StopSend
  <2> QED BY <1>5, <1>6, <2>1 DEF StopSend, Send
<1>7. CASE CleanNotify
  <2>1. Head(scratch) \in Workers
    BY <1>7 DEF CleanNotify
  <2> QED BY <1>5, <1>7, <2>1 DEF CleanNotify, Send
<1>8. ASSUME NEW v \in Workers, RecvConn(v) PROVE PlaceInv'
  <2>1. /\ pc[v] = "recv" /\ cur[v] = Empty /\ box[v] \in Conns
        /\ cur' = [cur EXCEPT ![v] = box[v]] /\ box' = [box EXCEPT ![v] = Empty]
        /\ pc' = [pc EXCEPT ![v] = "serving"]
        /\ UNCHANGED <<apc, ac, conn>>
    BY <1>8 DEF RecvConn
  <2>2. \A w \in Workers, c \in Conns : Holds(w, c)' <=> Holds(w, c)
    BY <2>1
  <2>3. \A w \in Workers : cur'[w] # Empty <=> pc'[w] = "serving"
    BY <2>1
  <2> QED BY <2>1, <2>2, <2>3
<1>9. ASSUME NEW v \in Workers, RecvNil(v) PROVE PlaceInv'
  BY <1>9 DEF RecvNil
<1>10. ASSUME NEW v \in Workers, WorkerFunc(v) PROVE PlaceInv'
  <2>1. /\ pc[v] = "serving" /\ cur[v] \in Conns
        /\ cur' = [cur EXCEPT ![v] = Empty] /\ box' = box
        /\ pc' = [pc EXCEPT ![v] = "stamp"]
        /\ UNCHANGED <<apc, ac>>
    BY <1>10 DEF WorkerFunc
  <2>2. box[v] = Empty
    BY <2>1 DEF SourceInv, SourcesOf
  <2>3. PICK end \in {"closed", "hijacked"} : conn' = [conn EXCEPT ![cur[v]] = end]
    BY <1>10 DEF WorkerFunc
  <2>4. ASSUME NEW c \in Conns PROVE PlaceOf(c)'
    <3>1. CASE c = cur[v]
      BY <2>1, <2>2, <2>3, <3>1
    <3>2. CASE c # cur[v]
      BY <2>1, <2>2, <2>3, <3>2
    <3> QED BY <3>1, <3>2
  <2> QED BY <2>1, <2>4
<1>11. ASSUME NEW v \in Workers, Stamp(v) \/ Release(v) \/ Exit(v) \/ Put(v)
       PROVE  PlaceInv'
  <2>1. /\ UNCHANGED <<box, cur, apc, ac, conn>>
        /\ \A w \in Workers : pc'[w] = "serving" <=> pc[w] = "serving"
    BY <1>11 DEF Stamp, Release, Exit, Put
  <2> QED BY <2>1
<1>12. CASE CleanStart \/ CleanLock \/ CleanSearch \/ CleanUnlock \/ CleanSelect
            \/ CleanWake \/ Tick
  <2>1. UNCHANGED <<box, cur, pc, apc, ac, conn>>
    BY <1>12 DEF CleanStart, CleanLock, CleanSearch, CleanUnlock, CleanSelect,
                 CleanWake, Tick
  <2> QED BY <2>1
<1>13. CASE UNCHANGED vars
  BY <1>13 DEF vars
<1> QED BY <1>1, <1>2, <1>3, <1>4, <1>6, <1>7, <1>8, <1>9, <1>10, <1>11, <1>12, <1>13
        DEF Next, Acceptor, Worker, Cleaner, Terminated

\* A connection Serve accepted is with exactly one goroutine until it is closed or
\* hijacked, and with none before and after.
THEOREM ConnInOnePlaceCorrect == Spec => []ConnInOnePlace
BY PlaceImplies, TypeInit, TypeStep, SourceInit, SourceStep, PlaceInit, PlaceStep, PTL
   DEF Spec

(***************************************************************************)
(* The count of the workers.                                               *)
(***************************************************************************)
LEMMA LiveFinite == IsFiniteSet(Live) /\ Cardinality(Live) \in Nat
BY PoolAssumption, FS_Subset, FS_CardinalityType DEF Live

LEMMA CountInit == Init => WorkersCounted
<1> SUFFICES ASSUME Init PROVE WorkersCounted
  OBVIOUS
<1>1. Live = {}
  BY DEF Init, Live, LivePCs
<1> QED BY <1>1, FS_EmptySet, PoolAssumption DEF Init, WorkersCounted

LEMMA CountStep == TypeInv /\ WorkersCounted /\ [Next]_vars => WorkersCounted'
<1> SUFFICES ASSUME TypeInv, WorkersCounted, [Next]_vars PROVE WorkersCounted'
  OBVIOUS
<1> USE PoolAssumption DEF TypeInv, TypeOK, LivePCs, poolVars, workerVars,
        acceptorVars, cleanerVars
<1>1. ASSUME NEW c \in Conns, GetNew(c) PROVE WorkersCounted'
  <2>1. PICK w \in Workers : pc[w] = "pooled" /\ pc' = [pc EXCEPT ![w] = "recv"]
    BY <1>1 DEF GetNew
  <2>2. Live' = Live \cup {w} /\ w \notin Live
    BY <2>1 DEF Live
  <2>3. Cardinality(Live') = Cardinality(Live) + 1
    BY <2>2, LiveFinite, FS_AddElement
  <2> QED BY <1>1, <2>3 DEF GetNew, WorkersCounted
<1>2. ASSUME NEW w \in Workers, Exit(w) PROVE WorkersCounted'
  <2>1. Live' = Live \ {w} /\ w \in Live
    BY <1>2 DEF Exit, Live
  <2>2. Cardinality(Live') = Cardinality(Live) - 1
    BY <2>1, LiveFinite, FS_RemoveElement
  <2> QED BY <1>2, <2>2, LiveFinite DEF Exit, WorkersCounted
<1>3. ASSUME workersCount' = workersCount, 
             \A w \in Workers : pc'[w] \in LivePCs <=> pc[w] \in LivePCs
      PROVE  WorkersCounted'
  <2>1. Live' = Live
    BY <1>3 DEF Live
  <2> QED BY <1>3, <2>1 DEF WorkersCounted
<1>4. ASSUME NEW c \in Conns, GetReady(c) \/ Refuse(c) PROVE WorkersCounted'
  BY <1>3, <1>4 DEF GetReady, Refuse
<1>5. CASE SendConn \/ StopClose \/ StopLock \/ StopSend \/ StopUnlock
  BY <1>3, <1>5 DEF SendConn, StopClose, StopLock, StopSend, StopUnlock
<1>6. ASSUME NEW w \in Workers,
             RecvConn(w) \/ RecvNil(w) \/ WorkerFunc(w) \/ Stamp(w) \/ Release(w) \/ Put(w)
      PROVE  WorkersCounted'
  <2>1. workersCount' = workersCount
    BY <1>6 DEF RecvConn, RecvNil, WorkerFunc, Stamp, Release, Put
  <2>2. \A v \in Workers : pc'[v] \in LivePCs <=> pc[v] \in LivePCs
    BY <1>6 DEF RecvConn, RecvNil, WorkerFunc, Stamp, Release, Put
  <2> QED BY <1>3, <2>1, <2>2
<1>7. CASE Cleaner
  BY <1>3, <1>7 DEF Cleaner, CleanStart, CleanLock, CleanSearch, CleanUnlock,
                    CleanNotify, CleanSelect, CleanWake
<1>8. CASE Tick \/ UNCHANGED vars
  BY <1>3, <1>8 DEF Tick, vars
<1> QED BY <1>1, <1>2, <1>4, <1>5, <1>6, <1>7, <1>8
        DEF Next, Acceptor, Worker, Terminated

\* workersCount is the number of live worker goroutines and stays within
\* MaxWorkersCount, whatever the interleaving of getCh, clean, Stop and workerFunc.
THEOREM WorkersCountedCorrect == Spec => []WorkersCounted
BY TypeInit, TypeStep, CountInit, CountStep, PTL DEF Spec

(***************************************************************************)
(* The binary search of clean.  While it runs the cleaner holds the lock,  *)
(* so ready does not change, and the only worker that writes a lastUseTime *)
(* is not in ready.                                                        *)
(***************************************************************************)
SearchInv ==
    cpc = "search" /\ Sorted(ready) =>
        \A i \in 1..Len(ready) : (i <= lo => Expired(i)) /\ (i > hi + 1 => ~Expired(i))

LEMMA SearchStep == TypeInv /\ SourceInv /\ SearchInv /\ [Next]_vars => SearchInv'
<1> SUFFICES ASSUME TypeInv, SourceInv, SearchInv, [Next]_vars, (cpc = "search")'
             PROVE  SearchInv'
  BY DEF SearchInv
<1> USE DEF TypeInv, TypeOK, LocksMatch, poolVars, workerVars, acceptorVars, cleanerVars
<1>1. CASE CleanLock
  BY <1>1 DEF CleanLock, SearchInv
<1>2. CASE CleanSearch
  <2> DEFINE mid == (lo + hi) \div 2
  <2>1. mid \in Int /\ lo <= mid /\ mid <= hi /\ mid + 1 \in 1..Len(ready)
    BY <1>2 DEF CleanSearch, SearchBounds
  <2> HIDE DEF mid
  <2>2. \/ Expired(mid + 1) /\ lo' = mid + 1 /\ hi' = hi
        \/ ~Expired(mid + 1) /\ hi' = mid - 1 /\ lo' = lo
    BY <1>2 DEF CleanSearch, mid
  <2>3. UNCHANGED <<ready, lastUseTime, criticalTime>> /\ cpc = "search"
    BY <1>2 DEF CleanSearch
  <2>4. SUFFICES ASSUME Sorted(ready), NEW i \in 1..Len(ready)
                 PROVE  (i <= lo' => Expired(i)) /\ (i > hi' + 1 => ~Expired(i))
    BY <2>3 DEF SearchInv, Sorted, Expired
  <2>5. (i <= lo => Expired(i)) /\ (i > hi + 1 => ~Expired(i))
    BY <2>3, <2>4 DEF SearchInv
  <2>6. /\ i <= mid + 1 /\ Expired(mid + 1) => Expired(i)
        /\ i >= mid + 1 /\ ~Expired(mid + 1) => ~Expired(i)
    <3>1. /\ lastUseTime[ready[i]] \in Int /\ lastUseTime[ready[mid + 1]] \in Int
          /\ i <= mid + 1 => lastUseTime[ready[i]] <= lastUseTime[ready[mid + 1]]
          /\ i >= mid + 1 => lastUseTime[ready[i]] >= lastUseTime[ready[mid + 1]]
      BY <2>1, <2>4 DEF Sorted
    <3> QED BY <3>1 DEF Expired
  <2> QED BY <2>1, <2>2, <2>5, <2>6
<1>3. ASSUME NEW v \in Workers, Stamp(v) PROVE SearchInv'
  <2>1. ~InSeq(v, ready)
    BY <1>3 DEF Stamp, SourceInv, SourcesOf
  <2>2. \A i \in 1..Len(ready) : ready[i] # v
    BY <2>1 DEF InSeq
  <2>3. /\ UNCHANGED <<ready, cpc, lo, hi, criticalTime>>
        /\ \A i \in 1..Len(ready) : lastUseTime'[ready[i]] = lastUseTime[ready[i]]
    BY <1>3, <2>2 DEF Stamp
  <2> QED BY <2>3 DEF SearchInv, Sorted, Expired
<1>4. ASSUME UNCHANGED <<ready, cpc, lo, hi, criticalTime, lastUseTime>>
      PROVE  SearchInv'
  BY <1>4 DEF SearchInv, Sorted, Expired
<1>5. ASSUME NEW c \in Conns, GetReady(c) \/ GetNew(c) \/ Refuse(c) PROVE SearchInv'
  BY <1>4, <1>5 DEF GetReady, GetNew, Refuse
<1>6. CASE SendConn \/ StopClose \/ StopLock \/ StopSend \/ StopUnlock
  BY <1>4, <1>6 DEF SendConn, StopClose, StopLock, StopSend, StopUnlock
<1>7. ASSUME NEW w \in Workers,
             RecvConn(w) \/ RecvNil(w) \/ WorkerFunc(w) \/ Release(w) \/ Exit(w) \/ Put(w)
      PROVE  SearchInv'
  BY <1>4, <1>7 DEF RecvConn, RecvNil, WorkerFunc, Release, Exit, Put
<1>8. CASE CleanStart \/ CleanUnlock \/ CleanNotify \/ CleanSelect \/ CleanWake
  BY <1>8 DEF CleanStart, CleanUnlock, CleanNotify, CleanSelect, CleanWake
<1>9. CASE Tick \/ UNCHANGED vars
  BY <1>4, <1>9 DEF Tick, vars
<1> QED BY <1>1, <1>2, <1>3, <1>5, <1>6, <1>7, <1>8, <1>9
        DEF Next, Acceptor, Worker, Cleaner, Terminated

\* On a ready list in the order of lastUseTime, the binary search of clean finds
\* exactly the expired workers.
THEOREM SearchFindsExpiredCorrect == Spec => []SearchFindsExpired
<1>1. Init => SearchInv
  BY DEF Init, SearchInv
<1>2. TypeInv /\ SearchInv => SearchFindsExpired
  <2> SUFFICES ASSUME TypeInv, SearchInv, cpc = "search", lo > hi, Sorted(ready),
                      NEW i \in 1..Len(ready)
               PROVE  Expired(i) <=> i <= hi + 1
    BY DEF SearchFindsExpired
  <2> QED BY DEF SearchInv, TypeInv, TypeOK, SearchBounds
<1> QED BY <1>1, <1>2, TypeInit, TypeStep, SourceInit, SourceStep, SearchStep, PTL DEF Spec

(***************************************************************************)
(* The pool implements the safety part of ConnService.  The one step that  *)
(* needs an argument is Accept, which ConnService allows only below        *)
(* MaxInService: each connection in service has a worker of its own.       *)
(***************************************************************************)
LEMMA ServedByLive ==
    ASSUME TypeInv, SourceInv, PlaceInv, apc = "accept", NEW W,
           W \subseteq Live, \A w \in Live \ W : InSeq(w, ready)
    PROVE  /\ Cardinality(Service!InService) \in Nat
           /\ Cardinality(Service!InService) <= Cardinality(W)
<1> DEFINE f == [c \in Service!InService |-> CHOOSE w \in Workers : Holds(w, c)]
<1>1. ASSUME NEW w \in Workers, NEW c \in Conns, Holds(w, c) PROVE w \in W
  <2>1. c # Empty
    BY PoolAssumption
  <2>2. CASE box[w] = c
    <3>1. pc[w] = "recv" /\ ~InSeq(w, ready)
      BY <2>1, <2>2 DEF SourceInv, SourcesOf
    <3> QED BY <3>1 DEF Live, LivePCs
  <2>3. CASE cur[w] = c
    <3>1. pc[w] = "serving"
      BY <2>1, <2>3 DEF PlaceInv
    <3>2. ~InSeq(w, ready)
      BY <3>1 DEF SourceInv, SourcesOf
    <3> QED BY <3>1, <3>2 DEF Live, LivePCs
  <2> QED BY <1>1, <2>2, <2>3 DEF Holds
<1>2. ASSUME NEW c \in Service!InService PROVE f[c] \in W /\ Holds(f[c], c) /\ c \in Conns
  <2>1. c \in Conns /\ conn[c] = "accepted"
    BY DEF Service!InService
  <2>2. \E w \in Workers : Holds(w, c)
    BY <2>1 DEF PlaceInv, PlaceOf, AcceptorHolds
  <2>3. f[c] \in Workers /\ Holds(f[c], c)
    BY <2>2
  <2> QED BY <1>1, <2>1, <2>3
<1>3. ASSUME NEW w \in Workers, NEW c \in Conns, NEW d \in Conns, Holds(w, c), Holds(w, d)
      PROVE  c = d
  <2>1. c # Empty /\ d # Empty
    BY PoolAssumption
  <2>2. box[w] = Empty \/ cur[w] = Empty
    BY DEF PlaceInv, SourceInv, SourcesOf
  <2> QED BY <1>3, <2>1, <2>2 DEF Holds
<1>4. W \subseteq Workers
  BY DEF Live
<1>5. f \in [Service!InService -> W]
  BY <1>2
<1>6. \A c, d \in Service!InService : f[c] = f[d] => c = d
  BY <1>2, <1>3, <1>4
<1> HIDE DEF f
<1>7. f \in Injection(Service!InService, W)
  BY <1>5, <1>6 DEF Injection, IsInjective
<1>8. IsFiniteSet(W)
  BY LiveFinite, FS_Subset
<1> QED BY <1>7, <1>8, FS_Injection, FS_CardinalityType

\* Cardinality means the same in ConnService.
LEMMA SameCardinality == \A S : Service!Cardinality(S) = Cardinality(S)
BY Zenon DEF Service!Cardinality, Cardinality

LEMMA ServiceStep ==
    ASSUME TypeInv, SourceInv, PlaceInv, WorkersCounted, [Next]_vars
    PROVE  [Service!Next]_conn
<1> USE DEF poolVars, workerVars, acceptorVars, cleanerVars
<1>1. ASSUME NEW c \in Conns, GetReady(c) PROVE Service!Next
  <2>1. PICK w \in Workers : InSeq(w, ready)
    BY <1>1, FrontMembers DEF GetReady, TypeInv, TypeOK, SourceInv
  <2>2. w \in Live
    BY <2>1 DEF SourceInv, SourcesOf, Live, LivePCs
  <2>3. Cardinality(Live \ {w}) = Cardinality(Live) - 1
    BY <2>2, LiveFinite, FS_RemoveElement
  <2>4. /\ Cardinality(Service!InService) \in Nat
        /\ Cardinality(Service!InService) <= Cardinality(Live \ {w})
    BY <1>1, <2>1, ServedByLive DEF GetReady
  <2>5. Cardinality(Service!InService) < MaxWorkersCount
    BY <2>3, <2>4, LiveFinite, PoolAssumption DEF WorkersCounted
  <2>6. Service!Accept(c)
    BY <1>1, <2>5, SameCardinality DEF GetReady, Service!Accept
  <2> QED BY <2>6 DEF Service!Next
<1>2. ASSUME NEW c \in Conns, GetNew(c) PROVE Service!Next
  <2>1. /\ Cardinality(Service!InService) \in Nat
        /\ Cardinality(Service!InService) <= Cardinality(Live)
    BY <1>2, ServedByLive DEF GetNew
  <2>2. Cardinality(Service!InService) < MaxWorkersCount
    BY <1>2, <2>1, LiveFinite, PoolAssumption DEF WorkersCounted, GetNew
  <2>3. Service!Accept(c)
    BY <1>2, <2>2, SameCardinality DEF GetNew, Service!Accept
  <2> QED BY <2>3 DEF Service!Next
<1>3. ASSUME NEW c \in Conns, Refuse(c) PROVE Service!Next
  BY <1>3 DEF Refuse, Service!Next, Service!Refuse
<1>4. ASSUME NEW w \in Workers, WorkerFunc(w) PROVE Service!Next
  <2>1. cur[w] \in Conns /\ conn[cur[w]] = "accepted"
    BY <1>4, PoolAssumption DEF WorkerFunc, TypeInv, TypeOK, PlaceInv, PlaceOf, Holds
  <2> QED BY <1>4, <2>1 DEF WorkerFunc, Service!Next, Service!Complete
<1>5. CASE SendConn \/ StopClose \/ StopLock \/ StopSend \/ StopUnlock \/ Cleaner \/ Tick
           \/ UNCHANGED vars
  BY <1>5 DEF SendConn, StopClose, StopLock, StopSend, StopUnlock, Cleaner, CleanStart,
              CleanLock, CleanSearch, CleanUnlock, CleanNotify, CleanSelect, CleanWake, Tick,
              vars
<1>6. ASSUME NEW w \in Workers, Worker(w), ~WorkerFunc(w) PROVE conn' = conn
  BY <1>6 DEF Worker, RecvConn, RecvNil, Stamp, Release, Exit, Put
<1> QED BY <1>1, <1>2, <1>3, <1>4, <1>5, <1>6 DEF Next, Acceptor, Terminated

\* The worker pool implements the safety part of ConnService for every number of workers,
\* every limit and both channel capacities: Serve accepts a connection only while fewer
\* than MaxWorkersCount are in service, although getCh never counts connections; what it
\* accepts is completed at most once, and what it refuses is never served.  The fairness
\* of ConnService is left to TLC.
THEOREM ImplementsServiceSafely == Spec => Service!Init /\ [][Service!Next]_conn
<1>1. Init => Service!Init
  BY DEF Init, Service!Init
<1> QED BY <1>1, TypeInit, TypeStep, SourceInit, SourceStep, PlaceInit, PlaceStep, CountInit,
           CountStep, ServiceStep, PTL DEF Spec

=============================================================================
