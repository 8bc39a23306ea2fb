------------------------ MODULE HostClientPoolProofs ------------------------
(***************************************************************************)
(* Proofs about HostClientPool for any number of calls and connections and *)
(* any limits: every open connection has one owner, connsCount counts the  *)
(* slots that are taken, and a waiter is known to someone who answers it.  *)
(***************************************************************************)
EXTENDS HostClientPool, PoolLemmas, TLAPS

Hold(a) == <<"hold", a>>
Want(k) == <<"want", k>>
Scratch(a) == <<"scratch", a>>
Idle == <<"idle", None>>

Holds(a, c) == hold[a] = c /\ pc[a] \in HoldingPCs
Wants(k, c) == wconn[k] = c /\ pc[Call(k)] = "wait"
Sweeps(a, c) == InSeq(c, scratch[a]) /\ pc[a] \in SweepingPCs

\* The lists of connections have no duplicates, and who is at a point where it has a
\* connection has one.
ListInv ==
    /\ Distinct(conns) /\ \A a \in Sweepers : Distinct(scratch[a])
    /\ \A a \in Actors : pc[a] \in HoldingPCs => hold[a] \in Conns

OwnInv ==
    \A c \in Conns :
        IF c \in est
        THEN \E p \in Places : \A q \in Places : Has(q, c) <=> q = p
        ELSE \A q \in Places : ~Has(q, c)

\* Where the wantConn of a call is known: in the queue, to the holder of the lock that
\* delivers to it, or to the goroutine that dials or has dialed for it.
Queued(k) == InSeq(k, connsWait) \/ locked = k \/ pc[Dialer(k)] # "idle"

BeforeWait == {"idle", "dial", "queue"}

\* The wantConn of call k: what it carries, and that it is known in one place at most.
WantOK(k) ==
    /\ wconn[k] # None <=> wres[k] = "conn" /\ pc[Call(k)] = "wait"
    /\ pc[Call(k)] \in BeforeWait => wres[k] = "none" /\ ~Queued(k)
    /\ Queued(k) /\ wres[k] = "none" => pc[Call(k)] = "wait"
    /\ InSeq(k, connsWait) => locked # k /\ pc[Dialer(k)] = "idle"
    /\ locked = k => pc[Dialer(k)] = "idle"
    /\ pc[Call(k)] = "wait" /\ wres[k] = "none" =>
          InSeq(k, connsWait) \/ locked = k \/ pc[Dialer(k)] = "dial"

WaitInv == Distinct(connsWait) /\ \A k \in Calls : WantOK(k)

\* The lock is held for one delivery at a time; the cleaner runs only if connsCleanerRun.
LockInv ==
    /\ \A a \in Actors : pc[a] = "deliver" => locked # None
    /\ \A a, b \in Actors : pc[a] = "deliver" /\ pc[b] = "deliver" => a = b
    /\ ~connsCleanerRun => pc[Cleaner] = "idle"

PoolInv == TypeOK /\ ListInv /\ OwnInv /\ WaitInv /\ LockInv /\ SlotsCounted

-----------------------------------------------------------------------------
(* Actors and places. *)

LEMMA ActorFacts ==
    /\ \A k \in Calls : Call(k) \in Actors /\ Dialer(k) \in Actors
    /\ Sweepers \subseteq Actors /\ Cleaner \in Sweepers /\ Closer \in Sweepers
    /\ Cleaner # Closer
    /\ \A j, k \in Calls : Call(j) = Call(k) <=> j = k
    /\ \A j, k \in Calls : Dialer(j) = Dialer(k) <=> j = k
    /\ \A j, k \in Calls : Call(j) # Dialer(k)
    /\ \A k \in Calls : Call(k) \notin Sweepers /\ Dialer(k) \notin Sweepers
BY DEF Actors, Sweepers, Call, Dialer, Cleaner, Closer

LEMMA PlaceFacts ==
    /\ Idle \in Places
    /\ \A a \in Actors : Hold(a) \in Places
    /\ \A k \in Calls : Want(k) \in Places
    /\ \A a \in Sweepers : Scratch(a) \in Places
    /\ \A p \in Places : \/ p = Idle
                         \/ \E a \in Actors : p = Hold(a)
                         \/ \E k \in Calls : p = Want(k)
                         \/ \E a \in Sweepers : p = Scratch(a)
    /\ \A a, b : (Hold(a) = Hold(b) <=> a = b) /\ (Want(a) = Want(b) <=> a = b)
                 /\ (Scratch(a) = Scratch(b) <=> a = b)
    /\ \A a, b : Hold(a) # Want(b) /\ Hold(a) # Scratch(b) /\ Want(a) # Scratch(b)
    /\ \A a : Hold(a) # Idle /\ Want(a) # Idle /\ Scratch(a) # Idle
BY DEF Places, Idle, Hold, Want, Scratch

LEMMA HasAt ==
    ASSUME NEW c
    PROVE  /\ Has(Idle, c) <=> InSeq(c, conns)
           /\ \A a : Has(Hold(a), c) <=> Holds(a, c)
           /\ \A k : Has(Want(k), c) <=> Wants(k, c)
           /\ \A a : Has(Scratch(a), c) <=> Sweeps(a, c)
BY DEF Has, Idle, Hold, Want, Scratch, Holds, Wants, Sweeps

LEMMA HasAtNext ==
    ASSUME NEW c
    PROVE  /\ Has(Idle, c)' <=> InSeq(c, conns')
           /\ \A a : Has(Hold(a), c)' <=> Holds(a, c)'
           /\ \A k : Has(Want(k), c)' <=> Wants(k, c)'
           /\ \A a : Has(Scratch(a), c)' <=> Sweeps(a, c)'
BY DEF Has, Idle, Hold, Want, Scratch, Holds, Wants, Sweeps

\* A step that puts the connections S at the place q and leaves the others where they
\* are, and opens no others.
LEMMA Move ==
    ASSUME OwnInv, NEW S \in SUBSET Conns, NEW q \in Places,
           \A c \in Conns : InSeq(c, conns') <=> IF c \in S THEN q = Idle ELSE InSeq(c, conns),
           \A c \in Conns : \A a \in Actors :
               Holds(a, c)' <=> IF c \in S THEN q = Hold(a) ELSE Holds(a, c),
           \A c \in Conns : \A k \in Calls :
               Wants(k, c)' <=> IF c \in S THEN q = Want(k) ELSE Wants(k, c),
           \A c \in Conns : \A a \in Sweepers :
               Sweeps(a, c)' <=> IF c \in S THEN q = Scratch(a) ELSE Sweeps(a, c),
           S \subseteq est', \A c \in Conns \ S : c \in est' <=> c \in est
    PROVE  OwnInv'
<1>1. ASSUME NEW c \in Conns, NEW p \in Places
      PROVE  Has(p, c)' <=> IF c \in S THEN q = p ELSE Has(p, c)
  BY PlaceFacts, HasAt, HasAtNext
<1>2. Places' = Places
  BY DEF Places
<1>3. ASSUME NEW c \in Conns
      PROVE  IF c \in est'
             THEN \E p \in Places : \A r \in Places : Has(r, c)' <=> r = p
             ELSE \A r \in Places : ~Has(r, c)'
  <2>1. CASE c \in S
    BY <1>1, <2>1
  <2>2. CASE c \notin S
    BY <1>1, <2>2 DEF OwnInv
  <2> QED BY <2>1, <2>2
<1> QED BY <1>2, <1>3 DEF OwnInv

\* A step that closes connection x, which place q has, and moves no other.
LEMMA Remove ==
    ASSUME OwnInv, NEW x \in Conns,
           \A c \in Conns : InSeq(c, conns') <=> c # x /\ InSeq(c, conns),
           \A c \in Conns : \A a \in Actors : Holds(a, c)' <=> c # x /\ Holds(a, c),
           \A c \in Conns : \A k \in Calls : Wants(k, c)' <=> c # x /\ Wants(k, c),
           \A c \in Conns : \A a \in Sweepers : Sweeps(a, c)' <=> c # x /\ Sweeps(a, c),
           est' = est \ {x}
    PROVE  OwnInv'
<1>1. ASSUME NEW c \in Conns, NEW p \in Places
      PROVE  Has(p, c)' <=> c # x /\ Has(p, c)
  BY PlaceFacts, HasAt, HasAtNext
<1>2. Places' = Places
  BY DEF Places
<1>3. ASSUME NEW c \in Conns
      PROVE  IF c \in est'
             THEN \E p \in Places : \A r \in Places : Has(r, c)' <=> r = p
             ELSE \A r \in Places : ~Has(r, c)'
  BY <1>1 DEF OwnInv
<1> QED BY <1>2, <1>3 DEF OwnInv

\* A connection that some place has is open, and no other place has it.
LEMMA Owner ==
    ASSUME OwnInv, NEW c \in Conns
    PROVE  /\ InSeq(c, conns) => /\ c \in est /\ \A a \in Actors : ~Holds(a, c)
                                 /\ \A k \in Calls : ~Wants(k, c)
                                 /\ \A a \in Sweepers : ~Sweeps(a, c)
           /\ \A b \in Actors : Holds(b, c) =>
                 /\ c \in est /\ ~InSeq(c, conns) /\ \A a \in Actors : Holds(a, c) => a = b
                 /\ \A k \in Calls : ~Wants(k, c)
                 /\ \A a \in Sweepers : ~Sweeps(a, c)
           /\ \A j \in Calls : Wants(j, c) =>
                 /\ c \in est /\ ~InSeq(c, conns) /\ \A a \in Actors : ~Holds(a, c)
                 /\ \A k \in Calls : Wants(k, c) => k = j
                 /\ \A a \in Sweepers : ~Sweeps(a, c)
           /\ \A b \in Sweepers : Sweeps(b, c) =>
                 /\ c \in est /\ ~InSeq(c, conns) /\ \A a \in Actors : ~Holds(a, c)
                 /\ \A k \in Calls : ~Wants(k, c)
                 /\ \A a \in Sweepers : Sweeps(a, c) => a = b
<1>1. \A p, q \in Places : Has(p, c) /\ Has(q, c) => p = q
  BY DEF OwnInv
<1>2. \A p \in Places : Has(p, c) => c \in est
  BY DEF OwnInv
<1> QED BY <1>1, <1>2, HasAt, PlaceFacts

-----------------------------------------------------------------------------
(* The queue of waiters. *)

\* popFront and clearFront drop no waiter that still waits but the one they return.
LEMMA FirstWaiter ==
    ASSUME TypeOK, Distinct(connsWait), NEW i \in Waiting, FirstWaiting(i)
    PROVE  /\ connsWait[i] \in Calls /\ InSeq(connsWait[i], connsWait)
           /\ wres[connsWait[i]] = "none"
           /\ After(i) \in Seq(Calls) /\ After(i - 1) \in Seq(Calls)
           /\ Distinct(After(i)) /\ Distinct(After(i - 1))
           /\ \A k : InSeq(k, After(i - 1)) => InSeq(k, connsWait)
           /\ \A k : InSeq(k, After(i)) => InSeq(k, connsWait) /\ k # connsWait[i]
           /\ \A k \in Calls : InSeq(k, connsWait) /\ wres[k] = "none" => InSeq(k, After(i - 1))
           /\ \A k \in Calls : InSeq(k, connsWait) /\ wres[k] = "none" /\ k # connsWait[i]
                                   => InSeq(k, After(i))
<1>1. i \in 1..Len(connsWait) /\ connsWait \in Seq(Calls) /\ Len(connsWait) \in Nat
      /\ i \in 0..Len(connsWait) /\ i - 1 \in 0..Len(connsWait) /\ (i - 1) + 1 = i /\ i \in Nat
  BY DEF TypeOK, Waiting
<1>2. connsWait[i] \in Calls /\ InSeq(connsWait[i], connsWait) /\ wres[connsWait[i]] = "none"
  BY <1>1 DEF InSeq, Waiting
<1> DEFINE a(n) == SubSeq(connsWait, 1, n)
           b(n) == SubSeq(connsWait, n + 1, Len(connsWait))
<1>3. /\ b(i) \in Seq(Calls) /\ b(i - 1) \in Seq(Calls) /\ Distinct(b(i)) /\ Distinct(b(i - 1))
      /\ \A k : InSeq(k, connsWait) <=> InSeq(k, a(i)) \/ InSeq(k, b(i))
      /\ \A k : InSeq(k, connsWait) <=> InSeq(k, a(i - 1)) \/ InSeq(k, b(i - 1))
      /\ \A k : ~(InSeq(k, a(i)) /\ InSeq(k, b(i)))
  <2>1. ASSUME NEW n \in 0..Len(connsWait)
        PROVE  /\ b(n) \in Seq(Calls) /\ Distinct(b(n))
               /\ \A k : InSeq(k, connsWait) <=> InSeq(k, a(n)) \/ InSeq(k, b(n))
               /\ \A k : ~(InSeq(k, a(n)) /\ InSeq(k, b(n)))
    BY <1>1, SplitMembers
  <2> HIDE DEF a, b
  <2> QED BY <1>1, <2>1
<1>4. After(i) = b(i) /\ After(i - 1) = b(i - 1)
  BY DEF After
<1>5. ASSUME NEW n \in 0..Len(connsWait), NEW k, InSeq(k, a(n))
      PROVE  \E j \in 1..n : connsWait[j] = k
  <2>1. /\ Len(a(n)) = n /\ \A j \in 1..n : a(n)[j] = connsWait[j]
    BY <1>1
  <2> QED BY <1>5, <2>1 DEF InSeq
<1>6. InSeq(connsWait[i], a(i))
  <2>1. Len(a(i)) = i /\ a(i)[i] = connsWait[i] /\ i \in 1..i
    BY <1>1
  <2> HIDE DEF a
  <2> QED BY <2>1 DEF InSeq
<1>7. \A j \in 1..i : wres[connsWait[j]] = "none" => j = i
  <2>1. \A j \in Waiting : i <= j
    BY DEF FirstWaiting
  <2>2. \A j \in 1..i : j \in 1..Len(connsWait)
    BY <1>1
  <2>3. \A j \in 1..i : wres[connsWait[j]] = "none" => j \in Waiting
    BY <2>2 DEF Waiting
  <2> QED BY <1>1, <2>1, <2>3
<1> HIDE DEF a, b
<1>8. \A k : InSeq(k, a(i)) /\ wres[k] = "none" => k = connsWait[i]
  BY <1>1, <1>5, <1>7
<1>9. \A k : InSeq(k, a(i - 1)) => wres[k] # "none"
  <2>1. ASSUME NEW k, InSeq(k, a(i - 1)), wres[k] = "none" PROVE FALSE
    <3>1. PICK j \in 1..(i - 1) : connsWait[j] = k
      BY <1>1, <1>5, <2>1
    <3>2. j \in 1..i /\ j # i
      BY <1>1, <3>1
    <3> QED BY <1>7, <2>1, <3>1, <3>2
  <2> QED BY <2>1
<1> QED BY <1>2, <1>3, <1>4, <1>6, <1>8, <1>9

LEMMA NoWaiter ==
    ASSUME Waiting = {}
    PROVE  \A k : InSeq(k, connsWait) => wres[k] # "none"
BY DEF Waiting, InSeq

LEMMA EmptyQueue == Distinct(<<>>) /\ \A x : ~InSeq(x, <<>>)
BY DEF Distinct, InSeq

LEMMA OneInQueue ==
    ASSUME NEW k \in Calls
    PROVE  <<k>> \in Seq(Calls) /\ Distinct(<<k>>) /\ \A x : InSeq(x, <<k>>) <=> x = k
BY DEF Distinct, InSeq

-----------------------------------------------------------------------------
(* What leaves a part of the invariant alone. *)

LEMMA SameOwners ==
    ASSUME OwnInv, conns' = conns, scratch' = scratch, est' = est,
           \A a \in Actors : \A c \in Conns : Holds(a, c)' <=> Holds(a, c),
           \A k \in Calls : \A c \in Conns : Wants(k, c)' <=> Wants(k, c),
           \A a \in Sweepers : pc'[a] \in SweepingPCs <=> pc[a] \in SweepingPCs
    PROVE  OwnInv'
<1>1. \A a \in Sweepers : \A c : Sweeps(a, c)' <=> Sweeps(a, c)
  BY DEF Sweeps
<1> QED BY <1>1, Move, PlaceFacts, {} \in SUBSET Conns

LEMMA SameWaiters ==
    ASSUME WaitInv, connsWait' = connsWait, locked' = locked, wres' = wres, wconn' = wconn,
           \A k \in Calls : /\ pc'[Call(k)] = "wait" <=> pc[Call(k)] = "wait"
                            /\ pc'[Call(k)] \in BeforeWait => pc[Call(k)] \in BeforeWait
                            /\ pc'[Dialer(k)] = "idle" <=> pc[Dialer(k)] = "idle"
                            /\ pc[Dialer(k)] = "dial" => pc'[Dialer(k)] = "dial"
    PROVE  WaitInv'
BY DEF WaitInv, WantOK, Queued

LEMMA SameLock ==
    ASSUME LockInv, locked' = locked, connsCleanerRun' = connsCleanerRun,
           \A a \in Actors : pc'[a] = "deliver" => pc[a] = "deliver",
           pc[Cleaner] = "idle" => pc'[Cleaner] = "idle"
    PROVE  LockInv'
BY DEF LockInv

LEMMA SlotSetsFinite ==
    ASSUME TypeOK
    PROVE  /\ IsFiniteSet(est \ Leaving) /\ Cardinality(est \ Leaving) \in Nat
           /\ IsFiniteSet(DialingCalls) /\ Cardinality(DialingCalls) \in Nat
           /\ IsFiniteSet(DialingFor) /\ Cardinality(DialingFor) \in Nat
<1>1. est \ Leaving \subseteq Conns /\ DialingCalls \subseteq Calls /\ DialingFor \subseteq Calls
  BY DEF TypeOK, DialingCalls, DialingFor
<1> QED BY <1>1, HostClientAssumption, FS_Subset, FS_CardinalityType

LEMMA SameLeaving ==
    ASSUME est' = est,
           \A a \in Actors : /\ pc'[a] = "closeNet" <=> pc[a] = "closeNet"
                             /\ pc[a] = "closeNet" => hold'[a] = hold[a]
    PROVE  Leaving' = Leaving
<1>1. Actors' = Actors
  BY DEF Actors, Call, Dialer, Sweepers, Cleaner, Closer
<1> QED BY <1>1 DEF Leaving

LEMMA SameSlots ==
    ASSUME SlotsCounted, est' = est, connsCount' = connsCount,
           \A a \in Actors : /\ pc'[a] = "closeNet" <=> pc[a] = "closeNet"
                             /\ pc[a] = "closeNet" => hold'[a] = hold[a],
           \A k \in Calls : /\ pc'[Call(k)] = "dial" <=> pc[Call(k)] = "dial"
                            /\ pc'[Dialer(k)] \in {"dial", "dec"} <=> pc[Dialer(k)] \in {"dial", "dec"}
    PROVE  SlotsCounted'
<1>1. Leaving' = Leaving
  BY SameLeaving
<1>2. DialingCalls' = DialingCalls /\ DialingFor' = DialingFor
  BY DEF DialingCalls, DialingFor
<1> QED BY <1>1, <1>2 DEF SlotsCounted

-----------------------------------------------------------------------------
(* The actions. *)

LEMMA InvInit == Init => PoolInv
<1> SUFFICES ASSUME Init PROVE PoolInv
  OBVIOUS
<1>1. TypeOK
  <2>1. conf \in [wait : BOOLEAN, close : [Calls -> BOOLEAN]]
    BY DEF Init
  <2>2. conns \in Seq(Conns) /\ connsWait \in Seq(Calls) /\ scratch \in [Sweepers -> Seq(Conns)]
    BY DEF Init
  <2>3. /\ wres \in [Calls -> {"none", "conn", "err"}] /\ wconn \in [Calls -> Conns \cup {None}]
        /\ hold \in [Actors -> Conns \cup {None}]
        /\ err \in [Calls -> {"none", "dial", "ErrNoFreeConns", "ErrTimeout"}]
    BY DEF Init
  <2>4. pc \in [Actors -> {"idle", "dial", "queue", "wait", "use", "release", "deliver",
                           "close", "closeNet", "dec", "scan", "sweep", "done"}]
    BY DEF Init
  <2>5. /\ connsCount \in Int /\ maxConns \in MaxConnsChoices
        /\ locked \in Calls \cup {None} /\ est \in SUBSET Conns
    BY DEF Init
  <2>6. connsCleanerRun \in BOOLEAN
    BY DEF Init
  <2> QED BY <2>1, <2>2, <2>3, <2>4, <2>5, <2>6 DEF TypeOK
<1>2. ListInv
  BY EmptyQueue, ActorFacts DEF Init, ListInv, HoldingPCs
<1>3. OwnInv
  <2>1. ASSUME NEW c \in Conns, NEW p \in Places PROVE ~Has(p, c)
    <3>1. \A a \in Actors : ~Holds(a, c)
      BY DEF Init, Holds, HoldingPCs
    <3>2. \A k \in Calls : ~Wants(k, c)
      BY ActorFacts DEF Init, Wants
    <3>3. \A a \in Sweepers : ~Sweeps(a, c)
      BY EmptyQueue DEF Init, Sweeps
    <3>4. ~InSeq(c, conns)
      BY EmptyQueue DEF Init
    <3> QED BY <3>1, <3>2, <3>3, <3>4, HasAt, PlaceFacts
  <2> QED BY <2>1 DEF OwnInv, Init
<1>4. WaitInv
  BY EmptyQueue, ActorFacts, HostClientAssumption DEF Init, WaitInv, WantOK, Queued, BeforeWait
<1>5. LockInv
  BY ActorFacts DEF Init, LockInv
<1>6. SlotsCounted
  <2>1. est \ Leaving = {} /\ DialingCalls = {} /\ DialingFor = {}
    BY ActorFacts DEF Init, DialingCalls, DialingFor
  <2> QED BY <2>1, FS_EmptySet DEF Init, SlotsCounted
<1> QED BY <1>1, <1>2, <1>3, <1>4, <1>5, <1>6 DEF PoolInv

LEMMA AcquireFullInv ==
    ASSUME PoolInv, NEW k \in Calls, AcquireFull(k)
    PROVE  PoolInv'
<1>1. PICK v \in {"queue", "done"} : pc' = [pc EXCEPT ![Call(k)] = v]
  BY DEF AcquireFull
<1>2. /\ pc[Call(k)] = "idle" /\ DOMAIN pc = Actors /\ Call(k) \in Actors
      /\ UNCHANGED <<conns, connsCount, connsCleanerRun, connsWait, locked, wres, wconn, hold,
                     scratch, est>>
  BY ActorFacts DEF AcquireFull, PoolInv, TypeOK
<1>3. \A a \in Actors : pc'[a] = IF a = Call(k) THEN v ELSE pc[a]
  BY <1>1, <1>2
<1>4. TypeOK'
  BY <1>1, ActorFacts DEF PoolInv, TypeOK, AcquireFull
<1>5. ListInv'
  BY <1>1, <1>2, <1>3 DEF PoolInv, ListInv, HoldingPCs
<1>6. OwnInv'
  BY <1>1, <1>2, <1>3, ActorFacts, SameOwners
     DEF PoolInv, Holds, Wants, HoldingPCs, SweepingPCs
<1>7. WaitInv'
  BY <1>1, <1>2, <1>3, ActorFacts, SameWaiters DEF PoolInv, BeforeWait
<1>8. LockInv'
  BY <1>1, <1>2, <1>3, ActorFacts, SameLock DEF PoolInv
<1>9. SlotsCounted'
  BY <1>1, <1>2, <1>3, ActorFacts, SameSlots DEF PoolInv
<1> QED BY <1>4, <1>5, <1>6, <1>7, <1>8, <1>9 DEF PoolInv

LEMMA WaitGotErrInv ==
    ASSUME PoolInv, NEW k \in Calls, WaitGotErr(k)
    PROVE  PoolInv'
<1>2. /\ pc[Call(k)] = "wait" /\ wres[k] = "err" /\ DOMAIN pc = Actors /\ Call(k) \in Actors
      /\ UNCHANGED <<conns, connsCount, connsCleanerRun, connsWait, locked, wres, wconn, hold,
                     scratch, est>>
  BY ActorFacts DEF WaitGotErr, PoolInv, TypeOK
<1>3. \A a \in Actors : pc'[a] = IF a = Call(k) THEN "done" ELSE pc[a]
  BY <1>2 DEF WaitGotErr
<1>4. TypeOK'
  BY ActorFacts DEF PoolInv, TypeOK, WaitGotErr
<1>5. ListInv'
  BY <1>2, <1>3 DEF PoolInv, ListInv, HoldingPCs
<1>6. OwnInv'
  <2>1. wconn[k] \notin Conns
    BY <1>2, HostClientAssumption DEF PoolInv, WaitInv, WantOK
  <2> QED BY <1>2, <1>3, <2>1, ActorFacts, SameOwners
          DEF PoolInv, Holds, Wants, HoldingPCs, SweepingPCs
<1>7. WaitInv'
  BY <1>2, <1>3, ActorFacts DEF PoolInv, WaitInv, WantOK, Queued, BeforeWait
<1>8. LockInv'
  BY <1>2, <1>3, ActorFacts, SameLock DEF PoolInv
<1>9. SlotsCounted'
  BY <1>2, <1>3, ActorFacts, SameSlots DEF PoolInv
<1> QED BY <1>4, <1>5, <1>6, <1>7, <1>8, <1>9 DEF PoolInv

LEMMA FinishInv ==
    ASSUME PoolInv, NEW k \in Calls, Finish(k)
    PROVE  PoolInv'
<1>1. PICK v \in {"release", "close"} : pc' = [pc EXCEPT ![Call(k)] = v]
  BY DEF Finish
<1>2. /\ pc[Call(k)] = "use" /\ DOMAIN pc = Actors /\ Call(k) \in Actors
      /\ UNCHANGED <<conns, connsCount, connsCleanerRun, connsWait, locked, wres, wconn, hold,
                     scratch, est>>
  BY ActorFacts DEF Finish, PoolInv, TypeOK
<1>3. \A a \in Actors : pc'[a] = IF a = Call(k) THEN v ELSE pc[a]
  BY <1>1, <1>2
<1>4. TypeOK'
  BY <1>1, ActorFacts DEF PoolInv, TypeOK, Finish
<1>5. ListInv'
  BY <1>1, <1>2, <1>3 DEF PoolInv, ListInv, HoldingPCs
<1>6. OwnInv'
  BY <1>1, <1>2, <1>3, ActorFacts, SameOwners
     DEF PoolInv, Holds, Wants, HoldingPCs, SweepingPCs
<1>7. WaitInv'
  BY <1>1, <1>2, <1>3, ActorFacts, SameWaiters DEF PoolInv, BeforeWait
<1>8. LockInv'
  BY <1>1, <1>2, <1>3, ActorFacts, SameLock DEF PoolInv
<1>9. SlotsCounted'
  BY <1>1, <1>2, <1>3, ActorFacts, SameSlots DEF PoolInv
<1> QED BY <1>4, <1>5, <1>6, <1>7, <1>8, <1>9 DEF PoolInv

LEMMA SetMaxConnsInv ==
    ASSUME PoolInv, NEW m \in MaxConnsChoices, SetMaxConns(m)
    PROVE  PoolInv'
<1>1. UNCHANGED <<conns, connsCount, connsCleanerRun, connsWait, locked, wres, wconn, pc, hold,
                  scratch, est>>
  BY DEF SetMaxConns
<1>2. TypeOK'
  BY DEF PoolInv, TypeOK, SetMaxConns
<1>3. ListInv'
  BY <1>1 DEF PoolInv, ListInv
<1>4. OwnInv'
  BY <1>1, SameOwners DEF PoolInv, Holds, Wants
<1>5. WaitInv' /\ LockInv'
  BY <1>1, SameWaiters, SameLock DEF PoolInv
<1>6. SlotsCounted'
  BY <1>1, SameSlots DEF PoolInv
<1> QED BY <1>2, <1>3, <1>4, <1>5, <1>6 DEF PoolInv

LEMMA AcquireIdleInv ==
    ASSUME PoolInv, NEW k \in Calls, AcquireIdle(k)
    PROVE  PoolInv'
<1>1. PICK x : x = conns[Len(conns)]
  OBVIOUS
<1>2. /\ pc[Call(k)] = "idle" /\ DOMAIN pc = Actors /\ DOMAIN hold = Actors /\ Call(k) \in Actors
      /\ conns' = SubSeq(conns, 1, Len(conns) - 1)
      /\ UNCHANGED <<connsCount, maxConns, connsCleanerRun, connsWait, locked, wres, wconn,
                     scratch, conf, err, est>>
  BY ActorFacts DEF AcquireIdle, PoolInv, TypeOK
<1>3. /\ \A a \in Actors : pc'[a] = IF a = Call(k) THEN "use" ELSE pc[a]
      /\ \A a \in Actors : hold'[a] = IF a = Call(k) THEN x ELSE hold[a]
  BY <1>1, <1>2 DEF AcquireIdle
<1>4. /\ x \in Conns /\ InSeq(x, conns) /\ conns' \in Seq(Conns) /\ Distinct(conns')
      /\ \A c : InSeq(c, conns') <=> InSeq(c, conns) /\ c # x
  BY <1>1, <1>2, FrontMembers DEF PoolInv, TypeOK, ListInv, AcquireIdle
<1>5. TypeOK'
  <2>1. pc' = [pc EXCEPT ![Call(k)] = "use"] /\ hold' = [hold EXCEPT ![Call(k)] = x]
    BY <1>1 DEF AcquireIdle
  <2> QED BY <1>2, <1>4, <2>1 DEF PoolInv, TypeOK
<1>6. ListInv'
  BY <1>2, <1>3, <1>4 DEF PoolInv, ListInv
<1>7. OwnInv'
  <2>1. /\ x \in est /\ \A a \in Actors : ~Holds(a, x)
        /\ \A j \in Calls : ~Wants(j, x) /\ \A a \in Sweepers : ~Sweeps(a, x)
    BY <1>4, Owner DEF PoolInv
  <2> DEFINE q == Hold(Call(k))
  <2>2. \A c \in Conns : InSeq(c, conns') <=> IF c \in {x} THEN q = Idle ELSE InSeq(c, conns)
    BY <1>4, PlaceFacts
  <2>3. \A c \in Conns : \A a \in Actors :
            Holds(a, c)' <=> IF c \in {x} THEN q = Hold(a) ELSE Holds(a, c)
    BY <1>2, <1>3, <2>1, PlaceFacts DEF Holds, HoldingPCs
  <2>4. \A c \in Conns : \A j \in Calls :
            Wants(j, c)' <=> IF c \in {x} THEN q = Want(j) ELSE Wants(j, c)
    BY <1>2, <1>3, <2>1, PlaceFacts, ActorFacts DEF Wants
  <2>5. \A c \in Conns : \A a \in Sweepers :
            Sweeps(a, c)' <=> IF c \in {x} THEN q = Scratch(a) ELSE Sweeps(a, c)
    BY <1>2, <1>3, <2>1, PlaceFacts, ActorFacts DEF Sweeps
  <2>6. q \in Places /\ {x} \in SUBSET Conns /\ {x} \subseteq est' /\ OwnInv
        /\ \A c \in Conns \ {x} : c \in est' <=> c \in est
    BY <1>2, <1>4, <2>1, PlaceFacts DEF PoolInv
  <2> HIDE DEF q
  <2> QED BY <2>2, <2>3, <2>4, <2>5, <2>6, Move
<1>8. WaitInv'
  BY <1>2, <1>3, ActorFacts, SameWaiters DEF PoolInv, BeforeWait
<1>9. LockInv'
  BY <1>2, <1>3, ActorFacts, SameLock DEF PoolInv
<1>10. SlotsCounted'
  BY <1>2, <1>3, ActorFacts, SameSlots DEF PoolInv
<1> QED BY <1>5, <1>6, <1>7, <1>8, <1>9, <1>10 DEF PoolInv

LEMMA AcquireSlotInv ==
    ASSUME PoolInv, NEW k \in Calls, AcquireSlot(k)
    PROVE  PoolInv'
<1>1. /\ pc[Call(k)] = "idle" /\ DOMAIN pc = Actors /\ Call(k) \in Actors /\ Cleaner \in Actors
      /\ connsCount' = connsCount + 1
      /\ UNCHANGED <<conns, maxConns, connsWait, locked, wres, wconn, hold, scratch,
                     conf, err, est>>
  BY ActorFacts DEF AcquireSlot, PoolInv, TypeOK
<1>2. /\ \A a \in Actors : pc'[a] = IF a = Call(k) THEN "dial"
                                    ELSE IF a = Cleaner /\ pc'[a] # pc[a] THEN "scan" ELSE pc[a]
      /\ pc'[Cleaner] # pc[Cleaner] => pc[Cleaner] = "idle"
      /\ ~connsCleanerRun' => ~connsCleanerRun /\ pc'[Cleaner] = pc[Cleaner]
      /\ connsCleanerRun' \in BOOLEAN
  <2>1. CASE /\ ~connsCleanerRun /\ connsCleanerRun' = TRUE
             /\ pc' = [pc EXCEPT ![Call(k)] = "dial", ![Cleaner] = "scan"]
    BY <1>1, <2>1, ActorFacts DEF PoolInv, LockInv
  <2>2. CASE pc' = [pc EXCEPT ![Call(k)] = "dial"] /\ connsCleanerRun' = connsCleanerRun
    BY <1>1, <2>2, ActorFacts DEF PoolInv, TypeOK
  <2> QED BY <2>1, <2>2 DEF AcquireSlot
<1>3. TypeOK'
  <2>1. \/ pc' = [pc EXCEPT ![Call(k)] = "dial", ![Cleaner] = "scan"]
        \/ pc' = [pc EXCEPT ![Call(k)] = "dial"]
    BY DEF AcquireSlot
  <2> QED BY <1>1, <1>2, <2>1 DEF PoolInv, TypeOK
<1>4. ListInv'
  BY <1>1, <1>2 DEF PoolInv, ListInv, HoldingPCs
<1>5. OwnInv'
  BY <1>1, <1>2, ActorFacts, SameOwners DEF PoolInv, Holds, Wants, HoldingPCs, SweepingPCs
<1>6. WaitInv'
  BY <1>1, <1>2, ActorFacts, SameWaiters DEF PoolInv, BeforeWait
<1>7. LockInv'
  BY <1>1, <1>2, ActorFacts DEF PoolInv, LockInv
<1>8. SlotsCounted'
  <2>1. Leaving' = Leaving /\ DialingFor' = DialingFor
    <3>1. Leaving' = Leaving
      BY <1>1, <1>2, SameLeaving
    <3> QED BY <1>1, <1>2, <3>1, ActorFacts DEF DialingFor
  <2>2. DialingCalls' = DialingCalls \cup {k} /\ k \notin DialingCalls
    BY <1>1, <1>2, ActorFacts DEF DialingCalls
  <2>3. Cardinality(DialingCalls') = Cardinality(DialingCalls) + 1
    BY <2>2, SlotSetsFinite, CountOneMore DEF PoolInv
  <2> QED BY <1>1, <2>1, <2>3, SlotSetsFinite DEF PoolInv, SlotsCounted
<1> QED BY <1>3, <1>4, <1>5, <1>6, <1>7, <1>8 DEF PoolInv

LEMMA QueueForIdleInv ==
    ASSUME PoolInv, NEW k \in Calls, QueueForIdle(k)
    PROVE  PoolInv'
<1>1. /\ pc[Call(k)] = "queue" /\ DOMAIN pc = Actors /\ Call(k) \in Actors
      /\ pc' = [pc EXCEPT ![Call(k)] = "wait"]
      /\ UNCHANGED <<conns, connsCount, maxConns, connsCleanerRun, locked, wres, wconn, hold,
                     scratch, conf, err, est>>
  BY ActorFacts DEF QueueForIdle, PoolInv, TypeOK
<1>2. \A a \in Actors : pc'[a] = IF a = Call(k) THEN "wait" ELSE pc[a]
  BY <1>1
<1>3. wres[k] = "none" /\ wconn[k] = None /\ ~Queued(k)
  BY <1>1 DEF PoolInv, WaitInv, WantOK, BeforeWait
<1>4. /\ connsWait' \in Seq(Calls) /\ Distinct(connsWait') /\ InSeq(k, connsWait')
      /\ \A j : InSeq(j, connsWait') => InSeq(j, connsWait) \/ j = k
      /\ \A j \in Calls : InSeq(j, connsWait) /\ wres[j] = "none" => InSeq(j, connsWait')
  <2>1. CASE Waiting = {} /\ connsWait' = <<k>>
    BY <2>1, NoWaiter, OneInQueue
  <2>2. CASE \E i \in Waiting : FirstWaiting(i) /\ connsWait' = Append(After(i - 1), k)
    <3>1. PICK i \in Waiting : FirstWaiting(i) /\ connsWait' = Append(After(i - 1), k)
      BY <2>2
    <3>2. PICK s \in Seq(Calls) : s = After(i - 1)
      BY <3>1, FirstWaiter DEF PoolInv, WaitInv
    <3>3. /\ Distinct(s) /\ \A j : InSeq(j, s) => InSeq(j, connsWait)
          /\ \A j \in Calls : InSeq(j, connsWait) /\ wres[j] = "none" => InSeq(j, s)
      BY <3>1, <3>2, FirstWaiter DEF PoolInv, WaitInv
    <3>4. ~InSeq(k, s) /\ connsWait' = Append(s, k)
      BY <1>3, <3>1, <3>2, <3>3 DEF Queued
    <3>5. connsWait' \in Seq(Calls)
      BY <3>4
    <3> QED BY <3>3, <3>4, <3>5, AppendMembers
  <2> QED BY <2>1, <2>2 DEF QueueForIdle
<1>5. TypeOK'
  BY <1>1, <1>4 DEF PoolInv, TypeOK
<1>6. ListInv'
  BY <1>1, <1>2 DEF PoolInv, ListInv, HoldingPCs
<1>7. OwnInv'
  BY <1>1, <1>2, <1>3, ActorFacts, HostClientAssumption, SameOwners
     DEF PoolInv, Holds, Wants, HoldingPCs, SweepingPCs
<1>8. WaitInv'
  <2>1. ASSUME NEW j \in Calls PROVE WantOK(j)'
    BY <1>1, <1>2, <1>3, <1>4, ActorFacts DEF PoolInv, WaitInv, WantOK, Queued, BeforeWait
  <2> QED BY <1>4, <2>1 DEF WaitInv
<1>9. LockInv'
  BY <1>1, <1>2, ActorFacts, SameLock DEF PoolInv
<1>10. SlotsCounted'
  BY <1>1, <1>2, ActorFacts, SameSlots DEF PoolInv
<1> QED BY <1>5, <1>6, <1>7, <1>8, <1>9, <1>10 DEF PoolInv

\* What a waiter was given passes from its wantConn to the call.
LEMMA TakeDelivered ==
    ASSUME PoolInv, NEW k \in Calls, NEW v \in {"use", "release"}, NEW x \in Conns,
           pc[Call(k)] = "wait", wconn[k] = x,
           hold' = [hold EXCEPT ![Call(k)] = x], wconn' = [wconn EXCEPT ![k] = None],
           pc' = [pc EXCEPT ![Call(k)] = v],
           \A j \in Calls \ {k} : wres'[j] = wres[j], wres'[k] \in {"conn", "err"},
           UNCHANGED <<conns, connsCount, connsCleanerRun, connsWait, locked, scratch, est>>
    PROVE  ListInv' /\ OwnInv' /\ WaitInv' /\ LockInv' /\ SlotsCounted'
<1>1. /\ DOMAIN pc = Actors /\ DOMAIN hold = Actors /\ DOMAIN wconn = Calls /\ Call(k) \in Actors
  BY ActorFacts DEF PoolInv, TypeOK
<1>2. /\ \A a \in Actors : pc'[a] = IF a = Call(k) THEN v ELSE pc[a]
      /\ \A a \in Actors : hold'[a] = IF a = Call(k) THEN x ELSE hold[a]
      /\ \A j \in Calls : wconn'[j] = IF j = k THEN None ELSE wconn[j]
  BY <1>1
<1>3. ListInv'
  BY <1>2 DEF PoolInv, ListInv
<1>4. OwnInv'
  <2>1. /\ x \in est /\ ~InSeq(x, conns) /\ \A a \in Actors : ~Holds(a, x)
        /\ \A j \in Calls : Wants(j, x) => j = k
        /\ \A a \in Sweepers : ~Sweeps(a, x)
    BY Owner DEF PoolInv, Wants
  <2> DEFINE q == Hold(Call(k))
  <2>2. \A c \in Conns : InSeq(c, conns') <=> IF c \in {x} THEN q = Idle ELSE InSeq(c, conns)
    BY <2>1, PlaceFacts
  <2>3. \A c \in Conns : \A a \in Actors :
            Holds(a, c)' <=> IF c \in {x} THEN q = Hold(a) ELSE Holds(a, c)
    BY <1>2, <2>1, PlaceFacts DEF Holds, HoldingPCs
  <2>4. \A c \in Conns : \A j \in Calls :
            Wants(j, c)' <=> IF c \in {x} THEN q = Want(j) ELSE Wants(j, c)
    BY <1>2, <2>1, PlaceFacts, ActorFacts, HostClientAssumption DEF Wants
  <2>5. \A c \in Conns : \A a \in Sweepers :
            Sweeps(a, c)' <=> IF c \in {x} THEN q = Scratch(a) ELSE Sweeps(a, c)
    BY <1>2, <2>1, PlaceFacts, ActorFacts DEF Sweeps
  <2>6. q \in Places /\ {x} \in SUBSET Conns /\ {x} \subseteq est' /\ OwnInv
        /\ \A c \in Conns \ {x} : c \in est' <=> c \in est
    BY <1>1, <2>1, PlaceFacts DEF PoolInv
  <2> HIDE DEF q
  <2> QED BY <2>2, <2>3, <2>4, <2>5, <2>6, Move
<1>5. WaitInv'
  <2>1. ASSUME NEW j \in Calls PROVE WantOK(j)'
    BY <1>2, ActorFacts DEF PoolInv, WaitInv, WantOK, Queued, BeforeWait
  <2> QED BY <2>1 DEF PoolInv, WaitInv
<1>6. LockInv'
  BY <1>2, ActorFacts, SameLock DEF PoolInv
<1>7. SlotsCounted'
  BY <1>2, ActorFacts, SameSlots DEF PoolInv
<1> QED BY <1>3, <1>4, <1>5, <1>6, <1>7

LEMMA WaitGotConnInv ==
    ASSUME PoolInv, NEW k \in Calls, WaitGotConn(k)
    PROVE  PoolInv'
<1>1. PICK x \in Conns : x = wconn[k]
  BY DEF WaitGotConn, PoolInv, TypeOK, WaitInv, WantOK
<1>2. /\ pc[Call(k)] = "wait" /\ hold' = [hold EXCEPT ![Call(k)] = x]
      /\ wconn' = [wconn EXCEPT ![k] = None] /\ pc' = [pc EXCEPT ![Call(k)] = "use"]
      /\ wres[k] = "conn"
      /\ UNCHANGED <<conns, connsCount, maxConns, connsCleanerRun, connsWait, locked, wres,
                     scratch, conf, err, est>>
  BY <1>1 DEF WaitGotConn
<1>3. TypeOK'
  BY <1>2, ActorFacts DEF PoolInv, TypeOK
<1>4. ListInv' /\ OwnInv' /\ WaitInv' /\ LockInv' /\ SlotsCounted'
  BY <1>1, <1>2, TakeDelivered
<1> QED BY <1>3, <1>4 DEF PoolInv

LEMMA WaitTimeoutInv ==
    ASSUME PoolInv, NEW k \in Calls, WaitTimeout(k)
    PROVE  PoolInv'
<1>1. /\ pc[Call(k)] = "wait" /\ wres' = [wres EXCEPT ![k] = "err"]
      /\ DOMAIN wres = Calls /\ DOMAIN pc = Actors /\ Call(k) \in Actors
      /\ UNCHANGED <<conns, connsCount, maxConns, connsCleanerRun, connsWait, locked,
                     scratch, conf, est>>
  BY ActorFacts DEF WaitTimeout, PoolInv, TypeOK
<1>2. \A j \in Calls : wres'[j] = IF j = k THEN "err" ELSE wres[j]
  BY <1>1
<1>3. err' \in [Calls -> {"none", "dial", "ErrNoFreeConns", "ErrTimeout"}]
  BY DEF WaitTimeout, PoolInv, TypeOK
<1>4. wres' \in [Calls -> {"none", "conn", "err"}]
  BY <1>1 DEF PoolInv, TypeOK
<1>5. CASE wconn[k] # None
  <2>1. PICK x \in Conns : x = wconn[k]
    BY <1>5 DEF PoolInv, TypeOK
  <2>2. /\ hold' = [hold EXCEPT ![Call(k)] = x] /\ wconn' = [wconn EXCEPT ![k] = None]
        /\ pc' = [pc EXCEPT ![Call(k)] = "release"]
    BY <1>5, <2>1 DEF WaitTimeout
  <2>3. TypeOK'
    BY <1>1, <1>3, <1>4, <2>2, ActorFacts DEF PoolInv, TypeOK
  <2>4. ListInv' /\ OwnInv' /\ WaitInv' /\ LockInv' /\ SlotsCounted'
    BY <1>1, <1>2, <2>1, <2>2, TakeDelivered
  <2> QED BY <2>3, <2>4 DEF PoolInv
<1>6. CASE wconn[k] = None
  <2>1. /\ pc' = [pc EXCEPT ![Call(k)] = "done"] /\ hold' = hold /\ wconn' = wconn
    BY <1>6 DEF WaitTimeout
  <2>2. \A a \in Actors : pc'[a] = IF a = Call(k) THEN "done" ELSE pc[a]
    BY <1>1, <2>1
  <2>3. TypeOK'
    BY <1>1, <1>3, <1>4, <2>1, ActorFacts DEF PoolInv, TypeOK
  <2>4. ListInv'
    BY <1>1, <2>1, <2>2 DEF PoolInv, ListInv, HoldingPCs
  <2>5. OwnInv'
    BY <1>1, <1>6, <2>1, <2>2, ActorFacts, HostClientAssumption, SameOwners
       DEF PoolInv, Holds, Wants, HoldingPCs, SweepingPCs
  <2>6. WaitInv'
    <3>1. ASSUME NEW j \in Calls PROVE WantOK(j)'
      BY <1>1, <1>2, <1>6, <2>1, <2>2, ActorFacts
         DEF PoolInv, WaitInv, WantOK, Queued, BeforeWait
    <3> QED BY <1>1, <3>1 DEF PoolInv, WaitInv
  <2>7. LockInv'
    BY <1>1, <2>2, ActorFacts, SameLock DEF PoolInv
  <2>8. SlotsCounted'
    BY <1>1, <2>1, <2>2, ActorFacts, SameSlots DEF PoolInv
  <2> QED BY <2>3, <2>4, <2>5, <2>6, <2>7, <2>8 DEF PoolInv
<1> QED BY <1>5, <1>6

\* A connection just dialed is nowhere yet.
LEMMA Opened ==
    ASSUME PoolInv, NEW x \in Conns \ est
    PROVE  /\ ~InSeq(x, conns) /\ \A a \in Actors : ~Holds(a, x)
           /\ \A k \in Calls : ~Wants(k, x)
           /\ \A a \in Sweepers : ~Sweeps(a, x)
BY Owner DEF PoolInv

\* It is one more slot in use.
LEMMA OpenedCounted ==
    ASSUME PoolInv, NEW x \in Conns \ est, est' = est \cup {x},
           \A a \in Actors : /\ pc'[a] = "closeNet" <=> pc[a] = "closeNet"
                             /\ pc[a] = "closeNet" => hold'[a] = hold[a]
    PROVE  Cardinality((est \ Leaving)') = Cardinality(est \ Leaving) + 1
<1>1. Actors' = Actors
  BY DEF Actors, Call, Dialer, Sweepers, Cleaner, Closer
<1>2. \A a \in Actors : ~(pc[a] = "closeNet" /\ hold[a] = x)
  BY Opened DEF Holds, HoldingPCs
<1>3. Leaving' = Leaving
  BY <1>1, <1>2 DEF Leaving
<1>4. (est \ Leaving)' = (est \ Leaving) \cup {x} /\ x \notin est \ Leaving
  BY <1>3 DEF Leaving
<1> QED BY <1>4, SlotSetsFinite, CountOneMore DEF PoolInv

LEMMA DialOkInv ==
    ASSUME PoolInv, NEW k \in Calls, DialOk(k)
    PROVE  PoolInv'
<1>1. PICK x \in Conns \ est : hold' = [hold EXCEPT ![Call(k)] = x] /\ est' = est \cup {x}
  BY DEF DialOk
<1>2. /\ pc[Call(k)] = "dial" /\ DOMAIN pc = Actors /\ DOMAIN hold = Actors /\ Call(k) \in Actors
      /\ pc' = [pc EXCEPT ![Call(k)] = "use"]
      /\ UNCHANGED <<conns, connsCount, maxConns, connsCleanerRun, connsWait, locked,
                     wres, wconn, scratch, conf, err>>
  BY ActorFacts DEF DialOk, PoolInv, TypeOK
<1>3. /\ \A a \in Actors : pc'[a] = IF a = Call(k) THEN "use" ELSE pc[a]
      /\ \A a \in Actors : hold'[a] = IF a = Call(k) THEN x ELSE hold[a]
  BY <1>1, <1>2
<1>4. TypeOK'
  BY <1>1, <1>2 DEF PoolInv, TypeOK
<1>5. ListInv'
  BY <1>2, <1>3 DEF PoolInv, ListInv
<1>6. OwnInv'
  <2> DEFINE q == Hold(Call(k))
  <2>2. \A c \in Conns : InSeq(c, conns') <=> IF c \in {x} THEN q = Idle ELSE InSeq(c, conns)
    BY <1>2, Opened, PlaceFacts
  <2>3. \A c \in Conns : \A a \in Actors :
            Holds(a, c)' <=> IF c \in {x} THEN q = Hold(a) ELSE Holds(a, c)
    BY <1>2, <1>3, Opened, PlaceFacts DEF Holds, HoldingPCs
  <2>4. \A c \in Conns : \A j \in Calls :
            Wants(j, c)' <=> IF c \in {x} THEN q = Want(j) ELSE Wants(j, c)
    BY <1>2, <1>3, Opened, PlaceFacts, ActorFacts DEF Wants
  <2>5. \A c \in Conns : \A a \in Sweepers :
            Sweeps(a, c)' <=> IF c \in {x} THEN q = Scratch(a) ELSE Sweeps(a, c)
    BY <1>2, <1>3, Opened, PlaceFacts, ActorFacts DEF Sweeps
  <2>6. q \in Places /\ {x} \in SUBSET Conns /\ {x} \subseteq est' /\ OwnInv
        /\ \A c \in Conns \ {x} : c \in est' <=> c \in est
    BY <1>1, <1>2, PlaceFacts DEF PoolInv
  <2> HIDE DEF q
  <2> QED BY <2>2, <2>3, <2>4, <2>5, <2>6, Move
<1>7. WaitInv'
  BY <1>2, <1>3, ActorFacts, SameWaiters DEF PoolInv, BeforeWait
<1>8. LockInv'
  BY <1>2, <1>3, ActorFacts, SameLock DEF PoolInv
<1>9. SlotsCounted'
  <2>1. Cardinality((est \ Leaving)') = Cardinality(est \ Leaving) + 1
    BY <1>1, <1>2, <1>3, OpenedCounted
  <2>2. DialingFor' = DialingFor
    BY <1>3, ActorFacts DEF DialingFor
  <2>3. DialingCalls' = DialingCalls \ {k} /\ k \in DialingCalls
    BY <1>2, <1>3, ActorFacts DEF DialingCalls
  <2>4. Cardinality(DialingCalls') = Cardinality(DialingCalls) - 1
    BY <2>3, SlotSetsFinite, CountOneLess DEF PoolInv
  <2> QED BY <1>2, <2>1, <2>2, <2>4, SlotSetsFinite DEF PoolInv, SlotsCounted
<1> QED BY <1>4, <1>5, <1>6, <1>7, <1>8, <1>9 DEF PoolInv

\* decConnsCount: the slot goes to the waiter d, for which a goroutine dials, or is
\* given up (d = None).
LEMMA DecFacts ==
    ASSUME PoolInv, NEW a \in Actors, pc[a] # "idle", NEW next, DecConnsCount(a, next)
    PROVE  \E d \in Calls \cup {None} :
              /\ d = None => connsCount' = connsCount - 1
              /\ d # None => /\ connsCount' = connsCount /\ InSeq(d, connsWait)
                             /\ a # Dialer(d) /\ pc[Dialer(d)] = "idle"
              /\ connsWait' \in Seq(Calls) /\ Distinct(connsWait')
              /\ \A k \in Calls : InSeq(k, connsWait') => InSeq(k, connsWait) /\ k # d
              /\ \A k \in Calls : InSeq(k, connsWait) /\ wres[k] = "none" /\ k # d
                                      => InSeq(k, connsWait')
              /\ \A b \in Actors : pc'[b] = IF b = a THEN next
                                            ELSE IF d # None /\ b = Dialer(d) THEN "dial"
                                            ELSE pc[b]
              /\ DOMAIN pc' = Actors
<1>0. DOMAIN pc = Actors
  BY DEF PoolInv, TypeOK
<1>1. CASE Waiting = {} /\ connsCount' = connsCount - 1 /\ connsWait' = <<>>
           /\ pc' = [pc EXCEPT ![a] = next]
  <2>1. <<>> \in Seq(Calls)
    OBVIOUS
  <2> QED BY <1>0, <1>1, <2>1, NoWaiter, EmptyQueue
<1>2. CASE \E i \in Waiting :
             /\ FirstWaiting(i)
             /\ connsWait' = After(i)
             /\ pc' = [pc EXCEPT ![a] = next, ![Dialer(connsWait[i])] = "dial"]
             /\ UNCHANGED connsCount
  <2>1. PICK i \in Waiting :
             /\ FirstWaiting(i)
             /\ connsWait' = After(i)
             /\ pc' = [pc EXCEPT ![a] = next, ![Dialer(connsWait[i])] = "dial"]
             /\ UNCHANGED connsCount
    BY <1>2
  <2>2. PICK d \in Calls : d = connsWait[i] /\ InSeq(d, connsWait)
    BY <2>1, FirstWaiter DEF PoolInv, WaitInv
  <2>3. /\ connsWait' \in Seq(Calls) /\ Distinct(connsWait')
        /\ \A k \in Calls : InSeq(k, connsWait') => InSeq(k, connsWait) /\ k # d
        /\ \A k \in Calls : InSeq(k, connsWait) /\ wres[k] = "none" /\ k # d
                                => InSeq(k, connsWait')
    BY <2>1, <2>2, FirstWaiter DEF PoolInv, WaitInv
  <2>4. pc[Dialer(d)] = "idle" /\ a # Dialer(d) /\ Dialer(d) \in Actors /\ d # None
    BY <2>2, ActorFacts, HostClientAssumption DEF PoolInv, WaitInv, WantOK
  <2>5. pc' = [pc EXCEPT ![a] = next, ![Dialer(d)] = "dial"]
    BY <2>1, <2>2
  <2>6. /\ \A b \in Actors : pc'[b] = IF b = a THEN next ELSE IF b = Dialer(d) THEN "dial" ELSE pc[b]
        /\ DOMAIN pc' = Actors
    BY <1>0, <2>4, <2>5
  <2> QED BY <2>1, <2>2, <2>3, <2>4, <2>6
<1> QED BY <1>1, <1>2 DEF DecConnsCount

\* The rest of the invariant does not see who has the slot.
LEMMA DecInv ==
    ASSUME PoolInv, NEW a \in Actors, NEW next \in {"done", "closeNet"}, DecConnsCount(a, next),
           UNCHANGED <<conns, maxConns, connsCleanerRun, locked, wres, wconn, hold, scratch,
                       conf, est>>,
           err' \in [Calls -> {"none", "dial", "ErrNoFreeConns", "ErrTimeout"}],
           pc[a] \in {"dial", "dec", "close"}, next = "closeNet" <=> pc[a] = "close",
           \A k \in Calls : a = Dialer(k) => pc[a] # "dial"
    PROVE  TypeOK' /\ ListInv' /\ OwnInv' /\ WaitInv' /\ LockInv'
<1>1. PICK d \in Calls \cup {None} :
        /\ d = None => connsCount' = connsCount - 1
        /\ d # None => /\ connsCount' = connsCount /\ InSeq(d, connsWait)
                       /\ a # Dialer(d) /\ pc[Dialer(d)] = "idle"
        /\ connsWait' \in Seq(Calls) /\ Distinct(connsWait')
        /\ \A k \in Calls : InSeq(k, connsWait') => InSeq(k, connsWait) /\ k # d
        /\ \A k \in Calls : InSeq(k, connsWait) /\ wres[k] = "none" /\ k # d
                                => InSeq(k, connsWait')
        /\ \A b \in Actors : pc'[b] = IF b = a THEN next
                                      ELSE IF d # None /\ b = Dialer(d) THEN "dial"
                                      ELSE pc[b]
        /\ DOMAIN pc' = Actors
  BY DecFacts
<1>2. TypeOK'
  <2>1. connsCount' \in Int
    BY <1>1 DEF PoolInv, TypeOK
  <2>2. pc' \in [Actors -> {"idle", "dial", "queue", "wait", "use", "release", "deliver",
                            "close", "closeNet", "dec", "scan", "sweep", "done"}]
    <3>1. \/ pc' = [pc EXCEPT ![a] = next]
          \/ \E e : pc' = [pc EXCEPT ![a] = next, ![e] = "dial"]
      BY DEF DecConnsCount
    <3> QED BY <3>1 DEF PoolInv, TypeOK
  <2> QED BY <1>1, <2>1, <2>2 DEF PoolInv, TypeOK
<1>3. ListInv'
  BY <1>1, ActorFacts DEF PoolInv, ListInv, HoldingPCs
<1>4. OwnInv'
  <2>1. \A b \in Actors : \A c \in Conns : Holds(b, c)' <=> Holds(b, c)
    BY <1>1 DEF Holds, HoldingPCs
  <2>2. \A k \in Calls : \A c \in Conns : Wants(k, c)' <=> Wants(k, c)
    BY <1>1, ActorFacts DEF Wants
  <2>3. \A b \in Sweepers : pc'[b] \in SweepingPCs <=> pc[b] \in SweepingPCs
    BY <1>1, ActorFacts DEF SweepingPCs
  <2> QED BY <2>1, <2>2, <2>3, SameOwners DEF PoolInv
<1>5. WaitInv'
  <2>1. ASSUME NEW k \in Calls PROVE WantOK(k)'
    <3>1. /\ pc'[Call(k)] = "wait" <=> pc[Call(k)] = "wait"
          /\ pc'[Call(k)] \in BeforeWait => pc[Call(k)] \in BeforeWait
          /\ pc'[Dialer(k)] = IF k = d THEN "dial" ELSE IF a = Dialer(k) THEN next ELSE pc[Dialer(k)]
          /\ a = Dialer(k) => pc[Dialer(k)] \in {"dec", "close"}
          /\ k = d => pc[Dialer(k)] = "idle" /\ InSeq(k, connsWait)
      BY <1>1, ActorFacts, HostClientAssumption DEF BeforeWait
    <3> QED BY <1>1, <3>1 DEF PoolInv, WaitInv, WantOK, Queued
  <2> QED BY <1>1, <2>1 DEF WaitInv
<1>6. LockInv'
  BY <1>1, ActorFacts, SameLock DEF PoolInv
<1> QED BY <1>2, <1>3, <1>4, <1>5, <1>6

LEMMA DialFailInv ==
    ASSUME PoolInv, NEW k \in Calls, DialFail(k)
    PROVE  PoolInv'
<1>1. /\ pc[Call(k)] = "dial" /\ Call(k) \in Actors /\ DecConnsCount(Call(k), "done")
      /\ UNCHANGED <<conns, maxConns, connsCleanerRun, locked, wres, wconn, hold, scratch,
                     conf, est>>
  BY ActorFacts DEF DialFail
<1>2. err' \in [Calls -> {"none", "dial", "ErrNoFreeConns", "ErrTimeout"}]
  BY DEF DialFail, PoolInv, TypeOK
<1>3. TypeOK' /\ ListInv' /\ OwnInv' /\ WaitInv' /\ LockInv'
  BY <1>1, <1>2, ActorFacts, DecInv
<1>4. SlotsCounted'
  <2>1. PICK d \in Calls \cup {None} :
           /\ d = None => connsCount' = connsCount - 1
           /\ d # None => connsCount' = connsCount /\ pc[Dialer(d)] = "idle"
           /\ \A b \in Actors : pc'[b] = IF b = Call(k) THEN "done"
                                         ELSE IF d # None /\ b = Dialer(d) THEN "dial"
                                         ELSE pc[b]
    <3>1. pc[Call(k)] # "idle"
      BY <1>1
    <3> QED BY <1>1, <3>1, DecFacts
  <2>2. Leaving' = Leaving
    BY <1>1, <2>1, SameLeaving
  <2>3. DialingCalls' = DialingCalls \ {k} /\ k \in DialingCalls
    BY <1>1, <2>1, ActorFacts DEF DialingCalls
  <2>4. Cardinality(DialingCalls') = Cardinality(DialingCalls) - 1
    BY <2>3, SlotSetsFinite, CountOneLess DEF PoolInv
  <2>5. CASE d = None
    <3>1. DialingFor' = DialingFor
      BY <2>1, <2>5, ActorFacts DEF DialingFor
    <3> QED BY <1>1, <2>1, <2>2, <2>4, <2>5, <3>1, SlotSetsFinite DEF PoolInv, SlotsCounted
  <2>6. CASE d # None
    <3>1. DialingFor' = DialingFor \cup {d} /\ d \notin DialingFor
      BY <2>1, <2>6, ActorFacts DEF DialingFor
    <3>2. Cardinality(DialingFor') = Cardinality(DialingFor) + 1
      BY <3>1, SlotSetsFinite, CountOneMore DEF PoolInv
    <3> QED BY <1>1, <2>1, <2>2, <2>4, <2>6, <3>2, SlotSetsFinite DEF PoolInv, SlotsCounted
  <2> QED BY <2>5, <2>6
<1> QED BY <1>3, <1>4 DEF PoolInv

LEMMA DialForDecInv ==
    ASSUME PoolInv, NEW k \in Calls, DialForDec(k)
    PROVE  PoolInv'
<1>1. /\ pc[Dialer(k)] = "dec" /\ Dialer(k) \in Actors /\ DecConnsCount(Dialer(k), "done")
      /\ UNCHANGED <<conns, maxConns, connsCleanerRun, locked, wres, wconn, hold, scratch,
                     conf, err, est>>
  BY ActorFacts DEF DialForDec
<1>2. err' \in [Calls -> {"none", "dial", "ErrNoFreeConns", "ErrTimeout"}]
  BY <1>1 DEF PoolInv, TypeOK
<1>3. TypeOK' /\ ListInv' /\ OwnInv' /\ WaitInv' /\ LockInv'
  BY <1>1, <1>2, ActorFacts, DecInv
<1>4. SlotsCounted'
  <2>1. PICK d \in Calls \cup {None} :
           /\ d = None => connsCount' = connsCount - 1
           /\ d # None => connsCount' = connsCount /\ pc[Dialer(d)] = "idle"
           /\ \A b \in Actors : pc'[b] = IF b = Dialer(k) THEN "done"
                                         ELSE IF d # None /\ b = Dialer(d) THEN "dial"
                                         ELSE pc[b]
    <3>1. pc[Dialer(k)] # "idle"
      BY <1>1
    <3> QED BY <1>1, <3>1, DecFacts
  <2>2. Leaving' = Leaving
    BY <1>1, <2>1, SameLeaving
  <2>3. DialingCalls' = DialingCalls
    BY <1>1, <2>1, ActorFacts DEF DialingCalls
  <2>4. k \in DialingFor /\ Cardinality(DialingFor \ {k}) = Cardinality(DialingFor) - 1
        /\ IsFiniteSet(DialingFor \ {k})
    <3>1. k \in DialingFor
      BY <1>1 DEF DialingFor
    <3> QED BY <3>1, SlotSetsFinite, CountOneLess DEF PoolInv
  <2>5. CASE d = None
    <3>1. DialingFor' = DialingFor \ {k}
      BY <2>1, <2>5, ActorFacts DEF DialingFor
    <3> QED BY <1>1, <2>1, <2>2, <2>3, <2>4, <2>5, <3>1, SlotSetsFinite DEF PoolInv, SlotsCounted
  <2>6. CASE d # None
    <3>1. DialingFor' = (DialingFor \ {k}) \cup {d} /\ d \notin DialingFor \ {k}
      BY <1>1, <2>1, <2>6, ActorFacts DEF DialingFor
    <3>2. Cardinality(DialingFor') = Cardinality(DialingFor)
      <4>1. PICK R : R = DialingFor \ {k}
        OBVIOUS
      <4>2. IsFiniteSet(R) /\ d \notin R /\ DialingFor' = R \cup {d}
            /\ Cardinality(R) = Cardinality(DialingFor) - 1
        BY <2>4, <3>1, <4>1
      <4>3. Cardinality(R \cup {d}) = Cardinality(R) + 1
        BY <4>2, CountOneMore
      <4> QED BY <4>2, <4>3, SlotSetsFinite DEF PoolInv
    <3> QED BY <1>1, <2>1, <2>2, <2>3, <2>6, <3>2 DEF PoolInv, SlotsCounted
  <2> QED BY <2>5, <2>6
<1> QED BY <1>3, <1>4 DEF PoolInv

LEMMA CloseDecInv ==
    ASSUME PoolInv, NEW a \in Actors, CloseDec(a)
    PROVE  PoolInv'
<1>1. /\ pc[a] = "close" /\ DecConnsCount(a, "closeNet")
      /\ UNCHANGED <<conns, maxConns, connsCleanerRun, locked, wres, wconn, hold, scratch,
                     conf, err, est>>
  BY DEF CloseDec
<1>2. err' \in [Calls -> {"none", "dial", "ErrNoFreeConns", "ErrTimeout"}]
  BY <1>1 DEF PoolInv, TypeOK
<1>3. TypeOK' /\ ListInv' /\ OwnInv' /\ WaitInv' /\ LockInv'
  BY <1>1, <1>2, ActorFacts, DecInv
<1>4. SlotsCounted'
  <2>1. PICK d \in Calls \cup {None} :
           /\ d = None => connsCount' = connsCount - 1
           /\ d # None => connsCount' = connsCount /\ pc[Dialer(d)] = "idle"
           /\ \A b \in Actors : pc'[b] = IF b = a THEN "closeNet"
                                         ELSE IF d # None /\ b = Dialer(d) THEN "dial"
                                         ELSE pc[b]
    <3>1. pc[a] # "idle"
      BY <1>1
    <3> QED BY <1>1, <3>1, DecFacts
  <2>2. PICK x \in Conns : x = hold[a]
    BY <1>1 DEF PoolInv, ListInv, HoldingPCs
  <2>3. x \in est /\ \A b \in Actors : Holds(b, x) => b = a
    BY <1>1, <2>2, Owner DEF PoolInv, Holds, HoldingPCs
  <2>4. Leaving' = Leaving \cup {x} /\ x \notin Leaving
    <3>1. Actors' = Actors
      BY DEF Actors, Call, Dialer, Sweepers, Cleaner, Closer
    <3>2. x \notin Leaving
      BY <1>1, <2>3 DEF Leaving, Holds, HoldingPCs
    <3> QED BY <1>1, <2>1, <2>2, <2>3, <3>1, <3>2 DEF Leaving
  <2>5. Cardinality((est \ Leaving)') = Cardinality(est \ Leaving) - 1
    <3>1. (est \ Leaving)' = (est \ Leaving) \ {x} /\ x \in est \ Leaving
      BY <1>1, <2>3, <2>4
    <3> QED BY <3>1, SlotSetsFinite, CountOneLess DEF PoolInv
  <2>6. DialingCalls' = DialingCalls
    BY <1>1, <2>1, ActorFacts DEF DialingCalls
  <2>7. CASE d = None
    <3>1. DialingFor' = DialingFor
      BY <1>1, <2>1, <2>7, ActorFacts DEF DialingFor
    <3> QED BY <1>1, <2>1, <2>5, <2>6, <2>7, <3>1, SlotSetsFinite DEF PoolInv, SlotsCounted
  <2>8. CASE d # None
    <3>1. DialingFor' = DialingFor \cup {d} /\ d \notin DialingFor
      BY <1>1, <2>1, <2>8, ActorFacts DEF DialingFor
    <3>2. Cardinality(DialingFor') = Cardinality(DialingFor) + 1
      BY <3>1, SlotSetsFinite, CountOneMore DEF PoolInv
    <3> QED BY <1>1, <2>1, <2>5, <2>6, <2>8, <3>2, SlotSetsFinite DEF PoolInv, SlotsCounted
  <2> QED BY <2>7, <2>8
<1> QED BY <1>3, <1>4 DEF PoolInv

LEMMA DialForOkInv ==
    ASSUME PoolInv, NEW k \in Calls, DialForOk(k)
    PROVE  PoolInv'
<1>1. PICK x \in Conns \ est :
        /\ est' = est \cup {x}
        /\ \/ /\ wres[k] = "none" /\ wres' = [wres EXCEPT ![k] = "conn"]
              /\ wconn' = [wconn EXCEPT ![k] = x]
              /\ pc' = [pc EXCEPT ![Dialer(k)] = "done"] /\ hold' = hold
           \/ /\ wres[k] # "none" /\ hold' = [hold EXCEPT ![Dialer(k)] = x]
              /\ pc' = [pc EXCEPT ![Dialer(k)] = "release"] /\ wres' = wres /\ wconn' = wconn
  BY DEF DialForOk
<1>2. /\ pc[Dialer(k)] = "dial" /\ DOMAIN pc = Actors /\ DOMAIN hold = Actors
      /\ DOMAIN wres = Calls /\ DOMAIN wconn = Calls /\ Dialer(k) \in Actors
      /\ UNCHANGED <<conns, connsCount, maxConns, connsCleanerRun, connsWait, locked, scratch,
                     conf, err>>
  BY ActorFacts DEF DialForOk, PoolInv, TypeOK
<1>3. /\ \A a \in Actors \ {Dialer(k)} : pc'[a] = pc[a] /\ hold'[a] = hold[a]
      /\ pc'[Dialer(k)] \in {"done", "release"}
      /\ pc'[Dialer(k)] = "release" => hold'[Dialer(k)] = x
  BY <1>1, <1>2
<1>4. TypeOK'
  <2>0. x \in Conns \cup {None}
    BY <1>1
  <2>1. /\ wres' \in [Calls -> {"none", "conn", "err"}] /\ wconn' \in [Calls -> Conns \cup {None}]
        /\ hold' \in [Actors -> Conns \cup {None}]
    <3>0. wres' = [wres EXCEPT ![k] = "conn"] \/ wres' = wres
      BY <1>1
    <3>1. wres' \in [Calls -> {"none", "conn", "err"}]
      BY <3>0 DEF PoolInv, TypeOK
    <3>2. wconn' = [wconn EXCEPT ![k] = x] \/ wconn' = wconn
      BY <1>1
    <3>3. wconn' \in [Calls -> Conns \cup {None}]
      BY <2>0, <3>2 DEF PoolInv, TypeOK
    <3>4. hold' = [hold EXCEPT ![Dialer(k)] = x] \/ hold' = hold
      BY <1>1
    <3>5. hold' \in [Actors -> Conns \cup {None}]
      BY <2>0, <3>4 DEF PoolInv, TypeOK
    <3> QED BY <3>1, <3>3, <3>5
  <2>2. pc' \in [Actors -> {"idle", "dial", "queue", "wait", "use", "release", "deliver",
                            "close", "closeNet", "dec", "scan", "sweep", "done"}]
    BY <1>1 DEF PoolInv, TypeOK
  <2>3. est' \in SUBSET Conns
    BY <1>1 DEF PoolInv, TypeOK
  <2> QED BY <1>2, <2>1, <2>2, <2>3 DEF PoolInv, TypeOK
<1>5. ListInv'
  BY <1>2, <1>3 DEF PoolInv, ListInv, HoldingPCs
<1>6. OwnInv'
  <2>1. {x} \in SUBSET Conns /\ {x} \subseteq est' /\ OwnInv
        /\ \A c \in Conns \ {x} : c \in est' <=> c \in est
    BY <1>1 DEF PoolInv
  <2>2. \A c \in Conns : \A a \in Sweepers : Sweeps(a, c)' <=> Sweeps(a, c)
    BY <1>2, <1>3, ActorFacts DEF Sweeps
  <2>3. CASE wres[k] = "none"
    <3>1. pc[Call(k)] = "wait" /\ wconn[k] \notin Conns
      BY <1>2, <2>3, HostClientAssumption DEF PoolInv, WaitInv, WantOK, Queued
    <3>2. /\ \A j \in Calls : wconn'[j] = IF j = k THEN x ELSE wconn[j]
          /\ hold' = hold /\ pc'[Dialer(k)] = "done"
      BY <1>1, <1>2, <2>3
    <3> DEFINE q == Want(k)
    <3>3. \A c \in Conns : InSeq(c, conns') <=> IF c \in {x} THEN q = Idle ELSE InSeq(c, conns)
      BY <1>2, Opened, PlaceFacts
    <3>4. \A c \in Conns : \A a \in Actors :
              Holds(a, c)' <=> IF c \in {x} THEN q = Hold(a) ELSE Holds(a, c)
      BY <1>2, <1>3, <3>2, Opened, PlaceFacts DEF Holds, HoldingPCs
    <3>5. \A c \in Conns : \A j \in Calls :
              Wants(j, c)' <=> IF c \in {x} THEN q = Want(j) ELSE Wants(j, c)
      BY <1>3, <3>1, <3>2, Opened, PlaceFacts, ActorFacts DEF Wants
    <3>6. \A c \in Conns : \A a \in Sweepers :
              Sweeps(a, c)' <=> IF c \in {x} THEN q = Scratch(a) ELSE Sweeps(a, c)
      BY <2>2, Opened, PlaceFacts
    <3>7. q \in Places
      BY PlaceFacts
    <3> HIDE DEF q
    <3> QED BY <2>1, <3>3, <3>4, <3>5, <3>6, <3>7, Move
  <2>4. CASE wres[k] # "none"
    <3>1. /\ hold'[Dialer(k)] = x /\ pc'[Dialer(k)] = "release" /\ wconn' = wconn
      BY <1>1, <1>2, <2>4
    <3> DEFINE q == Hold(Dialer(k))
    <3>2. \A c \in Conns : InSeq(c, conns') <=> IF c \in {x} THEN q = Idle ELSE InSeq(c, conns)
      BY <1>2, Opened, PlaceFacts
    <3>3. \A c \in Conns : \A a \in Actors :
              Holds(a, c)' <=> IF c \in {x} THEN q = Hold(a) ELSE Holds(a, c)
      BY <1>2, <1>3, <3>1, Opened, PlaceFacts DEF Holds, HoldingPCs
    <3>4. \A c \in Conns : \A j \in Calls :
              Wants(j, c)' <=> IF c \in {x} THEN q = Want(j) ELSE Wants(j, c)
      BY <1>3, <3>1, Opened, PlaceFacts, ActorFacts DEF Wants
    <3>5. \A c \in Conns : \A a \in Sweepers :
              Sweeps(a, c)' <=> IF c \in {x} THEN q = Scratch(a) ELSE Sweeps(a, c)
      BY <2>2, Opened, PlaceFacts
    <3>6. q \in Places
      BY <1>2, PlaceFacts
    <3> HIDE DEF q
    <3> QED BY <2>1, <3>2, <3>3, <3>4, <3>5, <3>6, Move
  <2> QED BY <2>3, <2>4
<1>7. WaitInv'
  <2>1. /\ \A j \in Calls \ {k} : wres'[j] = wres[j] /\ wconn'[j] = wconn[j]
        /\ IF wres[k] = "none" THEN wres'[k] = "conn" /\ wconn'[k] # None
           ELSE wres'[k] = wres[k] /\ wconn'[k] = wconn[k]
    BY <1>1, <1>2, HostClientAssumption
  <2>2. ASSUME NEW j \in Calls PROVE WantOK(j)'
    BY <1>2, <1>3, <2>1, ActorFacts DEF PoolInv, WaitInv, WantOK, Queued, BeforeWait
  <2> QED BY <1>2, <2>2 DEF PoolInv, WaitInv
<1>8. LockInv'
  BY <1>2, <1>3, ActorFacts, SameLock DEF PoolInv
<1>9. SlotsCounted'
  <2>1. Cardinality((est \ Leaving)') = Cardinality(est \ Leaving) + 1
    BY <1>1, <1>2, <1>3, OpenedCounted
  <2>2. DialingCalls' = DialingCalls
    BY <1>3, ActorFacts DEF DialingCalls
  <2>3. DialingFor' = DialingFor \ {k} /\ k \in DialingFor
    BY <1>2, <1>3, ActorFacts DEF DialingFor
  <2>4. Cardinality(DialingFor') = Cardinality(DialingFor) - 1
    BY <2>3, SlotSetsFinite, CountOneLess DEF PoolInv
  <2> QED BY <1>2, <2>1, <2>2, <2>4, SlotSetsFinite DEF PoolInv, SlotsCounted
<1> QED BY <1>4, <1>5, <1>6, <1>7, <1>8, <1>9 DEF PoolInv

LEMMA DialForFailInv ==
    ASSUME PoolInv, NEW k \in Calls, DialForFail(k)
    PROVE  PoolInv'
<1>1. /\ pc[Dialer(k)] = "dial" /\ DOMAIN pc = Actors /\ Dialer(k) \in Actors
      /\ DOMAIN wres = Calls /\ pc' = [pc EXCEPT ![Dialer(k)] = "dec"]
      /\ UNCHANGED <<conns, connsCount, maxConns, connsCleanerRun, connsWait, locked,
                     wconn, hold, scratch, conf, err, est>>
  BY ActorFacts DEF DialForFail, PoolInv, TypeOK
<1>2. \A a \in Actors : pc'[a] = IF a = Dialer(k) THEN "dec" ELSE pc[a]
  BY <1>1
<1>3. \A j \in Calls : wres'[j] = IF j = k /\ wres[j] = "none" THEN "err" ELSE wres[j]
  BY <1>1 DEF DialForFail
<1>4. TypeOK'
  BY <1>1 DEF PoolInv, TypeOK, DialForFail
<1>5. ListInv'
  BY <1>1, <1>2 DEF PoolInv, ListInv, HoldingPCs
<1>6. OwnInv'
  BY <1>1, <1>2, ActorFacts, SameOwners DEF PoolInv, Holds, Wants, HoldingPCs, SweepingPCs
<1>7. WaitInv'
  <2>1. ASSUME NEW j \in Calls PROVE WantOK(j)'
    BY <1>1, <1>2, <1>3, ActorFacts DEF PoolInv, WaitInv, WantOK, Queued, BeforeWait
  <2> QED BY <1>1, <2>1 DEF PoolInv, WaitInv
<1>8. LockInv'
  BY <1>1, <1>2, ActorFacts, SameLock DEF PoolInv
<1>9. SlotsCounted'
  BY <1>1, <1>2, ActorFacts, SameSlots DEF PoolInv
<1> QED BY <1>4, <1>5, <1>6, <1>7, <1>8, <1>9 DEF PoolInv

\* A connection passes from the hands of a, which has done with it, to the idle list.
LEMMA BackToIdle ==
    ASSUME PoolInv, NEW a \in Actors, NEW x \in Conns, Holds(a, x),
           pc[a] \in {"release", "deliver"},
           conns' = Append(conns, x), hold' = [hold EXCEPT ![a] = None],
           pc' = [pc EXCEPT ![a] = "done"],
           UNCHANGED <<connsCount, connsCleanerRun, wconn, scratch, est>>
    PROVE  conns' \in Seq(Conns) /\ ListInv' /\ OwnInv' /\ SlotsCounted'
<1>1. /\ DOMAIN pc = Actors /\ DOMAIN hold = Actors /\ pc[a] \in HoldingPCs /\ hold[a] = x
  BY DEF PoolInv, TypeOK, Holds
<1>2. /\ \A b \in Actors : pc'[b] = IF b = a THEN "done" ELSE pc[b]
      /\ \A b \in Actors : hold'[b] = IF b = a THEN None ELSE hold[b]
  BY <1>1
<1>3. /\ x \in est /\ ~InSeq(x, conns) /\ \A b \in Actors : Holds(b, x) => b = a
      /\ \A k \in Calls : ~Wants(k, x)
      /\ \A b \in Sweepers : ~Sweeps(b, x)
  BY Owner DEF PoolInv
<1>4. conns' \in Seq(Conns) /\ Distinct(conns') /\ \A c : InSeq(c, conns') <=> InSeq(c, conns) \/ c = x
  BY <1>3, AppendMembers DEF PoolInv, TypeOK, ListInv
<1>5. ListInv'
  BY <1>2, <1>4 DEF PoolInv, ListInv, HoldingPCs
<1>6. OwnInv'
  <2> DEFINE q == Idle
  <2>1. \A c \in Conns : InSeq(c, conns') <=> IF c \in {x} THEN q = Idle ELSE InSeq(c, conns)
    BY <1>4
  <2>2. \A c \in Conns : \A b \in Actors :
            Holds(b, c)' <=> IF c \in {x} THEN q = Hold(b) ELSE Holds(b, c)
    BY <1>1, <1>2, <1>3, PlaceFacts DEF Holds, HoldingPCs
  <2>3. \A c \in Conns : \A j \in Calls :
            Wants(j, c)' <=> IF c \in {x} THEN q = Want(j) ELSE Wants(j, c)
    BY <1>1, <1>2, <1>3, PlaceFacts, ActorFacts DEF Wants, HoldingPCs
  <2>4. \A c \in Conns : \A b \in Sweepers :
            Sweeps(b, c)' <=> IF c \in {x} THEN q = Scratch(b) ELSE Sweeps(b, c)
    <3>1. pc[a] \notin SweepingPCs /\ "done" \notin SweepingPCs
      BY DEF SweepingPCs
    <3> QED BY <1>2, <1>3, <3>1, PlaceFacts, ActorFacts DEF Sweeps
  <2>5. q \in Places /\ {x} \in SUBSET Conns /\ {x} \subseteq est' /\ OwnInv
        /\ \A c \in Conns \ {x} : c \in est' <=> c \in est
    BY <1>3, PlaceFacts DEF PoolInv
  <2> HIDE DEF q
  <2> QED BY <2>1, <2>2, <2>3, <2>4, <2>5, Move
<1>7. SlotsCounted'
  BY <1>1, <1>2, ActorFacts, SameSlots DEF PoolInv, HoldingPCs
<1> QED BY <1>4, <1>5, <1>6, <1>7

LEMMA ReleaseIdleInv ==
    ASSUME PoolInv, NEW a \in Actors, ReleaseIdle(a)
    PROVE  PoolInv'
<1>1. PICK x \in Conns : x = hold[a] /\ Holds(a, x)
  BY DEF ReleaseIdle, PoolInv, ListInv, Holds, HoldingPCs
<1>2. /\ pc[a] = "release" /\ Waiting = {} /\ DOMAIN pc = Actors
      /\ conns' = Append(conns, x) /\ connsWait' = <<>> /\ hold' = [hold EXCEPT ![a] = None]
      /\ pc' = [pc EXCEPT ![a] = "done"]
      /\ UNCHANGED <<connsCount, maxConns, connsCleanerRun, locked, wres, wconn, scratch, conf,
                     err, est>>
  BY <1>1 DEF ReleaseIdle, PoolInv, TypeOK
<1>3. \A b \in Actors : pc'[b] = IF b = a THEN "done" ELSE pc[b]
  BY <1>2
<1>4. conns' \in Seq(Conns) /\ ListInv' /\ OwnInv' /\ SlotsCounted'
  BY <1>1, <1>2, BackToIdle
<1>5. TypeOK'
  <2>1. connsWait' \in Seq(Calls)
    BY <1>2
  <2> QED BY <1>2, <1>4, <2>1 DEF PoolInv, TypeOK
<1>6. WaitInv'
  <2>1. ASSUME NEW j \in Calls PROVE WantOK(j)'
    <3>1. /\ ~InSeq(j, connsWait') /\ (InSeq(j, connsWait) => wres[j] # "none")
      BY <1>2, NoWaiter, EmptyQueue
    <3> QED BY <1>2, <1>3, <3>1, ActorFacts DEF PoolInv, WaitInv, WantOK, Queued, BeforeWait
  <2> QED BY <1>2, <2>1, EmptyQueue DEF WaitInv
<1>7. LockInv'
  BY <1>2, <1>3, ActorFacts, SameLock DEF PoolInv
<1> QED BY <1>4, <1>5, <1>6, <1>7 DEF PoolInv

LEMMA ReleaseFoundInv ==
    ASSUME PoolInv, NEW a \in Actors, ReleaseFound(a)
    PROVE  PoolInv'
<1>1. /\ locked = None /\ pc[a] = "release" /\ DOMAIN pc = Actors
      /\ pc' = [pc EXCEPT ![a] = "deliver"]
      /\ UNCHANGED <<conns, connsCount, maxConns, connsCleanerRun, wres, wconn, hold, scratch,
                     conf, err, est>>
  BY DEF ReleaseFound, Unlocked, PoolInv, TypeOK
<1>2. \A b \in Actors : pc'[b] = IF b = a THEN "deliver" ELSE pc[b]
  BY <1>1
<1>3. PICK i \in Waiting : FirstWaiting(i) /\ locked' = connsWait[i] /\ connsWait' = After(i)
  BY DEF ReleaseFound
<1>4. PICK d \in Calls : d = connsWait[i] /\ InSeq(d, connsWait)
  BY <1>3, FirstWaiter DEF PoolInv, WaitInv
<1>5. /\ locked' = d /\ connsWait' \in Seq(Calls) /\ Distinct(connsWait')
      /\ \A k \in Calls : InSeq(k, connsWait') => InSeq(k, connsWait) /\ k # d
      /\ \A k \in Calls : InSeq(k, connsWait) /\ wres[k] = "none" /\ k # d
                              => InSeq(k, connsWait')
  BY <1>3, <1>4, FirstWaiter DEF PoolInv, WaitInv
<1>6. TypeOK'
  BY <1>1, <1>5 DEF PoolInv, TypeOK
<1>7. ListInv'
  BY <1>1, <1>2 DEF PoolInv, ListInv, HoldingPCs
<1>8. OwnInv'
  BY <1>1, <1>2, ActorFacts, SameOwners DEF PoolInv, Holds, Wants, HoldingPCs, SweepingPCs
<1>9. WaitInv'
  <2>1. ASSUME NEW k \in Calls PROVE WantOK(k)'
    <3>1. locked # k
      BY <1>1, HostClientAssumption
    <3> QED BY <1>1, <1>2, <1>4, <1>5, <3>1, ActorFacts
            DEF PoolInv, WaitInv, WantOK, Queued, BeforeWait
  <2> QED BY <1>5, <2>1 DEF WaitInv
<1>10. LockInv'
  BY <1>1, <1>2, <1>5, ActorFacts, HostClientAssumption DEF PoolInv, LockInv
<1>11. SlotsCounted'
  BY <1>1, <1>2, ActorFacts, SameSlots DEF PoolInv
<1> QED BY <1>6, <1>7, <1>8, <1>9, <1>10, <1>11 DEF PoolInv

LEMMA TryDeliverInv ==
    ASSUME PoolInv, NEW a \in Actors, TryDeliver(a)
    PROVE  PoolInv'
<1>1. PICK x \in Conns : x = hold[a] /\ Holds(a, x)
  BY DEF TryDeliver, PoolInv, ListInv, Holds, HoldingPCs
<1>2. PICK d \in Calls : d = locked
  BY DEF TryDeliver, PoolInv, LockInv, TypeOK
<1>3. /\ pc[a] = "deliver" /\ locked' = None /\ hold' = [hold EXCEPT ![a] = None]
      /\ pc' = [pc EXCEPT ![a] = "done"]
      /\ DOMAIN pc = Actors /\ DOMAIN hold = Actors /\ DOMAIN wres = Calls /\ DOMAIN wconn = Calls
      /\ UNCHANGED <<connsCount, maxConns, connsCleanerRun, connsWait, scratch, conf, err, est>>
  BY DEF TryDeliver, PoolInv, TypeOK
<1>4. /\ \A b \in Actors : pc'[b] = IF b = a THEN "done" ELSE pc[b]
      /\ \A b \in Actors : hold'[b] = IF b = a THEN None ELSE hold[b]
  BY <1>3
<1>5. pc[Dialer(d)] = "idle" /\ ~InSeq(d, connsWait) /\ d # None
  BY <1>2, HostClientAssumption DEF PoolInv, WaitInv, WantOK
<1>6. LockInv'
  BY <1>3, <1>4, ActorFacts DEF PoolInv, LockInv
<1>7. CASE wres[d] = "none"
  <2>1. /\ wres' = [wres EXCEPT ![d] = "conn"] /\ wconn' = [wconn EXCEPT ![d] = x] /\ conns' = conns
    BY <1>1, <1>2, <1>7 DEF TryDeliver
  <2>2. /\ \A k \in Calls : wres'[k] = IF k = d THEN "conn" ELSE wres[k]
        /\ \A k \in Calls : wconn'[k] = IF k = d THEN x ELSE wconn[k]
    BY <1>3, <2>1
  <2>3. pc[Call(d)] = "wait" /\ wconn[d] = None
    BY <1>2, <1>7 DEF PoolInv, WaitInv, WantOK, Queued
  <2>4. TypeOK'
    BY <1>3, <2>1 DEF PoolInv, TypeOK
  <2>5. ListInv'
    BY <1>3, <1>4, <2>1 DEF PoolInv, ListInv, HoldingPCs
  <2>6. OwnInv'
    <3>1. /\ x \in est /\ ~InSeq(x, conns) /\ \A b \in Actors : Holds(b, x) => b = a
          /\ \A k \in Calls : ~Wants(k, x)
          /\ \A b \in Sweepers : ~Sweeps(b, x)
      BY <1>1, Owner DEF PoolInv
    <3> DEFINE q == Want(d)
    <3>2. \A c \in Conns : InSeq(c, conns') <=> IF c \in {x} THEN q = Idle ELSE InSeq(c, conns)
      BY <2>1, <3>1, PlaceFacts
    <3>3. \A c \in Conns : \A b \in Actors :
              Holds(b, c)' <=> IF c \in {x} THEN q = Hold(b) ELSE Holds(b, c)
      BY <1>1, <1>4, <3>1, PlaceFacts DEF Holds, HoldingPCs
    <3>4. \A c \in Conns : \A j \in Calls :
              Wants(j, c)' <=> IF c \in {x} THEN q = Want(j) ELSE Wants(j, c)
      BY <1>3, <1>4, <2>2, <2>3, <3>1, PlaceFacts, ActorFacts, HostClientAssumption DEF Wants
    <3>5. \A c \in Conns : \A b \in Sweepers :
              Sweeps(b, c)' <=> IF c \in {x} THEN q = Scratch(b) ELSE Sweeps(b, c)
      <4>1. pc[a] \notin SweepingPCs /\ "done" \notin SweepingPCs
        BY <1>3 DEF SweepingPCs
      <4> QED BY <1>3, <1>4, <3>1, <4>1, PlaceFacts, ActorFacts DEF Sweeps
    <3>6. q \in Places /\ {x} \in SUBSET Conns /\ {x} \subseteq est' /\ OwnInv
          /\ \A c \in Conns \ {x} : c \in est' <=> c \in est
      BY <1>3, <3>1, PlaceFacts DEF PoolInv
    <3> HIDE DEF q
    <3> QED BY <3>2, <3>3, <3>4, <3>5, <3>6, Move
  <2>7. WaitInv'
    <3>1. ASSUME NEW k \in Calls PROVE WantOK(k)'
      BY <1>2, <1>3, <1>4, <1>5, <2>2, <2>3, ActorFacts, HostClientAssumption
         DEF PoolInv, WaitInv, WantOK, Queued, BeforeWait
    <3> QED BY <1>3, <3>1 DEF PoolInv, WaitInv
  <2>8. SlotsCounted'
    BY <1>3, <1>4, ActorFacts, SameSlots DEF PoolInv
  <2> QED BY <1>6, <2>4, <2>5, <2>6, <2>7, <2>8 DEF PoolInv
<1>8. CASE wres[d] # "none"
  <2>1. wres' = wres /\ wconn' = wconn /\ conns' = Append(conns, x)
    BY <1>1, <1>2, <1>8 DEF TryDeliver
  <2>2. conns' \in Seq(Conns) /\ ListInv' /\ OwnInv' /\ SlotsCounted'
    BY <1>1, <1>3, <2>1, BackToIdle
  <2>3. TypeOK'
    BY <1>3, <2>1, <2>2 DEF PoolInv, TypeOK
  <2>4. WaitInv'
    <3>1. ASSUME NEW k \in Calls PROVE WantOK(k)'
      BY <1>2, <1>3, <1>4, <1>5, <1>8, <2>1, ActorFacts, HostClientAssumption
         DEF PoolInv, WaitInv, WantOK, Queued, BeforeWait
    <3> QED BY <1>3, <3>1 DEF PoolInv, WaitInv
  <2> QED BY <1>6, <2>2, <2>3, <2>4 DEF PoolInv
<1> QED BY <1>7, <1>8

LEMMA CloseNetInv ==
    ASSUME PoolInv, NEW a \in Actors, CloseNet(a)
    PROVE  PoolInv'
<1>1. PICK x \in Conns : x = hold[a] /\ Holds(a, x)
  BY DEF CloseNet, PoolInv, ListInv, Holds, HoldingPCs
<1>2. PICK v : v = IF a \in Sweepers THEN "sweep" ELSE "done"
  OBVIOUS
<1>3. /\ pc[a] = "closeNet" /\ est' = est \ {x} /\ hold' = [hold EXCEPT ![a] = None]
      /\ pc' = [pc EXCEPT ![a] = v] /\ DOMAIN pc = Actors /\ DOMAIN hold = Actors
      /\ UNCHANGED <<conns, connsCount, maxConns, connsCleanerRun, connsWait, locked,
                     wres, wconn, scratch, conf, err>>
  BY <1>1, <1>2 DEF CloseNet, PoolInv, TypeOK
<1>4. /\ \A b \in Actors : pc'[b] = IF b = a THEN v ELSE pc[b]
      /\ \A b \in Actors : hold'[b] = IF b = a THEN None ELSE hold[b]
  BY <1>3
<1>5. v \in {"sweep", "done"} /\ (a \in Sweepers => v = "sweep") /\ (a \notin Sweepers => v = "done")
  BY <1>2
<1>6. TypeOK'
  BY <1>3, <1>5 DEF PoolInv, TypeOK
<1>7. ListInv'
  BY <1>3, <1>4, <1>5 DEF PoolInv, ListInv, HoldingPCs
<1>8. /\ x \in est /\ ~InSeq(x, conns) /\ \A b \in Actors : Holds(b, x) => b = a
      /\ \A k \in Calls : ~Wants(k, x)
      /\ \A b \in Sweepers : ~Sweeps(b, x)
  BY <1>1, Owner DEF PoolInv
<1>9. OwnInv'
  <2>1. \A c \in Conns : \A b \in Actors : Holds(b, c)' <=> c # x /\ Holds(b, c)
    BY <1>1, <1>3, <1>4, <1>5, <1>8 DEF Holds, HoldingPCs
  <2>2. \A c \in Conns : \A k \in Calls : Wants(k, c)' <=> c # x /\ Wants(k, c)
    BY <1>3, <1>4, <1>5, <1>8, ActorFacts DEF Wants
  <2>3. \A c \in Conns : \A b \in Sweepers : Sweeps(b, c)' <=> c # x /\ Sweeps(b, c)
    <3>1. \A b \in Sweepers : pc'[b] \in SweepingPCs <=> pc[b] \in SweepingPCs
      BY <1>3, <1>4, <1>5, ActorFacts DEF SweepingPCs
    <3> QED BY <1>3, <1>8, <3>1 DEF Sweeps
  <2> QED BY <1>3, <1>8, <2>1, <2>2, <2>3, Remove DEF PoolInv
<1>10. WaitInv'
  BY <1>3, <1>4, <1>5, ActorFacts, SameWaiters DEF PoolInv, BeforeWait
<1>11. LockInv'
  BY <1>3, <1>4, <1>5, ActorFacts, SameLock DEF PoolInv
<1>12. SlotsCounted'
  <2>1. Actors' = Actors
    BY DEF Actors, Call, Dialer, Sweepers, Cleaner, Closer
  <2>2. Leaving' = Leaving \ {x} /\ x \in Leaving
    <3>1. x \in Leaving
      BY <1>1, <1>3, <1>8 DEF Leaving
    <3>2. \A b \in Actors : pc'[b] = "closeNet" <=> pc[b] = "closeNet" /\ b # a
      BY <1>4, <1>5
    <3>3. \A b \in Actors : pc[b] = "closeNet" /\ b # a => hold'[b] = hold[b] /\ hold[b] # x
      BY <1>4, <1>8 DEF Holds, HoldingPCs
    <3>4. \A c \in est' : c \in Leaving' <=> c \in Leaving
      BY <1>1, <1>3, <2>1, <3>2, <3>3 DEF Leaving
    <3> QED BY <1>3, <2>1, <3>1, <3>4 DEF Leaving
  <2>3. (est \ Leaving)' = est \ Leaving
    BY <1>3, <2>2
  <2>4. DialingCalls' = DialingCalls /\ DialingFor' = DialingFor
    BY <1>3, <1>4, <1>5, ActorFacts DEF DialingCalls, DialingFor
  <2> QED BY <1>3, <2>3, <2>4 DEF PoolInv, SlotsCounted
<1> QED BY <1>6, <1>7, <1>9, <1>10, <1>11, <1>12 DEF PoolInv

\* The first n idle connections pass to the list of sweeper a.
LEMMA SweepStart ==
    ASSUME PoolInv, NEW a \in Sweepers, NEW n \in 0..Len(conns),
           pc[a] \in {"scan", "idle"}, a = Cleaner => connsCleanerRun,
           scratch' = [scratch EXCEPT ![a] = SubSeq(conns, 1, n)],
           conns' = SubSeq(conns, n + 1, Len(conns)),
           pc' = [pc EXCEPT ![a] = "sweep"],
           UNCHANGED <<connsCount, maxConns, connsCleanerRun, connsWait, locked, wres,
                       wconn, hold, conf, err, est>>
    PROVE  PoolInv'
<1>1. DOMAIN pc = Actors /\ DOMAIN scratch = Sweepers /\ a \in Actors
  BY ActorFacts DEF PoolInv, TypeOK
<1>2. PICK s : s = SubSeq(conns, 1, n)
  OBVIOUS
<1>3. /\ \A b \in Actors : pc'[b] = IF b = a THEN "sweep" ELSE pc[b]
      /\ \A b \in Sweepers : scratch'[b] = IF b = a THEN s ELSE scratch[b]
  BY <1>1, <1>2
<1>4. /\ s \in Seq(Conns) /\ conns' \in Seq(Conns) /\ Distinct(s) /\ Distinct(conns')
      /\ \A c : InSeq(c, conns) <=> InSeq(c, s) \/ InSeq(c, conns')
      /\ \A c : ~(InSeq(c, s) /\ InSeq(c, conns'))
  BY <1>2, SplitMembers DEF PoolInv, TypeOK, ListInv
<1>5. TypeOK'
  <2>1. scratch' \in [Sweepers -> Seq(Conns)]
    BY <1>1, <1>2, <1>4 DEF PoolInv, TypeOK
  <2> QED BY <1>1, <1>4, <2>1 DEF PoolInv, TypeOK
<1>6. ListInv'
  BY <1>3, <1>4 DEF PoolInv, ListInv, HoldingPCs
<1>7. OwnInv'
  <2> DEFINE q == Scratch(a)
             S == {c \in Conns : InSeq(c, s)}
  <2>1. \A c \in S : /\ c \in est /\ \A b \in Actors : ~Holds(b, c)
                     /\ \A k \in Calls : ~Wants(k, c)
                     /\ \A b \in Sweepers : ~Sweeps(b, c)
    BY <1>4, Owner DEF PoolInv
  <2>2. \A c \in Conns : InSeq(c, conns') <=> IF c \in S THEN q = Idle ELSE InSeq(c, conns)
    BY <1>4, PlaceFacts
  <2>3. \A c \in Conns : \A b \in Actors :
            Holds(b, c)' <=> IF c \in S THEN q = Hold(b) ELSE Holds(b, c)
    BY <1>3, <2>1, PlaceFacts DEF Holds, HoldingPCs
  <2>4. \A c \in Conns : \A k \in Calls :
            Wants(k, c)' <=> IF c \in S THEN q = Want(k) ELSE Wants(k, c)
    BY <1>3, <2>1, PlaceFacts, ActorFacts DEF Wants
  <2>5. \A c \in Conns : \A b \in Sweepers :
            Sweeps(b, c)' <=> IF c \in S THEN q = Scratch(b) ELSE Sweeps(b, c)
    BY <1>1, <1>3, <2>1, PlaceFacts, ActorFacts DEF Sweeps, SweepingPCs
  <2>6. q \in Places /\ S \in SUBSET Conns /\ S \subseteq est' /\ OwnInv
        /\ \A c \in Conns \ S : c \in est' <=> c \in est
    BY <2>1, PlaceFacts DEF PoolInv
  <2> HIDE DEF q, S
  <2> QED BY <2>2, <2>3, <2>4, <2>5, <2>6, Move
<1>8. WaitInv'
  BY <1>3, ActorFacts, SameWaiters DEF PoolInv, BeforeWait
<1>9. LockInv'
  BY <1>3, ActorFacts DEF PoolInv, LockInv
<1>10. SlotsCounted'
  BY <1>1, <1>3, ActorFacts, SameSlots DEF PoolInv
<1> QED BY <1>5, <1>6, <1>7, <1>8, <1>9, <1>10 DEF PoolInv

LEMMA SweepNextInv ==
    ASSUME PoolInv, NEW a \in Sweepers, SweepNext(a)
    PROVE  PoolInv'
<1>1. PICK x : x = Head(scratch[a])
  OBVIOUS
<1>2. PICK s : s = Tail(scratch[a])
  OBVIOUS
<1>3. /\ pc[a] = "sweep" /\ DOMAIN pc = Actors /\ DOMAIN hold = Actors /\ DOMAIN scratch = Sweepers
      /\ a \in Actors /\ hold' = [hold EXCEPT ![a] = x] /\ scratch' = [scratch EXCEPT ![a] = s]
      /\ pc' = [pc EXCEPT ![a] = "close"]
      /\ UNCHANGED <<conns, connsCount, maxConns, connsCleanerRun, connsWait, locked,
                     wres, wconn, conf, err, est>>
  BY <1>1, <1>2, ActorFacts DEF SweepNext, PoolInv, TypeOK
<1>4. /\ \A b \in Actors : pc'[b] = IF b = a THEN "close" ELSE pc[b]
      /\ \A b \in Actors : hold'[b] = IF b = a THEN x ELSE hold[b]
      /\ \A b \in Sweepers : scratch'[b] = IF b = a THEN s ELSE scratch[b]
  BY <1>3
<1>5. /\ x \in Conns /\ s \in Seq(Conns) /\ InSeq(x, scratch[a]) /\ Distinct(s)
      /\ \A c : InSeq(c, s) <=> InSeq(c, scratch[a]) /\ c # x
  BY <1>1, <1>2, TailMembers DEF SweepNext, PoolInv, TypeOK, ListInv
<1>6. TypeOK'
  BY <1>3, <1>5 DEF PoolInv, TypeOK
<1>7. ListInv'
  BY <1>3, <1>4, <1>5 DEF PoolInv, ListInv
<1>8. OwnInv'
  <2>0. Sweeps(a, x)
    BY <1>3, <1>5 DEF Sweeps, SweepingPCs
  <2>1. /\ x \in est /\ ~InSeq(x, conns) /\ \A b \in Actors : ~Holds(b, x)
        /\ \A k \in Calls : ~Wants(k, x)
        /\ \A b \in Sweepers : Sweeps(b, x) => b = a
    BY <1>5, <2>0, Owner DEF PoolInv
  <2> DEFINE q == Hold(a)
  <2>2. \A c \in Conns : InSeq(c, conns') <=> IF c \in {x} THEN q = Idle ELSE InSeq(c, conns)
    BY <1>3, <2>1, PlaceFacts
  <2>3. \A c \in Conns : \A b \in Actors :
            Holds(b, c)' <=> IF c \in {x} THEN q = Hold(b) ELSE Holds(b, c)
    BY <1>3, <1>4, <2>1, PlaceFacts DEF Holds, HoldingPCs
  <2>4. \A c \in Conns : \A k \in Calls :
            Wants(k, c)' <=> IF c \in {x} THEN q = Want(k) ELSE Wants(k, c)
    BY <1>3, <1>4, <2>1, PlaceFacts, ActorFacts DEF Wants
  <2>5. \A c \in Conns : \A b \in Sweepers :
            Sweeps(b, c)' <=> IF c \in {x} THEN q = Scratch(b) ELSE Sweeps(b, c)
    BY <1>3, <1>4, <1>5, <2>1, PlaceFacts, ActorFacts DEF Sweeps, SweepingPCs
  <2>6. q \in Places /\ {x} \in SUBSET Conns /\ {x} \subseteq est' /\ OwnInv
        /\ \A c \in Conns \ {x} : c \in est' <=> c \in est
    BY <1>3, <1>5, <2>1, PlaceFacts DEF PoolInv
  <2> HIDE DEF q
  <2> QED BY <2>2, <2>3, <2>4, <2>5, <2>6, Move
<1>9. WaitInv'
  BY <1>3, <1>4, ActorFacts, SameWaiters DEF PoolInv, BeforeWait
<1>10. LockInv'
  BY <1>3, <1>4, ActorFacts, SameLock DEF PoolInv
<1>11. SlotsCounted'
  BY <1>3, <1>4, ActorFacts, SameSlots DEF PoolInv
<1> QED BY <1>6, <1>7, <1>8, <1>9, <1>10, <1>11 DEF PoolInv

\* A sweeper with nothing left to close rests, or looks again.
LEMMA SweepEnd ==
    ASSUME PoolInv, NEW a \in Sweepers, NEW v \in {"idle", "scan"},
           pc[a] = "sweep", scratch[a] = <<>>, pc' = [pc EXCEPT ![a] = v],
           connsCleanerRun' \in BOOLEAN,
           a = Cleaner => (connsCleanerRun' <=> v # "idle"),
           a = Closer => connsCleanerRun' = connsCleanerRun,
           UNCHANGED <<conns, connsCount, maxConns, connsWait, locked, wres, wconn, hold,
                       scratch, conf, err, est>>
    PROVE  PoolInv'
<1>1. DOMAIN pc = Actors /\ a \in Actors
  BY ActorFacts DEF PoolInv, TypeOK
<1>2. \A b \in Actors : pc'[b] = IF b = a THEN v ELSE pc[b]
  BY <1>1
<1>3. TypeOK'
  BY DEF PoolInv, TypeOK
<1>4. ListInv'
  BY <1>2 DEF PoolInv, ListInv, HoldingPCs
<1>5. OwnInv'
  <2>1. \A c \in Conns : \A b \in Sweepers : Sweeps(b, c)' <=> Sweeps(b, c)
    BY <1>1, <1>2, EmptyQueue, ActorFacts DEF Sweeps, SweepingPCs
  <2>2. \A c \in Conns : \A b \in Actors : Holds(b, c)' <=> Holds(b, c)
    BY <1>2 DEF Holds, HoldingPCs
  <2>3. \A c \in Conns : \A k \in Calls : Wants(k, c)' <=> Wants(k, c)
    BY <1>2, ActorFacts DEF Wants
  <2> QED BY <2>1, <2>2, <2>3, Move, PlaceFacts, {} \in SUBSET Conns DEF PoolInv
<1>6. WaitInv'
  BY <1>2, ActorFacts, SameWaiters DEF PoolInv, BeforeWait
<1>7. LockInv'
  BY <1>2, ActorFacts DEF PoolInv, LockInv, Sweepers
<1>8. SlotsCounted'
  BY <1>1, <1>2, ActorFacts, SameSlots DEF PoolInv
<1> QED BY <1>3, <1>4, <1>5, <1>6, <1>7, <1>8 DEF PoolInv

LEMMA SweepInv ==
    ASSUME PoolInv, Sweep
    PROVE  PoolInv'
<1>1. CASE CleanScan
  <2>1. PICK n \in 0..Len(conns) :
          /\ scratch' = [scratch EXCEPT ![Cleaner] = SubSeq(conns, 1, n)]
          /\ conns' = SubSeq(conns, n + 1, Len(conns))
    BY <1>1 DEF CleanScan
  <2>2. /\ pc[Cleaner] = "scan" /\ pc' = [pc EXCEPT ![Cleaner] = "sweep"]
        /\ UNCHANGED <<connsCount, maxConns, connsCleanerRun, connsWait, locked, wres,
                       wconn, hold, conf, err, est>>
    BY <1>1 DEF CleanScan
  <2>3. connsCleanerRun
    BY <2>2 DEF PoolInv, LockInv
  <2> QED BY <2>1, <2>2, <2>3, SweepStart, ActorFacts
<1>2. CASE CloseIdleStart
  <2>1. /\ scratch' = [scratch EXCEPT ![Closer] = conns] /\ conns' = <<>>
        /\ pc[Closer] = "idle" /\ pc' = [pc EXCEPT ![Closer] = "sweep"]
        /\ UNCHANGED <<connsCount, maxConns, connsCleanerRun, connsWait, locked, wres,
                       wconn, hold, conf, err, est>>
    BY <1>2 DEF CloseIdleStart
  <2>2. /\ conns = SubSeq(conns, 1, Len(conns)) /\ <<>> = SubSeq(conns, Len(conns) + 1, Len(conns))
        /\ Len(conns) \in 0..Len(conns)
    BY DEF PoolInv, TypeOK
  <2>3. PICK n \in 0..Len(conns) : n = Len(conns)
    BY <2>2
  <2> QED BY <2>1, <2>2, <2>3, SweepStart, ActorFacts
<1>3. CASE CleanCheck
  <2>1. /\ pc[Cleaner] = "sweep" /\ scratch[Cleaner] = <<>>
        /\ UNCHANGED <<conns, connsCount, maxConns, connsWait, locked, wres, wconn, hold,
                       scratch, conf, err, est>>
    BY <1>3 DEF CleanCheck
  <2>2. connsCleanerRun = TRUE
    BY <2>1 DEF PoolInv, LockInv, TypeOK
  <2>3. PICK v \in {"idle", "scan"} :
          /\ pc' = [pc EXCEPT ![Cleaner] = v] /\ connsCleanerRun' \in BOOLEAN
          /\ connsCleanerRun' <=> v # "idle"
    BY <1>3, <2>2 DEF CleanCheck
  <2> QED BY <2>1, <2>3, SweepEnd, ActorFacts
<1>4. CASE CloseIdleEnd
  <2>1. /\ pc[Closer] = "sweep" /\ scratch[Closer] = <<>> /\ pc' = [pc EXCEPT ![Closer] = "idle"]
        /\ connsCleanerRun' = connsCleanerRun
        /\ UNCHANGED <<conns, connsCount, maxConns, connsWait, locked, wres, wconn, hold,
                       scratch, conf, err, est>>
    BY <1>4 DEF CloseIdleEnd
  <2>2. connsCleanerRun' \in BOOLEAN
    BY <2>1 DEF PoolInv, TypeOK
  <2> QED BY <2>1, <2>2, SweepEnd, ActorFacts
<1>5. CASE \E a \in Sweepers : SweepNext(a)
  BY <1>5, SweepNextInv
<1> QED BY <1>1, <1>2, <1>3, <1>4, <1>5 DEF Sweep

-----------------------------------------------------------------------------
LEMMA InvNext == PoolInv /\ [Next]_vars => PoolInv'
<1> SUFFICES ASSUME PoolInv, [Next]_vars PROVE PoolInv'
  OBVIOUS
<1>1. ASSUME NEW k \in Calls, Request(k) PROVE PoolInv'
  BY <1>1, AcquireIdleInv, AcquireSlotInv, AcquireFullInv, QueueForIdleInv, WaitGotConnInv,
     WaitGotErrInv, WaitTimeoutInv, DialOkInv, DialFailInv, FinishInv DEF Request
<1>2. ASSUME NEW k \in Calls, DialConnFor(k) PROVE PoolInv'
  BY <1>2, DialForOkInv, DialForFailInv, DialForDecInv DEF DialConnFor
<1>3. ASSUME NEW a \in Actors, Dispose(a) PROVE PoolInv'
  BY <1>3, ReleaseIdleInv, ReleaseFoundInv, TryDeliverInv, CloseDecInv, CloseNetInv DEF Dispose
<1>4. CASE UNCHANGED vars
  <2>1. UNCHANGED <<conns, connsCount, maxConns, connsCleanerRun, connsWait, locked, wres,
                    wconn, pc, hold, scratch, conf, err, est>>
    BY <1>4 DEF vars
  <2>2. TypeOK' /\ ListInv'
    BY <2>1 DEF PoolInv, TypeOK, ListInv
  <2>3. OwnInv'
    BY <2>1, SameOwners DEF PoolInv, Holds, Wants
  <2>4. WaitInv' /\ LockInv' /\ SlotsCounted'
    BY <2>1, SameWaiters, SameLock, SameSlots DEF PoolInv
  <2> QED BY <2>2, <2>3, <2>4 DEF PoolInv
<1> QED BY <1>1, <1>2, <1>3, <1>4, SweepInv, SetMaxConnsInv DEF Next

LEMMA InvHolds == Spec => []PoolInv
BY InvInit, InvNext, PTL DEF Spec

\* The variables of HostClientPool keep their types: in particular connsWait holds
\* calls, and what is pushed to c.conns is a connection.
THEOREM PoolTypeCorrect == Spec => []TypeOK
<1>1. PoolInv => TypeOK
  BY DEF PoolInv
<1> QED BY <1>1, InvHolds, PTL

\* Every open connection of a HostClient is in exactly one place, and a closed one in
\* none, for any number of requests, connections and waiters.
THEOREM OneOwnerCorrect == Spec => []OneOwner
<1>1. PoolInv => OneOwner
  BY DEF PoolInv, ListInv, OwnInv, OneOwner
<1> QED BY <1>1, InvHolds, PTL

\* connsCount counts the connections that are open or being dialed: decConnsCount and
\* dialConnFor lose no slot and free none twice.
THEOREM SlotsCountedCorrect == Spec => []SlotsCounted
<1>1. PoolInv => SlotsCounted
  BY DEF PoolInv
<1> QED BY <1>1, InvHolds, PTL

\* A call that waits in acquireConn is queued, is being delivered to, or has a
\* goroutine of dialConnFor that dials for it.
THEOREM WaiterKnownCorrect == Spec => []WaiterKnown
<1>1. PoolInv => WaiterKnown
  BY DEF PoolInv, WaitInv, WantOK, WaiterKnown
<1> QED BY <1>1, InvHolds, PTL

=============================================================================
