---------------------------- MODULE ClientProofs ----------------------------
(***************************************************************************)
(* Proofs about what a client's call goes through: ClientDeadline and      *)
(* LBClient, for any number of calls, channels and clients, and TCPDialer, *)
(* for any number of dials, hosts and addresses and any limit on           *)
(* concurrent dials.                                                       *)
(***************************************************************************)
EXTENDS LBClient, TCPDialer, PoolLemmas, FiniteSetTheorems, SequenceTheorems, TLAPS

(***************************************************************************)
(* ClientDeadline: what a call and its goroutine know of each other, and   *)
(* whose the channels are.                                                 *)
(***************************************************************************)

\* The call waits, and has not decided yet.
Undecided(k) == pc[k] \in {"select", "lock"}

\* The call has a channel of the pool.
HasChan(k) == pc[k] \in {"select", "lock", "put"}

CallInv(k) ==
    /\ pc[k] = "start" => gpc[k] = "off"
    /\ gpc[k] = "off" => ~timedout[k] /\ ~responded[k] /\ pc[k] \in {"start", "done"}
    /\ pc[k] = "start" \/ Undecided(k) => result[k] = None /\ ~timedout[k]
    /\ pc[k] \in {"put", "done"} /\ gpc[k] # "off" =>
          \/ result[k] = k /\ gpc[k] \in {"sent", "done"} /\ ~timedout[k]
          \/ result[k] = "ErrTimeout" /\ timedout[k]
    /\ pc[k] = "done" /\ gpc[k] = "off" => result[k] = "ErrTimeout"
    /\ mu[k] = "goroutine" <=> gpc[k] \in {"check", "copied", "sent"}
    /\ gpc[k] = "copied" => Undecided(k)
    /\ gpc[k] = "sent" => ~timedout[k]
    /\ responded[k] => gpc[k] = "done" /\ ~timedout[k]
    /\ gpc[k] = "done" => responded[k] \/ timedout[k]

\* What the channel of k holds.
Held(k) == IF Undecided(k) /\ gpc[k] \in {"sent", "done"} THEN k ELSE None

ChanInv ==
    /\ \A x \in pool : buffer[x] = None
    /\ \A k \in Calls : HasChan(k) => ch[k] \in Chans \ pool /\ buffer[ch[k]] = Held(k)
    /\ \A j, k \in Calls : j # k /\ HasChan(j) /\ HasChan(k) => ch[j] # ch[k]

DeadlineInv == TypeOK /\ (\A k \in Calls : CallInv(k)) /\ ChanInv

LEMMA DeadlineInit == Init => DeadlineInv
BY DEF Init, DeadlineInv, TypeOK, CallInv, ChanInv, Undecided, HasChan, Held

LEMMA DeadlineCaller ==
    ASSUME DeadlineInv, NEW k \in Calls, Caller(k) PROVE DeadlineInv'
<1> USE DeadlineAssumption DEF DeadlineInv, TypeOK, CallInv, ChanInv, Undecided, HasChan, Held
<1>1. CASE Late(k)
  BY <1>1 DEF Late
<1>2. CASE Start(k)
  BY <1>2 DEF Start
<1>3. CASE SelectAnswer(k)
  BY <1>3 DEF SelectAnswer, Receive
<1>4. CASE SelectTimer(k)
  BY <1>4 DEF SelectTimer
<1>5. CASE Decide(k)
  <2>1. CASE responded[k]
    BY <1>5, <2>1 DEF Decide, Receive
  <2>2. CASE ~responded[k]
    <3>1. /\ timedout' \in [Calls -> BOOLEAN] /\ timedout'[k]
          /\ \A j \in Calls : j # k => timedout'[j] = timedout[j]
      BY <1>5, <2>2 DEF Decide
    <3>2. /\ pc[k] = "lock" /\ mu[k] = "free" /\ ~responded[k]
          /\ result' = [result EXCEPT ![k] = "ErrTimeout"]
          /\ pc' = [pc EXCEPT ![k] = "put"]
          /\ UNCHANGED <<buffer, pool, ch, gpc, mu, responded>>
      BY <1>5, <2>2 DEF Decide
    <3> QED BY <3>1, <3>2
  <2> QED BY <2>1, <2>2
<1>6. CASE Return(k)
  BY <1>6 DEF Return
<1> QED BY <1>1, <1>2, <1>3, <1>4, <1>5, <1>6 DEF Caller

LEMMA DeadlineGoroutine ==
    ASSUME DeadlineInv, NEW k \in Calls, Goroutine(k) PROVE DeadlineInv'
<1> USE DeadlineAssumption DEF DeadlineInv, TypeOK, CallInv, ChanInv, Undecided, HasChan, Held
<1>1. CASE GoLock(k)
  BY <1>1 DEF GoLock
<1>2. CASE GoCopy(k)
  BY <1>2 DEF GoCopy
<1>3. CASE GoSend(k)
  BY <1>3 DEF GoSend
<1>4. CASE GoUnlock(k)
  <2>1. CASE gpc[k] = "sent"
    <3>1. /\ responded' \in [Calls -> BOOLEAN] /\ responded'[k]
          /\ \A j \in Calls : j # k => responded'[j] = responded[j]
      BY <1>4, <2>1 DEF GoUnlock
    <3>2. /\ mu' = [mu EXCEPT ![k] = "free"]
          /\ gpc' = [gpc EXCEPT ![k] = "done"]
          /\ UNCHANGED <<pool, buffer, pc, ch, result, timedout>>
      BY <1>4 DEF GoUnlock
    <3> QED BY <2>1, <3>1, <3>2
  <2>2. CASE gpc[k] # "sent"
    BY <1>4, <2>2 DEF GoUnlock
  <2> QED BY <2>1, <2>2
<1> QED BY <1>1, <1>2, <1>3, <1>4 DEF Goroutine

LEMMA DeadlineStep == DeadlineInv /\ [Next]_vars => DeadlineInv'
<1> SUFFICES ASSUME DeadlineInv, [Next]_vars PROVE DeadlineInv'
  OBVIOUS
<1>1. CASE UNCHANGED vars
  BY <1>1 DEF vars, DeadlineInv, TypeOK, CallInv, ChanInv, Undecided, HasChan, Held
<1> QED BY <1>1, DeadlineCaller, DeadlineGoroutine DEF Next, AllDone

LEMMA DeadlineImplies == DeadlineInv => OwnAnswer /\ NoAccessAfterReturn
BY DeadlineAssumption
   DEF DeadlineInv, TypeOK, CallInv, Undecided, OwnAnswer, NoAccessAfterReturn

\* clientDoDeadline alone, whatever c.Do does: a call returns its own answer or
\* ErrTimeout, never ErrTimeout once the answer was delivered.
THEOREM OwnAnswerAlone == Spec => []OwnAnswer
BY DeadlineInit, DeadlineStep, DeadlineImplies, PTL DEF Spec

(***************************************************************************)
(* LBClient: its steps are steps of clientDoDeadline or leave it alone.    *)
(***************************************************************************)
LEMMA LBStepDeadline == [LBNext]_lbAllVars => [Next]_vars
<1> SUFFICES ASSUME [LBNext]_lbAllVars PROVE [Next]_vars
  OBVIOUS
<1>1. CASE UNCHANGED lbAllVars
  BY <1>1 DEF lbAllVars
<1>2. ASSUME NEW k \in Calls, LBCall(k) PROVE [Next]_vars
  BY <1>2 DEF LBCall, Get, Call, Healthy, incPenalty, TooMany, AfterFunc, Next
<1>3. ASSUME NEW k \in Calls, LBGoroutine(k) PROVE [Next]_vars
  BY <1>3 DEF LBGoroutine, DoStart, DoTry, DoReturned, Next
<1>4. ASSUME NEW c \in Clients, decPenalty(c) PROVE [Next]_vars
  BY <1>4 DEF decPenalty
<1>5. CASE Finished
  BY <1>5 DEF Finished, lbAllVars
<1> QED BY <1>1, <1>2, <1>3, <1>4, <1>5 DEF LBNext

\* An LBClient over clientDoDeadline implements clientDoDeadline: whatever get, the
\* penalties and the retries do, its calls and goroutines obey that protocol.
THEOREM LBImplementsDeadline == LBSpec => Init /\ [][Next]_vars
<1>1. LBInit => Init
  BY DEF LBInit
<1> QED BY <1>1, LBStepDeadline, PTL DEF LBSpec

LEMMA LBKeepsDeadline == LBSpec => []DeadlineInv
<1>1. LBInit => DeadlineInv
  BY DeadlineInit DEF LBInit
<1> QED BY <1>1, DeadlineStep, LBStepDeadline, PTL DEF LBSpec

\* With retries and any number of clients behind it, a call still returns its own
\* answer or ErrTimeout, and ErrTimeout only if the answer was not delivered.
THEOREM OwnAnswerCorrect == LBSpec => []OwnAnswer
BY LBKeepsDeadline, DeadlineImplies, PTL

\* The goroutine that outlives its call does not write to the caller's response.
THEOREM NoAccessAfterReturnCorrect == LBSpec => []NoAccessAfterReturn
BY LBKeepsDeadline, DeadlineImplies, PTL

(***************************************************************************)
(* LoadCounted.  A client is chosen before anything of the call is         *)
(* counted, and min[k].c does not change while it is.  The penalties that  *)
(* have or will have a timer are never more than MaxPenalty.               *)
(***************************************************************************)
Mins == [c : 0..NClients, n : Int, t : Int, next : Nat]

Dos == [st : {"off", "try", "nil", "failed"}, req : Requests \cup {None}, attempts : Nat]

LBTypeOK ==
    /\ lpc \in [Calls -> {"get", "call", "over", "timer", "done"}]
    /\ min \in [Calls -> Mins]
    /\ penalty \in [Clients -> Int] /\ total \in [Clients -> Int]
    /\ timers \in [Clients -> Nat] /\ pending \in [Clients -> Int]
    /\ do \in [Calls -> Dos]

ChosenInv(k) ==
    /\ min[k].next > 1 => min[k].c \in Clients
    /\ lpc[k] = "get" => min[k].next \in Clients /\ pc[k] = "start" /\ do[k].st = "off"
    /\ lpc[k] # "get" => min[k].c \in Clients

Trying(c) == {k \in Calls : min[k].c = c /\ do[k].st = "try"}
Penalized(c) == {k \in Calls : min[k].c = c /\ lpc[k] \in {"over", "timer"}}
WithTimer(c) == {k \in Calls : min[k].c = c /\ lpc[k] = "timer"}

CountInv(c) ==
    /\ pending[c] = Cardinality(Trying(c))
    /\ penalty[c] = timers[c] + Cardinality(Penalized(c))
    /\ timers[c] + Cardinality(WithTimer(c)) <= MaxPenalty

LBInv ==
    /\ LBTypeOK
    /\ \A k \in Calls : ChosenInv(k)
    /\ \A c \in Clients : CountInv(c)

LEMMA CountedFinite ==
    \A c : /\ IsFiniteSet(Trying(c)) /\ Cardinality(Trying(c)) \in Nat
           /\ IsFiniteSet(Penalized(c)) /\ Cardinality(Penalized(c)) \in Nat
           /\ IsFiniteSet(WithTimer(c)) /\ Cardinality(WithTimer(c)) \in Nat
           /\ Cardinality(WithTimer(c)) <= Cardinality(Penalized(c))
<1> TAKE c
<1>1. Trying(c) \subseteq Calls /\ Penalized(c) \subseteq Calls /\ WithTimer(c) \subseteq Penalized(c)
  BY DEF Trying, Penalized, WithTimer
<1>2. IsFiniteSet(Trying(c)) /\ IsFiniteSet(Penalized(c))
  BY <1>1, FS_Subset, DeadlineAssumption
<1> QED BY <1>1, <1>2, FS_Subset, FS_CardinalityType

LEMMA LBInitInv == LBInit => LBInv
<1> SUFFICES ASSUME LBInit PROVE LBInv
  OBVIOUS
<1>1. LBTypeOK
  BY LBAssumption DEF LBInit, LBTypeOK, Mins, Dos, DoAt, Clients
<1>2. \A k \in Calls : ChosenInv(k)
  BY LBAssumption DEF LBInit, Init, ChosenInv, Clients, DoAt
<1>3. ASSUME NEW c \in Clients PROVE CountInv(c)
  <2>1. Trying(c) = {} /\ Penalized(c) = {} /\ WithTimer(c) = {}
    BY DEF LBInit, Trying, Penalized, WithTimer, DoAt
  <2> QED BY <2>1, FS_EmptySet, LBAssumption DEF LBInit, CountInv
<1> QED BY <1>1, <1>2, <1>3 DEF LBInv

\* A step after which every client counts the same calls, timers and requests.
LEMMA SameCounts ==
    ASSUME NEW c \in Clients, CountInv(c),
           Trying(c)' = Trying(c), Penalized(c)' = Penalized(c), WithTimer(c)' = WithTimer(c),
           pending'[c] = pending[c], penalty'[c] = penalty[c], timers'[c] = timers[c]
    PROVE  CountInv(c)'
BY DEF CountInv

LEMMA LBCallStep ==
    ASSUME DeadlineInv, LBInv, NEW k \in Calls, LBCall(k) PROVE LBInv'
<1> USE LBAssumption DEF LBInv, LBTypeOK
<1>m. PICK m \in 0..NClients : m = min[k].c
  BY DEF Mins
<1>1. CASE Get(k)
  <2>c. PICK c \in Clients : c = min[k].next
    BY <1>1 DEF Get
  <2>1. /\ lpc[k] = "get" /\ do[k].st = "off" /\ Load(c) \in Int /\ total[c] \in Int
    BY <1>1 DEF Get, ChosenInv, Load
  <2>2. PICK new \in Mins :
           min' = [min EXCEPT ![k] = new] /\ new.next = c + 1 /\ new.c \in Clients
    <3>1. \/ /\ min' = [min EXCEPT ![k] = [c |-> c, n |-> Load(c), t |-> total[c], next |-> c + 1]]
          \/ /\ c # 1
             /\ min' = [min EXCEPT ![k] = [min[k] EXCEPT !.next = c + 1]]
      BY <1>1, <2>c DEF Get
    <3>2. [c |-> c, n |-> Load(c), t |-> total[c], next |-> c + 1] \in Mins
      BY <2>1 DEF Mins, Clients
    <3>3. /\ [min[k] EXCEPT !.next = c + 1] \in Mins
          /\ [min[k] EXCEPT !.next = c + 1].c = min[k].c
          /\ [min[k] EXCEPT !.next = c + 1].next = c + 1
      <4>1. min[k] \in Mins /\ c + 1 \in Nat
        BY DEF Clients
      <4> QED BY ONLY <4>1 DEF Mins
    <3>4. c # 1 => min[k].c \in Clients
      <4>1. ChosenInv(k) /\ NClients \in Nat
        OBVIOUS
      <4> HIDE LBAssumption DEF LBInv, LBTypeOK
      <4> QED BY <2>c, <4>1 DEF ChosenInv, Clients
    <3> QED BY <3>1, <3>2, <3>3, <3>4
  <2>3. /\ lpc' = [lpc EXCEPT ![k] = IF c = NClients THEN "call" ELSE "get"]
        /\ UNCHANGED <<pc, penalty, total, timers, pending, do>>
    BY <1>1, <2>c DEF Get, vars, doVars
  <2>4. LBTypeOK'
    BY <2>2, <2>3
  <2>5. \A j \in Calls : ChosenInv(j)'
    <3>1. ChosenInv(k)'
      <4>1. /\ min'[k] = new /\ lpc'[k] = IF c = NClients THEN "call" ELSE "get"
            /\ pc' = pc /\ do' = do
        BY <2>2, <2>3
      <4>2. ChosenInv(k) /\ NClients \in Nat
        OBVIOUS
      <4> HIDE LBAssumption DEF LBInv, LBTypeOK
      <4> QED BY <2>1, <2>2, <4>1, <4>2 DEF ChosenInv, Clients
    <3>2. ASSUME NEW j \in Calls, j # k PROVE ChosenInv(j)'
      BY <2>2, <2>3, <3>2 DEF ChosenInv
    <3> QED BY <3>1, <3>2
  <2>6. ASSUME NEW d \in Clients PROVE CountInv(d)'
    <3>1. /\ Trying(d)' = Trying(d) /\ Penalized(d)' = Penalized(d)
          /\ WithTimer(d)' = WithTimer(d)
      BY <2>1, <2>2, <2>3 DEF Trying, Penalized, WithTimer
    <3> QED BY <2>3, <3>1, SameCounts
  <2> QED BY <2>4, <2>5, <2>6
<1>2. CASE Call(k)
  <2>1. /\ UNCHANGED <<lpc, min, penalty, total, timers, pending, do>> /\ lpc[k] = "call"
        /\ \A j \in Calls : j # k => pc'[j] = pc[j]
    BY <1>2 DEF Call, Caller, Late, Start, SelectAnswer, SelectTimer, Decide, Return, Receive,
                lbVars, doVars, DeadlineInv, TypeOK
  <2>2. \A j \in Calls : ChosenInv(j)'
    BY <2>1 DEF ChosenInv
  <2>3. ASSUME NEW d \in Clients PROVE CountInv(d)'
    BY <2>1, SameCounts DEF Trying, Penalized, WithTimer
  <2> QED BY <2>1, <2>2, <2>3
<1>3. CASE Healthy(k)
  <2>1. /\ lpc[k] = "call" /\ lpc' = [lpc EXCEPT ![k] = "done"] /\ m \in Clients
        /\ total' = [total EXCEPT ![m] = @ + 1]
        /\ UNCHANGED <<pc, min, penalty, timers, pending, do>>
    BY <1>3, <1>m DEF Healthy, vars, doVars, ChosenInv
  <2>2. \A j \in Calls : ChosenInv(j)'
    BY <2>1 DEF ChosenInv
  <2>3. ASSUME NEW d \in Clients PROVE CountInv(d)'
    <3>1. /\ Trying(d)' = Trying(d) /\ Penalized(d)' = Penalized(d)
          /\ WithTimer(d)' = WithTimer(d)
      BY <1>m, <2>1 DEF Trying, Penalized, WithTimer
    <3> QED BY <2>1, <3>1, SameCounts
  <2> QED BY <2>1, <2>2, <2>3
<1>4. CASE incPenalty(k)
  <2>1. /\ lpc[k] = "call" /\ m \in Clients /\ penalty' = [penalty EXCEPT ![m] = @ + 1]
        /\ lpc' = [lpc EXCEPT ![k] = IF penalty[m] + 1 > MaxPenalty THEN "over" ELSE "timer"]
        /\ UNCHANGED <<pc, min, total, timers, pending, do>>
    BY <1>4, <1>m DEF incPenalty, vars, doVars, ChosenInv
  <2>2. \A j \in Calls : ChosenInv(j)'
    BY <2>1 DEF ChosenInv
  <2>3. ASSUME NEW d \in Clients, d # m PROVE CountInv(d)'
    <3>1. /\ Trying(d)' = Trying(d) /\ Penalized(d)' = Penalized(d)
          /\ WithTimer(d)' = WithTimer(d)
      BY <1>m, <2>1, <2>3 DEF Trying, Penalized, WithTimer
    <3> QED BY <2>1, <2>3, <3>1, SameCounts
  <2>4. CountInv(m)'
    <3>1. /\ Trying(m)' = Trying(m)
          /\ k \notin Penalized(m) /\ Penalized(m)' = Penalized(m) \cup {k}
          /\ k \notin WithTimer(m)
          /\ WithTimer(m)' = IF penalty[m] + 1 > MaxPenalty THEN WithTimer(m)
                                                            ELSE WithTimer(m) \cup {k}
      BY <1>m, <2>1 DEF Trying, Penalized, WithTimer
    <3>2. /\ Cardinality(Penalized(m)') = Cardinality(Penalized(m)) + 1
          /\ Cardinality(WithTimer(m) \cup {k}) = Cardinality(WithTimer(m)) + 1
      BY <3>1, CountedFinite, CountOneMore
    <3>3. CountInv(m) /\ penalty'[m] = penalty[m] + 1 /\ timers'[m] = timers[m]
          /\ pending'[m] = pending[m] /\ timers[m] \in Nat /\ penalty[m] \in Int
      BY <2>1
    <3> HIDE DEF LBInv, LBTypeOK
    <3>4. CASE penalty[m] + 1 > MaxPenalty
      BY <3>1, <3>2, <3>3, <3>4, CountedFinite DEF CountInv
    <3>5. CASE ~(penalty[m] + 1 > MaxPenalty)
      BY <3>1, <3>2, <3>3, <3>5, CountedFinite DEF CountInv
    <3> QED BY <3>4, <3>5
  <2> QED BY <2>1, <2>2, <2>3, <2>4
<1>5. CASE TooMany(k)
  <2>1. /\ lpc[k] = "over" /\ lpc' = [lpc EXCEPT ![k] = "done"] /\ m \in Clients
        /\ penalty' = [penalty EXCEPT ![m] = @ - 1] /\ total' = [total EXCEPT ![m] = @ + 1]
        /\ UNCHANGED <<pc, min, timers, pending, do>>
    BY <1>5, <1>m DEF TooMany, vars, doVars, ChosenInv
  <2>2. \A j \in Calls : ChosenInv(j)'
    BY <2>1 DEF ChosenInv
  <2>3. ASSUME NEW d \in Clients, d # m PROVE CountInv(d)'
    <3>1. /\ Trying(d)' = Trying(d) /\ Penalized(d)' = Penalized(d)
          /\ WithTimer(d)' = WithTimer(d)
      BY <1>m, <2>1, <2>3 DEF Trying, Penalized, WithTimer
    <3> QED BY <2>1, <2>3, <3>1, SameCounts
  <2>4. CountInv(m)'
    <3>1. /\ Trying(m)' = Trying(m) /\ WithTimer(m)' = WithTimer(m)
          /\ k \in Penalized(m) /\ Penalized(m)' = Penalized(m) \ {k}
      BY <1>m, <2>1 DEF Trying, Penalized, WithTimer
    <3>2. Cardinality(Penalized(m)') = Cardinality(Penalized(m)) - 1
      BY <3>1, CountedFinite, CountOneLess
    <3>3. CountInv(m) /\ penalty'[m] = penalty[m] - 1 /\ timers'[m] = timers[m]
          /\ pending'[m] = pending[m] /\ timers[m] \in Nat /\ penalty[m] \in Int
      BY <2>1
    <3> HIDE LBAssumption DEF LBInv, LBTypeOK
    <3> QED BY <3>1, <3>2, <3>3, CountedFinite DEF CountInv
  <2> QED BY <2>1, <2>2, <2>3, <2>4
<1>6. CASE AfterFunc(k)
  <2>1. /\ lpc[k] = "timer" /\ lpc' = [lpc EXCEPT ![k] = "done"] /\ m \in Clients
        /\ timers' = [timers EXCEPT ![m] = @ + 1]
        /\ UNCHANGED <<pc, min, penalty, total, pending, do>>
    BY <1>6, <1>m DEF AfterFunc, vars, doVars, ChosenInv
  <2>2. \A j \in Calls : ChosenInv(j)'
    BY <2>1 DEF ChosenInv
  <2>3. ASSUME NEW d \in Clients, d # m PROVE CountInv(d)'
    <3>1. /\ Trying(d)' = Trying(d) /\ Penalized(d)' = Penalized(d)
          /\ WithTimer(d)' = WithTimer(d)
      BY <1>m, <2>1, <2>3 DEF Trying, Penalized, WithTimer
    <3> QED BY <2>1, <2>3, <3>1, SameCounts
  <2>4. CountInv(m)'
    <3>1. /\ Trying(m)' = Trying(m)
          /\ k \in Penalized(m) /\ Penalized(m)' = Penalized(m) \ {k}
          /\ k \in WithTimer(m) /\ WithTimer(m)' = WithTimer(m) \ {k}
      BY <1>m, <2>1 DEF Trying, Penalized, WithTimer
    <3>2. /\ Cardinality(Penalized(m)') = Cardinality(Penalized(m)) - 1
          /\ Cardinality(WithTimer(m)') = Cardinality(WithTimer(m)) - 1
      BY <3>1, CountedFinite, CountOneLess
    <3>3. CountInv(m) /\ penalty'[m] = penalty[m] /\ timers'[m] = timers[m] + 1
          /\ pending'[m] = pending[m] /\ timers[m] \in Nat /\ penalty[m] \in Int
      BY <2>1
    <3> HIDE LBAssumption DEF LBInv, LBTypeOK
    <3> QED BY <3>1, <3>2, <3>3, CountedFinite DEF CountInv
  <2> QED BY <2>1, <2>2, <2>3, <2>4
<1> QED BY <1>1, <1>2, <1>3, <1>4, <1>5, <1>6 DEF LBCall

\* A step that changes Do of one call only, and with it whether the call is counted.
LEMMA DoStepCounts ==
    ASSUME LBInv, NEW k \in Calls, lpc[k] # "get", NEW new \in Dos,
           do' = [do EXCEPT ![k] = new],
           pending' = IF (do[k].st = "try") = (new.st = "try") THEN pending
                      ELSE [pending EXCEPT ![min[k].c] = IF new.st = "try" THEN @ + 1 ELSE @ - 1],
           UNCHANGED <<pc, lpc, min, penalty, total, timers>>
    PROVE  LBInv'
<1> USE DEF LBInv, LBTypeOK
<1>m. PICK m \in Clients : m = min[k].c
  BY DEF ChosenInv
<1>1. LBTypeOK'
  BY <1>m
<1>2. \A j \in Calls : ChosenInv(j)'
  BY DEF ChosenInv
<1>3. \A d : Penalized(d)' = Penalized(d) /\ WithTimer(d)' = WithTimer(d)
  BY DEF Penalized, WithTimer
<1>4. ASSUME NEW d \in Clients, d # m \/ (do[k].st = "try") = (new.st = "try")
      PROVE  CountInv(d)'
  <2>1. Trying(d)' = Trying(d)
    BY <1>m, <1>4 DEF Trying
  <2>2. pending'[d] = pending[d]
    BY <1>m, <1>4
  <2> QED BY <1>3, <2>1, <2>2, SameCounts
<1>5. ASSUME do[k].st # "try", new.st = "try" PROVE CountInv(m)'
  <2>1. k \notin Trying(m) /\ Trying(m)' = Trying(m) \cup {k}
    BY <1>m, <1>5 DEF Trying
  <2>2. Cardinality(Trying(m)') = Cardinality(Trying(m)) + 1
    BY <2>1, CountedFinite, CountOneMore
  <2>3. pending'[m] = pending[m] + 1 /\ CountInv(m)
    BY <1>m, <1>5
  <2> HIDE DEF LBInv, LBTypeOK
  <2> QED BY <1>3, <2>2, <2>3 DEF CountInv
<1>6. ASSUME do[k].st = "try", new.st # "try" PROVE CountInv(m)'
  <2>1. k \in Trying(m) /\ Trying(m)' = Trying(m) \ {k}
    BY <1>m, <1>6 DEF Trying
  <2>2. Cardinality(Trying(m)') = Cardinality(Trying(m)) - 1
    BY <2>1, CountedFinite, CountOneLess
  <2>3. pending'[m] = pending[m] - 1 /\ CountInv(m)
    BY <1>m, <1>6
  <2> HIDE DEF LBInv, LBTypeOK
  <2> QED BY <1>3, <2>2, <2>3 DEF CountInv
<1> QED BY <1>1, <1>2, <1>4, <1>5, <1>6

LEMMA LBGoroutineStep ==
    ASSUME DeadlineInv, LBInv, NEW k \in Calls, LBGoroutine(k) PROVE LBInv'
<1>1. ASSUME NEW r \in Requests, DoStart(k, r) PROVE LBInv'
  <2>1. lpc[k] # "get"
    BY <1>1 DEF DoStart, DeadlineInv, CallInv, LBInv, ChosenInv
  <2> DEFINE new == [st |-> "try", req |-> r, attempts |-> 0]
  <2>2. new \in Dos /\ new.st = "try" /\ do[k].st = "off"
    BY <1>1 DEF DoStart, Dos
  <2>3. do' = [do EXCEPT ![k] = new] /\ pending' = [pending EXCEPT ![min[k].c] = @ + 1]
    <3>1. [DoAt("try") EXCEPT !.req = r] = new
      BY DEF DoAt
    <3> QED BY <1>1, <3>1 DEF DoStart
  <2>4. UNCHANGED <<pc, lpc, min, penalty, total, timers>>
    BY <1>1 DEF DoStart, vars, lbVars
  <2> HIDE DEF new
  <2> QED BY <2>1, <2>2, <2>3, <2>4, DoStepCounts
<1>2. ASSUME NEW o \in Outcomes, DoTry(k, o) PROVE LBInv'
  <2>1. do[k].st = "try" /\ UNCHANGED <<pc, lpc, min, penalty, total, timers>>
    BY <1>2 DEF DoTry, vars, lbVars
  <2>2. lpc[k] # "get"
    BY <2>1 DEF LBInv, ChosenInv
  <2>3. PICK d \in Dos : d = do[k]
    BY DEF LBInv, LBTypeOK
  <2>4. CASE Again(do[k], o)
    <3> DEFINE new == [d EXCEPT !.attempts = @ + 1]
    <3>1. new \in Dos /\ new.st = d.st
      BY ONLY <2>3 DEF Dos
    <3>2. do' = [do EXCEPT ![k] = new] /\ pending' = pending
      BY <1>2, <2>3, <2>4 DEF DoTry
    <3> HIDE DEF new
    <3> QED BY <2>1, <2>2, <2>3, <3>1, <3>2, DoStepCounts
  <2>5. CASE ~Again(do[k], o)
    <3> DEFINE new == DoAt(IF o.err = "nil" THEN "nil" ELSE "failed")
    <3>1. new \in Dos /\ new.st # "try"
      BY DEF DoAt, Dos
    <3>2. do' = [do EXCEPT ![k] = new] /\ pending' = [pending EXCEPT ![min[k].c] = @ - 1]
      BY <1>2, <2>5 DEF DoTry
    <3> HIDE DEF new
    <3> QED BY <2>1, <2>2, <3>1, <3>2, DoStepCounts
  <2> QED BY <2>4, <2>5
<1>3. CASE DoReturned(k)
  <2>1. UNCHANGED <<pc, lpc, min, penalty, total, timers, pending, do>>
    BY <1>3 DEF DoReturned, Goroutine, GoLock, GoCopy, GoSend, GoUnlock, lbVars, doVars
  <2>2. LBTypeOK' /\ \A j \in Calls : ChosenInv(j)'
    BY <2>1 DEF LBInv, LBTypeOK, ChosenInv
  <2>3. \A c : /\ Trying(c)' = Trying(c) /\ Penalized(c)' = Penalized(c)
               /\ WithTimer(c)' = WithTimer(c)
    BY <2>1 DEF Trying, Penalized, WithTimer
  <2>4. \A c \in Clients : CountInv(c)'
    BY <2>1, <2>3, SameCounts DEF LBInv
  <2> QED BY <2>2, <2>4 DEF LBInv
<1> QED BY <1>1, <1>2, <1>3 DEF LBGoroutine

LEMMA DecPenaltyStep ==
    ASSUME LBInv, NEW c \in Clients, decPenalty(c) PROVE LBInv'
<1> USE DEF LBInv, LBTypeOK
<1>1. /\ timers[c] > 0 /\ timers' = [timers EXCEPT ![c] = @ - 1]
      /\ penalty' = [penalty EXCEPT ![c] = @ - 1]
      /\ UNCHANGED <<pc, lpc, min, total, pending, do>>
  BY DEF decPenalty, vars, doVars
<1>2. \A d : /\ Trying(d)' = Trying(d) /\ Penalized(d)' = Penalized(d)
             /\ WithTimer(d)' = WithTimer(d)
  BY <1>1 DEF Trying, Penalized, WithTimer
<1>3. \A k \in Calls : ChosenInv(k)'
  BY <1>1 DEF ChosenInv
<1>4. ASSUME NEW d \in Clients PROVE CountInv(d)'
  <2>1. CASE d # c
    BY <1>1, <1>2, <2>1, SameCounts
  <2>2. CASE d = c
    <3>1. /\ timers'[c] = timers[c] - 1 /\ penalty'[c] = penalty[c] - 1 /\ pending' = pending
          /\ timers[c] \in Nat /\ penalty[c] \in Int /\ CountInv(c) /\ MaxPenalty \in Nat
      BY <1>1, LBAssumption
    <3> HIDE DEF LBInv, LBTypeOK
    <3> QED BY <1>2, <2>2, <3>1, CountedFinite DEF CountInv
  <2> QED BY <2>1, <2>2
<1> QED BY <1>1, <1>3, <1>4

LEMMA LBStep == DeadlineInv /\ LBInv /\ [LBNext]_lbAllVars => LBInv'
<1> SUFFICES ASSUME DeadlineInv, LBInv, [LBNext]_lbAllVars PROVE LBInv'
  OBVIOUS
<1>1. CASE UNCHANGED lbAllVars
  BY <1>1 DEF lbAllVars, vars, lbVars, doVars, LBInv, LBTypeOK, ChosenInv, CountInv, Trying,
              Penalized, WithTimer
<1> QED BY <1>1, LBCallStep, LBGoroutineStep, DecPenaltyStep DEF LBNext, Finished

\* The load of every client is exact at all times: its pending requests are the Do's
\* that run, its penalty the timers that are pending and the calls between the two
\* halves of a penalty, and no counter falls below zero.
THEOREM LoadCountedCorrect == LBSpec => []LoadCounted
<1>1. LBInv => LoadCounted
  <2> SUFFICES ASSUME LBInv, NEW c \in Clients, CountInv(c)
               PROVE  /\ pending[c] = Cardinality(Trying(c))
                      /\ penalty[c] = timers[c] + Cardinality(Penalized(c))
                      /\ timers[c] <= MaxPenalty
    BY DEF LBInv, LoadCounted, Trying, Penalized
  <2>1. timers[c] \in Nat /\ MaxPenalty \in Nat
    BY LBAssumption DEF LBInv, LBTypeOK
  <2> QED BY <2>1, CountedFinite DEF CountInv
<1> QED BY <1>1, LBInitInv, LBStep, LBKeepsDeadline, PTL DEF LBSpec

(***************************************************************************)
(* TCPDialer: what a dial holds at each point, and the tokens in           *)
(* concurrencyCh.                                                          *)
(***************************************************************************)

PCs == {"start", "next", "hostFailed", "get", "resolve", "store", "clear", "bump", "try",
        "dial", "exhausted", "conn", "handshake", "handshakeEnd", "dialed", "failed"}

DialRecords ==
    [pc : PCs, hosts : Nat, host : Hosts, e : Nat, n : Nat, idx : Nat, open : BOOLEAN,
     hs : {"off", "run", "nil", "err"}]

EntryRecords == [idx : Nat, pending : BOOLEAN, age : Nat]

SharedType ==
    /\ addrs \in {<<>>, Addrs} /\ addrIdx \in Nat
    /\ tcpAddrs \in [Hosts -> 0..MaxEntries] /\ entry \in [Entries -> EntryRecords]
    /\ made \in 0..MaxEntries

DialTypeOK == SharedType /\ slots \in Int /\ dial \in [Dials -> DialRecords]

\* The entry that a call uses exists.
EntryInRange == \A c \in Dials : dial[c].pc \in {"store", "bump"} => dial[c].e \in Entries

\* There is an address left for every dial: addrs[idx%n] is in range.
AddrsLeft == \A c \in Dials : dial[c].pc \in {"try", "dial"} => dial[c].n > 0

\* What a call holds at each point: a connection, a goroutine for the handshake.
DialOK(r) ==
    /\ r.pc \in {"store", "bump"} => r.e \in Entries
    /\ r.pc \in {"try", "dial"} => r.n > 0
    /\ r.open <=> r.pc \in {"conn", "handshake", "dialed"}
    /\ r.hs # "off" <=> r.pc \in {"handshake", "handshakeEnd"}

Dialing == {c \in Dials : dial[c].pc = "dial"}

DialInv ==
    /\ DialTypeOK
    /\ \A c \in Dials : DialOK(dial[c])
    /\ slots = Cardinality(Dialing)

LEMMA DialConstants ==
    /\ Len(Addrs) \in Nat \ {0} /\ Len(IPs) \in Nat \ {0}
    /\ \A i \in 1..Len(Addrs) : Addrs[i] \in Hosts
    /\ Head(Addrs) \in Hosts
<1>1. Len(Addrs) \in Nat \ {0} /\ Len(IPs) \in Nat \ {0}
  BY DialerAssumption, EmptySeq
<1>2. \A i \in 1..Len(Addrs) : Addrs[i] \in Hosts
  BY DialerAssumption DEF Hosts, ToSet
<1>3. Head(Addrs) = Addrs[1]
  BY DialerAssumption
<1> QED BY <1>1, <1>2, <1>3

LEMMA DialingFinite == IsFiniteSet(Dialing) /\ Cardinality(Dialing) \in Nat
BY DialerAssumption, FS_Subset, FS_CardinalityType DEF Dialing

LEMMA EntryUpdates ==
    ASSUME NEW f \in [Entries -> EntryRecords], NEW e \in Entries, NEW b \in BOOLEAN, NEW n \in Nat
    PROVE  /\ [f EXCEPT ![e].pending = b] \in [Entries -> EntryRecords]
           /\ [f EXCEPT ![e].idx = n] \in [Entries -> EntryRecords]
           /\ [f EXCEPT ![e].age = @ + 1] \in [Entries -> EntryRecords]
<1>1. PICK r \in EntryRecords : r = f[e]
  OBVIOUS
<1>2. PICK m \in Nat : m = r.age + 1
  BY DEF EntryRecords
<1>3. /\ [r EXCEPT !.pending = b] \in EntryRecords
      /\ [r EXCEPT !.idx = n] \in EntryRecords
      /\ [r EXCEPT !.age = m] \in EntryRecords
  BY DEF EntryRecords
<1> QED BY <1>1, <1>2, <1>3

LEMMA DialInvInit == DialInit => DialInv
<1> SUFFICES ASSUME DialInit PROVE DialInv
  OBVIOUS
<1>1. DialTypeOK
  BY DialConstants, DialerAssumption
     DEF DialInit, DialTypeOK, SharedType, NewCall, DialRecords, EntryRecords, Entries, PCs, NoEntry
<1>2. \A c \in Dials : DialOK(dial[c])
  BY DEF DialInit, DialOK, NewCall
<1>3. Dialing = {}
  BY DEF DialInit, Dialing, NewCall
<1> QED BY <1>1, <1>2, <1>3, FS_EmptySet DEF DialInit, DialInv

\* A step of call c that leaves it in state new, and takes or gives back a slot when
\* it begins or ends a dial.
LEMMA DialCallStep ==
    ASSUME DialInv, SharedType', NEW c \in Dials, NEW new \in DialRecords, DialOK(new), Becomes(c, new),
           slots' = slots + (IF new.pc = "dial" THEN 1 ELSE 0)
                          - (IF dial[c].pc = "dial" THEN 1 ELSE 0)
    PROVE  DialInv'
<1>1. /\ dial' = [dial EXCEPT ![c] = new] /\ dial \in [Dials -> DialRecords] /\ slots \in Int
      /\ slots = Cardinality(Dialing) /\ \A d \in Dials : DialOK(dial[d])
  BY DEF DialInv, DialTypeOK, Becomes
<1>2. dial' \in [Dials -> DialRecords] /\ slots' \in Int /\ \A d \in Dials : DialOK(dial'[d])
  BY <1>1
<1>3. Dialing' = IF new.pc = "dial" THEN Dialing \cup {c} ELSE Dialing \ {c}
  BY <1>1 DEF Dialing
<1>4. c \in Dialing <=> dial[c].pc = "dial"
  BY DEF Dialing
<1>5. slots' = Cardinality(Dialing')
  <2>1. CASE c \in Dialing
    <3>1. Cardinality(Dialing \ {c}) = slots - 1 /\ Dialing \cup {c} = Dialing
      BY <1>1, <2>1, DialingFinite, CountOneLess
    <3>2. slots' = IF new.pc = "dial" THEN slots ELSE slots - 1
      BY <1>1, <1>4, <2>1
    <3> QED BY <1>1, <1>3, <3>1, <3>2
  <2>2. CASE c \notin Dialing
    <3>1. Cardinality(Dialing \cup {c}) = slots + 1 /\ Dialing \ {c} = Dialing
      BY <1>1, <2>2, DialingFinite, CountOneMore
    <3>2. slots' = IF new.pc = "dial" THEN slots + 1 ELSE slots
      BY <1>1, <1>4, <2>2
    <3> QED BY <1>1, <1>3, <3>1, <3>2
  <2> QED BY <2>1, <2>2
<1> QED BY <1>2, <1>5 DEF DialInv, DialTypeOK

\* In particular one that neither begins nor ends a dial.
LEMMA DialQuietStep ==
    ASSUME DialInv, SharedType', NEW c \in Dials, NEW new \in DialRecords, DialOK(new),
           Becomes(c, new), new.pc # "dial", dial[c].pc # "dial", slots' = slots
    PROVE  DialInv'
<1>1. slots \in Int
  BY DEF DialInv, DialTypeOK
<1>2. slots' = slots + (IF new.pc = "dial" THEN 1 ELSE 0) - (IF dial[c].pc = "dial" THEN 1 ELSE 0)
  BY <1>1
<1> QED BY <1>2, DialCallStep

LEMMA HostSteps ==
    ASSUME DialInv, NEW c \in Dials,
           DialHostHard(c) \/ NextAddr(c) \/ HostFailed(c)
    PROVE  DialInv'
<1>r. PICK r \in DialRecords : r = dial[c] /\ DialOK(r)
  BY DEF DialInv, DialTypeOK
<1>s. SharedType
  BY DEF DialInv, DialTypeOK
<1> USE DEF At, hostVars, cacheVars
<1>1. CASE DialHostHard(c)
  <2> DEFINE h == IF addrs = <<>> THEN 1 ELSE Len(addrs)
  <2>1. PICK n \in Nat : n = h
    BY <1>s, DialConstants DEF SharedType
  <2> DEFINE new == [r EXCEPT !.pc = "next", !.hosts = n]
  <2>2. Becomes(c, new) /\ slots' = slots /\ UNCHANGED <<addrs, addrIdx, tcpAddrs, entry, made>>
    BY <1>r, <1>1, <2>1 DEF DialHostHard
  <2>3. r.pc = "start"
    BY <1>r, <1>1 DEF DialHostHard
  <2>4. new \in DialRecords /\ DialOK(new) /\ new.pc = "next"
    BY ONLY <1>r, <2>1, <2>3 DEF DialRecords, PCs, DialOK
  <2>5. SharedType'
    BY <1>s, <2>2 DEF SharedType
  <2> HIDE DEF new
  <2> QED BY <1>r, <2>2, <2>3, <2>4, <2>5, DialQuietStep
<1>2. CASE NextAddr(c)
  <2>1. PICK h \in Hosts : h = Addrs[1 + (addrIdx % Len(Addrs))]
    BY <1>s, DialConstants DEF SharedType
  <2> DEFINE new == [r EXCEPT !.pc = "get", !.host = h]
  <2>2. Becomes(c, new) /\ slots' = slots /\ addrs' = Addrs /\ UNCHANGED <<tcpAddrs, entry, made>>
    BY <1>r, <1>2, <2>1 DEF NextAddr
  <2>3. r.pc = "next"
    BY <1>r, <1>2 DEF NextAddr
  <2>4. new \in DialRecords /\ DialOK(new) /\ new.pc = "get"
    BY ONLY <1>r, <2>1, <2>3 DEF DialRecords, PCs, DialOK
  <2>5. addrIdx' \in Nat
    BY <1>s, <1>2, DialerAssumption DEF SharedType, NextAddr
  <2>6. SharedType'
    BY <1>s, <2>2, <2>5 DEF SharedType
  <2> HIDE DEF new
  <2> QED BY <1>r, <2>2, <2>3, <2>4, <2>6, DialQuietStep
<1>3. CASE HostFailed(c)
  <2>1. r.pc = "hostFailed"
    BY <1>r, <1>3 DEF HostFailed
  <2>2. SharedType' /\ slots' = slots
    BY <1>s, <1>3 DEF SharedType, HostFailed
  <2>n. r.hosts \in Nat
    BY <1>r DEF DialRecords
  <2>m. PICK n : n = r.hosts - 1 /\ (r.hosts > 1 => n \in Nat)
    BY <2>n
  <2> DEFINE next == [r EXCEPT !.pc = "next", !.hosts = n]
             failed == [r EXCEPT !.pc = "failed"]
  <2>3. (r.hosts > 1 /\ Becomes(c, next)) \/ Becomes(c, failed)
    BY <1>r, <1>3, <2>m DEF HostFailed, Goto
  <2>4. r.hosts > 1 => next \in DialRecords /\ DialOK(next) /\ next.pc = "next"
    BY ONLY <1>r, <2>m, <2>1 DEF DialRecords, PCs, DialOK
  <2>5. failed \in DialRecords /\ DialOK(failed) /\ failed.pc = "failed"
    BY ONLY <1>r, <2>1 DEF DialRecords, PCs, DialOK
  <2> HIDE DEF next, failed
  <2> QED BY <1>r, <2>1, <2>2, <2>3, <2>4, <2>5, DialQuietStep
<1> QED BY <1>1, <1>2, <1>3

LEMMA CacheSteps ==
    ASSUME DialInv, NEW c \in Dials,
           GetTCPAddrs(c) \/ Resolve(c) \/ StoreEntry(c) \/ ClearPending(c) \/ BumpIdx(c)
    PROVE  DialInv'
<1>r. PICK r \in DialRecords : r = dial[c] /\ DialOK(r)
  BY DEF DialInv, DialTypeOK
<1>s. SharedType
  BY DEF DialInv, DialTypeOK
<1>h. r.host \in Hosts
  BY <1>r DEF DialRecords
<1>e. PICK e \in Nat : e = tcpAddrs[r.host] /\ (e # NoEntry => e \in Entries)
  BY <1>s, <1>h, DialerAssumption DEF SharedType, NoEntry, Entries
<1> USE DEF At, hostVars, cacheVars
<1>1. CASE GetTCPAddrs(c)
  <2>1. r.pc = "get" /\ slots' = slots /\ UNCHANGED <<addrs, addrIdx, tcpAddrs, made>>
    BY <1>r, <1>1 DEF GetTCPAddrs
  <2> DEFINE resolve == [r EXCEPT !.pc = "resolve"]
             bump == [r EXCEPT !.pc = "bump", !.e = e]
  <2>2. \/ Becomes(c, resolve)
        \/ e # NoEntry /\ Becomes(c, bump)
    BY <1>r, <1>e, <1>1 DEF GetTCPAddrs, Goto
  <2>3. \/ entry' = entry
        \/ e # NoEntry /\ entry' = [entry EXCEPT ![e].pending = TRUE]
    BY <1>r, <1>e, <1>1 DEF GetTCPAddrs
  <2>4. SharedType'
    <3>0. \A b \in BOOLEAN : e # NoEntry => [entry EXCEPT ![e].pending = b] \in [Entries -> EntryRecords]
      BY <1>s, <1>e, EntryUpdates, 0 \in Nat DEF SharedType
    <3>1. entry' \in [Entries -> EntryRecords]
      BY <1>s, <2>3, <3>0 DEF SharedType
    <3> QED BY <1>s, <2>1, <3>1 DEF SharedType
  <2>5. resolve \in DialRecords /\ DialOK(resolve) /\ resolve.pc = "resolve"
    BY ONLY <1>r, <2>1 DEF DialRecords, PCs, DialOK
  <2>6. e # NoEntry => bump \in DialRecords /\ DialOK(bump) /\ bump.pc = "bump"
    BY ONLY <1>r, <1>e, <2>1 DEF DialRecords, PCs, DialOK
  <2> HIDE DEF resolve, bump
  <2> QED BY <1>r, <2>1, <2>2, <2>4, <2>5, <2>6, DialQuietStep
<1>2. CASE Resolve(c)
  <2>1. r.pc = "resolve" /\ slots' = slots /\ UNCHANGED <<addrs, addrIdx, tcpAddrs, entry>>
    BY <1>r, <1>2 DEF Resolve
  <2>2. PICK m \in Nat : m = made + 1
    BY <1>s, DialerAssumption DEF SharedType
  <2> DEFINE store == [r EXCEPT !.pc = "store", !.e = m]
             clear == [r EXCEPT !.pc = "clear"]
  <2>3. \/ m \in Entries /\ made' = m /\ Becomes(c, store)
        \/ made' = made /\ Becomes(c, clear)
    BY <1>r, <1>s, <1>2, <2>2, DialerAssumption DEF Resolve, Goto, Entries, SharedType
  <2>4. SharedType'
    BY <1>s, <2>1, <2>3, DialerAssumption DEF SharedType, Entries
  <2>5. m \in Entries => store \in DialRecords /\ DialOK(store) /\ store.pc = "store"
    BY ONLY <1>r, <2>1, <2>2 DEF DialRecords, PCs, DialOK
  <2>6. clear \in DialRecords /\ DialOK(clear) /\ clear.pc = "clear"
    BY ONLY <1>r, <2>1 DEF DialRecords, PCs, DialOK
  <2> HIDE DEF store, clear
  <2> QED BY <1>r, <2>1, <2>3, <2>4, <2>5, <2>6, DialQuietStep
<1>3. CASE StoreEntry(c)
  <2> DEFINE bump == [r EXCEPT !.pc = "bump"]
  <2>1. /\ r.pc = "store" /\ slots' = slots /\ UNCHANGED <<addrs, addrIdx, entry, made>>
        /\ tcpAddrs' = [tcpAddrs EXCEPT ![r.host] = r.e] /\ Becomes(c, bump)
    BY <1>r, <1>3 DEF StoreEntry, Goto
  <2>2. r.e \in 0..MaxEntries
    BY <1>r, <2>1, DialerAssumption DEF DialOK, Entries
  <2>3. SharedType'
    BY <1>s, <1>h, <2>1, <2>2 DEF SharedType
  <2>4. r.pc = "store"
    BY <2>1
  <2>5. bump \in DialRecords /\ DialOK(bump) /\ bump.pc = "bump"
    BY ONLY <1>r, <2>4 DEF DialRecords, PCs, DialOK
  <2> HIDE DEF bump
  <2> QED BY <1>r, <2>1, <2>3, <2>5, DialQuietStep
<1>4. CASE ClearPending(c)
  <2> DEFINE failed == [r EXCEPT !.pc = "hostFailed"]
  <2>1. /\ r.pc = "clear" /\ slots' = slots /\ UNCHANGED <<addrs, addrIdx, tcpAddrs, made>>
        /\ Becomes(c, failed)
    BY <1>r, <1>4 DEF ClearPending, Goto
  <2>2. entry' = IF e # NoEntry THEN [entry EXCEPT ![e].pending = FALSE] ELSE entry
    BY <1>r, <1>e, <1>4 DEF ClearPending
  <2>3. SharedType'
    <3>1. entry' \in [Entries -> EntryRecords]
      BY <1>s, <1>e, <2>2, EntryUpdates DEF SharedType
    <3> QED BY <1>s, <2>1, <3>1 DEF SharedType
  <2>4. r.pc = "clear"
    BY <2>1
  <2>5. failed \in DialRecords /\ DialOK(failed) /\ failed.pc = "hostFailed"
    BY ONLY <1>r, <2>4 DEF DialRecords, PCs, DialOK
  <2> HIDE DEF failed
  <2> QED BY <1>r, <2>1, <2>3, <2>5, DialQuietStep
<1>5. CASE BumpIdx(c)
  <2>1. r.pc = "bump" /\ r.e \in Entries
    BY <1>r, <1>5 DEF BumpIdx, DialOK
  <2>2. PICK i \in Nat : i = (entry[r.e].idx + 1) % IdxMod
    BY <1>s, <2>1, DialerAssumption DEF SharedType, EntryRecords
  <2>l. PICK n \in Nat : n = Len(IPs) /\ n > 0
    BY DialConstants
  <2> DEFINE try == [r EXCEPT !.pc = "try", !.e = NoEntry, !.idx = i, !.n = n]
  <2>3. /\ slots' = slots /\ UNCHANGED <<addrs, addrIdx, tcpAddrs, made>>
        /\ entry' = [entry EXCEPT ![r.e].idx = i] /\ Becomes(c, try)
    BY <1>r, <1>5, <2>2, <2>l DEF BumpIdx
  <2>4. SharedType'
    <3>1. entry' \in [Entries -> EntryRecords]
      BY <1>s, <2>1, <2>2, <2>3, EntryUpdates DEF SharedType
    <3> QED BY <1>s, <2>3, <3>1 DEF SharedType
  <2>5. try \in DialRecords /\ DialOK(try) /\ try.pc = "try"
    BY ONLY <1>r, <2>1, <2>2, <2>l DEF DialRecords, PCs, DialOK, NoEntry
  <2> HIDE DEF try
  <2> QED BY <1>r, <2>1, <2>3, <2>4, <2>5, DialQuietStep
<1> QED BY <1>1, <1>2, <1>3, <1>4, <1>5

LEMMA SlotSteps ==
    ASSUME DialInv, NEW c \in Dials,
           TryDial(c) \/ DialDone(c) \/ DialExhausted(c)
    PROVE  DialInv'
<1>r. PICK r \in DialRecords : r = dial[c] /\ DialOK(r)
  BY DEF DialInv, DialTypeOK
<1>s. SharedType /\ slots \in Int
  BY DEF DialInv, DialTypeOK
<1> USE DEF At, hostVars, cacheVars
<1>1. SharedType'
  BY <1>s DEF SharedType, TryDial, DialDone, DialExhausted
<1> DEFINE failed == [r EXCEPT !.pc = "hostFailed"]
<1>2. r.pc \in {"try", "dial", "exhausted"} =>
         failed \in DialRecords /\ DialOK(failed) /\ failed.pc = "hostFailed"
  BY ONLY <1>r DEF DialRecords, PCs, DialOK
<1>3. CASE TryDial(c)
  <2> DEFINE takes == [r EXCEPT !.pc = "dial"]
  <2>1. r.pc = "try"
    BY <1>r, <1>3 DEF TryDial
  <2>2. \/ slots' = slots + 1 /\ Becomes(c, takes)
        \/ slots' = slots /\ Becomes(c, failed)
    BY <1>r, <1>3 DEF TryDial, Goto
  <2>3. takes \in DialRecords /\ DialOK(takes) /\ takes.pc = "dial"
    BY ONLY <1>r, <2>1 DEF DialRecords, PCs, DialOK
  <2> HIDE DEF takes, failed
  <2>4. CASE slots' = slots + 1 /\ Becomes(c, takes)
    <3>1. slots' = slots + (IF takes.pc = "dial" THEN 1 ELSE 0) - (IF dial[c].pc = "dial" THEN 1 ELSE 0)
      BY <1>r, <1>s, <2>1, <2>3, <2>4
    <3> QED BY <1>1, <2>3, <2>4, <3>1, DialCallStep
  <2>5. CASE slots' = slots /\ Becomes(c, failed)
    BY <1>r, <1>1, <1>2, <2>1, <2>5, DialQuietStep
  <2> QED BY <2>2, <2>4, <2>5
<1>4. CASE DialDone(c)
  <2> DEFINE conn == [r EXCEPT !.pc = "conn", !.open = TRUE]
             again == [r EXCEPT !.pc = IF r.n = 1 THEN "exhausted" ELSE "try",
                                !.idx = (@ + 1) % IdxMod, !.n = @ - 1]
  <2>1. r.pc = "dial"
    BY <1>r, <1>4 DEF DialDone
  <2>2. slots' = slots - 1 /\ (Becomes(c, conn) \/ Becomes(c, failed) \/ Becomes(c, again))
    BY <1>r, <1>4 DEF DialDone, Goto
  <2>3. conn \in DialRecords /\ DialOK(conn) /\ conn.pc # "dial"
    BY ONLY <1>r, <2>1 DEF DialRecords, PCs, DialOK
  <2>4. again \in DialRecords /\ DialOK(again) /\ again.pc # "dial"
    <3>1. r.n \in Nat /\ r.n > 0 /\ r.idx \in Nat
      BY ONLY <1>r, <2>1 DEF DialRecords, DialOK
    <3>2. PICK i \in Nat : i = (r.idx + 1) % IdxMod
      BY <3>1, DialerAssumption
    <3>3. PICK n \in Nat : n = r.n - 1 /\ (r.n # 1 => n > 0)
      BY <3>1
    <3>4. PICK p \in {"exhausted", "try"} : p = IF r.n = 1 THEN "exhausted" ELSE "try"
      OBVIOUS
    <3>5. again = [r EXCEPT !.pc = p, !.idx = i, !.n = n]
      BY <3>2, <3>3, <3>4
    <3> HIDE DEF again
    <3> QED BY ONLY <1>r, <2>1, <3>3, <3>4, <3>5, i \in Nat DEF DialRecords, PCs, DialOK
  <2> HIDE DEF conn, again, failed
  <2>5. ASSUME NEW new \in DialRecords, DialOK(new), new.pc # "dial", Becomes(c, new)
        PROVE  DialInv'
    <3>1. slots' = slots + (IF new.pc = "dial" THEN 1 ELSE 0) - (IF dial[c].pc = "dial" THEN 1 ELSE 0)
      BY <1>r, <1>s, <2>1, <2>2, <2>5
    <3> QED BY <1>1, <2>5, <3>1, DialCallStep
  <2> QED BY <1>2, <2>1, <2>2, <2>3, <2>4, <2>5
<1>5. CASE DialExhausted(c)
  <2>1. r.pc = "exhausted" /\ slots' = slots /\ Becomes(c, failed)
    BY <1>r, <1>5 DEF DialExhausted, Goto
  <2> HIDE DEF failed
  <2> QED BY <1>r, <1>1, <1>2, <2>1, DialQuietStep
<1> QED BY <1>3, <1>4, <1>5

LEMMA HandshakeSteps ==
    ASSUME DialInv, NEW c \in Dials,
           \/ DialAddr(c) \/ HandshakeDone(c) \/ HandshakeResult(c)
           \/ HandshakeTimeout(c) \/ HandshakeEnd(c)
    PROVE  DialInv'
<1>r. PICK r \in DialRecords : r = dial[c] /\ DialOK(r)
  BY DEF DialInv, DialTypeOK
<1> USE DEF At, hostVars, cacheVars
<1>1. SharedType' /\ slots' = slots
  BY DEF DialInv, DialTypeOK, SharedType, DialAddr, HandshakeDone, HandshakeResult,
         HandshakeTimeout, HandshakeEnd
<1>2. ASSUME NEW new \in DialRecords, DialOK(new), Becomes(c, new),
             r.pc \in {"conn", "handshake", "handshakeEnd"},
             new.pc \in {"dialed", "handshake", "hostFailed", "handshakeEnd"}
      PROVE  DialInv'
  BY <1>r, <1>1, <1>2, DialQuietStep
<1>3. CASE DialAddr(c)
  <2> DEFINE dialed == [r EXCEPT !.pc = "dialed"]
             tls == [r EXCEPT !.pc = "handshake", !.hs = "run"]
  <2>1. r.pc = "conn"
    BY <1>r, <1>3 DEF DialAddr
  <2>2. Becomes(c, dialed) \/ Becomes(c, tls)
    BY <1>r, <1>3 DEF DialAddr, Goto
  <2>3. dialed \in DialRecords /\ DialOK(dialed) /\ dialed.pc = "dialed"
    BY ONLY <1>r, <2>1 DEF DialRecords, PCs, DialOK
  <2>4. tls \in DialRecords /\ DialOK(tls) /\ tls.pc = "handshake"
    BY ONLY <1>r, <2>1 DEF DialRecords, PCs, DialOK
  <2> HIDE DEF dialed, tls
  <2> QED BY <1>2, <2>1, <2>2, <2>3, <2>4
<1>4. CASE HandshakeDone(c)
  <2>1. r.hs = "run"
    BY <1>r, <1>4 DEF HandshakeDone
  <2>2. PICK h \in {"nil", "err"} : Becomes(c, [r EXCEPT !.hs = h])
    BY <1>r, <1>4 DEF HandshakeDone
  <2> DEFINE new == [r EXCEPT !.hs = h]
  <2>3. r.pc \in {"handshake", "handshakeEnd"}
    BY <1>r, <2>1 DEF DialOK
  <2>4. new \in DialRecords /\ DialOK(new) /\ new.pc \in {"handshake", "handshakeEnd"}
    BY ONLY <1>r, <2>1, <2>3, h \in {"nil", "err"} DEF DialRecords, PCs, DialOK
  <2> HIDE DEF new
  <2> QED BY <1>2, <2>2, <2>3, <2>4 DEF new
<1>5. CASE HandshakeResult(c)
  <2> DEFINE dialed == [r EXCEPT !.pc = "dialed", !.hs = "off"]
             failed == [r EXCEPT !.pc = "hostFailed", !.hs = "off", !.open = FALSE]
  <2>1. r.pc = "handshake"
    BY <1>r, <1>5 DEF HandshakeResult
  <2>2. Becomes(c, dialed) \/ Becomes(c, failed)
    BY <1>r, <1>5 DEF HandshakeResult
  <2>3. dialed \in DialRecords /\ DialOK(dialed) /\ dialed.pc = "dialed"
    BY ONLY <1>r, <2>1 DEF DialRecords, PCs, DialOK
  <2>4. failed \in DialRecords /\ DialOK(failed) /\ failed.pc = "hostFailed"
    BY ONLY <1>r, <2>1 DEF DialRecords, PCs, DialOK
  <2> HIDE DEF dialed, failed
  <2> QED BY <1>2, <2>1, <2>2, <2>3, <2>4
<1>6. CASE HandshakeTimeout(c)
  <2> DEFINE new == [r EXCEPT !.pc = "handshakeEnd", !.open = FALSE]
  <2>1. r.pc = "handshake"
    BY <1>r, <1>6 DEF HandshakeTimeout
  <2>2. Becomes(c, new)
    BY <1>r, <1>6 DEF HandshakeTimeout
  <2>3. new \in DialRecords /\ DialOK(new) /\ new.pc = "handshakeEnd"
    BY ONLY <1>r, <2>1 DEF DialRecords, PCs, DialOK
  <2> HIDE DEF new
  <2> QED BY <1>2, <2>1, <2>2, <2>3
<1>7. CASE HandshakeEnd(c)
  <2> DEFINE new == [r EXCEPT !.pc = "hostFailed", !.hs = "off"]
  <2>1. r.pc = "handshakeEnd"
    BY <1>r, <1>7 DEF HandshakeEnd
  <2>2. Becomes(c, new)
    BY <1>r, <1>7 DEF HandshakeEnd
  <2>3. new \in DialRecords /\ DialOK(new) /\ new.pc = "hostFailed"
    BY ONLY <1>r, <2>1 DEF DialRecords, PCs, DialOK
  <2> HIDE DEF new
  <2> QED BY <1>2, <2>1, <2>2, <2>3
<1> QED BY <1>3, <1>4, <1>5, <1>6, <1>7

\* Time and the cleaning of the cache touch no call.
LEMMA CacheAges ==
    ASSUME DialInv, (\E e \in Entries : Age(e)) \/ TCPAddrsClean
    PROVE  DialInv'
<1>1. UNCHANGED <<addrs, addrIdx, made, slots, dial>>
  BY DEF Age, TCPAddrsClean, hostVars
<1>2. entry' \in [Entries -> EntryRecords]
  <2>1. CASE \E e \in Entries : Age(e)
    <3>1. PICK e \in Entries : entry' = [entry EXCEPT ![e].age = @ + 1]
      BY <2>1 DEF Age
    <3> QED BY <3>1, EntryUpdates DEF DialInv, DialTypeOK, SharedType
  <2>2. CASE TCPAddrsClean
    BY <2>2 DEF TCPAddrsClean, DialInv, DialTypeOK, SharedType
  <2> QED BY <2>1, <2>2
<1>3. tcpAddrs' \in [Hosts -> 0..MaxEntries]
  <2>1. CASE \E e \in Entries : Age(e)
    BY <2>1 DEF Age, DialInv, DialTypeOK, SharedType
  <2>2. CASE TCPAddrsClean
    BY <2>2, DialerAssumption DEF TCPAddrsClean, DialInv, DialTypeOK, SharedType, NoEntry
  <2> QED BY <2>1, <2>2
<1>4. DialTypeOK'
  BY <1>1, <1>2, <1>3 DEF DialInv, DialTypeOK, SharedType
<1>5. Dialing' = Dialing
  BY <1>1 DEF Dialing
<1> QED BY <1>1, <1>4, <1>5 DEF DialInv

LEMMA DialInvNext == DialInv /\ [DialNext]_dialVars => DialInv'
<1> SUFFICES ASSUME DialInv, [DialNext]_dialVars PROVE DialInv'
  OBVIOUS
<1>1. CASE \E c \in Dials : DialStep(c) \/ HandshakeDone(c)
  BY <1>1, HostSteps, CacheSteps, SlotSteps, HandshakeSteps DEF DialStep
<1>2. CASE (\E e \in Entries : Age(e)) \/ TCPAddrsClean
  BY <1>2, CacheAges
<1>3. CASE UNCHANGED dialVars
  BY <1>3 DEF dialVars, DialInv, DialTypeOK, SharedType, Dialing
<1> QED BY <1>1, <1>2, <1>3 DEF DialNext

\* DialInv is an invariant of the specification.
LEMMA DialInvHolds == DialSpec => []DialInv
BY DialInvInit, DialInvNext, PTL DEF DialSpec

\* A call of dialHostHard that has returned holds no slot of concurrencyCh, has its
\* connection open exactly if it returned one, and has left no handshake goroutine
\* behind, whatever the number of calls, hosts and addresses.
THEOREM DialCleansUpCorrect == DialSpec => []DialCleansUp
<1>1. DialInv => DialCleansUp
  BY DEF DialInv, Dialing, DialOK, DialCleansUp, Ended
<1> QED BY <1>1, DialInvHolds, PTL

\* tryDial is called with addrs[idx%n] only while there is an address left, and
\* getTCPAddrs uses only entries that were made.
THEOREM DialInRange == DialSpec => [](EntryInRange /\ AddrsLeft)
<1>1. DialInv => EntryInRange /\ AddrsLeft
  BY DEF DialInv, DialOK, EntryInRange, AddrsLeft
<1> QED BY <1>1, DialInvHolds, PTL
=============================================================================
