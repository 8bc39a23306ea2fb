------------------------------ MODULE ClientMap ------------------------------
(***************************************************************************)
(* client.go: the map from hosts to HostClients of a Client (c.m; c.ms is  *)
(* another one, for TLS) and the goroutine that removes HostClients        *)
(* without connections.  A HostClient is reduced to its counts of idle and *)
(* busy connections; HostClientPool has the detail.                        *)
(***************************************************************************)
EXTENDS Naturals, FiniteSets

CONSTANTS
    Hosts, Calls,
    MaxConnsPerHost,    \* c.MaxConnsPerHost
    MaxHostClients,     \* bound: how many HostClients are created
    MaxRedirects,       \* maxRedirectsCount
    None

ASSUME ClientMapAssumption ==
    /\ MaxConnsPerHost \in Nat \ {0} /\ MaxHostClients \in Nat /\ MaxRedirects \in Nat
    /\ None \notin Nat

HostClients == 1..MaxHostClients

VARIABLES
    m,              \* c.m
    created,        \* how many HostClients were created
    addr,           \* the host of each HostClient
    idle, busy,     \* its connections; together they are its connsCount
    cleaners,       \* how many goroutines run mCleaner
    pc, hc,         \* each call's pc and HostClient
    redirectsCount  \* the redirects it has followed

hcVars == <<created, addr, idle, busy>>
vars == <<m, hcVars, cleaners, pc, hc, redirectsCount>>

Init ==
    /\ m = [h \in Hosts |-> None]
    /\ created = 0 /\ addr = [x \in HostClients |-> None]
    /\ idle = [x \in HostClients |-> 0] /\ busy = [x \in HostClients |-> 0]
    /\ cleaners = 0
    /\ pc = [k \in Calls |-> "start"] /\ hc = [k \in Calls |-> None]
    /\ redirectsCount = [k \in Calls |-> 0]

connsCount(x) == idle[x] + busy[x]

Entries(map) == {h \in Hosts : map[h] # None}

\* Client.Do, the critical section: the host is known,
DoKnown(k, h) ==
    /\ pc[k] = "start" /\ m[h] # None
    /\ hc' = [hc EXCEPT ![k] = m[h]]
    /\ pc' = [pc EXCEPT ![k] = "acquire"]
    /\ UNCHANGED <<m, hcVars, cleaners, redirectsCount>>

\* or it is new, and the first entry of the map starts the cleaner.
DoNew(k, h) ==
    /\ pc[k] = "start" /\ m[h] = None /\ created < MaxHostClients
    /\ created' = created + 1
    /\ addr' = [addr EXCEPT ![created + 1] = h]
    /\ m' = [m EXCEPT ![h] = created + 1]
    /\ cleaners' = IF Cardinality(Entries(m')) = 1 THEN cleaners + 1 ELSE cleaners
    /\ hc' = [hc EXCEPT ![k] = created + 1]
    /\ pc' = [pc EXCEPT ![k] = "acquire"]
    /\ UNCHANGED <<idle, busy, redirectsCount>>

\* hc.Do: an idle connection, a new one, or ErrNoFreeConns.
AcquireIdle(k) ==
    /\ pc[k] = "acquire" /\ idle[hc[k]] > 0
    /\ idle' = [idle EXCEPT ![hc[k]] = @ - 1]
    /\ busy' = [busy EXCEPT ![hc[k]] = @ + 1]
    /\ pc' = [pc EXCEPT ![k] = "use"]
    /\ UNCHANGED <<m, created, addr, cleaners, hc, redirectsCount>>

AcquireNew(k) ==
    /\ pc[k] = "acquire" /\ idle[hc[k]] = 0
    /\ connsCount(hc[k]) < MaxConnsPerHost
    /\ busy' = [busy EXCEPT ![hc[k]] = @ + 1]
    /\ pc' = [pc EXCEPT ![k] = "use"]
    /\ UNCHANGED <<m, created, addr, idle, cleaners, hc, redirectsCount>>

AcquireFail(k) ==
    /\ pc[k] = "acquire" /\ idle[hc[k]] = 0
    /\ connsCount(hc[k]) >= MaxConnsPerHost
    /\ pc' = [pc EXCEPT ![k] = "done"]
    /\ UNCHANGED <<m, hcVars, cleaners, hc, redirectsCount>>

\* The call ends with an error, before the map is looked at.
DoInvalid(k) ==
    /\ pc[k] = "start"
    /\ pc' = [pc EXCEPT ![k] = "done"]
    /\ UNCHANGED <<m, hcVars, cleaners, hc, redirectsCount>>

\* The connection is released or closed; the response may be a redirect.
Finish(k) ==
    /\ pc[k] = "use"
    /\ busy' = [busy EXCEPT ![hc[k]] = @ - 1]
    /\ idle' = [idle EXCEPT ![hc[k]] = @ + 1] \/ UNCHANGED idle
    /\ \E next \in {"done", "redirect"} : pc' = [pc EXCEPT ![k] = next]
    /\ UNCHANGED <<m, created, addr, cleaners, hc, redirectsCount>>

\* doRequestFollowRedirects: Do once more, with another URL, unless there have been too
\* many redirects or there is no Location.
FollowRedirect(k) ==
    /\ pc[k] = "redirect"
    /\ redirectsCount' = [redirectsCount EXCEPT ![k] = @ + 1]
    /\ \E next \in {"start", "done"} :
          /\ redirectsCount'[k] > MaxRedirects => next = "done"
          /\ pc' = [pc EXCEPT ![k] = next]
    /\ UNCHANGED <<m, hcVars, cleaners, hc>>

\* connsCleaner or CloseIdleConnections closes an idle connection.
CloseIdle(x) ==
    /\ idle[x] > 0
    /\ idle' = [idle EXCEPT ![x] = @ - 1]
    /\ UNCHANGED <<m, created, addr, busy, cleaners, pc, hc, redirectsCount>>

\* One pass of mCleaner under c.mLock.
Kept == [h \in Hosts |-> IF m[h] # None /\ connsCount(m[h]) = 0 THEN None ELSE m[h]]

\* Mutant of mCleaner: it stops when a pass removes nothing.
mCleanerGivesUp ==
    /\ cleaners > 0
    /\ m' = Kept
    /\ cleaners' = IF m' = m \/ Entries(m') = {} THEN cleaners - 1 ELSE cleaners
    /\ UNCHANGED <<hcVars, pc, hc, redirectsCount>>

mCleaner ==
    /\ cleaners > 0
    /\ m' = Kept
    /\ cleaners' = IF Entries(m') = {} THEN cleaners - 1 ELSE cleaners
    /\ UNCHANGED <<hcVars, pc, hc, redirectsCount>>

Idle == (\A k \in Calls : pc[k] = "done") /\ Entries(m) = {} /\ UNCHANGED vars

Next ==
    \/ \E k \in Calls :
          \/ \E h \in Hosts : DoKnown(k, h) \/ DoNew(k, h)
          \/ AcquireIdle(k) \/ AcquireNew(k) \/ AcquireFail(k) \/ Finish(k)
          \/ DoInvalid(k) \/ FollowRedirect(k)
    \/ \E x \in HostClients : CloseIdle(x)
    \/ mCleaner
    \/ Idle

\* Calls that started go on; idle connections are closed in the end and the cleaner
\* wakes up again and again.
Fairness ==
    /\ \A k \in Calls :
          WF_vars(AcquireIdle(k) \/ AcquireNew(k) \/ AcquireFail(k) \/ Finish(k)
                  \/ FollowRedirect(k))
    /\ \A x \in HostClients : WF_vars(CloseIdle(x))
    /\ WF_vars(mCleaner)

Spec == Init /\ [][Next]_vars /\ Fairness

-----------------------------------------------------------------------------
TypeOK ==
    /\ m \in [Hosts -> HostClients \cup {None}]
    /\ created \in 0..MaxHostClients
    /\ addr \in [HostClients -> Hosts \cup {None}]
    /\ idle \in [HostClients -> Nat] /\ busy \in [HostClients -> Nat]
    /\ cleaners \in Nat
    /\ pc \in [Calls -> {"start", "acquire", "use", "redirect", "done"}]
    /\ hc \in [Calls -> HostClients \cup {None}]
    /\ redirectsCount \in [Calls -> 0..MaxRedirects + 1]

\* HostClients that are no longer used are removed from the map.
UnusedForgotten == (\A k \in Calls : pc[k] = "done") ~> Entries(m) = {}
=============================================================================
