------------------------------ MODULE TCPDialer ------------------------------
(***************************************************************************)
(* tcpdialer.go, and the dialing of a HostClient in client.go: a call      *)
(* dials the hosts of the HostClient in turn (dialHostHard), each through  *)
(* the dialer's cache of resolved addresses and its limit on concurrent    *)
(* dials, and does the TLS handshake in a goroutine.  Deadlines pass at    *)
(* any time.                                                               *)
(***************************************************************************)
EXTENDS Naturals, Sequences, FiniteSets, SequencesExt

CONSTANTS
    Dials,
    Addrs,          \* c.addrs: the hosts of HostClient.Addr, in order
    IPs,            \* what the resolver answers: a sequence of TCP addresses
    Concurrency,    \* d.Concurrency
    IdxMod,         \* 2^32 in the code: addrsIdx and addrIdx wrap
    MaxEntries      \* bound: tcpAddrEntries made

ASSUME DialerAssumption ==
    /\ IsFiniteSet(Dials)
    /\ Addrs \in Seq(ToSet(Addrs)) /\ Addrs # <<>> /\ IPs \in Seq(ToSet(IPs)) /\ IPs # <<>>
    /\ Concurrency \in Nat \ {0} /\ IdxMod \in Nat \ {0} /\ MaxEntries \in Nat

Hosts == ToSet(Addrs)
Entries == 1 .. MaxEntries
NoEntry == 0

VARIABLES
    addrs, addrIdx,     \* of the HostClient; addrs is set by the first nextAddr
    tcpAddrs,           \* d.tcpAddrsMap
    entry,              \* each tcpAddrEntry: addrsIdx, pending, age
    made,               \* entries made so far
    slots,              \* tokens in d.concurrencyCh
    dial                \* each call

dialVars == <<addrs, addrIdx, tcpAddrs, entry, made, slots, dial>>

NewCall == [pc |-> "start", hosts |-> 0, host |-> Head(Addrs), e |-> NoEntry,
            n |-> 0, idx |-> 0, open |-> FALSE, hs |-> "off"]

DialInit ==
    /\ addrs = <<>> /\ addrIdx = 0
    /\ tcpAddrs = [h \in Hosts |-> NoEntry]
    /\ entry = [e \in Entries |-> [idx |-> 0, pending |-> FALSE, age |-> 0]]
    /\ made = 0 /\ slots = 0
    /\ dial = [c \in Dials |-> NewCall]

At(c, pc) == dial[c].pc = pc
Becomes(c, new) == dial' = [dial EXCEPT ![c] = new]
Goto(c, pc) == Becomes(c, [dial[c] EXCEPT !.pc = pc])
hostVars == <<addrs, addrIdx>>
cacheVars == <<tcpAddrs, entry, made>>

-----------------------------------------------------------------------------
(* HostClient.dialHostHard *)

\* n := len(c.addrs), or 1 before the first nextAddr.
DialHostHard(c) ==
    /\ At(c, "start")
    /\ Becomes(c, [dial[c] EXCEPT !.pc = "next",
                                   !.hosts = IF addrs = <<>> THEN 1 ELSE Len(addrs)])
    /\ UNCHANGED <<hostVars, cacheVars, slots>>

\* nextAddr, in a critical section.
NextAddr(c) ==
    /\ At(c, "next")
    /\ addrs' = Addrs
    /\ Becomes(c, [dial[c] EXCEPT !.pc = "get", !.host = Addrs[1 + (addrIdx % Len(Addrs))]])
    /\ addrIdx' = IF Len(Addrs) > 1 THEN (addrIdx + 1) % IdxMod ELSE addrIdx
    /\ UNCHANGED <<cacheVars, slots>>

\* dialAddr failed: the next host, unless the deadline passed or there is none.
HostFailed(c) ==
    /\ At(c, "hostFailed")
    /\ \/ dial[c].hosts > 1 /\ Becomes(c, [dial[c] EXCEPT !.pc = "next", !.hosts = @ - 1])
       \/ Goto(c, "failed")
    /\ UNCHANGED <<hostVars, cacheVars, slots>>

-----------------------------------------------------------------------------
(* TCPDialer.getTCPAddrs *)

\* The look into the cache.  Exactly one call is sent to refresh an old entry;
\* the others go on using it.
GetTCPAddrs(c) ==
    /\ At(c, "get")
    /\ LET e == tcpAddrs[dial[c].host] IN
       \/ /\ e = NoEntry
          /\ Goto(c, "resolve") /\ UNCHANGED entry
       \/ /\ e # NoEntry /\ entry[e].age > 0 /\ ~entry[e].pending
          /\ entry' = [entry EXCEPT ![e].pending = TRUE]
          /\ Goto(c, "resolve")
       \/ /\ e # NoEntry /\ ~(entry[e].age > 0 /\ ~entry[e].pending)
          /\ Becomes(c, [dial[c] EXCEPT !.pc = "bump", !.e = e]) /\ UNCHANGED entry
    /\ UNCHANGED <<hostVars, tcpAddrs, made, slots>>

\* resolveTCPAddrs: an answer, or an error (no entries of the right kind included).
Resolve(c) ==
    /\ At(c, "resolve")
    /\ \/ /\ made < MaxEntries
          /\ made' = made + 1
          /\ Becomes(c, [dial[c] EXCEPT !.pc = "store", !.e = made + 1])
       \/ Goto(c, "clear") /\ UNCHANGED made
    /\ UNCHANGED <<hostVars, tcpAddrs, entry, slots>>

StoreEntry(c) ==
    /\ At(c, "store")
    /\ tcpAddrs' = [tcpAddrs EXCEPT ![dial[c].host] = dial[c].e]
    /\ Goto(c, "bump")
    /\ UNCHANGED <<hostVars, entry, made, slots>>

\* After an error whatever entry is there now may be refreshed again.
ClearPending(c) ==
    /\ At(c, "clear")
    /\ LET e == tcpAddrs[dial[c].host] IN
       entry' = IF e # NoEntry THEN [entry EXCEPT ![e].pending = FALSE] ELSE entry
    /\ Goto(c, "hostFailed")
    /\ UNCHANGED <<hostVars, tcpAddrs, made, slots>>

\* idx := atomic.AddUint32(&e.addrsIdx, 1), outside the lock.
BumpIdx(c) ==
    /\ At(c, "bump")
    /\ LET i == (entry[dial[c].e].idx + 1) % IdxMod IN
       /\ entry' = [entry EXCEPT ![dial[c].e].idx = i]
       /\ Becomes(c, [dial[c] EXCEPT !.pc = "try", !.e = NoEntry, !.idx = i, !.n = Len(IPs)])
    /\ UNCHANGED <<hostVars, tcpAddrs, made, slots>>

-----------------------------------------------------------------------------
(* TCPDialer.dial and tryDial *)

\* A slot of concurrencyCh, or the deadline while there is none.
TryDial(c) ==
    /\ At(c, "try")
    /\ \/ /\ slots < Concurrency
          /\ slots' = slots + 1
          /\ Goto(c, "dial")
       \/ Goto(c, "hostFailed") /\ UNCHANGED slots
    /\ UNCHANGED <<hostVars, cacheVars>>

\* A connection, ErrDialTimeout, which ends the dial, or an error, after which
\* idx++ and n-- choose the next address; the slot is free again in any case.
DialDone(c) ==
    /\ At(c, "dial")
    /\ slots' = slots - 1
    /\ \/ Becomes(c, [dial[c] EXCEPT !.pc = "conn", !.open = TRUE])
       \/ Goto(c, "hostFailed")
       \/ Becomes(c, [dial[c] EXCEPT !.pc = IF dial[c].n = 1 THEN "exhausted" ELSE "try",
                                      !.idx = (@ + 1) % IdxMod, !.n = @ - 1])
    /\ UNCHANGED <<hostVars, cacheVars>>

\* dial returns the last error when every attempt has failed.
DialExhausted(c) ==
    /\ At(c, "exhausted")
    /\ Goto(c, "hostFailed")
    /\ UNCHANGED <<hostVars, cacheVars, slots>>

-----------------------------------------------------------------------------
(* dialAddr and tlsClientHandshake *)

\* Without TLS, or with no timeout, the connection is returned as it is;
\* otherwise a goroutine does the handshake.
DialAddr(c) ==
    /\ At(c, "conn")
    /\ Goto(c, "dialed") \/ Becomes(c, [dial[c] EXCEPT !.pc = "handshake", !.hs = "run"])
    /\ UNCHANGED <<hostVars, cacheVars, slots>>

\* conn.Handshake returns; it must once the raw connection is closed.
HandshakeDone(c) ==
    /\ dial[c].hs = "run"
    /\ \/ dial[c].open /\ Becomes(c, [dial[c] EXCEPT !.hs = "nil"])
       \/ Becomes(c, [dial[c] EXCEPT !.hs = "err"])
    /\ UNCHANGED <<hostVars, cacheVars, slots>>

\* err := <-ch
HandshakeResult(c) ==
    /\ At(c, "handshake")
    /\ \/ dial[c].hs = "nil" /\ Becomes(c, [dial[c] EXCEPT !.pc = "dialed", !.hs = "off"])
       \/ /\ dial[c].hs = "err"
          /\ Becomes(c, [dial[c] EXCEPT !.pc = "hostFailed", !.hs = "off", !.open = FALSE])
    /\ UNCHANGED <<hostVars, cacheVars, slots>>

\* Mutant of HandshakeTimeout: the goroutine is not waited for.
HandshakeTimeoutReturns(c) ==
    /\ At(c, "handshake")
    /\ Becomes(c, [dial[c] EXCEPT !.pc = "hostFailed", !.open = FALSE])
    /\ UNCHANGED <<hostVars, cacheVars, slots>>

\* Mutant of HandshakeTimeout: the goroutine is waited for before the connection is closed.
HandshakeTimeoutWaits(c) ==
    /\ At(c, "handshake") /\ dial[c].hs \in {"nil", "err"}
    /\ Becomes(c, [dial[c] EXCEPT !.pc = "handshakeEnd", !.open = FALSE])
    /\ UNCHANGED <<hostVars, cacheVars, slots>>

\* <-tc.C: the raw connection is closed and the goroutine waited for.
HandshakeTimeout(c) ==
    /\ At(c, "handshake")
    /\ Becomes(c, [dial[c] EXCEPT !.pc = "handshakeEnd", !.open = FALSE])
    /\ UNCHANGED <<hostVars, cacheVars, slots>>

HandshakeEnd(c) ==
    /\ At(c, "handshakeEnd") /\ dial[c].hs \in {"nil", "err"}
    /\ Becomes(c, [dial[c] EXCEPT !.pc = "hostFailed", !.hs = "off"])
    /\ UNCHANGED <<hostVars, cacheVars, slots>>

-----------------------------------------------------------------------------
(* Time: an entry is older than DNSCacheDuration, then than twice that. *)
Age(e) ==
    /\ e <= made /\ entry[e].age < 2
    /\ entry' = [entry EXCEPT ![e].age = @ + 1]
    /\ UNCHANGED <<hostVars, tcpAddrs, made, slots, dial>>

TCPAddrsClean ==
    /\ \E h \in Hosts : tcpAddrs[h] # NoEntry /\ entry[tcpAddrs[h]].age = 2
    /\ tcpAddrs' = [h \in Hosts |-> LET e == tcpAddrs[h] IN
                       IF e # NoEntry /\ entry[e].age = 2 THEN NoEntry ELSE e]
    /\ UNCHANGED <<hostVars, entry, made, slots, dial>>

-----------------------------------------------------------------------------
DialStep(c) ==
    \/ DialHostHard(c) \/ NextAddr(c) \/ HostFailed(c) \/ GetTCPAddrs(c) \/ Resolve(c)
    \/ StoreEntry(c) \/ ClearPending(c) \/ BumpIdx(c) \/ TryDial(c) \/ DialDone(c)
    \/ DialExhausted(c) \/ DialAddr(c) \/ HandshakeResult(c)
    \/ HandshakeTimeout(c) \/ HandshakeEnd(c)

DialNext ==
    \/ \E c \in Dials : DialStep(c) \/ HandshakeDone(c)
    \/ \E e \in Entries : Age(e)
    \/ TCPAddrsClean

\* The resolver answers and the deadline of a dial ends it; a handshake may last
\* forever until its connection is closed.
DialFairness ==
    \A c \in Dials :
        WF_dialVars(DialStep(c)) /\ WF_dialVars(~dial[c].open /\ HandshakeDone(c))

DialSpec == DialInit /\ [][DialNext]_dialVars /\ DialFairness

-----------------------------------------------------------------------------
Ended(c) == dial[c].pc \in {"dialed", "failed"}

\* A call that has returned holds no slot of concurrencyCh; if it failed, no
\* connection it made is open; and no goroutine of it may still send on a channel
\* that is back in timeoutErrorChPool.
DialCleansUp ==
    /\ slots = Cardinality({c \in Dials : dial[c].pc = "dial"})
    /\ \A c \in Dials : Ended(c) => dial[c].hs = "off" /\ (dial[c].open <=> dial[c].pc = "dialed")

\* Every dial returns.
DialReturns == \A c \in Dials : <>Ended(c)

=============================================================================
