# justhttp in TLA+

justhttp is an HTTP server and client library in Go. This directory holds TLA+
modules that model its concurrent core and the messages it writes and reads, the TLC
configurations that check them on small instances, and TLAPS proofs about all
its concurrent components but `ClientMap`, for every instance. `PROJECT.json` maps each
definition to the lines it models and lists the runs with their mutants, the hazards and
the theorems.

    tlc -workers 2 -config MCWorkerPool.cfg WorkerPool    one run
    tlapm WorkerPoolProofs.tla                            the proofs

## 1. The system

| component | state | operations | talks to |
|---|---|---|---|
| `workerPool` (workerpool.go) | `lock`, `ready`, `workersCount`, `mustStop`, a channel per worker | `Start`, `Stop`, `Serve`, `getCh`, `release`, `workerFunc`, `clean` | called by `Server.Serve`; calls `serveConn` through `WorkerFunc` |
| `Server` (server.go, peripconn.go) | `s.ln`, `s.open`, `s.concurrency`, `s.stop`, `s.done`, per-address counters, pool of `perIPConn` | `Serve`, `ServeConn`, `Shutdown`, hijacking, the `ConnState` hook | a `workerPool` per `Serve`; `serveConn` for each connection |
| `serveConn` (server.go, http.go, streaming.go) | `br`, `bw`, `ctx`, `continueReadingRequest`, limits of the connection | the loop: peek, header, body, 100-continue, handler, response, flush | client, `Handler`, `ContinueHandler`, `HeaderReceived`, pools of readers and writers |
| `TimeoutHandler`, `ctxPool`, timer.go | `ctx.timeoutCh`, `ctx.timeoutTimer`, `s.concurrencyCh` | the wrapper of a handler, `acquireCtx`, `releaseCtx`, `initTimer`, `stopTimer` | `serveConn`, handler goroutines, the timer of the runtime |
| `HostClient` (client.go) | `conns`, `connsCount`, `connsWait`, `connsCleanerRun` | `acquireConn`, `queueForIdle`, `dialConnFor`, `releaseConn`, `closeConn`, `connsCleaner`, `CloseIdleConnections`, `SetMaxConns` | requests, waiters (`wantConn`), the dialer |
| `Client` (client.go) | `c.m` | `Do`, `mCleaner`, `CloseIdleConnections` | `HostClient`s |
| calls with a deadline (client.go) | pooled channel, mutex, `timedout`, `responded` | `clientDoDeadline`, `clientGetURLDeadline` | a goroutine per call |
| `PipelineClient` (client.go) | `chW`, `chR`, a connection, a write buffer | `Do`, `DoDeadline`, `init`, `worker`, `writer`, `reader` | calls, the server at the other end |
| `HostClient.Do` (client.go) | `pendingRequests`, attempts, `addrs` and their index | retries, `nextAddr`, `dialHostHard`, `tlsClientHandshake` | `HostClient`'s pool, `TCPDialer` |
| `LBClient` (lbclient.go) | `penalty` and `total` of each client | `get`, `DoDeadline`, `incPenalty`, `decPenalty` by timers | `HostClient.DoDeadline` |
| `TCPDialer` (tcpdialer.go) | cache of addresses, `concurrencyCh` | `dial`, `tryDial`, `getTCPAddrs`, `tcpAddrsClean` | `dialAddr`, resolver, network |
| `FS` (fs.go) | caches by encoding, `readersCount`, idle readers, file locks | `handleRequest`, `openFSFile`, `compressAndOpenFSFile`, `NewReader`, `cleanCache` | file system |
| `PipeConns`, `InmemoryListener` (fasthttputil) | a channel of pooled buffers per direction, `stopCh`; a channel of connections, `lock`, `closed` | `Read`, `Write`, `Close`; `Dial`, `Accept`, `Close` | tests and `NewStreamReader` |
| `RequestHeader`, `ResponseHeader`, `argsKV` (header.go, args.go, cookie.go) | fields of their own for the headers that frame a message, a list of pairs for the others, cookies | setters, `Del`, `VisitAll`, `AppendBytes`, `tryRead`, `parse` | `Request`, `Response` |
| `Request`, `Response` (http.go) | header, `body`, `bodyRaw`, `bodyStream`, `SkipBody`, URI, `postArgs` | setters, `CopyTo`, `Write`, `WriteGzip`, `ReadLimitBody`, `Reset` | both ends of every connection |
| `URI`, bytesconv, `userData`, `prefork`, `stackless`, stream.go | values, or one counter or queue | parsing and formatting; section 6 | |
| proxies, reuseport, TLS, pprof, tables, fuzz targets | none of their own | | |

What is hard in this code:

* goroutines that hand objects over through channels and pools: a worker and its
  sources of work, a `perIPConn` or a `RequestCtx` that others still hold when it
  goes back to its pool, a channel of `errorChPool` with an answer left in it;
* decisions taken in one critical section and used in the next (`acquireConn` and
  `queueForIdle`, `Client.Do` and `mCleaner`, the two counts of `ServeConn`);
* timeouts that race with answers (the waiters of `HostClient`, `clientDoDeadline`,
  `TimeoutHandler`, the works of a pipeline);
* buffers: who flushes, and who still refers to a buffer when it is released;
* ends: `Stop`, `Shutdown`, idle connections, cleaners that stop and start again;
* resources counted by hand: readers of a file, slots of a dialer, pending requests;
* the framing of a message, which is spread over a dozen setters that may be called in
  any order, `Write`, and a parser that begins again with every piece that arrives.

What makes each part correct is in its module under "Properties"; section 3 names them.

## 2. The modules

| module | models | EXTENDS / uses |
|---|---|---|
| `PoolSeq` | `Distinct` and `InSeq`, for lists without repetition | |
| `ConnService` | what a worker pool promises: accept, refuse, complete | |
| `WorkerPool` | workerpool.go | `PoolSeq`; implements `ConnService` |
| `Server` | server.go and peripconn.go around `serveConn` | uses the worker pool as `ConnService` describes it |
| `ServeLoop` | the loop of `serveConn` on one connection | |
| `TimeoutHandler` | `TimeoutWithCodeHandler`, `ctxPool`, timer.go | |
| `HostClientPool` | the connections of a `HostClient` | `PoolSeq` |
| `ClientMap` | `Client.m` and `mCleaner` | |
| `ClientDeadline` | `clientDoDeadline` | |
| `LBClient` | lbclient.go and the retries of `HostClient.Do` | `ClientDeadline`, whose calls and goroutines it drives |
| `PipelineConn` | `pipelineConnClient` | `PoolSeq` |
| `TCPDialer` | tcpdialer.go under `dialHostHard` and `tlsClientHandshake` | |
| `FSHandler` | fs.go | |
| `PipeConns` | pipeconns.go | |
| `InmemoryListener` | inmemory_listener.go | `PipeConns`, whose pipes it hands out |
| `Header` | header.go and args.go as operators, without state | |
| `Messages` | http.go: a message from its setters over the wire into another object | `Header` |
| `PoolLemmas` | lemmas on lists without repetition and on counting | `PoolSeq` |
| `WorkerPoolProofs`, `ServerProofs`, `HostClientPoolProofs`, `PipelineConnProofs` | the proofs (section 5) | the module they are named after, `PoolLemmas`, `TLAPS` |
| `ClientProofs` | the proofs about outgoing calls | `LBClient`, `TCPDialer`, `PoolLemmas`, `TLAPS` |
| `HandlerProofs` | the proofs about what runs under a handler | `TimeoutHandler`, `FSHandler`, `PoolLemmas`, `TLAPS` |
| `ConnProofs` | the proofs about a connection | `ServeLoop`, `InmemoryListener`, `PoolLemmas`, `TLAPS` |
| `MCServeLoop`, `MCLBClient`, `MCTCPDialer`, `MCFS`, `MCPipes`, `MCMessages` | values of constants for TLC | the module they are named after |

In all of them a goroutine is a pc; a step reaches from one point at which another
goroutine can interfere to the next (a lock, a channel operation, an atomic counter, a
call that closes or dials). A critical section of a mutex is one step when nothing in
it blocks; where something does (sends under `wp.lock` in `Stop`, the delivery in
`releaseConn`) or where another lock than the one held matters, the lock is a variable
and the section has several steps. Definitions carry the names of the code.

A setting that changes what the code does (`ReduceMemoryUsage`, `MaxConnWaitTimeout`, which
calls have a deadline...) is a field of a variable `conf` that `Init` chooses and no step
changes, so that one run covers every combination. Where the code keeps a promise only
under some settings, the property says so with a hypothesis on `conf`, and the comment on
it says what happens otherwise; section 4 lists those cases.

**WorkerPool.** A `workerChan` and its goroutine are one element of `Workers`. `ready`,
`workersCount`, `mustStop` and `lastUseTime` are the fields of the code; `box[w]` is the
content of a worker's channel, of capacity 0 or 1 as `workerChanCap` says. The acceptor
does `Serve` and `Stop` (`GetReady`, `GetNew`, `Refuse`, `SendConn`, `Stop...`); a worker
does `RecvConn`, `RecvNil`, `WorkerFunc`, `Stamp`, `Release`, `Exit`, `Put`; the cleaner
does `Clean...`, with one step per round of its binary search. Time is a clock `now`.

**Server.** Each connection has a goroutine (`cpc`), which is the acceptor until the pool
takes it, then a worker or the caller of `ServeConn`, and after hijacking a second one
(`hpc`). The counters `open`, `concurrency` and `perIP` change where the code changes
them. A connection wrapped in a `perIPConn` is reached through `wrap` and `inner`, so a
wrapper that was recycled shows another connection, or none. `Close` of a `perIPConn` is
two steps, `Close` of the connection and `Unregister`, which uncounts it and puts the
wrapper back; a refused connection is uncounted first (`Reject`) and closed when the error
response is written (`RejectClose`). The last state the `ConnState` hook was told of is
kept for each `net.Conn` the hook gets: the wrapper where there is one (`NetConn`).

**ServeLoop.** A request is two header tokens and one body token, which travel
through `net` into `br`; `conf` says whether `ReduceMemoryUsage` and `StreamRequestBody` are
set and whether the `ContinueHandler` denies; responses go through `bw` to `out`. So partial headers, several
requests in one buffer and unflushed responses occur. Whether a response was lost is a
comparison of `written`, `bw` and `out`. A body is absent, small, large (above the default
limit and above the 8 KB that are read before a stream is handed out) or chunked; a
chunked one may be cut where a chunk would begin, which is `io.EOF` to `serveConn`, or
elsewhere, which is an error (`BodyEOF`, `BodyFails`). `serveConn` calls `RequestHeader.readLoop`, which this
snapshot of the repository does not define; it is modelled as its caller uses it (one
attempt at the header, `errNeedMore` if it is incomplete).

**TimeoutHandler.** A handler runs in a goroutine of its own (`gpc`) with the
`RequestCtx` it was called with. A timer fires in two steps, because the Go runtime (of
the versions go.mod admits) makes it inactive before it sends the time.

**HostClientPool.** Actors are the requests, one dialer for each waiter, the cleaner and
a caller of `CloseIdleConnections`; `conf` says whether calls wait for a connection and
whether the server closes connections. A `wantConn` is `wres` and `wconn`. How long a
connection was idle is open: the cleaner may find any prefix expired.

**ClientMap.** `HostClient`s are reduced to counts of idle and busy connections.

**ClientDeadline.** A call of `clientDoDeadline` and its goroutine, with the mutex, the two
flags and the channel, which both return to a pool that later calls use.

**LBClient.** `get` looks at one client per step, so the loads it compares may be out of
date. The goroutine of a call runs `Do`: `DoStart` counts the request, each `DoTry` is an
attempt with any outcome of `doNonNilReqResp`, and `Again` is the decision to retry. The
call may return `ErrTimeout` long before that.

**TCPDialer.** A call goes from `dialHostHard` through `nextAddr`, the cache
(`GetTCPAddrs`, `Resolve`, `StoreEntry`, `ClearPending`, `BumpIdx`) and `tryDial` to the
handshake, which runs in a goroutine of its own. Entries age in steps; both indices are
taken modulo `IdxMod` in place of 2^32.

**FSHandler.** Requests for one path, whose kind (`conf`) is a plain or a big file, a
directory with or without a generated index, compressible or not, in a writable directory
or not. An `fsFile` is named after the request that opened it. The owner of the file may
replace it at any moment (`Publish`); the compressed copy is written to a temporary file
under the lock of its name and renamed.

**PipeConns, InmemoryListener.** A direction of a pipe is a channel of buffers from a
shared pool; `sent`, `got` and `atClose` record what was written, read, and written
before Close. `Dial`, `Accept` and `Close` step from one blocking operation to the next,
with the lock as a variable.

**Header, Messages.** A message is a record with the fields of the Go types; each setter
is an operator, and each call of one an action. On the wire a message is a sequence of
tokens: the first line, a token per header line, the empty line, chunk sizes, body bytes
and ends of line. What follows the message is one byte of the next, so reading too much
shows. The reader gets the tokens in pieces (`Arrive`), the connection may end or break
after each of them, and the header is parsed again from its first token (`tryRead`) with
each piece. Both objects are then used for another message; a request that failed is
written again (`Retry`). `want` is what the writer knows it has written.

**PipelineConn.** `c.chR` and `c.chW` are made and forgotten in pairs; `gen` is the number
of the current pair. Each `init` starts a loop, each loop has a writer, a reader and a
connection. Each work is its call's; `conf` chooses which calls have a deadline, which may
then pass at any moment, and whether a connection may be idle for `MaxIdleConnDuration`.

## 3. What the runs check

Each property has a mutant of the code (an operator next to the original, named after
the mistake) under which TLC finds it violated.

| run | properties | bounds |
|---|---|---|
| `worker_pool` | `WorkersCounted`: the count is exact and within the limit. `OneSource`: each waiting worker has exactly one source of its next message, so no two actors send to one worker. `ConnInOnePlace`: an accepted connection is with one goroutine until closed or hijacked. `SearchFindsExpired`: the binary search finds the expired workers when `ready` is sorted. `StopEndsAll`: busy workers and the cleaner end too. `ImplementsService`: refinement of `ConnService`, with its liveness | 2 workers, 3 connections, limit 2, unbuffered channels, 2 clock values |
| `server` | `IPLimitExact`: an address's counter is the number of its connections that are open or just to be uncounted, and no more than the limit are admitted at a time. `OwnWrapper`: nobody closes through a wrapper that was given to another connection. `ShutdownDrained`: when Shutdown returns no connection of a listener is in service. `HookOrder`: the order of the `ConnState`s of an accepted connection, and which of them are reported through a `perIPConn` only by its owner. `ShutdownReturns` | one accepted connection and one of `ServeConn`, one address with limit 1, concurrency 1, 2 requests each, `CloseOnShutdown` |
| `serve_loop` | `Framed`: each request is read where it begins. `NothingLost`: every response written is sent unless a write failed, Shutdown ended the loop, or the client cut a chunked body. `EveryAnswered` | 2 requests of 10 kinds (4 bodies, with and without `Expect`, and a limit raised by one without a body or with a large one), all settings |
| `timeout` | `CtxNotShared`: a late handler never shares its `RequestCtx` with a request, and no request takes another handler's answer. `TimerIdle`: `initTimer` never meets an active timer (it panics on one). `EveryAnswered`, although handlers need not return | 2 connections, 2 requests each, 3 `RequestCtx`s, concurrency 2 |
| `host_client` | `OneOwner`: each open connection has one owner. `SlotsCounted`: `connsCount` is the number of slots in use. `WaiterKnown`: a waiting call is queued, or a connection or an error is on its way. `CallsReturn` | 3 calls, the server may close on one of them, 2 connections, `MaxConns` 1 or 2 and changing |
| `client_map` | `UnusedForgotten`: `HostClient`s without connections leave the map in the end | 2 hosts, 2 calls with up to one redirect, 3 `HostClient`s |
| `client_deadline` | `OwnAnswer`, `NoAccessAfterReturn`: a call gets its own answer, and nothing of the caller is touched after `ErrTimeout`. `LoadCounted`: pending requests and penalties are exact and never below zero. `PenaltiesExpire`: calls return and clients recover | 2 calls, 2 channels, 2 clients, at most 1 penalty, 2 attempts, requests that are idempotent, not, or streamed |
| `pipeline` | `OneAnswer`: a work is with one holder until it is answered, once. `ResponseMatches`: a call gets the response to its own request. `CallsReturn` | 3 calls, one of which may have a deadline, channels of 1, one loop that dials again after a failure |
| `fs` | `ReleasedUnused`: a closed file is in no cache, on no list and with no request. `CompressedFinished`: nobody opens or has open a compressed file that is still written. `FilesReleased`: files are closed in the end | 2 requests, 2 versions of the file, 6 kinds of path |
| `pipes` | `ReadFaithful`: what is read is a prefix of what was written, and `io.EOF` comes after all that was written before Close. `DialAccepted`: Dial returns a connection that one Accept has returned. `ListenerReturns` | 2 pipes, 3 buffers, channels of 1, writes of 3 and reads of 2 bytes, one acceptor, one Close |
| `dialer` | `DialCleansUp`: a dial that has returned holds no slot, has no goroutine, and no connection if it failed. `DialReturns` | 2 calls, 2 hosts with 2 addresses each, 1 concurrent dial, indices modulo 4, 2 cache entries |
| `messages` | `Framed`: a body that the reader accepts is the one that was written, whole, and nothing behind it is consumed. `HeadersKept`: headers and cookies arrive in order, once, and both ends agree on closing. `NeverStarved`: the reader never waits for bytes that are not sent | 3 calls (setters, further messages, retries), bodies of 1 and 2 bytes, body limit 2, compression from 2, 7 pairs, 2 cookies |

`TypeOK` is no property of a run; it is proved in the modules that section 5 names, and is
for the reader in the others.

*Why the bounds are enough to be of use.* Two actors of a kind race with each other, a
third is the bystander that a mistake harms; limits are one below the number of
contenders, so that refusal, waiting and overflow occur; counters of requests allow a
second use of a pooled or reused object. Three calls on a message allow a setter, the
message and a retry, or three setters, of which the first leaves something behind, the
second covers it and the third uncovers it. The runs between them take every disjunct of
every next-state relation. `MaxTime`, `MaxRequests`, `MaxLoops`, `MaxHostClients`,
`MaxVersion`, `MaxEntries`, `MaxBytes` and `MaxCalls` are the only bounds that are not in
the code, and with the sizes of the sets of connections, calls and `RequestCtx`s they only
end behaviours early; `IdxMod` makes a wrap of the dialer's indices happen. No run uses
symmetry.

*Deadlock* is checked except in `pipeline`, `fs`, `pipes` and `dialer`. With deadlines or
with idle connections the code of a pipeline can stop with a call waiting for ever
(section 4); `CallsReturn` covers the settings in which it cannot. In the other three
everybody may simply have finished; their liveness properties say that nobody is stuck.

*Fairness.* A goroutine that can run does. In `WorkerPool` the steps that wait for
`wp.lock` are strongly fair, as `sync.Mutex` does not starve a waiter; elsewhere weak
fairness suffices. A served connection, a dial and an exchange end; timers fire. In
`Server` a read ends at the latest with a timeout, which the comment on `Shutdown` tells
users to set, and the short error response of `writeFastError`, for which the code sets no
deadline, fits the socket's buffer. `InmemoryListener` is strongly fair to those who wait for its lock, and
somebody accepts until the listener is closed. A resolver answers and a dial ends at its
deadline, but a TLS handshake may last until its connection is closed. Never assumed: that
someone connects, sends, hijacks, shuts down or closes, that a request under
`clientDoDeadline` or a handler under `TimeoutHandler` returns. `Messages` states no
fairness: `NeverStarved` says in every state whether the reader can go on.

## 4. Where the code does not do what its comments say

These were met while the properties were written. They are the reason for a hypothesis or
an exception in a property, for the absence of one, or for what an input leaves out:

| where | what happens |
|---|---|
| `workerFunc`, `clean` | `lastUseTime` is set before the lock, so `ready` may be unsorted and `clean` may stop a worker that was just used (`SearchFindsExpired` is about a sorted `ready`) |
| `acquireConn`, `queueForIdle` | a connection released between the look at the idle list and the queueing is not noticed: the waiter may time out with an idle connection there |
| `closeConn` | gives the slot up before it closes, so more than `MaxConns` are open for a moment |
| `dialConnFor` | starts no cleaner: a connection dialed for a waiter may stay idle for ever (no property says that idle connections are closed in the end) |
| `clientGetURLDeadline` | its goroutine reads into the caller's `dst`, also after `ErrTimeout` was returned |
| `pipelineConnClient.init`, `worker` | after an idle connection ended, `init` may start no other loop and calls wait for ever; two loops may share the channels and a response go to another call (`~conf.idle`) |
| `writer` of a pipeline | a request stays unflushed when the work after it had expired (`conf.deadline = {}`) |
| `ConnState` and `perIPConn` | `StateClosed`, and `StateHijacked` when the hijack handler was fast, are reported with a `perIPConn` that is back in its pool or wraps the next connection already: the hook may hear `StateNew` of a connection and then `StateClosed` of another one with the same `net.Conn` (the exception in `HookOrder`) |
| `wrapPerIPConn`, `perIPConn.Close` | the first uncounts a refused connection before it writes the error response and closes it, the second closes before it uncounts: the counter of an address is not the number of its open connections in between (`Registered` in `IPLimitExact`) |
| `ServeConn` | counts a connection twice in `s.concurrency`, and reports no `StateNew` |
| `Shutdown` | may return before the last connection is closed, since `s.open` is decremented first |
| `GetOpenConnectionsCount` | subtracts a listener that is not there when no `Serve` runs |
| `serveConn`, end of the loop | responses of pipelined requests are dropped with `bw`, on Shutdown and with `ReduceMemoryUsage` (`NothingLost`) |
| `serveConn`, chunked body | a connection that ends where a chunk would begin is `io.EOF`, from `readHexInt`, and ends the loop as if no request had begun: neither the error nor the responses of earlier pipelined requests are sent (`Truncated` in `NothingLost`) |
| `serveConn`, body | a wait for a body keeps earlier responses back (`EveryAnswered`) |
| `serveConn`, 100-continue | after a denied one, later requests skip the handler and `br` is reset with what it holds (`~conf.deny`) |
| `serveConn`, `HeaderReceived` | the limits returned for a request stay for the next one |
| `serveConn`, streaming | a streamed body may be read from a reader that was released; one that the handler did not read is taken for the next header (`~conf.stream`) |
| `readBodyIdentity`, streaming | reads as much as its buffer has room for, not `contentLength`: pipelined requests behind a body over the limit may become part of it (`BehindStream` in `EveryAnswered`) |
| `TimeoutWithCodeHandler` | 429 below the limit, as a place is given back late, or as `concurrencyCh` is nil under `ServeConn` |
| `stopTimer` | a time that a stopped timer sends late can time out the next request |
| `ctx.Err` | goes back to nil when Shutdown returns |
| `mCleaner` | removes a `HostClient` that a call has just taken from the map; the next call makes another, and the host then has more than `MaxConnsPerHost` connections, the "maximum number of connections per each host which may be established" (client.go:210) |
| `pipelineConnClient.worker` | forgets the channels of an idle connection and runs on; a call starts a second loop and two connections are open, although "a single connection is used by default" (client.go:2190). `MaxLoops = 1` keeps `ResponseMatches` to one loop |
| `HostClient.Do` | retries other requests "if the server closes the connection before sending the response" (client.go:1288), but `readHexInt` returns the same `io.EOF` between two chunks of a response that has begun |
| `dialHostHard` | `len(c.addrs)` is read before the first `nextAddr` sets it, so that the first dial tries one host only |
| `TCPDialer.dial` | `addrs[idx%n]` with a shrinking `n` tries the first of two addresses twice and the second never, depending on where `idx` starts; the comment speaks of all addresses in round-robin manner |
| `openFSFile` | the stale compressed file is removed outside the lock, so that another request which has just created it finds it gone and its request fails |
| `compressFileNolock` | the errors of the compressor's Close, which writes the end of the file, and of `zf.Close` are dropped, so that a file without its end can be renamed and served (`made = "cut"`; `CompressedFinished` does not exclude it) |
| `compressAndOpenFSFile` | in a directory that cannot be written a compressible index file is answered with 403, while the file itself is served |
| `newFSFile`, `bigFileReader` | `f` is not closed when `readFileHeader` fails (no `fsFile` is made, so `FilesReleased` is not about it); a further reader of a big file opens the path again and may get another version |
| `pipeConn.Write` | a write that ends after Close may succeed and never be read; one that times out loses its buffer to the garbage collector |
| `InmemoryListener.Close` | blocks behind a Dial as long as nobody accepts |
| `SetBodyRaw` | a later `AppendBody` drops the raw body: `bodyBuffer` clears `bodyRaw`, and `SetBodyRaw` has emptied the buffer to which is appended |
| `Request.Write` | a sent POST that is used again as a GET after `ResetBody` has the old Content-Length and no body; so has a GET on which a stream was set and reset (`CallSetBodyStream` excludes GET, and methods do not change) |
| `ResponseHeader` | Content-Length set by hand after a chunked stream sends both headers; a stream set under status 204 and sent with 200 has no length and ends with the connection |
| `gzipBody` | an error of the source of a stream is swallowed, so that a part passes for the whole (`want.failed` is about the compressed stream) |
| `Response.Write` to HEAD | without Content-Length the client takes the response for one that ends with the connection, and closes it |
| `RequestHeader.Set` | `Cookie` set twice appends; `SetHost` is lost with the next `SetRequestURI` |

## 5. What is proved

Every theorem holds for all values of the constants under the named assumption of the
module (last column); each is an invariant, an action property or the safety part of a
refinement. "Proof" names the inductive invariant.

| theorems | proof | assumes |
|---|---|---|
| `WorkerPoolProofs`: `TypeCorrect`, `OneSourceCorrect`, `ConnInOnePlaceCorrect`, `WorkersCountedCorrect`, `SearchFindsExpiredCorrect`, `ImplementsServiceSafely` | `TypeInv`, `SourceInv`, `PlaceInv`, `WorkersCounted`, `SearchInv` | finitely many workers |
| `HostClientPoolProofs`: `PoolTypeCorrect`, `OneOwnerCorrect`, `SlotsCountedCorrect`, `WaiterKnownCorrect` | `PoolInv` | finitely many calls and connections, positive limits |
| `ClientProofs`: `OwnAnswerAlone`, `LBImplementsDeadline`, `OwnAnswerCorrect`, `NoAccessAfterReturnCorrect`, `LoadCountedCorrect` | `DeadlineInv`, `LBInv` | finitely many calls, at least one client and attempt |
| `PipelineConnProofs`: `PipelineTypeCorrect`, `OneAnswerCorrect`, `ResponseMatchesCorrect` | `PipelineInv` | a channel has room for one work |
| `ServerProofs`: `TypeCorrect`, `IPLimitExactCorrect`, `OwnWrapperCorrect`, `ShutdownDrainedCorrect`, `CountersCorrect`, `HookOrderCorrect` | `ServerInv` | finitely many connections and Serve calls |
| `ClientProofs`: `DialCleansUpCorrect`, `DialInRange` | `DialInv` | finitely many calls, at least one host and one address |
| `HandlerProofs`: `CtxNotSharedCorrect`, `TimerIdleCorrect` | `Inv` | finitely many connections |
| `HandlerProofs`: `ReleasedUnusedCorrect`, `CompressedFinishedCorrect`, `ReadersCountedCorrect` | `FSInv` | finitely many requests |
| `ConnProofs`: `NothingLostCorrect`, `FramedCorrect` | `LoopInv` | the requests are of kinds that section 2 names |
| `ConnProofs`: `DialAcceptedCorrect` | `ListenerInv` | calls of Dial and of Close are not the same calls |
| `ConnProofs`: `ReadFaithfulCorrect` | `PipesInv` | the capacity of a channel and the lengths of reads are positive |

The finite sets are those whose elements a counter of the code counts. What else the
assumptions say is that `None` and the like are none of the values, and that the bounds
are natural numbers.

**WorkerPool.** `TypeOK` by itself is not inductive: `clean` slices `ready` with `hi`, and
the two holders of the lock exclude each other. `TypeInv` adds `LocksMatch` (who holds the
lock, and that `scratch` is empty outside the notification) and `SearchBounds`
(`0 <= lo <= hi + 1 <= Len(ready)` during the search). `SourceInv` states the four sources
of a worker as pairwise exclusive facts instead of the unique-existence form of
`OneSource`, which is shown to be the same (`OneSourceExpanded`); each step moves a worker
from one source to the next. `PlaceInv` adds that a worker has a connection exactly while
it serves and that no two places have the same one; it rests on `SourceInv`, by which the
acceptor's send finds an empty box. `WorkersCounted` needs only the cardinalities.
`SearchInv` is the loop invariant of the binary search on a sorted `ready`.
`ImplementsServiceSafely` uses all but the last: `ConnService` accepts only below
`MaxInService`, while `getCh` counts workers, not connections; the function from a
connection in service to its worker is an injection into the live workers without the one
about to be used (`ServedByLive`).

**HostClientPool.** `PoolInv` has the two lists without repetition, `OwnInv` (the unique
owner), `SlotsCounted`, `LockInv` (one delivery at a time holds `connsLock`) and `WantOK`
for each `wantConn`: what it carries, and that at most one of `connsWait`, the holder of
the lock and a `dialConnFor` goroutine knows it. `OneOwner` needs `WantOK`: `tryDeliver`
gives a connection away only if the waiter has none, and a waiter that gave up must not be
found again. `WaiterKnown` is its last conjunct, `SlotsCounted` needs the owners.

**ClientDeadline and LBClient.** `CallInv` relates `timedout`, `responded`, the mutex and
both pcs of a call; `ChanInv` says that a channel in the pool is empty and that one with a
call holds what its own goroutine sent, which is why a channel can be used again.
`LBImplementsDeadline` shows that each step of an `LBClient` with retries is a step of
`ClientDeadline` or leaves it alone, so these facts carry over. `LoadCounted` is a sum of
cardinalities that `CountMoved` follows through the steps.

**PipelineConn.** `AnswerInv` (types, hands full exactly where the code needs a work, and
`CallOK`: all places of a work are equal, a work not queued yet is nowhere) gives
`OneAnswer`. `ResponseMatches` needs `OrderInv`. While no connection is idle there is one
loop with one pair of channels, and on an open connection the requests that were sent or
are in the buffer and not answered yet are, in this order, those of the work the reader
has, of the works in `chR`, and of the one the writer is about to push (`InOrder`). What a
writer that failed leaves behind comes last and is never read: `open` is false, and `chR`
empty, before the next connection begins.

**Server.** `ConnInv` ties a connection, its goroutines and its `perIPConn` together: an
admitted connection is the `inner` of its own wrapper until it is uncounted, and a
connection is open exactly as long as one goroutine has still to close it. `IPLimitExact` and `OwnWrapper`
follow. `ShutdownDrained` needs the exact meaning of `s.open` (`OpenCounted`) and
`ListenInv`, by which a Shutdown that waits has closed every listener, so that no
connection can be on its way between `Accept` and the count. `BusyInv` says that each
Serve call has one connection in hand. `HookInv` gives the last reported state at each pc of
a connection without wrapper, from which the first part of `HookOrder` follows step by step;
the second follows from `ConnInv`. That no `perIPConn` is itself an accepted connection is
part of `ServerAssumption`. The two further counts are stated as
`CountersCorrect`.

**TimeoutHandler.** `Inv` says who owns a `RequestCtx` (the pool, a connection, or the
handler it was left to), that one that comes into use is clean, and that a connection in
the select waits for the handler that has the same `RequestCtx`. `TypeOK` is one of its
conjuncts.

**TCPDialer.** `DialInv` lists what a call holds at each pc and says that `slots` is the
number of calls in `dialAddr`; `DialInRange` states in addition that the divisor of
`idx%n` is positive.

**FSHandler.** An `fsFile` is known to others only once it is in a cache. `FileInv` says
that until then nobody holds it, and that afterwards it is in exactly one of a cache,
`pendingFiles` and `filesToRelease`, is open in all three, and is held only in the first
two; `readersCount` is the number of its holders. `ReleasedUnused` is not inductive by
itself: the cleaner drops a file when it reads a count of zero, so it needs
`ReadersCounted` and, for the requests that lost the race to insert their file, that this
file is nobody else's. `CompressedFinished` rests on the lock alone (`CopyInv`): nobody writes
to the temporary file any more when its maker comes to the rename, as nobody else was at
work on it, and the name of the compressed file never leads to anything but a renamed one,
nor does a request that compares it with the original (`Compares`) have another one open.

**ServeLoop.** `SentInv` adds to `NothingLost` why it is kept: whenever the loop would end
for want of input (`br` empty at a peek, or released), `bw` has been flushed.
`Framed` speaks of one pc and of the first token of `br`; inductively it is a statement
about the whole stream (`StreamFrom`): what is in `br` followed by what is on the connection
is a chain of successive tokens (`Chain`, `After`) from some token to the one the client
sends next, and `br` is empty when there is no reader. A step reads a prefix of it, moves a
piece of `net` into `br`, or appends at its end. Unless requests may be denied the chain
begins with the token the pc says is read next (`AtRequest`), which is `Framed`. That it
begins within the current body while one is awaited also holds with denied requests, and
gives the third exception of `NothingLost`: a chunked body of which nothing more comes is
one the client has cut (`CutBody`). No induction over the data is needed, as the chain
relates neighbours.

**InmemoryListener.** A Dial waits for its Accept under `ln.lock`, so `conns` has at most one
element, the connection of the Dial that has the lock (`ConnsInv`), though its capacity is
1024; what was accepted is without repetition over all acceptors (`AccInv`).

**PipeConns.** In the model the j-th byte of a pipe p is `<<p, j>>`, so that bytes of two
pipes or of two writes cannot be confused. `Exclusive` and `OneUse` say that a buffer in
use is not in the pool and has one use: with the writer, in the channel, or with the
reader, of one pipe. `DataInv` says that what was read, the rest of the buffer in hand, the buffers of the channel and what the
writer holds are consecutive pieces of the stream; the cuts between the buffers of the
channel are a sequence of offsets (`InOrder`), which replaces the sum over the channel.
`ReadFaithful` needs all of this, since a buffer put back while in use would be filled by
another pipe. A step of one pipe leaves the others' facts alone (`AloneKeeps`).
`EOFInv` says that a reader that has seen `stopCh` closed looks into the channel once more
before it reports `io.EOF`, so that what was sent before Close has been read.

TLC checked `LoopInv` and `PipesInv` on the instances of their runs before they were
proved.

`PoolLemmas` has what these proofs share: lists without repetition (append, head and tail,
last and front, a cut in two) and cardinalities of "all at these points" when one element
moves (`CountOneMore`, `CountOneLess`, `CountMoved`).

Only model-checked:

* every liveness property and the fairness of `ConnService` (no prover here does fairness
  or `ENABLED`);
* `Framed`, `HeadersKept` and `NeverStarved` of `Messages`: what is written and read is
  computed by folds and recursive functions over headers and chunks, and what those return
  for every message is an induction over its data;
* `ClientMap`, whose one property is a liveness property.

## 6. What the models leave out

* `Server`: TLS and `nextProtos`; one connection per address family is enough for
  `MaxConnsPerIP`, other addresses are `NoIP`. An error of a listener's `Close` other than
  "already closed" ends Shutdown early and is in the model.
* `ServeLoop`: the text of messages, multipart forms, read and write deadlines except as
  an end of the connection. A handler that reads a stream which `readBodyIdentity` filled
  beyond its length may panic. With `StreamRequestBody` a body the handler did not read stays
  on the connection and the next header is read from it; see section 4.
* `TimeoutHandler`: `ctx.Done` and `ctx.Err`. `ClientDeadline`: `clientGetURLDeadline`.
* `HostClientPool`: TLS, addresses, `MaxConnDuration`; one attempt per call.
* `PipelineConn`: batches by `MaxBatchDelay` are a flush at any later moment; timers of
  pooled works; the choice among connections of a `PipelineClient`.
* `FSHandler`: byte ranges, the text of a directory listing, `PathRewrite`; gzip and
  brotli go the same way and are one encoding.
* `Header`, `Messages`: Content-Type, Server, User-Agent, Date and the normalisation of
  names, on which no decision about the framing depends; multipart forms; the bytes of a
  line, of which only those that make it unreadable matter (`BadLine`).
* `URI`, query strings, cookie attributes and bytesconv: one sequential pass over text
  without state; nothing here that unit tests and the fuzz targets do not reach.
* `prefork` (a counter of restarts), `stackless` (a bounded queue before a fixed set of
  goroutines), `userData` (a list), stream.go (a goroutine that writes to a pipe), and the
  pools of codecs in compress.go and brotli.go.
* Nothing here is about memory reclaimed.

## 7. Plan

Next theorems: lemmas on `Header` (what `setArg` and `delAllArgs` keep, and that
`SetContentLength` leaves one framing header), as far as they need no induction.

Next models: the choice among connections of a `PipelineClient` with the pooled timers of
its works, `stackless`, and `Client.Do` composed with the pool of its `HostClient`s, where
the limit per host is lost.
