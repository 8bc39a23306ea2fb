------------------------------ MODULE PipeConns ------------------------------
(***************************************************************************)
(* fasthttputil/pipeconns.go: one direction of in-memory connections.      *)
(* Write copies its argument into a buffer of a pool that all pipes share  *)
(* and sends it through a channel; Read copies from the buffer it received *)
(* last and gives it back when it is used up.  A deadline may be set at    *)
(* any time, so a blocked call may time out at any time.                   *)
(***************************************************************************)
EXTENDS Naturals, Sequences, SequencesExt

CONSTANTS
    Pipes,
    Bufs,           \* byteBuffers; as many as can be in use at once
    Cap,            \* capacity of the channels (4 in the code)
    WriteLens,      \* lengths of the slices written
    ReadLens,       \* lengths of the slices read into
    MaxBytes        \* bound: bytes written to each pipe

NoBuf == 0

ASSUME PipeAssumption ==
    /\ NoBuf \notin Bufs /\ Cap \in Nat \ {0}
    /\ WriteLens \subseteq Nat /\ ReadLens \subseteq Nat \ {0} /\ MaxBytes \in [Pipes -> Nat]

VARIABLES
    buf, pool,      \* contents of each buffer; the buffers nobody uses
    chan,           \* the channel of each pipe
    stopped,        \* stopCh is closed
    wr, rd,         \* the goroutine that writes, and the one that reads
    sent, got,      \* bytes whose Write has succeeded; bytes Read has returned
    atClose         \* how many had been sent when the pipe was closed

pvars == <<buf, pool, chan, stopped, wr, rd, sent, got, atClose>>

PipesInit ==
    /\ buf = [b \in Bufs |-> <<>>] /\ pool = Bufs
    /\ chan = [p \in Pipes |-> <<>>] /\ stopped = [p \in Pipes |-> FALSE]
    /\ wr = [p \in Pipes |-> [pc |-> "idle", b |-> NoBuf]]
    /\ rd = [p \in Pipes |->
                [pc |-> "idle", b |-> NoBuf, bb |-> 0, n |-> 0, mayBlock |-> TRUE]]
    /\ sent = [p \in Pipes |-> <<>>] /\ got = [p \in Pipes |-> <<>>]
    /\ atClose = [p \in Pipes |-> 0]

-----------------------------------------------------------------------------
(* Write. *)

\* A buffer is filled (any free one: they are interchangeable); if stopCh is closed
\* it is given back at once.
WriteStart(p) ==
    /\ wr[p].pc = "idle" /\ ~stopped[p]
    /\ \E n \in WriteLens : LET b == CHOOSE x \in pool : TRUE IN
          /\ pool # {}
          /\ Len(sent[p]) + n <= MaxBytes[p]
          /\ buf' = [buf EXCEPT ![b] = [i \in 1 .. n |-> <<p, Len(sent[p]) + i>>]]
          /\ pool' = pool \ {b}
          /\ wr' = [wr EXCEPT ![p] = [pc |-> "send", b |-> b]]
    /\ UNCHANGED <<chan, stopped, rd, sent, got, atClose>>

\* c.wCh <- b, in the first select or, when the channel was full, in the second.
WriteSend(p) ==
    /\ wr[p].pc \in {"send", "block"} /\ Len(chan[p]) < Cap
    /\ chan' = [chan EXCEPT ![p] = Append(@, wr[p].b)]
    /\ sent' = [sent EXCEPT ![p] = @ \o buf[wr[p].b]]
    /\ wr' = [wr EXCEPT ![p] = [pc |-> "idle", b |-> NoBuf]]
    /\ UNCHANGED <<buf, pool, stopped, rd, got, atClose>>

WriteBlock(p) ==
    /\ wr[p].pc = "send" /\ Len(chan[p]) = Cap
    /\ wr' = [wr EXCEPT ![p].pc = "block"]
    /\ UNCHANGED <<buf, pool, chan, stopped, rd, sent, got, atClose>>

\* The deadline or stopCh.  ErrTimeout drops the buffer, which is collected.
WriteFail(p) ==
    /\ wr[p].pc = "block"
    /\ pool' = pool \cup {wr[p].b}
    /\ wr' = [wr EXCEPT ![p] = [pc |-> "idle", b |-> NoBuf]]
    /\ UNCHANGED <<buf, chan, stopped, rd, sent, got, atClose>>

-----------------------------------------------------------------------------
(* Read. *)

ReadStart(p) ==
    /\ rd[p].pc = "idle"
    /\ \E n \in ReadLens : rd' = [rd EXCEPT ![p].pc = "loop", ![p].n = n, ![p].mayBlock = TRUE]
    /\ UNCHANGED <<buf, pool, chan, stopped, wr, sent, got, atClose>>

\* bytes of c.b that are still to be read: c.bb
Rest(p) == SubSeq(buf[rd[p].b], rd[p].bb + 1, Len(buf[rd[p].b]))
BBEmpty(p) == IF rd[p].b = NoBuf THEN TRUE ELSE Rest(p) = <<>>

\* n := copy(p, c.bb); c.bb = c.bb[n:]
ReadCopy(p) ==
    /\ rd[p].pc = "loop" /\ ~BBEmpty(p)
    /\ LET n == IF rd[p].n < Len(Rest(p)) THEN rd[p].n ELSE Len(Rest(p)) IN
       /\ got' = [got EXCEPT ![p] = @ \o SubSeq(Rest(p), 1, n)]
       /\ rd' = [rd EXCEPT ![p] = [rd[p] EXCEPT !.bb = @ + n, !.n = @ - n, !.mayBlock = FALSE,
                                                !.pc = IF rd[p].n = n THEN "idle" ELSE "loop"]]
    /\ UNCHANGED <<buf, pool, chan, stopped, wr, sent, atClose>>

\* Receive the next buffer; an empty one ends the blocking part of Read as well.
Take(p) ==
    /\ chan' = [chan EXCEPT ![p] = Tail(@)]
    /\ rd' = [rd EXCEPT ![p] = [rd[p] EXCEPT !.b = Head(chan[p]), !.bb = 0, !.pc = "loop",
                  !.mayBlock = @ /\ buf[Head(chan[p])] # <<>>]]

\* readNextByteBuffer: the used buffer is given back, then one is received without
\* blocking; with none there Read blocks, or returns what it has.
ReadNext(p) ==
    /\ rd[p].pc = "loop" /\ BBEmpty(p)
    /\ pool' = pool \cup ({rd[p].b} \ {NoBuf})
    /\ \/ chan[p] # <<>> /\ Take(p)
       \/ /\ chan[p] = <<>>
          /\ rd' = [rd EXCEPT ![p] = [rd[p] EXCEPT !.b = NoBuf, !.bb = 0,
                                               !.pc = IF rd[p].mayBlock THEN "block" ELSE "idle"]]
          /\ UNCHANGED chan
    /\ UNCHANGED <<buf, stopped, wr, sent, got, atClose>>

\* Mutant of ReadBlocked: EOF as soon as stopCh is closed.
ReadBlockedEOF(p) ==
    /\ rd[p].pc = "block"
    /\ \/ chan[p] # <<>> /\ Take(p)
       \/ UNCHANGED chan /\ rd' = [rd EXCEPT ![p].pc = "deadline"]
       \/ stopped[p] /\ UNCHANGED chan /\ rd' = [rd EXCEPT ![p].pc = "eof"]
    /\ UNCHANGED <<buf, pool, stopped, wr, sent, got, atClose>>

\* The blocking select: data, the deadline, or stopCh.
ReadBlocked(p) ==
    /\ rd[p].pc = "block"
    /\ \/ chan[p] # <<>> /\ Take(p)
       \/ UNCHANGED chan /\ rd' = [rd EXCEPT ![p].pc = "deadline"]
       \/ stopped[p] /\ UNCHANGED chan /\ rd' = [rd EXCEPT ![p].pc = "stop"]
    /\ UNCHANGED <<buf, pool, stopped, wr, sent, got, atClose>>

\* "rCh may contain data": one more look before ErrTimeout, and before io.EOF.
ReadLast(p) ==
    /\ rd[p].pc \in {"deadline", "stop"}
    /\ \/ chan[p] # <<>> /\ Take(p)
       \/ /\ chan[p] = <<>> /\ UNCHANGED chan
          /\ rd' = [rd EXCEPT ![p].pc = IF rd[p].pc = "stop" THEN "eof" ELSE "idle"]
    /\ UNCHANGED <<buf, pool, stopped, wr, sent, got, atClose>>

-----------------------------------------------------------------------------
\* PipeConns.Close, which either end may call, any number of times.
ClosePipe(p) ==
    /\ ~stopped[p]
    /\ stopped' = [stopped EXCEPT ![p] = TRUE]
    /\ atClose' = [atClose EXCEPT ![p] = Len(sent[p])]
    /\ UNCHANGED <<buf, pool, chan, wr, rd, sent, got>>

WriteStep(p) == WriteStart(p) \/ WriteSend(p) \/ WriteBlock(p) \/ WriteFail(p)
ReadStep(p) == ReadStart(p) \/ ReadCopy(p) \/ ReadNext(p) \/ ReadBlocked(p) \/ ReadLast(p)

-----------------------------------------------------------------------------
\* Read returns what the other end wrote, in order, however the writes and the
\* reads are cut, and though the buffers are shared by all pipes; and io.EOF only
\* after everything that was written before Close, whichever end closed.
ReadFaithful ==
    \A p \in Pipes :
        /\ IsPrefix(got[p], sent[p])
        /\ rd[p].pc = "eof" => Len(got[p]) >= atClose[p]
=============================================================================
