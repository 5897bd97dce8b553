----------------------------- MODULE ReadEngine -----------------------------
(***************************************************************************)
(* Payload reads through io_uring, and the plain backends they must agree  *)
(* with.  A read is a list of extents for each destination buffer; the     *)
(* ring backend cuts the extents into operations, takes a ring from a pool *)
(* and drives the operations on it.  The kernel runs submitted operations  *)
(* in any order, reads short, and reports errors; it writes through raw    *)
(* pointers, so a call must not return while it may still do so.           *)
(*                                                                         *)
(* The byte at offset  x  of the image is  x + 1;  buffers start as zeros. *)
(***************************************************************************)
EXTENDS Integers, Sequences, SequencesExt, FiniteSets, FiniteSetsExt, TLC

CONSTANTS Readers,
          Requests,     \* reader -> reads it may ask for, each a list of targets
                        \* [len, pushes], a push being [disk, buf, len]
          ImageLen,
          Depth,        \* entries of a ring (64 in the code)
          MaxOpBytes,   \* longest single operation (1 MiB)
          MaxIdleRings, \* rings the pool keeps (16)
          MaxCalls, MaxFaults   \* bounds: calls, and what goes wrong

VARIABLES backend,  \* the one in use: "mmap", "pread" or "ring"
          idle,     \* the pool: a stack of rings
          ring,     \* ring -> [sq, flight, cq]
          reader,   \* reader -> the call it is in
          aborted,  \* a hard failure of io_uring_enter ended the process
          calls, faults

vars == <<backend, idle, ring, reader, aborted, calls, faults>>

Clean == [sq |-> <<>>, flight |-> {}, cq |-> <<>>]
Rings == 1 .. Cardinality(Readers)    \* as many as can be in use at a time
Idle == [pc |-> "idle"]

Init ==
  /\ backend \in {"mmap", "pread", "ring"}
  /\ idle = <<1>> /\ ring = [g \in Rings |-> Clean]
  /\ reader = [r \in Readers |-> Idle]
  /\ aborted = FALSE
  /\ calls = 0 /\ faults = 0

-----------------------------------------------------------------------------
(* Extents *)

\* A transfer that continues the last one on both sides is merged into it.
Push(extents, p) ==
  LET last == Last(extents)
      joins == /\ extents # <<>>
               /\ last.disk + last.len = p.disk /\ last.buf + last.len = p.buf
  IN  IF p.len = 0 THEN extents
      ELSE IF joins THEN Append(Front(extents), [last EXCEPT !.len = @ + p.len])
      ELSE Append(extents, p)

Extents(target) == FoldLeft(Push, <<>>, target.pushes)

Validate(req) ==
  \A t \in DOMAIN req : \A e \in ToSet(Extents(req[t])) :
    e.buf + e.len <= req[t].len /\ e.disk + e.len <= ImageLen

\* read_mmap and read_pread: every extent, in order.
CopyExtent(buf, e) ==
  [i \in DOMAIN buf |-> IF i - 1 \in e.buf .. e.buf + e.len - 1
                        THEN e.disk + (i - 1 - e.buf) + 1 ELSE buf[i]]
Zeros(n) == [i \in 1 .. n |-> 0]
ReadPlain(req) ==
  [t \in DOMAIN req |-> FoldLeft(CopyExtent, Zeros(req[t].len), Extents(req[t]))]

\* The operations of a read: each extent in pieces of at most MaxOpBytes.
Pieces(t, e) ==
  [k \in 1 .. (e.len + MaxOpBytes - 1) \div MaxOpBytes |->
    LET done == (k - 1) * MaxOpBytes
    IN  [t |-> t, buf |-> e.buf + done, off |-> e.disk + done,
         len |-> Min({e.len - done, MaxOpBytes})]]
Ops(req) ==
  FlattenSeq([t \in DOMAIN req |->
    FlattenSeq([i \in DOMAIN Extents(req[t]) |-> Pieces(t, Extents(req[t])[i])])])

-----------------------------------------------------------------------------
(* A call *)

InCall(r) == reader[r].pc \in {"loop", "enter", "wait", "reap"}
Finished(c, bufs, e) == [c EXCEPT !.pc = "done", !.bufs = bufs, !.err = e]

\* What fails before any operation is queued: a pread, or making a ring when
\* the pool is empty.  What pread had copied by then is not looked at.
MayFail == backend = "pread" \/ (backend = "ring" /\ idle = <<>>)

\* Validation; then the plain backends run to the end or to the first error,
\* and the ring backend takes a ring from the pool or makes one.
Start(r, req) ==
  LET bufs == [t \in DOMAIN req |-> Zeros(req[t].len)]
      ops == Ops(req)
      held == {reader[q].ring : q \in {p \in Readers : InCall(p)}}
      id == IF idle # <<>> THEN Last(idle) ELSE Min(Rings \ held)
      c == [pc |-> "loop", req |-> req, bufs |-> bufs, ops |-> ops, ring |-> id,
            pending |-> [i \in DOMAIN ops |-> i], inflight |-> 0, err |-> "",
            hard |-> FALSE]
      Set(x) == reader' = [reader EXCEPT ![r] = x]
  IN  /\ reader[r].pc \in {"idle", "done"} /\ ~aborted
      /\ calls < MaxCalls /\ calls' = calls + 1
      /\ \/ /\ ~Validate(req)
            /\ Set(Finished(c, bufs, "InvalidInput"))
            /\ UNCHANGED <<idle, ring, faults>>
         \/ /\ Validate(req) /\ (backend # "ring" \/ ops = <<>>)
            /\ Set(Finished(c, IF ops = <<>> THEN bufs ELSE ReadPlain(req), ""))
            /\ UNCHANGED <<idle, ring, faults>>
         \/ /\ Validate(req) /\ MayFail /\ ops # <<>>
            /\ faults < MaxFaults /\ faults' = faults + 1
            /\ Set([Finished(c, bufs, "Io") EXCEPT !.hard = TRUE])
            /\ UNCHANGED <<idle, ring>>
         \/ /\ Validate(req) /\ backend = "ring" /\ ops # <<>>
            /\ Set(c)
            /\ idle' = IF idle # <<>> THEN Front(idle) ELSE idle
            /\ ring' = IF idle # <<>> THEN ring ELSE [ring EXCEPT ![id] = Clean]
            /\ UNCHANGED faults
      /\ UNCHANGED <<backend, aborted>>

\* Returning the ring; over the limit it is closed.
Checkin(id) == idle' = IF Len(idle) < MaxIdleRings THEN Append(idle, id) ELSE idle

\* What the loop may queue, and when the call is over.
Room(c) == IF c.err # "" THEN 0 ELSE Min({Depth - c.inflight, Len(c.pending)})

\* Mutant: the first error ends the call.
Over_AtError(c) == c.inflight + Room(c) = 0 \/ c.err # ""

\* Mutant: the call goes on while operations are left.
Over_WhenDrained(c) == c.inflight = 0 /\ c.pending = <<>>

Over(c) == c.inflight + Room(c) = 0

\* Top of the loop: queue operations up to the depth unless an error was seen;
\* with nothing queued or running the call is over.
Fill(r) ==
  LET c == reader[r]
      n == Room(c)
      entries == [i \in 1 .. n |-> [who |-> r, idx |-> c.pending[i]] @@ c.ops[c.pending[i]]]
  IN  /\ c.pc = "loop" /\ ~aborted
      /\ ring' = [ring EXCEPT ![c.ring].sq = @ \o entries]
      /\ reader' = [reader EXCEPT ![r] =
           [c EXCEPT !.pending = SubSeq(@, n + 1, Len(@)), !.inflight = @ + n,
                     !.pc = IF Over(c) THEN "done" ELSE "enter"]]
      /\ IF Over(c) THEN Checkin(c.ring) ELSE UNCHANGED idle
      /\ UNCHANGED <<backend, aborted, calls, faults>>

\* submit_and_wait(1) hands over what is queued; a transient failure hands over
\* nothing, any other one ends the process.
Enter(r) ==
  LET c == reader[r]
      g == ring[c.ring]
  IN  /\ c.pc = "enter" /\ ~aborted
      /\ \/ /\ ring' = [ring EXCEPT ![c.ring] =
                 [g EXCEPT !.sq = <<>>, !.flight = @ \cup ToSet(g.sq)]]
            /\ reader' = [reader EXCEPT ![r].pc = "wait"]
            /\ UNCHANGED <<aborted, faults>>
         \/ /\ faults < MaxFaults /\ faults' = faults + 1
            /\ reader' = [reader EXCEPT ![r].pc = "reap"]
            /\ UNCHANGED <<ring, aborted>>
         \/ /\ faults < MaxFaults /\ faults' = faults + 1
            /\ aborted' = TRUE
            /\ UNCHANGED <<ring, reader>>
      /\ UNCHANGED <<backend, idle, calls>>

Wait(r) ==
  LET c == reader[r]
  IN  /\ c.pc = "wait" /\ ~aborted
      /\ ring[c.ring].cq # <<>>
      /\ reader' = [reader EXCEPT ![r].pc = "reap"]
      /\ UNCHANGED <<backend, idle, ring, aborted, calls, faults>>

\* Mutant: a short read is taken up again at the start of its range.
Rest_Restarts(op, n) == [op EXCEPT !.len = @ - n]

Rest(op, n) == [op EXCEPT !.buf = @ + n, !.off = @ + n, !.len = @ - n]

\* Mutant: a completion with an error is not counted off.
Reaped_Miscounts(c, e) ==
  IF e.res < 0 THEN [c EXCEPT !.err = IF @ = "" THEN "Io" ELSE @]
  ELSE [c EXCEPT !.inflight = @ - 1]

\* One completion: a transient error and the rest of a short read are queued
\* again; the first hard error, or the end of the image, is kept.
Reaped(c, e) ==
  LET ops == c.ops
      short == e.res > 0 /\ e.res < ops[e.idx].len
      failed == c.err # ""
  IN  [c EXCEPT
        !.inflight = @ - 1,
        !.ops = IF short THEN [ops EXCEPT ![e.idx] = Rest(@, e.res)] ELSE ops,
        !.pending = IF ~failed /\ (short \/ e.res = -1) THEN Append(@, e.idx) ELSE @,
        !.err = IF ~failed /\ e.res \in {0, -2} THEN "Io" ELSE @]

Reap(r) ==
  LET c == reader[r]
      done == FoldLeft(Reaped, c, ring[c.ring].cq)
  IN  /\ c.pc = "reap" /\ ~aborted
      /\ ring' = [ring EXCEPT ![c.ring].cq = <<>>]
      /\ reader' = [reader EXCEPT ![r] = [done EXCEPT !.pc = "loop"]]
      /\ UNCHANGED <<backend, idle, aborted, calls, faults>>

-----------------------------------------------------------------------------
(* The kernel *)

\* Results: a positive count, 0 at the end of the file, -1 for a transient
\* error, -2 for any other.
Post(g, e, res) ==
  ring' = [ring EXCEPT ![g].flight = @ \ {e},
                       ![g].cq = Append(@, [idx |-> e.idx, res |-> res])]

Transfer(g, e, n) ==
  /\ ~aborted /\ e \in ring[g].flight /\ n \in 1 .. e.len
  /\ Post(g, e, n)
  /\ reader' = [reader EXCEPT ![e.who].bufs[e.t] =
                  CopyExtent(@, [buf |-> e.buf, disk |-> e.off, len |-> n])]
  /\ UNCHANGED <<backend, idle, aborted, calls, faults>>

Refuse(g, e, res) ==
  /\ ~aborted /\ e \in ring[g].flight
  /\ faults < MaxFaults /\ faults' = faults + 1
  /\ Post(g, e, res)
  /\ reader' = [reader EXCEPT ![e.who].hard = @ \/ res # -1]
  /\ UNCHANGED <<backend, idle, aborted, calls>>

Kernel(g) ==
  \E e \in ring[g].flight :
    \/ \E n \in 1 .. MaxOpBytes : Transfer(g, e, n)
    \/ \E res \in {0, -1, -2} : Refuse(g, e, res)

Steps(r) == Fill(r) \/ Enter(r) \/ Wait(r) \/ Reap(r)

Next ==
  \/ \E r \in Readers : \E req \in Requests[r] : Start(r, req)
  \/ \E r \in Readers : Steps(r)
  \/ \E g \in Rings : Kernel(g)

\* Threads that can run do run, and the kernel completes what it was given.
Fairness ==
  /\ \A r \in Readers : WF_vars(Steps(r))
  /\ \A g \in Rings : WF_vars(Kernel(g))

Spec == Init /\ [][Next]_vars /\ Fairness

-----------------------------------------------------------------------------

Entries(g) == ToSet(ring[g].sq) \cup ring[g].flight
Tracked(c) == Len(ring[c.ring].sq) + Cardinality(ring[c.ring].flight) + Len(ring[c.ring].cq)

\* A ring never holds more than its depth, and its user counts exactly what it
\* holds.
TypeOK ==
  /\ \A g \in Rings : Len(ring[g].sq) <= Depth
  /\ Len(idle) <= MaxIdleRings
  /\ \A r \in Readers : InCall(r) =>
       /\ reader[r].inflight = Tracked(reader[r])
       /\ reader[r].inflight <= Depth

\* What the kernel was or will be handed belongs to a call that has not
\* returned and lies inside its buffers: no pointer outlives its buffer, also
\* after an error; and a ring in the pool has nothing of its last user left.
KernelWritesLiveBuffers ==
  /\ \A g \in Rings : \A e \in Entries(g) :
       /\ InCall(e.who) /\ reader[e.who].ring = g
       /\ e.buf + e.len <= Len(reader[e.who].bufs[e.t]) /\ e.off + e.len <= ImageLen
  /\ \A i \in DOMAIN idle : ring[idle[i]] = Clean

\* A read that returns has read what the plain backends read, byte for byte,
\* however the kernel cut and ordered the transfers.  It fails exactly when the
\* request is out of range, no ring could be made for it, or the system reported
\* a hard error or the end of the file to it: no error of another call, and no
\* transient one, and no success once an error was reported.
ReadsAgree ==
  \A r \in Readers : reader[r].pc = "done" =>
    LET c == reader[r] IN
    IF ~Validate(c.req) THEN c.err = "InvalidInput"
    ELSE IF c.hard THEN c.err = "Io"
    ELSE c.err = "" /\ c.bufs = ReadPlain(c.req)

\* Every read returns, unless the process is aborted.
ReadsReturn == \A r \in Readers : InCall(r) ~> (~InCall(r) \/ aborted)
=============================================================================
