----------------------------- MODULE UploadPipe -----------------------------
(***************************************************************************)
(* The byte pipe of infrastructure/minio_store.py and its two ends: an     *)
(* asyncio task that pulls chunks from the caller's stream and writes them *)
(* into a buffer of Capacity bytes, and an SDK thread that reads the       *)
(* buffer as if it were a file.  Writer and reader never share a lock with *)
(* an event loop: the reader is woken through a threading.Condition, the   *)
(* writer through an asyncio.Event that is set by a callback handed to the *)
(* loop.  The slicing of a chunk is invisible: every slice enters the same *)
(* loop of write, which looks at the pipe again for every piece.           *)
(***************************************************************************)
EXTENDS Naturals, FiniteSetsExt

CONSTANTS
    Capacity,   \* buffer_bytes
    MaxBytes,   \* max_bytes of the request
    ChunkSizes  \* bound: the sizes of the chunks the caller's stream yields

ASSUME PipeAssumption ==
    /\ Capacity \in Nat \ {0} /\ MaxBytes \in Nat \ {0}
    /\ ChunkSizes \subseteq Nat \ {0}

VARIABLES
    pipe,       \* the fields of _BoundedBytePipe; wake: a callback handed to
                \* the loop has not set the event yet (several are one)
    prod,       \* the producer task
    cons        \* the thread inside put_object: what it does and has read

pipeVars == <<pipe, prod, cons>>

Failures == {"none", "limit", "stream", "cancelled"}

\* created: the task has not run yet.  closing: it awaits the stream's aclose.
ProducerStates == {"none", "created", "next", "write", "wait", "closing",
                   "done"}

PipeTypeOK ==
    /\ pipe \in [buf : 0 .. Capacity, eof : BOOLEAN, failure : Failures,
                 stopped : BOOLEAN, space : BOOLEAN, wake : BOOLEAN]
    /\ prod \in [st : ProducerStates, total : 0 .. MaxBytes,
                 left : 0 .. MaxBytes, cancel : BOOLEAN,
                 res : {"none", "ok", "limit", "stream", "stopped",
                        "cancelled"}]
    /\ cons \in [st : {"none", "read", "wait", "store"}, got : 0 .. MaxBytes]

PipeInit ==
    /\ pipe = [buf |-> 0, eof |-> FALSE, failure |-> "none",
               stopped |-> FALSE, space |-> TRUE, wake |-> FALSE]
    /\ prod = [st |-> "none", total |-> 0, left |-> 0, cancel |-> FALSE,
               res |-> "none"]
    /\ cons = [st |-> "none", got |-> 0]

-----------------------------------------------------------------------------
\* condition.notify_all(): a reader asleep in condition.wait looks again.
Notify(c) == IF c.st = "wait" THEN [c EXCEPT !.st = "read"] ELSE c

\* _wake_writer: call_soon_threadsafe(space_available.set).
WakeWriter(p) == [p EXCEPT !.wake = TRUE]

\* fail: the first failure stays; discard also drops what is buffered.
Failed(p, failure, discard) ==
    WakeWriter([p EXCEPT !.buf = IF discard THEN 0 ELSE @,
                         !.failure = IF @ = "none" THEN failure ELSE @])

\* stop_consumer: whatever is buffered is dropped and both ends are told.
Stopped(p) == WakeWriter([p EXCEPT !.stopped = TRUE, !.buf = 0])

EndProducer(res) ==
    prod' = [prod EXCEPT !.st = "closing", !.res = res]

-----------------------------------------------------------------------------
(* The producer task, _produce_stream.                                     *)

StartProducer ==
    /\ prod.st = "created" /\ ~prod.cancel
    /\ prod' = [prod EXCEPT !.st = "next"]
    /\ UNCHANGED <<pipe, cons>>

\* The stream yields n bytes; the limit is checked before they are counted.
NextChunk(n) ==
    /\ prod.st = "next" /\ ~prod.cancel
    /\ IF prod.total + n > MaxBytes
       THEN /\ pipe' = Failed(pipe, "limit", FALSE)
            /\ cons' = Notify(cons)
            /\ EndProducer("limit")
       ELSE /\ prod' = [prod EXCEPT !.st = "write", !.left = n,
                                    !.total = @ + n]
            /\ UNCHANGED <<pipe, cons>>

StreamExhausted ==
    /\ prod.st = "next" /\ ~prod.cancel
    /\ pipe' = [pipe EXCEPT !.eof = TRUE]
    /\ cons' = Notify(cons)
    /\ EndProducer("ok")

\* The stream raises, or yields something that is not bytes.
StreamBreaks ==
    /\ prod.st = "next" /\ ~prod.cancel
    /\ pipe' = Failed(pipe, "stream", FALSE)
    /\ cons' = Notify(cons)
    /\ EndProducer("stream")

\* How much of the rest of the chunk the buffer takes.
Piece == Min({prod.left, Capacity - pipe.buf})

\* One turn of the loop of write, under the condition's lock.
Write ==
    /\ prod.st = "write"
    /\ \/ /\ pipe.failure # "none" \/ pipe.stopped
          /\ pipe' = Failed(pipe, "stream", FALSE)
          /\ cons' = Notify(cons)
          /\ EndProducer(IF pipe.failure # "none" THEN "stream" ELSE "stopped")
       \/ /\ pipe.failure = "none" /\ ~pipe.stopped /\ pipe.buf < Capacity
          /\ pipe' = [pipe EXCEPT !.buf = @ + Piece,
                                  !.space = @ /\ pipe.buf + Piece < Capacity]
          /\ cons' = Notify(cons)
          /\ prod' = [prod EXCEPT !.left = @ - Piece,
                                  !.st = IF prod.left = Piece THEN "next"
                                                              ELSE "write"]
       \/ /\ pipe.failure = "none" /\ ~pipe.stopped /\ pipe.buf >= Capacity
          /\ pipe' = [pipe EXCEPT !.space = FALSE]
          /\ prod' = [prod EXCEPT !.st = "wait"]
          /\ UNCHANGED cons

\* The loop runs the callback of _wake_writer.
SetSpace ==
    /\ pipe.wake
    /\ pipe' = [pipe EXCEPT !.wake = FALSE, !.space = TRUE]
    /\ UNCHANGED <<prod, cons>>

SpaceAvailable ==
    /\ prod.st = "wait" /\ ~prod.cancel /\ pipe.space
    /\ prod' = [prod EXCEPT !.st = "write"]
    /\ UNCHANGED <<pipe, cons>>

\* CancelledError at the task's await.  A task that never ran ends without
\* entering its body, so it does not touch the pipe.
ProducerCancelled ==
    /\ prod.cancel
    /\ \/ /\ prod.st = "created"
          /\ prod' = [prod EXCEPT !.st = "done", !.res = "cancelled"]
          /\ UNCHANGED <<pipe, cons>>
       \/ /\ prod.st \in {"next", "wait"}
          /\ pipe' = Failed(pipe, "cancelled", TRUE)
          /\ cons' = Notify(cons)
          /\ EndProducer("cancelled")

\* The finally of _produce_stream has closed the caller's stream.
ProducerDone ==
    /\ prod.st = "closing"
    /\ prod' = [prod EXCEPT !.st = "done"]
    /\ UNCHANGED <<pipe, cons>>

Producer ==
    \/ StartProducer \/ StreamExhausted \/ StreamBreaks \/ Write \/ SetSpace
    \/ SpaceAvailable \/ ProducerCancelled \/ ProducerDone
    \/ \E n \in ChunkSizes : NextChunk(n)

-----------------------------------------------------------------------------
(* The reader, inside the SDK's put_object.                                *)

\* What read finds, in the order it looks.
ReadSees ==
    IF pipe.buf > 0 THEN "data"
    ELSE IF pipe.failure # "none" THEN "failure"
    ELSE IF pipe.eof \/ pipe.stopped THEN "end"
    ELSE "nothing"

\* read returns n buffered bytes, the end of the file, or sleeps.  The SDK asks
\* for more until the end of the file, then completes the object.
Read ==
    /\ cons.st = "read"
    /\ \/ /\ ReadSees = "data"
          /\ \E n \in 1 .. pipe.buf :
                /\ pipe' = WakeWriter([pipe EXCEPT !.buf = @ - n])
                /\ cons' = [cons EXCEPT !.got = @ + n]
       \/ /\ ReadSees = "end"
          /\ cons' = [cons EXCEPT !.st = "store"]
          /\ UNCHANGED pipe
       \/ /\ ReadSees = "nothing"
          /\ cons' = [cons EXCEPT !.st = "wait"]
          /\ UNCHANGED pipe
    /\ UNCHANGED prod

\* read raises the failure of the pipe, and put_object lets it through.
ReadRaises == cons.st = "read" /\ ReadSees = "failure"

=============================================================================
