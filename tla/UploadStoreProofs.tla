-------------------------- MODULE UploadStoreProofs -------------------------
(***************************************************************************)
(* Proofs about the object store and about document uploads.  The two      *)
(* components share no variable; each part uses the definitions of its     *)
(* own.  The first part holds for every set of operations, every order of  *)
(* their steps, every size of the executor, of the pipe and of a page; the *)
(* second for every set of requests, whatever they send, every length of a *)
(* file and every size of the multipart queue.                             *)
(***************************************************************************)
EXTENDS UploadReservation, ObjectStore, FiniteSetTheorems, SequenceTheorems, TLAPS

-----------------------------------------------------------------------------
(* The object store.                                                       *)

Cleaners == {"staging", "late", "eventual"}

\* An operation and its own SDK call are at the same place.
CallFits(o) ==
  LET mine == call[Own(o)] IN
  /\ pc[o] = "new" => mine.st = "idle"
  /\ pc[o] \in Steps => mine.what = pc[o] /\ mine.st # "idle"
  /\ pc[o] = "grace" => mine.what \in {"put", "copy"} /\ mine.st \in {"running", "half", "ended"}
  /\ pc[o] = "settle" => mine.what = "put" /\ mine.st = "ended"
  /\ pc[o] = "yield" => mine.what = "get" /\ mine.st = "ended"
  /\ pc[o] \in {"cleanup", "done"} => mine.st # "asked"
  /\ mine.st = "half" => mine.what = "copy"
  /\ kind[o] = "list" /\ pc[o] = "done" /\ res[o] = "ok" => mine.st = "idle"

\* What steps an operation takes depends on what it is.
KindFits(o) ==
  /\ pc[o] \notin {"cleanup", "done"} => res[o] = "none"
  /\ pc[o] = "cleanup" => res[o] # "refused"
  /\ kind[o] = "none" => pc[o] = "new"
  /\ pc[o] \in {"put", "settle"} => kind[o] = "upload"
  /\ pc[o] \in {"headSource", "headFinal", "copy", "raced", "verify", "grace", "cleanup"} =>
       kind[o] \in {"upload", "publish"}
  /\ pc[o] = "head" => kind[o] \in {"readStream", "readBytes", "verify"}
  /\ pc[o] = "get" => kind[o] \in {"readStream", "readBytes"}
  /\ pc[o] = "yield" => kind[o] = "readStream"
  /\ pc[o] = "remove" => kind[o] = "delete"
  /\ pc[o] = "list" => kind[o] = "list"
  /\ call[Own(o)].st # "idle" /\ call[Own(o)].what = "put" => kind[o] = "upload"

\* The cleanup tasks of an operation begin when it leaves, and a call that waits
\* for a thread has the task that makes it.
TasksFit(o) ==
  /\ pc[o] \notin {"cleanup", "done"} \/ kind[o] \notin {"upload", "publish"} =>
       tasks[o].staging = "none" /\ tasks[o].eventual = "none"
  /\ call[<<o, "staging">>].st = "asked" => tasks[o].staging = "delete"
  /\ call[<<o, "late">>].st = "asked" => tasks[o].eventual = "late"
  /\ call[<<o, "eventual">>].st = "asked" => tasks[o].eventual = "delete"
  /\ tasks[o].staging = "none" => call[<<o, "staging">>].st = "idle"
  /\ tasks[o].eventual \in {"none", "wait"} => call[<<o, "late">>].st = "idle"
  /\ tasks[o].eventual \in {"none", "wait", "late"} => call[<<o, "eventual">>].st = "idle"
  /\ \A who \in Cleaners : /\ call[<<o, who>>].st # "half"
                           /\ call[<<o, who>>].st # "idle" => call[<<o, who>>].what = "remove"

\* The temporary file of a download has one holder: the thread that fills it,
\* the slot, or the reader.  A thread whose caller has left finds the slot
\* abandoned.
SpoolFits(o) ==
  /\ spool[o].file = "open" <=>
       kind[o] = "readStream" /\ call[Own(o)].what = "get" /\ call[Own(o)].st = "running"
  /\ spool[o].file = "open" => pc[o] = "get" \/ spool[o].abandoned
  /\ spool[o].file = "published" =>
       /\ pc[o] = "get" /\ call[Own(o)].st = "ended" /\ call[Own(o)].out = "ok"
       /\ kind[o] = "readStream"
  /\ spool[o].file = "owned" => pc[o] = "yield"
  /\ spool[o].abandoned => pc[o] = "done" /\ kind[o] = "readStream"

\* The task of who has not yet heard that its delete succeeded.
Owed(o, who) == call[<<o, who>>].st = "ended" => call[<<o, who>>].out # "ok"

\* A staging object that outlives its operation, or appears after it, has a task
\* that will still delete it.
StagingFits(o) ==
  /\ kind[o] = "upload" /\ (pc[o] = "new" \/ (pc[o] = "put" /\ call[Own(o)].st = "asked")) =>
       staged[o] = "none"
  /\ /\ kind[o] \in {"upload", "publish"} /\ pc[o] \in {"cleanup", "done"}
     /\ res[o] # "refused" /\ o \notin excused
     => /\ call[Own(o)].what = "put" /\ InThread(Own(o)) => tasks[o].eventual = "wait"
        /\ staged[o] # "none" =>
             \/ tasks[o].eventual \in {"wait", "late"}
             \/ tasks[o].eventual = "delete" /\ Owed(o, "eventual")
             \/ tasks[o].staging = "delete" /\ Owed(o, "staging")

OpOK(o) == CallFits(o) /\ KindFits(o) /\ TasksFit(o) /\ SpoolFits(o) /\ StagingFits(o)

\* Once the executor closes nothing is under way.
QuietWhenClosed ==
  close \in {"executor", "closed"} =>
     /\ \A o \in Ops : ~InProgress(o) /\ ~TaskLive(o)
     /\ \A c \in Callers : ~InThread(c)

\* There is one pipe and one page.
OneEach ==
  \A k \in {"upload", "list"} : \A o, p \in Ops : kind[o] = k /\ kind[p] = k => o = p

\* What the stream yielded is read, buffered or still to be written, unless the
\* reader is going to hear of a failure; so the end of the file is the end of
\* the stream.
PipeFits ==
  /\ cons.got + pipe.buf + prod.left <= prod.total
  /\ pipe.failure = "none" /\ ~pipe.stopped => cons.got + pipe.buf + prod.left = prod.total
  /\ prod.st \in {"none", "created", "next"} => prod.left = 0
  /\ prod.st \in {"none", "created", "next", "write", "wait"} => prod.res = "none"
  /\ prod.res = "ok" => prod.left = 0
  /\ pipe.eof => prod.res = "ok"
  /\ cons.st = "store" => prod.res = "ok" /\ cons.got = prod.total
  /\ pipe.stopped /\ cons.st # "none" => pipe.failure # "none"

\* The pipe is untouched until the upload has its thread, and read only by it.
UploadFits(o) ==
  kind[o] = "upload" =>
    /\ cons.st # "none" => InThread(Own(o)) /\ call[Own(o)].what = "put"
    /\ pc[o] = "new" \/ (pc[o] = "put" /\ call[Own(o)].st = "asked") =>
         prod.st = "none" /\ cons.st = "none" /\ ~pipe.stopped /\ ~pipe.eof

\* got is S in order.
Listed(got, S) ==
  /\ got \in Seq(Nat)
  /\ \A i, j \in 1 .. Len(got) : i < j => got[i] < got[j]
  /\ \A x : x \in S <=> \E i \in 1 .. Len(got) : got[i] = x

Old(n) == {i \in 1 .. n : page.bucket[i]}

\* What was returned so far is every old object up to the cursor.
PageFits ==
  /\ page \in [bucket : Seq(BOOLEAN), after : Nat, got : Seq(Nat)]
  /\ page.after <= Len(page.bucket)
  /\ \A o \in Ops : kind[o] = "list" =>
       Listed(page.got, Old(IF page.after = 0 /\ res[o] = "ok" THEN Len(page.bucket)
                                                              ELSE page.after))

StoreIInv ==
  /\ StoreTypeOK /\ CapacityFollowsThreads /\ QuietWhenClosed /\ OneEach
  /\ PipeFits /\ StagedWhole /\ PageFits
  /\ \A o \in Ops : OpOK(o) /\ UploadFits(o)

-----------------------------------------------------------------------------
(* The pipe.                                                               *)

LEMMA MinOfTwo ==
  ASSUME NEW a \in Nat, NEW b \in Nat
  PROVE  Min({a, b}) \in Nat /\ Min({a, b}) <= a /\ Min({a, b}) <= b /\ Min({a, b}) \in {a, b}
<1> DEFINE P(x) == x \in {a, b} /\ \A y \in {a, b} : x <= y
<1>1. \E x \in {a, b} : \A y \in {a, b} : x <= y
  OBVIOUS
<1>2. Min({a, b}) \in {a, b} /\ \A y \in {a, b} : Min({a, b}) <= y
  BY <1>1 DEF Min
<1> QED BY <1>2

PipeRec == [buf : 0 .. Capacity, eof : BOOLEAN, failure : Failures,
            stopped : BOOLEAN, space : BOOLEAN, wake : BOOLEAN]

PipeOK == PipeTypeOK /\ PipeFits

\* What failing the pipe, stopping it and waking its reader change.
LEMMA FailedIs ==
  ASSUME NEW p \in PipeRec, NEW f \in Failures \ {"none"}, NEW discard \in BOOLEAN
  PROVE  LET q == Failed(p, f, discard) IN
         /\ q \in PipeRec /\ q.failure # "none" /\ q.eof = p.eof /\ q.stopped = p.stopped
         /\ q.buf <= p.buf /\ (discard => q.buf = 0)
<1> DEFINE q == Failed(p, f, discard)
           n == IF discard THEN 0 ELSE p.buf
           g == IF p.failure = "none" THEN f ELSE p.failure
           u == [p EXCEPT !.buf = n, !.failure = g]
<1>1. n \in 0 .. Capacity /\ n <= p.buf /\ (discard => n = 0)
  BY PipeAssumption DEF PipeRec
<1>2. g \in Failures /\ g # "none"
  BY DEF PipeRec
<1>3. q = [u EXCEPT !.wake = TRUE]
  BY DEF Failed, WakeWriter
<1> HIDE DEF n, g
<1>4. u \in PipeRec /\ u.buf = n /\ u.failure = g
  BY <1>1, <1>2 DEF PipeRec
<1>5. u.eof = p.eof /\ u.stopped = p.stopped
  BY Zenon DEF PipeRec
<1> HIDE DEF u
<1>6. q \in PipeRec
  BY <1>3, <1>4, Zenon DEF PipeRec
<1>7. q.buf = n /\ q.failure = g
  BY <1>3, <1>4 DEF PipeRec
<1>8. q.eof = u.eof /\ q.stopped = u.stopped
  BY <1>3, <1>4, Zenon DEF PipeRec
<1> HIDE DEF q
<1>9. q \in PipeRec /\ q.failure # "none" /\ q.eof = p.eof /\ q.stopped = p.stopped
         /\ q.buf <= p.buf /\ (discard => q.buf = 0)
  BY <1>1, <1>2, <1>5, <1>6, <1>7, <1>8
<1> QED
  BY <1>9 DEF q

LEMMA StoppedIs ==
  ASSUME NEW p \in PipeRec
  PROVE  LET q == Stopped(p) IN
         /\ q \in PipeRec /\ q.stopped /\ q.buf = 0 /\ q.failure = p.failure /\ q.eof = p.eof
<1> DEFINE q == Stopped(p)
           u == [p EXCEPT !.stopped = TRUE, !.buf = 0]
<1>0. 0 \in 0 .. Capacity
  BY PipeAssumption
<1>1. u \in PipeRec
  BY <1>0, Zenon DEF PipeRec
<1>2. u.buf = 0 /\ u.failure = p.failure
  BY DEF PipeRec
<1>3. u.eof = p.eof /\ u.stopped = TRUE
  BY Zenon DEF PipeRec
<1>4. q = [u EXCEPT !.wake = TRUE]
  BY DEF Stopped, WakeWriter
<1> HIDE DEF u
<1>5. q \in PipeRec
  BY <1>1, <1>4, Zenon DEF PipeRec
<1>6. q.buf = u.buf /\ q.failure = u.failure
  BY <1>1, <1>4 DEF PipeRec
<1>7. q.eof = u.eof /\ q.stopped = u.stopped
  BY <1>1, <1>4, Zenon DEF PipeRec
<1> HIDE DEF q
<1>8. q \in PipeRec /\ q.stopped /\ q.buf = 0 /\ q.failure = p.failure /\ q.eof = p.eof
  BY <1>2, <1>3, <1>5, <1>6, <1>7
<1> QED
  BY <1>8 DEF q

ConsRec == [st : {"none", "read", "wait", "store"}, got : 0 .. MaxBytes]

ProdRec == [st : ProducerStates, total : 0 .. MaxBytes, left : 0 .. MaxBytes, cancel : BOOLEAN,
            res : {"none", "ok", "limit", "stream", "stopped", "cancelled"}]

LEMMA PipeTypes == PipeTypeOK <=> pipe \in PipeRec /\ prod \in ProdRec /\ cons \in ConsRec
BY DEF PipeTypeOK, PipeRec, ProdRec, ConsRec

LEMMA PipeTypesNext ==
  PipeTypeOK' <=> pipe' \in PipeRec /\ prod' \in ProdRec /\ cons' \in ConsRec
BY DEF PipeTypeOK, PipeRec, ProdRec, ConsRec

LEMMA NotifyIs ==
  ASSUME cons \in ConsRec
  PROVE  /\ Notify(cons) \in ConsRec /\ Notify(cons).got = cons.got
         /\ Notify(cons).st = "none" <=> cons.st = "none"
         /\ Notify(cons).st = "store" <=> cons.st = "store"
         /\ cons.st = "none" => Notify(cons) = cons
BY DEF ConsRec, Notify

\* The producer task ends, or is told to.
LEMMA ProdIs ==
  ASSUME prod \in ProdRec
  PROVE  /\ \A r \in {"ok", "limit", "stream", "stopped", "cancelled"} : \A st \in {"closing", "done"} :
              LET q == [prod EXCEPT !.st = st, !.res = r] IN
              q \in ProdRec /\ q.st = st /\ q.res = r /\ q.total = prod.total /\ q.left = prod.left
         /\ \A b \in BOOLEAN :
              LET q == [prod EXCEPT !.cancel = b] IN
              /\ q \in ProdRec /\ q.st = prod.st /\ q.res = prod.res /\ q.total = prod.total
              /\ q.left = prod.left
BY Zenon DEF ProdRec, ProducerStates

\* The pipe keeps its books when a side fails it, and when the reader that has
\* left stops it.
LEMMA FailedOK ==
  ASSUME PipeOK, NEW f \in Failures \ {"none"}, NEW discard \in BOOLEAN,
         pipe' = Failed(pipe, f, discard), UNCHANGED prod,
         cons' = cons \/ cons' = Notify(cons)
  PROVE  PipeOK' /\ pipe'.eof = pipe.eof /\ pipe'.stopped = pipe.stopped
<1>1. pipe \in PipeRec /\ cons \in ConsRec /\ prod \in ProdRec /\ PipeFits
  BY PipeTypes DEF PipeOK
<1>2. /\ pipe' \in PipeRec /\ pipe'.failure # "none" /\ pipe'.eof = pipe.eof
      /\ pipe'.stopped = pipe.stopped /\ pipe'.buf <= pipe.buf
  BY <1>1, FailedIs
<1>3. cons' \in ConsRec /\ cons'.got = cons.got /\ (cons'.st = "store" => cons.st = "store")
  BY <1>1, NotifyIs
<1>4. PipeFits'
  BY <1>1, <1>2, <1>3, PipeAssumption DEF PipeFits, PipeRec, ConsRec, ProdRec
<1> QED
  BY <1>1, <1>2, <1>3, <1>4, PipeTypesNext DEF PipeOK

LEMMA FailPipeOK ==
  ASSUME PipeOK, FailPipe
  PROVE  PipeOK' /\ (cons'.st # "none" => cons.st # "none") /\ prod'.st = prod.st
<1>1. pipe \in PipeRec /\ cons \in ConsRec /\ prod \in ProdRec /\ PipeFits
  BY PipeTypes DEF PipeOK
<1> DEFINE p == Failed(pipe, "cancelled", TRUE)
<1>2. p \in PipeRec /\ p.failure # "none" /\ p.eof = pipe.eof
  BY <1>1, FailedIs DEF Failures
<1>3. pipe' = Stopped(p) /\ cons' = Notify(cons) /\ prod' = [prod EXCEPT !.cancel = prod.st # "done"]
  BY DEF FailPipe
<1> HIDE DEF p
<1>4. pipe' \in PipeRec /\ pipe'.failure # "none" /\ pipe'.eof = pipe.eof /\ pipe'.buf = 0
  BY <1>2, <1>3, StoppedIs
<1>5. /\ cons' \in ConsRec /\ cons'.got = cons.got /\ (cons'.st = "store" => cons.st = "store")
      /\ cons'.st = "none" <=> cons.st = "none"
  BY <1>1, <1>3, NotifyIs
<1>6. /\ prod' \in ProdRec /\ prod'.st = prod.st /\ prod'.res = prod.res
      /\ prod'.total = prod.total /\ prod'.left = prod.left
  <2>1. (prod.st # "done") \in BOOLEAN
    OBVIOUS
  <2> QED BY <1>1, <1>3, <2>1, ProdIs, Zenon
<1>7. PipeFits'
  BY <1>1, <1>4, <1>5, <1>6, PipeAssumption DEF PipeFits, PipeRec, ConsRec, ProdRec
<1> QED
  BY <1>4, <1>5, <1>6, <1>7, PipeTypesNext DEF PipeOK

LEMMA StopPipeOK ==
  ASSUME PipeOK, StopPipe, cons.st = "none"
  PROVE  PipeOK' /\ cons' = cons /\ prod'.st = prod.st
<1>1. pipe \in PipeRec /\ cons \in ConsRec /\ prod \in ProdRec /\ PipeFits
  BY PipeTypes DEF PipeOK
<1>3. pipe' = Stopped(pipe) /\ cons' = Notify(cons) /\ prod' = [prod EXCEPT !.cancel = prod.st # "done"]
  BY DEF StopPipe
<1>4. pipe' \in PipeRec /\ pipe'.failure = pipe.failure /\ pipe'.eof = pipe.eof /\ pipe'.buf = 0
      /\ pipe'.stopped
  BY <1>1, <1>3, StoppedIs
<1>5. cons' = cons
  BY <1>1, <1>3, NotifyIs
<1>6. /\ prod' \in ProdRec /\ prod'.st = prod.st /\ prod'.res = prod.res
      /\ prod'.total = prod.total /\ prod'.left = prod.left
  <2>1. (prod.st # "done") \in BOOLEAN
    OBVIOUS
  <2> QED BY <1>1, <1>3, <2>1, ProdIs, Zenon
<1>7. PipeFits'
  BY <1>1, <1>4, <1>5, <1>6, PipeAssumption DEF PipeFits, PipeRec, ConsRec, ProdRec
<1> QED
  BY <1>1, <1>4, <1>5, <1>6, <1>7, PipeTypesNext DEF PipeOK

\* put_object is over.
LEMMA EndPutOK ==
  ASSUME PipeOK, pipe' = Stopped(pipe), cons' = [cons EXCEPT !.st = "none"], UNCHANGED prod
  PROVE  PipeOK' /\ cons'.st = "none"
<1>1. pipe \in PipeRec /\ cons \in ConsRec /\ prod \in ProdRec /\ PipeFits
  BY PipeTypes DEF PipeOK
<1>4. pipe' \in PipeRec /\ pipe'.failure = pipe.failure /\ pipe'.eof = pipe.eof /\ pipe'.buf = 0
      /\ pipe'.stopped
  BY <1>1, StoppedIs
<1>5. cons' \in ConsRec /\ cons'.st = "none" /\ cons'.got = cons.got
  BY <1>1 DEF ConsRec
<1>7. PipeFits'
  BY <1>1, <1>4, <1>5, PipeAssumption DEF PipeFits, PipeRec, ConsRec, ProdRec
<1> QED
  BY <1>1, <1>4, <1>5, <1>7, PipeTypesNext DEF PipeOK

\* put_object begins.
LEMMA StartPutOK ==
  ASSUME PipeOK, prod.st = "none", cons.st = "none", ~pipe.stopped,
         cons' = [cons EXCEPT !.st = "read"], prod' = [prod EXCEPT !.st = "created"],
         UNCHANGED pipe
  PROVE  PipeOK'
BY PipeAssumption DEF PipeOK, PipeTypeOK, PipeFits, ProducerStates

\* The producer: before the task exists only the callback of a wake-up runs.
BeforeTask ==
  prod.st = "none" => /\ prod'.st = "none" /\ cons' = cons
                      /\ pipe'.eof = pipe.eof /\ pipe'.stopped = pipe.stopped

\* The producer ends with an error that the pipe keeps, or was told of.
LEMMA ProducerFails ==
  ASSUME PipeOK, prod.st \in {"next", "write", "wait"},
         NEW f \in Failures \ {"none"}, NEW discard \in BOOLEAN,
         pipe' = Failed(pipe, f, discard), cons' = Notify(cons),
         NEW r \in {"limit", "stream", "stopped", "cancelled"}, EndProducer(r)
  PROVE  PipeOK' /\ (cons'.st # "none" => cons.st # "none")
<1>1. pipe \in PipeRec /\ cons \in ConsRec /\ prod \in ProdRec /\ PipeFits
  BY PipeTypes DEF PipeOK
<1>2. /\ pipe' \in PipeRec /\ pipe'.failure # "none" /\ pipe'.eof = pipe.eof
      /\ pipe'.stopped = pipe.stopped /\ pipe'.buf <= pipe.buf
  BY <1>1, FailedIs
<1>3. /\ cons' \in ConsRec /\ cons'.got = cons.got /\ (cons'.st = "store" => cons.st = "store")
      /\ cons'.st # "none" => cons.st # "none"
  BY <1>1, NotifyIs
<1>4. /\ prod' \in ProdRec /\ prod'.st = "closing" /\ prod'.res = r
      /\ prod'.total = prod.total /\ prod'.left = prod.left
  <2>1. r \in {"ok", "limit", "stream", "stopped", "cancelled"} /\ "closing" \in {"closing", "done"}
    OBVIOUS
  <2>2. prod' = [prod EXCEPT !.st = "closing", !.res = r]
    BY DEF EndProducer
  <2> QED
    BY <1>1, <2>1, <2>2, ProdIs, Zenon
<1>5. PipeFits'
  BY <1>1, <1>2, <1>3, <1>4, PipeAssumption DEF PipeFits, PipeRec, ConsRec, ProdRec
<1> QED
  BY <1>2, <1>3, <1>4, <1>5, PipeTypesNext DEF PipeOK

LEMMA ProducerOK ==
  ASSUME PipeOK, Producer
  PROVE  PipeOK' /\ (cons'.st # "none" => cons.st # "none") /\ BeforeTask
<1>0. pipe \in PipeRec /\ cons \in ConsRec /\ prod \in ProdRec /\ PipeFits
  BY PipeTypes DEF PipeOK
<1>1. CASE StartProducer
  BY <1>1, PipeAssumption DEF PipeOK, PipeTypeOK, PipeFits, ProducerStates, StartProducer, BeforeTask
<1>2. CASE StreamExhausted
  <2>1. /\ prod.st = "next" /\ pipe' = [pipe EXCEPT !.eof = TRUE] /\ cons' = Notify(cons)
        /\ prod' = [prod EXCEPT !.st = "closing", !.res = "ok"]
    BY <1>2 DEF StreamExhausted, EndProducer
  <2>2. pipe' \in PipeRec /\ pipe'.stopped = pipe.stopped
    BY <1>0, <2>1, Zenon DEF PipeRec
  <2>3. pipe'.buf = pipe.buf /\ pipe'.failure = pipe.failure
    BY <1>0, <2>1 DEF PipeRec
  <2>4. /\ prod' \in ProdRec /\ prod'.st = "closing" /\ prod'.res = "ok"
        /\ prod'.total = prod.total /\ prod'.left = prod.left
    BY <1>0, <2>1, ProdIs, Zenon
  <2>5. /\ cons' \in ConsRec /\ cons'.got = cons.got /\ (cons'.st = "store" => cons.st = "store")
        /\ cons'.st # "none" => cons.st # "none"
    BY <1>0, <2>1, NotifyIs
  <2>6. PipeFits'
    BY <1>0, <2>1, <2>2, <2>3, <2>4, <2>5, PipeAssumption DEF PipeFits, PipeRec, ConsRec, ProdRec
  <2> QED
    BY <2>1, <2>2, <2>4, <2>5, <2>6, PipeTypesNext DEF PipeOK, BeforeTask
<1>3. CASE StreamBreaks
  <2>1. prod.st = "next" /\ "stream" \in Failures \ {"none"} /\ FALSE \in BOOLEAN
    BY <1>3 DEF StreamBreaks, Failures
  <2> QED
    BY <1>3, <2>1, ProducerFails DEF StreamBreaks, BeforeTask
<1>4. CASE Write
  <2>1. Piece \in Nat /\ Piece <= prod.left /\ Piece <= Capacity - pipe.buf
    <3>1. prod.left \in Nat /\ Capacity - pipe.buf \in Nat
      BY <1>0, PipeAssumption DEF PipeRec, ProdRec
    <3> QED BY <3>1, MinOfTwo DEF Piece
  <2>2. CASE pipe.failure # "none" \/ pipe.stopped
    <3>1. /\ prod.st = "write" /\ pipe' = Failed(pipe, "stream", FALSE) /\ cons' = Notify(cons)
          /\ EndProducer("stream") \/ EndProducer("stopped")
      BY <1>4, <2>2 DEF Write
    <3>2. "stream" \in Failures \ {"none"} /\ FALSE \in BOOLEAN
      BY DEF Failures
    <3> QED
      BY <3>1, <3>2, ProducerFails DEF BeforeTask
  <2>3. CASE pipe.failure = "none" /\ ~pipe.stopped /\ pipe.buf < Capacity
    <3> DEFINE room == pipe.space /\ pipe.buf + Piece < Capacity
               at == IF prod.left = Piece THEN "next" ELSE "write"
    <3>0. ~(pipe.buf >= Capacity) /\ ~(pipe.failure # "none" \/ pipe.stopped)
      BY <1>0, <2>3, PipeAssumption DEF PipeRec
    <3>1. /\ pipe' = [pipe EXCEPT !.buf = pipe.buf + Piece, !.space = room]
          /\ cons' = Notify(cons)
          /\ prod' = [prod EXCEPT !.left = prod.left - Piece, !.st = at]
          /\ prod.st = "write"
      BY <1>4, <3>0, Zenon DEF Write
    <3>2. room \in BOOLEAN /\ at \in ProducerStates /\ at \in {"next", "write"}
          /\ (at = "next" => prod.left = Piece)
      BY DEF ProducerStates
    <3>3. pipe.buf + Piece \in 0 .. Capacity /\ prod.left - Piece \in 0 .. MaxBytes
      BY <1>0, <2>1, PipeAssumption DEF PipeRec, ProdRec
    <3> HIDE DEF room, at, Piece
    <3>4. pipe' \in PipeRec /\ pipe'.stopped = pipe.stopped /\ pipe'.eof = pipe.eof
      BY <1>0, <3>1, <3>2, <3>3, Zenon DEF PipeRec
    <3>5. pipe'.buf = pipe.buf + Piece /\ pipe'.failure = pipe.failure
      BY <1>0, <3>1 DEF PipeRec
    <3>6. prod' \in ProdRec
      BY <1>0, <3>1, <3>2, <3>3, Zenon DEF ProdRec
    <3>7. prod'.left = prod.left - Piece /\ prod'.st = at /\ prod'.total = prod.total
          /\ prod'.res = prod.res
      BY <1>0, <3>1 DEF ProdRec
    <3>8. /\ cons' \in ConsRec /\ cons'.got = cons.got /\ (cons'.st = "store" => cons.st = "store")
          /\ cons'.st # "none" => cons.st # "none"
      BY <1>0, <3>1, NotifyIs
    <3>9. PipeFits'
      BY <1>0, <2>1, <2>3, <3>1, <3>2, <3>3, <3>4, <3>5, <3>6, <3>7, <3>8, PipeAssumption
         DEF PipeFits, PipeRec, ConsRec, ProdRec
    <3> QED
      BY <3>1, <3>4, <3>6, <3>8, <3>9, PipeTypesNext DEF PipeOK, BeforeTask
  <2>4. CASE pipe.failure = "none" /\ ~pipe.stopped /\ pipe.buf >= Capacity
    <3>0. ~(pipe.buf < Capacity) /\ ~(pipe.failure # "none" \/ pipe.stopped)
      BY <1>0, <2>4, PipeAssumption DEF PipeRec
    <3>1. /\ pipe' = [pipe EXCEPT !.space = FALSE] /\ prod' = [prod EXCEPT !.st = "wait"]
          /\ cons' = cons /\ prod.st = "write"
      BY <1>4, <3>0, Zenon DEF Write
    <3>2. pipe' \in PipeRec /\ pipe'.stopped = pipe.stopped /\ pipe'.eof = pipe.eof
      BY <1>0, <3>1, Zenon DEF PipeRec
    <3>3. pipe'.buf = pipe.buf /\ pipe'.failure = pipe.failure
      BY <1>0, <3>1 DEF PipeRec
    <3>4. prod' \in ProdRec /\ prod'.st = "wait" /\ prod'.total = prod.total
          /\ prod'.res = prod.res /\ prod'.left = prod.left
      BY <1>0, <3>1 DEF ProdRec, ProducerStates
    <3>5. PipeFits'
      BY <1>0, <3>1, <3>2, <3>3, <3>4, PipeAssumption DEF PipeFits, PipeRec, ConsRec, ProdRec
    <3> QED
      BY <1>0, <3>1, <3>2, <3>4, <3>5, PipeTypesNext DEF PipeOK, BeforeTask
  <2> QED
    BY <1>0, <2>2, <2>3, <2>4, PipeAssumption DEF PipeRec
<1>5. CASE SetSpace
  <2>1. pipe' = [pipe EXCEPT !.wake = FALSE, !.space = TRUE] /\ UNCHANGED <<prod, cons>>
    BY <1>5 DEF SetSpace
  <2>2. pipe' \in PipeRec /\ pipe'.stopped = pipe.stopped /\ pipe'.eof = pipe.eof
    BY <1>0, <2>1, Zenon DEF PipeRec
  <2>3. pipe'.buf = pipe.buf /\ pipe'.failure = pipe.failure
    BY <1>0, <2>1 DEF PipeRec
  <2>4. PipeFits'
    BY <1>0, <2>1, <2>2, <2>3, PipeAssumption DEF PipeFits, PipeRec, ConsRec, ProdRec
  <2> QED
    BY <1>0, <2>1, <2>2, <2>4, PipeTypesNext DEF PipeOK, BeforeTask
<1>6. CASE SpaceAvailable
  BY <1>6, PipeAssumption
     DEF PipeOK, PipeTypeOK, PipeFits, ProducerStates, SpaceAvailable, BeforeTask
<1>7. CASE ProducerCancelled
  <2>1. CASE prod.st = "created"
    <3>1. prod' = [prod EXCEPT !.st = "done", !.res = "cancelled"] /\ UNCHANGED <<pipe, cons>>
      BY <1>7, <2>1 DEF ProducerCancelled
    <3>2. /\ prod' \in ProdRec /\ prod'.st = "done" /\ prod'.res = "cancelled"
          /\ prod'.total = prod.total /\ prod'.left = prod.left
      BY <1>0, <3>1, ProdIs, Zenon
    <3>3. PipeFits'
      BY <1>0, <2>1, <3>1, <3>2, PipeAssumption DEF PipeFits, PipeRec, ConsRec, ProdRec
    <3> QED
      BY <1>0, <2>1, <3>1, <3>2, <3>3, PipeTypesNext DEF PipeOK, BeforeTask
  <2>2. CASE prod.st \in {"next", "wait"}
    <3>1. "cancelled" \in Failures \ {"none"} /\ TRUE \in BOOLEAN
      BY DEF Failures
    <3>2. pipe' = Failed(pipe, "cancelled", TRUE) /\ cons' = Notify(cons) /\ EndProducer("cancelled")
      BY <1>7, <2>2 DEF ProducerCancelled
    <3> QED
      BY <2>2, <3>1, <3>2, ProducerFails DEF BeforeTask
  <2> QED
    BY <1>7, <2>1, <2>2 DEF ProducerCancelled
<1>8. CASE ProducerDone
  BY <1>8, PipeAssumption
     DEF PipeOK, PipeTypeOK, PipeFits, ProducerStates, ProducerDone, BeforeTask
<1>9. ASSUME NEW n \in ChunkSizes, NextChunk(n)
      PROVE  PipeOK' /\ (cons'.st # "none" => cons.st # "none") /\ BeforeTask
  <2>1. CASE prod.total + n > MaxBytes
    <3>1. "limit" \in Failures \ {"none"} /\ FALSE \in BOOLEAN
      BY DEF Failures
    <3>2. /\ pipe' = Failed(pipe, "limit", FALSE) /\ cons' = Notify(cons) /\ EndProducer("limit")
          /\ prod.st = "next"
      BY <1>9, <2>1 DEF NextChunk
    <3> QED
      BY <3>1, <3>2, ProducerFails DEF BeforeTask
  <2>2. CASE ~(prod.total + n > MaxBytes)
    <3>1. /\ prod' = [prod EXCEPT !.st = "write", !.left = n, !.total = prod.total + n]
          /\ UNCHANGED <<pipe, cons>> /\ prod.st = "next"
      BY <1>9, <2>2 DEF NextChunk
    <3>2. n \in 0 .. MaxBytes /\ prod.total + n \in 0 .. MaxBytes
      BY <1>0, <2>2, PipeAssumption DEF ProdRec
    <3>3. /\ prod' \in ProdRec /\ prod'.st = "write" /\ prod'.total = prod.total + n
          /\ prod'.res = prod.res /\ prod'.left = n
      BY <1>0, <3>1, <3>2 DEF ProdRec, ProducerStates
    <3>4. PipeFits'
      BY <1>0, <3>1, <3>2, <3>3, PipeAssumption DEF PipeFits, PipeRec, ConsRec, ProdRec
    <3> QED
      BY <1>0, <3>1, <3>3, <3>4, PipeTypesNext DEF PipeOK, BeforeTask
  <2> QED
    BY <2>1, <2>2
<1> QED
  BY <1>1, <1>2, <1>3, <1>4, <1>5, <1>6, <1>7, <1>8, <1>9 DEF Producer

\* The reader: the end of the file is the end of the stream.
LEMMA ReadOK ==
  ASSUME PipeOK, Read
  PROVE  PipeOK' /\ cons.st # "none" /\ UNCHANGED prod
<1>0. pipe \in PipeRec /\ cons \in ConsRec /\ prod \in ProdRec /\ PipeFits
  BY PipeTypes DEF PipeOK
<1>1. CASE ReadSees = "data"
  <2>1. PICK n \in 1 .. pipe.buf : /\ pipe' = WakeWriter([pipe EXCEPT !.buf = pipe.buf - n])
                                   /\ cons' = [cons EXCEPT !.got = cons.got + n]
    BY <1>1 DEF Read
  <2>2. cons.got + n \in 0 .. MaxBytes /\ pipe.buf - n \in 0 .. Capacity
    BY <1>0, PipeAssumption DEF PipeFits, PipeRec, ConsRec, ProdRec
  <2> DEFINE u == [pipe EXCEPT !.buf = pipe.buf - n]
  <2>3. u \in PipeRec /\ u.buf = pipe.buf - n /\ u.failure = pipe.failure
    BY <1>0, <2>2 DEF PipeRec
  <2>4. u.eof = pipe.eof /\ u.stopped = pipe.stopped
    BY <1>0, Zenon DEF PipeRec
  <2>5. pipe' = [u EXCEPT !.wake = TRUE]
    BY <2>1 DEF WakeWriter
  <2> HIDE DEF u
  <2>6. pipe' \in PipeRec /\ pipe'.eof = u.eof /\ pipe'.stopped = u.stopped
    BY <2>3, <2>5, Zenon DEF PipeRec
  <2>7. pipe'.buf = pipe.buf - n /\ pipe'.failure = pipe.failure
    BY <2>3, <2>5 DEF PipeRec
  <2>8. cons' \in ConsRec /\ cons'.st = cons.st /\ cons'.got = cons.got + n /\ cons.st = "read"
        /\ prod' = prod
    BY <1>0, <2>1, <2>2 DEF ConsRec, Read
  <2>9. PipeFits'
    BY <1>0, <2>4, <2>6, <2>7, <2>8, PipeAssumption DEF PipeFits, PipeRec, ConsRec, ProdRec
  <2> QED
    BY <1>0, <2>6, <2>8, <2>9, PipeTypesNext DEF PipeOK
<1>2. CASE ReadSees = "end"
  <2>1. cons' = [cons EXCEPT !.st = "store"] /\ UNCHANGED <<pipe, prod>> /\ cons.st = "read"
    BY <1>2 DEF Read
  <2>2. pipe.buf = 0 /\ pipe.failure = "none" /\ (pipe.eof \/ pipe.stopped)
    BY <1>0, <1>2, PipeAssumption DEF ReadSees, PipeRec
  <2>3. cons' \in ConsRec /\ cons'.st = "store" /\ cons'.got = cons.got
    BY <1>0, <2>1 DEF ConsRec
  <2>4. pipe.eof /\ ~pipe.stopped
    BY <1>0, <2>1, <2>2 DEF PipeFits
  <2>5. prod.res = "ok" /\ cons.got = prod.total
    BY <1>0, <2>2, <2>4, PipeAssumption DEF PipeFits, ConsRec, ProdRec
  <2>6. PipeFits'
    BY <1>0, <2>1, <2>3, <2>4, <2>5 DEF PipeFits
  <2> QED
    BY <1>0, <2>1, <2>3, <2>6, PipeTypesNext DEF PipeOK
<1>3. CASE ReadSees = "nothing"
  <2>1. cons' = [cons EXCEPT !.st = "wait"] /\ UNCHANGED <<pipe, prod>> /\ cons.st = "read"
    BY <1>3 DEF Read
  <2>2. cons' \in ConsRec /\ cons'.st = "wait" /\ cons'.got = cons.got
    BY <1>0, <2>1 DEF ConsRec
  <2>3. PipeFits'
    BY <1>0, <2>1, <2>2 DEF PipeFits
  <2> QED
    BY <1>0, <2>1, <2>2, <2>3, PipeTypesNext DEF PipeOK
<1> QED
  BY <1>1, <1>2, <1>3 DEF Read

-----------------------------------------------------------------------------
(* Callers, threads and operations.                                        *)

Who == {"op"} \union Cleaners

Results == {"none", "ok", "reused", "conflict", "unavailable", "failed", "limit", "stream",
            "cancelled", "refused"}

Places == Steps \union {"new", "grace", "settle", "yield", "cleanup", "done"}

CallRec == [st : {"idle", "asked", "running", "half", "ended"}, what : Steps, out : Outcomes]

TaskRec == [staging : {"none", "delete", "done"},
            eventual : {"none", "wait", "late", "delete", "done"}]

SpoolRec == [file : {"none", "open", "published", "owned", "closed"}, abandoned : BOOLEAN]

\* The types of what an operation's step changes.
OpTypes ==
  /\ pc \in [Ops -> Places] /\ res \in [Ops -> Results] /\ hit \in [Ops -> BOOLEAN]
  /\ cancel \in [Ops -> {"no", "never", "caller", "close"}]
  /\ call \in [Callers -> CallRec] /\ tasks \in [Ops -> TaskRec] /\ spool \in [Ops -> SpoolRec]
  /\ excused \subseteq Ops

\* The types of the rest.
RestTypes ==
  /\ kind \in [Ops -> Kinds] /\ want \in [Ops -> Payloads]
  /\ active \in 0 .. MaxWorkers /\ ended \in 0 .. MaxWorkers
  /\ exec \in [st : {"open", "closed"}, workers : 1 .. MaxWorkers, busy : 0 .. MaxWorkers]
  /\ active <= exec.workers
  /\ close \in {"open", "kept", "drain", "executor", "retire", "closed", "failed"}
  /\ staged \in [Ops -> Payloads \union {"none", "partial"}]
  /\ final \in Payloads \union {"none"} /\ rival \in Payloads \union {"none"}

LEMMA Types == StoreTypeOK <=> OpTypes /\ RestTypes /\ PipeTypeOK
BY DEF StoreTypeOK, OpTypes, RestTypes, Results, Places, CallRec, TaskRec, SpoolRec

LEMMA TypesNext == StoreTypeOK' <=> OpTypes' /\ RestTypes' /\ PipeTypeOK'
BY DEF StoreTypeOK, OpTypes, RestTypes, Results, Places, CallRec, TaskRec, SpoolRec

LEMMA CallerParts ==
  /\ \A o \in Ops : \A w \in Who : <<o, w>> \in Callers /\ <<o, w>>[1] = o /\ <<o, w>>[2] = w
  /\ \A o \in Ops : Own(o) \in Callers /\ Own(o) = <<o, "op">> /\ Own(o)[1] = o /\ Own(o)[2] = "op"
  /\ \A c \in Callers : c[1] \in Ops /\ c[2] \in Who /\ c = <<c[1], c[2]>>
BY DEF Callers, Own, Who, Cleaners

Threads == {c \in Callers : InThread(c)}

LEMMA ThreadsFinite ==
  IsFiniteSet(Callers) /\ IsFiniteSet(Threads) /\ Cardinality(Threads) \in Nat
<1>1. IsFiniteSet({"op", "staging", "late", "eventual"})
  <2>1. IsFiniteSet({}) 
    BY FS_EmptySet
  <2>2. IsFiniteSet({} \cup {"op"}) 
    BY <2>1, FS_AddElement
  <2>3. IsFiniteSet({} \cup {"op"} \cup {"staging"})
    BY <2>2, FS_AddElement
  <2>4. IsFiniteSet({} \cup {"op"} \cup {"staging"} \cup {"late"})
    BY <2>3, FS_AddElement
  <2>5. IsFiniteSet({} \cup {"op"} \cup {"staging"} \cup {"late"} \cup {"eventual"})
    BY <2>4, FS_AddElement
  <2>6. {} \cup {"op"} \cup {"staging"} \cup {"late"} \cup {"eventual"}
          = {"op", "staging", "late", "eventual"}
    OBVIOUS
  <2> QED BY <2>5, <2>6
<1>2. IsFiniteSet(Callers)
  BY <1>1, StartsAssumption, FS_Product DEF Callers
<1>3. IsFiniteSet(Threads)
  BY <1>2, FS_Subset DEF Threads
<1> QED
  BY <1>2, <1>3, FS_CardinalityType

\* The executor's books when no call enters or leaves a thread, when one
\* enters and when one leaves.
LEMMA SameThreads ==
  ASSUME CapacityFollowsThreads, \A c \in Callers : InThread(c)' <=> InThread(c),
         UNCHANGED <<active, ended, exec>>
  PROVE  CapacityFollowsThreads'
<1>1. Threads' = Threads
  BY DEF Threads
<1> QED
  BY <1>1 DEF Threads, CapacityFollowsThreads

LEMMA ThreadEnters ==
  ASSUME RestTypes, CapacityFollowsThreads, NEW c \in Callers, ~InThread(c), InThread(c)',
         \A d \in Callers \ {c} : InThread(d)' <=> InThread(d),
         active' = active + 1, UNCHANGED <<ended, exec>>
  PROVE  CapacityFollowsThreads'
<1>1. Threads' = Threads \cup {c} /\ c \notin Threads
  BY DEF Threads
<1>2. Cardinality(Threads') = Cardinality(Threads) + 1
  BY <1>1, ThreadsFinite, FS_AddElement
<1> QED
  BY <1>2, ThreadsFinite DEF Threads, CapacityFollowsThreads, RestTypes

LEMMA ThreadLeaves ==
  ASSUME RestTypes, CapacityFollowsThreads, NEW c \in Callers, InThread(c), ~InThread(c)',
         \A d \in Callers \ {c} : InThread(d)' <=> InThread(d),
         ended' = ended + 1, UNCHANGED <<active, exec>>
  PROVE  CapacityFollowsThreads' /\ ended' \in 0 .. MaxWorkers
<1>1. Threads' = Threads \ {c} /\ c \in Threads
  BY DEF Threads
<1>2. Cardinality(Threads') = Cardinality(Threads) - 1
  BY <1>1, ThreadsFinite, FS_RemoveElement
<1>3. IsFiniteSet(Threads')
  BY <1>1, ThreadsFinite, FS_Subset
<1>4. Cardinality(Threads') \in Nat
  BY <1>3, FS_CardinalityType
<1> QED
  BY <1>2, <1>4, ThreadsFinite, StoreAssumption DEF Threads, CapacityFollowsThreads, RestTypes

\* A step that concerns operation o alone.
OnlyOp(o) ==
  /\ UNCHANGED kind
  /\ \A p \in Ops \ {o} : /\ pc'[p] = pc[p] /\ res'[p] = res[p] /\ tasks'[p] = tasks[p]
                          /\ spool'[p] = spool[p] /\ staged'[p] = staged[p]
  /\ \A c \in Callers : c[1] # o => call'[c] = call[c]
  /\ excused \subseteq excused'

LEMMA OtherOps ==
  ASSUME StoreIInv, NEW o \in Ops, OnlyOp(o), NEW p \in Ops \ {o}
  PROVE  OpOK(p)'
<1>1. OpOK(p)
  BY DEF StoreIInv
<1>2. /\ call'[Own(p)] = call[Own(p)] /\ call'[<<p, "staging">>] = call[<<p, "staging">>]
      /\ call'[<<p, "late">>] = call[<<p, "late">>]
      /\ call'[<<p, "eventual">>] = call[<<p, "eventual">>]
  BY CallerParts DEF OnlyOp, Who, Cleaners
<1>3. /\ pc'[p] = pc[p] /\ res'[p] = res[p] /\ tasks'[p] = tasks[p] /\ kind'[p] = kind[p]
      /\ spool'[p] = spool[p] /\ staged'[p] = staged[p] /\ (p \in excused => p \in excused')
  BY DEF OnlyOp
<1>4. CallFits(p)' /\ KindFits(p)'
  BY <1>1, <1>2, <1>3 DEF OpOK, CallFits, KindFits
<1>5. TasksFit(p)'
  BY <1>1, <1>2, <1>3 DEF OpOK, TasksFit, Cleaners
<1>6. SpoolFits(p)'
  BY <1>1, <1>2, <1>3 DEF OpOK, SpoolFits
<1>7. StagingFits(p)'
  BY <1>1, <1>2, <1>3 DEF OpOK, StagingFits, Owed, InThread
<1> QED
  BY <1>4, <1>5, <1>6, <1>7 DEF OpOK

\* The pipe belongs to the one upload there is.
LEMMA UploadKept ==
  ASSUME StoreIInv, NEW o \in Ops, OnlyOp(o),
         \A c \in Callers : InThread(c)' <=> InThread(c),
         InThread(Own(o)) => call'[Own(o)].what = call[Own(o)].what,
         cons'.st # "none" => cons.st # "none",
         \/ UNCHANGED pipeVars /\ (pc'[o] \in {"new", "put"} => kind[o] # "upload" \/ pc[o] = "new")
         \/ kind[o] = "upload" /\ pc'[o] \notin {"new", "put"}
  PROVE  \A p \in Ops : UploadFits(p)'
<1> SUFFICES ASSUME NEW p \in Ops, kind[p] = "upload"
             PROVE  UploadFits(p)'
  BY DEF UploadFits, OnlyOp
<1>1. UploadFits(p) /\ UploadFits(o) /\ OneEach
  BY DEF StoreIInv
<1>2. Own(p) \in Callers /\ Own(p)[1] = p
  BY CallerParts
<1>3. CASE p = o
  BY <1>1, <1>2, <1>3 DEF UploadFits, OnlyOp, pipeVars
<1>4. CASE p # o
  <2>1. call'[Own(p)] = call[Own(p)] /\ pc'[p] = pc[p] /\ UNCHANGED pipeVars
    BY <1>1, <1>2, <1>4 DEF OnlyOp, OneEach
  <2> QED
    BY <1>1, <1>2, <1>4, <2>1 DEF UploadFits, OnlyOp, pipeVars
<1> QED
  BY <1>3, <1>4

LEMMA PageKept ==
  ASSUME PageFits, UNCHANGED <<kind, page>>,
         \A o \in Ops : kind[o] = "list" /\ page.after = 0 => (res'[o] = "ok" <=> res[o] = "ok")
  PROVE  PageFits'
BY DEF PageFits, Old

\* A step of one operation or of its tasks, that leaves threads and objects alone.
LEMMA OpStepKeeps ==
  ASSUME StoreIInv, NEW o \in Ops, OnlyOp(o), OpTypes', OpOK(o)',
         \A c \in Callers : InThread(c)' <=> InThread(c),
         UNCHANGED <<kind, want, active, ended, exec, close, objectVars>>,
         close \in {"executor", "closed"} => ~InProgress(o)' /\ ~TaskLive(o)',
         PipeOK', \A p \in Ops : UploadFits(p)', PageFits'
  PROVE  StoreIInv'
<1>1. StoreTypeOK'
  <2>1. RestTypes
    BY Types DEF StoreIInv
  <2>2. RestTypes'
    BY <2>1 DEF RestTypes, objectVars
  <2> QED
    BY <2>2, TypesNext DEF PipeOK
<1>2. CapacityFollowsThreads'
  BY SameThreads DEF StoreIInv
<1>3. QuietWhenClosed'
  <2> SUFFICES ASSUME close \in {"executor", "closed"}
               PROVE  /\ \A p \in Ops : ~InProgress(p)' /\ ~TaskLive(p)'
                      /\ \A c \in Callers : ~InThread(c)'
    BY DEF QuietWhenClosed
  <2>1. /\ \A p \in Ops : ~InProgress(p) /\ ~TaskLive(p)
        /\ \A c \in Callers : ~InThread(c)
    BY DEF StoreIInv, QuietWhenClosed
  <2> QED
    BY <2>1 DEF OnlyOp, InProgress, TaskLive
<1>4. OneEach' /\ StagedWhole'
  BY DEF StoreIInv, OneEach, StagedWhole, objectVars
<1>5. \A p \in Ops : OpOK(p)'
  BY OtherOps
<1> QED
  BY <1>1, <1>2, <1>3, <1>4, <1>5 DEF StoreIInv, PipeOK

-----------------------------------------------------------------------------
(* The steps of an operation.                                              *)

\* A call record, and the ones an operation writes.
LEMMA CallRecs ==
  /\ NoCall \in CallRec /\ NoCall.st = "idle"
  /\ \A s \in Steps : Asked(s) \in CallRec /\ Asked(s).st = "asked" /\ Asked(s).what = s
BY DEF NoCall, Asked, CallRec, Steps, Outcomes

\* The follow-up of a call that is left behind.
LEMMA EventualIs ==
  ASSUME OpTypes, NEW o \in Ops, NEW t, t = tasks \/ t = Eventual(o, tasks)
  PROVE  /\ t \in [Ops -> TaskRec] /\ t[o].staging = tasks[o].staging
         /\ \A p \in Ops \ {o} : t[p] = tasks[p]
         /\ t # tasks => t[o].eventual = "wait" /\ cancel[o] # "close"
         /\ t = tasks => t[o].eventual = tasks[o].eventual
         /\ t = Eventual(o, tasks) /\ cancel[o] # "close" => t[o].eventual = "wait"
BY DEF OpTypes, Eventual, TaskRec

Cleanup(o) == CleansUp(o) /\ cancel[o] # "close"

\* What leaving changes.
LEMMA LeaveIs ==
  ASSUME OpTypes, NEW o \in Ops, NEW t, t = tasks \/ t = Eventual(o, tasks),
         NEW r \in Results, LeaveWith(o, r, t)
  PROVE  /\ pc' \in [Ops -> Places] /\ res' \in [Ops -> Results] /\ call' \in [Callers -> CallRec]
         /\ tasks' \in [Ops -> TaskRec] /\ excused' \subseteq Ops
         /\ pc'[o] = (IF Cleanup(o) /\ ~Cancelling(o) THEN "cleanup" ELSE "done")
         /\ res'[o] = r
         /\ call'[<<o, "staging">>] = IF Cleanup(o) THEN Asked("remove") ELSE call[<<o, "staging">>]
         /\ call'[Own(o)] = IF \/ call[Own(o)].st = "asked"
                               \/ call[Own(o)].st = "ended" /\ t = tasks
                            THEN NoCall ELSE call[Own(o)]
         /\ call'[<<o, "late">>] = call[<<o, "late">>]
         /\ call'[<<o, "eventual">>] = call[<<o, "eventual">>]
         /\ tasks'[o].staging = (IF Cleanup(o) THEN "delete" ELSE tasks[o].staging)
         /\ tasks'[o].eventual = t[o].eventual
         /\ \A p \in Ops \ {o} : pc'[p] = pc[p] /\ res'[p] = res[p] /\ tasks'[p] = tasks[p]
         /\ \A c \in Callers : c[1] # o => call'[c] = call[c]
         /\ excused \subseteq excused' /\ (o \notin excused' => cancel[o] # "close")
<1>1. /\ t \in [Ops -> TaskRec] /\ t[o].staging = tasks[o].staging
      /\ \A p \in Ops \ {o} : t[p] = tasks[p]
  BY EventualIs
<1>2. /\ res' = [res EXCEPT ![o] = r]
      /\ pc' = [pc EXCEPT ![o] = IF Cleanup(o) /\ ~Cancelling(o) THEN "cleanup" ELSE "done"]
      /\ tasks' = IF Cleanup(o) THEN [t EXCEPT ![o].staging = "delete"] ELSE t
      /\ call' = [call EXCEPT
            ![<<o, "staging">>] = IF Cleanup(o) THEN Asked("remove") ELSE @,
            ![Own(o)] = IF @.st = "asked" \/ (@.st = "ended" /\ t = tasks)
                        THEN NoCall ELSE @]
      /\ excused' = excused \union (IF cancel[o] = "close" THEN {o} ELSE {})
  BY DEF LeaveWith, Cleanup
<1>3. /\ pc' \in [Ops -> Places] /\ res' \in [Ops -> Results]
      /\ pc'[o] = (IF Cleanup(o) /\ ~Cancelling(o) THEN "cleanup" ELSE "done") /\ res'[o] = r
      /\ \A p \in Ops \ {o} : pc'[p] = pc[p] /\ res'[p] = res[p]
      /\ excused \subseteq excused' /\ (o \notin excused' => cancel[o] # "close")
      /\ excused' \subseteq Ops
  <2>1. {"cleanup", "done"} \subseteq Places
    BY DEF Places
  <2> HIDE DEF Places, Results, Cleanup, Cancelling
  <2> QED
    BY <1>2, <2>1 DEF OpTypes
<1>4. /\ tasks' \in [Ops -> TaskRec] /\ \A p \in Ops \ {o} : tasks'[p] = tasks[p]
      /\ tasks'[o].staging = (IF Cleanup(o) THEN "delete" ELSE tasks[o].staging)
      /\ tasks'[o].eventual = t[o].eventual
  BY <1>1, <1>2 DEF TaskRec
<1>5. /\ call' \in [Callers -> CallRec]
      /\ call'[<<o, "staging">>] = IF Cleanup(o) THEN Asked("remove") ELSE call[<<o, "staging">>]
      /\ call'[Own(o)] = IF \/ call[Own(o)].st = "asked"
                            \/ call[Own(o)].st = "ended" /\ t = tasks
                         THEN NoCall ELSE call[Own(o)]
      /\ call'[<<o, "late">>] = call[<<o, "late">>]
      /\ call'[<<o, "eventual">>] = call[<<o, "eventual">>]
      /\ \A c \in Callers : c[1] # o => call'[c] = call[c]
  <2>1. /\ Own(o) \in Callers /\ <<o, "staging">> \in Callers /\ <<o, "late">> \in Callers
        /\ <<o, "eventual">> \in Callers
        /\ Own(o)[1] = o /\ <<o, "staging">>[1] = o /\ Own(o) # <<o, "staging">>
        /\ <<o, "late">> # Own(o) /\ <<o, "late">> # <<o, "staging">>
        /\ <<o, "eventual">> # Own(o) /\ <<o, "eventual">> # <<o, "staging">>
    BY CallerParts DEF Who, Cleaners
  <2>2. NoCall \in CallRec /\ Asked("remove") \in CallRec /\ call \in [Callers -> CallRec]
    BY CallRecs DEF OpTypes, Steps
  <2> DEFINE a == Own(o) 
             b == <<o, "staging">>
             va == IF \/ call[Own(o)].st = "asked"
                      \/ call[Own(o)].st = "ended" /\ t = tasks
                   THEN NoCall ELSE call[Own(o)]
             vb == IF Cleanup(o) THEN Asked("remove") ELSE call[<<o, "staging">>]
  <2>3. va \in CallRec /\ vb \in CallRec
    BY <2>1, <2>2
  <2>4. call' = [call EXCEPT ![b] = vb, ![a] = va]
    BY <1>2, <2>1
  <2> HIDE DEF va, vb
  <2>5. call' \in [Callers -> CallRec] /\ call'[a] = va /\ call'[b] = vb
        /\ \A c \in Callers : c # a /\ c # b => call'[c] = call[c]
    BY <2>1, <2>2, <2>3, <2>4
  <2> QED
    BY <2>1, <2>5 DEF va, vb
<1> QED
  BY <1>3, <1>4, <1>5

\* The file of a download that is left is closed, or its thread finds the slot
\* abandoned.
SpoolLeft(o) ==
  /\ spool' \in [Ops -> SpoolRec] /\ \A p \in Ops \ {o} : spool'[p] = spool[p]
  /\ spool'[o].file \notin {"published", "owned"}
  /\ spool'[o].file = "open" <=> spool[o].file = "open"
  /\ spool'[o].file = "open" => spool'[o].abandoned
  /\ spool'[o].abandoned => kind[o] = "readStream"

LEMMA LeaveOK ==
  ASSUME StoreIInv, NEW o \in Ops, InProgress(o), pc[o] # "cleanup",
         NEW t, t = tasks \/ t = Eventual(o, tasks), NEW r \in Results \ {"refused"},
         LeaveWith(o, r, t), UNCHANGED <<kind, staged>>, SpoolLeft(o),
         call[Own(o)].what = "put" /\ InThread(Own(o)) => t = Eventual(o, tasks),
         t # tasks => kind[o] \in {"upload", "publish"},
         kind[o] = "list" /\ r = "ok" => t = tasks /\ call[Own(o)].st \in {"asked", "ended"}
  PROVE  /\ OpOK(o)' /\ OnlyOp(o) /\ \A c \in Callers : InThread(c)' <=> InThread(c)
         /\ InThread(Own(o)) => call'[Own(o)].what = call[Own(o)].what
         /\ pc'[o] \in {"cleanup", "done"} /\ res'[o] = r /\ res[o] = "none"
         /\ \A p \in Ops \ {o} : res'[p] = res[p]
         /\ pc' \in [Ops -> Places] /\ res' \in [Ops -> Results] /\ call' \in [Callers -> CallRec]
         /\ tasks' \in [Ops -> TaskRec] /\ excused' \subseteq Ops
<1>0. OpTypes /\ OpOK(o) /\ r \in Results
  BY Types DEF StoreIInv
<1> DEFINE own == call[Own(o)]
<1> DEFINE own2 == call'[Own(o)]
<1> HIDE DEF own, own2
<1>1. /\ pc' \in [Ops -> Places] /\ res' \in [Ops -> Results] /\ call' \in [Callers -> CallRec]
      /\ tasks' \in [Ops -> TaskRec] /\ excused' \subseteq Ops
      /\ pc'[o] = (IF Cleanup(o) /\ ~Cancelling(o) THEN "cleanup" ELSE "done")
      /\ res'[o] = r
      /\ call'[<<o, "staging">>] = IF Cleanup(o) THEN Asked("remove") ELSE call[<<o, "staging">>]
      /\ call'[Own(o)] = IF \/ call[Own(o)].st = "asked"
                            \/ call[Own(o)].st = "ended" /\ t = tasks
                         THEN NoCall ELSE call[Own(o)]
      /\ call'[<<o, "late">>] = call[<<o, "late">>]
      /\ call'[<<o, "eventual">>] = call[<<o, "eventual">>]
      /\ tasks'[o].staging = (IF Cleanup(o) THEN "delete" ELSE tasks[o].staging)
      /\ tasks'[o].eventual = t[o].eventual
      /\ \A p \in Ops \ {o} : pc'[p] = pc[p] /\ res'[p] = res[p] /\ tasks'[p] = tasks[p]
      /\ \A c \in Callers : c[1] # o => call'[c] = call[c]
      /\ excused \subseteq excused' /\ (o \notin excused' => cancel[o] # "close")
  BY <1>0, LeaveIs
<1>2. /\ t # tasks => t[o].eventual = "wait" /\ cancel[o] # "close"
      /\ t = tasks => t[o].eventual = tasks[o].eventual
      /\ t = Eventual(o, tasks) /\ cancel[o] # "close" => t[o].eventual = "wait"
  BY <1>0, EventualIs
<1>3. /\ pc[o] \notin {"new", "cleanup", "done"} /\ res[o] = "none" /\ kind[o] # "none"
      /\ tasks[o].staging = "none" /\ tasks[o].eventual = "none"
      /\ \A who \in Cleaners : call[<<o, who>>].st = "idle"
  BY <1>0 DEF OpOK, KindFits, TasksFit, Cleaners, InProgress
<1>4. /\ NoCall.st = "idle" /\ Asked("remove").st = "asked" /\ Asked("remove").what = "remove"
      /\ Own(o) \in Callers
  BY CallRecs, CallerParts DEF Steps
<1>5. /\ own2 = own \/ own2.st = "idle"
      /\ own2.st # "asked" /\ (InThread(Own(o)) => own2 = own)
      /\ own.st \in {"running", "half"} => own2 = own
      /\ own2.st \in {"running", "half"} => own2 = own
  BY <1>1, <1>4 DEF InThread, own, own2
<1>6. /\ pc'[o] \in {"cleanup", "done"} /\ (pc'[o] = "cleanup" => kind[o] \in {"upload", "publish"})
      /\ Cleanup(o) => kind[o] \in {"upload", "publish"}
      /\ tasks'[o].eventual \in {"none", "wait"}
      /\ tasks'[o].eventual = "wait" => kind[o] \in {"upload", "publish"}
  BY <1>1, <1>2, <1>3 DEF Cleanup, CleansUp
<1>7. CallFits(o)'
  <2>1. own2.st = "half" => own2.what = "copy"
    BY <1>0, <1>5 DEF OpOK, CallFits, own, own2
  <2>2. kind[o] = "list" /\ r = "ok" => own2.st = "idle"
    BY <1>1, <1>4 DEF own, own2
  <2>3. own2.st # "asked"
    BY <1>5
  <2> QED
    BY <1>1, <1>6, <2>1, <2>2, <2>3 DEF CallFits, own2, Steps
<1>8. KindFits(o)'
  <2>1. own2.st # "idle" /\ own2.what = "put" => kind[o] = "upload"
    BY <1>0, <1>5 DEF OpOK, KindFits, own, own2
  <2> QED
    BY <1>1, <1>3, <1>6, <2>1 DEF KindFits, own2
<1>9. TasksFit(o)'
  <2>1. /\ call'[<<o, "late">>].st = "idle" /\ call'[<<o, "eventual">>].st = "idle"
        /\ call'[<<o, "staging">>] = IF Cleanup(o) THEN Asked("remove") ELSE call[<<o, "staging">>]
        /\ call[<<o, "staging">>].st = "idle"
    BY <1>1, <1>3 DEF Cleaners
  <2> QED
    BY <1>1, <1>3, <1>4, <1>6, <2>1 DEF TasksFit, Cleaners
<1>10. SpoolFits(o)'
  <2>1. spool'[o].file = "open" <=>
          kind[o] = "readStream" /\ own2.what = "get" /\ own2.st = "running"
    BY <1>0, <1>5 DEF OpOK, SpoolFits, SpoolLeft, own, own2
  <2> QED
    BY <1>6, <2>1 DEF SpoolFits, SpoolLeft, own2
<1>11. StagingFits(o)'
  <2>1. ASSUME kind[o] \in {"upload", "publish"}, o \notin excused', own2.what = "put",
               own2.st \in {"running", "half"}
        PROVE  tasks'[o].eventual = "wait"
    BY <1>1, <1>2, <1>5, <2>1 DEF own, own2, InThread
  <2>2. ASSUME kind[o] \in {"upload", "publish"}, o \notin excused', staged[o] # "none"
        PROVE  Cleanup(o)
    <3>1. cancel[o] # "close"
      BY <1>1, <2>2
    <3>2. CASE kind[o] = "upload" /\ own.what = "put" /\ own.st = "asked"
      <4>1. pc[o] = "put"
        BY <1>0, <1>3, <3>2 DEF OpOK, CallFits, own, OpTypes, Places
      <4> QED
        BY <1>0, <2>2, <3>2, <4>1 DEF OpOK, StagingFits, own
    <3> QED
      BY <2>2, <3>1, <3>2 DEF Cleanup, CleansUp, own
  <2> QED
    BY <1>1, <1>4, <1>6, <2>1, <2>2 DEF StagingFits, Owed, InThread, own2
<1>12. OnlyOp(o)
  BY <1>1 DEF OnlyOp, SpoolLeft
<1>13. ASSUME NEW c \in Callers
       PROVE  InThread(c)' <=> InThread(c)
  <2>1. CASE c[1] # o
    BY <1>1, <2>1 DEF InThread
  <2>2. CASE c = Own(o)
    BY <1>5, <2>2 DEF InThread, own, own2
  <2>3. CASE \E who \in Cleaners : c = <<o, who>>
    BY <1>1, <1>3, <1>4, <2>3 DEF InThread, Cleaners
  <2> QED
    BY <2>1, <2>2, <2>3, CallerParts DEF Who
<1>14. InThread(Own(o)) => call'[Own(o)].what = call[Own(o)].what
  BY <1>5 DEF own, own2
<1> QED
  BY <1>1, <1>3, <1>6, <1>7, <1>8, <1>9, <1>10, <1>11, <1>12, <1>13, <1>14 DEF OpOK

\* An operation that leaves keeps the invariant.
LEMMA LeaveKeeps ==
  ASSUME StoreIInv, NEW o \in Ops, InProgress(o), pc[o] # "cleanup",
         NEW t, t = tasks \/ t = Eventual(o, tasks), NEW r \in Results \ {"refused"},
         LeaveWith(o, r, t), SpoolLeft(o),
         call[Own(o)].what = "put" /\ InThread(Own(o)) => t = Eventual(o, tasks),
         t # tasks => kind[o] \in {"upload", "publish"},
         kind[o] = "list" /\ r = "ok" => t = tasks /\ call[Own(o)].st \in {"asked", "ended"},
         UNCHANGED <<kind, want, cancel, active, ended, exec, close, objectVars>>,
         hit' \in [Ops -> BOOLEAN],
         \/ UNCHANGED pipeVars
         \/ kind[o] = "upload" /\ PipeOK' /\ (cons'.st # "none" => cons.st # "none"),
         PageFits' \/ (UNCHANGED page /\ (kind[o] = "list" => r # "ok"))
  PROVE  StoreIInv'
<1>1. UNCHANGED <<kind, staged>>
  BY DEF objectVars
<1>2. /\ OpOK(o)' /\ OnlyOp(o) /\ \A c \in Callers : InThread(c)' <=> InThread(c)
      /\ InThread(Own(o)) => call'[Own(o)].what = call[Own(o)].what
      /\ pc'[o] \in {"cleanup", "done"} /\ res'[o] = r /\ res[o] = "none"
      /\ \A p \in Ops \ {o} : res'[p] = res[p]
      /\ pc' \in [Ops -> Places] /\ res' \in [Ops -> Results] /\ call' \in [Callers -> CallRec]
      /\ tasks' \in [Ops -> TaskRec] /\ excused' \subseteq Ops
  BY <1>1, LeaveOK
<1>3. OpTypes'
  <2>1. OpTypes
    BY Types DEF StoreIInv
  <2> QED
    BY <1>2, <2>1 DEF OpTypes, SpoolLeft
<1>4. PipeOK' /\ \A p \in Ops : UploadFits(p)'
  <2>1. PipeOK
    BY Types DEF StoreIInv, PipeOK
  <2>2. PipeOK' /\ (cons'.st # "none" => cons.st # "none")
    <3>1. CASE UNCHANGED pipeVars
      BY <2>1, <3>1 DEF pipeVars, PipeOK, PipeTypeOK, PipeFits
    <3> QED
      BY <3>1
  <2> QED
    BY <1>2, <2>2, UploadKept
<1>5. PageFits'
  <2>1. CASE UNCHANGED page /\ (kind[o] = "list" => r # "ok")
    <3>1. \A p \in Ops : kind[p] = "list" => (res'[p] = "ok" <=> res[p] = "ok")
      BY <1>2, <2>1
    <3> QED
      BY <2>1, <3>1, PageKept DEF StoreIInv
  <2> QED
    BY <2>1
<1>6. close \notin {"executor", "closed"}
  BY DEF StoreIInv, QuietWhenClosed
<1> QED
  BY <1>2, <1>3, <1>4, <1>5, <1>6, OpStepKeeps

\* The file is not in use when an operation that reads no stream leaves.
LEMMA NoSpool ==
  ASSUME StoreIInv, NEW o \in Ops, InProgress(o), UNCHANGED spool,
         pc[o] # "yield", pc[o] = "get" => spool[o].file \notin {"open", "published"}
  PROVE  SpoolLeft(o)
<1>1. OpTypes /\ OpOK(o)
  BY Types DEF StoreIInv
<1>2. ~spool[o].abandoned
  BY <1>1 DEF OpOK, SpoolFits, InProgress
<1>3. spool[o].file \notin {"open", "published", "owned"}
  BY <1>1, <1>2 DEF OpOK, SpoolFits
<1>4. spool' \in [Ops -> SpoolRec]
  BY <1>1 DEF OpTypes
<1> QED
  BY <1>2, <1>3, <1>4 DEF SpoolLeft

\* The next call of an operation.
LEMMA NextKeeps ==
  ASSUME StoreIInv, NEW o \in Ops, pc[o] \in Steps \ {"get"}, call[Own(o)].st = "ended",
         NEW step \in Steps \ {"put", "remove", "list"}, NextCall(o, step), OpStep, UNCHANGED spool,
         step = "get" => kind[o] \in {"readStream", "readBytes"},
         step = "head" => kind[o] \in {"readStream", "readBytes", "verify"},
         step \in {"headSource", "headFinal", "copy", "raced", "verify"} =>
             kind[o] \in {"upload", "publish"},
         \/ UNCHANGED pipeVars
         \/ kind[o] = "upload" /\ PipeOK' /\ (cons'.st # "none" => cons.st # "none")
  PROVE  StoreIInv'
<1>0. OpTypes /\ OpOK(o)
  BY Types DEF StoreIInv
<1>1. /\ step \in Steps /\ step \in Places /\ Asked(step) \in CallRec /\ Asked(step).st = "asked"
      /\ Asked(step).what = step
  BY CallRecs DEF Places
<1>2. Own(o) \in Callers /\ Own(o)[1] = o /\ \A who \in Cleaners : <<o, who>> \in Callers \ {Own(o)}
  BY CallerParts DEF Who, Cleaners
<1>3. /\ pc' \in [Ops -> Places] /\ pc'[o] = step /\ \A p \in Ops \ {o} : pc'[p] = pc[p]
      /\ UNCHANGED <<res, tasks, excused, spool, kind, staged, page>>
  BY <1>0, <1>1 DEF NextCall, OpTypes, OpStep, objectVars
<1>4. /\ call' \in [Callers -> CallRec] /\ call'[Own(o)] = Asked(step)
      /\ \A c \in Callers \ {Own(o)} : call'[c] = call[c]
  BY <1>0, <1>1, <1>2 DEF NextCall, OpTypes
<1>5. OpTypes'
  BY <1>0, <1>3, <1>4 DEF OpTypes, OpStep
<1>6. OnlyOp(o)
  BY <1>2, <1>3, <1>4 DEF OnlyOp
<1>7. OpOK(o)'
  <2>1. CallFits(o)'
    BY <1>1, <1>3, <1>4 DEF CallFits, Steps
  <2>2. KindFits(o)'
    BY <1>0, <1>1, <1>3, <1>4 DEF OpOK, KindFits, Steps
  <2>3. TasksFit(o)'
    <3>1. pc[o] \notin {"cleanup", "done"} /\ pc'[o] \notin {"cleanup", "done"}
      BY <1>3 DEF Steps
    <3>2. \A who \in Cleaners : call'[<<o, who>>] = call[<<o, who>>]
      BY <1>2, <1>4
    <3> QED
      BY <1>0, <1>3, <3>1, <3>2 DEF OpOK, TasksFit, Cleaners
  <2>4. SpoolFits(o)'
    <3>1. ~spool[o].abandoned
      BY <1>0 DEF OpOK, SpoolFits, Steps
    <3>2. spool[o].file \notin {"open", "published", "owned"}
      BY <1>0 DEF OpOK, SpoolFits, Steps
    <3> QED
      BY <1>1, <1>3, <1>4, <3>1, <3>2 DEF SpoolFits
  <2>5. StagingFits(o)'
    BY <1>3 DEF StagingFits, Steps
  <2> QED
    BY <2>1, <2>2, <2>3, <2>4, <2>5 DEF OpOK
<1>8. /\ \A c \in Callers : InThread(c)' <=> InThread(c)
      /\ ~InThread(Own(o))
  BY <1>1, <1>4 DEF InThread
<1>9. PipeOK' /\ \A p \in Ops : UploadFits(p)'
  <2>1. PipeOK
    BY Types DEF StoreIInv, PipeOK
  <2>2. PipeOK' /\ (cons'.st # "none" => cons.st # "none")
    <3>1. CASE UNCHANGED pipeVars
      BY <2>1, <3>1 DEF pipeVars, PipeOK, PipeTypeOK, PipeFits
    <3> QED
      BY <3>1
  <2>3. pc'[o] \notin {"new", "put"}
    BY <1>3 DEF Steps
  <2> QED
    BY <1>6, <1>8, <2>2, <2>3, UploadKept
<1>10. PageFits'
  BY <1>3, PageKept DEF StoreIInv
<1>11. close \notin {"executor", "closed"}
  BY DEF StoreIInv, QuietWhenClosed, InProgress, Steps
<1> QED
  BY <1>5, <1>6, <1>7, <1>8, <1>9, <1>10, <1>11, OpStepKeeps DEF OpStep

\* An operation that has its answer.
LEMMA HasAnswer ==
  ASSUME StoreIInv, NEW o \in Ops, NEW step \in Steps, Answered(o, step)
  PROVE  /\ InProgress(o) /\ pc[o] # "cleanup" /\ pc[o] = step
         /\ call[Own(o)].st = "ended" /\ call[Own(o)].what = step /\ ~InThread(Own(o))
         /\ OpOK(o) /\ hit \in [Ops -> BOOLEAN] /\ Out(o) \in Outcomes
<1>1. OpTypes /\ OpOK(o)
  BY Types DEF StoreIInv
<1>2. Own(o) \in Callers
  BY CallerParts
<1> QED
  BY <1>1, <1>2
     DEF Answered, OpOK, CallFits, InProgress, Steps, InThread, OpTypes, Out, CallRec

LEMMA AnswerLeaves ==
  ASSUME StoreIInv, NEW o \in Ops, NEW step \in Steps \ {"get", "list"}, Answered(o, step),
         NEW r \in Results \ {"refused"}, Leave(o, r), OpStep, UNCHANGED spool,
         \/ UNCHANGED pipeVars
         \/ kind[o] = "upload" /\ PipeOK' /\ (cons'.st # "none" => cons.st # "none")
  PROVE  StoreIInv'
<1>1. /\ InProgress(o) /\ pc[o] # "cleanup" /\ pc[o] = step /\ ~InThread(Own(o)) /\ OpOK(o)
      /\ hit \in [Ops -> BOOLEAN]
  BY HasAnswer
<1>2. SpoolLeft(o)
  BY <1>1, NoSpool DEF Steps
<1>3. kind[o] # "list"
  BY <1>1 DEF OpOK, KindFits, Steps
<1>4. /\ UNCHANGED <<kind, want, cancel, active, ended, exec, close, objectVars>>
      /\ hit' \in [Ops -> BOOLEAN] /\ UNCHANGED page
  BY <1>1 DEF OpStep
<1> QED
  BY <1>1, <1>2, <1>3, <1>4, LeaveKeeps DEF Leave

LEMMA AnswerResults ==
  ASSUME NEW o
  PROVE  /\ Unverified(o) \in Results \ {"refused"} /\ ReuseOrConflict(o) \in Results \ {"refused"}
         /\ {"ok", "unavailable", "failed", "cancelled"} \subseteq Results \ {"refused"}
BY DEF Unverified, ReuseOrConflict, Results

LEMMA VerifySourceVersionKeeps ==
  ASSUME StoreIInv, NEW o \in Ops, VerifySourceVersion(o)
  PROVE  StoreIInv'
<1>1. Answered(o, "headSource") /\ OpStep /\ UNCHANGED <<spool, pipeVars>> /\ "headSource" \in Steps
  BY DEF VerifySourceVersion, Steps
<1>2. pc[o] = "headSource" /\ call[Own(o)].st = "ended" /\ kind[o] \in {"upload", "publish"}
  BY <1>1, HasAnswer DEF OpOK, KindFits
<1>3. CASE NextCall(o, "headFinal")
  BY <1>1, <1>2, <1>3, NextKeeps DEF Steps
<1>4. CASE Leave(o, Unverified(o))
  BY <1>1, <1>4, AnswerLeaves, AnswerResults
<1> QED
  BY <1>3, <1>4 DEF VerifySourceVersion

LEMMA PublishVerifiedSourceKeeps ==
  ASSUME StoreIInv, NEW o \in Ops, PublishVerifiedSource(o)
  PROVE  StoreIInv'
<1>1. Answered(o, "headFinal") /\ OpStep /\ UNCHANGED <<spool, pipeVars>> /\ "headFinal" \in Steps
  BY DEF PublishVerifiedSource, Steps
<1>2. pc[o] = "headFinal" /\ call[Own(o)].st = "ended" /\ kind[o] \in {"upload", "publish"}
  BY <1>1, HasAnswer DEF OpOK, KindFits
<1>3. CASE NextCall(o, "copy")
  BY <1>1, <1>2, <1>3, NextKeeps DEF Steps
<1>4. CASE Leave(o, ReuseOrConflict(o)) \/ Leave(o, "unavailable")
  BY <1>1, <1>4, AnswerLeaves, AnswerResults
<1> QED
  BY <1>3, <1>4 DEF PublishVerifiedSource

LEMMA CopyIfAbsentKeeps ==
  ASSUME StoreIInv, NEW o \in Ops, CopyIfAbsent(o)
  PROVE  StoreIInv'
<1>1. Answered(o, "copy") /\ OpStep /\ UNCHANGED <<spool, pipeVars>> /\ "copy" \in Steps
  BY DEF CopyIfAbsent, Steps
<1>2. pc[o] = "copy" /\ call[Own(o)].st = "ended" /\ kind[o] \in {"upload", "publish"}
  BY <1>1, HasAnswer DEF OpOK, KindFits
<1>3. CASE NextCall(o, "verify") \/ NextCall(o, "raced")
  BY <1>1, <1>2, <1>3, NextKeeps DEF Steps
<1>4. CASE Leave(o, "unavailable") \/ Leave(o, "failed")
  BY <1>1, <1>4, AnswerLeaves, AnswerResults
<1> QED
  BY <1>3, <1>4 DEF CopyIfAbsent

LEMMA CopyRacedKeeps ==
  ASSUME StoreIInv, NEW o \in Ops, CopyRaced(o)
  PROVE  StoreIInv'
<1>1. Answered(o, "raced") /\ OpStep /\ UNCHANGED <<spool, pipeVars>> /\ "raced" \in Steps
  BY DEF CopyRaced, Steps
<1>2. Leave(o, ReuseOrConflict(o)) \/ Leave(o, "unavailable")
  BY DEF CopyRaced
<1> QED
  BY <1>1, <1>2, AnswerLeaves, AnswerResults

LEMMA VerifyPublishedKeeps ==
  ASSUME StoreIInv, NEW o \in Ops, VerifyPublished(o)
  PROVE  StoreIInv'
<1>1. Answered(o, "verify") /\ OpStep /\ UNCHANGED <<spool, pipeVars>> /\ "verify" \in Steps
  BY DEF VerifyPublished, Steps
<1>2. Leave(o, "ok") \/ Leave(o, Unverified(o))
  BY DEF VerifyPublished
<1> QED
  BY <1>1, <1>2, AnswerLeaves, AnswerResults

LEMMA HeadDoneKeeps ==
  ASSUME StoreIInv, NEW o \in Ops, HeadDone(o)
  PROVE  StoreIInv'
<1>1. Answered(o, "head") /\ OpStep /\ UNCHANGED <<spool, pipeVars>> /\ "head" \in Steps
  BY DEF HeadDone, Steps
<1>2. pc[o] = "head" /\ call[Own(o)].st = "ended" /\ kind[o] \in {"readStream", "readBytes", "verify"}
  BY <1>1, HasAnswer DEF OpOK, KindFits
<1>3. CASE NextCall(o, "get") /\ kind[o] # "verify"
  BY <1>1, <1>2, <1>3, NextKeeps DEF Steps
<1>4. CASE Leave(o, "ok") \/ Leave(o, Unverified(o))
  BY <1>1, <1>4, AnswerLeaves, AnswerResults
<1> QED
  BY <1>3, <1>4 DEF HeadDone

LEMMA DeleteDoneKeeps ==
  ASSUME StoreIInv, NEW o \in Ops, DeleteDone(o)
  PROVE  StoreIInv'
<1>1. Answered(o, "remove") /\ OpStep /\ UNCHANGED <<spool, pipeVars>> /\ "remove" \in Steps
  BY DEF DeleteDone, Steps
<1>2. Leave(o, "ok") \/ Leave(o, "unavailable")
  BY DEF DeleteDone
<1> QED
  BY <1>1, <1>2, AnswerLeaves, AnswerResults

\* An operation that stays, with its call, where only its place and its
\* file change.
LEMMA PlaceKeeps ==
  ASSUME StoreIInv, NEW o \in Ops, InProgress(o), OpOK(o)', OpTypes',
         UNCHANGED <<kind, want, call, tasks, excused, active, ended, exec, close, objectVars, page>>,
         \A p \in Ops \ {o} : pc'[p] = pc[p] /\ res'[p] = res[p] /\ spool'[p] = spool[p],
         kind[o] = "list" => res'[o] = res[o], pc'[o] \notin {"new", "put"},
         \/ UNCHANGED pipeVars
         \/ kind[o] = "upload" /\ PipeOK' /\ (cons'.st # "none" => cons.st # "none")
  PROVE  StoreIInv'
<1>1. OnlyOp(o)
  BY DEF OnlyOp, objectVars
<1>2. \A c \in Callers : InThread(c)' <=> InThread(c)
  BY DEF InThread
<1>3. PipeOK' /\ \A p \in Ops : UploadFits(p)'
  <2>1. PipeOK
    BY Types DEF StoreIInv, PipeOK
  <2>2. PipeOK' /\ (cons'.st # "none" => cons.st # "none")
    <3>1. CASE UNCHANGED pipeVars
      BY <2>1, <3>1 DEF pipeVars, PipeOK, PipeTypeOK, PipeFits
    <3> QED
      BY <3>1
  <2> QED
    BY <1>1, <1>2, <2>2, UploadKept
<1>4. PageFits'
  <2>1. \A p \in Ops : kind[p] = "list" => res'[p] = res[p]
    OBVIOUS
  <2> QED
    BY <2>1, PageKept DEF StoreIInv
<1>5. close \notin {"executor", "closed"}
  BY DEF StoreIInv, QuietWhenClosed
<1> QED
  BY <1>1, <1>2, <1>3, <1>4, <1>5, OpStepKeeps

\* The file of a slot.
LEMMA FileIs ==
  ASSUME OpTypes, NEW o \in Ops, NEW f \in {"none", "open", "published", "owned", "closed"},
         spool' = [spool EXCEPT ![o].file = f]
  PROVE  /\ spool' \in [Ops -> SpoolRec] /\ \A p \in Ops \ {o} : spool'[p] = spool[p]
         /\ spool'[o].file = f /\ (spool'[o].abandoned <=> spool[o].abandoned)
<1>1. spool \in [Ops -> SpoolRec] /\ spool[o] \in SpoolRec
  BY DEF OpTypes
<1> DEFINE s == [spool[o] EXCEPT !.file = f]
<1>2. s \in SpoolRec
  BY <1>1, Zenon DEF SpoolRec
<1>3. s.file = f
  BY <1>1 DEF SpoolRec
<1>4. s.abandoned = spool[o].abandoned
  BY <1>1, Zenon DEF SpoolRec
<1>5. spool' = [spool EXCEPT ![o] = s]
  OBVIOUS
<1> HIDE DEF s
<1> QED
  BY <1>1, <1>2, <1>3, <1>4, <1>5

LEMMA ReadDoneKeeps ==
  ASSUME StoreIInv, NEW o \in Ops, ReadDone(o)
  PROVE  StoreIInv'
<1>1. Answered(o, "get") /\ OpStep /\ UNCHANGED pipeVars /\ "get" \in Steps
  BY DEF ReadDone, Steps
<1>2. /\ InProgress(o) /\ pc[o] # "cleanup" /\ pc[o] = "get" /\ OpOK(o) /\ hit \in [Ops -> BOOLEAN]
      /\ call[Own(o)].st = "ended" /\ call[Own(o)].what = "get" /\ ~InThread(Own(o))
  BY <1>1, HasAnswer
<1>3. /\ kind[o] \in {"readStream", "readBytes"} /\ ~spool[o].abandoned /\ res[o] = "none"
      /\ spool[o].file # "open" /\ spool[o].file # "owned" /\ OpTypes
  BY <1>2, Types DEF OpOK, KindFits, SpoolFits, StoreIInv
<1>4. CASE Out(o) = "ok" /\ kind[o] = "readStream"
  <2>1. /\ pc' = [pc EXCEPT ![o] = "yield"] /\ spool' = [spool EXCEPT ![o].file = "owned"]
        /\ UNCHANGED <<res, call, tasks, excused>>
    BY <1>4 DEF ReadDone
  <2>2. /\ spool' \in [Ops -> SpoolRec] /\ \A p \in Ops \ {o} : spool'[p] = spool[p]
        /\ spool'[o].file = "owned" /\ (spool'[o].abandoned <=> spool[o].abandoned)
    BY <1>3, <2>1, FileIs
  <2>3. pc' \in [Ops -> Places] /\ pc'[o] = "yield" /\ \A p \in Ops \ {o} : pc'[p] = pc[p]
    BY <1>3, <2>1 DEF OpTypes, Places
  <2>4. OpTypes'
    BY <1>1, <1>3, <2>1, <2>2, <2>3 DEF OpTypes, OpStep
  <2>5. UNCHANGED <<kind, staged>>
    BY <1>1 DEF OpStep, objectVars
  <2>6. OpOK(o)'
    <3>1. CallFits(o)' /\ KindFits(o)'
      BY <1>2, <1>3, <1>4, <2>1, <2>3, <2>5 DEF CallFits, KindFits, Steps, OpOK
    <3>2. TasksFit(o)'
      BY <1>2, <1>4, <2>1, <2>3, <2>5 DEF OpOK, TasksFit, Cleaners
    <3>3. SpoolFits(o)'
      BY <1>2, <1>3, <2>1, <2>2, <2>3 DEF SpoolFits
    <3>4. StagingFits(o)'
      BY <1>4, <2>3, <2>5 DEF StagingFits
    <3> QED
      BY <3>1, <3>2, <3>3, <3>4 DEF OpOK
  <2> QED
    BY <1>1, <1>2, <2>1, <2>2, <2>3, <2>4, <2>6, PlaceKeeps DEF OpStep
<1>5. CASE ~(Out(o) = "ok" /\ kind[o] = "readStream")
  <2>1. Leave(o, "ok") \/ Leave(o, Unverified(o))
    BY <1>5 DEF ReadDone
  <2>2. UNCHANGED spool
    BY <1>5 DEF ReadDone
  <2>3. spool[o].file # "published"
    <3>1. spool[o].file = "published" => Out(o) = "ok"
      BY <1>2 DEF OpOK, SpoolFits, Out
    <3>2. spool[o].file = "published" => kind[o] = "readStream"
      BY <1>2 DEF OpOK, SpoolFits
    <3> QED
      BY <1>5, <3>1, <3>2
  <2>4. SpoolLeft(o)
    BY <1>2, <1>3, <2>2, <2>3, NoSpool
  <2>5. /\ UNCHANGED <<kind, want, cancel, active, ended, exec, close, objectVars>>
        /\ hit' \in [Ops -> BOOLEAN] /\ UNCHANGED page /\ kind[o] # "list"
    BY <1>1, <1>2, <1>3 DEF OpStep
  <2> QED
    BY <1>1, <1>2, <2>1, <2>4, <2>5, AnswerResults, LeaveKeeps DEF Leave
<1> QED
  BY <1>4, <1>5

LEMMA StreamReadKeeps ==
  ASSUME StoreIInv, NEW o \in Ops, StreamRead(o)
  PROVE  StoreIInv'
<1>1. /\ pc[o] = "yield" /\ Leave(o, "ok") /\ spool' = [spool EXCEPT ![o].file = "closed"]
      /\ OpStep /\ UNCHANGED pipeVars
  BY DEF StreamRead
<1>2. OpTypes /\ OpOK(o)
  BY Types DEF StoreIInv
<1>3. /\ InProgress(o) /\ kind[o] = "readStream" /\ ~InThread(Own(o)) /\ ~spool[o].abandoned
      /\ spool[o].file # "open" 
  BY <1>1, <1>2 DEF InProgress, OpOK, KindFits, CallFits, SpoolFits, InThread
<1>4. SpoolLeft(o)
  BY <1>1, <1>2, <1>3, FileIs DEF SpoolLeft
<1>5. /\ UNCHANGED <<kind, want, cancel, active, ended, exec, close, objectVars>>
      /\ hit' \in [Ops -> BOOLEAN] /\ UNCHANGED page
  BY <1>1, <1>2 DEF OpStep, OpTypes
<1> QED
  BY <1>1, <1>3, <1>4, <1>5, AnswerResults, LeaveKeeps DEF Leave

\* The caller of a download leaves.
LEMMA AbandonLeft ==
  ASSUME StoreIInv, NEW o \in Ops, pc[o] = "get", kind[o] = "readStream",
         spool' = [spool EXCEPT ![o] = Abandon(@)]
  PROVE  SpoolLeft(o)
<1>1. OpTypes /\ OpOK(o) /\ spool[o] \in SpoolRec /\ spool \in [Ops -> SpoolRec]
  BY Types DEF StoreIInv, OpTypes
<1> DEFINE s == Abandon(spool[o])
<1>2. s.file = (IF spool[o].file = "published" THEN "closed" ELSE spool[o].file)
  BY DEF Abandon
<1>3. s.abandoned
  BY DEF Abandon
<1>4. s \in SpoolRec
  BY <1>1 DEF Abandon, SpoolRec
<1>5. spool[o].file # "owned"
  BY <1>1 DEF OpOK, SpoolFits
<1> HIDE DEF s
<1>6. spool' = [spool EXCEPT ![o] = s]
  BY DEF s
<1>7. /\ spool' \in [Ops -> SpoolRec] /\ spool'[o] = s /\ \A p \in Ops \ {o} : spool'[p] = spool[p]
  BY <1>1, <1>4, <1>6
<1> QED
  BY <1>2, <1>3, <1>5, <1>7 DEF SpoolLeft

\* The pipe of an upload whose put has ended has no reader.
LEMMA ReaderGone ==
  ASSUME StoreIInv, NEW o \in Ops, kind[o] = "upload", ~InThread(Own(o))
  PROVE  cons.st = "none" /\ PipeOK
BY Types DEF StoreIInv, UploadFits, PipeOK

LEMMA PutAnswered ==
  ASSUME StoreIInv, NEW o \in Ops, Answered(o, "put"), StopPipe
  PROVE  /\ kind[o] = "upload" /\ PipeOK' /\ (cons'.st # "none" => cons.st # "none")
         /\ "put" \in Steps /\ call[Own(o)].st = "ended" /\ call[Own(o)].what = "put"
         /\ pc[o] = "put" /\ OpOK(o)
<1>1. "put" \in Steps
  BY DEF Steps
<1>2. /\ pc[o] = "put" /\ ~InThread(Own(o)) /\ OpOK(o) /\ call[Own(o)].st = "ended"
      /\ call[Own(o)].what = "put"
  BY <1>1, HasAnswer
<1>3. kind[o] = "upload"
  BY <1>2 DEF OpOK, KindFits
<1>4. cons.st = "none" /\ PipeOK
  BY <1>2, <1>3, ReaderGone
<1>5. PipeOK' /\ cons' = cons
  BY <1>4, StopPipeOK
<1> QED
  BY <1>1, <1>2, <1>3, <1>5

LEMMA PutDoneKeeps ==
  ASSUME StoreIInv, NEW o \in Ops, PutDone(o)
  PROVE  StoreIInv'
<1>1. Answered(o, "put") /\ NextCall(o, "headSource") /\ StopPipe /\ OpStep /\ UNCHANGED spool
  BY DEF PutDone
<1>2. /\ kind[o] = "upload" /\ PipeOK' /\ (cons'.st # "none" => cons.st # "none")
      /\ call[Own(o)].st = "ended" /\ pc[o] = "put"
  BY <1>1, PutAnswered
<1> QED
  BY <1>1, <1>2, NextKeeps DEF Steps

LEMMA PutOverdueKeeps ==
  ASSUME StoreIInv, NEW o \in Ops, PutOverdue(o)
  PROVE  StoreIInv'
<1>1. Answered(o, "put") /\ Leave(o, "failed") /\ StopPipe /\ OpStep /\ UNCHANGED spool
  BY DEF PutOverdue
<1>2. /\ kind[o] = "upload" /\ PipeOK' /\ (cons'.st # "none" => cons.st # "none") /\ "put" \in Steps
  BY <1>1, PutAnswered
<1> QED
  BY <1>1, <1>2, AnswerLeaves, AnswerResults

LEMMA PutFailedKeeps ==
  ASSUME StoreIInv, NEW o \in Ops, PutFailed(o)
  PROVE  StoreIInv'
<1>1. /\ Answered(o, "put") /\ StopPipe /\ OpStep /\ pc' = [pc EXCEPT ![o] = "settle"]
      /\ UNCHANGED <<res, call, tasks, spool, excused>>
  BY DEF PutFailed
<1>2. /\ kind[o] = "upload" /\ PipeOK' /\ (cons'.st # "none" => cons.st # "none")
      /\ call[Own(o)].st = "ended" /\ call[Own(o)].what = "put" /\ pc[o] = "put" /\ OpOK(o)
  BY <1>1, PutAnswered
<1>3. OpTypes
  BY Types DEF StoreIInv
<1>4. pc' \in [Ops -> Places] /\ pc'[o] = "settle" /\ \A p \in Ops \ {o} : pc'[p] = pc[p]
  BY <1>1, <1>3 DEF OpTypes, Places
<1>5. OpTypes' /\ UNCHANGED <<kind, staged>>
  BY <1>1, <1>3, <1>4 DEF OpTypes, OpStep, objectVars
<1>6. OpOK(o)'
  <2>1. CallFits(o)' /\ KindFits(o)'
    BY <1>1, <1>2, <1>4, <1>5 DEF CallFits, KindFits, Steps, OpOK
  <2>2. TasksFit(o)'
    BY <1>1, <1>2, <1>4, <1>5 DEF OpOK, TasksFit, Cleaners
  <2>3. SpoolFits(o)' /\ StagingFits(o)'
    BY <1>1, <1>2, <1>4, <1>5 DEF OpOK, SpoolFits, StagingFits
  <2> QED
    BY <2>1, <2>2, <2>3 DEF OpOK
<1> QED
  BY <1>1, <1>2, <1>4, <1>5, <1>6, PlaceKeeps DEF OpStep, InProgress

LEMMA PutSettledKeeps ==
  ASSUME StoreIInv, NEW o \in Ops, PutSettled(o)
  PROVE  StoreIInv'
<1>1. /\ pc[o] = "settle" /\ hit' = [hit EXCEPT ![o] = FALSE] /\ Leave(o, PutError(o))
      /\ UNCHANGED <<kind, want, cancel, active, ended, exec, close, objectVars, page, spool, pipeVars>>
  BY DEF PutSettled
<1>2. OpTypes /\ OpOK(o)
  BY Types DEF StoreIInv
<1>3. InProgress(o) /\ pc[o] # "cleanup" /\ ~InThread(Own(o)) /\ kind[o] = "upload"
  BY <1>1, <1>2 DEF InProgress, OpOK, CallFits, KindFits, InThread
<1>4. SpoolLeft(o)
  BY <1>1, <1>3, NoSpool
<1>5. hit' \in [Ops -> BOOLEAN]
  BY <1>1, <1>2 DEF OpTypes
<1>6. PutError(o) \in Results \ {"refused"}
  BY DEF PutError, Results
<1> QED
  BY <1>1, <1>3, <1>4, <1>5, <1>6, LeaveKeeps DEF Leave

\* What an upload that gives up does to its pipe.
LEMMA FailedPipe ==
  ASSUME StoreIInv, NEW o \in Ops,
         \/ FailPipe
         \/ pipe' = Failed(pipe, "cancelled", TRUE) /\ UNCHANGED <<prod, cons>>
  PROVE  PipeOK' /\ (cons'.st # "none" => cons.st # "none")
<1>1. PipeOK
  BY Types DEF StoreIInv, PipeOK
<1>2. CASE FailPipe
  BY <1>1, <1>2, FailPipeOK
<1>3. CASE pipe' = Failed(pipe, "cancelled", TRUE) /\ UNCHANGED <<prod, cons>>
  <2>1. "cancelled" \in Failures \ {"none"} /\ TRUE \in BOOLEAN
    BY DEF Failures
  <2> QED
    BY <1>1, <1>3, <2>1, FailedOK
<1> QED
  BY <1>2, <1>3

LEMMA SubmitFailsKeeps ==
  ASSUME StoreIInv, NEW o \in Ops, SubmitFails(o)
  PROVE  StoreIInv'
<1>1. /\ InProgress(o) /\ call[Own(o)].st = "asked" /\ Leave(o, "unavailable")
      /\ UNCHANGED <<kind, want, cancel, hit, active, ended, exec, close, objectVars, spool, page>>
  BY DEF SubmitFails
<1>2. OpTypes /\ OpOK(o)
  BY Types DEF StoreIInv
<1>3. /\ pc[o] \notin {"cleanup", "yield"} /\ ~InThread(Own(o)) /\ pc[o] \in Places
      /\ pc[o] = "get" => spool[o].file \notin {"open", "published"}
  BY <1>1, <1>2 DEF OpOK, CallFits, SpoolFits, InThread, OpTypes
<1>4. SpoolLeft(o)
  BY <1>1, <1>3, NoSpool
<1>5. hit' \in [Ops -> BOOLEAN]
  BY <1>1, <1>2 DEF OpTypes
<1>6. \/ UNCHANGED pipeVars
      \/ kind[o] = "upload" /\ PipeOK' /\ (cons'.st # "none" => cons.st # "none")
  <2>1. CASE call[Own(o)].what = "put"
    <3>1. kind[o] = "upload"
      BY <1>1, <1>2, <2>1 DEF OpOK, KindFits
    <3> QED
      BY <2>1, <3>1, FailedPipe DEF SubmitFails
  <2> QED
    BY <2>1 DEF SubmitFails
<1> QED
  BY <1>1, <1>3, <1>4, <1>5, <1>6, AnswerResults, LeaveKeeps DEF Leave

LEMMA TimeoutKeeps ==
  ASSUME StoreIInv, NEW o \in Ops, Timeout(o)
  PROVE  StoreIInv'
<1> DEFINE what == call[Own(o)].what
           t == IF what \in {"put", "copy"} THEN Eventual(o, tasks) ELSE tasks
<1>1. /\ pc[o] \in Steps /\ InThread(Own(o)) /\ LeaveWith(o, "unavailable", t) /\ OpStep
      /\ IF what = "put" THEN FailPipe ELSE UNCHANGED pipeVars
      /\ spool' = IF what = "get" /\ kind[o] = "readStream"
                  THEN [spool EXCEPT ![o] = Abandon(@)] ELSE spool
  BY DEF Timeout
<1>2. OpTypes /\ OpOK(o)
  BY Types DEF StoreIInv
<1>3. /\ InProgress(o) /\ pc[o] \notin {"cleanup", "yield"} /\ pc[o] = what
      /\ what \in {"put", "copy"} => kind[o] \in {"upload", "publish"}
      /\ what = "put" => kind[o] = "upload"
  BY <1>1, <1>2 DEF OpOK, CallFits, KindFits, Steps, InProgress
<1>4. SpoolLeft(o)
  <2>1. CASE what = "get" /\ kind[o] = "readStream"
    BY <1>1, <1>3, <2>1, AbandonLeft
  <2>2. CASE ~(what = "get" /\ kind[o] = "readStream")
    <3>1. pc[o] = "get" => spool[o].file \notin {"open", "published"}
      BY <1>2, <1>3, <2>2 DEF OpOK, SpoolFits
    <3> QED
      BY <1>1, <1>3, <2>2, <3>1, NoSpool
  <2> QED
    BY <2>1, <2>2
<1>5. /\ UNCHANGED <<kind, want, cancel, active, ended, exec, close, objectVars>>
      /\ hit' \in [Ops -> BOOLEAN] /\ UNCHANGED page
  BY <1>1, <1>2 DEF OpStep, OpTypes
<1>6. \/ UNCHANGED pipeVars
      \/ kind[o] = "upload" /\ PipeOK' /\ (cons'.st # "none" => cons.st # "none")
  BY <1>1, <1>3, FailedPipe
<1>7. /\ t = tasks \/ t = Eventual(o, tasks)
      /\ what = "put" => t = Eventual(o, tasks)
      /\ t # tasks => kind[o] \in {"upload", "publish"}
  BY <1>3
<1> HIDE DEF t
<1> QED
  BY <1>1, <1>3, <1>4, <1>5, <1>6, <1>7, AnswerResults, LeaveKeeps

LEMMA GraceOverKeeps ==
  ASSUME StoreIInv, NEW o \in Ops, GraceOver(o)
  PROVE  StoreIInv'
<1> DEFINE follow == call[Own(o)].what = "copy" \/ call[Own(o)].st # "ended"
           t == IF follow THEN Eventual(o, tasks) ELSE tasks
<1>1. /\ pc[o] = "grace" /\ hit' = [hit EXCEPT ![o] = FALSE] /\ LeaveWith(o, "cancelled", t)
      /\ UNCHANGED <<kind, want, cancel, active, ended, exec, close, objectVars, page, spool, pipeVars>>
  BY DEF GraceOver
<1>2. OpTypes /\ OpOK(o)
  BY Types DEF StoreIInv
<1>3. InProgress(o) /\ pc[o] \notin {"cleanup", "yield", "get"} /\ kind[o] \in {"upload", "publish"}
  BY <1>1, <1>2 DEF OpOK, KindFits, InProgress
<1>4. SpoolLeft(o)
  BY <1>1, <1>3, NoSpool
<1>5. hit' \in [Ops -> BOOLEAN]
  BY <1>1, <1>2 DEF OpTypes
<1>6. /\ t = tasks \/ t = Eventual(o, tasks)
      /\ InThread(Own(o)) => t = Eventual(o, tasks)
  BY DEF InThread
<1> HIDE DEF t
<1> QED
  BY <1>1, <1>3, <1>4, <1>5, <1>6, AnswerResults, LeaveKeeps

LEMMA CancelledKeeps ==
  ASSUME StoreIInv, NEW o \in Ops, Cancelled(o)
  PROVE  StoreIInv'
<1> DEFINE what == call[Own(o)].what
           asked == call[Own(o)].st = "asked"
<1>1. /\ hit[o] /\ hit' = [hit EXCEPT ![o] = FALSE]
      /\ UNCHANGED <<kind, want, cancel, active, ended, exec, close, objectVars, page>>
  BY DEF Cancelled
<1>2. OpTypes /\ OpOK(o) /\ hit' \in [Ops -> BOOLEAN] /\ UNCHANGED staged
  BY <1>1, Types DEF StoreIInv, OpTypes, objectVars
<1>3. CASE pc[o] = "cleanup"
  <2>1. /\ pc' = [pc EXCEPT ![o] = "done"] /\ res' = [res EXCEPT ![o] = "cancelled"]
        /\ UNCHANGED <<call, tasks, spool, excused, pipeVars>>
    BY <1>3 DEF Cancelled, Steps
  <2>2. /\ pc' \in [Ops -> Places] /\ pc'[o] = "done" /\ \A p \in Ops \ {o} : pc'[p] = pc[p]
        /\ res' \in [Ops -> Results] /\ res'[o] = "cancelled"
        /\ \A p \in Ops \ {o} : res'[p] = res[p]
    BY <1>2, <2>1 DEF OpTypes, Places, Results
  <2>3. OpTypes'
    BY <1>1, <1>2, <2>1, <2>2 DEF OpTypes
  <2>4. kind[o] \in {"upload", "publish"} /\ res[o] # "refused"
    BY <1>2, <1>3 DEF OpOK, KindFits
  <2>5. OpOK(o)'
    <3>1. CallFits(o)' /\ KindFits(o)'
      BY <1>1, <1>2, <1>3, <2>1, <2>2, <2>4 DEF CallFits, KindFits, Steps, OpOK
    <3>2. TasksFit(o)'
      BY <1>1, <1>2, <1>3, <2>1, <2>2 DEF OpOK, TasksFit, Cleaners
    <3>3. SpoolFits(o)'
      BY <1>1, <1>2, <1>3, <2>1, <2>2 DEF OpOK, SpoolFits
    <3>4. StagingFits(o)'
      BY <1>1, <1>2, <1>3, <2>1, <2>2, <2>4 DEF OpOK, StagingFits, Owed, InThread
    <3> QED
      BY <3>1, <3>2, <3>3, <3>4 DEF OpOK
  <2> QED
    BY <1>1, <1>3, <2>1, <2>2, <2>3, <2>4, <2>5, PlaceKeeps DEF InProgress
<1>4. CASE pc[o] \in {"put", "copy"} /\ ~asked
  <2>1. /\ pc' = [pc EXCEPT ![o] = "grace"] /\ UNCHANGED <<res, call, tasks, spool, excused>>
        /\ IF what = "put" THEN FailPipe ELSE UNCHANGED pipeVars
    BY <1>4 DEF Cancelled
  <2>2. pc' \in [Ops -> Places] /\ pc'[o] = "grace" /\ \A p \in Ops \ {o} : pc'[p] = pc[p]
    BY <1>2, <2>1 DEF OpTypes, Places
  <2>3. OpTypes'
    BY <1>1, <1>2, <2>1, <2>2 DEF OpTypes
  <2>4. /\ what = pc[o] /\ call[Own(o)].st \in {"running", "half", "ended"}
        /\ kind[o] \in {"upload", "publish"} /\ (what = "put" => kind[o] = "upload")
        /\ ~spool[o].abandoned /\ spool[o].file \notin {"open", "published", "owned"}
        /\ res[o] = "none"
    <3>1. /\ what = pc[o] /\ call[Own(o)].st # "idle"
      BY <1>2, <1>4 DEF OpOK, CallFits, Steps
    <3>2. call[Own(o)] \in CallRec
      BY <1>2, CallerParts DEF OpTypes
    <3> QED
      BY <1>2, <1>4, <3>1, <3>2 DEF OpOK, KindFits, SpoolFits, CallRec
  <2>5. OpOK(o)'
    <3>1. CallFits(o)' /\ KindFits(o)'
      BY <1>1, <1>2, <1>4, <2>1, <2>2, <2>4 DEF CallFits, KindFits, Steps, OpOK
    <3>2. TasksFit(o)'
      BY <1>1, <1>2, <1>4, <2>1, <2>2 DEF OpOK, TasksFit, Cleaners
    <3>3. SpoolFits(o)'
      BY <1>1, <1>2, <2>1, <2>2, <2>4 DEF OpOK, SpoolFits
    <3>4. StagingFits(o)'
      BY <1>1, <2>2 DEF StagingFits
    <3> QED
      BY <3>1, <3>2, <3>3, <3>4 DEF OpOK
  <2>6. \/ UNCHANGED pipeVars
        \/ kind[o] = "upload" /\ PipeOK' /\ (cons'.st # "none" => cons.st # "none")
    BY <2>1, <2>4, FailedPipe
  <2> QED
    BY <1>1, <1>4, <2>1, <2>2, <2>3, <2>5, <2>6, PlaceKeeps DEF InProgress
<1>5. CASE \/ pc[o] \in (Steps \ {"put", "copy"}) \union {"yield"}
           \/ pc[o] \in {"put", "copy"} /\ asked
  <2>1. /\ Leave(o, "cancelled")
        /\ IF what = "put"
           THEN pipe' = Failed(pipe, "cancelled", TRUE) /\ UNCHANGED <<prod, cons>>
           ELSE UNCHANGED pipeVars
        /\ spool' = CASE pc[o] = "yield" -> [spool EXCEPT ![o].file = "closed"]
                      [] pc[o] = "get" /\ ~asked /\ kind[o] = "readStream" ->
                           [spool EXCEPT ![o] = Abandon(@)]
                      [] OTHER -> spool
    BY <1>5 DEF Cancelled, Steps
  <2>2. /\ InProgress(o) /\ pc[o] \notin {"new", "cleanup", "done", "grace", "settle"}
        /\ pc[o] # "yield" => what = pc[o] /\ call[Own(o)].st # "idle"
        /\ pc[o] = "yield" => what = "get" /\ call[Own(o)].st = "ended" /\ kind[o] = "readStream"
    BY <1>2, <1>5 DEF InProgress, Steps, OpOK, CallFits, KindFits
  <2>3. SpoolLeft(o)
    <3>1. CASE pc[o] = "yield"
      <4>1. spool[o].file # "open" /\ ~spool[o].abandoned
        BY <1>2, <2>2, <3>1 DEF OpOK, SpoolFits
      <4>2. spool' = [spool EXCEPT ![o].file = "closed"]
        BY <2>1, <3>1
      <4> QED
        BY <1>2, <4>1, <4>2, FileIs DEF SpoolLeft
    <3>2. CASE pc[o] = "get" /\ ~asked /\ kind[o] = "readStream"
      BY <2>1, <3>2, AbandonLeft
    <3>3. CASE pc[o] # "yield" /\ ~(pc[o] = "get" /\ ~asked /\ kind[o] = "readStream")
      <4>1. pc[o] = "get" => spool[o].file \notin {"open", "published"}
        BY <1>2, <3>3 DEF OpOK, SpoolFits
      <4> QED
        BY <2>1, <2>2, <3>3, <4>1, NoSpool
    <3> QED
      BY <3>1, <3>2, <3>3
  <2>4. call[Own(o)].what = "put" => ~InThread(Own(o)) /\ kind[o] = "upload"
    BY <1>2, <1>5, <2>2 DEF InThread, OpOK, KindFits
  <2>5. \/ UNCHANGED pipeVars
        \/ kind[o] = "upload" /\ PipeOK' /\ (cons'.st # "none" => cons.st # "none")
    BY <2>1, <2>4, FailedPipe
  <2> QED
    BY <1>1, <1>2, <2>1, <2>2, <2>3, <2>4, <2>5, AnswerResults, LeaveKeeps DEF Leave
<1> QED
  BY <1>3, <1>4, <1>5 DEF Cancelled

LEMMA CleanedUpKeeps ==
  ASSUME StoreIInv, NEW o \in Ops, CleanedUp(o)
  PROVE  StoreIInv'
<1>1. /\ pc[o] = "cleanup" /\ pc' = [pc EXCEPT ![o] = "done"]
      /\ UNCHANGED <<kind, want, res, cancel, hit, callVars, close, objectVars,
                     tasks, spool, page, excused, pipeVars>>
  BY DEF CleanedUp
<1>2. OpTypes /\ OpOK(o) /\ UNCHANGED <<staged, call, active, ended, exec>>
  BY <1>1, Types DEF StoreIInv, objectVars, callVars
<1>3. pc' \in [Ops -> Places] /\ pc'[o] = "done" /\ \A p \in Ops \ {o} : pc'[p] = pc[p]
  BY <1>1, <1>2 DEF OpTypes, Places
<1>4. OpTypes'
  BY <1>1, <1>2, <1>3 DEF OpTypes
<1>5. kind[o] \in {"upload", "publish"} /\ res[o] # "refused"
  BY <1>1, <1>2 DEF OpOK, KindFits
<1>6. OpOK(o)'
  <2>1. CallFits(o)' /\ KindFits(o)'
    BY <1>1, <1>2, <1>3, <1>5 DEF CallFits, KindFits, Steps, OpOK
  <2>2. TasksFit(o)'
    BY <1>1, <1>2, <1>3 DEF OpOK, TasksFit, Cleaners
  <2>3. SpoolFits(o)'
    BY <1>1, <1>2, <1>3 DEF OpOK, SpoolFits
  <2>4. StagingFits(o)'
    BY <1>1, <1>2, <1>3, <1>5 DEF OpOK, StagingFits, Owed, InThread
  <2> QED
    BY <2>1, <2>2, <2>3, <2>4 DEF OpOK
<1> QED
  BY <1>1, <1>2, <1>3, <1>4, <1>5, <1>6, PlaceKeeps DEF InProgress

LEMMA CancelOpKeeps ==
  ASSUME StoreIInv, NEW o \in Ops, CancelOp(o)
  PROVE  StoreIInv'
<1>1. /\ InProgress(o) /\ cancel' = [cancel EXCEPT ![o] = "caller"]
      /\ hit' = [hit EXCEPT ![o] = TRUE]
      /\ UNCHANGED <<kind, want, pc, res, callVars, close, objectVars, tasks,
                     spool, page, excused, pipeVars>>
  BY DEF CancelOp
<1>2. OpTypes /\ OpOK(o) /\ UNCHANGED <<staged, call, active, ended, exec>> /\ PipeOK
  BY <1>1, Types DEF StoreIInv, objectVars, callVars, PipeOK
<1>3. OpTypes'
  <2>1. hit' \in [Ops -> BOOLEAN]
    BY <1>1, <1>2 DEF OpTypes
  <2>2. cancel' \in [Ops -> {"no", "never", "caller", "close"}]
    BY <1>1, <1>2 DEF OpTypes
  <2> QED
    BY <1>1, <1>2, <2>1, <2>2 DEF OpTypes
<1>4. OpOK(o)'
  BY <1>1, <1>2
     DEF OpOK, CallFits, KindFits, TasksFit, SpoolFits, StagingFits, Owed, InThread, Own
<1>5. OnlyOp(o) /\ \A c \in Callers : InThread(c)' <=> InThread(c)
  BY <1>1, <1>2 DEF OnlyOp, InThread
<1>6. PipeOK' /\ \A p \in Ops : UploadFits(p)'
  BY <1>1, <1>2 DEF pipeVars, PipeOK, PipeTypeOK, PipeFits, StoreIInv, UploadFits, InThread
<1>7. PageFits'
  BY <1>1, PageKept DEF StoreIInv
<1>8. close \notin {"executor", "closed"}
  BY <1>1 DEF StoreIInv, QuietWhenClosed
<1> QED
  BY <1>1, <1>2, <1>3, <1>4, <1>5, <1>6, <1>7, <1>8, OpStepKeeps

LEMMA FirstSteps ==
  ASSUME NEW k \in Kinds \ {"none"}
  PROVE  /\ FirstStep(k) \in Steps
         /\ FirstStep(k) = "put" <=> k = "upload"
         /\ FirstStep(k) = "headSource" <=> k = "publish"
         /\ FirstStep(k) = "remove" <=> k = "delete"
         /\ FirstStep(k) = "list" <=> k = "list"
         /\ FirstStep(k) = "head" <=> k \in {"readStream", "readBytes", "verify"}
         /\ FirstStep(k) \in {"put", "headSource", "remove", "list", "head"}
BY DEF FirstStep, Kinds, Steps

LEMMA AdmitKeeps ==
  ASSUME StoreIInv, NEW o \in Ops, Admit(o)
  PROVE  StoreIInv'
<1>1. /\ pc[o] = "new" /\ kind[o] # "none"
      /\ UNCHANGED <<kind, want, cancel, hit, active, ended, exec, close,
                     objectVars, tasks, spool, page, excused, pipeVars>>
  BY DEF Admit
<1>2. OpTypes /\ OpOK(o) /\ UNCHANGED staged /\ PipeOK /\ kind[o] \in Kinds \ {"none"}
  BY <1>1, Types DEF StoreIInv, objectVars, PipeOK, RestTypes
<1>3. /\ call[Own(o)].st = "idle" /\ res[o] = "none" /\ ~spool[o].abandoned
      /\ tasks[o].staging = "none" /\ tasks[o].eventual = "none"
      /\ spool[o].file \notin {"open", "published", "owned"}
      /\ kind[o] = "upload" => staged[o] = "none"
  <2>1. call[Own(o)].st = "idle" /\ res[o] = "none"
    BY <1>1, <1>2 DEF OpOK, CallFits, KindFits
  <2>2. tasks[o].staging = "none" /\ tasks[o].eventual = "none"
    BY <1>1, <1>2 DEF OpOK, TasksFit
  <2>3. ~spool[o].abandoned /\ spool[o].file \notin {"open", "published", "owned"}
    BY <1>1, <1>2, <2>1 DEF OpOK, SpoolFits
  <2> QED
    BY <1>1, <1>2, <2>1, <2>2, <2>3 DEF OpOK, StagingFits
<1>4. Own(o) \in Callers /\ Own(o)[1] = o /\ \A who \in Cleaners : <<o, who>> \in Callers \ {Own(o)}
  BY CallerParts DEF Who, Cleaners
<1>5. CASE close \notin {"open", "kept"}
  <2>1. pc' = [pc EXCEPT ![o] = "done"] /\ res' = [res EXCEPT ![o] = "refused"] /\ UNCHANGED call
    BY <1>5 DEF Admit
  <2>2. /\ pc' \in [Ops -> Places] /\ pc'[o] = "done" /\ \A p \in Ops \ {o} : pc'[p] = pc[p]
        /\ res' \in [Ops -> Results] /\ res'[o] = "refused"
        /\ \A p \in Ops \ {o} : res'[p] = res[p]
    BY <1>2, <2>1 DEF OpTypes, Places, Results
  <2>3. OpTypes'
    BY <1>1, <1>2, <2>1, <2>2 DEF OpTypes
  <2>4. OpOK(o)'
    <3>1. CallFits(o)' /\ KindFits(o)'
      BY <1>1, <1>3, <2>1, <2>2 DEF CallFits, KindFits, Steps
    <3>2. TasksFit(o)'
      BY <1>1, <1>2, <1>3, <2>1, <2>2 DEF OpOK, TasksFit, Cleaners
    <3>3. SpoolFits(o)' /\ StagingFits(o)'
      BY <1>1, <1>3, <2>1, <2>2 DEF SpoolFits, StagingFits
    <3> QED
      BY <3>1, <3>2, <3>3 DEF OpOK
  <2>5. OnlyOp(o) /\ \A c \in Callers : InThread(c)' <=> InThread(c)
    BY <1>1, <1>2, <2>1, <2>2 DEF OnlyOp, InThread
  <2>6. \A p \in Ops : UploadFits(p)'
    BY <1>1, <2>1, <2>2, <2>5, UploadKept DEF pipeVars
  <2>7. PageFits'
    BY <1>1, <1>3, <2>2, PageKept DEF StoreIInv
  <2>8. PipeOK'
    BY <1>1, <1>2 DEF pipeVars, PipeOK, PipeTypeOK, PipeFits
  <2>9. ~InProgress(o)' /\ ~TaskLive(o)'
    BY <1>1, <1>3, <2>2 DEF InProgress, TaskLive
  <2> QED
    BY <1>1, <2>3, <2>4, <2>5, <2>6, <2>7, <2>8, <2>9, OpStepKeeps
<1>6. CASE close \in {"open", "kept"}
  <2> DEFINE step == FirstStep(kind[o])
  <2>1. /\ pc' = [pc EXCEPT ![o] = step] /\ call' = [call EXCEPT ![Own(o)] = Asked(step)]
        /\ UNCHANGED res
    BY <1>6 DEF Admit
  <2>2. /\ step \in Steps
        /\ step = "put" <=> kind[o] = "upload"
        /\ step = "headSource" <=> kind[o] = "publish"
        /\ step = "remove" <=> kind[o] = "delete"
        /\ step = "list" <=> kind[o] = "list"
        /\ step = "head" <=> kind[o] \in {"readStream", "readBytes", "verify"}
        /\ step \in {"put", "headSource", "remove", "list", "head"}
    BY <1>2, FirstSteps
  <2> HIDE DEF step
  <2>3. /\ Asked(step) \in CallRec /\ Asked(step).st = "asked" /\ Asked(step).what = step
        /\ step \in Places
    BY <2>2, CallRecs DEF Places
  <2>4. pc' \in [Ops -> Places] /\ pc'[o] = step /\ \A p \in Ops \ {o} : pc'[p] = pc[p]
    BY <1>2, <2>1, <2>3 DEF OpTypes
  <2>5. /\ call' \in [Callers -> CallRec] /\ call'[Own(o)] = Asked(step)
        /\ \A c \in Callers \ {Own(o)} : call'[c] = call[c]
    BY <1>2, <1>4, <2>1, <2>3 DEF OpTypes
  <2>6. OpTypes'
    BY <1>1, <1>2, <2>1, <2>4, <2>5 DEF OpTypes
  <2>7. OpOK(o)'
    <3>1. CallFits(o)' /\ KindFits(o)'
      BY <1>1, <1>3, <2>1, <2>2, <2>3, <2>4, <2>5 DEF CallFits, KindFits, Steps
    <3>2. TasksFit(o)'
      <4>1. \A who \in Cleaners : call'[<<o, who>>] = call[<<o, who>>]
        BY <1>4, <2>5
      <4> QED
        BY <1>1, <1>2, <1>3, <2>1, <2>2, <2>4, <4>1 DEF OpOK, TasksFit, Cleaners
    <3>3. SpoolFits(o)'
      BY <1>1, <1>3, <2>2, <2>3, <2>4, <2>5 DEF SpoolFits
    <3>4. StagingFits(o)'
      BY <1>1, <1>2, <1>3, <2>2, <2>4 DEF StagingFits
    <3> QED
      BY <3>1, <3>2, <3>3, <3>4 DEF OpOK
  <2>8. OnlyOp(o)
    BY <1>1, <1>2, <1>4, <2>1, <2>4, <2>5 DEF OnlyOp
  <2>9. (\A c \in Callers : InThread(c)' <=> InThread(c)) /\ ~InThread(Own(o))
    BY <1>3, <2>3, <2>5 DEF InThread
  <2>10. \A p \in Ops : UploadFits(p)'
    BY <1>1, <2>8, <2>9, UploadKept DEF pipeVars
  <2>11. PageFits'
    BY <1>1, <2>1, PageKept DEF StoreIInv
  <2>12. PipeOK'
    BY <1>1, <1>2 DEF pipeVars, PipeOK, PipeTypeOK, PipeFits
  <2> QED
    BY <1>1, <1>6, <2>6, <2>7, <2>8, <2>9, <2>10, <2>11, <2>12, OpStepKeeps
<1> QED
  BY <1>5, <1>6

LEMMA NextPageKeeps ==
  ASSUME StoreIInv, NEW o \in Ops, NextPage(o)
  PROVE  StoreIInv'
<1>1. /\ kind[o] = "list" /\ pc[o] = "done" /\ res[o] = "ok" /\ page.after > 0
      /\ pc' = [pc EXCEPT ![o] = "new"] /\ res' = [res EXCEPT ![o] = "none"]
      /\ UNCHANGED <<kind, want, cancel, hit, callVars, close, objectVars, tasks,
                     spool, page, excused, pipeVars>>
  BY DEF NextPage
<1>2. OpTypes /\ OpOK(o) /\ UNCHANGED <<staged, call, active, ended, exec>> /\ PipeOK
  BY <1>1, Types DEF StoreIInv, objectVars, callVars, PipeOK
<1>3. /\ pc' \in [Ops -> Places] /\ pc'[o] = "new" /\ \A p \in Ops \ {o} : pc'[p] = pc[p]
      /\ res' \in [Ops -> Results] /\ res'[o] = "none"
      /\ \A p \in Ops \ {o} : res'[p] = res[p]
  BY <1>1, <1>2 DEF OpTypes, Places, Results
<1>4. OpTypes'
  BY <1>1, <1>2, <1>3 DEF OpTypes
<1>5. call[Own(o)].st = "idle" /\ tasks[o].staging = "none" /\ tasks[o].eventual = "none"
  BY <1>1, <1>2 DEF OpOK, CallFits, TasksFit
<1>6. OpOK(o)'
  <2>1. CallFits(o)' /\ KindFits(o)'
    BY <1>1, <1>2, <1>3, <1>5 DEF CallFits, KindFits, Steps
  <2>2. TasksFit(o)'
    BY <1>1, <1>2, <1>3 DEF OpOK, TasksFit, Cleaners
  <2>3. SpoolFits(o)' /\ StagingFits(o)'
    BY <1>1, <1>2, <1>3 DEF OpOK, SpoolFits, StagingFits
  <2> QED
    BY <2>1, <2>2, <2>3 DEF OpOK
<1>7. OnlyOp(o) /\ \A c \in Callers : InThread(c)' <=> InThread(c)
  BY <1>1, <1>2, <1>3 DEF OnlyOp, InThread
<1>8. \A p \in Ops : UploadFits(p)'
  BY <1>1, <1>2, <1>7, UploadKept DEF pipeVars
<1>9. PageFits'
  <2>1. page.after # 0
    BY <1>1 DEF StoreIInv, PageFits
  <2> QED
    BY <1>1, <2>1, PageKept DEF StoreIInv
<1>10. PipeOK'
  BY <1>1, <1>2 DEF pipeVars, PipeOK, PipeTypeOK, PipeFits
<1>11. ~InProgress(o)' /\ ~TaskLive(o)'
  BY <1>1, <1>3, <1>5 DEF InProgress, TaskLive
<1> QED
  BY <1>1, <1>2, <1>4, <1>6, <1>7, <1>8, <1>9, <1>10, <1>11, OpStepKeeps

-----------------------------------------------------------------------------
(* The background tasks.                                                   *)

\* A step of a task whose operation has left.
LEMMA TaskKeeps ==
  ASSUME StoreIInv, NEW o \in Ops, TaskLive(o), BackgroundFrame,
         call' \in [Callers -> CallRec], tasks' \in [Ops -> TaskRec], excused' \subseteq Ops,
         excused \subseteq excused', \A p \in Ops \ {o} : tasks'[p] = tasks[p],
         \A c \in Callers : c[1] # o => call'[c] = call[c],
         \A c \in Callers : InThread(c)' <=> InThread(c),
         InThread(Own(o)) => call'[Own(o)] = call[Own(o)],
         pc[o] \in {"cleanup", "done"} /\ kind[o] \in {"upload", "publish"} => OpOK(o)'
  PROVE  StoreIInv'
<1>1. /\ UNCHANGED <<opVars, active, ended, exec, close, objectVars, spool, page, pipeVars>>
      /\ UNCHANGED <<kind, want, pc, res, cancel, hit, staged>>
  BY DEF BackgroundFrame, opVars, objectVars
<1>2. OpTypes /\ OpOK(o) /\ PipeOK
  BY Types DEF StoreIInv, PipeOK
<1>3. pc[o] \in {"cleanup", "done"} /\ kind[o] \in {"upload", "publish"}
  BY <1>2 DEF OpOK, TasksFit, TaskLive
<1>4. OpTypes'
  BY <1>1, <1>2 DEF OpTypes
<1>5. OnlyOp(o)
  BY <1>1 DEF OnlyOp
<1>6. \A p \in Ops : UploadFits(p)'
  BY <1>1, <1>3, <1>5, UploadKept DEF pipeVars
<1>7. PageFits'
  BY <1>1, PageKept DEF StoreIInv
<1>8. PipeOK'
  BY <1>1, <1>2 DEF pipeVars, PipeOK, PipeTypeOK, PipeFits
<1>9. close \notin {"executor", "closed"}
  BY DEF StoreIInv, QuietWhenClosed
<1> QED
  BY <1>1, <1>3, <1>4, <1>5, <1>6, <1>7, <1>8, <1>9, OpStepKeeps

LEMMA EventualWakesKeeps ==
  ASSUME StoreIInv, NEW o \in Ops, EventualWakes(o)
  PROVE  StoreIInv'
<1> DEFINE late == call[Own(o)].what = "copy" /\ Out(o) = "ok"
           who == IF late THEN "late" ELSE "eventual"
           st == IF late THEN "late" ELSE "delete"
<1>1. /\ tasks[o].eventual = "wait" /\ call[Own(o)].st = "ended"
      /\ tasks' = [tasks EXCEPT ![o].eventual = st]
      /\ call' = [call EXCEPT ![Own(o)] = NoCall, ![<<o, who>>] = Asked("remove")]
      /\ UNCHANGED excused /\ BackgroundFrame
  BY DEF EventualWakes
<1>2. OpTypes /\ OpOK(o)
  BY Types DEF StoreIInv
<1>3. who \in {"late", "eventual"} /\ st = (IF who = "late" THEN "late" ELSE "delete")
  OBVIOUS
<1> HIDE DEF late, who, st
<1>4. /\ Own(o) \in Callers /\ Own(o)[1] = o /\ \A w \in Cleaners : <<o, w>> \in Callers \ {Own(o)}
      /\ \A w \in Cleaners : <<o, w>>[1] = o /\ (w # who => <<o, w>> # <<o, who>>)
      /\ who \in Cleaners
  BY <1>3, CallerParts DEF Who, Cleaners
<1>5. /\ NoCall \in CallRec /\ Asked("remove") \in CallRec /\ NoCall.st = "idle"
      /\ Asked("remove").st = "asked" /\ Asked("remove").what = "remove"
  BY CallRecs DEF Steps
<1>6. /\ call' \in [Callers -> CallRec] /\ call'[Own(o)] = NoCall
      /\ call'[<<o, who>>] = Asked("remove")
      /\ \A c \in Callers : c # Own(o) /\ c # <<o, who>> => call'[c] = call[c]
  <2>1. call \in [Callers -> CallRec] /\ <<o, who>> \in Callers /\ <<o, who>> # Own(o)
    BY <1>2, <1>4 DEF OpTypes
  <2> QED
    BY <1>1, <1>4, <1>5, <2>1
<1>7. /\ tasks' \in [Ops -> TaskRec] /\ \A p \in Ops \ {o} : tasks'[p] = tasks[p]
      /\ tasks'[o].eventual = st /\ tasks'[o].staging = tasks[o].staging
  BY <1>1, <1>2, <1>3 DEF OpTypes, TaskRec
<1>8. call[<<o, "late">>].st = "idle" /\ call[<<o, "eventual">>].st = "idle"
  BY <1>1, <1>2 DEF OpOK, TasksFit
<1>9. \A c \in Callers : InThread(c)' <=> InThread(c)
  <2>1. call[<<o, who>>].st = "idle"
    BY <1>3, <1>8
  <2> QED
    BY <1>1, <1>5, <1>6, <2>1 DEF InThread
<1>10. TaskLive(o) /\ ~InThread(Own(o))
  BY <1>1 DEF TaskLive, InThread
<1>11. ASSUME pc[o] \in {"cleanup", "done"}, kind[o] \in {"upload", "publish"}
       PROVE  OpOK(o)'
  <2>1. UNCHANGED <<kind, pc, res, spool, staged>>
    BY <1>1 DEF BackgroundFrame, opVars, objectVars
  <2>2. CallFits(o)' /\ KindFits(o)'
    BY <1>2, <1>5, <1>6, <1>11, <2>1 DEF OpOK, CallFits, KindFits, Steps
  <2>3. TasksFit(o)'
    <3>1. /\ call'[<<o, "staging">>] = call[<<o, "staging">>]
          /\ \A w \in {"late", "eventual"} :
                call'[<<o, w>>] = IF w = who THEN Asked("remove") ELSE call[<<o, w>>]
      BY <1>3, <1>4, <1>6 DEF Cleaners
    <3> QED
      BY <1>1, <1>2, <1>3, <1>5, <1>7, <1>8, <1>11, <2>1, <3>1 DEF OpOK, TasksFit, Cleaners
  <2>4. SpoolFits(o)'
    BY <1>2, <1>5, <1>6, <1>11, <2>1 DEF OpOK, SpoolFits
  <2>5. StagingFits(o)'
    BY <1>3, <1>5, <1>6, <1>7, <1>11, <2>1 DEF StagingFits, Owed, InThread
  <2> QED
    BY <2>2, <2>3, <2>4, <2>5 DEF OpOK
<1>12. /\ excused' \subseteq Ops /\ excused \subseteq excused'
       /\ \A c \in Callers : c[1] # o => call'[c] = call[c]
  BY <1>1, <1>2, <1>4, <1>6 DEF OpTypes
<1> QED
  BY <1>1, <1>6, <1>7, <1>9, <1>10, <1>11, <1>12, TaskKeeps

LEMMA DeleteReturnsKeeps ==
  ASSUME StoreIInv, NEW o \in Ops, NEW who \in Cleaners, DeleteReturns(o, who)
  PROVE  StoreIInv'
<1> DEFINE c == <<o, who>>
           e == <<o, "eventual">>
           vc == IF call[c].st \in {"asked", "ended"} THEN NoCall ELSE call[c]
           t == tasks[o]
           u == tasks'[o]
<1>1. /\ who = "staging" => t.staging = "delete"
      /\ who = "late" => t.eventual = "late"
      /\ who = "eventual" => t.eventual = "delete"
      /\ excused' = IF call[c].st = "ended" /\ call[c].out = "ok"
                    THEN excused ELSE excused \union {o}
      /\ who = "staging" => tasks' = [tasks EXCEPT ![o].staging = "done"]
      /\ who = "late" => tasks' = [tasks EXCEPT ![o].eventual = "delete"]
      /\ who = "eventual" => tasks' = [tasks EXCEPT ![o].eventual = "done"]
      /\ call' = IF who = "late" THEN [[call EXCEPT ![c] = vc] EXCEPT ![e] = Asked("remove")]
                                ELSE [call EXCEPT ![c] = vc]
      /\ BackgroundFrame
  BY DEF DeleteReturns, Cleaners
<1>2. OpTypes /\ OpOK(o)
  BY Types DEF StoreIInv
<1>3. /\ tasks' \in [Ops -> TaskRec] /\ \A p \in Ops \ {o} : tasks'[p] = tasks[p]
      /\ u.staging = (IF who = "staging" THEN "done" ELSE t.staging)
      /\ u.eventual = (IF who = "late" THEN "delete"
                       ELSE IF who = "eventual" THEN "done" ELSE t.eventual)
  BY <1>1, <1>2, SMTT(30) DEF OpTypes, TaskRec, Cleaners
<1>4. /\ c \in Callers /\ e \in Callers /\ Own(o) \in Callers /\ c # Own(o) /\ e # Own(o)
      /\ c[1] = o /\ e[1] = o /\ (who # "eventual" => c # e) /\ c = <<o, who>>
      /\ \A w \in Cleaners : <<o, w>> \in Callers /\ (w # who => <<o, w>> # c)
      /\ \A w \in Cleaners : w # "eventual" => <<o, w>> # e
  BY CallerParts DEF Who, Cleaners
<1>5. /\ NoCall \in CallRec /\ Asked("remove") \in CallRec /\ NoCall.st = "idle"
      /\ Asked("remove").st = "asked" /\ Asked("remove").what = "remove"
  BY CallRecs DEF Steps
<1>6. /\ call' \in [Callers -> CallRec] /\ call'[c] = vc
      /\ who = "late" => call'[e] = Asked("remove")
      /\ \A d \in Callers : d # c /\ (who = "late" => d # e) => call'[d] = call[d]
  <2>1. call \in [Callers -> CallRec] /\ vc \in CallRec
    BY <1>2, <1>4, <1>5 DEF OpTypes
  <2>2. CASE who = "late"
    <3>1. call' = [[call EXCEPT ![c] = vc] EXCEPT ![e] = Asked("remove")]
      BY <1>1, <2>2
    <3> HIDE DEF vc, c, e
    <3> QED
      BY <1>4, <1>5, <2>1, <2>2, <3>1
  <2>3. CASE who # "late"
    <3>1. call' = [call EXCEPT ![c] = vc]
      BY <1>1, <2>3
    <3> HIDE DEF vc, c, e
    <3> QED
      BY <1>4, <2>1, <2>3, <3>1
  <2> QED
    BY <2>2, <2>3
<1>7. /\ who = "late" => call[e].st = "idle"
      /\ call[c].st # "half"
  BY <1>1, <1>2 DEF OpOK, TasksFit
<1>8. vc.st \notin {"asked", "ended"} /\ (vc = call[c] \/ vc.st = "idle")
  BY <1>5
<1>9. \A d \in Callers : InThread(d)' <=> InThread(d)
  <2>1. InThread(c)' <=> InThread(c)
    BY <1>5, <1>6 DEF InThread
  <2>2. who = "late" => (InThread(e)' <=> InThread(e))
    BY <1>5, <1>6, <1>7 DEF InThread
  <2> QED
    BY <1>6, <2>1, <2>2 DEF InThread
<1>10. TaskLive(o) /\ call'[Own(o)] = call[Own(o)]
  BY <1>1, <1>4, <1>6 DEF TaskLive, Cleaners
<1> HIDE DEF vc, c, e, t, u
<1>11. ASSUME pc[o] \in {"cleanup", "done"}, kind[o] \in {"upload", "publish"}
       PROVE  OpOK(o)'
  <2>1. UNCHANGED <<kind, pc, res, spool, staged>>
    BY <1>1 DEF BackgroundFrame, opVars, objectVars
  <2>2. CallFits(o)' /\ KindFits(o)'
    BY <1>2, <1>10, <2>1 DEF OpOK, CallFits, KindFits
  <2>3. TasksFit(o)'
    <3>1. \A w \in Cleaners : call'[<<o, w>>] =
             IF w = who THEN vc
             ELSE IF w = "eventual" /\ who = "late" THEN Asked("remove") ELSE call[<<o, w>>]
      <4>1. call'[<<o, who>>] = vc
        BY <1>4, <1>6
      <4>2. who = "late" => call'[<<o, "eventual">>] = Asked("remove")
        BY <1>6 DEF e
      <4>3. ASSUME NEW w \in Cleaners, w # who, ~(w = "eventual" /\ who = "late")
            PROVE  call'[<<o, w>>] = call[<<o, w>>]
        BY <1>4, <1>6, <4>3
      <4> QED
        BY <4>1, <4>2, <4>3
    <3>2. vc.st \notin {"asked", "ended", "half"} /\ (vc = call[<<o, who>>] \/ vc.st = "idle")
      BY <1>4, <1>7, <1>8
    <3>3. TasksFit(o)
      BY <1>2 DEF OpOK
    <3>4. /\ u.staging = (IF who = "staging" THEN "done" ELSE t.staging)
          /\ u.eventual = (IF who = "late" THEN "delete"
                           ELSE IF who = "eventual" THEN "done" ELSE t.eventual)
          /\ t = tasks[o] /\ u = tasks'[o]
      BY <1>3 DEF t, u
    <3>5. CASE who = "staging"
      BY <1>1, <1>5, <1>11, <2>1, <3>1, <3>2, <3>3, <3>4, <3>5 DEF TasksFit, Cleaners
    <3>6. CASE who = "late"
      BY <1>1, <1>5, <1>11, <2>1, <3>1, <3>2, <3>3, <3>4, <3>6 DEF TasksFit, Cleaners
    <3>7. CASE who = "eventual"
      BY <1>1, <1>5, <1>11, <2>1, <3>1, <3>2, <3>3, <3>4, <3>7 DEF TasksFit, Cleaners
    <3> QED
      BY <3>5, <3>6, <3>7 DEF Cleaners
  <2>4. SpoolFits(o)'
    BY <1>2, <1>10, <2>1 DEF OpOK, SpoolFits
  <2>5. StagingFits(o)'
    <3>1. pc'[o] \in {"cleanup", "done"} /\ kind' = kind /\ res' = res /\ staged' = staged
          /\ call'[Own(o)] = call[Own(o)]
      BY <1>10, <1>11, <2>1
    <3> SUFFICES ASSUME res[o] # "refused", o \notin excused'
                 PROVE  /\ call[Own(o)].what = "put" /\ InThread(Own(o)) => u.eventual = "wait"
                        /\ staged[o] # "none" =>
                             \/ u.eventual \in {"wait", "late"}
                             \/ u.eventual = "delete" /\ Owed(o, "eventual")'
                             \/ u.staging = "delete" /\ Owed(o, "staging")'
      BY <3>1 DEF StagingFits, InThread, u
    <3>2. call[c].st = "ended" /\ call[c].out = "ok" /\ o \notin excused
      BY <1>1
    <3>3. /\ call[Own(o)].what = "put" /\ InThread(Own(o)) => t.eventual = "wait"
          /\ staged[o] # "none" =>
               \/ t.eventual \in {"wait", "late"}
               \/ t.eventual = "delete" /\ Owed(o, "eventual")
               \/ t.staging = "delete" /\ Owed(o, "staging")
      BY <1>2, <1>11, <3>2 DEF OpOK, StagingFits, t
    <3>4. ~Owed(o, who)
      BY <1>4, <3>2 DEF Owed
    <3>5. CASE who = "staging"
      <4>1. call'[<<o, "eventual">>] = call[<<o, "eventual">>]
        BY <1>4, <1>6, <3>5 DEF Cleaners
      <4> QED
        BY <1>3, <3>3, <3>4, <3>5, <4>1 DEF Owed
    <3>6. CASE who = "late"
      <4>1. call'[<<o, "eventual">>].st = "asked"
        BY <1>5, <1>6, <3>6 DEF e
      <4> QED
        BY <1>1, <1>3, <3>3, <3>6, <4>1 DEF Owed
    <3>7. CASE who = "eventual"
      <4>1. call'[<<o, "staging">>] = call[<<o, "staging">>]
        BY <1>4, <1>6, <3>7 DEF Cleaners
      <4> QED
        BY <1>1, <1>3, <3>3, <3>4, <3>7, <4>1 DEF Owed
    <3> QED
      BY <3>5, <3>6, <3>7 DEF Cleaners
  <2> QED
    BY <2>2, <2>3, <2>4, <2>5 DEF OpOK
<1>12. /\ excused' \subseteq Ops /\ excused \subseteq excused'
       /\ \A d \in Callers : d[1] # o => call'[d] = call[d]
  BY <1>1, <1>2, <1>4, <1>6 DEF OpTypes
<1> QED
  BY <1>1, <1>3, <1>6, <1>9, <1>10, <1>11, <1>12, TaskKeeps

-----------------------------------------------------------------------------
(* The executor and its threads.                                           *)

\* A step of one thread, of an operation or of a task that is not over.
LEMMA ThreadStepKeeps ==
  ASSUME StoreIInv, NEW o \in Ops, OnlyOp(o), OpOK(o)', OpTypes', RestTypes',
         CapacityFollowsThreads', UNCHANGED <<kind, pc, res, tasks, close, page>>,
         close \notin {"executor", "closed"}, StagedWhole',
         PipeOK', \A p \in Ops : UploadFits(p)'
  PROVE  StoreIInv'
<1>1. StoreTypeOK'
  BY TypesNext DEF PipeOK
<1>2. QuietWhenClosed'
  BY DEF QuietWhenClosed
<1>3. OneEach'
  BY DEF StoreIInv, OneEach
<1>4. \A p \in Ops : OpOK(p)'
  BY OtherOps
<1>5. PageFits'
  BY PageKept DEF StoreIInv
<1> QED
  BY <1>1, <1>2, <1>3, <1>4, <1>5 DEF StoreIInv, PipeOK

\* A call that waits for a thread belongs to somebody who is not over.
LEMMA AskedIs ==
  ASSUME StoreIInv, NEW c \in Callers, call[c].st = "asked"
  PROVE  /\ close \notin {"executor", "closed"} /\ c[1] \in Ops /\ OpOK(c[1]) /\ OpTypes
         /\ \/ c = Own(c[1]) /\ pc[c[1]] \in Steps /\ call[c].what = pc[c[1]]
            \/ c[2] \in Cleaners /\ c = <<c[1], c[2]>> /\ c # Own(c[1]) /\ call[c].what = "remove"
<1>1. c[1] \in Ops /\ c[2] \in Who /\ c = <<c[1], c[2]>> /\ (c[2] = "op" => c = Own(c[1]))
  BY CallerParts
<1>2. OpOK(c[1]) /\ OpTypes
  BY <1>1, Types DEF StoreIInv
<1>3. CASE c[2] = "op"
  <2>1. pc[c[1]] \in Steps /\ call[c].what = pc[c[1]]
    <3>1. pc[c[1]] \in Places
      BY <1>1, <1>2 DEF OpTypes
    <3> QED
      BY <1>1, <1>2, <1>3, <3>1 DEF OpOK, CallFits, Places
  <2>2. InProgress(c[1])
    BY <2>1 DEF InProgress, Steps
  <2> QED
    BY <1>1, <1>2, <1>3, <2>1, <2>2 DEF StoreIInv, QuietWhenClosed
<1>4. CASE c[2] \in Cleaners
  <2>1. TaskLive(c[1]) /\ call[c].what = "remove"
    BY <1>1, <1>2, <1>4 DEF OpOK, TasksFit, TaskLive, Cleaners
  <2>2. c # Own(c[1])
    BY <1>1, <1>4, CallerParts DEF Cleaners
  <2> QED
    BY <1>1, <1>2, <1>4, <2>1, <2>2 DEF StoreIInv, QuietWhenClosed
<1> QED
  BY <1>1, <1>3, <1>4 DEF Who

LEMMA SubmitKeeps ==
  ASSUME StoreIInv, NEW c \in Callers, Submit(c)
  PROVE  StoreIInv'
<1> DEFINE o == c[1]
<1>1. /\ call[c].st = "asked" /\ ~NoCapacity /\ active' = active + 1
      /\ call' = [call EXCEPT ![c].st = "running"]
      /\ IF call[c].what = "put"
         THEN /\ cons' = [cons EXCEPT !.st = "read"]
              /\ prod' = [prod EXCEPT !.st = "created"]
              /\ UNCHANGED pipe
         ELSE UNCHANGED pipeVars
      /\ spool' = IF call[c].what = "get" /\ kind[o] = "readStream"
                  THEN [spool EXCEPT ![o].file = "open"] ELSE spool
      /\ UNCHANGED <<opVars, close, objectVars, ended, exec, tasks, page, excused>>
  BY DEF Submit
<1>2. /\ close \notin {"executor", "closed"} /\ o \in Ops /\ OpOK(o) /\ OpTypes
      /\ \/ c = Own(o) /\ pc[o] \in Steps /\ call[c].what = pc[o]
         \/ c[2] \in Cleaners /\ c = <<o, c[2]>> /\ c # Own(o) /\ call[c].what = "remove"
  BY <1>1, AskedIs
<1>3. /\ UNCHANGED <<kind, want, pc, res, cancel, hit, staged, final, rival>> /\ RestTypes /\ PipeOK
      /\ CapacityFollowsThreads /\ call[c] \in CallRec
  BY <1>1, <1>2, Types DEF opVars, objectVars, StoreIInv, PipeOK, OpTypes
<1>4. /\ call' \in [Callers -> CallRec] /\ call'[c].st = "running" /\ call'[c].what = call[c].what
      /\ \A d \in Callers \ {c} : call'[d] = call[d]
  BY <1>1, <1>2 DEF OpTypes, CallRec
<1>5. /\ spool' \in [Ops -> SpoolRec] /\ \A p \in Ops \ {o} : spool'[p] = spool[p]
      /\ IF call[c].what = "get" /\ kind[o] = "readStream"
         THEN spool'[o].file = "open" /\ (spool'[o].abandoned <=> spool[o].abandoned)
         ELSE spool'[o] = spool[o]
  <2>1. CASE call[c].what = "get" /\ kind[o] = "readStream"
    BY <1>1, <1>2, <2>1, FileIs
  <2> QED
    BY <1>1, <1>2, <2>1 DEF OpTypes
<1>6. OpTypes'
  BY <1>1, <1>2, <1>3, <1>4, <1>5 DEF OpTypes
<1>7. active' \in 0 .. MaxWorkers /\ active' <= exec.workers
  BY <1>1, <1>3, StoreAssumption DEF NoCapacity, RestTypes
<1>8. RestTypes'
  BY <1>1, <1>3, <1>7 DEF RestTypes
<1>9. CapacityFollowsThreads'
  <2>1. ~InThread(c) /\ InThread(c)' /\ \A d \in Callers \ {c} : InThread(d)' <=> InThread(d)
    BY <1>1, <1>4 DEF InThread
  <2> QED
    BY <1>1, <1>3, <2>1, ThreadEnters
<1>10. OnlyOp(o)
  BY <1>1, <1>3, <1>4, <1>5 DEF OnlyOp
<1>11. StagedWhole'
  BY <1>3 DEF StoreIInv, StagedWhole
<1>12. /\ Own(o) \in Callers /\ \A who \in Cleaners : <<o, who>> \in Callers /\ <<o, who>> # Own(o)
       /\ \A who \in Cleaners : <<o, who>>[2] = who
  BY <1>2, CallerParts DEF Who, Cleaners
<1>13. CASE c = Own(o)
  <2>1. pc[o] \in Steps /\ call[Own(o)].what = pc[o] /\ call[Own(o)].st = "asked"
    BY <1>1, <1>2, <1>13
  <2>2. \A who \in Cleaners : call'[<<o, who>>] = call[<<o, who>>]
    BY <1>4, <1>12, <1>13
  <2>3. ~spool[o].abandoned /\ spool[o].file \notin {"open", "published", "owned"}
    BY <1>2, <2>1 DEF OpOK, SpoolFits, Steps
  <2>4. call'[Own(o)].st = "running" /\ call'[Own(o)].what = pc[o]
    BY <1>4, <1>13, <2>1
  <2>5. OpOK(o)'
    <3>1. CallFits(o)' /\ KindFits(o)'
      BY <1>2, <1>3, <2>1, <2>4 DEF OpOK, CallFits, KindFits, Steps
    <3>2. TasksFit(o)'
      BY <1>1, <1>2, <1>3, <2>1, <2>2 DEF OpOK, TasksFit, Cleaners
    <3>3. SpoolFits(o)'
      BY <1>3, <1>5, <1>13, <2>1, <2>3, <2>4 DEF SpoolFits
    <3>4. StagingFits(o)'
      BY <1>3, <2>1, <2>4 DEF StagingFits, Steps
    <3> QED
      BY <3>1, <3>2, <3>3, <3>4 DEF OpOK
  <2>6. CASE call[c].what = "put"
    <3>1. kind[o] = "upload" /\ pc[o] = "put"
      BY <1>2, <1>13, <2>1, <2>6 DEF OpOK, KindFits
    <3>2. prod.st = "none" /\ cons.st = "none" /\ ~pipe.stopped
      BY <1>2, <2>1, <3>1 DEF StoreIInv, UploadFits
    <3>3. PipeOK'
      BY <1>1, <1>3, <2>6, <3>2, StartPutOK
    <3>4. ASSUME NEW p \in Ops
          PROVE  UploadFits(p)'
      <4>1. kind[p] = "upload" => p = o
        BY <1>2, <3>1 DEF StoreIInv, OneEach
      <4> QED
        BY <1>3, <2>4, <3>1, <4>1 DEF UploadFits, InThread
    <3> QED
      BY <1>1, <1>2, <1>3, <1>6, <1>8, <1>9, <1>10, <1>11, <2>5, <3>3, <3>4, ThreadStepKeeps
  <2>7. CASE call[c].what # "put"
    <3>1. UNCHANGED pipeVars
      BY <1>1, <2>7
    <3>2. PipeOK'
      BY <1>3, <3>1 DEF pipeVars, PipeOK, PipeTypeOK, PipeFits
    <3>3. ASSUME NEW p \in Ops, kind[p] = "upload"
          PROVE  UploadFits(p)'
      <4>1. UploadFits(p) /\ Own(p) \in Callers
        BY CallerParts DEF StoreIInv
      <4>2. CASE p = o
        <5>1. pc[o] # "put" /\ pc[o] # "new"
          BY <1>13, <2>1, <2>7 DEF Steps
        <5>2. cons.st = "none"
          BY <1>13, <2>1, <3>3, <4>1, <4>2 DEF UploadFits, InThread
        <5> QED
          BY <1>3, <3>1, <4>2, <5>1, <5>2 DEF UploadFits, pipeVars
      <4>3. CASE p # o
        <5>1. call'[Own(p)] = call[Own(p)]
          BY <1>2, <1>4, <1>13, <4>1, <4>3, CallerParts
        <5> QED
          BY <1>3, <3>1, <4>1, <5>1 DEF UploadFits, InThread, pipeVars
      <4> QED
        BY <4>2, <4>3
    <3>4. \A p \in Ops : UploadFits(p)'
      BY <1>3, <3>3 DEF UploadFits
    <3> QED
      BY <1>1, <1>2, <1>3, <1>6, <1>8, <1>9, <1>10, <1>11, <2>5, <3>2, <3>4, ThreadStepKeeps
  <2> QED
    BY <2>6, <2>7
<1>14. CASE c # Own(o)
  <2>1. /\ c[2] \in Cleaners /\ c = <<o, c[2]>> /\ call[c].what = "remove"
        /\ UNCHANGED pipeVars /\ spool'[o] = spool[o]
    BY <1>1, <1>2, <1>5, <1>14
  <2>2. /\ call'[Own(o)] = call[Own(o)]
        /\ \A who \in Cleaners : who # c[2] => call'[<<o, who>>] = call[<<o, who>>]
    BY <1>4, <1>12, <1>14
  <2>3. OpOK(o)'
    <3>1. CallFits(o)' /\ KindFits(o)'
      BY <1>2, <1>3, <2>2 DEF OpOK, CallFits, KindFits
    <3>2. TasksFit(o)'
      <4>1. /\ call[<<o, c[2]>>].st = "asked"
            /\ call'[<<o, c[2]>>].st = "running" /\ call'[<<o, c[2]>>].what = "remove"
        BY <1>1, <1>4, <2>1
      <4> QED
        BY <1>1, <1>2, <1>3, <2>1, <2>2, <4>1 DEF OpOK, TasksFit, Cleaners
    <3>3. SpoolFits(o)'
      BY <1>2, <1>3, <2>1, <2>2 DEF OpOK, SpoolFits
    <3>4. StagingFits(o)'
      <4>1. \A who \in Cleaners : Owed(o, who) => Owed(o, who)'
        BY <1>4, <2>1, <2>2 DEF Owed
      <4> QED
        BY <1>1, <1>2, <1>3, <2>2, <4>1 DEF OpOK, StagingFits, InThread, Cleaners
    <3> QED
      BY <3>1, <3>2, <3>3, <3>4 DEF OpOK
  <2>4. PipeOK'
    BY <1>3, <2>1 DEF pipeVars, PipeOK, PipeTypeOK, PipeFits
  <2>5. ASSUME NEW p \in Ops
        PROVE  UploadFits(p)'
    <3>1. UploadFits(p) /\ Own(p) \in Callers /\ Own(p) # c
      BY <2>1, CallerParts DEF StoreIInv, Cleaners
    <3>2. call'[Own(p)] = call[Own(p)]
      BY <1>4, <3>1
    <3> QED
      BY <1>3, <2>1, <3>1, <3>2 DEF UploadFits, InThread, pipeVars
  <2> QED
    BY <1>1, <1>2, <1>3, <1>6, <1>8, <1>9, <1>10, <1>11, <2>3, <2>4, <2>5, ThreadStepKeeps
<1> QED
  BY <1>13, <1>14

\* The thread of c returns: the call has ended, or is gone if nobody waits.
LEMMA EndIs ==
  ASSUME OpTypes, NEW c \in Callers, NEW out \in Outcomes, EndCall(c, out)
  PROVE  /\ call' \in [Callers -> CallRec] /\ \A d \in Callers \ {c} : call'[d] = call[d]
         /\ Heard(c) => /\ call'[c].st = "ended" /\ call'[c].what = call[c].what
                        /\ call'[c].out = out
         /\ ~Heard(c) => call'[c].st = "idle"
<1> DEFINE v == IF Heard(c) THEN [call[c] EXCEPT !.st = "ended", !.out = out] ELSE NoCall
<1>1. call' = [call EXCEPT ![c] = v]
  BY DEF EndCall
<1>2. call[c] \in CallRec /\ call \in [Callers -> CallRec]
  BY DEF OpTypes
<1>3. /\ v \in CallRec
      /\ Heard(c) => v.st = "ended" /\ v.what = call[c].what /\ v.out = out
      /\ ~Heard(c) => v.st = "idle"
  BY <1>2, CallRecs DEF CallRec
<1> HIDE DEF v
<1> QED
  BY <1>1, <1>2, <1>3

\* A call in a thread is the operation's own, or a delete of one of its tasks.
LEMMA InThreadIs ==
  ASSUME StoreIInv, NEW c \in Callers, InThread(c)
  PROVE  /\ c[1] \in Ops /\ OpOK(c[1]) /\ OpTypes /\ RestTypes /\ PipeOK
         /\ close \notin {"executor", "closed"}
         /\ \/ /\ c = Own(c[1]) /\ pc[c[1]] \notin {"new", "settle", "yield"} /\ c[2] = "op"
               /\ call[c].what = "put" => kind[c[1]] = "upload"
            \/ /\ c[2] \in Cleaners /\ c = <<c[1], c[2]>> /\ c # Own(c[1])
               /\ call[c].what = "remove" /\ call[c].st = "running"
<1>1. c[1] \in Ops /\ c[2] \in Who /\ c = <<c[1], c[2]>> /\ (c[2] = "op" => c = Own(c[1]))
  BY CallerParts
<1>2. /\ OpOK(c[1]) /\ OpTypes /\ RestTypes /\ PipeOK /\ close \notin {"executor", "closed"}
  BY <1>1, Types DEF StoreIInv, PipeOK, QuietWhenClosed
<1>3. CASE c[2] = "op"
  BY <1>1, <1>2, <1>3 DEF OpOK, CallFits, KindFits, InThread
<1>4. CASE c[2] \in Cleaners
  <2>1. c # Own(c[1])
    BY <1>1, <1>4, CallerParts DEF Cleaners
  <2>2. call[<<c[1], c[2]>>].st = call[c].st /\ call[<<c[1], c[2]>>].what = call[c].what
    BY <1>1
  <2>3. call[c].st = "running" /\ call[c].what = "remove"
    BY <1>1, <1>2, <1>4, <2>2 DEF OpOK, TasksFit, InThread
  <2> QED
    BY <1>1, <1>2, <1>4, <2>1, <2>3
<1> QED
  BY <1>1, <1>3, <1>4 DEF Who

\* What the end of a call may do to the file of its operation and to its
\* staging object.
SpoolEnds(c, out) ==
  LET o == c[1] IN
  /\ spool' \in [Ops -> SpoolRec] /\ \A p \in Ops \ {o} : spool'[p] = spool[p]
  /\ c # Own(o) => spool'[o] = spool[o]
  /\ c = Own(o) => /\ spool'[o].file \notin {"open", "owned"}
                   /\ spool'[o].file = "published" =>
                         pc[o] = "get" /\ kind[o] = "readStream" /\ out = "ok"
                   /\ spool'[o].abandoned <=> spool[o].abandoned

StagedEnds(c, out) ==
  LET o == c[1] IN
  /\ staged' \in [Ops -> Payloads \union {"none", "partial"}]
  /\ \A p \in Ops \ {o} : staged'[p] = staged[p]
  /\ staged'[o] # "partial"
  /\ staged'[o] \in {staged[o], "none"} \/ (c = Own(o) /\ call[c].what = "put")
  /\ c[2] \in {"staging", "eventual"} /\ out = "ok" => staged'[o] = "none"

LEMMA EndCallKeeps ==
  ASSUME StoreIInv, NEW c \in Callers, InThread(c), NEW out \in Outcomes, EndCall(c, out),
         UNCHANGED <<opVars, close, tasks, excused, page, rival>>,
         final' \in Payloads \union {"none"}, SpoolEnds(c, out), StagedEnds(c, out),
         \/ call[c].what # "put" /\ UNCHANGED pipeVars
         \/ call[c].what = "put" /\ PipeOK' /\ cons'.st = "none"
  PROVE  StoreIInv'
<1> DEFINE o == c[1]
<1>1. /\ o \in Ops /\ OpOK(o) /\ OpTypes /\ RestTypes /\ PipeOK
      /\ close \notin {"executor", "closed"}
      /\ \/ /\ c = Own(o) /\ pc[o] \notin {"new", "settle", "yield"} /\ c[2] = "op"
            /\ call[c].what = "put" => kind[o] = "upload"
         \/ /\ c[2] \in Cleaners /\ c = <<o, c[2]>> /\ c # Own(o)
            /\ call[c].what = "remove" /\ call[c].st = "running"
  BY InThreadIs
<1>2. /\ call' \in [Callers -> CallRec] /\ \A d \in Callers \ {c} : call'[d] = call[d]
      /\ Heard(c) => /\ call'[c].st = "ended" /\ call'[c].what = call[c].what
                     /\ call'[c].out = out
      /\ ~Heard(c) => call'[c].st = "idle"
  BY <1>1, EndIs
<1>3. UNCHANGED <<kind, want, pc, res, cancel, hit>> /\ UNCHANGED <<active, exec>> /\ ended' = ended + 1
  BY DEF opVars, EndCall
<1>4. OpTypes'
  BY <1>1, <1>2, <1>3 DEF OpTypes, SpoolEnds
<1>5. CapacityFollowsThreads' /\ ended' \in 0 .. MaxWorkers
  <2>1. ~InThread(c)' /\ \A d \in Callers \ {c} : InThread(d)' <=> InThread(d)
    BY <1>2 DEF InThread
  <2> QED
    BY <1>1, <1>3, <2>1, ThreadLeaves DEF StoreIInv
<1>6. RestTypes'
  BY <1>1, <1>3, <1>5 DEF RestTypes, StagedEnds
<1>7. OnlyOp(o)
  <2>1. \A d \in Callers : d[1] # o => call'[d] = call[d]
    BY <1>2
  <2>2. \A p \in Ops \ {o} : spool'[p] = spool[p] /\ staged'[p] = staged[p]
    BY DEF SpoolEnds, StagedEnds
  <2> QED
    BY <1>3, <2>1, <2>2 DEF OnlyOp
<1>8. StagedWhole'
  BY DEF StoreIInv, StagedWhole, StagedEnds
<1>9. /\ Own(o) \in Callers /\ \A who \in Cleaners : <<o, who>> \in Callers /\ <<o, who>> # Own(o)
      /\ \A who \in Cleaners : <<o, who>>[2] = who
      /\ \A p \in Ops : Own(p) \in Callers /\ (Own(p) = c => p = o /\ c = Own(o))
  BY <1>1, CallerParts DEF Who, Cleaners
<1>10. PipeOK' /\ (cons'.st # "none" => cons' = cons)
  BY <1>1 DEF pipeVars, PipeOK, PipeTypeOK, PipeFits
<1>11. ASSUME NEW p \in Ops, kind[p] = "upload"
       PROVE  UploadFits(p)'
  <2>1. UploadFits(p)
    BY DEF StoreIInv
  <2>2. CASE Own(p) = c
    <3>1. /\ p = o /\ pc[o] # "new" /\ call'[Own(o)].st # "asked"
          /\ call[Own(o)].what # "put" => cons.st = "none"
      BY <1>1, <1>2, <1>9, <1>11, <2>1, <2>2 DEF UploadFits, Cleaners
    <3>2. cons'.st = "none"
      BY <1>9, <2>2, <3>1 DEF pipeVars
    <3> QED
      BY <1>3, <3>1, <3>2 DEF UploadFits
  <2>3. CASE Own(p) # c
    <3>1. call'[Own(p)] = call[Own(p)]
      BY <1>2, <1>9, <2>3
    <3>2. CASE UNCHANGED pipeVars
      BY <1>3, <2>1, <3>1, <3>2 DEF UploadFits, InThread, pipeVars
    <3>3. CASE call[c].what = "put"
      <4>1. p = o /\ c = Own(o)
        BY <1>1, <1>11, <3>3 DEF StoreIInv, OneEach
      <4> QED
        BY <2>3, <4>1
    <3> QED
      BY <3>2, <3>3
  <2> QED
    BY <2>2, <2>3
<1>12. \A p \in Ops : UploadFits(p)'
  BY <1>3, <1>11 DEF UploadFits
<1>13. CASE c = Own(o)
  <2>1. \A who \in Cleaners : call'[<<o, who>>] = call[<<o, who>>]
    BY <1>2, <1>9, <1>13
  <2>2. /\ call'[Own(o)].st \in {"ended", "idle"}
        /\ call'[Own(o)].st = "ended" => call'[Own(o)].what = call[Own(o)].what
        /\ pc[o] \in Steps \union {"grace"} =>
             /\ call'[Own(o)].st = "ended" /\ call'[Own(o)].what = call[Own(o)].what
             /\ call'[Own(o)].out = out
    BY <1>1, <1>2, <1>13 DEF Heard
  <2>3. pc[o] \notin {"new", "settle", "yield"} /\ call[Own(o)].st \in {"running", "half"}
    BY <1>1, <1>13 DEF InThread, Cleaners
  <2>4. OpOK(o)'
    <3>1. CallFits(o)'
      BY <1>1, <1>3, <2>2, <2>3 DEF OpOK, CallFits
    <3>2. KindFits(o)'
      BY <1>1, <1>3, <2>2, <2>3 DEF OpOK, KindFits
    <3>3. TasksFit(o)'
      BY <1>1, <1>3, <2>1 DEF OpOK, TasksFit, Cleaners
    <3>4. SpoolFits(o)'
      <4>1. /\ spool'[o].file \notin {"open", "owned"}
            /\ spool'[o].file = "published" =>
                  pc[o] = "get" /\ kind[o] = "readStream" /\ out = "ok"
            /\ spool'[o].abandoned <=> spool[o].abandoned
        BY <1>13 DEF SpoolEnds
      <4>2. spool[o].abandoned => pc[o] = "done" /\ kind[o] = "readStream"
        BY <1>1 DEF OpOK, SpoolFits
      <4> QED
        BY <1>3, <2>2, <4>1, <4>2 DEF SpoolFits, Steps
    <3>5. StagingFits(o)'
      <4>1. /\ staged'[o] \in {staged[o], "none"} \/ call[Own(o)].what = "put"
            /\ InThread(Own(o)) /\ ~InThread(Own(o))'
        BY <1>13, <2>2 DEF StagedEnds, InThread
      <4>2. \A who \in Cleaners : Owed(o, who)' <=> Owed(o, who)
        BY <2>1 DEF Owed
      <4> QED
        BY <1>1, <1>3, <2>2, <2>3, <4>1, <4>2 DEF OpOK, StagingFits, Cleaners
    <3> QED
      BY <3>1, <3>2, <3>3, <3>4, <3>5 DEF OpOK
  <2> QED
    BY <1>1, <1>3, <1>4, <1>5, <1>6, <1>7, <1>8, <1>10, <1>12, <2>4, ThreadStepKeeps
<1>14. CASE c # Own(o)
  <2>1. /\ c[2] \in Cleaners /\ c = <<o, c[2]>> /\ call[c].what = "remove" /\ call[c].st = "running"
        /\ spool'[o] = spool[o]
    BY <1>1, <1>14 DEF SpoolEnds
  <2>2. /\ call'[Own(o)] = call[Own(o)]
        /\ \A who \in Cleaners : who # c[2] => call'[<<o, who>>] = call[<<o, who>>]
    BY <1>2, <1>9, <1>14
  <2>3. /\ call[<<o, c[2]>>].st = "running"
        /\ call'[<<o, c[2]>>].st \in {"ended", "idle"}
        /\ call'[<<o, c[2]>>].st = "ended" =>
             call'[<<o, c[2]>>].what = "remove" /\ call'[<<o, c[2]>>].out = out
    BY <1>2, <2>1
  <2>4. OpOK(o)'
    <3>1. CallFits(o)' /\ KindFits(o)'
      BY <1>1, <1>3, <2>2 DEF OpOK, CallFits, KindFits
    <3>2. TasksFit(o)'
      BY <1>1, <1>3, <2>1, <2>2, <2>3 DEF OpOK, TasksFit, Cleaners
    <3>3. SpoolFits(o)'
      BY <1>1, <1>3, <2>1, <2>2 DEF OpOK, SpoolFits
    <3>4. StagingFits(o)'
      <4>1. /\ staged'[o] \in {staged[o], "none"}
            /\ c[2] \in {"staging", "eventual"} /\ out = "ok" => staged'[o] = "none"
        BY <1>14 DEF StagedEnds
      <4>2. \A who \in {"staging", "eventual"} :
               staged'[o] # "none" /\ Owed(o, who) => Owed(o, who)'
        BY <2>2, <2>3, <4>1 DEF Owed, Cleaners
      <4> QED
        BY <1>1, <1>3, <2>2, <4>1, <4>2 DEF OpOK, StagingFits, InThread
    <3> QED
      BY <3>1, <3>2, <3>3, <3>4 DEF OpOK
  <2> QED
    BY <1>1, <1>3, <1>4, <1>5, <1>6, <1>7, <1>8, <1>10, <1>12, <2>4, ThreadStepKeeps
<1> QED
  BY <1>13, <1>14

LEMMA SpoolSame ==
  ASSUME StoreIInv, NEW c \in Callers, InThread(c), NEW out, UNCHANGED spool,
         call[c].what # "get" \/ kind[c[1]] # "readStream"
  PROVE  SpoolEnds(c, out)
<1>1. c[1] \in Ops /\ OpOK(c[1]) /\ OpTypes
  BY InThreadIs
<1>2. ASSUME c = Own(c[1])
      PROVE  spool[c[1]].file \notin {"open", "owned", "published"}
  <2>1. /\ call[Own(c[1])].st \in {"running", "half"} /\ pc[c[1]] # "yield"
        /\ call[Own(c[1])].what # "get" \/ kind[c[1]] # "readStream"
    BY <1>1, <1>2 DEF InThread, OpOK, CallFits
  <2> QED
    BY <1>1, <2>1 DEF OpOK, SpoolFits
<1> QED
  BY <1>1, <1>2 DEF SpoolEnds, OpTypes

LEMMA StagedSame ==
  ASSUME StoreIInv, NEW c \in Callers, InThread(c), NEW out, UNCHANGED staged,
         c[2] \in Cleaners => out # "ok"
  PROVE  StagedEnds(c, out)
<1>1. c[1] \in Ops /\ RestTypes
  BY InThreadIs
<1>2. staged[c[1]] # "partial"
  BY <1>1 DEF StoreIInv, StagedWhole
<1> QED
  BY <1>1, <1>2 DEF StagedEnds, RestTypes, Cleaners

\* The frame of a step of a thread.
ThreadFrame == UNCHANGED <<opVars, close, tasks, excused>>

LEMMA StatRunsKeeps ==
  ASSUME StoreIInv, NEW c \in Callers, StatRuns(c), ThreadFrame
  PROVE  StoreIInv'
<1> DEFINE key == IF call[c].what = "headSource" THEN staged[c[1]] ELSE final
           out == IF key = "none" THEN "missing" ELSE key
<1>1. /\ call[c].st = "running"
      /\ call[c].what \in {"headSource", "headFinal", "raced", "verify", "head"}
      /\ EndCall(c, out) /\ UNCHANGED <<objectVars, spool, page, pipeVars>>
  BY DEF StatRuns
<1>2. InThread(c) /\ call[c].what \notin {"put", "get", "remove"}
  BY <1>1 DEF InThread
<1>3. c[1] \in Ops /\ RestTypes /\ c[2] \notin Cleaners
  <2>1. CASE c[2] = "op"
    BY <1>2, <2>1, InThreadIs DEF Cleaners
  <2> QED
    BY <1>2, <2>1, InThreadIs
<1>4. out \in Outcomes /\ final' \in Payloads \union {"none"} /\ UNCHANGED <<staged, rival>>
  BY <1>1, <1>3 DEF RestTypes, Outcomes, objectVars
<1> HIDE DEF out
<1>5. SpoolEnds(c, out) /\ StagedEnds(c, out)
  BY <1>1, <1>2, <1>3, <1>4, SpoolSame, StagedSame
<1> QED
  BY <1>1, <1>2, <1>4, <1>5, EndCallKeeps DEF ThreadFrame

LEMMA ListRunsKeeps ==
  ASSUME StoreIInv, NEW c \in Callers, ListRuns(c), ThreadFrame
  PROVE  StoreIInv'
<1>1. /\ call[c].st = "running" /\ call[c].what = "list"
      /\ EndCall(c, "ok") /\ UNCHANGED <<objectVars, spool, page, pipeVars>>
  BY DEF ListRuns
<1>2. InThread(c)
  BY <1>1 DEF InThread
<1>3. c[1] \in Ops /\ RestTypes /\ c[2] \notin Cleaners
  <2>1. CASE c[2] = "op"
    BY <1>2, <2>1, InThreadIs DEF Cleaners
  <2> QED
    BY <1>1, <1>2, <2>1, InThreadIs
<1>4. "ok" \in Outcomes /\ final' \in Payloads \union {"none"} /\ UNCHANGED <<staged, rival>>
  BY <1>1, <1>3 DEF RestTypes, Outcomes, objectVars
<1>5. SpoolEnds(c, "ok") /\ StagedEnds(c, "ok")
  BY <1>1, <1>2, <1>3, <1>4, SpoolSame, StagedSame
<1> QED
  BY <1>1, <1>2, <1>4, <1>5, EndCallKeeps DEF ThreadFrame

LEMMA RemoveRunsKeeps ==
  ASSUME StoreIInv, NEW c \in Callers, RemoveRuns(c), ThreadFrame
  PROVE  StoreIInv'
<1>1. /\ call[c].st = "running" /\ call[c].what = "remove"
      /\ IF c[2] \in {"op", "late"}
         THEN final' = "none" /\ UNCHANGED staged
         ELSE staged' = [staged EXCEPT ![c[1]] = "none"] /\ UNCHANGED final
      /\ EndCall(c, "ok") /\ UNCHANGED <<rival, spool, page, pipeVars>>
  BY DEF RemoveRuns
<1>2. InThread(c)
  BY <1>1 DEF InThread
<1>3. c[1] \in Ops /\ RestTypes /\ "ok" \in Outcomes
  BY <1>2, InThreadIs DEF Outcomes
<1>4. final' \in Payloads \union {"none"}
  BY <1>1, <1>3 DEF RestTypes
<1>5. SpoolEnds(c, "ok")
  BY <1>1, <1>2, SpoolSame
<1>6. StagedEnds(c, "ok")
  <2>1. staged[c[1]] # "partial" /\ staged \in [Ops -> Payloads \union {"none", "partial"}]
    BY <1>3 DEF StoreIInv, StagedWhole, RestTypes
  <2> QED
    BY <1>1, <1>3, <2>1 DEF StagedEnds
<1> QED
  BY <1>1, <1>2, <1>3, <1>4, <1>5, <1>6, EndCallKeeps DEF ThreadFrame

LEMMA CopyRunsKeeps ==
  ASSUME StoreIInv, NEW c \in Callers, CopyPartsRun(c) \/ CopyCompletes(c), ThreadFrame
  PROVE  StoreIInv'
<1>1. /\ call[c].st \in {"running", "half"} /\ (CopyPartsRun(c) => call[c].what = "copy")
      /\ CopyCompletes(c) => call[c].st = "half"
      /\ UNCHANGED <<staged, rival, spool, page, pipeVars>>
  BY DEF CopyPartsRun, CopyCompletes, objectVars
<1>2. InThread(c)
  BY <1>1 DEF InThread
<1>3. /\ c[1] \in Ops /\ OpOK(c[1]) /\ OpTypes /\ RestTypes /\ PipeOK
      /\ close \notin {"executor", "closed"}
      /\ c[2] \notin Cleaners /\ c = Own(c[1]) /\ pc[c[1]] \notin {"new", "settle", "yield"}
  <2>1. CASE c[2] = "op"
    BY <1>2, <2>1, InThreadIs DEF Cleaners
  <2> QED
    BY <1>1, <1>2, <2>1, InThreadIs
<1>4. call[c].what = "copy"
  BY <1>1, <1>3 DEF OpOK, CallFits
<1>5. {"error", "ok", "exists"} \subseteq Outcomes
  BY DEF Outcomes
<1>6. ASSUME NEW out \in {"error", "ok", "exists"}, EndCall(c, out),
             final' \in Payloads \union {"none"}
      PROVE  StoreIInv'
  <2>1. SpoolEnds(c, out) /\ StagedEnds(c, out)
    BY <1>1, <1>2, <1>3, <1>4, SpoolSame, StagedSame
  <2> QED
    BY <1>1, <1>2, <1>4, <1>5, <1>6, <2>1, EndCallKeeps DEF ThreadFrame
<1>7. CASE CopyCompletes(c)
  <2>1. want[c[1]] \in Payloads /\ final \in Payloads \union {"none"}
    BY <1>3 DEF RestTypes
  <2> QED
    BY <1>6, <1>7, <2>1 DEF CopyCompletes
<1>8. CASE CopyPartsRun(c) /\ staged[c[1]] # want[c[1]]
  <2>1. final \in Payloads \union {"none"}
    BY <1>3 DEF RestTypes
  <2> QED
    BY <1>6, <1>8, <2>1 DEF CopyPartsRun, objectVars
<1>9. CASE CopyPartsRun(c) /\ staged[c[1]] = want[c[1]]
  <2> DEFINE o == c[1]
  <2>1. /\ call' = [call EXCEPT ![c].st = "half"] /\ UNCHANGED <<active, ended, exec>>
        /\ UNCHANGED objectVars /\ call[c].st = "running"
    BY <1>9 DEF CopyPartsRun
  <2>2. /\ call' \in [Callers -> CallRec] /\ call'[c].st = "half" /\ call'[c].what = "copy"
        /\ \A d \in Callers \ {c} : call'[d] = call[d]
    BY <1>3, <1>4, <2>1 DEF OpTypes, CallRec
  <2>3. UNCHANGED <<kind, want, pc, res, cancel, hit, tasks, excused, close, final>>
    BY <2>1 DEF ThreadFrame, opVars, objectVars
  <2>4. \A d \in Callers : InThread(d)' <=> InThread(d)
    BY <2>1, <2>2 DEF InThread
  <2>5. CapacityFollowsThreads'
    BY <2>1, <2>4, SameThreads DEF StoreIInv
  <2>6. OpTypes' /\ RestTypes'
    BY <1>1, <1>3, <2>1, <2>2, <2>3 DEF OpTypes, RestTypes
  <2>7. OnlyOp(o) /\ StagedWhole'
    BY <1>1, <2>2, <2>3 DEF OnlyOp, StoreIInv, StagedWhole
  <2>8. /\ \A who \in Cleaners : call'[<<o, who>>] = call[<<o, who>>]
        /\ call'[Own(o)].st = "half" /\ call'[Own(o)].what = "copy"
        /\ call[Own(o)].st = "running" /\ call[Own(o)].what = "copy"
    <3>1. \A who \in Cleaners : <<o, who>> \in Callers /\ <<o, who>> # Own(o)
      BY <1>3, CallerParts DEF Who, Cleaners
    <3> QED
      BY <1>3, <1>4, <2>1, <2>2, <3>1
  <2>9. OpOK(o)'
    <3>1. CallFits(o)' /\ KindFits(o)'
      BY <1>3, <2>3, <2>8 DEF OpOK, CallFits, KindFits
    <3>2. TasksFit(o)'
      BY <1>3, <2>3, <2>8 DEF OpOK, TasksFit, Cleaners
    <3>3. SpoolFits(o)'
      BY <1>1, <1>3, <2>3, <2>8 DEF OpOK, SpoolFits
    <3>4. StagingFits(o)'
      <4>1. \A who \in Cleaners : Owed(o, who)' <=> Owed(o, who)
        BY <2>8 DEF Owed
      <4> QED
        BY <1>1, <1>3, <2>3, <2>8, <4>1 DEF OpOK, StagingFits, Cleaners
    <3> QED
      BY <3>1, <3>2, <3>3, <3>4 DEF OpOK
  <2>10. \A p \in Ops : UploadFits(p)'
    <3>1. kind[o] = "upload" => cons.st = "none"
      BY <1>3, <2>8 DEF StoreIInv, UploadFits
    <3>2. ASSUME NEW p \in Ops, kind[p] = "upload"
          PROVE  UploadFits(p)'
      <4>1. UploadFits(p) /\ Own(p) \in Callers /\ (p # o => Own(p) # Own(o))
        BY <1>3, CallerParts DEF StoreIInv
      <4>2. call'[Own(p)].st # "asked" \/ call'[Own(p)] = call[Own(p)]
        BY <1>3, <2>2, <2>8, <4>1
      <4>3. CASE p = o
        BY <1>1, <1>3, <2>3, <2>8, <3>1, <3>2, <4>1, <4>3 DEF UploadFits, pipeVars
      <4>4. CASE p # o
        <5>1. call'[Own(p)] = call[Own(p)]
          BY <1>3, <2>2, <4>1, <4>4
        <5> QED
          BY <1>1, <2>3, <4>1, <5>1 DEF UploadFits, InThread, pipeVars
      <4> QED
        BY <4>3, <4>4
    <3> QED
      BY <2>3, <3>2 DEF UploadFits
  <2>11. PipeOK'
    BY <1>1, <1>3 DEF pipeVars, PipeOK, PipeTypeOK, PipeFits
  <2> QED
    BY <1>1, <1>3, <2>3, <2>5, <2>6, <2>7, <2>9, <2>10, <2>11, ThreadStepKeeps
<1> QED
  BY <1>7, <1>8, <1>9

LEMMA GetRunsKeeps ==
  ASSUME StoreIInv, NEW c \in Callers, GetRuns(c), ThreadFrame
  PROVE  StoreIInv'
<1> DEFINE o == c[1]
           good == Verified(o)
           streams == kind[o] = "readStream"
           out == IF ~good THEN "failed"
                  ELSE IF streams /\ spool[o].abandoned THEN "error" ELSE "ok"
<1>1. /\ call[c].st = "running" /\ call[c].what = "get" /\ EndCall(c, out)
      /\ UNCHANGED <<objectVars, page, pipeVars>>
      /\ spool' = IF ~streams THEN spool
                  ELSE IF good THEN [spool EXCEPT ![o] = PublishFile(@)]
                               ELSE [spool EXCEPT ![o].file = "closed"]
  BY DEF GetRuns
<1>2. InThread(c)
  BY <1>1 DEF InThread
<1>3. /\ o \in Ops /\ OpOK(o) /\ OpTypes /\ RestTypes /\ c[2] \notin Cleaners /\ c = Own(o)
  <2>1. CASE c[2] = "op"
    BY <1>2, <2>1, InThreadIs DEF Cleaners
  <2> QED
    BY <1>1, <1>2, <2>1, InThreadIs
<1>4. out \in Outcomes /\ final' \in Payloads \union {"none"} /\ UNCHANGED <<staged, rival>>
  BY <1>1, <1>3 DEF RestTypes, Outcomes, objectVars
<1>5. StagedEnds(c, out)
  BY <1>2, <1>3, <1>4, StagedSame
<1>6. SpoolEnds(c, out)
  <2>1. CASE ~streams
    BY <1>1, <1>2, <2>1, SpoolSame
  <2>2. CASE streams
    <3>1. spool[o].file = "open" /\ (pc[o] = "get" \/ spool[o].abandoned)
      BY <1>1, <1>3, <2>2 DEF OpOK, SpoolFits
    <3> DEFINE f == IF ~good \/ spool[o].abandoned THEN "closed" ELSE "published"
    <3>2. spool' = [spool EXCEPT ![o].file = f]
      <4>1. CASE ~good
        BY <1>1, <2>2, <4>1
      <4>2. CASE good
        <5>1. PublishFile(spool[o]) = [spool[o] EXCEPT !.file = f]
          BY <4>2 DEF PublishFile
        <5>2. spool' = [spool EXCEPT ![o] = PublishFile(spool[o])]
          BY <1>1, <2>2, <4>2
        <5> QED
          BY <5>1, <5>2
      <4> QED
        BY <4>1, <4>2
    <3>3. /\ f \in {"none", "open", "published", "owned", "closed"} /\ f \notin {"open", "owned"}
          /\ f = "published" => pc[o] = "get" /\ streams /\ out = "ok"
      BY <2>2, <3>1
    <3> HIDE DEF f
    <3>4. /\ spool' \in [Ops -> SpoolRec] /\ \A p \in Ops \ {o} : spool'[p] = spool[p]
          /\ spool'[o].file = f /\ (spool'[o].abandoned <=> spool[o].abandoned)
      BY <1>3, <3>2, <3>3, FileIs
    <3> QED
      BY <1>3, <2>2, <3>3, <3>4 DEF SpoolEnds
  <2> QED
    BY <2>1, <2>2
<1> HIDE DEF out
<1> QED
  BY <1>1, <1>2, <1>4, <1>5, <1>6, EndCallKeeps DEF ThreadFrame

\* put_object ends.
LEMMA EndPutKeeps ==
  ASSUME StoreIInv, NEW c \in Callers, InThread(c), call[c].what = "put",
         NEW out \in Outcomes, EndPut(c, out), ThreadFrame, UNCHANGED <<final, rival>>,
         StagedEnds(c, out)
  PROVE  StoreIInv'
<1>1. /\ EndCall(c, out) /\ pipe' = Stopped(pipe) /\ cons' = [cons EXCEPT !.st = "none"]
      /\ UNCHANGED <<prod, spool, page>>
  BY DEF EndPut
<1>2. PipeOK /\ RestTypes
  BY InThreadIs
<1>3. PipeOK' /\ cons'.st = "none"
  BY <1>1, <1>2, EndPutOK
<1>4. SpoolEnds(c, out)
  BY <1>1, SpoolSame
<1>5. final' \in Payloads \union {"none"}
  BY <1>2 DEF RestTypes
<1> QED
  BY <1>1, <1>3, <1>4, <1>5, EndCallKeeps DEF ThreadFrame

LEMMA PutStoresKeeps ==
  ASSUME StoreIInv, NEW c \in Callers, PutStores(c), ThreadFrame
  PROVE  StoreIInv'
<1>1. /\ call[c].st = "running" /\ call[c].what = "put" /\ cons.st = "store"
      /\ staged' = [staged EXCEPT ![c[1]] =
            IF prod.res = "ok" /\ cons.got = prod.total THEN want[c[1]] ELSE "partial"]
      /\ EndPut(c, "ok") /\ UNCHANGED <<final, rival>>
  BY DEF PutStores
<1>2. InThread(c) /\ "ok" \in Outcomes
  BY <1>1 DEF InThread, Outcomes
<1>3. /\ c[1] \in Ops /\ RestTypes /\ PipeOK /\ c[2] \notin Cleaners /\ c = Own(c[1])
  <2>1. CASE c[2] = "op"
    BY <1>2, <2>1, InThreadIs DEF Cleaners
  <2> QED
    BY <1>1, <1>2, <2>1, InThreadIs
<1>4. prod.res = "ok" /\ cons.got = prod.total
  BY <1>1, <1>3 DEF PipeOK, PipeFits
<1>5. want[c[1]] \in Payloads /\ "partial" \notin Payloads
  BY <1>3, StoreAssumption DEF RestTypes
<1>6. StagedEnds(c, "ok")
  BY <1>1, <1>3, <1>4, <1>5 DEF StagedEnds, RestTypes, Cleaners
<1> QED
  BY <1>1, <1>2, <1>6, EndPutKeeps

LEMMA PutRaisesKeeps ==
  ASSUME StoreIInv, NEW c \in Callers, PutRaises(c), ThreadFrame
  PROVE  StoreIInv'
<1> DEFINE out == IF pipe.failure = "cancelled" THEN "error" ELSE pipe.failure
<1>1. /\ call[c].st = "running" /\ call[c].what = "put" /\ EndPut(c, out) /\ UNCHANGED objectVars
  BY DEF PutRaises
<1>2. InThread(c)
  BY <1>1 DEF InThread
<1>3. c[2] \notin Cleaners /\ PipeOK
  <2>1. CASE c[2] = "op"
    BY <1>2, <2>1, InThreadIs DEF Cleaners
  <2> QED
    BY <1>1, <1>2, <2>1, InThreadIs
<1>4. out \in Outcomes
  BY <1>3 DEF PipeOK, PipeTypeOK, Failures, Outcomes
<1> HIDE DEF out
<1>5. StagedEnds(c, out) /\ UNCHANGED <<final, rival>>
  BY <1>1, <1>2, <1>3, StagedSame DEF objectVars
<1> QED
  BY <1>1, <1>2, <1>4, <1>5, EndPutKeeps

LEMMA PutReadsKeeps ==
  ASSUME StoreIInv, NEW c \in Callers, PutReads(c), ThreadFrame
  PROVE  StoreIInv'
<1>1. /\ call[c].st = "running" /\ call[c].what = "put" /\ Read
      /\ UNCHANGED <<callVars, objectVars, spool, page>>
  BY DEF PutReads
<1>2. InThread(c)
  BY <1>1 DEF InThread
<1>3. /\ c[1] \in Ops /\ OpOK(c[1]) /\ OpTypes /\ RestTypes /\ PipeOK
      /\ close \notin {"executor", "closed"}
  BY <1>2, InThreadIs
<1>4. PipeOK' /\ cons.st # "none" /\ UNCHANGED prod
  BY <1>1, <1>3, ReadOK
<1>5. /\ UNCHANGED <<kind, want, pc, res, cancel, hit, call, active, ended, exec, close, tasks, excused,
                     staged, final, rival, spool, page>>
  BY <1>1 DEF ThreadFrame, opVars, callVars, objectVars
<1>6. OpTypes' /\ RestTypes' /\ StagedWhole' /\ OnlyOp(c[1])
  BY <1>3, <1>5 DEF OpTypes, RestTypes, StoreIInv, StagedWhole, OnlyOp
<1>7. CapacityFollowsThreads'
  BY <1>5, SameThreads DEF StoreIInv, InThread
<1>8. OpOK(c[1])'
  BY <1>3, <1>5
     DEF OpOK, CallFits, KindFits, TasksFit, SpoolFits, StagingFits, Owed, InThread, Own
<1>9. \A p \in Ops : UploadFits(p)'
  BY <1>4, <1>5 DEF StoreIInv, UploadFits, InThread
<1> QED
  BY <1>3, <1>4, <1>5, <1>6, <1>7, <1>8, <1>9, ThreadStepKeeps

LEMMA SdkFailsKeeps ==
  ASSUME StoreIInv, NEW c \in Callers, SdkFails(c), ThreadFrame
  PROVE  StoreIInv'
<1>1. InThread(c) /\ UNCHANGED objectVars /\ UNCHANGED <<staged, final, rival>>
  BY DEF SdkFails, objectVars
<1>2. c[1] \in Ops /\ OpTypes /\ RestTypes /\ {"error", "changed"} \subseteq Outcomes
  BY <1>1, InThreadIs DEF Outcomes
<1>3. StagedEnds(c, "error") /\ StagedEnds(c, "changed")
  BY <1>1, StagedSame
<1>4. CASE call[c].what = "put"
  BY <1>1, <1>2, <1>3, <1>4, EndPutKeeps DEF SdkFails
<1>5. CASE call[c].what # "put"
  <2>1. /\ EndCall(c, "error") \/ EndCall(c, "changed")
        /\ spool' = IF call[c].what = "get" /\ kind[c[1]] = "readStream"
                    THEN [spool EXCEPT ![c[1]].file = "closed"] ELSE spool
        /\ UNCHANGED <<page, pipeVars>>
    BY <1>5 DEF SdkFails
  <2>2. ASSUME NEW out \in {"error", "changed"}
        PROVE  SpoolEnds(c, out)
    <3>1. CASE call[c].what = "get" /\ kind[c[1]] = "readStream"
      <4>1. c = Own(c[1])
        BY <1>1, <3>1, InThreadIs
      <4> QED
        BY <1>2, <2>1, <3>1, <4>1, FileIs DEF SpoolEnds
    <3> QED
      BY <1>1, <2>1, <3>1, SpoolSame
  <2>3. final' \in Payloads \union {"none"}
    BY <1>1, <1>2 DEF RestTypes
  <2> QED
    BY <1>1, <1>2, <1>3, <1>5, <2>1, <2>2, <2>3, EndCallKeeps DEF ThreadFrame
<1> QED
  BY <1>4, <1>5

LEMMA ThreadKeeps ==
  ASSUME StoreIInv, NEW c \in Callers, ReadPipe(c) \/ Sdk(c)
  PROVE  StoreIInv'
<1>1. ThreadFrame
  BY DEF ThreadFrame, ReadPipe, Sdk
<1> QED
  BY <1>1, PutReadsKeeps, PutRaisesKeeps, StatRunsKeeps, RemoveRunsKeeps, CopyRunsKeeps, GetRunsKeeps,
     PutStoresKeeps, ListRunsKeeps, SdkFailsKeeps DEF ReadPipe, Sdk

-----------------------------------------------------------------------------
(* The rest: capacity, the producer, the rival, aclose.                    *)

\* A step that concerns no operation.
LEMMA NoOpKeeps ==
  ASSUME StoreIInv, UNCHANGED <<opVars, call, tasks, spool, page, excused, staged>>,
         RestTypes', CapacityFollowsThreads', QuietWhenClosed', PipeOK',
         \A p \in Ops : UploadFits(p)'
  PROVE  StoreIInv'
<1>1. UNCHANGED <<kind, want, pc, res, cancel, hit>>
  BY DEF opVars
<1>2. OpTypes'
  BY <1>1, Types DEF StoreIInv, OpTypes
<1>3. ASSUME NEW o \in Ops
      PROVE  OpOK(o)'
  <2>1. OpOK(o)
    BY DEF StoreIInv
  <2> QED
    BY <1>1, <2>1
       DEF OpOK, CallFits, KindFits, TasksFit, SpoolFits, StagingFits, Owed, InThread, Own
<1>4. OneEach' /\ StagedWhole'
  BY <1>1 DEF StoreIInv, OneEach, StagedWhole
<1>5. PageFits'
  BY <1>1, PageKept DEF StoreIInv
<1>6. StoreTypeOK'
  BY <1>2, TypesNext DEF PipeOK
<1> QED
  BY <1>3, <1>4, <1>5, <1>6 DEF StoreIInv, PipeOK

\* The pipe is left alone.
LEMMA PipeLeft ==
  ASSUME StoreIInv, UNCHANGED <<kind, pc, call, pipeVars>>
  PROVE  PipeOK' /\ \A p \in Ops : UploadFits(p)'
BY Types DEF StoreIInv, pipeVars, PipeOK, PipeTypeOK, PipeFits, UploadFits, InThread

LEMMA ReleaseKeeps ==
  ASSUME StoreIInv, Release
  PROVE  StoreIInv'
<1>1. /\ ended > 0 /\ ended' = ended - 1 /\ active' = active - 1
      /\ UNCHANGED <<opVars, call, exec, close, objectVars, tasks, spool, page, excused, pipeVars>>
  BY DEF Release
<1>2. UNCHANGED <<kind, want, pc, res, staged, final, rival>> /\ RestTypes /\ CapacityFollowsThreads
  BY <1>1, Types DEF opVars, objectVars, StoreIInv
<1>3. Threads' = Threads
  BY <1>1 DEF Threads, InThread
<1>4. CapacityFollowsThreads' /\ RestTypes'
  <2>1. active' \in Nat /\ ended' \in Nat /\ active' <= active /\ ended' <= ended
    BY <1>1, <1>2, ThreadsFinite DEF CapacityFollowsThreads, RestTypes, Threads
  <2>2. CapacityFollowsThreads'
    <3>1. active = Cardinality(Threads) + ended + exec.busy
      BY <1>2 DEF CapacityFollowsThreads, Threads
    <3>2. active' = Cardinality(Threads') + ended' + exec'.busy
      BY <1>1, <1>2, <1>3, <3>1, ThreadsFinite DEF RestTypes
    <3> QED
      BY <3>2 DEF CapacityFollowsThreads, Threads
  <2> QED
    BY <1>1, <1>2, <2>1, <2>2, StoreAssumption DEF RestTypes
<1>5. QuietWhenClosed'
  BY <1>1, <1>2 DEF StoreIInv, QuietWhenClosed, InThread, InProgress, TaskLive
<1> QED
  BY <1>1, <1>2, <1>4, <1>5, PipeLeft, NoOpKeeps

LEMMA ProducerStepKeeps ==
  ASSUME StoreIInv, ProducerStep
  PROVE  StoreIInv'
<1>1. /\ Producer
      /\ UNCHANGED <<opVars, callVars, close, objectVars, tasks, spool, page, excused>>
  BY DEF ProducerStep
<1>2. /\ UNCHANGED <<kind, want, pc, res, staged, final, rival, call, active, ended, exec>>
      /\ RestTypes /\ CapacityFollowsThreads /\ PipeOK
  BY <1>1, Types DEF opVars, callVars, objectVars, StoreIInv, PipeOK
<1>3. PipeOK' /\ (cons'.st # "none" => cons.st # "none") /\ BeforeTask
  BY <1>1, <1>2, ProducerOK
<1>4. \A p \in Ops : UploadFits(p)'
  BY <1>2, <1>3 DEF StoreIInv, UploadFits, InThread, BeforeTask
<1>5. RestTypes'
  BY <1>1, <1>2 DEF RestTypes
<1>6. CapacityFollowsThreads'
  BY <1>2, SameThreads DEF InThread
<1>7. QuietWhenClosed'
  BY <1>1, <1>2 DEF StoreIInv, QuietWhenClosed, InThread, InProgress, TaskLive
<1> QED
  BY <1>1, <1>2, <1>3, <1>4, <1>5, <1>6, <1>7, NoOpKeeps

LEMMA RivalCompletesKeeps ==
  ASSUME StoreIInv, RivalCompletes
  PROVE  StoreIInv'
<1>1. /\ final' = rival /\ rival' = "none"
      /\ UNCHANGED <<opVars, callVars, close, staged, tasks, spool, page, excused, pipeVars>>
  BY DEF RivalCompletes
<1>2. /\ UNCHANGED <<kind, want, pc, res, call, active, ended, exec>>
      /\ RestTypes /\ CapacityFollowsThreads
  BY <1>1, Types DEF opVars, callVars, StoreIInv
<1>3. RestTypes'
  BY <1>1, <1>2 DEF RestTypes
<1>4. CapacityFollowsThreads'
  BY <1>2, SameThreads DEF InThread
<1>5. QuietWhenClosed'
  BY <1>1, <1>2 DEF StoreIInv, QuietWhenClosed, InThread, InProgress, TaskLive
<1> QED
  BY <1>1, <1>2, <1>3, <1>4, <1>5, PipeLeft, NoOpKeeps

\* aclose moves on.
LEMMA CloseMoves ==
  ASSUME StoreIInv, CloseFrame, exec' \in {exec, [exec EXCEPT !.st = "closed"]},
         close' \in {"drain", "executor", "retire", "closed", "failed"},
         close' \in {"executor", "closed"} => ~Live \/ close \in {"executor", "closed"}
  PROVE  StoreIInv'
<1>1. UNCHANGED <<opVars, call, active, ended, objectVars, tasks, spool, page, excused, pipeVars>>
  BY DEF CloseFrame
<1>2. UNCHANGED <<kind, want, pc, res, staged, final, rival>> /\ RestTypes /\ CapacityFollowsThreads
  BY <1>1, Types DEF opVars, objectVars, StoreIInv
<1>3. exec'.workers = exec.workers /\ exec'.busy = exec.busy
      /\ exec' \in [st : {"open", "closed"}, workers : 1 .. MaxWorkers, busy : 0 .. MaxWorkers]
  BY <1>2 DEF RestTypes
<1>4. RestTypes'
  BY <1>1, <1>2, <1>3 DEF RestTypes
<1>5. CapacityFollowsThreads'
  <2>1. Threads' = Threads
    BY <1>1 DEF Threads, InThread
  <2>2. active = Cardinality(Threads) + ended + exec.busy
    BY <1>2 DEF CapacityFollowsThreads, Threads
  <2>3. active' = Cardinality(Threads') + ended' + exec'.busy
    BY <1>1, <1>3, <2>1, <2>2
  <2> QED
    BY <2>3 DEF CapacityFollowsThreads, Threads
<1>6. QuietWhenClosed'
  BY <1>1, <1>2 DEF StoreIInv, QuietWhenClosed, InThread, InProgress, TaskLive, Live
<1> QED
  BY <1>1, <1>2, <1>4, <1>5, <1>6, PipeLeft, NoOpKeeps

\* aclose cancels what is left: whoever it cancels is excused.
LEMMA CancelLiveKeeps ==
  ASSUME StoreIInv, CancelLive, UNCHANGED exec, close' = "retire"
  PROVE  StoreIInv'
<1>1. /\ cancel' = [o \in Ops |-> IF InProgress(o) THEN "close" ELSE cancel[o]]
      /\ hit' = [o \in Ops |-> InProgress(o)]
      /\ tasks' = [o \in Ops |->
            [staging |-> IF tasks[o].staging = "delete" THEN "done" ELSE tasks[o].staging,
             eventual |-> IF tasks[o].eventual \in {"wait", "late", "delete"}
                          THEN "done" ELSE tasks[o].eventual]]
      /\ call' = [c \in Callers |->
            IF c[2] # "op" /\ call[c].st = "asked" THEN NoCall ELSE call[c]]
      /\ excused' = excused \union {o \in Ops : InProgress(o) \/ TaskLive(o)}
      /\ prod' = [prod EXCEPT !.cancel = @ \/ prod.st \notin {"none", "done"}]
      /\ UNCHANGED <<kind, want, pc, res, active, ended, objectVars, spool, page, pipe, cons>>
  BY DEF CancelLive
<1>2. OpTypes /\ RestTypes /\ PipeOK /\ UNCHANGED <<staged, final, rival>>
  BY <1>1, Types DEF StoreIInv, PipeOK, objectVars
<1>3. /\ tasks' \in [Ops -> TaskRec]
      /\ \A o \in Ops : /\ tasks'[o].staging = IF tasks[o].staging = "delete" THEN "done"
                                                                         ELSE tasks[o].staging
                        /\ tasks'[o].eventual = IF tasks[o].eventual \in {"wait", "late", "delete"}
                                                THEN "done" ELSE tasks[o].eventual
  BY <1>1, <1>2 DEF OpTypes, TaskRec
<1>4. /\ call' \in [Callers -> CallRec]
      /\ \A c \in Callers : call'[c] = IF c[2] # "op" /\ call[c].st = "asked" THEN NoCall ELSE call[c]
      /\ \A o \in Ops : call'[Own(o)] = call[Own(o)]
      /\ \A o \in Ops : \A who \in Cleaners :
            call'[<<o, who>>] = IF call[<<o, who>>].st = "asked" THEN NoCall ELSE call[<<o, who>>]
  <2>1. NoCall \in CallRec /\ call \in [Callers -> CallRec]
    BY <1>2, CallRecs DEF OpTypes
  <2>2. /\ call' \in [Callers -> CallRec]
        /\ \A c \in Callers : call'[c] = IF c[2] # "op" /\ call[c].st = "asked" THEN NoCall ELSE call[c]
    BY <1>1, <2>1
  <2>3. /\ \A o \in Ops : Own(o) \in Callers /\ Own(o)[2] = "op"
        /\ \A o \in Ops : \A who \in Cleaners :
              <<o, who>> \in Callers /\ <<o, who>>[2] # "op"
    BY CallerParts DEF Who, Cleaners
  <2> QED
    BY <2>2, <2>3
<1>5. OpTypes'
  <2>1. hit' \in [Ops -> BOOLEAN]
    BY <1>1 DEF InProgress
  <2>2. cancel' \in [Ops -> {"no", "never", "caller", "close"}]
    BY <1>1, <1>2 DEF OpTypes
  <2>3. excused' \subseteq Ops
    BY <1>1, <1>2 DEF OpTypes
  <2> QED
    BY <1>1, <1>2, <1>3, <1>4, <2>1, <2>2, <2>3 DEF OpTypes
<1>6. RestTypes'
  BY <1>1, <1>2 DEF RestTypes
<1>7. \A c \in Callers : InThread(c)' <=> InThread(c)
  BY <1>4, CallRecs DEF InThread
<1>8. CapacityFollowsThreads'
  BY <1>1, <1>7, SameThreads DEF StoreIInv
<1>9. PipeOK'
  <2>1. pipe \in PipeRec /\ prod \in ProdRec /\ cons \in ConsRec /\ PipeFits
    BY <1>2, PipeTypes DEF PipeOK
  <2>2. (prod.cancel \/ prod.st \notin {"none", "done"}) \in BOOLEAN
    OBVIOUS
  <2>3. /\ prod' \in ProdRec /\ prod'.st = prod.st /\ prod'.res = prod.res
        /\ prod'.total = prod.total /\ prod'.left = prod.left
    BY <1>1, <2>1, <2>2, ProdIs, Zenon
  <2>4. PipeFits'
    BY <1>1, <2>1, <2>3 DEF PipeFits
  <2>5. prod'.st = prod.st
    BY <2>3
  <2> QED
    BY <1>1, <2>1, <2>3, <2>4, PipeTypesNext DEF PipeOK
<1>10. prod'.st = prod.st
  <2>1. prod \in ProdRec
    BY <1>2, PipeTypes DEF PipeOK
  <2>2. (prod.cancel \/ prod.st \notin {"none", "done"}) \in BOOLEAN
    OBVIOUS
  <2> QED
    BY <1>1, <2>1, <2>2, ProdIs, Zenon
<1>11. \A p \in Ops : UploadFits(p)'
  BY <1>1, <1>4, <1>10 DEF StoreIInv, UploadFits, InThread
<1>12. ASSUME NEW o \in Ops
       PROVE  OpOK(o)'
  <2>1. OpOK(o)
    BY DEF StoreIInv
  <2>2. CallFits(o)' /\ KindFits(o)'
    BY <1>1, <1>4, <2>1 DEF OpOK, CallFits, KindFits
  <2>3. TasksFit(o)'
    <3>1. \A who \in Cleaners :
             /\ call'[<<o, who>>].st # "asked"
             /\ call'[<<o, who>>] = call[<<o, who>>] \/ call'[<<o, who>>].st = "idle"
      BY <1>4, CallRecs
    <3>2. /\ tasks'[o].staging = "none" <=> tasks[o].staging = "none"
          /\ tasks'[o].eventual = "none" <=> tasks[o].eventual = "none"
          /\ tasks'[o].eventual \notin {"wait", "late", "delete"}
      BY <1>3
    <3>3. TasksFit(o) /\ UNCHANGED <<pc, kind>>
      BY <1>1, <2>1 DEF OpOK
    <3> QED
      BY <3>1, <3>2, <3>3 DEF TasksFit, Cleaners
  <2>4. SpoolFits(o)'
    BY <1>1, <1>4, <2>1 DEF OpOK, SpoolFits
  <2>5. StagingFits(o)'
    <3>1. o \notin excused' => o \notin excused /\ ~TaskLive(o)
      BY <1>1
    <3>2. ~TaskLive(o) => /\ tasks[o].eventual \notin {"wait", "late", "delete"}
                          /\ tasks[o].staging # "delete"
      BY DEF TaskLive
    <3>3. call'[Own(o)] = call[Own(o)]
      BY <1>4
    <3> QED
      BY <1>1, <1>2, <2>1, <3>1, <3>2, <3>3 DEF OpOK, StagingFits, InThread
  <2> QED
    BY <2>2, <2>3, <2>4, <2>5 DEF OpOK
<1>13. OneEach' /\ StagedWhole' /\ QuietWhenClosed' /\ PageFits'
  <2>1. PageFits'
    BY <1>1, PageKept DEF StoreIInv
  <2> QED
    BY <1>1, <1>2, <2>1 DEF StoreIInv, OneEach, StagedWhole, QuietWhenClosed
<1>14. StoreTypeOK'
  BY <1>5, <1>6, <1>9, TypesNext DEF PipeOK
<1> QED
  BY <1>8, <1>9, <1>11, <1>12, <1>13, <1>14 DEF StoreIInv, PipeOK

LEMMA CloseKeeps ==
  ASSUME StoreIInv, Aclose \/ AcloseAgain \/ CloseStep
  PROVE  StoreIInv'
<1>1. CASE CancelLive /\ UNCHANGED exec /\ close' = "retire"
  BY <1>1, CancelLiveKeeps
<1>2. CASE CloseFrame
  BY <1>2, CloseMoves
     DEF Aclose, AcloseAgain, CloseStep, CloseExecutor, ExecutorDrained, ExecutorOverdue,
         RetireFailedClose, Retired
<1> QED
  BY <1>1, <1>2
     DEF Aclose, AcloseAgain, CloseStep, CloseExecutor, ExecutorDrained, ExecutorOverdue,
         RetireFailedClose, Retired

-----------------------------------------------------------------------------
(* The listing: pages that follow one another.                             *)

Rank(S, x) == Cardinality({y \in S : y <= x})

\* Ranks are positions, and tell the members of a set apart.
LEMMA Ranks ==
  ASSUME NEW S \in SUBSET Nat, IsFiniteSet(S)
  PROVE  /\ \A x \in S : Rank(S, x) \in 1 .. Cardinality(S)
         /\ \A x, y \in S : x < y => Rank(S, x) < Rank(S, y)
         /\ \A x, y \in S : Rank(S, x) = Rank(S, y) => x = y
         /\ \A i \in 1 .. Cardinality(S) : \E x \in S : Rank(S, x) = i
<1> DEFINE n == Cardinality(S)
           Up(x) == {y \in S : y <= x}
<1>0. n \in Nat
  BY FS_CardinalityType
<1>1. ASSUME NEW x \in S
      PROVE  IsFiniteSet(Up(x)) /\ Rank(S, x) \in 1 .. n /\ x \in Up(x)
  <2>1. Up(x) \in SUBSET S /\ x \in Up(x)
    OBVIOUS
  <2>2. IsFiniteSet(Up(x)) /\ Cardinality(Up(x)) <= n
    BY <2>1, FS_Subset
  <2>3. Cardinality(Up(x)) \in Nat /\ Cardinality(Up(x)) # 0
    BY <2>1, <2>2, FS_CardinalityType, FS_EmptySet
  <2> QED
    BY <1>0, <2>1, <2>2, <2>3 DEF Rank
<1>2. ASSUME NEW x \in S, NEW y \in S, x < y
      PROVE  Rank(S, x) < Rank(S, y)
  <2>0. x \in Nat /\ y \in Nat /\ \A z \in S : z \in Nat
    OBVIOUS
  <2>1. Up(x) \in SUBSET Up(y) /\ y \in Up(y) /\ y \notin Up(x)
    <3>1. \A z \in S : z <= x => z <= y
      BY <1>2, <2>0
    <3>2. y <= y /\ ~(y <= x)
      BY <1>2, <2>0
    <3> QED
      BY <3>1, <3>2
  <2>2. Cardinality(Up(x)) <= Cardinality(Up(y)) /\ Cardinality(Up(x)) # Cardinality(Up(y))
    BY <1>1, <2>1, FS_Subset
  <2>3. Rank(S, x) \in Nat /\ Rank(S, y) \in Nat
    <3> HIDE DEF n, Up
    <3> QED BY <1>0, <1>1
  <2> QED
    BY <2>2, <2>3 DEF Rank
<1>3. ASSUME NEW x \in S, NEW y \in S, Rank(S, x) = Rank(S, y)
      PROVE  x = y
  <2>1. Rank(S, x) \in Nat
    <3> HIDE DEF n, Up
    <3> QED BY <1>0, <1>1
  <2>2. ~(x < y) /\ ~(y < x)
    BY <1>2, <1>3, <2>1
  <2> QED
    BY <2>2
<1>4. \A i \in 1 .. n : \E x \in S : Rank(S, x) = i
  <2> DEFINE f == [x \in S |-> Rank(S, x)]
  <2>1. f \in [S -> 1 .. n]
    BY <1>1
  <2>2. f \in Injection(S, 1 .. n)
    BY <1>3, <2>1 DEF Injection, IsInjective
  <2>3. IsFiniteSet(1 .. n) /\ Cardinality(1 .. n) = n
    BY <1>0, FS_Interval
  <2>4. f \in Surjection(S, 1 .. n)
    BY <2>2, <2>3, FS_Injection
  <2> QED
    BY <2>4 DEF Surjection
<1> QED
  BY <1>1, <1>2, <1>3, <1>4

LEMMA AscendingListed ==
  ASSUME NEW S \in SUBSET Nat, IsFiniteSet(S)
  PROVE  Listed(Ascending(S), S)
<1> DEFINE n == Cardinality(S)
           s == Ascending(S)
<1>0. n \in Nat
  BY FS_CardinalityType
<1>1. ASSUME NEW i \in 1 .. n
      PROVE  s[i] \in S /\ Rank(S, s[i]) = i
  <2>1. s[i] = CHOOSE x \in S : Rank(S, x) = i
    BY DEF Ascending, Rank
  <2>2. \E x \in S : Rank(S, x) = i
    BY Ranks
  <2> QED
    BY <2>1, <2>2, Zenon
<1>2. s \in Seq(Nat) /\ Len(s) = n
  <2>1. s = [i \in 1 .. n |-> s[i]]
    BY DEF Ascending
  <2>2. s \in [1 .. n -> Nat]
    BY <1>1, <2>1
  <2> QED
    BY <1>0, <2>2
<1>3. \A i, j \in 1 .. n : i < j => s[i] < s[j]
  <2> SUFFICES ASSUME NEW i \in 1 .. n, NEW j \in 1 .. n, i < j
               PROVE  s[i] < s[j]
    OBVIOUS
  <2>1. /\ s[i] \in Nat /\ s[j] \in Nat /\ s[i] \in S /\ s[j] \in S
        /\ Rank(S, s[i]) = i /\ Rank(S, s[j]) = j
    BY <1>1
  <2> HIDE DEF s
  <2>2. s[j] < s[i] => j < i
    BY <2>1, Ranks
  <2>3. s[j] # s[i]
    BY <2>1
  <2> QED
    BY <1>0, <2>1, <2>2, <2>3
<1>4. ASSUME NEW x \in S
      PROVE  \E i \in 1 .. n : s[i] = x
  <2>1. Rank(S, x) \in 1 .. n
    BY Ranks
  <2>2. s[Rank(S, x)] = x
    <3> DEFINE y == s[Rank(S, x)]
    <3>1. y \in S /\ Rank(S, y) = Rank(S, x)
      BY <1>1, <2>1
    <3> HIDE DEF y
    <3>2. y = x
      BY <3>1, Ranks
    <3> QED BY <3>2 DEF y
  <2> QED
    BY <2>1, <2>2
<1> HIDE DEF s
<1>5. Listed(s, S)
  BY <1>1, <1>2, <1>3, <1>4 DEF Listed
<1> QED
  BY <1>5 DEF s

\* There is one way to list a set.
LEMMA ListedOnce ==
  ASSUME NEW S \in SUBSET Nat, IsFiniteSet(S), NEW g, Listed(g, S)
  PROVE  g = Ascending(S)
<1> DEFINE n == Cardinality(S)
<1>0. /\ g \in Seq(Nat) /\ Len(g) \in Nat /\ g \in [1 .. Len(g) -> Nat]
      /\ \A i, j \in 1 .. Len(g) : i < j => g[i] < g[j]
      /\ \A i \in 1 .. Len(g) : g[i] \in S
      /\ \A x \in S : \E i \in 1 .. Len(g) : g[i] = x
  BY DEF Listed
<1>1. ASSUME NEW k \in 0 .. Len(g)
      PROVE  Cardinality({g[i] : i \in 1 .. k}) = k
  <2> DEFINE T == {g[i] : i \in 1 .. k}
             f == [i \in 1 .. k |-> g[i]]
  <2>1. f \in [1 .. k -> T] /\ \A i, j \in 1 .. k : f[i] = f[j] => i = j
    <3>1. \A i \in 1 .. k : i \in 1 .. Len(g) /\ g[i] \in Nat
      BY <1>0
    <3>2. ASSUME NEW i \in 1 .. k, NEW j \in 1 .. k, i # j
          PROVE  g[i] # g[j]
      <4>1. g[i] \in Nat /\ g[j] \in Nat
        BY <3>1
      <4>2. i < j \/ j < i
        BY <3>2
      <4>3. i < j => g[i] < g[j]
        BY <1>0, <3>1
      <4>4. j < i => g[j] < g[i]
        BY <1>0, <3>1
      <4> QED
        BY <4>1, <4>2, <4>3, <4>4
    <3> QED
      BY <3>2
  <2>2. f \in Bijection(1 .. k, T)
    <3>0. \A x \in T : \E i \in 1 .. k : f[i] = x
      OBVIOUS
    <3> HIDE DEF f, T
    <3>1. f \in Injection(1 .. k, T)
      BY <2>1, Zenon DEF Injection, IsInjective
    <3>2. f \in Surjection(1 .. k, T)
      BY <2>1, <3>0, Zenon DEF Surjection
    <3> QED
      BY <3>1, <3>2 DEF Bijection
  <2>3. ExistsBijection(1 .. k, T)
    BY <2>2 DEF ExistsBijection
  <2> QED
    BY <2>3, FS_CountingElements
<1>2. Len(g) = n
  <2>1. S = {g[i] : i \in 1 .. Len(g)}
    BY <1>0
  <2>2. Cardinality({g[i] : i \in 1 .. Len(g)}) = Len(g)
    <3>1. Len(g) \in 0 .. Len(g)
      BY <1>0
    <3> QED
      BY <1>1, <3>1, Zenon
  <2> QED
    BY <2>1, <2>2, Zenon
<1>3. ASSUME NEW k \in 1 .. n
      PROVE  g[k] = Ascending(S)[k]
  <2>1. k \in 1 .. Len(g) /\ k \in 0 .. Len(g) /\ g[k] \in S
    BY <1>0, <1>2, <1>3
  <2>2. {y \in S : y <= g[k]} = {g[i] : i \in 1 .. k}
    <3>1. ASSUME NEW i \in 1 .. k
          PROVE  g[i] \in S /\ g[i] <= g[k]
      <4>1. i \in 1 .. Len(g) /\ g[i] \in Nat /\ g[k] \in Nat /\ (i = k \/ i < k)
        BY <1>0, <2>1
      <4>2. i < k => g[i] < g[k]
        BY <1>0, <2>1, <4>1
      <4> QED
        BY <1>0, <4>1, <4>2
    <3>2. ASSUME NEW y \in S, y <= g[k]
          PROVE  \E i \in 1 .. k : y = g[i]
      <4>1. PICK i \in 1 .. Len(g) : g[i] = y
        BY <1>0
      <4>2. ~(k < i)
        <5>1. k < i => g[k] < g[i]
          BY <1>0, <2>1
        <5>2. g[k] \in Nat /\ g[i] \in Nat
          BY <1>0, <2>1
        <5> QED
          BY <3>2, <4>1, <5>1, <5>2
      <4>3. i \in 1 .. k
        BY <1>0, <2>1, <4>2
      <4> QED
        BY <4>1, <4>3
    <3> QED
      BY <3>1, <3>2
  <2>3. Rank(S, g[k]) = k
    BY <1>1, <2>1, <2>2 DEF Rank
  <2>4. \A x \in S : Rank(S, x) = k => x = g[k]
    <3> SUFFICES ASSUME NEW x \in S, Rank(S, x) = k
                 PROVE  x = g[k]
      OBVIOUS
    <3>1. \A a, b \in S : Rank(S, a) = Rank(S, b) => a = b
      BY Ranks
    <3> QED
      BY <2>1, <2>3, <3>1, Zenon
  <2>5. Ascending(S)[k] = CHOOSE x \in S : Rank(S, x) = k
    BY <1>3 DEF Ascending, Rank
  <2>6. (CHOOSE x \in S : Rank(S, x) = k) = g[k]
    BY <2>1, <2>3, <2>4
  <2> QED
    BY <2>5, <2>6
<1>4. Ascending(S) = [k \in 1 .. n |-> Ascending(S)[k]]
  BY DEF Ascending
<1>5. g = [k \in 1 .. n |-> g[k]]
  BY <1>0, <1>2
<1> QED
  BY <1>3, <1>4, <1>5

\* A list and one that goes on from it, and the first part of a list.
LEMMA ListedConcat ==
  ASSUME NEW g, NEW h, NEW S, NEW T, Listed(g, S), Listed(h, T),
         \A x \in S : \A y \in T : x < y
  PROVE  Listed(g \o h, S \union T)
<1>1. /\ g \in Seq(Nat) /\ Len(g) \in Nat /\ h \in Seq(Nat) /\ Len(h) \in Nat
      /\ \A i, j \in 1 .. Len(g) : i < j => g[i] < g[j]
      /\ \A i, j \in 1 .. Len(h) : i < j => h[i] < h[j]
      /\ \A i \in 1 .. Len(g) : g[i] \in S
      /\ \A i \in 1 .. Len(h) : h[i] \in T
      /\ \A x \in S : \E i \in 1 .. Len(g) : g[i] = x
      /\ \A x \in T : \E i \in 1 .. Len(h) : h[i] = x
  BY DEF Listed
<1> DEFINE c == g \o h
<1>2. /\ c \in Seq(Nat) /\ Len(c) = Len(g) + Len(h)
      /\ \A i \in 1 .. Len(c) : c[i] = IF i <= Len(g) THEN g[i] ELSE h[i - Len(g)]
  BY <1>1
<1> HIDE DEF c
<1>3. \A i \in 1 .. Len(c) :
         \/ i \in 1 .. Len(g) /\ c[i] = g[i]
         \/ i - Len(g) \in 1 .. Len(h) /\ c[i] = h[i - Len(g)]
  BY <1>1, <1>2
<1>4. \A i, j \in 1 .. Len(c) : i < j => c[i] < c[j]
  <2> SUFFICES ASSUME NEW i \in 1 .. Len(c), NEW j \in 1 .. Len(c), i < j
               PROVE  c[i] < c[j]
    OBVIOUS
  <2>1. CASE i \in 1 .. Len(g) /\ j \in 1 .. Len(g)
    <3>1. c[i] = g[i] /\ c[j] = g[j]
      BY <1>1, <1>2, <2>1
    <3> QED BY <1>1, <2>1, <3>1
  <2>2. CASE i \in 1 .. Len(g) /\ j \notin 1 .. Len(g)
    <3>0. c[i] = g[i]
      BY <1>1, <1>2, <2>2
    <3>1. c[i] = g[i] /\ c[i] \in S
      BY <1>1, <2>2, <3>0
    <3>2. j - Len(g) \in 1 .. Len(h) /\ c[j] = h[j - Len(g)]
      BY <1>3, <2>2
    <3>3. c[j] \in T
      BY <1>1, <3>2
    <3> QED BY <3>1, <3>3
  <2>3. CASE i \notin 1 .. Len(g)
    <3>1. i - Len(g) \in 1 .. Len(h) /\ c[i] = h[i - Len(g)]
      BY <1>3, <2>3
    <3>2. j \notin 1 .. Len(g) /\ i - Len(g) < j - Len(g)
      BY <1>1, <1>2, <2>3
    <3>3. j - Len(g) \in 1 .. Len(h) /\ c[j] = h[j - Len(g)]
      BY <1>3, <3>2
    <3> QED
      BY <1>1, <3>1, <3>2, <3>3
  <2> QED
    BY <2>1, <2>2, <2>3
<1>5. \A x \in S \union T : \E i \in 1 .. Len(c) : c[i] = x
  <2>1. ASSUME NEW x \in S
        PROVE  \E i \in 1 .. Len(c) : c[i] = x
    <3>1. PICK i \in 1 .. Len(g) : g[i] = x
      BY <1>1
    <3>2. i \in 1 .. Len(c) /\ i <= Len(g)
      BY <1>1, <1>2, SMTT(30)
    <3> QED
      BY <1>2, <3>1, <3>2
  <2>2. ASSUME NEW x \in T
        PROVE  \E i \in 1 .. Len(c) : c[i] = x
    <3>1. PICK i \in 1 .. Len(h) : h[i] = x
      BY <1>1
    <3>2. i + Len(g) \in 1 .. Len(c) /\ (i + Len(g)) - Len(g) = i /\ ~(i + Len(g) <= Len(g))
      BY <1>1, <1>2
    <3> QED
      BY <1>2, <3>1, <3>2
  <2> QED
    BY <2>1, <2>2
<1>6. \A i \in 1 .. Len(c) : c[i] \in S \union T
  BY <1>1, <1>3
<1>7. Listed(c, S \union T)
  BY <1>2, <1>4, <1>5, <1>6 DEF Listed
<1> QED
  BY <1>7 DEF c

LEMMA ListedPrefix ==
  ASSUME NEW h, NEW T \in SUBSET Nat, Listed(h, T), NEW k \in 1 .. Len(h)
  PROVE  Listed(SubSeq(h, 1, k), {x \in T : x <= h[k]})
<1>1. /\ h \in Seq(Nat) /\ Len(h) \in Nat /\ k \in 1 .. Len(h)
      /\ \A i, j \in 1 .. Len(h) : i < j => h[i] < h[j]
      /\ \A i \in 1 .. Len(h) : h[i] \in T
      /\ \A x \in T : \E i \in 1 .. Len(h) : h[i] = x
  BY DEF Listed
<1> DEFINE c == SubSeq(h, 1, k)
<1>2. c \in Seq(Nat) /\ Len(c) = k /\ \A i \in 1 .. k : c[i] = h[i] /\ i \in 1 .. Len(h)
  BY <1>1
<1> HIDE DEF c
<1>3. \A i \in 1 .. k : h[i] \in Nat /\ h[i] <= h[k]
  <2> SUFFICES ASSUME NEW i \in 1 .. k
               PROVE  h[i] \in Nat /\ h[i] <= h[k]
    OBVIOUS
  <2>1. i \in 1 .. Len(h) /\ h[i] \in Nat /\ h[k] \in Nat /\ (i = k \/ i < k)
    BY <1>1
  <2>2. i < k => h[i] < h[k]
    BY <1>1, <2>1
  <2> QED
    BY <2>1, <2>2
<1>4. ASSUME NEW x \in T, x <= h[k]
      PROVE  \E i \in 1 .. k : c[i] = x
  <2>1. PICK i \in 1 .. Len(h) : h[i] = x
    BY <1>1
  <2>2. k < i => h[k] < h[i]
    BY <1>1
  <2>3. h[k] \in Nat /\ h[i] \in Nat
    BY <1>1
  <2>4. i \in 1 .. k
    BY <1>1, <1>4, <2>1, <2>2, <2>3
  <2> QED
    BY <1>2, <2>1, <2>4
<1>5. \A i, j \in 1 .. k : i < j => c[i] < c[j]
  BY <1>1, <1>2
<1>6. Listed(c, {x \in T : x <= h[k]})
  <2>1. ASSUME NEW i \in 1 .. k
        PROVE  c[i] \in T /\ c[i] <= h[k]
    BY <1>1, <1>2, <1>3
  <2>2. \A x : x \in {z \in T : z <= h[k]} <=> \E i \in 1 .. Len(c) : c[i] = x
    BY <1>2, <1>4, <2>1
  <2> QED
    BY <1>2, <1>5, <2>2 DEF Listed
<1> QED
  BY <1>6 DEF c

LEMMA ScanLimitIs == ScanLimit \in Nat \ {0}
<1> DEFINE a == Limit + 1
           b == Limit * ScanFactor
<1>1. a \in Nat \ {0} /\ b \in Nat
  BY StoreAssumption
<1> HIDE DEF a, b
<1>2. \E x \in {a, b} : \A y \in {a, b} : x >= y
  BY <1>1
<1>3. Max({a, b}) \in {a, b} /\ \A y \in {a, b} : Max({a, b}) >= y
  BY <1>2 DEF Max
<1>4. Max({a, b}) \in Nat \ {0}
  BY <1>1, <1>3
<1> DEFINE c == Max({a, b})
<1> HIDE DEF c
<1>5. Min({MaxScan, c}) \in Nat \ {0}
  <2>1. MaxScan \in Nat \ {0} /\ c \in Nat \ {0}
    BY <1>4, StoreAssumption DEF c
  <2>2. Min({MaxScan, c}) \in {MaxScan, c}
    BY <2>1, MinOfTwo
  <2> QED
    BY <2>1, <2>2
<1> QED
  BY <1>5 DEF ScanLimit, a, b, c

\* A page goes on where the last one ended, and its cursor skips nothing: a
\* cursor of 0 means that the bucket is exhausted.
LEMMA PageGoesOn ==
  ASSUME NEW bucket \in Seq(BOOLEAN), NEW after \in 0 .. Len(bucket), NEW got,
         Listed(got, {i \in 1 .. after : bucket[i]})
  PROVE  LET found == ListOlderThan(bucket, after) IN
         /\ found.next \in 0 .. Len(bucket)
         /\ Listed(got \o found.items,
                   {i \in 1 .. (IF found.next = 0 THEN Len(bucket) ELSE found.next) : bucket[i]})
<1> DEFINE n == Len(bucket)
           e == Min({n, after + ScanLimit})
           O(k) == {i \in 1 .. k : bucket[i]}
           T == {i \in after + 1 .. e : bucket[i]}
           old == Ascending(T)
           found == ListOlderThan(bucket, after)
<1>0. n \in Nat /\ after \in Nat /\ after <= n /\ ScanLimit \in Nat \ {0} /\ Limit \in Nat \ {0}
  BY ScanLimitIs, StoreAssumption
<1>1. /\ e \in Nat /\ e <= n /\ e <= after + ScanLimit /\ after <= e
      /\ e = n \/ e = after + ScanLimit
  <2>1. after + ScanLimit \in Nat
    BY <1>0
  <2>2. e \in Nat /\ e <= n /\ e <= after + ScanLimit /\ (e = n \/ e = after + ScanLimit)
    BY <1>0, <2>1, MinOfTwo
  <2> HIDE DEF e
  <2> QED
    BY <1>0, <2>2
<1>2. found = IF Len(old) > Limit
              THEN [items |-> SubSeq(old, 1, Limit), next |-> old[Limit]]
              ELSE [items |-> old, next |-> IF n > after + ScanLimit THEN after + ScanLimit ELSE 0]
  BY DEF ListOlderThan
<1> HIDE DEF e, found, n
<1>3. T \in SUBSET Nat /\ IsFiniteSet(T)
  <2>1. IsFiniteSet(after + 1 .. e)
    BY <1>0, <1>1, FS_Interval
  <2>2. T \in SUBSET (after + 1 .. e)
    OBVIOUS
  <2>3. IsFiniteSet(T)
    BY <2>1, <2>2, FS_Subset
  <2> QED
    BY <1>0, <1>1, <2>3
<1>4. Listed(old, T)
  BY <1>3, AscendingListed
<1> HIDE DEF old
<1>5. old \in Seq(Nat) /\ Len(old) \in Nat /\ \A i \in 1 .. Len(old) : old[i] \in T
  BY <1>4 DEF Listed
<1>6. ASSUME NEW m \in after .. e
      PROVE  O(m) = O(after) \union {x \in T : x <= m}
  BY <1>0, <1>1
<1>7. ASSUME NEW S \in SUBSET T
      PROVE  \A x \in O(after) : \A y \in S : x < y
  BY <1>0, <1>1
<1>8. CASE Len(old) > Limit
  <2>1. Limit \in 1 .. Len(old)
    BY <1>0, <1>5, <1>8
  <2>2. old[Limit] \in T
    BY <1>5, <2>1
  <2>3. old[Limit] \in after .. e /\ old[Limit] # 0 /\ old[Limit] \in 0 .. n
    BY <1>0, <1>1, <2>2
  <2>4. found.items = SubSeq(old, 1, Limit) /\ found.next = old[Limit]
    BY <1>2, <1>8
  <2> DEFINE h == old[Limit]
             S == {x \in T : x <= h}
  <2>5. Listed(found.items, S)
    BY <1>3, <1>4, <2>1, <2>4, ListedPrefix
  <2>6. \A x \in O(after) : \A y \in S : x < y
    BY <1>7
  <2>7. O(h) = O(after) \union S
    BY <1>6, <2>3
  <2> HIDE DEF S, h, O, T
  <2>8. Listed(got \o found.items, O(after) \union S)
    BY <2>5, <2>6, ListedConcat DEF O
  <2>9. Listed(got \o found.items, O(h)) /\ found.next = h /\ h # 0 /\ h \in 0 .. n
    BY <2>3, <2>4, <2>7, <2>8 DEF h
  <2> QED
    BY <2>9 DEF O, found, n
<1>9. CASE ~(Len(old) > Limit)
  <2> DEFINE m == IF n > after + ScanLimit THEN after + ScanLimit ELSE 0
             to == IF m = 0 THEN n ELSE m
  <2>1. m \in 0 .. n /\ to = e
    BY <1>0, <1>1
  <2>2. found.items = old /\ found.next = m
    BY <1>2, <1>9
  <2>3. O(e) = O(after) \union T
    <3>1. T = {x \in T : x <= e}
      BY <1>0, <1>1
    <3>2. e \in after .. e
      BY <1>0, <1>1
    <3> QED
      BY <1>6, <3>1, <3>2
  <2>4. \A x \in O(after) : \A y \in T : x < y
    BY <1>7
  <2> HIDE DEF O, T, m
  <2>5. Listed(got \o old, O(after) \union T)
    BY <1>4, <2>4, ListedConcat DEF O
  <2>6. Listed(got \o found.items, O(IF found.next = 0 THEN n ELSE found.next))
    BY <2>1, <2>2, <2>3, <2>5
  <2> QED
    BY <2>1, <2>2, <2>6 DEF O, found, n
<1> QED
  BY <1>8, <1>9

LEMMA ListDoneKeeps ==
  ASSUME StoreIInv, NEW o \in Ops, ListDone(o)
  PROVE  StoreIInv'
<1>1. /\ InProgress(o) /\ pc[o] # "cleanup" /\ pc[o] = "list" /\ call[Own(o)].st = "ended"
      /\ call[Own(o)].what = "list" /\ ~InThread(Own(o)) /\ OpOK(o) /\ hit \in [Ops -> BOOLEAN]
  BY HasAnswer DEF ListDone, Steps
<1>2. SpoolLeft(o)
  BY <1>1, NoSpool DEF ListDone
<1>3. /\ UNCHANGED <<kind, want, cancel, active, ended, exec, close, objectVars, pipeVars>>
      /\ hit' \in [Ops -> BOOLEAN]
  BY <1>1 DEF ListDone
<1>4. kind[o] = "list" /\ res[o] = "none"
  BY <1>1 DEF OpOK, KindFits
<1>5. "ok" \in Results \ {"refused"} /\ "unavailable" \in Results \ {"refused"}
  BY DEF Results
<1>6. CASE Out(o) # "ok"
  <2>1. Leave(o, "unavailable") /\ UNCHANGED page
    BY <1>6 DEF ListDone
  <2> QED
    BY <1>1, <1>2, <1>3, <1>5, <2>1, LeaveKeeps DEF Leave
<1>7. CASE Out(o) = "ok"
  <2> DEFINE found == ListOlderThan(page.bucket, page.after)
  <2>1. Leave(o, "ok") /\ page' = [page EXCEPT !.after = found.next, !.got = @ \o found.items]
    BY <1>7 DEF ListDone
  <2>2. /\ page \in [bucket : Seq(BOOLEAN), after : Nat, got : Seq(Nat)]
        /\ page.after <= Len(page.bucket) /\ Listed(page.got, Old(page.after))
    BY <1>4 DEF StoreIInv, PageFits
  <2>3. page.bucket \in Seq(BOOLEAN) /\ page.after \in 0 .. Len(page.bucket) /\ page.got \in Seq(Nat)
    BY <2>2
  <2> DEFINE to == IF found.next = 0 THEN Len(page.bucket) ELSE found.next
  <2>4. found.next \in 0 .. Len(page.bucket) /\ Listed(page.got \o found.items, Old(to))
    BY <2>2, <2>3, PageGoesOn DEF Old
  <2> HIDE DEF found
  <2>5. /\ page'.bucket = page.bucket /\ page'.after = found.next
        /\ page'.got = page.got \o found.items
    BY <2>1, <2>2
  <2>6. page' \in [bucket : Seq(BOOLEAN), after : Nat, got : Seq(Nat)]
    <3>1. page.got \o found.items \in Seq(Nat) /\ found.next \in Nat
      BY <2>3, <2>4 DEF Listed
    <3> QED
      BY <2>1, <2>2, <3>1
  <2>7. res'[o] = "ok"
    <3>1. OpTypes
      BY Types DEF StoreIInv
    <3> QED
      BY <2>1, <3>1 DEF Leave, LeaveWith, OpTypes
  <2>8. PageFits'
    <3>1. page'.after <= Len(page'.bucket)
      BY <2>3, <2>4, <2>5
    <3>2. ASSUME NEW p \in Ops, kind'[p] = "list"
          PROVE  p = o
      BY <1>3, <1>4, <3>2 DEF StoreIInv, OneEach
    <3>3. Old(IF page.after = 0 /\ res[o] = "ok" THEN Len(page.bucket) ELSE page.after)' = Old(to)
      BY <2>5, <2>7 DEF Old
    <3>4. Listed(page'.got, Old(to))
      BY <2>4, <2>5
    <3> HIDE DEF to
    <3>5. Listed(page.got, Old(IF page.after = 0 /\ res[o] = "ok" THEN Len(page.bucket)
                                                                  ELSE page.after))'
      BY <3>3, <3>4
    <3> QED
      BY <2>6, <3>1, <3>2, <3>5 DEF PageFits
  <2> QED
    BY <1>1, <1>2, <1>3, <1>5, <2>1, <2>8, LeaveKeeps DEF Leave
<1> QED
  BY <1>6, <1>7

-----------------------------------------------------------------------------
(* The invariant.                                                          *)

LEMMA StoreInitOK == StoreInit => StoreIInv
<1> SUFFICES ASSUME StoreInit
             PROVE  StoreIInv
  OBVIOUS
<1>1. PICK start \in Starts :
         /\ kind = start.kind /\ want = start.want
         /\ final = start.final /\ rival = start.rival
         /\ staged = [o \in Ops |-> IF kind[o] = "publish" /\ o \in start.temp
                                    THEN want[o] ELSE "none"]
         /\ cancel = [o \in Ops |-> IF o \in start.cancels THEN "no" ELSE "never"]
         /\ exec = [st |-> "open", workers |-> start.workers, busy |-> start.busy]
         /\ active = start.busy
         /\ close = IF start.closes THEN "open" ELSE "kept"
         /\ page = [bucket |-> start.bucket, after |-> 0, got |-> <<>>]
  BY DEF StoreInit
<1>2. /\ start.kind \in [Ops -> Kinds] /\ start.want \in [Ops -> Payloads]
      /\ start.final \in Payloads \union {"none"} /\ start.rival \in Payloads \union {"none"}
      /\ start.bucket \in Seq(BOOLEAN)
      /\ start.workers \in 1 .. MaxWorkers /\ start.busy \in 0 .. start.workers
      /\ \A k \in {"upload", "list"} : \A o, p \in Ops :
            start.kind[o] = k /\ start.kind[p] = k => o = p
  BY StartsAssumption
<1>3. /\ pc = [o \in Ops |-> "new"] /\ res = [o \in Ops |-> "none"]
      /\ hit = [o \in Ops |-> FALSE] /\ call = [c \in Callers |-> NoCall]
      /\ tasks = [o \in Ops |-> [staging |-> "none", eventual |-> "none"]]
      /\ ended = 0 /\ spool = [o \in Ops |-> [file |-> "none", abandoned |-> FALSE]]
      /\ excused = {} /\ PipeInit
  BY DEF StoreInit
<1>4. NoCall \in CallRec /\ NoCall.st = "idle"
  BY CallRecs
<1>5. OpTypes
  <2>1. pc \in [Ops -> Places] /\ res \in [Ops -> Results] /\ hit \in [Ops -> BOOLEAN]
    BY <1>3 DEF Places, Results
  <2>2. cancel \in [Ops -> {"no", "never", "caller", "close"}]
    BY <1>1
  <2>3. call \in [Callers -> CallRec] /\ tasks \in [Ops -> TaskRec] /\ excused \subseteq Ops
    BY <1>3, <1>4 DEF TaskRec
  <2>4. spool \in [Ops -> SpoolRec]
    BY <1>3 DEF SpoolRec
  <2> QED
    BY <2>1, <2>2, <2>3, <2>4 DEF OpTypes
<1>6. RestTypes
  <2>1. active \in 0 .. MaxWorkers /\ ended \in 0 .. MaxWorkers /\ start.busy \in 0 .. MaxWorkers
    BY <1>1, <1>2, <1>3, StoreAssumption
  <2>2. exec \in [st : {"open", "closed"}, workers : 1 .. MaxWorkers, busy : 0 .. MaxWorkers]
    BY <1>1, <1>2, <2>1
  <2>3. active <= exec.workers
    BY <1>1, <1>2
  <2>4. close \in {"open", "kept", "drain", "executor", "retire", "closed", "failed"}
    BY <1>1
  <2>5. staged \in [Ops -> Payloads \union {"none", "partial"}]
    BY <1>1, <1>2
  <2> QED
    BY <1>1, <1>2, <2>1, <2>2, <2>3, <2>4, <2>5 DEF RestTypes
<1>7. PipeOK
  <2>1. PipeTypeOK
    BY <1>3, PipeAssumption DEF PipeInit, PipeTypeOK, Failures, ProducerStates
  <2> QED
    BY <1>3, <2>1 DEF PipeInit, PipeOK, PipeFits
<1>8. StoreTypeOK
  BY <1>5, <1>6, <1>7, Types DEF PipeOK
<1>9. \A c \in Callers : call[c].st = "idle"
  BY <1>3, <1>4
<1>10. CapacityFollowsThreads
  <2>1. {c \in Callers : InThread(c)} = {}
    BY <1>9 DEF InThread
  <2> QED
    <3>1. exec.busy = start.busy /\ active = start.busy /\ ended = 0 /\ start.busy \in Nat
      BY <1>1, <1>2, <1>3
    <3>2. Cardinality({}) = 0
      BY FS_EmptySet
    <3> QED
      BY <2>1, <3>1, <3>2 DEF CapacityFollowsThreads
<1>11. QuietWhenClosed /\ OneEach
  BY <1>1, <1>2 DEF QuietWhenClosed, OneEach
<1>12. StagedWhole
  <2>1. \A o \in Ops : want[o] # "partial"
    BY <1>1, <1>2, StoreAssumption
  <2> QED
    BY <1>1, <2>1 DEF StagedWhole
<1>13. PageFits
  <2>1. page \in [bucket : Seq(BOOLEAN), after : Nat, got : Seq(Nat)]
    BY <1>1, <1>2
  <2>2. page.bucket = start.bucket /\ page.after = 0 /\ page.got = <<>>
    BY <1>1
  <2>3. Len(page.bucket) \in Nat
    BY <1>2, <2>2
  <2>4. Listed(<<>>, Old(0))
    BY DEF Listed, Old
  <2>5. \A o \in Ops : res[o] # "ok"
    BY <1>3
  <2> QED
    BY <2>1, <2>2, <2>3, <2>4, <2>5 DEF PageFits
<1>14. ASSUME NEW o \in Ops
       PROVE  OpOK(o) /\ UploadFits(o)
  <2>1. /\ pc[o] = "new" /\ res[o] = "none" /\ tasks[o].staging = "none"
        /\ tasks[o].eventual = "none" /\ spool[o].file = "none" /\ ~spool[o].abandoned
        /\ kind[o] = "upload" => staged[o] = "none"
    BY <1>1, <1>3
  <2>2. call[Own(o)].st = "idle" /\ \A who \in Cleaners : call[<<o, who>>].st = "idle"
    BY <1>9, CallerParts DEF Who
  <2>3. CallFits(o) /\ KindFits(o)
    BY <2>1, <2>2 DEF CallFits, KindFits, Steps
  <2>4. TasksFit(o)
    BY <2>1, <2>2 DEF TasksFit, Cleaners
  <2>5. SpoolFits(o) /\ StagingFits(o)
    BY <2>1, <2>2 DEF SpoolFits, StagingFits
  <2>6. UploadFits(o)
    BY <1>3 DEF PipeInit, UploadFits
  <2> QED
    BY <2>3, <2>4, <2>5, <2>6 DEF OpOK
<1> QED
  BY <1>7, <1>8, <1>10, <1>11, <1>12, <1>13, <1>14 DEF StoreIInv, PipeOK

LEMMA StoreStutters ==
  ASSUME StoreIInv, UNCHANGED storeVars
  PROVE  StoreIInv'
<1>1. /\ UNCHANGED <<kind, want, pc, res, cancel, hit, call, active, ended, exec, close>>
      /\ UNCHANGED <<staged, final, rival, tasks, spool, page, excused>>
      /\ UNCHANGED pipeVars /\ UNCHANGED <<pipe, prod, cons>>
  BY DEF storeVars, opVars, callVars, objectVars, pipeVars
<1>2. StoreTypeOK' /\ CapacityFollowsThreads' /\ QuietWhenClosed' /\ OneEach' /\ PipeFits'
      /\ StagedWhole' /\ PageFits'
  <2>1. StoreTypeOK'
    BY <1>1 DEF StoreIInv, StoreTypeOK, PipeTypeOK
  <2>2. CapacityFollowsThreads' /\ QuietWhenClosed'
    BY <1>1 DEF StoreIInv, CapacityFollowsThreads, QuietWhenClosed, InThread, InProgress, TaskLive
  <2>3. OneEach' /\ PipeFits' /\ StagedWhole' /\ PageFits'
    BY <1>1 DEF StoreIInv, OneEach, PipeFits, StagedWhole, PageFits, Old
  <2> QED
    BY <2>1, <2>2, <2>3
<1>3. ASSUME NEW o \in Ops
      PROVE  OpOK(o)' /\ UploadFits(o)'
  BY <1>1 DEF StoreIInv, OpOK, UploadFits, CallFits, KindFits, TasksFit, SpoolFits, StagingFits,
              Owed, InThread
<1> QED
  BY <1>2, <1>3 DEF StoreIInv

LEMMA StoreStepKeeps ==
  ASSUME StoreIInv, [StoreNext]_storeVars
  PROVE  StoreIInv'
<1>1. CASE UNCHANGED storeVars
  BY <1>1, StoreStutters
<1>2. ASSUME NEW o \in Ops, Operation(o)
      PROVE  StoreIInv'
  <2>1. Own(o) \in Callers
    BY CallerParts
  <2>2. CASE Submit(Own(o))
    BY <2>1, <2>2, SubmitKeeps
  <2>3. CASE Admit(o) \/ CleanedUp(o) \/ SubmitFails(o) \/ Timeout(o)
    BY <2>3, AdmitKeeps, CleanedUpKeeps, SubmitFailsKeeps, TimeoutKeeps
  <2>4. CASE VerifySourceVersion(o) \/ PublishVerifiedSource(o) \/ CopyIfAbsent(o)
    BY <2>4, VerifySourceVersionKeeps, PublishVerifiedSourceKeeps, CopyIfAbsentKeeps
  <2>5. CASE CopyRaced(o) \/ VerifyPublished(o) \/ HeadDone(o) \/ ReadDone(o)
    BY <2>5, CopyRacedKeeps, VerifyPublishedKeeps, HeadDoneKeeps, ReadDoneKeeps
  <2>6. CASE StreamRead(o) \/ DeleteDone(o) \/ ListDone(o) \/ PutDone(o)
    BY <2>6, StreamReadKeeps, DeleteDoneKeeps, ListDoneKeeps, PutDoneKeeps
  <2>7. CASE PutOverdue(o) \/ PutFailed(o) \/ PutSettled(o) \/ Cancelled(o) \/ GraceOver(o)
    BY <2>7, PutOverdueKeeps, PutFailedKeeps, PutSettledKeeps, CancelledKeeps, GraceOverKeeps
  <2> QED
    BY <1>2, <2>2, <2>3, <2>4, <2>5, <2>6, <2>7 DEF Operation
<1>3. ASSUME NEW o \in Ops, Background(o)
      PROVE  StoreIInv'
  <2>1. CASE EventualWakes(o)
    BY <2>1, EventualWakesKeeps
  <2>2. ASSUME NEW who \in Cleaners, Submit(<<o, who>>) \/ DeleteReturns(o, who)
        PROVE  StoreIInv'
    <3>1. <<o, who>> \in Callers
      BY CallerParts DEF Who
    <3> QED
      BY <2>2, <3>1, SubmitKeeps, DeleteReturnsKeeps
  <2> QED
    BY <1>3, <2>1, <2>2 DEF Background, Cleaners
<1>4. ASSUME NEW o \in Ops, CancelOp(o) \/ NextPage(o)
      PROVE  StoreIInv'
  BY <1>4, CancelOpKeeps, NextPageKeeps
<1>5. ASSUME NEW c \in Callers, ReadPipe(c) \/ Sdk(c)
      PROVE  StoreIInv'
  BY <1>5, ThreadKeeps
<1>6. CASE Release \/ ProducerStep \/ RivalCompletes
  BY <1>6, ReleaseKeeps, ProducerStepKeeps, RivalCompletesKeeps
<1>7. CASE Aclose \/ AcloseAgain \/ CloseStep
  BY <1>7, CloseKeeps
<1> QED
  BY <1>1, <1>2, <1>3, <1>4, <1>5, <1>6, <1>7 DEF StoreNext, Loop

\* StoreIInv is inductive for every set of operations, executor size and pipe.
THEOREM StoreInductive == StoreSpec => []StoreIInv
<1>1. StoreInit => StoreIInv
  BY StoreInitOK
<1>2. StoreIInv /\ [StoreNext]_storeVars => StoreIInv'
  BY StoreStepKeeps
<1> QED
  BY <1>1, <1>2, PTL DEF StoreSpec

\* Threads, tasks and temporary files are accounted for, whoever times out, is
\* cancelled or is closed over: the executor's capacity is exactly the calls that
\* still run, a closed store has nothing under way, and no temporary file of a
\* download stays open (_MinioIoExecutor, aclose, _TemporaryDownloadSlot).
THEOREM StoreAlwaysAccounts == StoreSpec => []StoreAccounts
<1>1. StoreIInv => StoreAccounts
  <2> SUFFICES ASSUME StoreIInv
               PROVE  StoreAccounts
    OBVIOUS
  <2>1. DrainedWhenClosed
    BY DEF StoreIInv, QuietWhenClosed, DrainedWhenClosed
  <2>2. SpoolsClosed
    <3> SUFFICES ASSUME NEW o \in Ops, pc[o] = "done", ~InThread(Own(o))
                 PROVE  spool[o].file \in {"none", "closed"}
      BY DEF SpoolsClosed
    <3>1. OpTypes /\ SpoolFits(o)
      BY Types DEF StoreIInv, OpOK
    <3>2. spool[o].file \notin {"open", "published", "owned"}
      BY <3>1 DEF SpoolFits, InThread
    <3> QED
      BY <3>1, <3>2 DEF OpTypes, SpoolRec
  <2> QED
    BY <2>1, <2>2 DEF StoreIInv, StoreAccounts
<1> QED
  BY <1>1, StoreInductive, PTL

\* What an upload or a publication staged is gone once its operation, its calls
\* and its cleanup are over, no object holds a part of a stream, and paging
\* returns every old object once and in order (_cleanup_staging,
\* _schedule_eventual_cleanup, _put_stream, _list_older_than_sync).
THEOREM ObjectsAlwaysSound == StoreSpec => []ObjectsSound
<1>1. StoreIInv => ObjectsSound
  <2> SUFFICES ASSUME StoreIInv
               PROVE  ObjectsSound
    OBVIOUS
  <2>1. StagingRemoved
    <3> SUFFICES ASSUME NEW o \in Ops, kind[o] \in {"upload", "publish"}, pc[o] = "done",
                        res[o] # "refused", ~TaskLive(o), o \notin excused
                 PROVE  staged[o] = "none"
      BY DEF StagingRemoved
    <3>1. StagingFits(o)
      BY DEF StoreIInv, OpOK
    <3> QED
      BY <3>1 DEF StagingFits, TaskLive
  <2>2. ListsAllOld
    <3> SUFFICES ASSUME NEW o \in Ops, kind[o] = "list", res[o] = "ok", page.after = 0
                 PROVE  page.got = Ascending({i \in DOMAIN page.bucket : page.bucket[i]})
      BY DEF ListsAllOld
    <3> DEFINE S == Old(Len(page.bucket))
    <3>1. page.bucket \in Seq(BOOLEAN) /\ Listed(page.got, S)
      BY DEF StoreIInv, PageFits
    <3>2. Len(page.bucket) \in Nat /\ DOMAIN page.bucket = 1 .. Len(page.bucket)
      BY <3>1
    <3>3. S \in SUBSET Nat /\ IsFiniteSet(S)
      <4>1. IsFiniteSet(1 .. Len(page.bucket))
        BY <3>2, FS_Interval
      <4>2. S \in SUBSET (1 .. Len(page.bucket))
        BY DEF Old
      <4> QED
        BY <3>2, <4>1, <4>2, FS_Subset
    <3>4. S = {i \in DOMAIN page.bucket : page.bucket[i]}
      BY <3>2 DEF Old
    <3> HIDE DEF S
    <3>5. page.got = Ascending(S)
      BY <3>1, <3>3, ListedOnce
    <3> QED
      BY <3>4, <3>5
  <2> QED
    BY <2>1, <2>2 DEF StoreIInv, ObjectsSound
<1> QED
  BY <1>1, StoreInductive, PTL

\* A final key is never given another content: only a copy and another process
\* write it, both under the condition that nothing is there.
LEMMA FinalKept ==
  ASSUME StoreNext, final # "none", final' # "none"
  PROVE  final' = final
<1>1. CASE UNCHANGED objectVars
  BY <1>1 DEF objectVars
<1>2. ASSUME NEW o \in Ops, Operation(o) \/ Background(o) \/ CancelOp(o) \/ NextPage(o)
      PROVE  UNCHANGED objectVars
  <2>1. CASE OpStep
    BY <2>1 DEF OpStep
  <2>2. CASE BackgroundFrame
    BY <2>2 DEF BackgroundFrame
  <2> QED
    BY <1>2, <2>1, <2>2
       DEF Operation, Background, CancelOp, NextPage, Submit, Admit, CleanedUp, SubmitFails,
           Timeout, VerifySourceVersion, PublishVerifiedSource, CopyIfAbsent, CopyRaced,
           VerifyPublished, HeadDone, ReadDone, StreamRead, DeleteDone, ListDone, PutDone,
           PutOverdue, PutFailed, PutSettled, Cancelled, GraceOver, EventualWakes, DeleteReturns
<1>3. ASSUME NEW c \in Callers, ReadPipe(c)
      PROVE  UNCHANGED objectVars
  BY <1>3 DEF ReadPipe, PutReads, PutRaises
<1>4. ASSUME NEW c \in Callers, Sdk(c)
      PROVE  final' = final
  BY <1>4 DEF Sdk, StatRuns, RemoveRuns, CopyPartsRun, CopyCompletes, GetRuns, PutStores, ListRuns,
              SdkFails, Completes, objectVars
<1>5. CASE Release \/ ProducerStep \/ Aclose \/ AcloseAgain \/ CloseStep
  BY <1>5 DEF Release, ProducerStep, Aclose, AcloseAgain, CloseStep, CloseExecutor, ExecutorDrained,
              ExecutorOverdue, RetireFailedClose, Retired, CloseFrame, CancelLive,
              objectVars
<1>6. CASE RivalCompletes
  BY <1>6 DEF RivalCompletes, Completes
<1> QED
  BY <1>1, <1>2, <1>3, <1>4, <1>5, <1>6 DEF StoreNext, Loop

\* Two publications that both found the key absent are decided by the store's
\* condition on the completion (_copy_if_absent_sync): no step of any operation,
\* late call or other process replaces the content of a final key.
THEOREM FinalNeverChanges == StoreSpec => FinalImmutable
<1> DEFINE A == final # "none" /\ final' # "none" => final' = final
<1>1. [StoreNext]_storeVars => [A]_storeVars
  BY FinalKept
<1> QED
  BY <1>1, PTL DEF StoreSpec, FinalImmutable

-----------------------------------------------------------------------------
(* Document uploads.                                                       *)

USE NoneAssumption, MaxConfigAssumption, QueueSizeAssumption,
    MaxPiecesAssumption

\* The types of everything but the multipart staging.
DataOK ==
  /\ kb \in (0 .. MaxConfig) \cup {None}
  /\ lock \in Requests \cup {None}
  /\ rows \subseteq Requests
  /\ idem \in [Keys -> Requests \cup {None}]
  /\ temps \subseteq Requests /\ objects \subseteq Requests
  /\ copying \subseteq Requests /\ doomed \subseteq Requests
  /\ request \in [Requests -> Request]
  /\ task \in [Requests -> Task]

\* A reservation task runs from the publication on, and the row lock is held by
\* the one that is between its comparison and its commit.
TasksMatch ==
  /\ \A r \in Requests :
       /\ request[r].pc \in {"new", "staging", "publishing"} => task[r] = "none"
       /\ request[r].pc \in {"reserving", "resolving"} => task[r] # "none"
       /\ request[r].pc = "notifying" => task[r] = "created"
       /\ task[r] \in {"locked", "verified"} <=> lock = r

\* Who has a row may have heard so or not; a key that is going to be deleted, or
\* written late, belongs to a request that is over, has no row and gets none.
SourcesKept ==
  /\ ReservedSourceExists
  /\ \A r \in Requests :
       /\ r \in rows => task[r] \in {"created", "error"}
       /\ task[r] = "created" => r \in rows
       /\ task[r] = "verified" => r \in objects
       /\ r \in doomed \cup copying =>
            /\ r \notin rows /\ request[r].pc = "done"
            /\ task[r] \in Resolved \cup {"none"}

\* The idempotency rows and the documents name each other, and a reservation
\* under the lock has found no idempotency row.
KeysRecorded ==
  /\ \A k \in Keys : idem[k] # None => idem[k] \in rows /\ request[idem[k]].key = k
  /\ \A r \in rows : request[r].key # None => idem[request[r].key] = r
  /\ \A r \in Requests :
       /\ task[r] \in {"locked", "verified"} => Existing(r) = None
       /\ task[r] = "replayed" =>
            Existing(r) # None /\ request[Existing(r)].print = request[r].print

\* Two documents differ in content, a refused duplicate has met another key's
\* document, and an answer is the document the key stands for.
AnswersKept ==
  /\ \A r, q \in rows : request[r].print[1] = request[q].print[1] => r = q
  /\ \A r \in Requests :
       /\ task[r] = "duplicate" =>
            \E q \in rows : /\ request[q].print[1] = request[r].print[1]
                            /\ request[r].key # None => request[q].key # request[r].key
       /\ request[r].outcome = "duplicate" => task[r] = "duplicate"
       /\ request[r].outcome = "accepted" =>
            /\ request[r].result \in rows
            /\ request[request[r].result].print = request[r].print
            /\ request[r].key # None => request[r].result = idem[request[r].key]

\* What was fed to the validator is taken, queued or pending, in this order, and
\* the end mark is the last of it.
InOrder(s) ==
  /\ s.got + Len(s.queue) + Len(s.pending) = s.fed + (IF s.file = "ended" THEN 1 ELSE 0)
  /\ \A i \in 1 .. Len(s.queue) :
       s.queue[i] = "end" => i = Len(s.queue) /\ s.pending = <<>> /\ s.file = "ended"
  /\ \A i \in 1 .. Len(s.pending) :
       s.pending[i] = "end" => i = Len(s.pending) /\ s.file = "ended"
  /\ s.file = "ended" =>
       IF s.pending # <<>> THEN s.pending[Len(s.pending)] = "end"
       ELSE s.queue # <<>> /\ s.queue[Len(s.queue)] = "end"

StagedInOrder(s) ==
  /\ s.at \in {"body", "receipt"} => s.pending = <<>>
  /\ s.at = "sending" => s.pending # <<>>
  /\ s.at # "abort" => (s.file = "absent" <=> s.upload = "none")
  /\ s.upload = "none" => s.queue = <<>> /\ s.fed = 0 /\ s.got = 0
  /\ s.upload = "running" => s.at # "abort" /\ InOrder(s)
  /\ s.upload = "cancelling" => s.at = "abort"
  /\ s.upload = "stored" => s.file = "ended" /\ s.got = s.fed /\ s.pending = <<>>

StagingOne(s) == s \in Staging /\ Len(s.queue) <= QueueSize /\ StagedInOrder(s)

StagingOK ==
  /\ staging \in [Requests -> Staging]
  /\ \A r \in Requests : StagingOne(staging[r])

\* What the reservations are about, and the staging beside it.
ReservationInv == DataOK /\ TasksMatch /\ SourcesKept /\ KeysRecorded /\ AnswersKept

IInv == ReservationInv /\ StagingOK

-----------------------------------------------------------------------------
(* The staging: each step on the state of one request.                      *)

LEMMA NotStagedOK == StagingOne(NotStaged)
<1>1. <<>> \in Seq({"piece", "end"}) /\ Len(<<>>) = 0
  OBVIOUS
<1> QED
  BY <1>1 DEF StagingOne, Staging, NotStaged, StagedInOrder, FilePart

\* A step replaces the staging of one request by another one.
LEMMA BecomesOK ==
  ASSUME StagingOK, NEW r \in Requests, NEW v, StagingOne(v), Becomes(r, v)
  PROVE  StagingOK'
<1>1. staging' \in [Requests -> Staging]
  BY DEF StagingOK, StagingOne, Becomes
<1>2. \A q \in Requests : staging'[q] = IF q = r THEN v ELSE staging[q]
  BY DEF StagingOK, Becomes
<1> QED
  BY <1>1, <1>2 DEF StagingOK

\* What the queue and the pending items are taken apart into.
LEMMA FirstOf ==
  ASSUME NEW q \in Seq({"piece", "end"}), q # <<>>
  PROVE  /\ Len(q) \in Nat /\ Len(q) > 0
         /\ Head(q) = q[1] /\ Head(q) \in {"piece", "end"}
         /\ Tail(q) \in Seq({"piece", "end"})
         /\ Len(Tail(q)) = Len(q) - 1
         /\ \A i \in 1 .. Len(q) - 1 : Tail(q)[i] = q[i + 1]
         /\ Tail(q) = <<>> <=> Len(q) = 1
<1>1. Len(q) \in Nat /\ Len(q) > 0
  BY EmptySeq, LenProperties
<1>2. Head(q) = q[1] /\ Head(q) \in {"piece", "end"} /\ Tail(q) \in Seq({"piece", "end"})
  BY <1>1
<1>3. Len(Tail(q)) = Len(q) - 1 /\ \A i \in 1 .. Len(q) - 1 : Tail(q)[i] = q[i + 1]
  BY <1>1
<1>4. Tail(q) = <<>> <=> Len(Tail(q)) = 0
  BY <1>2, EmptySeq
<1> QED
  BY <1>1, <1>2, <1>3, <1>4

\* The pieces of a slice, with the end mark after them or without.
Pieces(n, ends) == [i \in 1 .. n |-> "piece"] \o (IF ends THEN <<"end">> ELSE <<>>)

LEMMA PiecesOf ==
  ASSUME NEW n \in Nat, NEW ends \in BOOLEAN
  PROVE  /\ Pieces(n, ends) \in Seq({"piece", "end"})
         /\ Len(Pieces(n, ends)) = n + (IF ends THEN 1 ELSE 0)
         /\ \A i \in 1 .. Len(Pieces(n, ends)) :
              Pieces(n, ends)[i] = IF i <= n THEN "piece" ELSE "end"
         /\ n = 0 /\ ~ends => Pieces(n, ends) = <<>>
<1> DEFINE a == [i \in 1 .. n |-> "piece"]
           b == IF ends THEN <<"end">> ELSE <<>>
<1>1. a \in Seq({"piece", "end"}) /\ Len(a) = n /\ \A i \in 1 .. n : a[i] = "piece"
  OBVIOUS
<1>2. b \in Seq({"piece", "end"}) /\ Len(b) = (IF ends THEN 1 ELSE 0) /\ (ends => b[1] = "end")
  <2>1. CASE ends
    <3>1. b = <<"end">>
      BY <2>1
    <3> HIDE DEF b
    <3> QED
      BY <2>1, <3>1
  <2>2. CASE ~ends
    <3>1. b = <<>>
      BY <2>2
    <3> HIDE DEF b
    <3> QED
      BY <2>2, <3>1
  <2> QED
    BY <2>1, <2>2
<1>3. Pieces(n, ends) = a \o b
  BY DEF Pieces
<1> HIDE DEF a, b
<1> QED
  BY <1>1, <1>2, <1>3

\* The slice is counted when it is pending.
LEMMA StepSlice ==
  ASSUME StagingOK, NEW r \in Requests, NEW file \in FilePart, NEW n \in 0 .. MaxPieces,
         Slice(r, file, n)
  PROVE  StagingOK'
<1> DEFINE s == staging[r]
           ends == file = "ended" /\ s.file # "ended"
           p == Pieces(n, ends)
           v == [s EXCEPT !.at = IF n > 0 \/ ends THEN "sending" ELSE @,
                          !.file = file, !.fed = @ + n,
                          !.upload = IF s.file = "absent" /\ file # "absent"
                                     THEN "running" ELSE @,
                          !.pending = p]
<1>1. /\ s \in Staging /\ Len(s.queue) <= QueueSize /\ StagedInOrder(s)
      /\ s.at = "body" /\ file \in Later(s.file) /\ s.fed + n <= MaxPieces
      /\ n > 0 => s.file # "ended" /\ file # "absent"
      /\ file # s.file \/ n > 0
      /\ Becomes(r, v)
  BY DEF Slice, StagingOK, StagingOne, Pieces
<1>a. ends \in BOOLEAN /\ (ends <=> file = "ended" /\ s.file # "ended") /\ n \in Nat
  OBVIOUS
<1> HIDE DEF ends
<1>2. /\ p \in Seq({"piece", "end"})
      /\ Len(p) = n + (IF ends THEN 1 ELSE 0)
      /\ \A i \in 1 .. Len(p) : p[i] = IF i <= n THEN "piece" ELSE "end"
      /\ n = 0 /\ ~ends => p = <<>>
  BY <1>a, PiecesOf
<1> HIDE DEF p
<1>b. /\ s.at \in {"body", "sending", "receipt", "abort"} /\ s.file \in FilePart
      /\ s.queue \in Seq({"piece", "end"})
      /\ s.upload \in {"none", "running", "cancelling", "stored", "failed"}
      /\ s.fed \in 0 .. MaxPieces /\ s.got \in 0 .. MaxPieces /\ s.fed \in Nat /\ s.got \in Nat
  BY <1>1 DEF Staging
<1>4. /\ v.at = (IF n > 0 \/ ends THEN "sending" ELSE s.at)
      /\ v.file = file /\ v.fed = s.fed + n /\ v.pending = p /\ v.queue = s.queue
      /\ v.upload = (IF s.file = "absent" /\ file # "absent" THEN "running" ELSE s.upload)
      /\ v.got = s.got
  BY <1>1 DEF Staging
<1>3. v \in Staging
  <2>1. s.fed + n \in 0 .. MaxPieces
    BY <1>1, <1>b
  <2>2. /\ (IF n > 0 \/ ends THEN "sending" ELSE s.at) \in {"body", "sending", "receipt", "abort"}
        /\ (IF s.file = "absent" /\ file # "absent" THEN "running" ELSE s.upload)
             \in {"none", "running", "cancelling", "stored", "failed"}
    BY <1>b
  <2> QED
    BY <2>1, <2>2, <1>1, <1>2, <1>b DEF Staging
<1> HIDE DEF v
<1>c. s.pending = <<>> /\ Len(s.pending) = 0
  BY <1>1 DEF StagedInOrder
<1>d. p = <<>> <=> n = 0 /\ ~ends
  <2>1. Len(<<>>) = 0
    OBVIOUS
  <2> QED
    BY <2>1, <1>2, <1>a
<1>5. ASSUME v.upload = "running" PROVE InOrder(v)
  <2>1. s.upload = "running" \/ (s.upload = "none" /\ s.file = "absent")
    BY <1>1, <1>4, <1>5 DEF StagedInOrder
  <2>4. /\ s.got + Len(s.queue) = s.fed + (IF s.file = "ended" THEN 1 ELSE 0)
        /\ \A i \in 1 .. Len(s.queue) :
             s.queue[i] = "end" => i = Len(s.queue) /\ s.file = "ended"
        /\ s.file = "ended" => s.queue # <<>> /\ s.queue[Len(s.queue)] = "end"
    <3>1. CASE s.upload = "none"
      <4>1. s.file = "absent" /\ s.queue = <<>> /\ s.fed = 0 /\ s.got = 0
        BY <3>1, <2>1, <1>1 DEF StagedInOrder
      <4>2. Len(<<>>) = 0
        OBVIOUS
      <4> QED
        BY <4>1, <4>2
    <3>2. CASE s.upload = "running"
      BY <3>2, <1>1, <1>b, <1>c DEF StagedInOrder, InOrder
    <3> QED
      BY <2>1, <3>1, <3>2
  <2>5. s.file = "ended" => n = 0 /\ ~ends /\ file = "ended"
    BY <1>1, <1>a DEF Later
  <2>6. s.file # "ended" => (ends <=> file = "ended")
    BY <1>a
  <2>7. s.got + Len(s.queue) + Len(p) = s.fed + n + (IF file = "ended" THEN 1 ELSE 0)
    <3>1. Len(s.queue) \in Nat
      BY <1>b
    <3>2. CASE s.file = "ended"
      BY <3>1, <3>2, <2>4, <2>5, <1>2, <1>b
    <3>3. CASE s.file # "ended" /\ file = "ended"
      <4>1. s.got + Len(s.queue) = s.fed /\ Len(p) = n + 1
        BY <3>3, <2>4, <2>6, <1>2, <1>b
      <4> QED
        <5>1. s.got \in Nat /\ s.fed \in Nat /\ n \in Nat
          BY <1>a, <1>b
        <5>2. s.got + Len(s.queue) + Len(p) = s.fed + n + 1
          <6>1. s.got + Len(s.queue) + Len(p) = s.fed + (n + 1)
            BY <4>1
          <6>2. s.fed + (n + 1) = s.fed + n + 1
            BY <5>1
          <6> QED
            BY <6>1, <6>2
        <5> QED
          BY <5>2, <3>3
    <3>4. CASE s.file # "ended" /\ file # "ended"
      BY <3>1, <3>4, <2>4, <2>6, <1>2, <1>b, <1>a
    <3> QED
      BY <3>2, <3>3, <3>4
  <2>8. \A i \in 1 .. Len(s.queue) :
          s.queue[i] = "end" => i = Len(s.queue) /\ p = <<>> /\ file = "ended"
    BY <2>4, <2>5, <1>d
  <2>9. \A i \in 1 .. Len(p) : p[i] = "end" => i = Len(p) /\ file = "ended"
    BY <1>2, <1>a
  <2>10. file = "ended" =>
           IF p # <<>> THEN p[Len(p)] = "end"
           ELSE s.queue # <<>> /\ s.queue[Len(s.queue)] = "end"
    <3>1. ends => p # <<>> /\ p[Len(p)] = "end"
      BY <1>2, <1>d, <1>a
    <3>2. file = "ended" /\ ~ends => s.file = "ended"
      BY <1>a
    <3> QED
      BY <3>1, <3>2, <2>4, <2>5, <1>d
  <2> QED
    BY <2>7, <2>8, <2>9, <2>10, <1>4 DEF InOrder
<1>6. StagedInOrder(v)
  <2>1. v.at \in {"body", "receipt"} => v.pending = <<>>
    BY <1>1, <1>4, <1>d
  <2>2. v.at = "sending" => v.pending # <<>>
    BY <1>1, <1>4, <1>d
  <2>3. v.at # "abort" => (v.file = "absent" <=> v.upload = "none")
    <3>1. s.file = "absent" <=> s.upload = "none"
      BY <1>1 DEF StagedInOrder
    <3>2. s.file # "absent" => file # "absent"
      BY <1>1, <1>b DEF Later, FilePart
    <3> QED
      BY <3>1, <3>2, <1>4
  <2>4. v.upload = "none" => v.queue = <<>> /\ v.fed = 0 /\ v.got = 0
    BY <1>1, <1>4, <1>b, <1>a DEF StagedInOrder, Later
  <2>5. v.upload = "running" => v.at # "abort" /\ InOrder(v)
    BY <1>1, <1>4, <1>5
  <2>6. v.upload # "cancelling"
    BY <1>1, <1>4 DEF StagedInOrder
  <2>7. v.upload = "stored" => v.file = "ended" /\ v.got = v.fed /\ v.pending = <<>>
    BY <1>1, <1>4, <1>a, <1>b, <1>d DEF StagedInOrder, Later
  <2> QED
    BY <2>1, <2>2, <2>3, <2>4, <2>5, <2>6, <2>7 DEF StagedInOrder
<1>7. StagingOne(v)
  BY <1>1, <1>3, <1>4, <1>6 DEF StagingOne
<1> QED
  BY <1>1, <1>7, BecomesOK

\* The first of the pending items is the last of the queue.
LEMMA StepSend ==
  ASSUME StagingOK, NEW r \in Requests, Send(r)
  PROVE  StagingOK'
<1> DEFINE s == staging[r]
           v == [s EXCEPT !.at = IF Len(s.pending) = 1 THEN "body" ELSE @,
                          !.queue = Append(@, Head(s.pending)),
                          !.pending = Tail(@)]
<1>1. /\ s \in Staging /\ Len(s.queue) <= QueueSize /\ StagedInOrder(s)
      /\ s.at = "sending" /\ s.upload = "running" /\ Len(s.queue) < QueueSize
      /\ Becomes(r, v)
  BY DEF Send, StagingOK, StagingOne
<1>2. /\ s.file \in FilePart
      /\ s.queue \in Seq({"piece", "end"}) /\ s.pending \in Seq({"piece", "end"})
      /\ s.fed \in 0 .. MaxPieces /\ s.got \in 0 .. MaxPieces /\ s.fed \in Nat /\ s.got \in Nat
  BY <1>1 DEF Staging
<1>3. InOrder(s) /\ s.pending # <<>>
  BY <1>1 DEF StagedInOrder
<1>4. /\ Len(s.pending) \in Nat /\ Len(s.pending) > 0
      /\ Head(s.pending) = s.pending[1] /\ Head(s.pending) \in {"piece", "end"}
      /\ Tail(s.pending) \in Seq({"piece", "end"})
      /\ Len(Tail(s.pending)) = Len(s.pending) - 1
      /\ \A i \in 1 .. Len(s.pending) - 1 : Tail(s.pending)[i] = s.pending[i + 1]
      /\ Tail(s.pending) = <<>> <=> Len(s.pending) = 1
  <2>1. s.pending \in Seq({"piece", "end"}) /\ s.pending # <<>>
    BY <1>2, <1>3
  <2> QED
    BY <2>1, FirstOf
<1>5. /\ Len(s.queue) \in Nat
      /\ Append(s.queue, Head(s.pending)) \in Seq({"piece", "end"})
      /\ Len(Append(s.queue, Head(s.pending))) = Len(s.queue) + 1
      /\ \A i \in 1 .. Len(s.queue) : Append(s.queue, Head(s.pending))[i] = s.queue[i]
      /\ Append(s.queue, Head(s.pending))[Len(s.queue) + 1] = s.pending[1]
  BY <1>2, <1>4, AppendProperties, LenProperties
<1>6. /\ v.at = (IF Len(s.pending) = 1 THEN "body" ELSE "sending")
      /\ v.queue = Append(s.queue, Head(s.pending)) /\ v.pending = Tail(s.pending)
      /\ v.file = s.file /\ v.upload = "running" /\ v.fed = s.fed /\ v.got = s.got
  BY <1>1 DEF Staging
<1>7. v \in Staging
  BY <1>1, <1>4, <1>5 DEF Staging
<1> HIDE DEF v
<1>8. InOrder(v)
  <2>1. v.got + Len(v.queue) + Len(v.pending) = v.fed + (IF v.file = "ended" THEN 1 ELSE 0)
    <3>1. Len(v.queue) = Len(s.queue) + 1 /\ Len(s.pending) = Len(v.pending) + 1
      BY <1>4, <1>5, <1>6
    <3>2. s.got \in Nat /\ Len(s.queue) \in Nat /\ Len(v.pending) \in Nat
      BY <3>1, <1>2, <1>4, <1>5, <1>6
    <3>3. v.got + Len(v.queue) + Len(v.pending) = s.got + Len(s.queue) + Len(s.pending)
      <4> DEFINE a == s.got
                 b == Len(s.queue)
                 c == Len(v.pending)
      <4>1. a \in Nat /\ b \in Nat /\ c \in Nat
        BY <3>2
      <4>2. v.got = a /\ Len(v.queue) = b + 1 /\ Len(s.pending) = c + 1
        BY <3>1, <1>6
      <4> HIDE DEF a, b, c
      <4>3. a + (b + 1) + c = a + b + (c + 1)
        BY <4>1
      <4> QED
        BY <4>2, <4>3 DEF a, b, c
    <3> QED
      BY <3>3, <1>3, <1>6 DEF InOrder
  <2>2. ASSUME NEW i \in 1 .. Len(v.queue), v.queue[i] = "end"
        PROVE  i = Len(v.queue) /\ v.pending = <<>> /\ v.file = "ended"
    <3>1. CASE i \in 1 .. Len(s.queue)
      BY <3>1, <2>2, <1>3, <1>5, <1>6 DEF InOrder
    <3>2. CASE i = Len(s.queue) + 1
      <4>1. s.pending[1] = "end"
        BY <3>2, <2>2, <1>5, <1>6
      <4>2. 1 = Len(s.pending) /\ s.file = "ended"
        BY <4>1, <1>3, <1>4 DEF InOrder
      <4> QED
        BY <4>2, <3>2, <1>4, <1>5, <1>6
    <3> QED
      BY <3>1, <3>2, <1>4, <1>5, <1>6
  <2>3. ASSUME NEW i \in 1 .. Len(v.pending), v.pending[i] = "end"
        PROVE  i = Len(v.pending) /\ v.file = "ended"
    <3>1. i + 1 \in 1 .. Len(s.pending) /\ s.pending[i + 1] = "end"
      BY <2>3, <1>4, <1>6
    <3> QED
      BY <3>1, <1>3, <1>4, <1>6 DEF InOrder
  <2>4. ASSUME v.file = "ended"
        PROVE  IF v.pending # <<>> THEN v.pending[Len(v.pending)] = "end"
               ELSE v.queue # <<>> /\ v.queue[Len(v.queue)] = "end"
    <3>1. s.pending[Len(s.pending)] = "end"
      BY <2>4, <1>3, <1>6 DEF InOrder
    <3>2. CASE Len(s.pending) = 1
      <4>1. v.pending = <<>> /\ v.queue[Len(v.queue)] = "end" /\ Len(v.queue) > 0
        BY <3>1, <3>2, <1>4, <1>5, <1>6
      <4>2. Len(<<>>) = 0
        OBVIOUS
      <4> QED
        BY <4>1, <4>2
    <3>3. CASE Len(s.pending) # 1
      <4>1. Len(s.pending) - 1 \in 1 .. Len(s.pending) - 1
        BY <3>3, <1>4
      <4>2. Tail(s.pending)[Len(s.pending) - 1] = s.pending[(Len(s.pending) - 1) + 1]
        BY <4>1, <1>4
      <4>3. (Len(s.pending) - 1) + 1 = Len(s.pending)
        BY <1>4
      <4>4. v.pending # <<>> /\ v.pending[Len(v.pending)] = "end"
        BY <3>1, <3>3, <4>2, <4>3, <1>4, <1>6
      <4> QED
        BY <4>4
    <3> QED
      BY <3>2, <3>3
  <2> QED
    BY <2>1, <2>2, <2>3, <2>4 DEF InOrder
<1>9. StagedInOrder(v)
  BY <1>1, <1>4, <1>6, <1>8 DEF StagedInOrder
<1>10. StagingOne(v)
  BY <1>1, <1>2, <1>4, <1>5, <1>6, <1>7, <1>9 DEF StagingOne
<1> QED
  BY <1>1, <1>10, BecomesOK

\* The body has ended, an error is raised, or the upload is done with its object:
\* nothing is sent or taken.
LEMMA StepSettling ==
  ASSUME StagingOK, NEW r \in Requests,
         BodyEnds(r) \/ Abort(r) \/ \E from \in {"running", "cancelling"} : Settles(r, from)
  PROVE  StagingOK'
<1> DEFINE s == staging[r]
<1>1. s \in Staging /\ Len(s.queue) <= QueueSize /\ StagedInOrder(s)
  BY DEF StagingOK, StagingOne
<1>2. <<>> \in Seq({"piece", "end"}) /\ Len(<<>>) = 0
  OBVIOUS
<1>3. CASE BodyEnds(r)
  <2> DEFINE v == [s EXCEPT !.at = "receipt"]
  <2>1. Becomes(r, v) /\ s.at = "body" /\ s.file = "ended"
    BY <1>3 DEF BodyEnds
  <2>2. v \in Staging
    BY <1>1 DEF Staging
  <2>3. /\ v.at = "receipt" /\ v.queue = s.queue /\ v.pending = s.pending /\ v.file = s.file
        /\ v.upload = s.upload /\ v.fed = s.fed /\ v.got = s.got
    BY <1>1 DEF Staging
  <2> HIDE DEF v
  <2>4. StagedInOrder(v)
    BY <2>1, <2>3, <1>1 DEF StagedInOrder, InOrder
  <2> QED
    BY <2>1, <2>2, <2>3, <2>4, <1>1, BecomesOK DEF StagingOne
<1>4. CASE Abort(r)
  <2> DEFINE v == [s EXCEPT !.at = "abort", !.pending = <<>>,
                            !.upload = IF @ = "running" THEN "cancelling" ELSE @]
  <2>1. Becomes(r, v)
    BY <1>4 DEF Abort
  <2>2. v \in Staging
    BY <1>1, <1>2 DEF Staging
  <2>3. /\ v.at = "abort" /\ v.queue = s.queue /\ v.pending = <<>> /\ v.file = s.file
        /\ v.upload = (IF s.upload = "running" THEN "cancelling" ELSE s.upload)
        /\ v.fed = s.fed /\ v.got = s.got
    BY <1>1 DEF Staging
  <2> HIDE DEF v
  <2>4. StagedInOrder(v)
    BY <2>3, <1>1 DEF StagedInOrder
  <2> QED
    BY <2>1, <2>2, <2>3, <2>4, <1>1, BecomesOK DEF StagingOne
<1>5. CASE \E from \in {"running", "cancelling"} : Settles(r, from)
  <2> DEFINE v == [s EXCEPT !.upload = "failed", !.queue = <<>>]
  <2>1. Becomes(r, v) /\ s.upload \in {"running", "cancelling"}
    BY <1>5 DEF Settles
  <2>2. v \in Staging
    BY <1>1, <1>2 DEF Staging
  <2>3. /\ v.at = s.at /\ v.queue = <<>> /\ v.pending = s.pending /\ v.file = s.file
        /\ v.upload = "failed" /\ v.fed = s.fed /\ v.got = s.got
    BY <1>1 DEF Staging
  <2> HIDE DEF v
  <2>4. StagedInOrder(v)
    BY <2>1, <2>3, <1>1 DEF StagedInOrder
  <2>5. Len(v.queue) <= QueueSize
    BY <2>3, <1>2
  <2> QED
    BY <2>1, <2>2, <2>4, <2>5, BecomesOK DEF StagingOne
<1> QED
  BY <1>3, <1>4, <1>5

\* What is taken was first in the queue, and the end mark is taken when everything
\* that was fed is.
LEMMA StepTake ==
  ASSUME StagingOK, NEW r \in Requests, Take(r) \/ StreamEnds(r)
  PROVE  StagingOK'
<1> DEFINE s == staging[r]
           e == Head(s.queue) = "end"
           v == IF e THEN [s EXCEPT !.queue = Tail(@), !.upload = "stored"]
                ELSE [s EXCEPT !.queue = Tail(@), !.got = @ + 1]
<1>1. /\ s \in Staging /\ Len(s.queue) <= QueueSize /\ StagedInOrder(s)
      /\ s.upload = "running" /\ s.queue # <<>> /\ Head(s.queue) \in {"piece", "end"}
      /\ Becomes(r, v)
  BY DEF Take, StreamEnds, StagingOK, StagingOne
<1>2. /\ s.file \in FilePart
      /\ s.queue \in Seq({"piece", "end"}) /\ s.pending \in Seq({"piece", "end"})
      /\ s.fed \in 0 .. MaxPieces /\ s.got \in 0 .. MaxPieces /\ s.fed \in Nat /\ s.got \in Nat
  BY <1>1 DEF Staging
<1>3. InOrder(s)
  BY <1>1 DEF StagedInOrder
<1>4. /\ Len(s.queue) \in Nat /\ Len(s.queue) > 0 /\ Len(s.pending) \in Nat
      /\ Head(s.queue) = s.queue[1]
      /\ Tail(s.queue) \in Seq({"piece", "end"})
      /\ Len(Tail(s.queue)) = Len(s.queue) - 1
      /\ \A i \in 1 .. Len(s.queue) - 1 : Tail(s.queue)[i] = s.queue[i + 1]
      /\ Tail(s.queue) = <<>> <=> Len(s.queue) = 1
      /\ s.pending = <<>> <=> Len(s.pending) = 0
  <2>1. s.queue \in Seq({"piece", "end"}) /\ s.queue # <<>>
    BY <1>1, <1>2
  <2>2. Len(s.pending) \in Nat /\ (s.pending = <<>> <=> Len(s.pending) = 0)
    BY <1>2, EmptySeq, LenProperties
  <2> QED
    BY <2>1, <2>2, FirstOf
<1>7. /\ s.got \in Nat /\ s.fed \in Nat /\ Len(s.queue) \in Nat /\ Len(s.pending) \in Nat
      /\ s.got + Len(s.queue) + Len(s.pending) = s.fed + (IF s.file = "ended" THEN 1 ELSE 0)
  BY <1>2, <1>3, <1>4 DEF InOrder
<1>8. Len(Tail(s.queue)) <= QueueSize
  BY <1>1, <1>4
<1>5. CASE e
  <2>1. Len(s.queue) = 1 /\ s.pending = <<>> /\ s.file = "ended"
    BY <1>5, <1>3, <1>4 DEF InOrder
  <2>2. s.got = s.fed
    BY <2>1, <1>2, <1>3, <1>4 DEF InOrder
  <2>3. v = [s EXCEPT !.queue = Tail(@), !.upload = "stored"]
    BY <1>5
  <2>4. /\ v.at = s.at /\ v.queue = Tail(s.queue) /\ v.pending = s.pending /\ v.file = s.file
        /\ v.upload = "stored" /\ v.fed = s.fed /\ v.got = s.got
    BY <1>1, <2>3 DEF Staging
  <2>5. v \in Staging
    BY <1>1, <1>4, <2>3 DEF Staging
  <2> HIDE DEF v
  <2>6. StagedInOrder(v)
    BY <2>1, <2>2, <2>4, <1>1 DEF StagedInOrder
  <2>7. StagingOne(v)
    BY <2>4, <2>5, <2>6, <1>8 DEF StagingOne
  <2> QED
    BY <2>7, <1>1, BecomesOK
<1>6. CASE ~e
  <2>0. Head(s.queue) = "piece"
    BY <1>1, <1>6
  <2>1. s.got < s.fed
    <3>1. CASE s.file = "ended"
      <4>1. Len(s.pending) > 0 \/ Len(s.queue) > 1
        <5>1. s.pending = <<>> => s.queue[Len(s.queue)] = "end"
          BY <3>1, <1>3 DEF InOrder
        <5>2. s.queue[1] # "end"
          BY <2>0, <1>4
        <5> QED
          BY <5>1, <5>2, <1>4
      <4>2. s.got + Len(s.queue) + Len(s.pending) = s.fed + 1
        BY <3>1, <1>7
      <4>3. Len(s.queue) > 0
        BY <1>4
      <4>4. \A a, b, c, d \in Nat : a + b + c = d + 1 /\ b > 0 /\ (c > 0 \/ b > 1) => a < d
        OBVIOUS
      <4> QED
        BY <4>1, <4>2, <4>3, <4>4, <1>7
    <3>2. CASE s.file # "ended"
      <4>1. s.got + Len(s.queue) + Len(s.pending) = s.fed
        BY <3>2, <1>7
      <4>2. Len(s.queue) > 0
        BY <1>4
      <4> QED
        BY <4>1, <4>2, <1>7
    <3> QED
      BY <3>1, <3>2
  <2>2. s.got + 1 \in 0 .. MaxPieces
    BY <2>1, <1>2
  <2>3. v = [s EXCEPT !.queue = Tail(@), !.got = @ + 1]
    BY <1>6
  <2>4. /\ v.at = s.at /\ v.queue = Tail(s.queue) /\ v.pending = s.pending /\ v.file = s.file
        /\ v.upload = "running" /\ v.fed = s.fed /\ v.got = s.got + 1
    BY <1>1, <2>3 DEF Staging
  <2>5. v \in Staging
    BY <1>1, <1>4, <2>2, <2>3 DEF Staging
  <2> HIDE DEF v
  <2>6. InOrder(v)
    <3>1. v.got + Len(v.queue) + Len(v.pending) = v.fed + (IF v.file = "ended" THEN 1 ELSE 0)
      <4>1. v.got + Len(v.queue) = s.got + Len(s.queue)
        BY <2>4, <1>2, <1>4
      <4> QED
        BY <4>1, <2>4, <1>2, <1>3, <1>4 DEF InOrder
    <3>2. ASSUME NEW i \in 1 .. Len(v.queue), v.queue[i] = "end"
          PROVE  i = Len(v.queue) /\ v.pending = <<>> /\ v.file = "ended"
      <4>1. i + 1 \in 1 .. Len(s.queue) /\ s.queue[i + 1] = "end"
        BY <3>2, <2>4, <1>4
      <4> QED
        BY <4>1, <2>4, <1>3, <1>4 DEF InOrder
    <3>3. \A i \in 1 .. Len(v.pending) : v.pending[i] = "end" => i = Len(v.pending) /\ v.file = "ended"
      BY <2>4, <1>3 DEF InOrder
    <3>4. ASSUME v.file = "ended"
          PROVE  IF v.pending # <<>> THEN v.pending[Len(v.pending)] = "end"
                 ELSE v.queue # <<>> /\ v.queue[Len(v.queue)] = "end"
      <4>1. CASE s.pending # <<>>
        BY <3>4, <4>1, <2>4, <1>3 DEF InOrder
      <4>2. CASE s.pending = <<>>
        <5>1. s.queue[Len(s.queue)] = "end"
          BY <3>4, <4>2, <2>4, <1>3 DEF InOrder
        <5>2. Len(s.queue) # 1
          BY <5>1, <2>0, <1>4
        <5> QED
          BY <5>1, <5>2, <4>2, <2>4, <1>4
      <4> QED
        BY <4>1, <4>2
    <3> QED
      BY <3>1, <3>2, <3>3, <3>4 DEF InOrder
  <2>7. StagedInOrder(v)
    BY <2>4, <2>6, <1>1 DEF StagedInOrder
  <2>8. StagingOne(v)
    BY <2>4, <2>5, <2>7, <1>8 DEF StagingOne
  <2> QED
    BY <2>8, <1>1, BecomesOK
<1> QED
  BY <1>5, <1>6

-----------------------------------------------------------------------------
(* The request and its reservation.                                         *)

\* What a step makes of one request, when it leaves the database and the tasks
\* alone: its key and fingerprint stay, its place matches its task, a refusal or
\* an answer is what the task found, and only a request that is over and has no
\* row gives its object up.
LEMMA StepRequest ==
  ASSUME ReservationInv, NEW r \in Requests, NEW v \in Request, Put(r, v),
         v.key = request[r].key, v.print = request[r].print,
         v.pc \in {"new", "staging", "publishing"} => task[r] = "none",
         v.pc \in {"reserving", "resolving"} => task[r] # "none",
         v.pc = "notifying" => task[r] = "created",
         request[r].pc # "done" \/ v.pc = "done",
         v.outcome = "duplicate" => task[r] = "duplicate",
         v.outcome = "accepted" =>
           /\ v.result \in rows /\ request[v.result].print = v.print
           /\ v.key # None => v.result = idem[v.key],
         UNCHANGED <<database, objects, task>>, temps' \subseteq Requests,
         doomed' \subseteq doomed \cup {r}, copying' \subseteq copying \cup {r},
         r \in doomed' \cup copying' =>
           \/ r \in doomed \cup copying
           \/ r \notin rows /\ v.pc = "done" /\ task[r] \in Resolved \cup {"none"}
  PROVE  ReservationInv'
<1> USE DEF ReservationInv, database
<1>1. /\ request' \in [Requests -> Request]
      /\ \A q \in Requests : request'[q] = IF q = r THEN v ELSE request[q]
  BY DEF Put, DataOK
<1>2. \A q \in Requests : request'[q].key = request[q].key /\ request'[q].print = request[q].print
  BY <1>1
<1>3. rows \subseteq Requests /\ \A q \in Requests : q # None
  BY DEF DataOK
<1>4. \A q \in Requests : Existing(q)' = Existing(q)
  BY <1>2 DEF Existing
<1>5. DataOK'
  BY <1>1 DEF DataOK
<1>6. TasksMatch'
  BY <1>1 DEF TasksMatch
<1>7. SourcesKept'
  BY <1>1 DEF SourcesKept, ReservedSourceExists
<1>8. KeysRecorded'
  <2>1. \A k \in Keys : idem[k] # None => idem[k] \in Requests
    BY DEF DataOK
  <2>2. \A q \in Requests : Existing(q) # None => Existing(q) \in Requests
    BY <2>1 DEF Existing, DataOK, Request
  <2>3. /\ \A k \in Keys : idem[k] # None => idem[k] \in rows /\ request'[idem[k]].key = k
        /\ \A q \in rows : request'[q].key # None => idem[request'[q].key] = q
    BY <1>2, <1>3, <2>1 DEF KeysRecorded
  <2>4. \A q \in Requests :
          /\ task[q] \in {"locked", "verified"} => Existing(q) = None
          /\ task[q] = "replayed" =>
               Existing(q) # None /\ request'[Existing(q)].print = request'[q].print
    BY <1>2, <2>2 DEF KeysRecorded
  <2> QED
    BY <1>4, <2>3, <2>4 DEF KeysRecorded
<1>9. AnswersKept'
  <2>1. \A p, q \in rows : request'[p].print[1] = request'[q].print[1] => p = q
    BY <1>2, <1>3 DEF AnswersKept
  <2>2. \A q \in Requests : task[q] = "duplicate" =>
          \E p \in rows : /\ request'[p].print[1] = request'[q].print[1]
                          /\ request'[q].key # None => request'[p].key # request'[q].key
    BY <1>2, <1>3 DEF AnswersKept
  <2>3. \A q \in Requests : request'[q].outcome = "duplicate" => task[q] = "duplicate"
    BY <1>1 DEF AnswersKept
  <2>4. \A q \in Requests : request'[q].outcome = "accepted" =>
          /\ request'[q].result \in rows
          /\ request'[request'[q].result].print = request'[q].print
          /\ request'[q].key # None => request'[q].result = idem[request'[q].key]
    BY <1>1, <1>2, <1>3 DEF AnswersKept
  <2> QED
    BY <2>1, <2>2, <2>3, <2>4 DEF AnswersKept
<1> QED
  BY <1>5, <1>6, <1>7, <1>8, <1>9

\* What a step makes of one reservation that neither held a resolution nor
\* inserts: the lock follows it, and its outcome is what it met.
LEMMA StepTask ==
  ASSUME ReservationInv, NEW r \in Requests, NEW t \in Task, Resolve(r, t),
         task[r] \in {"running", "locked", "verified"},
         t \notin {"none", "running", "created"},
         lock' \in {lock, r, None}, lock' = r <=> t \in {"locked", "verified"},
         lock' # lock => lock \in {r, None},
         t = "verified" => r \in objects,
         t \in {"locked", "verified"} => Existing(r) = None,
         t = "replayed" => Existing(r) # None /\ request[Existing(r)].print = request[r].print,
         t = "duplicate" =>
           \E q \in rows : /\ request[q].print[1] = request[r].print[1]
                           /\ request[r].key # None => request[q].key # request[r].key,
         UNCHANGED <<kb, rows, idem, store, request>>
  PROVE  ReservationInv'
<1> USE DEF ReservationInv, store
<1>1. /\ task' \in [Requests -> Task]
      /\ \A q \in Requests : task'[q] = IF q = r THEN t ELSE task[q]
  BY DEF Resolve, DataOK
<1>2. \A q \in Requests : Existing(q)' = Existing(q)
  BY DEF Existing
<1>3. r # None
  OBVIOUS
<1>4. DataOK'
  BY <1>1 DEF DataOK
<1>5. TasksMatch'
  BY <1>1, <1>3 DEF TasksMatch
<1>6. SourcesKept'
  BY <1>1 DEF SourcesKept, ReservedSourceExists, Resolved, Refused
<1>7. KeysRecorded'
  BY <1>1, <1>2 DEF KeysRecorded
<1>8. AnswersKept'
  BY <1>1 DEF AnswersKept
<1> QED
  BY <1>4, <1>5, <1>6, <1>7, <1>8

\* What a step of the object store, the staging or the reconciler may do: no object
\* of a row, or of a reservation that has verified it, goes, and what is to go
\* belongs to a request that is over and has no row.
LEMMA StepStore ==
  ASSUME ReservationInv, UNCHANGED <<database, request, task>>,
         temps' \subseteq Requests, objects' \subseteq Requests, copying' \subseteq copying,
         \A q \in objects \ objects' : q \notin rows /\ task[q] # "verified",
         doomed' \subseteq Requests,
         \A q \in doomed' : \/ q \in doomed \cup copying
                            \/ /\ q \notin rows /\ request[q].pc = "done"
                               /\ task[q] \in Resolved \cup {"none"}
  PROVE  ReservationInv'
<1> USE DEF ReservationInv, database
<1>1. DataOK'
  BY DEF DataOK
<1>2. TasksMatch'
  BY DEF TasksMatch
<1>3. SourcesKept'
  BY DEF SourcesKept, ReservedSourceExists, DataOK
<1>4. KeysRecorded'
  BY DEF KeysRecorded, Existing
<1>5. AnswersKept'
  BY DEF AnswersKept
<1> QED
  BY <1>1, <1>2, <1>3, <1>4, <1>5

\* The fields of a request.
LEMMA RequestFields ==
  ASSUME DataOK, NEW r \in Requests
  PROVE  /\ request[r] \in Request
         /\ request[r].pc \in {"new", "staging", "publishing", "reserving", "resolving",
                               "notifying", "done"}
         /\ request[r].key \in Keys \cup {None}
         /\ task[r] \in Task
BY DEF DataOK, Request

\* A request goes on to another place.
LEMMA StepGoto ==
  ASSUME ReservationInv, NEW r \in Requests,
         NEW place \in {"staging", "publishing", "resolving", "notifying"}, Goto(r, place),
         place \in {"staging", "publishing"} => request[r].pc \in {"new", "staging", "publishing"},
         place = "resolving" => request[r].pc = "reserving",
         place = "notifying" => request[r].pc = "reserving" /\ task[r] = "created",
         UNCHANGED <<database, objects, copying, doomed, task>>, temps' \subseteq Requests
  PROVE  ReservationInv'
<1> DEFINE v == [request[r] EXCEPT !.pc = place]
<1>1. /\ v \in Request /\ v.pc = place /\ v.key = request[r].key /\ v.print = request[r].print
      /\ v.outcome = request[r].outcome /\ v.result = request[r].result
  BY RequestFields DEF ReservationInv, Request
<1>2. Put(r, v)
  BY DEF Goto
<1> HIDE DEF v
<1>3. /\ v.outcome = "duplicate" => task[r] = "duplicate"
      /\ v.outcome = "accepted" =>
           /\ v.result \in rows /\ request[v.result].print = v.print
           /\ v.key # None => v.result = idem[v.key]
  BY <1>1 DEF ReservationInv, AnswersKept
<1>4. /\ v.pc \in {"new", "staging", "publishing"} => task[r] = "none"
      /\ v.pc \in {"reserving", "resolving"} => task[r] # "none"
      /\ v.pc = "notifying" => task[r] = "created"
  BY <1>1 DEF ReservationInv, TasksMatch
<1>5. request[r].pc # "done" /\ doomed' = doomed /\ copying' = copying
  BY <1>1
<1> QED
  BY <1>1, <1>2, <1>3, <1>4, <1>5, StepRequest

\* A request ends without an answer that names a document; it gives its object up
\* only when its task is known to have no row.
LEMMA StepEnds ==
  ASSUME ReservationInv, NEW r \in Requests,
         NEW o \in {"rejected", "reused", "duplicate", "uncertain", "cancelled", "failed"},
         Ends(r, o), o = "duplicate" => task[r] = "duplicate",
         UNCHANGED <<database, objects, task>>, temps' \subseteq Requests,
         doomed' \subseteq doomed \cup {r}, copying' \subseteq copying \cup {r},
         r \in doomed' \cup copying' =>
           r \in doomed \cup copying \/ task[r] \in Refused \cup {"replayed", "none"}
  PROVE  ReservationInv'
<1> DEFINE v == [request[r] EXCEPT !.pc = "done", !.outcome = o]
<1>1. /\ v \in Request /\ v.pc = "done" /\ v.key = request[r].key
      /\ v.print = request[r].print /\ v.outcome = o
  <2>1. o \in Refused \cup {"none", "accepted", "uncertain", "cancelled", "failed", "crashed"}
    BY DEF Refused
  <2>2. request[r] \in Request
    BY RequestFields DEF ReservationInv
  <2>3. /\ v.pc = "done" /\ v.key = request[r].key
        /\ v.print = request[r].print /\ v.outcome = o
    BY <2>2 DEF Request
  <2>4. v \in Request
    BY <2>1, <2>2 DEF Request
  <2> QED
    BY <2>3, <2>4
<1>2. Put(r, v)
  BY DEF Ends
<1> HIDE DEF v
<1>3. r \in doomed' \cup copying' =>
        \/ r \in doomed \cup copying
        \/ r \notin rows /\ v.pc = "done" /\ task[r] \in Resolved \cup {"none"}
  BY <1>1 DEF ReservationInv, SourcesKept, Resolved, Refused
<1> QED
  BY <1>1, <1>2, <1>3, StepRequest

\* A request is accepted with the document its reservation created or met.
LEMMA StepAccepts ==
  ASSUME ReservationInv, NEW r \in Requests, Accepts(r), task[r] \in {"created", "replayed"},
         UNCHANGED <<database, temps, objects, copying, task>>,
         doomed' \subseteq doomed \cup {r}, r \in doomed' => r \in doomed \/ task[r] = "replayed"
  PROVE  ReservationInv'
<1> DEFINE v == [request[r] EXCEPT !.pc = "done", !.outcome = "accepted", !.result = ResultOf(r)]
<1>1. /\ ResultOf(r) \in rows /\ request[ResultOf(r)].print = request[r].print
      /\ request[r].key # None => ResultOf(r) = idem[request[r].key]
  <2>1. CASE task[r] = "created"
    BY <2>1 DEF ResultOf, ReservationInv, SourcesKept, KeysRecorded
  <2>2. CASE task[r] = "replayed"
    <3>1. Existing(r) # None /\ request[Existing(r)].print = request[r].print
      BY <2>2 DEF ReservationInv, KeysRecorded
    <3>2. request[r].key # None /\ request[r].key \in Keys /\ Existing(r) = idem[request[r].key]
      BY <3>1, RequestFields DEF Existing, ReservationInv
    <3> QED
      BY <2>2, <3>1, <3>2 DEF ResultOf, ReservationInv, KeysRecorded
  <2> QED
    BY <2>1, <2>2
<1>2. ResultOf(r) \in Requests
  BY <1>1 DEF ReservationInv, DataOK
<1>3. /\ v \in Request /\ v.pc = "done" /\ v.key = request[r].key
      /\ v.print = request[r].print /\ v.outcome = "accepted" /\ v.result = ResultOf(r)
  BY <1>2, RequestFields DEF ReservationInv, Request
<1>4. Put(r, v)
  BY DEF Accepts
<1> HIDE DEF v
<1>5. r \in doomed' \cup copying' =>
        \/ r \in doomed \cup copying
        \/ r \notin rows /\ v.pc = "done" /\ task[r] \in Resolved \cup {"none"}
  BY <1>3 DEF ReservationInv, SourcesKept, Resolved
<1>6. temps' \subseteq Requests
  BY DEF ReservationInv, DataOK
<1> QED
  BY <1>1, <1>3, <1>4, <1>5, <1>6, StepRequest

-----------------------------------------------------------------------------
(* The actions.                                                             *)

LEMMA StagingStays ==
  ASSUME StagingOK, UNCHANGED staging
  PROVE  StagingOK'
BY DEF StagingOK

LEMMA StagingEnds ==
  ASSUME StagingOK, NEW r \in Requests, Becomes(r, NotStaged)
  PROVE  StagingOK'
BY BecomesOK, NotStagedOK

\* The request before its reservation.
LEMMA BeforeReservation ==
  ASSUME IInv, NEW r \in Requests,
         Preflight(r) \/ StageSource(r) \/ StageFails(r) \/ StagingAborted(r)
           \/ MultipartStaged(r) \/ PublishFails(r)
  PROVE  IInv'
<1>0. ReservationInv /\ StagingOK /\ DataOK
  BY DEF IInv, ReservationInv
<1>t. temps \subseteq Requests /\ temps' \in {temps, temps \cup {r}, temps \ {r}} => temps' \subseteq Requests
  OBVIOUS
<1>u. temps \subseteq Requests
  BY <1>0 DEF DataOK
<1>1. CASE Preflight(r)
  <2> USE <1>1 DEF Preflight, At, database, store
  <2>1. StagingOK'
    BY <1>0, StagingStays
  <2>2. CASE kb # None \/ request[r].key # None
    <3> DEFINE v == [request[r] EXCEPT !.pc = "staging", !.snapshot = Snapshot]
    <3>1. /\ v \in Request /\ v.pc = "staging" /\ v.key = request[r].key
          /\ v.print = request[r].print
          /\ v.outcome = request[r].outcome /\ v.result = request[r].result
      BY <1>0, RequestFields, ZenonT(60) DEF Request, Snapshot, DataOK
    <3>2. Put(r, v) /\ request[r].pc = "new"
      BY <2>2
    <3> HIDE DEF v
    <3>3. /\ v.outcome = "duplicate" => task[r] = "duplicate"
          /\ v.outcome = "accepted" =>
               /\ v.result \in rows /\ request[v.result].print = v.print
               /\ v.key # None => v.result = idem[v.key]
      BY <3>1, <1>0 DEF ReservationInv, AnswersKept
    <3>4. task[r] = "none"
      BY <3>2, <1>0 DEF ReservationInv, TasksMatch
    <3>5. ReservationInv'
      BY <3>1, <3>2, <3>3, <3>4, <1>0, <1>u, StepRequest
    <3> QED
      BY <3>5, <2>1 DEF IInv
  <2>3. CASE ~(kb # None \/ request[r].key # None)
    BY <2>3, <2>1, <1>0, <1>u, StepEnds DEF IInv
  <2> QED
    BY <2>2, <2>3
<1>2. CASE StageSource(r)
  BY <1>0, <1>2, <1>t, <1>u, StagingStays, StepGoto DEF StageSource, At, IInv
<1>3. CASE StageFails(r)
  BY <1>0, <1>3, <1>t, <1>u, StagingStays, StepEnds DEF StageFails, MayLand, IInv
<1>4. CASE StagingAborted(r)
  BY <1>0, <1>4, <1>t, <1>u, StagingEnds, StepEnds DEF StagingAborted, CleanupTemp, IInv
<1>5. CASE MultipartStaged(r)
  BY <1>0, <1>5, <1>t, <1>u, StagingEnds, StepGoto DEF MultipartStaged, InMultipart, At, store, IInv
<1>6. CASE PublishFails(r)
  <2>1. task[r] = "none"
    BY <1>6, <1>0 DEF PublishFails, At, ReservationInv, TasksMatch
  <2>2. copying' \subseteq copying \cup {r} /\ doomed' \subseteq doomed \cup {r}
    BY <1>6 DEF PublishFails, CleanupFinal
  <2> QED
    BY <1>0, <1>6, <1>t, <1>u, <2>1, <2>2, StagingStays, StepEnds DEF PublishFails, CleanupTemp, IInv
<1> QED
  BY <1>1, <1>2, <1>3, <1>4, <1>5, <1>6

\* The parser and the upload it started.
LEMMA WhileStaging ==
  ASSUME IInv, NEW r \in Requests,
         \/ ParserStep(r) \/ StagingRaises(r) \/ ClientLeaves(r)
         \/ UploadTakes(r) \/ UploadStores(r)
         \/ UploadSettles(r, "running") \/ UploadSettles(r, "cancelling")
  PROVE  IInv'
<1>0. ReservationInv /\ StagingOK /\ DataOK
  BY DEF IInv, ReservationInv
<1>1. StagingOK'
  <2>1. CASE ParserStep(r)
    BY <1>0, <2>1, StepSlice, StepSend, StepSettling DEF ParserStep
  <2>2. CASE StagingRaises(r) \/ ClientLeaves(r)
    BY <1>0, <2>2, StepSettling DEF StagingRaises, ClientLeaves
  <2>3. CASE UploadTakes(r) \/ UploadStores(r)
    BY <1>0, <2>3, StepTake DEF UploadTakes, UploadStores
  <2>4. CASE UploadSettles(r, "running") \/ UploadSettles(r, "cancelling")
    BY <1>0, <2>4, StepSettling DEF UploadSettles
  <2> QED
    BY <2>1, <2>2, <2>3, <2>4
<1>2. /\ UNCHANGED <<database, request, task, objects, copying, doomed>>
      /\ temps' \in {temps, temps \cup {r}}
  BY DEF ParserStep, StagingRaises, ClientLeaves, UploadTakes, UploadStores, UploadSettles,
         MayLand, store
<1>3. ReservationInv'
  BY <1>0, <1>2, StepStore DEF DataOK
<1> QED
  BY <1>1, <1>3 DEF IInv

\* The end of the request: answered, notified, or given up by the client.
LEMMA AfterReservation ==
  ASSUME IInv, NEW r \in Requests,
         Answer(r) \/ NotifyAfterCommit(r) \/ NotifyCancelled(r) \/ Cancel(r) \/ ResolveCancelled(r)
  PROVE  IInv'
<1>0. ReservationInv /\ StagingOK /\ DataOK
  BY DEF IInv, ReservationInv
<1>1. StagingOK'
  BY <1>0, StagingStays
     DEF Answer, NotifyAfterCommit, NotifyCancelled, Cancel, ResolveCancelled
<1>2. temps' \subseteq Requests /\ UNCHANGED <<database, temps, objects, copying, task>>
  BY <1>0 DEF DataOK, Answer, NotifyAfterCommit, NotifyCancelled, Cancel, ResolveCancelled, store
<1>3. CASE Answer(r)
  <2>1. /\ doomed' \subseteq doomed \cup {r}
        /\ r \in doomed' => r \in doomed \/ task[r] \in Refused \cup {"replayed"}
    BY <1>3 DEF Answer, SafeToCleanup, CleanupFinal
  <2>2. CASE task[r] = "created"
    <3>1. UNCHANGED doomed
      BY <1>3, <2>2 DEF Answer, SafeToCleanup, Refused
    <3> QED
      BY <1>0, <1>1, <1>2, <1>3, <2>2, <3>1, StepGoto DEF Answer, At, IInv
  <2>3. CASE task[r] = "replayed"
    BY <1>0, <1>1, <1>2, <1>3, <2>1, <2>3, StepAccepts DEF Answer, IInv
  <2>4. CASE task[r] = "error"
    <3>1. Ends(r, "uncertain")
      BY <1>3, <2>4 DEF Answer
    <3> QED
      BY <1>0, <1>1, <1>2, <2>1, <3>1, StepEnds DEF IInv
  <2>5. CASE task[r] \in Refused
    <3>1. Ends(r, task[r])
      BY <1>3, <2>5 DEF Answer, Refused
    <3>2. task[r] \in {"rejected", "reused", "duplicate"}
      BY <2>5 DEF Refused
    <3> QED
      BY <1>0, <1>1, <1>2, <2>1, <3>1, <3>2, StepEnds DEF IInv
  <2> QED
    BY <1>3, <2>2, <2>3, <2>4, <2>5 DEF Answer, Resolved
<1>4. CASE NotifyAfterCommit(r)
  <2>1. task[r] = "created"
    BY <1>0, <1>4 DEF NotifyAfterCommit, At, ReservationInv, TasksMatch
  <2> QED
    BY <1>0, <1>1, <1>2, <1>4, <2>1, StepAccepts DEF NotifyAfterCommit, store, IInv
<1>5. CASE NotifyCancelled(r)
  BY <1>0, <1>1, <1>2, <1>5, StepEnds DEF NotifyCancelled, store, IInv
<1>6. CASE Cancel(r)
  BY <1>0, <1>1, <1>2, <1>6, StepGoto DEF Cancel, At, store, IInv
<1>7. CASE ResolveCancelled(r)
  <2>1. /\ doomed' \subseteq doomed \cup {r}
        /\ r \in doomed' => r \in doomed \/ task[r] \in Refused \cup {"replayed"}
    BY <1>7 DEF ResolveCancelled, SafeToCleanup, CleanupFinal
  <2> QED
    BY <1>0, <1>1, <1>2, <1>7, <2>1, StepEnds DEF ResolveCancelled, IInv
<1> QED
  BY <1>3, <1>4, <1>5, <1>6, <1>7

\* The object is published and the reservation starts.
LEMMA WhenPublished ==
  ASSUME IInv, NEW r \in Requests, Publish(r)
  PROVE  IInv'
<1> USE DEF ReservationInv
<1>0. ReservationInv /\ StagingOK /\ DataOK
  BY DEF IInv
<1>1. StagingOK'
  BY <1>0, StagingStays DEF Publish
<1>2. /\ request[r].pc = "publishing" /\ task[r] = "none"
      /\ UNCHANGED <<kb, lock, rows, idem, copying, doomed>>
      /\ objects' = objects \cup {r} /\ temps' \in {temps, temps \ {r}}
  BY <1>0 DEF Publish, At, TasksMatch, database, CleanupTemp
<1>3. /\ request' \in [Requests -> Request]
      /\ \A q \in Requests :
           /\ request'[q].pc = IF q = r THEN "reserving" ELSE request[q].pc
           /\ request'[q].key = request[q].key /\ request'[q].print = request[q].print
           /\ request'[q].outcome = request[q].outcome /\ request'[q].result = request[q].result
  <2> DEFINE v == [request[r] EXCEPT !.pc = "reserving"]
  <2>1. /\ v \in Request /\ v.pc = "reserving" /\ v.key = request[r].key
        /\ v.print = request[r].print
        /\ v.outcome = request[r].outcome /\ v.result = request[r].result
    BY <1>0, RequestFields DEF Request
  <2>2. request' = [request EXCEPT ![r] = v]
    BY DEF Publish, Goto, Put
  <2> HIDE DEF v
  <2> QED
    BY <1>0, <2>1, <2>2 DEF DataOK
<1>4. /\ task' \in [Requests -> Task]
      /\ \A q \in Requests : task'[q] = IF q = r THEN "running" ELSE task[q]
  BY <1>0 DEF Publish, DataOK, Task
<1>5. DataOK'
  BY <1>0, <1>2, <1>3, <1>4 DEF DataOK
<1>6. TasksMatch'
  BY <1>0, <1>2, <1>3, <1>4 DEF TasksMatch
<1>7. SourcesKept'
  BY <1>0, <1>2, <1>3, <1>4 DEF SourcesKept, ReservedSourceExists, Resolved, Refused
<1>8. KeysRecorded'
  <2>1. \A q \in Requests : Existing(q)' = Existing(q) /\ (Existing(q) # None => Existing(q) \in Requests)
    BY <1>0, <1>2, <1>3 DEF Existing, DataOK, Request
  <2>2. rows \subseteq Requests /\ \A k \in Keys : idem[k] # None => idem[k] \in Requests
    BY <1>0 DEF DataOK
  <2> QED
    BY <1>0, <1>2, <1>3, <1>4, <2>1, <2>2 DEF KeysRecorded
<1>9. AnswersKept'
  <2>1. rows \subseteq Requests
    BY <1>0 DEF DataOK
  <2> QED
    BY <1>0, <1>2, <1>3, <1>4, <2>1 DEF AnswersKept
<1> QED
  BY <1>1, <1>5, <1>6, <1>7, <1>8, <1>9 DEF IInv

\* The reservation that compares, verifies, collides or fails.
LEMMA WhileReserving ==
  ASSUME IInv, NEW r \in Requests,
         \/ ReserveLocks(r) \/ VerifyObject(r) \/ ReserveFails(r)
         \/ ReserveCommits(r) /\ Duplicate(r)
  PROVE  IInv'
<1>0. ReservationInv /\ StagingOK /\ DataOK
  BY DEF IInv, ReservationInv
<1>1. StagingOK'
  BY <1>0, StagingStays DEF ReserveLocks, VerifyObject, ReserveFails, ReserveCommits
<1>2. UNCHANGED <<kb, rows, idem, store, request>>
  BY DEF ReserveLocks, VerifyObject, ReserveFails, ReserveCommits
<1>3. \A t \in Resolved \cup {"locked", "verified"} : t \in Task
  BY DEF Task
<1>4. CASE ReserveLocks(r)
  <2>1. task[r] = "running" /\ lock = None
    BY <1>4 DEF ReserveLocks
  <2>2. CASE Resolve(r, "rejected") /\ UNCHANGED lock
    BY <1>0, <1>1, <1>2, <1>3, <2>1, <2>2, StepTask DEF IInv, Resolved, Refused
  <2>3. CASE Existing(r) # None /\ Replay(r) /\ UNCHANGED lock
    <3>1. CASE request[Existing(r)].print = request[r].print
      BY <1>0, <1>1, <1>2, <1>3, <2>1, <2>3, <3>1, StepTask DEF IInv, Replay, Resolved
    <3>2. CASE request[Existing(r)].print # request[r].print
      BY <1>0, <1>1, <1>2, <1>3, <2>1, <2>3, <3>2, StepTask DEF IInv, Replay, Resolved, Refused
    <3> QED
      BY <3>1, <3>2
  <2>4. CASE Existing(r) = None /\ Resolve(r, "locked") /\ lock' = r
    BY <1>0, <1>1, <1>2, <1>3, <2>1, <2>4, StepTask DEF IInv
  <2> QED
    BY <1>4, <2>2, <2>3, <2>4 DEF ReserveLocks
<1>5. CASE VerifyObject(r)
  <2>1. task[r] = "locked" /\ lock = r /\ Existing(r) = None
    BY <1>0, <1>5 DEF VerifyObject, ReservationInv, TasksMatch, KeysRecorded
  <2>2. CASE r \in objects
    BY <1>0, <1>1, <1>2, <1>3, <1>5, <2>1, <2>2, StepTask DEF IInv, VerifyObject
  <2>3. CASE r \notin objects
    BY <1>0, <1>1, <1>2, <1>3, <1>5, <2>1, <2>3, StepTask
       DEF IInv, VerifyObject, Unlock, Resolved, Refused
  <2> QED
    BY <2>2, <2>3
<1>6. CASE ReserveFails(r)
  <2>1. lock' = IF lock = r THEN None ELSE lock
    BY <1>6 DEF ReserveFails, Unlock
  <2>2. "error" \in Task
    BY <1>3 DEF Resolved
  <2> QED
    BY <1>0, <1>1, <1>2, <1>6, <2>1, <2>2, StepTask DEF IInv, ReserveFails
<1>7. CASE ReserveCommits(r) /\ Duplicate(r)
  <2>1. task[r] = "verified" /\ lock = r /\ Existing(r) = None
    BY <1>0, <1>7 DEF ReserveCommits, ReservationInv, TasksMatch, KeysRecorded
  <2>2. lock' = None /\ Resolve(r, "duplicate")
    BY <1>7, <2>1 DEF ReserveCommits, Unlock
  <2>3. PICK q \in rows : request[q].print[1] = request[r].print[1]
    BY <1>7 DEF Duplicate
  <2>4. request[r].key # None => request[q].key # request[r].key
    <3>1. SUFFICES ASSUME request[r].key # None, request[q].key = request[r].key PROVE FALSE
      OBVIOUS
    <3>2. idem[request[r].key] = None
      BY <2>1, <3>1 DEF Existing
    <3>3. idem[request[q].key] = q
      BY <1>0, <3>1 DEF ReservationInv, KeysRecorded
    <3> QED
      BY <1>0, <3>1, <3>2, <3>3 DEF DataOK
  <2>5. "duplicate" \in Task
    BY DEF Task, Resolved, Refused
  <2> QED
    BY <1>0, <1>1, <1>2, <2>1, <2>2, <2>3, <2>4, <2>5, StepTask DEF IInv
<1> QED
  BY <1>4, <1>5, <1>6, <1>7

\* The commit of a new document: its key had no idempotency row and its content no
\* document, and its object, verified under the lock, is there.
LEMMA WhenReserved ==
  ASSUME IInv, NEW r \in Requests, ReserveCommits(r), ~Duplicate(r)
  PROVE  IInv'
<1> USE DEF ReservationInv
<1>0. ReservationInv /\ StagingOK /\ DataOK
  BY DEF IInv
<1>1. StagingOK'
  BY <1>0, StagingStays DEF ReserveCommits
<1>2. /\ task[r] = "verified" /\ lock = r /\ Existing(r) = None /\ r \in objects /\ r \notin rows
      /\ r \notin doomed \cup copying /\ request[r].pc \in {"reserving", "resolving", "done"}
  BY <1>0, RequestFields DEF ReserveCommits, TasksMatch, SourcesKept, KeysRecorded, Resolved, Refused
<1>3. /\ UNCHANGED <<kb, temps, objects, copying, doomed, request>>
      /\ rows' = rows \cup {r} /\ lock' = None
      /\ idem' = IF request[r].key = None THEN idem ELSE [idem EXCEPT ![request[r].key] = r]
  BY <1>2 DEF ReserveCommits, Unlock, store
<1>4. PICK t \in {"created", "error"} :
        /\ task' \in [Requests -> Task]
        /\ \A q \in Requests : task'[q] = IF q = r THEN t ELSE task[q]
  <2>1. \A t \in {"created", "error"} : t \in Task
    BY DEF Task, Resolved
  <2> QED
    BY <1>0, <2>1 DEF ReserveCommits, Resolve, DataOK
<1>5. /\ idem' \in [Keys -> Requests \cup {None}]
      /\ \A k \in Keys : idem'[k] = IF k = request[r].key THEN r ELSE idem[k]
      /\ request[r].key \in Keys => idem[request[r].key] = None
  <2>1. request[r].key \in Keys \cup {None}
    BY <1>0, RequestFields
  <2> QED
    BY <2>1, <1>0, <1>2, <1>3 DEF DataOK, Existing
<1>a. /\ rows \subseteq Requests /\ None \notin rows
      /\ \A q \in Requests : request[q].key \in Keys \cup {None}
      /\ \A k \in Keys : idem[k] # None => idem[k] \in Requests
  BY <1>0, RequestFields DEF DataOK
<1>6. DataOK'
  BY <1>0, <1>3, <1>4, <1>5 DEF DataOK
<1>7. TasksMatch'
  <2>1. \A q \in Requests : task'[q] \notin {"locked", "verified"} /\ lock' # q
    BY <1>0, <1>2, <1>3, <1>4 DEF TasksMatch
  <2> QED
    BY <1>0, <1>2, <1>3, <1>4, <2>1 DEF TasksMatch
<1>8. SourcesKept'
  BY <1>0, <1>2, <1>3, <1>4 DEF SourcesKept, ReservedSourceExists
<1>9. KeysRecorded'
  <2>1. \A k \in Keys : idem'[k] # None => idem'[k] \in rows' /\ request[idem'[k]].key = k
    BY <1>0, <1>3, <1>5 DEF KeysRecorded
  <2>2. \A q \in rows' : request[q].key # None => idem'[request[q].key] = q
    <3>1. SUFFICES ASSUME NEW q \in rows', request[q].key # None
                   PROVE  idem'[request[q].key] = q
      OBVIOUS
    <3>2. request[q].key \in Keys /\ q \in Requests
      BY <1>3, <1>a, <3>1
    <3>3. CASE q = r
      BY <3>2, <3>3, <1>5
    <3>4. CASE q # r
      <4>1. idem[request[q].key] = q /\ q # None
        BY <3>1, <3>4, <1>0, <1>3, <1>a DEF KeysRecorded
      <4> QED
        BY <4>1, <3>2, <1>5
    <3> QED
      BY <3>3, <3>4
  <2>3. \A q \in Requests : Existing(q) # None => Existing(q)' = Existing(q)
    BY <1>3, <1>5, <1>a DEF Existing
  <2>4. \A q \in Requests : task'[q] \notin {"locked", "verified"}
    BY <1>0, <1>2, <1>4 DEF TasksMatch
  <2>5. \A q \in Requests : task'[q] = "replayed" =>
          Existing(q)' # None /\ request[Existing(q)'].print = request[q].print
    BY <1>0, <1>4, <2>3 DEF KeysRecorded
  <2> QED
    BY <1>3, <2>1, <2>2, <2>4, <2>5 DEF KeysRecorded
<1>10. AnswersKept'
  <2>1. \A p, q \in rows' : request[p].print[1] = request[q].print[1] => p = q
    BY <1>0, <1>3 DEF AnswersKept, Duplicate
  <2>2. \A q \in Requests : task'[q] = "duplicate" =>
          \E p \in rows' : /\ request[p].print[1] = request[q].print[1]
                           /\ request[q].key # None => request[p].key # request[q].key
    BY <1>0, <1>3, <1>4 DEF AnswersKept
  <2>3. \A q \in Requests : request[q].outcome = "duplicate" => task'[q] = "duplicate"
    BY <1>0, <1>2, <1>4 DEF AnswersKept
  <2>4. \A q \in Requests : request[q].outcome = "accepted" =>
          /\ request[q].result \in rows' /\ request[request[q].result].print = request[q].print
          /\ request[q].key # None => request[q].result = idem'[request[q].key]
    BY <1>0, <1>3, <1>5, <1>a DEF AnswersKept
  <2> QED
    BY <1>3, <2>1, <2>2, <2>3, <2>4 DEF AnswersKept
<1> QED
  BY <1>1, <1>6, <1>7, <1>8, <1>9, <1>10 DEF IInv

\* A crash ends the request and rolls its transaction back; what was committed or
\* is to be deleted stays so.
LEMMA WhenCrashed ==
  ASSUME IInv, NEW r \in Requests, Crash(r)
  PROVE  IInv'
<1> USE DEF ReservationInv
<1>0. ReservationInv /\ StagingOK /\ DataOK
  BY DEF IInv
<1>1. StagingOK'
  BY <1>0, StagingEnds DEF Crash
<1>2. /\ UNCHANGED <<kb, rows, idem, objects, copying, doomed>>
      /\ temps' \in {temps, temps \cup {r}}
      /\ lock' = IF lock = r THEN None ELSE lock
  BY DEF Crash, Unlock, MayLand
<1>3. /\ request' \in [Requests -> Request]
      /\ \A q \in Requests : q # r => request'[q] = request[q]
      /\ request'[r].pc = "done"
      /\ request'[r].outcome = (IF request[r].pc = "done" THEN request[r].outcome ELSE "crashed")
      /\ request'[r].key = request[r].key /\ request'[r].print = request[r].print
      /\ request'[r].result = request[r].result
  <2>1. CASE At(r, "done")
    BY <1>0, <2>1 DEF Crash, At, DataOK
  <2>2. CASE ~At(r, "done")
    <3> DEFINE v == [request[r] EXCEPT !.pc = "done", !.outcome = "crashed"]
    <3>1. /\ v \in Request /\ v.pc = "done" /\ v.outcome = "crashed" /\ v.key = request[r].key
          /\ v.print = request[r].print /\ v.result = request[r].result
      BY <1>0, RequestFields DEF Request
    <3>2. request' = [request EXCEPT ![r] = v]
      BY <1>0, <2>2 DEF Crash, DataOK, Request
    <3> HIDE DEF v
    <3> QED
      BY <1>0, <2>2, <3>1, <3>2 DEF At, DataOK
  <2> QED
    BY <2>1, <2>2
<1>4. /\ task' \in [Requests -> Task]
      /\ \A q \in Requests : q # r => task'[q] = task[q]
      /\ task'[r] = IF task[r] \in Resolved \cup {"none"} THEN task[r] ELSE "error"
  <2>1. "error" \in Task
    BY DEF Task, Resolved
  <2> QED
    BY <1>0, <2>1 DEF Crash, DataOK
<1>5. \A q \in Requests : request'[q].key = request[q].key /\ request'[q].print = request[q].print
  BY <1>3
<1>6. /\ rows \subseteq Requests
      /\ \A q \in Requests : Existing(q)' = Existing(q) /\ (Existing(q) # None => Existing(q) \in Requests)
      /\ \A k \in Keys : idem[k] # None => idem[k] \in Requests
  BY <1>0, <1>2, <1>5, RequestFields DEF Existing, DataOK
<1>7. DataOK'
  BY <1>0, <1>2, <1>3, <1>4 DEF DataOK
<1>8. TasksMatch'
  <2>1. task[r] \in {"locked", "verified"} => task'[r] = "error"
    BY <1>4 DEF Resolved, Refused
  <2>2. task'[r] \notin {"locked", "verified"} /\ lock' # r
    BY <1>2, <1>4, <2>1 DEF Resolved, Refused
  <2> QED
    BY <1>0, <1>2, <1>3, <1>4, <2>2 DEF TasksMatch
<1>9. SourcesKept'
  <2>1. /\ r \in rows => task'[r] \in {"created", "error"}
        /\ task'[r] = "created" => r \in rows
        /\ task'[r] # "verified" /\ task'[r] \in Resolved \cup {"none"}
    BY <1>0, <1>4 DEF SourcesKept, Resolved, Refused
  <2> QED
    BY <1>0, <1>2, <1>3, <1>4, <2>1 DEF SourcesKept, ReservedSourceExists
<1>10. KeysRecorded'
  <2>1. \A q \in Requests : /\ task'[q] \in {"locked", "verified"} => task[q] = task'[q]
                            /\ task'[q] = "replayed" => task[q] = "replayed"
    BY <1>4 DEF Resolved, Refused
  <2> QED
    BY <1>0, <1>2, <1>5, <1>6, <2>1 DEF KeysRecorded
<1>11. AnswersKept'
  <2>1. \A p, q \in rows : request'[p].print[1] = request'[q].print[1] => p = q
    BY <1>0, <1>5, <1>6 DEF AnswersKept
  <2>2. \A q \in Requests : task'[q] = "duplicate" =>
          \E p \in rows : /\ request'[p].print[1] = request'[q].print[1]
                          /\ request'[q].key # None => request'[p].key # request'[q].key
    <3>1. \A q \in Requests : task'[q] = "duplicate" => task[q] = "duplicate"
      BY <1>4
    <3> QED
      BY <1>0, <1>5, <1>6, <3>1 DEF AnswersKept
  <2>3. \A q \in Requests : request'[q].outcome = "duplicate" => task'[q] = "duplicate"
    BY <1>0, <1>3, <1>4 DEF AnswersKept, Resolved, Refused
  <2>4. \A q \in Requests : request'[q].outcome = "accepted" =>
          /\ request[q].outcome = "accepted" /\ request'[q].result = request[q].result
    BY <1>3
  <2>5. \A q \in Requests : request'[q].outcome = "accepted" =>
          /\ request'[q].result \in rows
          /\ request'[request'[q].result].print = request'[q].print
          /\ request'[q].key # None => request'[q].result = idem[request'[q].key]
    BY <1>0, <1>5, <1>6, <2>4 DEF AnswersKept
  <2> QED
    BY <1>2, <2>1, <2>2, <2>3, <2>5 DEF AnswersKept
<1> QED
  BY <1>1, <1>7, <1>8, <1>9, <1>10, <1>11 DEF IInv

\* What lands late and what the reconciler deletes.
LEMMA InTheStore ==
  ASSUME IInv, NEW r \in Requests,
         LateCopy(r) \/ Delete(r) \/ ReconcileTemp(r) \/ ReconcileObject(r) \/ ReconcileLate(r)
  PROVE  IInv'
<1>0. ReservationInv /\ StagingOK /\ DataOK
  BY DEF IInv, ReservationInv
<1>1. StagingOK'
  BY <1>0, StagingStays DEF LateCopy, Delete, ReconcileTemp, ReconcileObject, ReconcileLate
<1>2. CASE LateCopy(r)
  BY <1>0, <1>1, <1>2, StepStore DEF LateCopy, DataOK, IInv
<1>3. CASE Delete(r)
  <2>1. r \notin rows /\ task[r] # "verified"
    BY <1>0, <1>3 DEF Delete, ReservationInv, SourcesKept, Resolved, Refused
  <2> QED
    BY <1>0, <1>1, <1>3, <2>1, StepStore DEF Delete, DataOK, IInv
<1>4. CASE ReconcileTemp(r)
  BY <1>0, <1>1, <1>4, StepStore DEF ReconcileTemp, DataOK, IInv
<1>5. CASE ReconcileObject(r)
  <2>1. r \notin rows /\ task[r] # "verified"
    BY <1>0, <1>5 DEF ReconcileObject, CleanupAllowed, ReservationInv, TasksMatch
  <2> QED
    BY <1>0, <1>1, <1>5, <2>1, StepStore DEF ReconcileObject, DataOK, IInv
<1>6. CASE ReconcileLate(r)
  BY <1>0, <1>1, <1>6, StepStore DEF ReconcileLate, CleanupAllowed, CleanupFinal, At, DataOK, IInv
<1> QED
  BY <1>2, <1>3, <1>4, <1>5, <1>6

\* The knowledge base changes beside the uploads.
LEMMA BesideUploads ==
  ASSUME IInv, KnowledgeBaseChanges
  PROVE  IInv'
<1> USE DEF ReservationInv
<1>0. ReservationInv /\ StagingOK /\ DataOK
  BY DEF IInv
<1>1. UNCHANGED <<lock, rows, idem, temps, objects, copying, doomed, request, task, staging>>
  BY DEF KnowledgeBaseChanges, ChangeKb, store
<1>2. kb' \in (0 .. MaxConfig) \cup {None}
  <2>1. CASE kb' = None
    BY <2>1
  <2>2. CASE kb # None /\ kb < MaxConfig /\ kb' = kb + 1
    <3>1. kb \in 0 .. MaxConfig
      BY <1>0, <2>2 DEF DataOK
    <3> QED
      BY <2>2, <3>1
  <2> QED
    BY <2>1, <2>2 DEF KnowledgeBaseChanges, ChangeKb
<1>3. DataOK' /\ TasksMatch' /\ AnswersKept' /\ StagingOK'
  BY <1>0, <1>1, <1>2 DEF DataOK, TasksMatch, AnswersKept, StagingOK
<1>4. SourcesKept' /\ KeysRecorded'
  BY <1>0, <1>1 DEF SourcesKept, ReservedSourceExists, KeysRecorded, Existing
<1> QED
  BY <1>3, <1>4 DEF IInv

-----------------------------------------------------------------------------
\* Nothing has been sent.
LEMMA InitIInv == Init => IInv
<1> SUFFICES ASSUME Init PROVE IInv
  OBVIOUS
<1>1. PICK u \in Uploads :
        request = [r \in Requests |->
          [pc |-> "new", call |-> u[r][4], key |-> u[r][1],
           print |-> <<u[r][2], u[r][3]>>, snapshot |-> None, outcome |-> "none",
           result |-> None]]
  BY DEF Init
<1>2. \A r \in Requests : /\ u[r][1] \in Keys \cup {None} /\ u[r][2] \in Contents
                          /\ u[r][3] \in Forms /\ u[r][4] \in Calls
  BY UploadsAssumption
<1>3. request \in [Requests -> Request]
  BY <1>1, <1>2 DEF Request, Fingerprints
<1>4. \A r \in Requests : request[r].pc = "new" /\ request[r].outcome = "none"
  BY <1>1
<1>5. task = [r \in Requests |-> "none"] /\ task \in [Requests -> Task]
  BY DEF Init, Task
<1>6. DataOK
  BY <1>3, <1>5 DEF Init, DataOK
<1>7. TasksMatch /\ SourcesKept
  BY <1>4, <1>5 DEF Init, TasksMatch, SourcesKept, ReservedSourceExists
<1>8. KeysRecorded /\ AnswersKept
  BY <1>4, <1>5 DEF Init, KeysRecorded, AnswersKept
<1>9. StagingOK
  BY NotStagedOK DEF Init, StagingInit, StagingOK, StagingOne
<1> QED
  BY <1>6, <1>7, <1>8, <1>9 DEF IInv, ReservationInv

LEMMA NextIInv == IInv /\ [Next]_vars => IInv'
<1> SUFFICES ASSUME IInv, [Next]_vars PROVE IInv'
  OBVIOUS
<1>1. CASE UNCHANGED vars
  <2>1. /\ UNCHANGED <<kb, lock, rows, idem, temps, objects, copying, doomed, request, task>>
        /\ UNCHANGED staging
    BY <1>1 DEF vars
  <2>2. DataOK' /\ TasksMatch' /\ AnswersKept' /\ StagingOK'
    BY <2>1 DEF IInv, ReservationInv, DataOK, TasksMatch, AnswersKept, StagingOK
  <2>3. SourcesKept' /\ KeysRecorded'
    BY <2>1 DEF IInv, ReservationInv, SourcesKept, ReservedSourceExists, KeysRecorded, Existing
  <2> QED
    BY <2>2, <2>3 DEF IInv, ReservationInv
<1>2. ASSUME NEW r \in Requests,
             \/ RequestStep(r) \/ UploadStep(r) \/ ReserveStep(r) \/ StoreStep(r)
             \/ UploadSettles(r, "running") \/ ReserveFails(r)
             \/ ClientLeaves(r) \/ Cancel(r) \/ NotifyCancelled(r)
             \/ Crash(r) \/ ReconcileLate(r)
      PROVE  IInv'
  <2>1. CASE RequestStep(r)
    BY <2>1, BeforeReservation, WhileStaging, WhenPublished, AfterReservation DEF RequestStep
  <2>2. CASE UploadStep(r) \/ UploadSettles(r, "running") \/ ClientLeaves(r)
    BY <2>2, WhileStaging DEF UploadStep
  <2>3. CASE ReserveStep(r) \/ ReserveFails(r)
    BY <2>3, WhileReserving, WhenReserved DEF ReserveStep
  <2>4. CASE StoreStep(r) \/ ReconcileLate(r)
    BY <2>4, InTheStore DEF StoreStep
  <2>5. CASE Cancel(r) \/ NotifyCancelled(r)
    BY <2>5, AfterReservation
  <2>6. CASE Crash(r)
    BY <2>6, WhenCrashed
  <2> QED
    BY <1>2, <2>1, <2>2, <2>3, <2>4, <2>5, <2>6
<1>3. CASE KnowledgeBaseChanges
  BY <1>3, BesideUploads
<1> QED
  BY <1>1, <1>2, <1>3 DEF Next

\* Whatever the requests send and whoever cancels, crashes, fails or lands late,
\* the uploads stay within IInv.
THEOREM UploadInductive == Spec => []IInv
BY InitIInv, NextIInv, PTL DEF Spec

\* The source of every reserved document exists, and every receipt the multipart
\* parser compares is that of the whole file (_publish_and_reserve,
\* stage_multipart_upload).
THEOREM SourcesWholeAlways == Spec => []SourcesWhole
<1>1. IInv => SourcesWhole
  <2> SUFFICES ASSUME IInv PROVE SourcesWhole
    OBVIOUS
  <2>1. ReservedSourceExists
    BY DEF IInv, ReservationInv, SourcesKept
  <2>2. ReceiptsMatch
    BY DEF IInv, StagingOK, StagingOne, StagedInOrder, ReceiptsMatch, ReceiptMatches
  <2> QED
    BY <2>1, <2>2 DEF SourcesWhole
<1> QED
  BY <1>1, UploadInductive, PTL

\* Repeating an upload is answered like the first: one document per key, and
\* never DUPLICATE_DOCUMENT about one's own (reserve_upload).
THEOREM RepeatsAlways == Spec => []RepeatsAnswerAlike
<1>1. IInv => RepeatsAnswerAlike
  <2> SUFFICES ASSUME IInv PROVE RepeatsAnswerAlike
    OBVIOUS
  <2>1. TypeOK
    <3>1. \A r \in Requests :
            /\ [staging[r] EXCEPT !.pending = <<>>, !.queue = <<>>] \in Staging
            /\ Len(staging[r].queue) <= QueueSize
      <4>1. <<>> \in Seq({"piece", "end"})
        BY EmptySeq
      <4> QED
        BY <4>1 DEF IInv, StagingOK, StagingOne, Staging
    <3>2. DataOK
      BY DEF IInv, ReservationInv
    <3> QED
      BY <3>1, <3>2 DEF DataOK, TypeOK
  <2>2. AcceptedOnce
    BY DEF IInv, ReservationInv, AnswersKept, AcceptedOnce
  <2>3. RetryNotDuplicate
    BY DEF IInv, ReservationInv, DataOK, AnswersKept, RetryNotDuplicate
  <2> QED
    BY <2>1, <2>2, <2>3 DEF RepeatsAnswerAlike
<1> QED
  BY <1>1, UploadInductive, PTL
=============================================================================
