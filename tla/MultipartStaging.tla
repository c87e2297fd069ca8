-------------------------- MODULE MultipartStaging --------------------------
(***************************************************************************)
(* stage_multipart_upload: the body of a request is parsed while the file  *)
(* part in it is uploaded to a temporary key.  Parser and upload are two   *)
(* tasks that share a queue of two items; what the parser found in a slice *)
(* of the body it must put there before it reads on, and it has to notice  *)
(* an upload that failed and takes nothing any more.                       *)
(*                                                                         *)
(* The operators below are the steps of both tasks on this state alone;    *)
(* UploadReservation joins them with the request and the object store.     *)
(***************************************************************************)
EXTENDS Naturals, Sequences

CONSTANTS
  Requests,   \* upload requests
  QueueSize,  \* maxsize of _MultipartQueueStream's queue
  MaxPieces   \* pieces of a file

ASSUME QueueSizeAssumption == QueueSize \in Nat \ {0}
ASSUME MaxPiecesAssumption == MaxPieces \in Nat

VARIABLE staging

FilePart == {"absent", "open", "ended"}

Staging == [at : {"body", "sending", "receipt", "abort"},   \* the parser
            file : FilePart,
            pending : Seq({"piece", "end"}),  \* pending_file_chunks, file_end_pending
            queue : Seq({"piece", "end"}),
            upload : {"none", "running", "cancelling", "stored", "failed"},
            fed : 0 .. MaxPieces,     \* pieces the validator saw: the summary
            got : 0 .. MaxPieces]     \* pieces the upload took: the receipt

NotStaged == [at |-> "body", file |-> "absent", pending |-> <<>>, queue |-> <<>>,
              upload |-> "none", fed |-> 0, got |-> 0]

StagingInit == staging = [r \in Requests |-> NotStaged]

Becomes(r, v) == staging' = [staging EXCEPT ![r] = v]

-----------------------------------------------------------------------------
(* The parser.                                                              *)

\* The file part after one more slice of the body: it is opened once.
Later(file) == CASE file = "absent" -> FilePart
                 [] file = "open"   -> {"open", "ended"}
                 [] file = "ended"  -> {"ended"}

\* parser.write of a slice with n pieces of the file part, which may open and
\* end in it (on_headers_finished starts the upload, on_part_data, on_part_end).
\* What belongs to the other fields changes nothing here.
Slice(r, file, n) ==
  LET s == staging[r]
      ends == file = "ended" /\ s.file # "ended" IN
  /\ s.at = "body" /\ file \in Later(s.file) /\ s.fed + n <= MaxPieces
  /\ n > 0 => s.file # "ended" /\ file # "absent"
  /\ file # s.file \/ n > 0
  /\ Becomes(r, [s EXCEPT !.at = IF n > 0 \/ ends THEN "sending" ELSE @,
                          !.file = file, !.fed = @ + n,
                          !.upload = IF s.file = "absent" /\ file # "absent"
                                     THEN "running" ELSE @,
                          !.pending = [i \in 1 .. n |-> "piece"] \o
                                      (IF ends THEN <<"end">> ELSE <<>>)])

\* _send of the next item once the queue has room; drain sends them all.
Send(r) ==
  LET s == staging[r] IN
  /\ s.at = "sending" /\ s.upload = "running" /\ Len(s.queue) < QueueSize
  /\ Becomes(r, [s EXCEPT !.at = IF Len(s.pending) = 1 THEN "body" ELSE @,
                          !.queue = Append(@, Head(s.pending)),
                          !.pending = Tail(@)])

\* The body ended with its file part: the receipt of the upload is awaited.
BodyEnds(r) ==
  /\ staging[r].at = "body" /\ staging[r].file = "ended"
  /\ Becomes(r, [staging[r] EXCEPT !.at = "receipt"])

\* The except branch: abort cancels an upload that is not done and waits for it.
Abort(r) ==
  Becomes(r, [staging[r] EXCEPT !.at = "abort", !.pending = <<>>,
                                !.upload = IF @ = "running" THEN "cancelling" ELSE @])

\* Mutant of UploadFailed: _send waits for room in the queue alone.
UploadFailedLate(r) == staging[r].upload = "failed" /\ staging[r].at = "receipt"

\* _send waits for the queue and the upload, and the receipt is the upload's
\* result: both raise its error.
UploadFailed(r) ==
  staging[r].upload = "failed" /\ staging[r].at \in {"sending", "receipt"}

\* The receipt is compared with the summary of the validator.
ReceiptMatches(r) == staging[r].got = staging[r].fed

-----------------------------------------------------------------------------
(* The upload: upload_stream of the store on _MultipartQueueStream.         *)

Take(r) ==
  LET s == staging[r] IN
  /\ s.upload = "running" /\ s.queue # <<>> /\ Head(s.queue) = "piece"
  /\ Becomes(r, [s EXCEPT !.queue = Tail(@), !.got = @ + 1])

\* The stream ends with the None the parser sent last.
StreamEnds(r) ==
  LET s == staging[r] IN
  /\ s.upload = "running" /\ s.queue # <<>> /\ Head(s.queue) = "end"
  /\ Becomes(r, [s EXCEPT !.queue = Tail(@), !.upload = "stored"])

Settles(r, from) ==
  /\ staging[r].upload = from
  /\ Becomes(r, [staging[r] EXCEPT !.upload = "failed", !.queue = <<>>])

Settled(r) == staging[r].upload \in {"none", "stored", "failed"}
=============================================================================
