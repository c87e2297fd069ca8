------------------------ MODULE MCUploadReservation ------------------------
\* The small instance of UploadReservation.  Two requests, told apart only by what
\* they send, can send this: the same upload under one key, different uploads
\* under one key, the same content with a key and without, and different
\* contents.  One of them, in the last case, is sent as multipart/form-data;
\* MaxPieces and the end mark are one item more than the queue holds.
EXTENDS UploadReservation

CONSTANTS r1, r2, k, c1, c2, f1, f2

Sent(a, b) == [r \in Requests |-> IF r = r1 THEN a ELSE b]

MCUploads ==
  {Sent(<<k, c1, f1, "upload">>, <<k, c1, f1, "upload">>),
   Sent(<<k, c1, f1, "upload">>, <<k, c1, f2, "upload">>),
   Sent(<<k, c1, f1, "upload">>, <<None, c1, f1, "upload">>),
   Sent(<<None, c1, f1, "upload_multipart">>, <<None, c2, f1, "upload">>)}
=============================================================================
