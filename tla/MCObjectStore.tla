---------------------------- MODULE MCObjectStore ----------------------------
(* The instance of ObjectStore for TLC: one operation against aclose, or two *)
(* operations that meet on the final key or on the executor.  At most one of *)
(* them is an upload: the pipe variables are those of one upload.            *)
EXTENDS ObjectStore

CONSTANTS o1, o2

Pair(a, b) == [o \in Ops |-> IF o = o1 THEN a ELSE b]

Start(k1, k2, want2, key) ==
    [kind |-> Pair(k1, k2), want |-> Pair("a", want2), temp |-> {o1, o2},
     final |-> key, rival |-> "none", bucket |-> <<>>, cancels |-> {}, workers |-> 1,
     busy |-> 0, closes |-> FALSE]

WithCancel(start) == [start EXCEPT !.cancels = {o1}]

Wide(start) == [start EXCEPT !.workers = 2]

WithClose(start) == [start EXCEPT !.closes = TRUE]

MCStarts ==
    \* an upload whose key holds its content, cancelled or meeting aclose; what
    \* follows the upload of the staging object is that of a publication
    {Wide(WithCancel(Start("upload", "none", "a", "a"))),
     WithClose(Start("upload", "none", "a", "a"))}
    \* an upload that gets no thread
    \union {[WithCancel(Start("upload", "none", "a", "none"))
                EXCEPT !.busy = 1]}
    \* a publication and another process that publishes the same content, or
    \* another one that is also deleted
    \union {[Wide(WithCancel(Start("publish", "none", "a", "none")))
                EXCEPT !.rival = "a"],
            [Start("publish", "delete", "a", "none") EXCEPT !.rival = "b"]}
    \* a publication that meets its content or another one, and aclose
    \union {Wide(WithCancel(WithClose(Start("publish", "none", "a", key)))) :
        key \in {"none", "a", "b"}}
    \* a temporary key that is missing
    \union {[Start("publish", "none", "a", "none") EXCEPT !.temp = {}]}
    \* readers of an object that is deleted
    \union {WithCancel(WithClose(Start(k, "delete", "a", key))) :
        k \in {"readStream", "readBytes", "verify"}, key \in {"a", "b"}}
    \* a listing of up to five objects
    \union {[Start("list", "none", "a", "a") EXCEPT !.bucket = bucket] :
        bucket \in UNION {[1 .. n -> BOOLEAN] : n \in 1 .. 5}}

=============================================================================
