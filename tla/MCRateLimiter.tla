---------------------------- MODULE MCRateLimiter ----------------------------
(***************************************************************************)
(* Five requests with two priorities on a bucket of two tokens, which a     *)
(* tick refills by two thirds of one, and a queue of two: the fast path,    *)
(* the queue, a full queue, a processor that finds its token gone, one that *)
(* comes late and releases two, and one that was done all occur.            *)
(***************************************************************************)
EXTENDS RateLimiter

MCPriorities == {0, 1}
=============================================================================
