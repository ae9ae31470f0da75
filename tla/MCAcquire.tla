------------------------------ MODULE MCAcquire ------------------------------
(* Instances of Acquire for TLC.  Each cfg picks one of these scenarios.   *)
EXTENDS Acquire, TLC

CONSTANTS a, b, c, http, cd, hx, c1, c2

\* http pipelines two requests (ten in the code), cdrom answers one at a time.
MCAccessOf == [q \in Queues |-> q]
MCQueueOf == [u \in URIs |-> IF u \in {c1, c2} THEN cd ELSE http]
MCPipe == [q \in Queues |-> IF q = http THEN 2 ELSE 1]
\* The last item is on a medium; the others share a URI, the same file listed by two
\* sources.
MixedURI == [it \in Items |-> IF it = c THEN c1 ELSE hx]
=============================================================================
