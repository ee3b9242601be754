----------------------------- MODULE MCMsQueue -----------------------------
(* A small instance of the Michael-Scott queue and its traversals for TLC. *)
EXTENDS MsQueueTraversal
CONSTANTS t1, t2, v1, v2

\* Threads are interchangeable, and so are values: it is enough to look at
\* the behaviours in which t1 calls first and v1 is enqueued before v2 is.
FirstThingsFirst ==
  /\ calls'[t2] > 0 => calls'[t1] > 0
  /\ (\E n \in Nodes : data'[n] = v2) => \E n \in Nodes : data'[n] = v1
=============================================================================
