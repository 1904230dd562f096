--------------------------- MODULE MCWireTransport --------------------------
(* One thread at a time and a queue of one: a batch that uses the pool     *)
(* twice, the second time with data that cannot be posted, and two more.   *)
EXTENDS WireTransport

CONSTANTS w1, w2, t1, t2, t3, t4, s1, s2, s3

MCThreads == {w1, w2}
MCTasks == {t1, t2, t3, t4}
MCUncloneable == {t4}
MCSends == {s1, s2, s3}
MCJobs == (s1 :> <<t1, t4>>) @@ (s2 :> <<t2>>) @@ (s3 :> <<t3>>)
=============================================================================
