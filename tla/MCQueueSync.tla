---------------------------- MODULE MCQueueSync ----------------------------
(* Small instances of QueueSync for TLC.                                   *)
EXTENDS QueueSync

CONSTANTS p1, p2, c1, m1, none

OneProducer == {p1}
TwoProducers == {p1, p2}
OneConsumer == {c1}
OneManager == {m1}
Nobody == {}
OneOrTwo == {1, 2}
=============================================================================
