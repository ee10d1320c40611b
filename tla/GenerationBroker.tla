--------------------------- MODULE GenerationBroker ---------------------------
(***************************************************************************)
(* The RabbitMQ topology that jobqueue.DeclareTopology builds: the main    *)
(* queue, the retry queue whose messages return to the main queue when     *)
(* their TTL ends, and the dead-letter queue.  A queue is a bag: with      *)
(* requeues, TTL returns and several consumers the order of delivery is    *)
(* not one the code relies on.  A message is the job id and the attempt    *)
(* header; a message being handled is held by its worker, outside the      *)
(* three bags, until it is settled.                                        *)
(***************************************************************************)
EXTENDS Integers, BagsExt

VARIABLES mainQ, retryQ, deadQ

queues == <<mainQ, retryQ, deadQ>>

Messages(ids) == [job : ids, attempt : Nat \ {0}]

IsQueueOf(ids, q) == DOMAIN q \subseteq Messages(ids) /\ q \in [DOMAIN q -> Nat \ {0}]

EmptyQueue == [m \in {} |-> 1]

InitQueues ==
    /\ mainQ = EmptyQueue
    /\ retryQ = EmptyQueue
    /\ deadQ = EmptyQueue

Msg(j, a) == [job |-> j, attempt |-> a]

(* PublishGenerationJob always starts at attempt 1; PublishRetry carries   *)
(* the attempt its caller computed.                                        *)
PublishGenerationJob(j) == mainQ' = BagAdd(mainQ, Msg(j, 1))
PublishRetry(j, a) == retryQ' = BagAdd(retryQ, Msg(j, a))

(* x-message-ttl and x-dead-letter-routing-key of the retry queue.         *)
RetryDelayEnds(m) ==
    /\ m \in DOMAIN retryQ
    /\ retryQ' = BagRemove(retryQ, m)
    /\ mainQ' = BagAdd(mainQ, m)
    /\ UNCHANGED deadQ
===============================================================================
