------------------------------- MODULE Digests -------------------------------
(***************************************************************************)
(* Notification digests.  An event that its user wants in a digest is put  *)
(* into the pending batch of its delivery time; Worker Service polls       *)
(* Notification Service, which claims due batches one by one, reads their  *)
(* items, delivers them and marks the batch sent, pending again for a      *)
(* retry, or failed.  One user's batches of one channel and mode are       *)
(* modelled: the others share no row with them.                            *)
(***************************************************************************)
EXTENDS Integers, Sequences, FiniteSets

CONSTANTS
    Events,           \* notifications to put into digests
    Processors,       \* passes of ProcessDue under way at a time
    MaxAttempts,
    MaxHour,          \* bound: the clock, in delivery times
    MaxDigestFaults   \* bound: lost statements, crashes, unsure deliveries

ASSUME DigestAssumption ==
    /\ MaxAttempts \in Nat \ {0}
    /\ MaxHour \in Nat /\ MaxDigestFaults \in Nat

VARIABLES
    batches,          \* the rows of notification_digest_batches, with items
    hour,
    scheduled,        \* the time an event was scheduled for: 0 before, and
                      \* Queued once its item is stored
    pass,             \* the batch each of Processors has claimed
    sends,            \* history: how often each event was delivered
    unsure,           \* history: batches delivered under a reported error
    stranded,         \* history: batches whose pass failed or stopped
    digestFaults

digestVars == <<batches, hour, scheduled, pass, sends, unsure, stranded, digestFaults>>

Queued == MaxHour + 2
BatchStatuses == {"pending", "processing", "sent", "failed"}
BatchRows == [slot : Nat, status : BatchStatuses, attempts : Nat, due : Nat,
              items : SUBSET Events]
BatchIds == 1..Len(batches)

IdlePass == [phase |-> "none", batch |-> 0, items |-> {}]
PassStates == [phase : {"none", "claimed", "loaded", "delivered", "undelivered"},
           batch : Nat, items : SUBSET Events]

DigestInit ==
    /\ batches = << >>
    /\ hour = 1
    /\ scheduled = [e \in Events |-> 0]
    /\ pass = [p \in Processors |-> IdlePass]
    /\ sends = [e \in Events |-> 0]
    /\ unsure = {}
    /\ stranded = {}
    /\ digestFaults = 0

Fault ==
    /\ digestFaults < MaxDigestFaults
    /\ digestFaults' = digestFaults + 1

GoOn(p, phase) == pass' = [pass EXCEPT ![p].phase = phase]
PassEnds(p) == pass' = [pass EXCEPT ![p] = IdlePass]
Sends(items) == sends' = [e \in Events |-> sends[e] + IF e \in items THEN 1 ELSE 0]

-----------------------------------------------------------------------------
(* Queueing.                                                               *)

(* The delivery time lies ahead when it is computed.                       *)
Schedule(e) ==
    /\ scheduled[e] = 0
    /\ scheduled' = [scheduled EXCEPT ![e] = hour + 1]
    /\ UNCHANGED <<batches, hour, pass, sends, unsure, stranded, digestFaults>>

(* A broken variant, not part of the specification.                        *)
JoinableUnlessDone(k, slot) ==
    batches[k].slot = slot /\ batches[k].status \in {"pending", "processing"}

(* ON CONFLICT (user_id,channel,mode,scheduled_for) WHERE status =         *)
(* 'pending': the unique index covers pending rows alone.                  *)
Joinable(k, slot) == batches[k].slot = slot /\ batches[k].status = "pending"

(* One transaction; the row of the batch is locked until it commits.       *)
QueueDigestItem(e) ==
    /\ scheduled[e] \in 1..(MaxHour + 1)
    /\ scheduled' = [scheduled EXCEPT ![e] = Queued]
    /\ IF \E k \in BatchIds : Joinable(k, scheduled[e])
       THEN \E k \in BatchIds :
               /\ Joinable(k, scheduled[e])
               /\ batches' = [batches EXCEPT ![k].items = @ \cup {e}]
       ELSE batches' = Append(batches,
               [slot |-> scheduled[e], status |-> "pending", attempts |-> 0,
                due |-> scheduled[e], items |-> {e}])
    /\ UNCHANGED <<hour, pass, sends, unsure, stranded, digestFaults>>

-----------------------------------------------------------------------------
(* ProcessDue.                                                             *)

Claimable(k) == batches[k].status = "pending" /\ batches[k].due =< hour

ClaimDueDigestBatch(p) ==
    /\ pass[p] = IdlePass
    /\ \E k \in BatchIds :
          /\ Claimable(k)
          /\ \A j \in BatchIds : Claimable(j) => batches[k].due =< batches[j].due
          /\ batches' = [batches EXCEPT ![k].status = "processing", ![k].attempts = @ + 1]
          /\ pass' = [pass EXCEPT ![p] = [phase |-> "claimed", batch |-> k, items |-> {}]]
    /\ UNCHANGED <<hour, scheduled, sends, unsure, stranded, digestFaults>>

GetDigestBatchByID(p) ==
    /\ pass[p].phase = "claimed"
    /\ \/ /\ pass' = [pass EXCEPT ![p].phase = "loaded", ![p].items = batches[pass[p].batch].items]
          /\ UNCHANGED digestFaults
       \/ Fault /\ GoOn(p, "undelivered")
    /\ UNCHANGED <<batches, hour, scheduled, sends, unsure, stranded>>

(* The sender delivers the items that were read; it may report an error    *)
(* for a digest that went out, or that did not.                            *)
Deliver(p) ==
    /\ pass[p].phase = "loaded"
    /\ \/ Sends(pass[p].items) /\ GoOn(p, "delivered") /\ UNCHANGED <<unsure, digestFaults>>
       \/ /\ Fault /\ GoOn(p, "undelivered")
          /\ \/ UNCHANGED <<sends, unsure>>
             \/ Sends(pass[p].items) /\ unsure' = unsure \cup {pass[p].batch}
    /\ UNCHANGED <<batches, hour, scheduled, stranded>>

(* WHERE id AND status='processing'.                                       *)
MarkDigestBatchSent(p) ==
    LET k == pass[p].batch IN
    /\ pass[p].phase = "delivered"
    /\ batches' = IF batches[k].status = "processing"
                  THEN [batches EXCEPT ![k].status = "sent"] ELSE batches
    /\ PassEnds(p)
    /\ UNCHANGED <<hour, scheduled, sends, unsure, stranded, digestFaults>>

(* A broken variant, not part of the specification.                        *)
RetryIfFailed(k) == batches[k].status = "failed"

Retryable(k) == batches[k].status = "processing"

(* A batch that turns pending again must be the only one of its slot: the  *)
(* unique index refuses it if events were queued for the slot meanwhile.   *)
MarkDigestBatchFailed(p) ==
    LET k     == pass[p].batch
        retry == batches[k].attempts < MaxAttempts
        taken == \E j \in BatchIds \ {k} : Joinable(j, batches[k].slot)
    IN /\ pass[p].phase = "undelivered"
       /\ IF retry /\ taken
          THEN stranded' = stranded \cup {k} /\ UNCHANGED batches
          ELSE /\ batches' = IF ~Retryable(k) THEN batches
                             ELSE IF retry THEN [batches EXCEPT ![k].status = "pending",
                                                                ![k].due = hour + 1]
                             ELSE [batches EXCEPT ![k].status = "failed"]
               /\ UNCHANGED stranded
       /\ PassEnds(p)
       /\ UNCHANGED <<hour, scheduled, sends, unsure, digestFaults>>

(* The service stops, or a marking statement fails and ends the pass: no   *)
(* statement looks for batches left in processing.                         *)
PassFails(p) ==
    /\ pass[p] # IdlePass
    /\ Fault
    /\ stranded' = stranded \cup {pass[p].batch}
    /\ PassEnds(p)
    /\ UNCHANGED <<batches, hour, scheduled, sends, unsure>>

HourPasses ==
    /\ hour < MaxHour
    /\ hour' = hour + 1
    /\ UNCHANGED <<batches, scheduled, pass, sends, unsure, stranded, digestFaults>>

DigestNext ==
    \/ \E e \in Events : Schedule(e) \/ QueueDigestItem(e)
    \/ \E p \in Processors :
          \/ ClaimDueDigestBatch(p) \/ GetDigestBatchByID(p) \/ Deliver(p)
          \/ MarkDigestBatchSent(p) \/ MarkDigestBatchFailed(p) \/ PassFails(p)
    \/ HourPasses

DigestSpec == DigestInit /\ [][DigestNext]_digestVars

-----------------------------------------------------------------------------
DigestTypeOK ==
    /\ batches \in Seq(BatchRows)
    /\ hour \in Nat
    /\ scheduled \in [Events -> 0..Queued]
    /\ pass \in [Processors -> PassStates]
    /\ \A p \in Processors : pass[p].phase # "none" => pass[p].batch \in BatchIds
    /\ sends \in [Events -> Nat]
    /\ unsure \subseteq BatchIds /\ stranded \subseteq BatchIds
    /\ digestFaults \in Nat

(* An event queued while its batch is claimed, read or delivered is not    *)
(* lost, and goes out once: the items of a batch marked sent were          *)
(* delivered, and twice only if a delivery of the batch was reported as    *)
(* failed (QueueDigestItem against ProcessDue and other passes).           *)
DeliveredOnce ==
    \A k \in BatchIds : \A e \in batches[k].items :
        /\ batches[k].status = "sent" => sends[e] > 0
        /\ k \notin unsure => sends[e] =< 1

(* A batch in processing is in the hands of a pass, unless its pass failed *)
(* or the index refused its retry: those stay in processing for good.      *)
ProcessingIsAttended ==
    \A k \in BatchIds \ stranded :
        batches[k].status = "processing" => \E p \in Processors : pass[p].batch = k
=============================================================================
