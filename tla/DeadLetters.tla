----------------------------- MODULE DeadLetters -----------------------------
(***************************************************************************)
(* The operator's requeue and discard of one dead letter.  RabbitMQ offers *)
(* no access by id, so Worker Service takes up to a page of messages off   *)
(* the dead-letter queue for good, looks for the one it wants, and         *)
(* publishes the others back to the dead-letter exchange one by one.  A    *)
(* message that is requeued may fail and be dead-lettered again.           *)
(***************************************************************************)
EXTENDS Integers, SequencesExt

CONSTANTS
    Letters,          \* messages
    Operators,        \* requests under way at a time
    PageSize,         \* messages taken at a time
    MaxActions,       \* bound: requests ever begun
    MaxLetterFaults   \* bound: failed or unsure calls, stops

ASSUME DeadLetterAssumption ==
    /\ IsFiniteSet(Letters)
    /\ PageSize \in Nat \ {0}
    /\ MaxActions \in Nat /\ MaxLetterFaults \in Nat

VARIABLES
    dead,             \* the dead-letter queue
    main,             \* the main queue, with the message a worker handles
    done,             \* messages handled or discarded
    action,           \* what each operator's request is doing
    actions,          \* requests begun so far
    dropped,          \* history: what a failed request had in hand
    letterFaults

letterVars == <<dead, main, done, action, actions, dropped, letterFaults>>

NoAction == [phase |-> "none", act |-> "requeue", target |-> "nothing",
             found |-> FALSE, rest |-> << >>]
Actions == [phase : {"none", "get", "move"}, act : {"requeue", "discard"},
            target : Letters \cup {"nothing"}, found : BOOLEAN, rest : Seq(Letters)]

DeadLetterInit ==
    /\ dead = SetToSeq(Letters)
    /\ main = << >>
    /\ done = {}
    /\ action = [o \in Operators |-> NoAction]
    /\ actions = 0
    /\ dropped = {}
    /\ letterFaults = 0

Act(o, a) == action' = [action EXCEPT ![o] = a]
Fails ==
    /\ letterFaults < MaxLetterFaults
    /\ letterFaults' = letterFaults + 1

-----------------------------------------------------------------------------
RequestAction(o) ==
    /\ action[o] = NoAction
    /\ actions < MaxActions
    /\ actions' = actions + 1
    /\ \E act \in {"requeue", "discard"}, m \in Letters :
          Act(o, [NoAction EXCEPT !.phase = "get", !.act = act, !.target = m])
    /\ UNCHANGED <<dead, main, done, dropped, letterFaults>>

(* ack_requeue_false: the page leaves the queue; its answer may get lost.  *)
GetMessages(o) ==
    LET n    == Min({PageSize, Len(dead)})
        page == SubSeq(dead, 1, n)
    IN /\ action[o].phase = "get"
       /\ dead' = SubSeq(dead, n + 1, Len(dead))
       /\ \/ /\ Act(o, [action[o] EXCEPT !.phase = "move", !.rest = page])
             /\ UNCHANGED <<dropped, letterFaults>>
          \/ /\ Fails
             /\ Act(o, NoAction)
             /\ dropped' = dropped \cup ToSet(page)
       /\ UNCHANGED <<main, done, actions>>

(* Broken variants, not part of the specification: the checks must notice  *)
(* each of them when it takes the place of the definition it resembles.    *)
PreserveNone(o, m) == UNCHANGED dead

(* publishRaw to the dead-letter exchange.                                 *)
Preserve(o, m) == dead' = Append(dead, m)

Moved(o, found) == [action[o] EXCEPT !.rest = Tail(action[o].rest), !.found = found]

(* One turn of the loop over the page.                                     *)
MoveMessage(o) ==
    LET a == action[o]
        m == Head(a.rest)
    IN /\ a.phase = "move"
       /\ a.rest # << >>
       /\ \/ /\ m = a.target
             /\ Act(o, Moved(o, TRUE))
             /\ \/ a.act = "requeue" /\ main' = Append(main, m) /\ UNCHANGED done
                \/ a.act = "discard" /\ done' = done \cup {m} /\ UNCHANGED main
             /\ UNCHANGED dead
          \/ /\ m # a.target
             /\ Act(o, Moved(o, a.found))
             /\ Preserve(o, m)
             /\ UNCHANGED <<main, done>>
       /\ UNCHANGED <<actions, dropped, letterFaults>>

(* An error of a publish, which may have had its effect, or a stop of the  *)
(* service ends the request: what is left of the page is in no queue.      *)
MoveFails(o) ==
    LET a == action[o]
        m == Head(a.rest)
    IN /\ a.phase = "move"
       /\ a.rest # << >>
       /\ Fails
       /\ \/ UNCHANGED <<dead, main>>
          \/ m # a.target /\ Preserve(o, m) /\ UNCHANGED main
          \/ m = a.target /\ a.act = "requeue" /\ main' = Append(main, m) /\ UNCHANGED dead
       /\ dropped' = dropped \cup ToSet(a.rest)
       /\ Act(o, NoAction)
       /\ UNCHANGED <<done, actions>>

(* Found or not, the answer ends the request.                              *)
AnswerAction(o) ==
    /\ action[o].phase = "move"
    /\ action[o].rest = << >>
    /\ Act(o, NoAction)
    /\ UNCHANGED <<dead, main, done, actions, dropped, letterFaults>>

(* A worker handles the first message of the main queue.                   *)
WorkerHandles ==
    /\ main # << >>
    /\ main' = Tail(main)
    /\ \/ dead' = Append(dead, Head(main)) /\ UNCHANGED done
       \/ done' = done \cup {Head(main)} /\ UNCHANGED dead
    /\ UNCHANGED <<action, actions, dropped, letterFaults>>

DeadLetterNext ==
    \/ \E o \in Operators :
          \/ RequestAction(o) \/ GetMessages(o) \/ MoveMessage(o) \/ MoveFails(o)
          \/ AnswerAction(o)
    \/ WorkerHandles

DeadLetterSpec == DeadLetterInit /\ [][DeadLetterNext]_letterVars

-----------------------------------------------------------------------------
DeadLetterTypeOK ==
    /\ dead \in Seq(Letters) /\ main \in Seq(Letters)
    /\ done \subseteq Letters
    /\ action \in [Operators -> Actions]
    /\ actions \in Nat /\ letterFaults \in Nat
    /\ dropped \subseteq Letters

Positions(queue, m) == {k \in DOMAIN queue : queue[k] = m}

(* Where message m is: in a queue, in the hands of a request, or done with.*)
Hands(m) == UNION {{o} \X Positions(action[o].rest, m) : o \in Operators}
Places(m) ==
    ({"dead"} \X Positions(dead, m)) \cup ({"main"} \X Positions(main, m))
        \cup ({"hand"} \X Hands(m)) \cup ({"done"} \X (done \cap {m}))

(* While operators work on the same queue, every message is in exactly one *)
(* place: a queue, the hands of one request, or handled or discarded; only *)
(* what a failed request had in hand may be gone (moveDLQMessage).         *)
EachLetterOnce == \A m \in Letters \ dropped : Cardinality(Places(m)) = 1
=============================================================================
