------------------------------- MODULE Presence -------------------------------
(***************************************************************************)
(* Trip presence: Trip Service keeps, in memory, the streams of the users  *)
(* who look at a trip, and sends every one of them a snapshot of who is    *)
(* there after each change.  A snapshot is computed under the manager's    *)
(* lock and sent after it, stream by stream, into bounded queues, so       *)
(* publishers overtake each other and a full queue drops the newest.       *)
(* Trips share nothing: one is modelled.                                   *)
(***************************************************************************)
EXTENDS Integers, Sequences, FiniteSets

CONSTANTS
    Viewers,                        \* users with access to the trip
    MaxConnectionsPerUserPerTrip,
    ClientBufferSize,
    MaxStreams,                     \* bound: streams ever opened
    MaxUpdates                      \* bound: state updates

ASSUME PresenceAssumption ==
    /\ MaxConnectionsPerUserPerTrip \in Nat \ {0} /\ ClientBufferSize \in Nat \ {0}
    /\ MaxStreams \in Nat /\ MaxUpdates \in Nat

VARIABLES
    streams,      \* streams ever opened: the client record and its handler
    publishing,   \* publications under way
    changes,      \* how often the registry changed: the age of snapshots
    updates

presenceVars == <<streams, publishing, changes, updates>>

PresenceStates == {"viewing", "editing"}
Snapshots == [users : [Viewers -> PresenceStates \cup {"absent"}], age : Nat]
Nothing == [users |-> [u \in Viewers |-> "absent"], age |-> 0]
StreamIds == 1..Len(streams)

Registered == {k \in StreamIds : streams[k].registered}
StreamsOf(u) == {k \in Registered : streams[k].user = u}

(* One user of several streams: editing in one of them is editing.         *)
SnapshotOf(registry, age) ==
    [age |-> age,
     users |-> [u \in Viewers |->
        LET mine == {k \in 1..Len(registry) : registry[k].registered /\ registry[k].user = u}
        IN IF mine = {} THEN "absent"
           ELSE IF \E k \in mine : registry[k].state = "editing" THEN "editing" ELSE "viewing"]]

PresenceInit ==
    /\ streams = << >>
    /\ publishing = {}
    /\ changes = 0
    /\ updates = 0

(* A publication is due, or has its snapshot and the streams to send it to.*)
Due(by) == [by |-> by, snapshot |-> Nothing, to |-> {0}]
IsDue(p) == p.to = {0}

Change(registry) == streams' = registry /\ changes' = changes + 1

-----------------------------------------------------------------------------
(* StreamPresence registers the stream; it gets the snapshot that everybody*)
(* gets (and once more before them: the second copy is left out).          *)
Register(u) ==
    LET k == Len(streams) + 1
        registry == Append(streams,
            [user |-> u, state |-> "viewing", registered |-> TRUE,
             queue |-> << >>, view |-> Nothing, handler |-> "streaming",
             offered |-> 0, missed |-> FALSE])
    IN /\ k =< MaxStreams
       /\ Cardinality(StreamsOf(u)) < MaxConnectionsPerUserPerTrip
       /\ Change(registry)
       /\ publishing' = publishing \cup
            {[by |-> <<"stream", k>>, snapshot |-> SnapshotOf(registry, changes + 1),
              to |-> Registered \cup {k}]}
       /\ UNCHANGED updates

(* The client is gone, a write failed, or the channel was closed and is    *)
(* drained: the handler returns ...                                        *)
StreamEnds(k) ==
    /\ streams[k].handler = "streaming"
    /\ streams' = [streams EXCEPT ![k].handler = "leaving", ![k].queue = << >>, ![k].view = Nothing]
    /\ UNCHANGED <<publishing, changes, updates>>

(* ... and its deferred call takes the stream out, if it is still in.      *)
Unregister(k) ==
    /\ streams[k].handler = "leaving"
    /\ IF streams[k].registered
       THEN /\ Change([streams EXCEPT ![k].handler = "ended", ![k].registered = FALSE])
            /\ publishing' = publishing \cup {Due(<<"leave", k>>)}
       ELSE /\ streams' = [streams EXCEPT ![k].handler = "ended"]
            /\ UNCHANGED <<publishing, changes>>
    /\ UNCHANGED updates

(* A broken variant, not part of the specification.                        *)
UpdateStateQuietly(u, state) ==
    /\ updates < MaxUpdates
    /\ updates' = updates + 1
    /\ StreamsOf(u) # {}
    /\ Change([k \in StreamIds |-> IF k \in StreamsOf(u)
                THEN [streams[k] EXCEPT !.state = state] ELSE streams[k]])
    /\ UNCHANGED publishing

(* UpdateState: all streams of the user, and they count as seen.           *)
UpdateState(u, state) ==
    /\ updates < MaxUpdates
    /\ updates' = updates + 1
    /\ IF StreamsOf(u) = {} THEN UNCHANGED <<streams, publishing, changes>>
       ELSE /\ Change([k \in StreamIds |-> IF k \in StreamsOf(u)
                        THEN [streams[k] EXCEPT !.state = state] ELSE streams[k]])
            /\ publishing' = publishing \cup {Due(<<"update", updates + 1>>)}

(* Streams without a state update for StaleAfter: heartbeats do not count. *)
(* How long ago each one was is left out.                                  *)
CleanupStale ==
    /\ \A p \in publishing : p.by[1] # "cleanup"
    /\ \E removed \in SUBSET Registered \ {{}} :
          Change([k \in StreamIds |-> IF k \in removed
                    THEN [streams[k] EXCEPT !.registered = FALSE] ELSE streams[k]])
    /\ publishing' = publishing \cup {Due(<<"cleanup", 0>>)}
    /\ UNCHANGED updates

(* PublishSnapshot reads the registry anew, under the lock ...             *)
PublishSnapshot(p) ==
    /\ IsDue(p)
    /\ publishing' = (publishing \ {p}) \cup
         (IF Registered = {} THEN {}
          ELSE {[p EXCEPT !.snapshot = SnapshotOf(streams, changes), !.to = Registered]})
    /\ UNCHANGED <<streams, changes, updates>>

(* ... and publishToClients sends, with trySend: a closed or a full queue  *)
(* misses the event.  "offered" and "missed" are history.                  *)
Offered(stream, snapshot) ==
    LET fits == Len(stream.queue) < ClientBufferSize
        newest == snapshot.age >= stream.offered
    IN IF ~stream.registered THEN stream ELSE
       [stream EXCEPT
          !.queue = IF fits THEN Append(@, snapshot) ELSE @,
          !.offered = IF newest THEN snapshot.age ELSE @,
          !.missed = ~fits \/ ~newest]

TrySend(p, k) ==
    /\ ~IsDue(p)
    /\ k \in p.to
    /\ streams' = [streams EXCEPT ![k] = Offered(@, p.snapshot)]
    /\ publishing' = (publishing \ {p}) \cup
         (IF p.to = {k} THEN {} ELSE {[p EXCEPT !.to = @ \ {k}]})
    /\ UNCHANGED <<changes, updates>>

(* The handler writes the next event to its client.                        *)
WriteEvent(k) ==
    /\ streams[k].handler = "streaming" /\ streams[k].queue # << >>
    /\ streams' = [streams EXCEPT ![k].queue = Tail(@), ![k].view = Head(streams[k].queue)]
    /\ UNCHANGED <<publishing, changes, updates>>

PresenceNext ==
    \/ \E u \in Viewers :
          Register(u) \/ \E state \in PresenceStates : UpdateState(u, state)
    \/ \E k \in StreamIds :
          StreamEnds(k) \/ Unregister(k) \/ WriteEvent(k)
    \/ \E p \in publishing :
          PublishSnapshot(p) \/ \E k \in StreamIds : TrySend(p, k)
    \/ CleanupStale

PresenceSpec == PresenceInit /\ [][PresenceNext]_presenceVars

-----------------------------------------------------------------------------
PresenceTypeOK ==
    /\ \A k \in StreamIds :
          /\ streams[k].user \in Viewers /\ streams[k].state \in PresenceStates
          /\ streams[k].queue \in Seq(Snapshots) /\ streams[k].view \in Snapshots
          /\ streams[k].handler \in {"streaming", "leaving", "ended"}
    /\ \A p \in publishing : p.snapshot \in Snapshots /\ p.to \subseteq StreamIds \cup {0}
    /\ changes \in Nat /\ updates \in Nat

(* When all is sent and read, a connected client shows who is there now,   *)
(* unless the last event sent to it was dropped or overtaken by an older   *)
(* one (publishToClients works outside the lock, trySend drops); and who   *)
(* is there has a stream that has not ended, however the cleanup and the   *)
(* end of a stream meet (Unregister, CleanupStale).                        *)
ViewsAreCurrent ==
    /\ \A k \in Registered : streams[k].handler # "ended"
    /\ publishing = {} =>
          \A k \in Registered :
              /\ streams[k].handler = "streaming" /\ streams[k].queue = << >>
              /\ ~streams[k].missed
              => streams[k].view.users = SnapshotOf(streams, changes).users
=============================================================================
