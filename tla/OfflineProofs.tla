---------------------------- MODULE OfflineProofs ----------------------------
(***************************************************************************)
(* Theorems about OfflineQueue, for every number of tabs, records, edits   *)
(* and closed tabs: no edit is lost but in the race that the code has, a   *)
(* change takes effect once but where an answer was lost or two passes had *)
(* listed it, and a record is not left in "syncing".                       *)
(*                                                                         *)
(* A step of the queue is a get or a put, so what each step does is proved *)
(* once (the ...Moves lemmas): the records keep kind, trip and base, and a *)
(* copy that a pass or a dialog has in hand is of the same record, with    *)
(* the draft of the record or of an older copy of it (CopiesFollow).       *)
(***************************************************************************)
EXTENDS OfflineQueue, TLAPS

(* Types, and what a pass or a dialog has in hand.                         *)
Writers == Nat \cup {Elsewhere, Merged}
Copies == Mutation \cup {NoCopy}
Lists == UNION {[S -> Nat] : S \in SUBSET Nat}
Outcomes == {"pending", "failed", "synced", "conflict"}
Histories == [raced : SUBSET Nat, decided : SUBSET Nat, unsure : SUBSET Nat,
              abandoned : SUBSET Nat]
PassRows == [phase : {"idle", "listed", "marking", "sending", "answered", "settling"},
             listed : Lists, at : Nat, copy : Copies, outcome : Outcomes \cup {"none"}]
DialogRows == [phase : {"idle", "saving", "creating", "patching", "merging", "merged"},
               at : Nat, copy : Copies, patch : {"none", "pending", "discarded", "synced"}]

(* A copy may be late, but is one of the same record.                      *)
SameRecord(copy, record) ==
    /\ copy \in Mutation
    /\ copy.kind = record.kind /\ copy.trip = record.trip /\ copy.base = record.base

HasCopy(pass) == pass.phase \in {"marking", "sending", "settling"}
PassOK(pass, rows) ==
    /\ pass \in PassRows
    /\ DOMAIN pass.listed \subseteq 1..Len(rows)
    /\ pass.phase = "idle" => DOMAIN pass.listed = {}
    /\ pass.phase \in {"idle", "listed"} => pass.at = 0
    /\ pass.phase \notin {"idle", "listed"} =>
          pass.at \in 1..Len(rows) /\ pass.at \in DOMAIN pass.listed
    /\ HasCopy(pass) => SameRecord(pass.copy, rows[pass.at])
    /\ pass.phase \in {"answered", "settling"} => pass.outcome \in Outcomes

DialogOK(dialog, rows) ==
    /\ dialog \in DialogRows
    /\ dialog.phase \in {"idle", "creating"} => dialog.at = 0
    /\ dialog.phase \notin {"idle", "creating"} =>
          dialog.at \in 1..Len(rows) /\ SameRecord(dialog.copy, rows[dialog.at])
    /\ dialog.phase = "creating" => dialog.copy \in Mutation
    /\ dialog.phase \in {"saving", "creating"} => dialog.copy.kind = "itinerary"
    /\ dialog.phase \in {"patching", "merging", "merged"} => dialog.patch \in FINAL_STATUSES
    /\ dialog.phase \in {"merging", "merged"} => dialog.patch = "synced"

QueueTypes ==
    /\ trips \in [Trips -> TripRows(Writers)]
    /\ pending \in Seq(Mutation)
    /\ entities \in Seq(0..2) /\ Len(entities) = Len(pending)
    /\ edits \in 0..MaxEdits
    /\ passes \in [Tabs -> PassRows] /\ \A b \in Tabs : PassOK(passes[b], pending)
    /\ dialogs \in [Pages -> DialogRows] /\ \A b \in Pages : DialogOK(dialogs[b], pending)
    /\ closedTabs \in Nat /\ history \in Histories

(* Records are changed in their status, draft and attempts, or added.      *)
Grown(rows, more) ==
    /\ more \in Seq(Mutation) /\ Len(rows) =< Len(more)
    /\ \A m \in 1..Len(rows) : SameRecord(more[m], rows[m])

LEMMA ListsAre ==
    /\ \A S \in SUBSET Nat : \A l \in [S -> Nat] : l \in Lists /\ DOMAIN l = S
    /\ \A l \in Lists : DOMAIN l \in SUBSET Nat /\ \A m \in DOMAIN l : l[m] \in Nat
  BY DEF Lists

(* What the changes of several fields make of a record.                    *)
PassOf(phase, listed, at, copy, outcome) ==
    [phase |-> phase, listed |-> listed, at |-> at, copy |-> copy, outcome |-> outcome]
DialogOf(phase, at, copy, patch) ==
    [phase |-> phase, at |-> at, copy |-> copy, patch |-> patch]
RecordOf(kind, trip, base, draft, status, attempts) ==
    [kind |-> kind, trip |-> trip, base |-> base, draft |-> draft, status |-> status,
       attemptCount |-> attempts]
HistoryOf(raced, decided, unsure, abandoned) ==
    [raced |-> raced, decided |-> decided, unsure |-> unsure, abandoned |-> abandoned]

LEMMA PassReads ==
    ASSUME NEW pass \in PassRows, NEW phase, NEW at, NEW copy
    PROVE  [pass EXCEPT !.phase = phase, !.at = at, !.copy = copy] =
             PassOf(phase, pass.listed, at, copy, pass.outcome)
  <1>1. [pass EXCEPT !.phase = phase] =
           PassOf(phase, pass.listed, pass.at, pass.copy, pass.outcome)
    BY DEF PassRows, PassOf
  <1>2. [pass EXCEPT !.phase = phase, !.at = at, !.copy = copy] =
           [[[pass EXCEPT !.phase = phase] EXCEPT !.at = at] EXCEPT !.copy = copy]
    OBVIOUS
  <1>3. \A mid : mid = PassOf(phase, pass.listed, pass.at, pass.copy, pass.outcome) =>
           [mid EXCEPT !.at = at] = PassOf(phase, pass.listed, at, pass.copy, pass.outcome)
    BY DEF PassOf
  <1>4. \A mid : mid = PassOf(phase, pass.listed, at, pass.copy, pass.outcome) =>
           [mid EXCEPT !.copy = copy] = PassOf(phase, pass.listed, at, copy, pass.outcome)
    BY DEF PassOf
  <1> QED BY <1>1, <1>2, <1>3, <1>4

LEMMA PassCopies ==
    ASSUME NEW pass \in PassRows, NEW phase, NEW copy
    PROVE  [pass EXCEPT !.phase = phase, !.copy = copy] =
             PassOf(phase, pass.listed, pass.at, copy, pass.outcome)
  <1>1. [pass EXCEPT !.phase = phase] =
           PassOf(phase, pass.listed, pass.at, pass.copy, pass.outcome)
    BY DEF PassRows, PassOf
  <1>2. [pass EXCEPT !.phase = phase, !.copy = copy] =
           [[pass EXCEPT !.phase = phase] EXCEPT !.copy = copy]
    OBVIOUS
  <1>3. \A mid : mid = PassOf(phase, pass.listed, pass.at, pass.copy, pass.outcome) =>
           [mid EXCEPT !.copy = copy] = PassOf(phase, pass.listed, pass.at, copy, pass.outcome)
    BY DEF PassOf
  <1> QED BY <1>1, <1>2, <1>3

LEMMA PassAnswers ==
    ASSUME NEW pass \in PassRows, NEW outcome
    PROVE  [pass EXCEPT !.phase = "answered", !.copy = NoCopy, !.outcome = outcome] =
             PassOf("answered", pass.listed, pass.at, NoCopy, outcome)
  <1>1. [pass EXCEPT !.phase = "answered", !.copy = NoCopy] =
           PassOf("answered", pass.listed, pass.at, NoCopy, pass.outcome)
    BY PassCopies
  <1>2. [pass EXCEPT !.phase = "answered", !.copy = NoCopy, !.outcome = outcome] =
           [[pass EXCEPT !.phase = "answered", !.copy = NoCopy] EXCEPT !.outcome = outcome]
    OBVIOUS
  <1>3. \A mid : mid = PassOf("answered", pass.listed, pass.at, NoCopy, pass.outcome) =>
           [mid EXCEPT !.outcome = outcome] =
              PassOf("answered", pass.listed, pass.at, NoCopy, outcome)
    BY DEF PassOf
  <1> QED BY <1>1, <1>2, <1>3

LEMMA PassLists ==
    ASSUME NEW phase, NEW listed
    PROVE  [IdlePass EXCEPT !.phase = phase, !.listed = listed] =
             PassOf(phase, listed, 0, NoCopy, "none")
  <1>1. [IdlePass EXCEPT !.phase = phase] =
           PassOf(phase, << >>, 0, NoCopy, "none")
    BY DEF IdlePass, PassOf
  <1>2. [IdlePass EXCEPT !.phase = phase, !.listed = listed] =
           [[IdlePass EXCEPT !.phase = phase] EXCEPT !.listed = listed]
    OBVIOUS
  <1>3. \A mid : mid = PassOf(phase, << >>, 0, NoCopy, "none") =>
           [mid EXCEPT !.listed = listed] = PassOf(phase, listed, 0, NoCopy, "none")
    BY DEF PassOf
  <1> QED BY <1>1, <1>2, <1>3

LEMMA DialogSteps ==
    ASSUME NEW dialog \in DialogRows, NEW phase
    PROVE  [dialog EXCEPT !.phase = phase] =
             DialogOf(phase, dialog.at, dialog.copy, dialog.patch)
  BY DEF DialogRows, DialogOf

LEMMA DialogCopies ==
    ASSUME NEW dialog \in DialogRows, NEW phase, NEW copy
    PROVE  [dialog EXCEPT !.phase = phase, !.copy = copy] =
             DialogOf(phase, dialog.at, copy, dialog.patch)
  <1>1. [dialog EXCEPT !.phase = phase] =
           DialogOf(phase, dialog.at, dialog.copy, dialog.patch)
    BY DEF DialogRows, DialogOf
  <1>2. [dialog EXCEPT !.phase = phase, !.copy = copy] =
           [[dialog EXCEPT !.phase = phase] EXCEPT !.copy = copy]
    OBVIOUS
  <1>3. \A mid : mid = DialogOf(phase, dialog.at, dialog.copy, dialog.patch) =>
           [mid EXCEPT !.copy = copy] = DialogOf(phase, dialog.at, copy, dialog.patch)
    BY DEF DialogOf
  <1> QED BY <1>1, <1>2, <1>3

LEMMA RecordGets ==
    ASSUME NEW record \in Mutation, NEW status
    PROVE  [record EXCEPT !.status = status] =
             RecordOf(record.kind, record.trip, record.base,
                      record.draft, status, record.attemptCount)
  BY DEF Mutation, RecordOf

LEMMA RecordSaves ==
    ASSUME NEW record \in Mutation, NEW draft, NEW status
    PROVE  [record EXCEPT !.draft = draft, !.status = status] =
             RecordOf(record.kind, record.trip, record.base,
                      draft, status, record.attemptCount)
  <1>1. [record EXCEPT !.draft = draft] =
           RecordOf(record.kind, record.trip, record.base,
                    draft, record.status, record.attemptCount)
    BY DEF Mutation, RecordOf
  <1>2. [record EXCEPT !.draft = draft, !.status = status] =
           [[record EXCEPT !.draft = draft] EXCEPT !.status = status]
    OBVIOUS
  <1>3. \A mid : mid = RecordOf(record.kind, record.trip, record.base,
                                 draft, record.status, record.attemptCount) =>
           [mid EXCEPT !.status = status] =
              RecordOf(record.kind, record.trip, record.base, draft, status, record.attemptCount)
    BY DEF RecordOf
  <1> QED BY <1>1, <1>2, <1>3

LEMMA RecordTries ==
    ASSUME NEW record \in Mutation, NEW status, NEW attempts
    PROVE  [record EXCEPT !.status = status, !.attemptCount = attempts] =
             RecordOf(record.kind, record.trip, record.base,
                      record.draft, status, attempts)
  <1>1. [record EXCEPT !.status = status] =
           RecordOf(record.kind, record.trip, record.base,
                    record.draft, status, record.attemptCount)
    BY DEF Mutation, RecordOf
  <1>2. [record EXCEPT !.status = status, !.attemptCount = attempts] =
           [[record EXCEPT !.status = status] EXCEPT !.attemptCount = attempts]
    OBVIOUS
  <1>3. \A mid : mid = RecordOf(record.kind, record.trip, record.base,
                                 record.draft, status, record.attemptCount) =>
           [mid EXCEPT !.attemptCount = attempts] =
              RecordOf(record.kind, record.trip, record.base, record.draft, status, attempts)
    BY DEF RecordOf
  <1> QED BY <1>1, <1>2, <1>3

LEMMA HistoryDecides ==
    ASSUME NEW past \in Histories, NEW decided
    PROVE  [past EXCEPT !.decided = decided] =
             HistoryOf(past.raced, decided, past.unsure, past.abandoned)
  BY DEF Histories, HistoryOf

LEMMA HistorySaves ==
    ASSUME NEW past \in Histories, NEW decided, NEW raced
    PROVE  [past EXCEPT !.decided = decided, !.raced = raced] =
             HistoryOf(raced, decided, past.unsure, past.abandoned)
  <1>1. [past EXCEPT !.decided = decided] =
           HistoryOf(past.raced, decided, past.unsure, past.abandoned)
    BY DEF Histories, HistoryOf
  <1>2. [past EXCEPT !.decided = decided, !.raced = raced] =
           [[past EXCEPT !.decided = decided] EXCEPT !.raced = raced]
    OBVIOUS
  <1>3. \A mid : mid = HistoryOf(past.raced, decided, past.unsure, past.abandoned) =>
           [mid EXCEPT !.raced = raced] = HistoryOf(raced, decided, past.unsure, past.abandoned)
    BY DEF HistoryOf
  <1> QED BY <1>1, <1>2, <1>3

LEMMA HistoryDoubts ==
    ASSUME NEW past \in Histories, NEW unsure
    PROVE  [past EXCEPT !.unsure = unsure] =
             HistoryOf(past.raced, past.decided, unsure, past.abandoned)
  BY DEF Histories, HistoryOf

LEMMA HistoryLeaves ==
    ASSUME NEW past \in Histories, NEW abandoned
    PROVE  [past EXCEPT !.abandoned = abandoned] =
             HistoryOf(past.raced, past.decided, past.unsure, abandoned)
  BY DEF Histories, HistoryOf

LEMMA GrownKeeps ==
    ASSUME NEW rows \in Seq(Mutation), NEW more, Grown(rows, more)
    PROVE  /\ \A pass : PassOK(pass, rows) => PassOK(pass, more)
           /\ \A dialog : DialogOK(dialog, rows) => DialogOK(dialog, more)
  <1>1. 1..Len(rows) \subseteq 1..Len(more)
    BY DEF Grown
  <1>2. ASSUME NEW pass, PassOK(pass, rows)
        PROVE  PassOK(pass, more)
    <2>1. HasCopy(pass) => SameRecord(pass.copy, more[pass.at])
      BY <1>1, <1>2 DEF PassOK, HasCopy, SameRecord, Grown
    <2> QED BY <1>1, <1>2, <2>1 DEF PassOK
  <1>3. ASSUME NEW dialog, DialogOK(dialog, rows)
        PROVE  DialogOK(dialog, more)
    BY <1>1, <1>3 DEF DialogOK, SameRecord, Grown
  <1> QED BY <1>2, <1>3

LEMMA IdleIsOK ==
    ASSUME NEW rows
    PROVE  PassOK(IdlePass, rows) /\ DialogOK(IdleDialog, rows)
  <1>1. DOMAIN << >> = {} /\ << >> \in Lists
    <2>1. << >> \in [{} -> Nat] /\ {} \in SUBSET Nat
      OBVIOUS
    <2> QED BY <2>1, ListsAre
  <1>2. IdlePass \in PassRows /\ IdleDialog \in DialogRows
    BY <1>1 DEF IdlePass, PassRows, IdleDialog, DialogRows, Copies, Outcomes
  <1> QED BY <1>1, <1>2 DEF PassOK, DialogOK, IdlePass, IdleDialog, HasCopy

(* At most one pass and one dialog move in a step.                         *)
PassMoves(new) ==
    \/ passes' = passes
    \/ \E b \in Tabs : passes' = [passes EXCEPT ![b] = new] /\ PassOK(new, pending')
DialogMoves(new) ==
    \/ dialogs' = dialogs
    \/ \E b \in Pages : dialogs' = [dialogs EXCEPT ![b] = new] /\ DialogOK(new, pending')

LEMMA TypesKept ==
    ASSUME QueueTypes, NEW pass, NEW dialog, PassMoves(pass), DialogMoves(dialog),
           trips' \in [Trips -> TripRows(Writers)], Grown(pending, pending'),
           entities' \in Seq(0..2), Len(entities') = Len(pending'), edits' \in 0..MaxEdits,
           closedTabs' \in Nat, history' \in Histories
    PROVE  QueueTypes'
  <1>1. pending \in Seq(Mutation) /\ pending' \in Seq(Mutation)
    BY DEF QueueTypes, Grown
  <1>2. /\ \A b \in Tabs : PassOK(passes[b], pending')
        /\ \A b \in Pages : DialogOK(dialogs[b], pending')
    BY <1>1, GrownKeeps DEF QueueTypes
  <1>3. passes' \in [Tabs -> PassRows] /\ \A b \in Tabs : PassOK(passes'[b], pending')
    <2>1. CASE passes' = passes
      BY <1>2, <2>1 DEF QueueTypes
    <2>2. ASSUME NEW b \in Tabs, passes' = [passes EXCEPT ![b] = pass], PassOK(pass, pending')
          PROVE  <1>3
      <3>1. pass \in PassRows
        BY <2>2 DEF PassOK
      <3> QED BY <1>2, <2>2, <3>1 DEF QueueTypes
    <2> QED BY <2>1, <2>2 DEF PassMoves
  <1>4. dialogs' \in [Pages -> DialogRows] /\ \A b \in Pages : DialogOK(dialogs'[b], pending')
    <2>1. CASE dialogs' = dialogs
      BY <1>2, <2>1 DEF QueueTypes
    <2>2. ASSUME NEW b \in Pages, dialogs' = [dialogs EXCEPT ![b] = dialog],
                 DialogOK(dialog, pending')
          PROVE  <1>4
      <3>1. dialog \in DialogRows
        BY <2>2 DEF DialogOK
      <3> QED BY <1>2, <2>2, <3>1 DEF QueueTypes
    <2> QED BY <2>1, <2>2 DEF DialogMoves
  <1> QED BY <1>1, <1>3, <1>4 DEF QueueTypes

(* What a step may do to drafts: a copy is made of a record, or stays, and *)
(* a record gets the draft of a copy of it, or a new one that is nowhere   *)
(* else.                                                                   *)
CopiesFollow ==
    /\ \A b \in Tabs : HasCopy(passes'[b]) =>
          \/ /\ passes'[b].at \in Ids
             /\ passes'[b].copy.draft = pending[passes'[b].at].draft
          \/ /\ HasCopy(passes[b]) /\ passes'[b].at = passes[b].at
             /\ passes'[b].copy.draft = passes[b].copy.draft
    /\ \A b \in Pages : dialogs'[b].at # 0 =>
          \/ /\ dialogs'[b].at \in Ids
             /\ dialogs'[b].copy.draft = pending[dialogs'[b].at].draft
          \/ /\ dialogs'[b].at = dialogs[b].at
             /\ dialogs'[b].copy.draft = dialogs[b].copy.draft
DraftFrom(m) ==
    \/ pending'[m].draft = pending[m].draft
    \/ \E b \in Tabs : /\ HasCopy(passes[b]) /\ passes[b].at = m
                       /\ pending'[m].draft = passes[b].copy.draft
    \/ \E b \in Pages : dialogs[b].at = m /\ pending'[m].draft = dialogs[b].copy.draft

(* The facts about types that the steps below use.                         *)
LEMMA QueueFacts ==
    ASSUME QueueTypes
    PROVE  /\ pending \in Seq(Mutation) /\ Len(pending) \in Nat /\ Ids \in SUBSET Nat
           /\ 0 \notin Ids /\ edits \in Nat /\ Grown(pending, pending)
           /\ \A m \in Ids : pending[m] \in Mutation
           /\ \A b \in Tabs : passes[b] \in PassRows /\ PassOK(passes[b], pending)
           /\ \A b \in Pages : dialogs[b] \in DialogRows /\ DialogOK(dialogs[b], pending)
  <1>1. pending \in Seq(Mutation) /\ Len(pending) \in Nat
    BY DEF QueueTypes
  <1>2. \A m \in 1..Len(pending) : pending[m] \in Mutation
    BY <1>1
  <1>3. Grown(pending, pending)
    BY <1>1, <1>2 DEF Grown, SameRecord
  <1> QED BY <1>1, <1>2, <1>3 DEF QueueTypes, Ids

(* A step of a pass that leaves the records and dialogs alone.             *)
LEMMA PassMovesAlone ==
    ASSUME QueueTypes, NEW b \in Tabs, NEW pass, passes' = [passes EXCEPT ![b] = pass],
           PassOK(pass, pending), UNCHANGED <<pending, dialogs, edits, closedTabs>>,
           trips' \in [Trips -> TripRows(Writers)], history' \in Histories,
           entities' \in Seq(0..2), Len(entities') = Len(pending),
           HasCopy(pass) =>
              \/ pass.at \in Ids /\ pass.copy.draft = pending[pass.at].draft
              \/ /\ HasCopy(passes[b]) /\ pass.at = passes[b].at
                 /\ pass.copy.draft = passes[b].copy.draft
    PROVE  QueueTypes' /\ CopiesFollow
  <1>1. QueueTypes'
    <2>1. PassMoves(pass) /\ DialogMoves(IdleDialog) /\ Grown(pending, pending')
      BY QueueFacts DEF PassMoves, DialogMoves
    <2>2. edits' \in 0..MaxEdits /\ closedTabs' \in Nat
      BY DEF QueueTypes
    <2> QED BY <2>1, <2>2, TypesKept
  <1>2. CopiesFollow
    <2>1. \A c \in Tabs : passes'[c] = IF c = b THEN pass ELSE passes[c]
      BY DEF QueueTypes
    <2> QED BY <2>1 DEF CopiesFollow
  <1> QED BY <1>1, <1>2

LEMMA DialogMovesAlone ==
    ASSUME QueueTypes, NEW b \in Pages, NEW dialog, dialogs' = [dialogs EXCEPT ![b] = dialog],
           DialogOK(dialog, pending), UNCHANGED <<pending, entities, passes, edits, closedTabs>>,
           trips' \in [Trips -> TripRows(Writers)], history' \in Histories,
           dialog.at # 0 =>
              \/ dialog.at \in Ids /\ dialog.copy.draft = pending[dialog.at].draft
              \/ /\ dialog.at = dialogs[b].at
                 /\ dialog.copy.draft = dialogs[b].copy.draft
    PROVE  QueueTypes' /\ CopiesFollow
  <1>1. QueueTypes'
    <2>1. PassMoves(IdlePass) /\ DialogMoves(dialog) /\ Grown(pending, pending')
      BY QueueFacts DEF PassMoves, DialogMoves
    <2>2. /\ edits' \in 0..MaxEdits /\ closedTabs' \in Nat
          /\ entities' \in Seq(0..2) /\ Len(entities') = Len(pending')
      BY DEF QueueTypes
    <2> QED BY <2>1, <2>2, TypesKept
  <1>2. CopiesFollow
    <2>1. \A c \in Pages : dialogs'[c] = IF c = b THEN dialog ELSE dialogs[c]
      BY DEF QueueTypes
    <2> QED BY <2>1 DEF CopiesFollow
  <1> QED BY <1>1, <1>2

LEMMA SavesAreTyped ==
    ASSUME QueueTypes, NEW t \in Trips, NEW writer \in Writers, NEW base \in Nat,
           trips' = [trips EXCEPT ![t] = UpdateItineraryAndCreateVersion(trips[t], writer, base)]
    PROVE  /\ trips' \in [Trips -> TripRows(Writers)]
           /\ \A u \in Trips \ {t} : trips'[u] = trips[u]
           /\ trips'[t].revision = trips[t].revision + 1
           /\ trips'[t].versions = Append(trips[t].versions, [writer |-> writer, base |-> base])
  <1> DEFINE row == UpdateItineraryAndCreateVersion(trips[t], writer, base)
             version == [writer |-> writer, base |-> base]
  <1>1. trips[t] \in TripRows(Writers) /\ trips \in [Trips -> TripRows(Writers)]
    BY DEF QueueTypes
  <1>2. /\ trips[t].revision \in Nat /\ trips[t].versions \in Seq([writer : Writers, base : Nat])
        /\ version \in [writer : Writers, base : Nat]
    BY <1>1 DEF TripRows
  <1>3. Append(trips[t].versions, version) \in Seq([writer : Writers, base : Nat])
    BY <1>2
  <1>4. /\ row \in TripRows(Writers) /\ row.revision = trips[t].revision + 1
        /\ row.versions = Append(trips[t].versions, version)
    BY <1>2, <1>3 DEF TripRows, TripStatuses, UpdateItineraryAndCreateVersion
  <1>5. trips' = [trips EXCEPT ![t] = row]
    OBVIOUS
  <1> HIDE DEF row, version
  <1>6. trips'[t] = row /\ trips' \in [Trips -> TripRows(Writers)]
        /\ \A u \in Trips \ {t} : trips'[u] = trips[u]
    BY <1>1, <1>4, <1>5
  <1> QED BY <1>4, <1>6 DEF version

LEMMA PutGrows ==
    ASSUME QueueTypes, NEW m \in Ids, NEW record, SameRecord(record, pending[m]), Put(m, record)
    PROVE  /\ Grown(pending, pending') /\ Len(pending') = Len(pending) /\ Ids' = Ids
           /\ pending'[m] = record
           /\ \A n \in Ids \ {m} : pending'[n] = pending[n]
  <1>1. /\ pending \in Seq(Mutation) /\ record \in Mutation /\ m \in 1..Len(pending)
        /\ pending' = [pending EXCEPT ![m] = record]
    BY QueueFacts DEF SameRecord, Put, Ids
  <1>2. /\ pending' \in Seq(Mutation) /\ Len(pending') = Len(pending) /\ pending'[m] = record
        /\ \A n \in (1..Len(pending)) \ {m} : pending'[n] = pending[n]
    BY <1>1
  <1>3. \A n \in 1..Len(pending) : SameRecord(pending'[n], pending[n])
    BY <1>1, <1>2, QueueFacts DEF Grown
  <1>4. Ids' = Ids /\ Len(pending) =< Len(pending')
    BY <1>2, QueueFacts DEF Ids
  <1> QED BY <1>2, <1>3, <1>4 DEF Grown, Ids

LEMMA AddGrows ==
    ASSUME QueueTypes, NEW record \in Mutation, Add(record)
    PROVE  /\ Grown(pending, pending') /\ Len(pending') = Len(pending) + 1
           /\ pending'[Len(pending) + 1] = record
           /\ \A n \in Ids : pending'[n] = pending[n]
           /\ Ids' = Ids \cup {Len(pending) + 1}
           /\ entities' \in Seq(0..2) /\ Len(entities') = Len(pending')
           /\ entities'[Len(pending) + 1] = 0
           /\ \A n \in Ids : entities'[n] = entities[n]
  <1>1. /\ pending \in Seq(Mutation) /\ entities \in Seq(0..2) /\ Len(entities) = Len(pending)
        /\ Len(pending) \in Nat
        /\ pending' = Append(pending, record) /\ entities' = Append(entities, 0)
    BY QueueFacts DEF QueueTypes, Add
  <1>2. /\ pending' \in Seq(Mutation) /\ Len(pending') = Len(pending) + 1
        /\ pending'[Len(pending) + 1] = record
        /\ \A n \in 1..Len(pending) : pending'[n] = pending[n]
    BY <1>1
  <1>3. /\ entities' \in Seq(0..2) /\ Len(entities') = Len(pending) + 1
        /\ entities'[Len(pending) + 1] = 0
        /\ \A n \in 1..Len(pending) : entities'[n] = entities[n]
    BY <1>1
  <1>4. Ids' = Ids \cup {Len(pending) + 1} /\ Len(pending) =< Len(pending')
    BY <1>1, <1>2 DEF Ids
  <1>5. \A n \in 1..Len(pending) : SameRecord(pending'[n], pending[n])
    BY <1>2, QueueFacts DEF Grown
  <1> QED BY <1>2, <1>3, <1>4, <1>5 DEF Grown, Ids

-----------------------------------------------------------------------------
(* What the pages do.                                                      *)
LEMMA BeginSaveMoves ==
    ASSUME QueueTypes, NEW b \in Pages, NEW t \in Trips, BeginSave(b, t)
    PROVE  QueueTypes' /\ CopiesFollow
  <1>1. UNCHANGED <<trips, pending, entities, edits, passes, closedTabs, history>>
    BY DEF BeginSave
  <1>2. trips' \in [Trips -> TripRows(Writers)] /\ history' \in Histories
    BY <1>1 DEF QueueTypes
  <1>3. ASSUME NEW m \in ActiveItineraryOf(t),
               SetDialog(b, [phase |-> "saving", at |-> m, copy |-> pending[m],
                             patch |-> "pending"])
        PROVE  QueueTypes' /\ CopiesFollow
    <2> DEFINE dialog == DialogOf("saving", m, pending[m], "pending")
    <2>1. m \in Ids /\ pending[m].kind = "itinerary" /\ pending[m] \in Mutation /\ m \in Nat
          /\ m # 0
      BY QueueFacts DEF ActiveItineraryOf
    <2>2. dialogs' = [dialogs EXCEPT ![b] = dialog]
      BY <1>3 DEF SetDialog, DialogOf
    <2>3. DialogOK(dialog, pending)
      BY <2>1 DEF DialogOK, DialogOf, DialogRows, Copies, SameRecord, Ids
    <2>4. dialog.at = m /\ dialog.copy = pending[m]
      BY DEF DialogOf
    <2> HIDE DEF dialog
    <2> QED BY <1>1, <1>2, <2>1, <2>2, <2>3, <2>4, DialogMovesAlone
  <1>4. ASSUME NEW base \in 0..trips[t].revision,
               SetDialog(b, [phase |-> "creating", at |-> 0, patch |-> "pending",
                             copy |-> [kind |-> "itinerary", trip |-> t, base |-> base,
                                       draft |-> 0, status |-> "pending", attemptCount |-> 0]])
        PROVE  QueueTypes' /\ CopiesFollow
    <2> DEFINE record == [kind |-> "itinerary", trip |-> t, base |-> base,
                          draft |-> 0, status |-> "pending", attemptCount |-> 0]
               dialog == DialogOf("creating", 0, record, "pending")
    <2>1. base \in Nat
      BY DEF QueueTypes, TripRows
    <2>2. record \in Mutation /\ record.kind = "itinerary"
      BY <2>1 DEF Mutation, ACTIVE_STATUSES
    <2> HIDE DEF record
    <2>3. dialogs' = [dialogs EXCEPT ![b] = dialog]
      BY <1>4 DEF SetDialog, DialogOf, record
    <2>4. DialogOK(dialog, pending)
      BY <2>2 DEF DialogOK, DialogOf, DialogRows, Copies
    <2>5. dialog.at = 0
      BY DEF DialogOf
    <2> HIDE DEF dialog
    <2> QED BY <1>1, <1>2, <2>3, <2>4, <2>5, DialogMovesAlone
  <1> QED BY <1>3, <1>4 DEF BeginSave

LEMMA OpenDialogMoves ==
    ASSUME QueueTypes, NEW b \in Pages, NEW m \in Ids, BeginDiscard(b, m) \/ OpenMerge(b, m)
    PROVE  QueueTypes' /\ CopiesFollow
  <1>1. UNCHANGED <<trips, pending, entities, edits, passes, closedTabs, history>>
    BY DEF BeginDiscard, OpenMerge
  <1>2. trips' \in [Trips -> TripRows(Writers)] /\ history' \in Histories
    BY <1>1 DEF QueueTypes
  <1>3. PICK phase \in {"patching", "merging"}, patch \in FINAL_STATUSES :
           /\ phase = "merging" => patch = "synced"
           /\ dialogs' = [dialogs EXCEPT ![b] = DialogOf(phase, m, pending[m], patch)]
    BY DEF BeginDiscard, OpenMerge, SetDialog, DialogOf, FINAL_STATUSES
  <1> DEFINE dialog == DialogOf(phase, m, pending[m], patch)
  <1>4. m \in Ids /\ pending[m] \in Mutation /\ m \in Nat /\ m # 0
    BY QueueFacts
  <1>5. DialogOK(dialog, pending)
    BY <1>3, <1>4 DEF DialogOK, DialogOf, DialogRows, Copies, SameRecord, Ids, FINAL_STATUSES
  <1>6. dialog.at = m /\ dialog.copy = pending[m]
    BY DEF DialogOf
  <1> HIDE DEF dialog
  <1> QED BY <1>1, <1>2, <1>3, <1>4, <1>5, <1>6, DialogMovesAlone DEF dialog

LEMMA CloseMergeMoves ==
    ASSUME QueueTypes, NEW b \in Pages, CloseMerge(b)
    PROVE  QueueTypes' /\ CopiesFollow
  <1>1. UNCHANGED <<trips, pending, entities, edits, passes, closedTabs, history>>
    BY DEF CloseMerge
  <1>2. trips' \in [Trips -> TripRows(Writers)] /\ history' \in Histories
    BY <1>1 DEF QueueTypes
  <1>3. dialogs' = [dialogs EXCEPT ![b] = IdleDialog] /\ IdleDialog.at = 0
    BY DEF CloseMerge, SetDialog, IdleDialog
  <1> HIDE DEF IdleDialog
  <1> QED BY <1>1, <1>2, <1>3, IdleIsOK, DialogMovesAlone

LEMMA ApplyMergeMoves ==
    ASSUME QueueTypes, NEW b \in Pages, ApplyMerge(b)
    PROVE  QueueTypes' /\ CopiesFollow
  <1> DEFINE dialog == DialogOf("merged", dialogs[b].at, dialogs[b].copy, dialogs[b].patch)
             t == dialogs[b].copy.trip
  <1>1. /\ dialogs[b] \in DialogRows /\ DialogOK(dialogs[b], pending)
        /\ dialogs[b].phase = "merging"
    BY QueueFacts DEF ApplyMerge
  <1>2. dialogs' = [dialogs EXCEPT ![b] = dialog]
    BY <1>1, DialogSteps DEF ApplyMerge, SetDialog
  <1>3. DialogOK(dialog, pending)
    BY <1>1 DEF DialogOK, DialogOf, DialogRows
  <1>4. t \in Trips
    BY <1>1 DEF DialogOK, SameRecord, Mutation
  <1>5. trips[t].revision \in Nat /\ Merged \in Writers
    BY <1>4 DEF QueueTypes, TripRows, Writers
  <1>6. trips' \in [Trips -> TripRows(Writers)]
    <2>1. trips' = [trips EXCEPT ![t] =
                      UpdateItineraryAndCreateVersion(trips[t], Merged, trips[t].revision)]
      BY <1>4 DEF ApplyMerge, QueueTypes
    <2> QED BY <1>4, <1>5, <2>1, SavesAreTyped
  <1>7. history' \in Histories
    <2>1. history \in Histories /\ dialogs[b].copy.draft \in Nat
      BY <1>1 DEF QueueTypes, DialogOK, SameRecord, Mutation
    <2> QED BY <2>1, HistoryDecides DEF ApplyMerge, Histories, HistoryOf
  <1>8. UNCHANGED <<pending, entities, edits, passes, closedTabs>>
    BY DEF ApplyMerge
  <1>9. dialog.at = dialogs[b].at /\ dialog.copy = dialogs[b].copy
    BY DEF DialogOf
  <1> HIDE DEF dialog, t
  <1> QED BY <1>2, <1>3, <1>6, <1>7, <1>8, <1>9, DialogMovesAlone

LEMMA ReadMergedMoves ==
    ASSUME QueueTypes, NEW b \in Pages, ReadMerged(b)
    PROVE  QueueTypes' /\ CopiesFollow
  <1> DEFINE m == dialogs[b].at
             dialog == DialogOf("patching", m, pending[m], dialogs[b].patch)
  <1>1. /\ dialogs[b] \in DialogRows /\ DialogOK(dialogs[b], pending)
        /\ dialogs[b].phase = "merged"
    BY QueueFacts DEF ReadMerged
  <1>2. dialogs' = [dialogs EXCEPT ![b] = dialog]
    BY <1>1, DialogCopies DEF ReadMerged, SetDialog
  <1>3. m \in Ids /\ m \in Nat /\ pending[m] \in Mutation
    BY <1>1, QueueFacts DEF DialogOK, Ids
  <1>4. DialogOK(dialog, pending)
    BY <1>1, <1>3 DEF DialogOK, DialogOf, DialogRows, Copies, SameRecord
  <1>5. UNCHANGED <<trips, pending, entities, edits, passes, closedTabs, history>>
    BY DEF ReadMerged
  <1>6. trips' \in [Trips -> TripRows(Writers)] /\ history' \in Histories
    BY <1>5 DEF QueueTypes
  <1>7. dialog.at = m /\ dialog.copy = pending[m]
    BY DEF DialogOf
  <1> HIDE DEF dialog
  <1> QED BY <1>2, <1>3, <1>4, <1>5, <1>6, <1>7, DialogMovesAlone

LEMMA DialogPuts ==
    ASSUME QueueTypes, NEW b \in Pages, NEW m \in Ids, NEW record,
           SameRecord(record, pending[m]), Put(m, record), SetDialog(b, IdleDialog),
           UNCHANGED <<trips, entities, passes, closedTabs>>,
           edits' \in 0..MaxEdits, history' \in Histories
    PROVE  /\ QueueTypes' /\ CopiesFollow /\ pending'[m] = record /\ Ids' = Ids
           /\ \A n \in Ids \ {m} : pending'[n] = pending[n]
           /\ dialogs'[b] = IdleDialog /\ \A c \in Pages \ {b} : dialogs'[c] = dialogs[c]
  <1>1. /\ Grown(pending, pending') /\ Len(pending') = Len(pending)
        /\ pending'[m] = record /\ Ids' = Ids
        /\ \A n \in Ids \ {m} : pending'[n] = pending[n]
    BY PutGrows
  <1>2. dialogs' = [dialogs EXCEPT ![b] = IdleDialog] /\ DialogOK(IdleDialog, pending')
    BY IdleIsOK DEF SetDialog
  <1>3. IdleDialog.at = 0
    BY DEF IdleDialog
  <1> HIDE DEF IdleDialog
  <1>4. QueueTypes'
    <2>1. PassMoves(IdlePass) /\ DialogMoves(IdleDialog)
      BY <1>2 DEF PassMoves, DialogMoves
    <2>2. /\ trips' \in [Trips -> TripRows(Writers)] /\ closedTabs' \in Nat
          /\ entities' \in Seq(0..2) /\ Len(entities') = Len(pending')
      BY <1>1 DEF QueueTypes
    <2> QED BY <1>1, <2>1, <2>2, TypesKept
  <1>5. dialogs'[b] = IdleDialog /\ \A c \in Pages \ {b} : dialogs'[c] = dialogs[c]
    BY <1>2 DEF QueueTypes
  <1>6. CopiesFollow
    BY <1>3, <1>5 DEF CopiesFollow
  <1> QED BY <1>1, <1>4, <1>5, <1>6

LEMMA PassPuts ==
    ASSUME QueueTypes, NEW b \in Tabs, NEW m \in Ids, NEW record, NEW pass,
           SameRecord(record, pending[m]), Put(m, record), SetPass(b, pass),
           UNCHANGED <<trips, entities, edits, dialogs, closedTabs, history>>,
           PassOK(pass, pending),
           HasCopy(pass) => /\ HasCopy(passes[b]) /\ pass.at = passes[b].at
                            /\ pass.copy.draft = passes[b].copy.draft
    PROVE  /\ QueueTypes' /\ CopiesFollow /\ pending'[m] = record /\ Ids' = Ids
           /\ \A n \in Ids \ {m} : pending'[n] = pending[n]
           /\ passes'[b] = pass /\ \A c \in Tabs \ {b} : passes'[c] = passes[c]
  <1>1. /\ Grown(pending, pending') /\ Len(pending') = Len(pending)
        /\ pending'[m] = record /\ Ids' = Ids
        /\ \A n \in Ids \ {m} : pending'[n] = pending[n]
    BY PutGrows
  <1>2. passes' = [passes EXCEPT ![b] = pass] /\ PassOK(pass, pending')
    BY <1>1, QueueFacts, GrownKeeps DEF SetPass
  <1>3. QueueTypes'
    <2>1. PassMoves(pass) /\ DialogMoves(IdleDialog)
      BY <1>2 DEF PassMoves, DialogMoves
    <2>2. /\ trips' \in [Trips -> TripRows(Writers)] /\ closedTabs' \in Nat
          /\ entities' \in Seq(0..2) /\ Len(entities') = Len(pending')
          /\ edits' \in 0..MaxEdits /\ history' \in Histories
      BY <1>1 DEF QueueTypes
    <2> QED BY <1>1, <2>1, <2>2, TypesKept
  <1>4. passes'[b] = pass /\ \A c \in Tabs \ {b} : passes'[c] = passes[c]
    BY <1>2 DEF QueueTypes
  <1>5. CopiesFollow
    BY <1>4 DEF CopiesFollow
  <1> QED BY <1>1, <1>3, <1>4, <1>5

(* A save over the active record of the trip; a save into a new record is  *)
(* the other half.                                                         *)
LEMMA SavesOverMove ==
    ASSUME QueueTypes, NEW b \in Pages, FinishSave(b), dialogs[b].phase = "saving"
    PROVE  /\ QueueTypes' /\ CopiesFollow /\ dialogs[b].at \in Ids /\ Ids' = Ids
           /\ SameRecord(pending'[dialogs[b].at], pending[dialogs[b].at])
           /\ pending[dialogs[b].at].kind = "itinerary"
           /\ pending'[dialogs[b].at].draft = edits + 1
           /\ pending'[dialogs[b].at].status = "pending"
           /\ \A n \in Ids \ {dialogs[b].at} : pending'[n] = pending[n]
           /\ history'.raced = IF InFlight(dialogs[b].at, Pages \ {b})
                               THEN history.raced \cup {edits + 1} ELSE history.raced
           /\ history'.decided = history.decided \cup {dialogs[b].copy.draft}
           /\ history'.unsure = history.unsure /\ history'.abandoned = history.abandoned
           /\ edits' = edits + 1
           /\ UNCHANGED <<trips, entities, passes>>
           /\ dialogs'[b] = IdleDialog /\ \A c \in Pages \ {b} : dialogs'[c] = dialogs[c]
  <1>1. /\ dialogs[b] \in DialogRows /\ DialogOK(dialogs[b], pending) /\ edits \in Nat
    BY QueueFacts
  <1>2. PICK m \in Ids, copy \in Mutation :
           /\ m = dialogs[b].at /\ copy = dialogs[b].copy /\ copy.kind = "itinerary"
           /\ SameRecord(copy, pending[m])
    BY <1>1 DEF DialogOK, SameRecord, Ids
  <1>3. PICK record : record = [copy EXCEPT !.draft = edits + 1, !.status = "pending"]
    OBVIOUS
  <1>4. record = RecordOf(copy.kind, copy.trip, copy.base, edits + 1, "pending", copy.attemptCount)
    BY <1>3, RecordSaves
  <1>5. /\ SameRecord(record, pending[m]) /\ record.draft = edits + 1
        /\ record.status = "pending"
    BY <1>1, <1>2, <1>4 DEF RecordOf, SameRecord, Mutation, ACTIVE_STATUSES
  <1>6. /\ Put(m, record) /\ SetDialog(b, IdleDialog) /\ edits' = edits + 1 /\ edits < MaxEdits
        /\ UNCHANGED <<trips, entities, passes, closedTabs>>
        /\ history' = [history EXCEPT
                         !.decided = @ \cup {dialogs[b].copy.draft},
                         !.raced = IF InFlight(m, Pages \ {b}) THEN @ \cup {edits + 1} ELSE @]
    BY <1>2, <1>3 DEF FinishSave
  <1>7. PICK raced : raced = IF InFlight(m, Pages \ {b}) THEN history.raced \cup {edits + 1}
                             ELSE history.raced
    OBVIOUS
  <1>8. history \in Histories /\ history' = HistoryOf(raced, history.decided \cup {copy.draft},
                                                      history.unsure, history.abandoned)
    <2>1. history \in Histories
      BY DEF QueueTypes
    <2>2. history' = [history EXCEPT !.decided = history.decided \cup {copy.draft}, !.raced = raced]
      BY <1>2, <1>6, <1>7
    <2> QED BY <2>1, <2>2, HistorySaves
  <1>9. history' \in Histories /\ edits' \in 0..MaxEdits
    <2>1. MaxEdits \in Nat
      BY OfflineAssumption
    <2>2. raced \in SUBSET Nat /\ copy.draft \in Nat
      BY <1>1, <1>7, <1>8 DEF Histories, Mutation
    <2> QED BY <1>1, <1>6, <1>8, <2>1, <2>2 DEF Histories, HistoryOf
  <1>10. /\ QueueTypes' /\ CopiesFollow /\ pending'[m] = record /\ Ids' = Ids
         /\ \A n \in Ids \ {m} : pending'[n] = pending[n]
         /\ dialogs'[b] = IdleDialog /\ \A c \in Pages \ {b} : dialogs'[c] = dialogs[c]
    BY <1>5, <1>6, <1>9, DialogPuts
  <1>11. pending[m].kind = "itinerary"
    BY <1>2 DEF SameRecord
  <1>12. /\ history'.raced = raced /\ history'.decided = history.decided \cup {copy.draft}
         /\ history'.unsure = history.unsure /\ history'.abandoned = history.abandoned
    BY <1>8 DEF HistoryOf
  <1> QED BY <1>2, <1>5, <1>6, <1>7, <1>10, <1>11, <1>12

LEMMA AddsMove ==
    ASSUME QueueTypes, NEW record \in Mutation, Add(record),
           UNCHANGED <<trips, passes, closedTabs, history>>, edits' \in 0..MaxEdits,
           NEW b, dialogs' = dialogs \/ (b \in Pages /\ SetDialog(b, IdleDialog))
    PROVE  QueueTypes' /\ CopiesFollow
  <1>1. /\ Grown(pending, pending') /\ Len(pending') = Len(pending) + 1
        /\ entities' \in Seq(0..2) /\ Len(entities') = Len(pending')
    BY AddGrows
  <1>2. PassMoves(IdlePass) /\ DialogMoves(IdleDialog)
    BY IdleIsOK DEF PassMoves, DialogMoves, SetDialog
  <1>3. IdleDialog.at = 0
    BY DEF IdleDialog
  <1> HIDE DEF IdleDialog
  <1>4. \A c \in Pages : dialogs'[c] = dialogs[c] \/ dialogs'[c] = IdleDialog
    BY DEF QueueTypes, SetDialog
  <1>5. trips' \in [Trips -> TripRows(Writers)] /\ closedTabs' \in Nat /\ history' \in Histories
    BY DEF QueueTypes
  <1> QED BY <1>1, <1>2, <1>3, <1>4, <1>5, TypesKept DEF CopiesFollow

LEMMA SavesAnewMove ==
    ASSUME QueueTypes, NEW b \in Pages, FinishSave(b), dialogs[b].phase = "creating"
    PROVE  /\ QueueTypes' /\ CopiesFollow
           /\ edits' = edits + 1 /\ UNCHANGED <<trips, passes, history>>
           /\ dialogs'[b] = IdleDialog /\ \A c \in Pages \ {b} : dialogs'[c] = dialogs[c]
           /\ \E record \in Mutation :
                 /\ Add(record) /\ record.draft = edits + 1 /\ record.status = "pending"
                 /\ record.kind = "itinerary"
  <1>1. /\ dialogs[b] \in DialogRows /\ DialogOK(dialogs[b], pending) /\ edits \in Nat
    BY QueueFacts
  <1>2. PICK copy \in Mutation : copy = dialogs[b].copy /\ copy.kind = "itinerary"
    BY <1>1 DEF DialogOK
  <1>3. PICK record : record = [copy EXCEPT !.draft = edits + 1, !.status = "pending"]
    OBVIOUS
  <1>4. record = RecordOf(copy.kind, copy.trip, copy.base, edits + 1, "pending", copy.attemptCount)
    BY <1>3, RecordSaves
  <1>5. /\ record \in Mutation /\ record.draft = edits + 1
        /\ record.status = "pending" /\ record.kind = "itinerary"
    BY <1>1, <1>2, <1>4 DEF RecordOf, Mutation, ACTIVE_STATUSES
  <1>6. /\ Add(record) /\ SetDialog(b, IdleDialog) /\ edits' = edits + 1 /\ edits < MaxEdits
        /\ UNCHANGED <<trips, passes, closedTabs, history>>
    BY <1>2, <1>3 DEF FinishSave
  <1>7. edits' \in 0..MaxEdits
    BY <1>1, <1>6, OfflineAssumption
  <1>8. dialogs'[b] = IdleDialog /\ \A c \in Pages \ {b} : dialogs'[c] = dialogs[c]
    BY <1>6 DEF SetDialog, QueueTypes
  <1> QED BY <1>5, <1>6, <1>7, <1>8, AddsMove

LEMMA CompanionMoves ==
    ASSUME QueueTypes, NEW t \in Trips, enqueueCompanionMutation(t)
    PROVE  /\ QueueTypes' /\ CopiesFollow
           /\ UNCHANGED <<trips, edits, passes, dialogs, history>>
           /\ \E record \in Mutation :
                 /\ Add(record) /\ record.draft = 0 /\ record.status = "pending"
                 /\ record.kind = "create"
  <1>1. PICK record : /\ record = [kind |-> "create", trip |-> t, base |-> 0, draft |-> 0,
                                    status |-> "pending", attemptCount |-> 0]
                      /\ Add(record)
    BY DEF enqueueCompanionMutation
  <1>2. /\ record \in Mutation /\ record.draft = 0 /\ record.status = "pending"
        /\ record.kind = "create"
    BY <1>1 DEF Mutation, ACTIVE_STATUSES
  <1>3. UNCHANGED <<trips, edits, passes, dialogs, closedTabs, history>>
    BY DEF enqueueCompanionMutation
  <1>4. edits' \in 0..MaxEdits
    BY <1>3 DEF QueueTypes
  <1> QED BY <1>1, <1>2, <1>3, <1>4, AddsMove

LEMMA PatchMoves ==
    ASSUME QueueTypes, NEW b \in Pages, Patch(b)
    PROVE  /\ QueueTypes' /\ CopiesFollow /\ dialogs[b].at \in Ids /\ Ids' = Ids
           /\ SameRecord(pending'[dialogs[b].at], pending[dialogs[b].at])
           /\ pending'[dialogs[b].at].draft = dialogs[b].copy.draft
           /\ pending'[dialogs[b].at].status = dialogs[b].patch
           /\ dialogs[b].patch \in FINAL_STATUSES /\ dialogs[b].phase = "patching"
           /\ \A n \in Ids \ {dialogs[b].at} : pending'[n] = pending[n]
           /\ history'.raced = history.raced
           /\ history'.decided =
                 IF dialogs[b].patch = "discarded"
                 THEN history.decided \cup {dialogs[b].copy.draft} ELSE history.decided
           /\ history'.unsure = history.unsure /\ history'.abandoned = history.abandoned
           /\ UNCHANGED <<trips, entities, edits, passes>>
           /\ dialogs'[b] = IdleDialog /\ \A c \in Pages \ {b} : dialogs'[c] = dialogs[c]
  <1>1. /\ dialogs[b] \in DialogRows /\ DialogOK(dialogs[b], pending) /\ edits \in Nat
        /\ dialogs[b].phase = "patching"
    BY QueueFacts DEF Patch
  <1>2. PICK m \in Ids, copy \in Mutation :
           m = dialogs[b].at /\ copy = dialogs[b].copy /\ SameRecord(copy, pending[m])
    BY <1>1 DEF DialogOK, SameRecord, Ids
  <1>3. PICK patch \in FINAL_STATUSES : patch = dialogs[b].patch
    BY <1>1 DEF DialogOK
  <1>4. PICK record : record = [copy EXCEPT !.status = patch]
    OBVIOUS
  <1>5. record = RecordOf(copy.kind, copy.trip, copy.base, copy.draft, patch, copy.attemptCount)
    BY <1>4, RecordGets
  <1>6. SameRecord(record, pending[m]) /\ record.draft = copy.draft /\ record.status = patch
    BY <1>2, <1>5 DEF RecordOf, SameRecord, Mutation
  <1>7. /\ Put(m, record) /\ SetDialog(b, IdleDialog)
        /\ UNCHANGED <<trips, entities, edits, passes, closedTabs>>
        /\ history' = IF patch = "discarded"
                      THEN [history EXCEPT !.decided = @ \cup {copy.draft}] ELSE history
    BY <1>2, <1>3, <1>4 DEF Patch
  <1>8. /\ history' \in Histories
        /\ history'.raced = history.raced /\ history'.unsure = history.unsure
        /\ history'.abandoned = history.abandoned
        /\ history'.decided = IF patch = "discarded" THEN history.decided \cup {copy.draft}
                              ELSE history.decided
    <2>1. history \in Histories /\ copy.draft \in Nat
      BY DEF QueueTypes, Mutation
    <2>2. CASE patch = "discarded"
      <3>1. history' = HistoryOf(history.raced, history.decided \cup {copy.draft},
                                 history.unsure, history.abandoned)
        BY <1>7, <2>1, <2>2, HistoryDecides
      <3> QED BY <2>1, <2>2, <3>1 DEF Histories, HistoryOf
    <2>3. CASE patch # "discarded"
      BY <1>7, <2>1, <2>3
    <2> QED BY <2>2, <2>3
  <1>9. edits' \in 0..MaxEdits
    BY <1>7 DEF QueueTypes
  <1>10. /\ QueueTypes' /\ CopiesFollow /\ pending'[m] = record /\ Ids' = Ids
         /\ \A n \in Ids \ {m} : pending'[n] = pending[n]
         /\ dialogs'[b] = IdleDialog /\ \A c \in Pages \ {b} : dialogs'[c] = dialogs[c]
    BY <1>6, <1>7, <1>8, <1>9, DialogPuts
  <1> QED BY <1>1, <1>2, <1>3, <1>6, <1>7, <1>8, <1>10

-----------------------------------------------------------------------------
(* What the passes do.                                                     *)
Onwards(b, pass) ==
    /\ passes'[b] = pass
    /\ \A c \in Tabs \ {b} : passes'[c] = passes[c]

LEMMA StartPassMoves ==
    ASSUME QueueTypes, NEW b \in Tabs, StartPass(b)
    PROVE  /\ QueueTypes' /\ CopiesFollow
           /\ passes[b].phase = "idle"
           /\ \E listed \in Lists : DOMAIN listed = DueForSync
                 /\ Onwards(b, PassOf("listed", listed, 0, NoCopy, "none"))
           /\ history'.unsure = history.unsure \cup
                 {m \in DueForSync : \E c \in Tabs : m \in DOMAIN passes[c].listed}
           /\ history'.raced = history.raced /\ history'.decided = history.decided
           /\ history'.abandoned = history.abandoned
           /\ UNCHANGED <<trips, pending, entities, edits, dialogs>>
  <1>1. PICK due : due = DueForSync
    OBVIOUS
  <1>2. due \subseteq Ids /\ due \in SUBSET Nat /\ \A m \in due : pending[m].attemptCount \in Nat
    BY <1>1, QueueFacts DEF DueForSync, Mutation
  <1>3. PICK listed : listed = [m \in due |-> pending[m].attemptCount]
    OBVIOUS
  <1>4. listed \in [due -> Nat]
    BY <1>2, <1>3
  <1>5. listed \in Lists /\ DOMAIN listed = due
    BY <1>2, <1>4, ListsAre
  <1>6. PICK pass : pass = PassOf("listed", listed, 0, NoCopy, "none")
    OBVIOUS
  <1>7. passes' = [passes EXCEPT ![b] = pass]
    <2>1. passes' = [passes EXCEPT ![b] = [IdlePass EXCEPT !.phase = "listed", !.listed = listed]]
      BY <1>1, <1>3 DEF StartPass, SetPass
    <2> QED BY <1>6, <2>1, PassLists
  <1>8. pass.phase = "listed" /\ pass.listed = listed /\ pass.at = 0 /\ pass.copy = NoCopy
        /\ pass.outcome = "none" /\ pass \in PassRows
    BY <1>5, <1>6 DEF PassOf, PassRows, Copies
  <1>9. PassOK(pass, pending) /\ ~HasCopy(pass)
    BY <1>2, <1>5, <1>8 DEF PassOK, HasCopy, Ids
  <1>10. /\ history' \in Histories
         /\ history'.raced = history.raced /\ history'.decided = history.decided
         /\ history'.abandoned = history.abandoned
         /\ history'.unsure = history.unsure \cup
                 {m \in DueForSync : \E c \in Tabs : m \in DOMAIN passes[c].listed}
    <2>1. PICK more : more = {m \in due : \E c \in Tabs : m \in DOMAIN passes[c].listed}
      OBVIOUS
    <2>2. history \in Histories /\ more \in SUBSET Nat
      BY <1>2, <2>1 DEF QueueTypes
    <2>3. history' = [history EXCEPT !.unsure = history.unsure \cup more]
      BY <1>1, <2>1 DEF StartPass
    <2>4. history' = HistoryOf(history.raced, history.decided, history.unsure \cup more,
                               history.abandoned)
      BY <2>2, <2>3, HistoryDoubts
    <2> QED BY <1>1, <2>1, <2>2, <2>4 DEF Histories, HistoryOf
  <1>11. UNCHANGED <<trips, pending, entities, edits, dialogs, closedTabs>>
         /\ passes[b].phase = "idle"
    BY DEF StartPass
  <1>12. /\ trips' \in [Trips -> TripRows(Writers)]
         /\ entities' \in Seq(0..2) /\ Len(entities') = Len(pending)
    BY <1>11 DEF QueueTypes
  <1>13. QueueTypes' /\ CopiesFollow
    BY <1>7, <1>9, <1>10, <1>11, <1>12, PassMovesAlone
  <1>14. Onwards(b, pass)
    BY <1>7 DEF QueueTypes, Onwards
  <1> QED BY <1>1, <1>5, <1>6, <1>10, <1>11, <1>13, <1>14

LEMMA ReadNextMoves ==
    ASSUME QueueTypes, NEW b \in Tabs, ReadNext(b)
    PROVE  /\ QueueTypes' /\ CopiesFollow /\ passes[b].phase = "listed"
           /\ \E m \in DOMAIN passes[b].listed : m \in Ids /\
                 Onwards(b, PassOf("marking", passes[b].listed, m, pending[m], passes[b].outcome))
           /\ UNCHANGED <<trips, pending, entities, edits, dialogs, history>>
  <1>1. PICK m \in DOMAIN passes[b].listed :
           SetPass(b, [passes[b] EXCEPT !.phase = "marking", !.at = m, !.copy = pending[m]])
    BY DEF ReadNext
  <1>2. /\ passes[b] \in PassRows /\ PassOK(passes[b], pending) /\ passes[b].phase = "listed"
        /\ UNCHANGED <<trips, pending, entities, edits, dialogs, closedTabs, history>>
    BY QueueFacts DEF ReadNext
  <1>3. m \in Ids /\ m \in Nat /\ pending[m] \in Mutation
    BY <1>2, QueueFacts DEF PassOK, Ids
  <1>4. PICK pass :
           pass = PassOf("marking", passes[b].listed, m, pending[m], passes[b].outcome)
    OBVIOUS
  <1>5. passes' = [passes EXCEPT ![b] = pass]
    BY <1>1, <1>2, <1>4, PassReads DEF SetPass
  <1>6. /\ pass.phase = "marking" /\ pass.listed = passes[b].listed /\ pass.at = m
        /\ pass.copy = pending[m] /\ pass.outcome = passes[b].outcome /\ pass \in PassRows
    BY <1>2, <1>3, <1>4 DEF PassOf, PassRows, Copies
  <1>7. PassOK(pass, pending)
    BY <1>2, <1>3, <1>6 DEF PassOK, HasCopy, SameRecord, Ids
  <1>8. /\ trips' \in [Trips -> TripRows(Writers)] /\ history' \in Histories
        /\ entities' \in Seq(0..2) /\ Len(entities') = Len(pending)
    BY <1>2 DEF QueueTypes
  <1>9. QueueTypes' /\ CopiesFollow
    BY <1>2, <1>3, <1>5, <1>6, <1>7, <1>8, PassMovesAlone
  <1>10. Onwards(b, pass)
    BY <1>5 DEF QueueTypes, Onwards
  <1> QED BY <1>2, <1>3, <1>4, <1>9, <1>10

LEMMA MarkSyncingMoves ==
    ASSUME QueueTypes, NEW b \in Tabs, MarkSyncing(b)
    PROVE  /\ QueueTypes' /\ CopiesFollow /\ passes[b].phase = "marking"
           /\ passes[b].at \in Ids /\ passes[b].at \in DOMAIN passes[b].listed /\ Ids' = Ids
           /\ SameRecord(pending'[passes[b].at], pending[passes[b].at])
           /\ pending'[passes[b].at].draft = passes[b].copy.draft
           /\ pending'[passes[b].at].status = "syncing"
           /\ \A n \in Ids \ {passes[b].at} : pending'[n] = pending[n]
           /\ Onwards(b, PassOf("sending", passes[b].listed, passes[b].at,
                                pending'[passes[b].at], passes[b].outcome))
           /\ UNCHANGED <<trips, entities, edits, dialogs, history>>
  <1>1. /\ passes[b] \in PassRows /\ PassOK(passes[b], pending) /\ passes[b].phase = "marking"
        /\ UNCHANGED <<trips, entities, edits, dialogs, closedTabs, history>>
    BY QueueFacts DEF MarkSyncing
  <1>2. PICK m \in Ids, copy \in Mutation :
           /\ m = passes[b].at /\ copy = passes[b].copy /\ SameRecord(copy, pending[m])
           /\ m \in DOMAIN passes[b].listed
    BY <1>1 DEF PassOK, HasCopy, SameRecord, Ids
  <1>3. PICK attempts : attempts = passes[b].listed[m] + 1
    OBVIOUS
  <1>4. attempts \in Nat
    BY <1>1, <1>2, <1>3, ListsAre DEF PassRows
  <1>5. PICK record : record = [copy EXCEPT !.status = "syncing", !.attemptCount = attempts]
    OBVIOUS
  <1>6. record = RecordOf(copy.kind, copy.trip, copy.base, copy.draft, "syncing", attempts)
    BY <1>5, RecordTries
  <1>7. /\ SameRecord(record, pending[m]) /\ record.draft = copy.draft
        /\ record.status = "syncing" /\ record \in Mutation
    BY <1>2, <1>4, <1>6 DEF RecordOf, SameRecord, Mutation, ACTIVE_STATUSES
  <1>8. PICK pass : pass = PassOf("sending", passes[b].listed, m, record, passes[b].outcome)
    OBVIOUS
  <1>9. Put(m, record) /\ SetPass(b, pass)
    <2>1. /\ Put(m, record)
          /\ SetPass(b, [passes[b] EXCEPT !.phase = "sending", !.copy = record])
      BY <1>2, <1>3, <1>5 DEF MarkSyncing
    <2> QED BY <1>1, <1>2, <1>8, <2>1, PassCopies
  <1>10. /\ pass.phase = "sending" /\ pass.listed = passes[b].listed /\ pass.at = m
         /\ pass.copy = record /\ pass.outcome = passes[b].outcome /\ pass \in PassRows
    BY <1>1, <1>2, <1>7, <1>8 DEF PassOf, PassRows, Copies
  <1>11. PassOK(pass, pending)
    BY <1>1, <1>2, <1>7, <1>10 DEF PassOK, HasCopy, Ids
  <1>12. /\ QueueTypes' /\ CopiesFollow /\ pending'[m] = record /\ Ids' = Ids
         /\ \A n \in Ids \ {m} : pending'[n] = pending[n]
         /\ passes'[b] = pass /\ \A c \in Tabs \ {b} : passes'[c] = passes[c]
    <2>1. HasCopy(passes[b])
      BY <1>1 DEF HasCopy
    <2> QED BY <1>1, <1>2, <1>7, <1>9, <1>10, <1>11, <2>1, PassPuts, SMTT(20)
  <1> QED BY <1>1, <1>2, <1>7, <1>8, <1>12 DEF Onwards

(* The answer to a request, whatever it is: the copy that was sent is      *)
(* dropped.                                                                *)
LEMMA QueueAnswerMoves ==
    ASSUME QueueTypes, NEW b \in Tabs, NEW outcome \in Outcomes, SyncAnswer(b, outcome),
           passes[b].phase = "sending",
           UNCHANGED <<pending, edits, dialogs, closedTabs>>,
           trips' \in [Trips -> TripRows(Writers)], history' \in Histories,
           entities' \in Seq(0..2), Len(entities') = Len(pending)
    PROVE  /\ QueueTypes' /\ CopiesFollow
           /\ Onwards(b, PassOf("answered", passes[b].listed, passes[b].at, NoCopy, outcome))
  <1>1. passes[b] \in PassRows /\ PassOK(passes[b], pending)
    BY QueueFacts
  <1>2. PICK pass :
           pass = PassOf("answered", passes[b].listed, passes[b].at, NoCopy, outcome)
    OBVIOUS
  <1>3. passes' = [passes EXCEPT ![b] = pass]
    <2>1. [passes[b] EXCEPT !.phase = "answered", !.copy = NoCopy, !.outcome = outcome] = pass
      BY <1>1, <1>2, PassAnswers
    <2> QED BY <2>1 DEF SyncAnswer, SetPass
  <1>4. /\ pass.phase = "answered" /\ pass.listed = passes[b].listed /\ pass.at = passes[b].at
        /\ pass.copy = NoCopy /\ pass.outcome = outcome /\ pass \in PassRows
    BY <1>1, <1>2 DEF PassOf, PassRows, Copies
  <1>5. PassOK(pass, pending) /\ ~HasCopy(pass)
    BY <1>1, <1>4 DEF PassOK, HasCopy
  <1>6. QueueTypes' /\ CopiesFollow
    BY <1>3, <1>5, PassMovesAlone
  <1>7. Onwards(b, pass)
    BY <1>3 DEF QueueTypes, Onwards
  <1> QED BY <1>2, <1>6, <1>7

LEMMA SendFailsMoves ==
    ASSUME QueueTypes, NEW b \in Tabs, SendFails(b)
    PROVE  /\ QueueTypes' /\ CopiesFollow /\ passes[b].phase = "sending"
           /\ \E outcome \in {"pending", "failed"} :
                 Onwards(b, PassOf("answered", passes[b].listed, passes[b].at, NoCopy, outcome))
           /\ UNCHANGED <<trips, pending, entities, edits, dialogs, history>>
  <1>1. PICK outcome \in {"pending", "failed"} : SyncAnswer(b, outcome)
    BY DEF SendFails
  <1>2. /\ UNCHANGED <<trips, pending, entities, edits, dialogs, closedTabs, history>>
        /\ passes[b].phase = "sending" /\ outcome \in Outcomes
    BY DEF SendFails, Outcomes
  <1>3. /\ trips' \in [Trips -> TripRows(Writers)] /\ history' \in Histories
        /\ entities' \in Seq(0..2) /\ Len(entities') = Len(pending)
    BY <1>2 DEF QueueTypes
  <1>4. /\ QueueTypes' /\ CopiesFollow
        /\ Onwards(b, PassOf("answered", passes[b].listed, passes[b].at, NoCopy, outcome))
    BY <1>1, <1>2, <1>3, QueueAnswerMoves
  <1> QED BY <1>2, <1>4

LEMMA SendItineraryMoves ==
    ASSUME QueueTypes, NEW b \in Tabs, SendItinerary(b)
    PROVE  /\ QueueTypes' /\ CopiesFollow /\ passes[b].phase = "sending"
           /\ passes[b].copy.kind = "itinerary" /\ passes[b].copy.trip \in Trips
           /\ \E outcome \in Outcomes :
                 /\ Onwards(b, PassOf("answered", passes[b].listed, passes[b].at, NoCopy, outcome))
                 /\ \/ outcome = "conflict" /\ UNCHANGED trips
                    \/ /\ trips[passes[b].copy.trip].revision = passes[b].copy.base
                       /\ trips' = [trips EXCEPT ![passes[b].copy.trip] =
                             UpdateItineraryAndCreateVersion(trips[passes[b].copy.trip],
                                passes[b].copy.draft, passes[b].copy.base)]
           /\ UNCHANGED <<pending, entities, edits, dialogs, history>>
  <1>1. /\ UNCHANGED <<pending, entities, edits, dialogs, closedTabs, history>>
        /\ passes[b].phase = "sending" /\ passes[b].copy.kind = "itinerary"
        /\ passes[b] \in PassRows /\ PassOK(passes[b], pending)
    BY QueueFacts DEF SendItinerary
  <1>2. PICK copy \in Mutation : copy = passes[b].copy
    BY <1>1 DEF PassOK, HasCopy, SameRecord
  <1>3. copy.trip \in Trips /\ copy.draft \in Writers /\ copy.base \in Nat
    BY DEF Mutation, Writers
  <1>4. PICK outcome \in Outcomes :
           /\ SyncAnswer(b, outcome)
           /\ \/ outcome = "conflict" /\ UNCHANGED trips
              \/ /\ trips[copy.trip].revision = copy.base
                 /\ trips' = [trips EXCEPT ![copy.trip] =
                       UpdateItineraryAndCreateVersion(trips[copy.trip], copy.draft, copy.base)]
    BY <1>2 DEF SendItinerary, RevisionMatches, Outcomes
  <1>5. trips' \in [Trips -> TripRows(Writers)]
    BY <1>3, <1>4, SavesAreTyped DEF QueueTypes
  <1>6. history' \in Histories /\ entities' \in Seq(0..2) /\ Len(entities') = Len(pending)
    BY <1>1 DEF QueueTypes
  <1>7. /\ QueueTypes' /\ CopiesFollow
        /\ Onwards(b, PassOf("answered", passes[b].listed, passes[b].at, NoCopy, outcome))
    BY <1>1, <1>4, <1>5, <1>6, QueueAnswerMoves
  <1> QED BY <1>1, <1>2, <1>3, <1>4, <1>7

LEMMA SendCreateMoves ==
    ASSUME QueueTypes, NEW b \in Tabs, SendCreate(b)
    PROVE  /\ QueueTypes' /\ CopiesFollow /\ passes[b].phase = "sending"
           /\ passes[b].copy.kind = "create" /\ passes[b].at \in Ids
           /\ entities' = [entities EXCEPT ![passes[b].at] =
                             IF entities[passes[b].at] = 0 THEN 1 ELSE 2]
           /\ \E outcome \in {"synced", "pending"} :
                 /\ Onwards(b, PassOf("answered", passes[b].listed, passes[b].at, NoCopy, outcome))
                 /\ history'.unsure = IF outcome = "pending"
                                      THEN history.unsure \cup {passes[b].at} ELSE history.unsure
           /\ history'.raced = history.raced /\ history'.decided = history.decided
           /\ history'.abandoned = history.abandoned
           /\ UNCHANGED <<trips, pending, edits, dialogs>>
  <1>1. /\ UNCHANGED <<trips, pending, edits, dialogs, closedTabs>>
        /\ passes[b].phase = "sending" /\ passes[b].copy.kind = "create"
        /\ passes[b] \in PassRows /\ PassOK(passes[b], pending)
    BY QueueFacts DEF SendCreate
  <1>2. PICK m \in Ids : m = passes[b].at
    BY <1>1 DEF PassOK, Ids
  <1>3. PICK count : count = IF entities[m] = 0 THEN 1 ELSE 2
    OBVIOUS
  <1>4. entities' = [entities EXCEPT ![m] = count]
    BY <1>2, <1>3 DEF SendCreate, QueueTypes, Ids
  <1>5. entities' \in Seq(0..2) /\ Len(entities') = Len(pending)
    <2>1. entities \in Seq(0..2) /\ Len(entities) = Len(pending) /\ count \in 0..2
      BY <1>3 DEF QueueTypes
    <2>2. m \in 1..Len(entities)
      BY <2>1 DEF Ids
    <2> QED BY <1>4, <2>1, <2>2
  <1>6. PICK outcome \in {"synced", "pending"} :
           /\ SyncAnswer(b, outcome)
           /\ history' = IF outcome = "pending"
                         THEN [history EXCEPT !.unsure = history.unsure \cup {m}] ELSE history
    BY <1>2 DEF SendCreate
  <1>7. /\ history' \in Histories
        /\ history'.raced = history.raced /\ history'.decided = history.decided
        /\ history'.abandoned = history.abandoned
        /\ history'.unsure = IF outcome = "pending" THEN history.unsure \cup {m}
                             ELSE history.unsure
    <2>1. history \in Histories /\ m \in Nat
      BY DEF QueueTypes, Ids
    <2>2. CASE outcome = "pending"
      <3>1. history' = HistoryOf(history.raced, history.decided, history.unsure \cup {m},
                                 history.abandoned)
        BY <1>6, <2>1, <2>2, HistoryDoubts
      <3> QED BY <2>1, <2>2, <3>1 DEF Histories, HistoryOf
    <2>3. CASE outcome # "pending"
      BY <1>6, <2>1, <2>3
    <2> QED BY <2>2, <2>3
  <1>8. trips' \in [Trips -> TripRows(Writers)] /\ outcome \in Outcomes
    BY <1>1 DEF QueueTypes, Outcomes
  <1>9. /\ QueueTypes' /\ CopiesFollow
        /\ Onwards(b, PassOf("answered", passes[b].listed, passes[b].at, NoCopy, outcome))
    BY <1>1, <1>5, <1>6, <1>7, <1>8, QueueAnswerMoves
  <1> QED BY <1>1, <1>2, <1>3, <1>4, <1>7, <1>9

LEMMA ReadSentMoves ==
    ASSUME QueueTypes, NEW b \in Tabs, ReadSent(b)
    PROVE  /\ QueueTypes' /\ CopiesFollow /\ passes[b].phase = "answered" /\ passes[b].at \in Ids
           /\ Onwards(b, PassOf("settling", passes[b].listed, passes[b].at,
                                pending[passes[b].at], passes[b].outcome))
           /\ UNCHANGED <<trips, pending, entities, edits, dialogs, history>>
  <1>1. /\ passes[b] \in PassRows /\ PassOK(passes[b], pending) /\ passes[b].phase = "answered"
        /\ UNCHANGED <<trips, pending, entities, edits, dialogs, closedTabs, history>>
    BY QueueFacts DEF ReadSent
  <1>2. PICK m \in Ids : m = passes[b].at /\ pending[m] \in Mutation
    BY <1>1, QueueFacts DEF PassOK, Ids
  <1>3. PICK pass :
           pass = PassOf("settling", passes[b].listed, m, pending[m], passes[b].outcome)
    OBVIOUS
  <1>4. passes' = [passes EXCEPT ![b] = pass]
    BY <1>1, <1>2, <1>3, PassCopies DEF ReadSent, SetPass
  <1>5. /\ pass.phase = "settling" /\ pass.listed = passes[b].listed /\ pass.at = m
        /\ pass.copy = pending[m] /\ pass.outcome = passes[b].outcome /\ pass \in PassRows
    BY <1>1, <1>2, <1>3 DEF PassOf, PassRows, Copies
  <1>6. PassOK(pass, pending)
    BY <1>1, <1>2, <1>5 DEF PassOK, HasCopy, SameRecord, Ids
  <1>7. /\ trips' \in [Trips -> TripRows(Writers)] /\ history' \in Histories
        /\ entities' \in Seq(0..2) /\ Len(entities') = Len(pending)
    BY <1>1 DEF QueueTypes
  <1>8. QueueTypes' /\ CopiesFollow
    BY <1>1, <1>2, <1>4, <1>5, <1>6, <1>7, PassMovesAlone
  <1>9. Onwards(b, pass)
    BY <1>4 DEF QueueTypes, Onwards
  <1> QED BY <1>1, <1>2, <1>3, <1>8, <1>9

LEMMA SettleMoves ==
    ASSUME QueueTypes, NEW b \in Tabs, Settle(b)
    PROVE  /\ QueueTypes' /\ CopiesFollow /\ passes[b].phase = "settling"
           /\ passes[b].at \in Ids /\ Ids' = Ids
           /\ SameRecord(pending'[passes[b].at], pending[passes[b].at])
           /\ pending'[passes[b].at].draft = passes[b].copy.draft
           /\ pending'[passes[b].at].status = passes[b].outcome
           /\ passes[b].outcome \in Outcomes
           /\ \A n \in Ids \ {passes[b].at} : pending'[n] = pending[n]
           /\ \/ Onwards(b, IdlePass)
              \/ \E rest \in Lists : DOMAIN rest = DOMAIN passes[b].listed \ {passes[b].at}
                    /\ Onwards(b, PassOf("listed", rest, 0, NoCopy, "none"))
           /\ UNCHANGED <<trips, entities, edits, dialogs, history>>
  <1>1. /\ passes[b] \in PassRows /\ PassOK(passes[b], pending) /\ passes[b].phase = "settling"
        /\ UNCHANGED <<trips, entities, edits, dialogs, closedTabs, history>>
    BY QueueFacts DEF Settle
  <1>2. PICK m \in Ids, copy \in Mutation, outcome \in Outcomes :
           /\ m = passes[b].at /\ copy = passes[b].copy /\ SameRecord(copy, pending[m])
           /\ m \in DOMAIN passes[b].listed /\ outcome = passes[b].outcome
    BY <1>1 DEF PassOK, HasCopy, SameRecord, Ids
  <1>3. PICK record : record = [copy EXCEPT !.status = outcome]
    OBVIOUS
  <1>4. record = RecordOf(copy.kind, copy.trip, copy.base, copy.draft, outcome,
                          copy.attemptCount)
    BY <1>3, RecordGets
  <1>5. SameRecord(record, pending[m]) /\ record.draft = copy.draft /\ record.status = outcome
    BY <1>2, <1>4 DEF RecordOf, SameRecord, Mutation, ACTIVE_STATUSES, FINAL_STATUSES, Outcomes
  <1>6. PICK rest : rest = [n \in DOMAIN passes[b].listed \ {m} |-> passes[b].listed[n]]
    OBVIOUS
  <1>7. rest \in Lists /\ DOMAIN rest = DOMAIN passes[b].listed \ {m}
    <2>1. passes[b].listed \in Lists
      BY <1>1 DEF PassRows
    <2>2. PICK S \in SUBSET Nat : S = DOMAIN passes[b].listed \ {m}
      BY <2>1, ListsAre
    <2>3. rest \in [S -> Nat]
      BY <1>6, <2>1, <2>2, ListsAre
    <2> QED BY <2>2, <2>3, ListsAre
  <1>8. PICK next : next = PassOf("listed", rest, 0, NoCopy, "none")
    OBVIOUS
  <1>9. /\ next.phase = "listed" /\ next.listed = rest /\ next.at = 0 /\ next.copy = NoCopy
        /\ next.outcome = "none" /\ next \in PassRows
    BY <1>7, <1>8 DEF PassOf, PassRows, Copies
  <1>10. PassOK(next, pending) /\ ~HasCopy(next) /\ ~HasCopy(IdlePass)
    BY <1>1, <1>7, <1>9 DEF PassOK, HasCopy, IdlePass
  <1>11. PICK pass \in {next, IdlePass} : Put(m, record) /\ SetPass(b, pass)
    <2>1. /\ Put(m, record)
          /\ \/ SetPass(b, IdlePass)
             \/ SetPass(b, [IdlePass EXCEPT !.phase = "listed", !.listed = rest])
      BY <1>2, <1>3, <1>6 DEF Settle
    <2> QED BY <1>8, <2>1, PassLists
  <1>12. PassOK(pass, pending) /\ ~HasCopy(pass)
    BY <1>10, IdleIsOK
  <1>13. /\ QueueTypes' /\ CopiesFollow /\ pending'[m] = record /\ Ids' = Ids
         /\ \A n \in Ids \ {m} : pending'[n] = pending[n]
         /\ passes'[b] = pass /\ \A c \in Tabs \ {b} : passes'[c] = passes[c]
    BY <1>1, <1>5, <1>11, <1>12, PassPuts
  <1>14. /\ Onwards(b, IdlePass) \/ Onwards(b, next)
    BY <1>13 DEF Onwards
  <1> QED BY <1>1, <1>2, <1>5, <1>7, <1>8, <1>13, <1>14

LEMMA CloseTabMoves ==
    ASSUME QueueTypes, NEW b \in Tabs, CloseTab(b)
    PROVE  /\ QueueTypes' /\ CopiesFollow /\ Onwards(b, IdlePass)
           /\ \A c \in Pages : dialogs'[c] = dialogs[c] \/ dialogs'[c] = IdleDialog
           /\ history'.abandoned = history.abandoned \cup ({passes[b].at} \ {0})
           /\ history'.raced = history.raced /\ history'.decided = history.decided
           /\ history'.unsure = history.unsure
           /\ UNCHANGED <<trips, pending, entities, edits>>
  <1>1. /\ UNCHANGED <<trips, pending, entities, edits>>
        /\ closedTabs' = closedTabs + 1
        /\ passes' = [passes EXCEPT ![b] = IdlePass]
        /\ dialogs' = dialogs \/ (b \in Pages /\ dialogs' = [dialogs EXCEPT ![b] = IdleDialog])
        /\ history' = [history EXCEPT !.abandoned = @ \cup ({passes[b].at} \ {0})]
    BY DEF CloseTab, SetPass, SetDialog
  <1>2. PICK left : left = {passes[b].at} \ {0}
    OBVIOUS
  <1>3. left \in SUBSET Nat /\ history \in Histories
    BY <1>2, QueueFacts DEF QueueTypes, PassRows
  <1>4. /\ history' \in Histories
        /\ history'.raced = history.raced /\ history'.decided = history.decided
        /\ history'.abandoned = history.abandoned \cup left
        /\ history'.unsure = history.unsure
    <2>1. history' = [history EXCEPT !.abandoned = history.abandoned \cup left]
      BY <1>1, <1>2
    <2>2. history' = HistoryOf(history.raced, history.decided, history.unsure,
                               history.abandoned \cup left)
      BY <1>3, <2>1, HistoryLeaves
    <2> QED BY <1>3, <2>2 DEF Histories, HistoryOf
  <1>5. QueueTypes'
    <2>1. PassMoves(IdlePass) /\ DialogMoves(IdleDialog) /\ Grown(pending, pending')
      BY <1>1, IdleIsOK, QueueFacts DEF PassMoves, DialogMoves
    <2>2. /\ trips' \in [Trips -> TripRows(Writers)] /\ closedTabs' \in Nat
          /\ entities' \in Seq(0..2) /\ Len(entities') = Len(pending') /\ edits' \in 0..MaxEdits
      BY <1>1 DEF QueueTypes
    <2> QED BY <1>4, <2>1, <2>2, TypesKept
  <1>6. ~HasCopy(IdlePass) /\ IdleDialog.at = 0
    BY DEF HasCopy, IdlePass, IdleDialog
  <1> HIDE DEF IdlePass, IdleDialog
  <1>7. Onwards(b, IdlePass)
    BY <1>1 DEF QueueTypes, Onwards
  <1>8. \A c \in Pages : dialogs'[c] = dialogs[c] \/ dialogs'[c] = IdleDialog
    BY <1>1 DEF QueueTypes
  <1>9. CopiesFollow
    BY <1>6, <1>7, <1>8 DEF CopiesFollow, Onwards
  <1> QED BY <1>1, <1>2, <1>4, <1>5, <1>7, <1>8, <1>9

LEMMA ElsewhereMoves ==
    ASSUME QueueTypes, NEW t \in Trips, UpdateElsewhere(t)
    PROVE  /\ QueueTypes' /\ CopiesFollow
           /\ UNCHANGED <<pending, entities, edits, passes, dialogs, history>>
           /\ trips' = [trips EXCEPT ![t] =
                 UpdateItineraryAndCreateVersion(trips[t], Elsewhere, trips[t].revision)]
  <1>1. /\ UNCHANGED <<pending, entities, edits, passes, dialogs, closedTabs, history>>
        /\ trips' = [trips EXCEPT ![t] =
              UpdateItineraryAndCreateVersion(trips[t], Elsewhere, trips[t].revision)]
    BY DEF UpdateElsewhere, QueueTypes
  <1>2. trips[t].revision \in Nat /\ Elsewhere \in Writers
    BY DEF QueueTypes, TripRows, Writers
  <1>3. trips' \in [Trips -> TripRows(Writers)]
    BY <1>1, <1>2, SavesAreTyped
  <1>4. QueueTypes'
    <2>1. PassMoves(IdlePass) /\ DialogMoves(IdleDialog) /\ Grown(pending, pending')
      BY <1>1, QueueFacts DEF PassMoves, DialogMoves
    <2>2. /\ edits' \in 0..MaxEdits /\ closedTabs' \in Nat /\ history' \in Histories
          /\ entities' \in Seq(0..2) /\ Len(entities') = Len(pending')
      BY <1>1 DEF QueueTypes
    <2> QED BY <1>3, <2>1, <2>2, TypesKept
  <1>5. CopiesFollow
    <2>1. \A b \in Tabs : HasCopy(passes[b]) => passes'[b] = passes[b]
      BY <1>1
    <2> QED BY <1>1 DEF CopiesFollow
  <1> QED BY <1>1, <1>4, <1>5

-----------------------------------------------------------------------------
(* Every step keeps the types.                                             *)
LEMMA RestKeepsTypes ==
    ASSUME QueueTypes, UNCHANGED offlineVars
    PROVE  QueueTypes'
  BY DEF offlineVars, QueueTypes, PassOK, DialogOK, Ids

LEMMA QueueStarts ==
    ASSUME OfflineInit
    PROVE  QueueTypes
  <1>1. trips \in [Trips -> TripRows(Writers)]
    BY DEF OfflineInit, InitTrips, NewTrip, TripRows, TripStatuses
  <1>2. /\ pending = << >> /\ entities = << >> /\ edits = 0 /\ closedTabs = 0
        /\ passes = [b \in Tabs |-> IdlePass] /\ dialogs = [b \in Pages |-> IdleDialog]
        /\ history = [raced |-> {}, decided |-> {}, unsure |-> {}, abandoned |-> {}]
    BY DEF OfflineInit
  <1>3. /\ pending \in Seq(Mutation) /\ entities \in Seq(0..2) /\ Len(entities) = Len(pending)
        /\ edits \in 0..MaxEdits /\ closedTabs \in Nat
    BY <1>2, OfflineAssumption
  <1>4. history \in Histories
    BY <1>2 DEF Histories
  <1>5. IdlePass \in PassRows /\ IdleDialog \in DialogRows
    BY IdleIsOK DEF PassOK, DialogOK
  <1> HIDE DEF IdlePass, IdleDialog
  <1>6. /\ passes \in [Tabs -> PassRows] /\ \A b \in Tabs : PassOK(passes[b], pending)
        /\ dialogs \in [Pages -> DialogRows] /\ \A b \in Pages : DialogOK(dialogs[b], pending)
    BY <1>2, <1>5, IdleIsOK
  <1> QED BY <1>1, <1>3, <1>4, <1>6 DEF QueueTypes

LEMMA SavesMove ==
    ASSUME QueueTypes, NEW b \in Pages, FinishSave(b)
    PROVE  QueueTypes' /\ CopiesFollow
  BY SavesOverMove, SavesAnewMove DEF FinishSave

LEMMA QueueSteps ==
    ASSUME QueueTypes, OfflineNext
    PROVE  QueueTypes' /\ CopiesFollow
  <1>1. ASSUME NEW t \in Trips, enqueueCompanionMutation(t) \/ UpdateElsewhere(t)
        PROVE  QueueTypes' /\ CopiesFollow
    BY <1>1, CompanionMoves, ElsewhereMoves
  <1>2. ASSUME NEW b \in Pages,
               \/ \E t \in Trips : BeginSave(b, t)
               \/ \E m \in Ids : BeginDiscard(b, m) \/ OpenMerge(b, m)
               \/ FinishSave(b) \/ CloseMerge(b) \/ ApplyMerge(b) \/ ReadMerged(b) \/ Patch(b)
        PROVE  QueueTypes' /\ CopiesFollow
    BY <1>2, BeginSaveMoves, OpenDialogMoves, SavesMove, CloseMergeMoves, ApplyMergeMoves,
       ReadMergedMoves, PatchMoves
  <1>3. ASSUME NEW b \in Tabs,
               \/ StartPass(b) \/ ReadNext(b) \/ MarkSyncing(b)
               \/ SendFails(b) \/ SendItinerary(b) \/ SendCreate(b)
               \/ ReadSent(b) \/ Settle(b) \/ CloseTab(b)
        PROVE  QueueTypes' /\ CopiesFollow
    BY <1>3, StartPassMoves, ReadNextMoves, MarkSyncingMoves, SendFailsMoves,
       SendItineraryMoves, SendCreateMoves, ReadSentMoves, SettleMoves, CloseTabMoves
  <1> QED BY <1>1, <1>2, <1>3 DEF OfflineNext

(* Every record, pass and dialog holds values of its type; a copy that     *)
(* enqueueItineraryUpdate or updateMutationRecord works with is of the     *)
(* record that it names.                                                   *)
THEOREM QueueTypesHold == OfflineSpec => []QueueTypes
  <1>1. QueueTypes /\ [OfflineNext]_offlineVars => QueueTypes'
    BY QueueSteps, RestKeepsTypes
  <1> QED BY <1>1, QueueStarts, PTL DEF OfflineSpec

(* So the types hold that the runs check.                                  *)
THEOREM OfflineTypesHold == OfflineSpec => []OfflineTypeOK
  <1>1. QueueTypes => OfflineTypeOK
    <2> SUFFICES ASSUME QueueTypes PROVE OfflineTypeOK
      OBVIOUS
    <2>1. Len(pending) \in Nat /\ entities \in [Ids -> 0..2]
      BY DEF QueueTypes, Ids
    <2>2. \A b \in Tabs : passes[b].at \in Ids \cup {0}
      BY DEF QueueTypes, PassOK, Ids
    <2>3. \A b \in Pages : dialogs[b].at \in Ids \cup {0}
      BY DEF QueueTypes, DialogOK, Ids
    <2> QED BY <2>1, <2>2, <2>3 DEF QueueTypes, OfflineTypeOK, Writers
  <1> QED BY <1>1, QueueTypesHold, PTL

-----------------------------------------------------------------------------
(* A record that is being sent.                                            *)
LEMMA AttentionStays ==
    ASSUME SyncingIsAttended, history.abandoned \subseteq history'.abandoned,
           \A b \in Tabs : passes[b].at # 0 =>
              passes'[b].at = passes[b].at \/ passes[b].at \in history'.abandoned
              \/ pending'[passes[b].at].status # "syncing",
           \A m \in Ids' : pending'[m].status = "syncing" =>
              \/ m \in Ids /\ pending[m].status = "syncing"
              \/ \E b \in Tabs : passes'[b].at = m,
           Len(pending') \in Nat
    PROVE  SyncingIsAttended'
  <1>1. 0 \notin Ids'
    BY DEF Ids
  <1> QED BY <1>1 DEF SyncingIsAttended

LEMMA PagesLeaveAttention ==
    ASSUME QueueTypes, QueueTypes', SyncingIsAttended, UNCHANGED passes,
           history.abandoned \subseteq history'.abandoned,
           \A m \in Ids' : pending'[m].status = "syncing" =>
              m \in Ids /\ pending[m].status = "syncing"
    PROVE  SyncingIsAttended'
  BY AttentionStays DEF QueueTypes

LEMMA AddsAreNotSyncing ==
    ASSUME QueueTypes, NEW record \in Mutation, Add(record), record.status = "pending"
    PROVE  \A m \in Ids' : pending'[m].status = "syncing" =>
              m \in Ids /\ pending[m].status = "syncing"
  BY AddGrows

LEMMA PageAttends ==
    ASSUME QueueTypes, SyncingIsAttended, NEW b \in Pages,
           \/ \E t \in Trips : BeginSave(b, t)
           \/ \E m \in Ids : BeginDiscard(b, m) \/ OpenMerge(b, m)
           \/ FinishSave(b) \/ CloseMerge(b) \/ ApplyMerge(b) \/ ReadMerged(b) \/ Patch(b)
    PROVE  SyncingIsAttended'
  <1>1. QueueTypes'
    BY QueueSteps DEF OfflineNext
  <1>2. CASE \/ \E t \in Trips : BeginSave(b, t)
             \/ \E m \in Ids : BeginDiscard(b, m) \/ OpenMerge(b, m)
             \/ CloseMerge(b) \/ ReadMerged(b)
    <2>1. UNCHANGED <<pending, passes, history>>
      BY <1>2 DEF BeginSave, BeginDiscard, OpenMerge, CloseMerge, ReadMerged
    <2> QED BY <1>1, <2>1, PagesLeaveAttention DEF Ids
  <1>3. CASE ApplyMerge(b)
    <2>1. UNCHANGED <<pending, passes>> /\ history'.abandoned = history.abandoned
      BY <1>3 DEF ApplyMerge, QueueTypes, Histories
    <2> QED BY <1>1, <2>1, PagesLeaveAttention DEF Ids
  <1>4. CASE FinishSave(b) /\ dialogs[b].phase = "saving"
    <2>1. history'.abandoned = history.abandoned
      BY <1>4, SavesOverMove
    <2> QED BY <1>1, <1>4, <2>1, SavesOverMove, PagesLeaveAttention
  <1>5. CASE FinishSave(b) /\ dialogs[b].phase = "creating"
    BY <1>1, <1>5, SavesAnewMove, AddsAreNotSyncing, PagesLeaveAttention
  <1>6. CASE Patch(b)
    <2>1. \A m \in Ids' : pending'[m].status = "syncing" =>
              m \in Ids /\ pending[m].status = "syncing"
      BY <1>6, PatchMoves DEF FINAL_STATUSES
    <2> QED BY <1>1, <1>6, <2>1, PatchMoves, PagesLeaveAttention
  <1> QED BY <1>2, <1>3, <1>4, <1>5, <1>6 DEF FinishSave

LEMMA PassAttends ==
    ASSUME QueueTypes, SyncingIsAttended, NEW b \in Tabs,
           \/ StartPass(b) \/ ReadNext(b) \/ MarkSyncing(b)
           \/ SendFails(b) \/ SendItinerary(b) \/ SendCreate(b)
           \/ ReadSent(b) \/ Settle(b) \/ CloseTab(b)
    PROVE  SyncingIsAttended'
  <1>1. QueueTypes' /\ Len(pending') \in Nat /\ PassOK(passes[b], pending)
    <2>1. QueueTypes'
      BY QueueSteps DEF OfflineNext
    <2> QED BY <2>1, QueueFacts DEF QueueTypes
  <1>2. \A phase, listed, at, copy, outcome : PassOf(phase, listed, at, copy, outcome).at = at
    BY DEF PassOf
  <1>3. CASE StartPass(b) \/ ReadNext(b)
    <2>1. /\ UNCHANGED pending /\ history'.abandoned = history.abandoned
          /\ passes[b].phase \in {"idle", "listed"}
          /\ \A c \in Tabs \ {b} : passes'[c] = passes[c]
      BY <1>3, StartPassMoves, ReadNextMoves DEF Onwards
    <2>2. passes[b].at = 0
      BY <1>1, <2>1 DEF PassOK
    <2> QED BY <1>1, <2>1, <2>2, AttentionStays DEF Ids
  <1>4. CASE MarkSyncing(b)
    <2>1. passes'[b].at = passes[b].at
      BY <1>2, <1>4, MarkSyncingMoves DEF Onwards
    <2>2. \A c \in Tabs : passes'[c].at = passes[c].at
      BY <1>4, <2>1, MarkSyncingMoves DEF Onwards
    <2> QED BY <1>1, <1>4, <2>2, MarkSyncingMoves, AttentionStays
  <1>5. CASE SendFails(b) \/ SendItinerary(b) \/ SendCreate(b) \/ ReadSent(b)
    <2>1. /\ UNCHANGED pending /\ history'.abandoned = history.abandoned
          /\ \E phase, listed, copy, outcome :
                Onwards(b, PassOf(phase, listed, passes[b].at, copy, outcome))
      BY <1>5, SendFailsMoves, SendItineraryMoves, SendCreateMoves, ReadSentMoves
    <2>2. \A c \in Tabs : passes'[c].at = passes[c].at
      BY <1>2, <2>1 DEF Onwards
    <2> QED BY <1>1, <2>1, <2>2, AttentionStays DEF Ids
  <1>6. CASE Settle(b)
    <2>1. \A c \in Tabs \ {b} : passes'[c] = passes[c]
      BY <1>6, SettleMoves DEF Onwards
    <2>2. pending'[passes[b].at].status # "syncing"
      BY <1>6, SettleMoves DEF Outcomes
    <2> QED BY <1>1, <1>6, <2>1, <2>2, SettleMoves, AttentionStays
  <1>7. CASE CloseTab(b)
    BY <1>1, <1>7, CloseTabMoves, AttentionStays DEF Onwards, Ids
  <1> QED BY <1>3, <1>4, <1>5, <1>6, <1>7

(* A record is "syncing" only while a pass is at it or after its tab was   *)
(* closed: each outcome of syncMutation is written back, whatever other    *)
(* tabs do to the record meanwhile.                                        *)
THEOREM SendingIsAttended == OfflineSpec => []SyncingIsAttended
  <1>1. OfflineInit => SyncingIsAttended
    BY DEF OfflineInit, SyncingIsAttended, Ids
  <1>2. QueueTypes /\ SyncingIsAttended /\ [OfflineNext]_offlineVars => SyncingIsAttended'
    <2>1. ASSUME QueueTypes, SyncingIsAttended, NEW t \in Trips,
                 enqueueCompanionMutation(t) \/ UpdateElsewhere(t)
          PROVE  SyncingIsAttended'
      <3>1. QueueTypes' /\ UNCHANGED <<passes, history>>
        BY <2>1, CompanionMoves, ElsewhereMoves
      <3>2. \A m \in Ids' : pending'[m].status = "syncing" =>
              m \in Ids /\ pending[m].status = "syncing"
        BY <2>1, CompanionMoves, ElsewhereMoves, AddsAreNotSyncing DEF Ids
      <3> QED BY <2>1, <3>1, <3>2, PagesLeaveAttention
    <2>2. SyncingIsAttended /\ UNCHANGED offlineVars => SyncingIsAttended'
      BY DEF offlineVars, SyncingIsAttended, Ids
    <2> QED BY <2>1, <2>2, PageAttends, PassAttends DEF OfflineNext
  <1> QED BY <1>1, <1>2, QueueTypesHold, PTL DEF OfflineSpec

-----------------------------------------------------------------------------
(* Where a saved edit is, as long as it is nowhere else: it is the draft   *)
(* of an active record and of every copy of it, and nobody is about to     *)
(* write that the record is synced.                                        *)
Finishing(m) ==
    \/ \E b \in Tabs : /\ passes[b].at = m /\ passes[b].phase \in {"answered", "settling"}
                       /\ passes[b].outcome = "synced"
    \/ \E b \in Pages : /\ dialogs[b].at = m
                        /\ \/ dialogs[b].phase = "merged"
                           \/ dialogs[b].phase = "patching" /\ dialogs[b].patch = "synced"

ActiveAt(e, m) ==
    /\ pending[m].kind = "itinerary" /\ pending[m].draft = e
    /\ pending[m].status \in ACTIVE_STATUSES
    /\ \A b \in Tabs : passes[b].at = m /\ HasCopy(passes[b]) => passes[b].copy.draft = e
    /\ \A b \in Pages : dialogs[b].at = m => dialogs[b].copy.draft = e
    /\ ~Finishing(m)

Accounted(e) ==
    OnServer(e) \/ e \in history.decided \/ \E m \in Ids : ActiveAt(e, m)

KeptInv == \A e \in 1..edits \ history.raced : Accounted(e)

LEMMA ActiveStays ==
    ASSUME QueueTypes, CopiesFollow, NEW e, NEW m \in Ids, ActiveAt(e, m),
           pending'[m].kind = "itinerary", pending'[m].draft = e,
           pending'[m].status \in ACTIVE_STATUSES, ~Finishing(m)'
    PROVE  ActiveAt(e, m)'
  <1>1. m # 0
    BY QueueFacts
  <1>2. \A b \in Tabs : passes'[b].at = m /\ HasCopy(passes'[b]) => passes'[b].copy.draft = e
    BY DEF ActiveAt, CopiesFollow
  <1>3. \A b \in Pages : dialogs'[b].at = m => dialogs'[b].copy.draft = e
    BY <1>1 DEF ActiveAt, CopiesFollow
  <1> QED BY <1>2, <1>3 DEF ActiveAt, HasCopy

(* The other records are as active as they were.                           *)
LEMMA KeptStays ==
    ASSUME QueueTypes, KeptInv, \A e : OnServer(e) => OnServer(e)',
           history.decided \subseteq history'.decided, history.raced \subseteq history'.raced,
           \A e : \A m \in Ids : ActiveAt(e, m) => Accounted(e)',
           edits' = edits
    PROVE  KeptInv'
  BY DEF KeptInv, Accounted

LEMMA ServerKeeps ==
    ASSUME QueueTypes, QueueTypes', NEW t \in Trips, NEW writer \in Writers, NEW base \in Nat,
           trips' = [trips EXCEPT ![t] = UpdateItineraryAndCreateVersion(trips[t], writer, base)]
    PROVE  /\ \A e : OnServer(e) => OnServer(e)'
           /\ OnServer(writer)'
  <1>1. /\ \A u \in Trips \ {t} : trips'[u] = trips[u]
        /\ trips'[t].versions = Append(trips[t].versions, [writer |-> writer, base |-> base])
    BY SavesAreTyped
  <1>2. PICK versions, version :
           versions = trips[t].versions /\ version = [writer |-> writer, base |-> base]
    OBVIOUS
  <1>3. versions \in Seq([writer : Writers, base : Nat])
    BY <1>2 DEF QueueTypes, TripRows
  <1>4. /\ Len(trips'[t].versions) = Len(versions) + 1
        /\ \A k \in 1..Len(versions) : trips'[t].versions[k] = versions[k]
        /\ trips'[t].versions[Len(versions) + 1] = version /\ Len(versions) \in Nat
    BY <1>1, <1>2, <1>3
  <1>5. \A e : OnServer(e) => OnServer(e)'
    <2> SUFFICES ASSUME NEW e, OnServer(e)
                 PROVE  OnServer(e)'
      OBVIOUS
    <2>1. PICK u \in Trips : \E k \in 1..Len(trips[u].versions) : trips[u].versions[k].writer = e
      BY DEF OnServer
    <2>2. PICK k \in 1..Len(trips[u].versions) : trips[u].versions[k].writer = e
      BY <2>1
    <2>3. CASE u = t
      <3>1. k \in 1..Len(trips'[t].versions) /\ trips'[t].versions[k].writer = e
        BY <1>2, <1>4, <2>2, <2>3
      <3> QED BY <2>3, <3>1 DEF OnServer
    <2>4. CASE u # t
      <3>1. k \in 1..Len(trips'[u].versions) /\ trips'[u].versions[k].writer = e
        BY <1>1, <2>2, <2>4
      <3> QED BY <3>1 DEF OnServer
    <2> QED BY <2>3, <2>4
  <1>6. OnServer(writer)'
    <2>1. Len(versions) + 1 \in 1..Len(trips'[t].versions)
          /\ trips'[t].versions[Len(versions) + 1].writer = writer
      BY <1>2, <1>4
    <2> QED BY <2>1 DEF OnServer
  <1> QED BY <1>5, <1>6

LEMMA DialogFields ==
    \A phase, at, copy, patch :
       /\ DialogOf(phase, at, copy, patch).phase = phase
       /\ DialogOf(phase, at, copy, patch).at = at
       /\ DialogOf(phase, at, copy, patch).copy = copy
       /\ DialogOf(phase, at, copy, patch).patch = patch
  BY DEF DialogOf

LEMMA PassFields ==
    \A phase, listed, at, copy, outcome :
       /\ PassOf(phase, listed, at, copy, outcome).phase = phase
       /\ PassOf(phase, listed, at, copy, outcome).listed = listed
       /\ PassOf(phase, listed, at, copy, outcome).at = at
       /\ PassOf(phase, listed, at, copy, outcome).copy = copy
       /\ PassOf(phase, listed, at, copy, outcome).outcome = outcome
  BY DEF PassOf

(* Opening and closing a dialog, reading a merged record.                  *)
LEMMA DialogsKeepActive ==
    ASSUME QueueTypes, NEW b \in Pages,
           \/ \E t \in Trips : BeginSave(b, t)
           \/ \E m \in Ids : BeginDiscard(b, m) \/ OpenMerge(b, m)
           \/ CloseMerge(b) \/ ReadMerged(b) \/ ApplyMerge(b),
           NEW m \in Ids, ~Finishing(m)
    PROVE  /\ UNCHANGED <<pending, edits>> /\ Ids' = Ids
           /\ ~Finishing(m)' \/ (dialogs[b].at = m /\ ApplyMerge(b))
  <1>1. dialogs[b] \in DialogRows /\ m # 0 /\ UNCHANGED <<pending, passes, edits>>
    BY QueueFacts DEF BeginSave, BeginDiscard, OpenMerge, CloseMerge, ReadMerged, ApplyMerge
  <1>2. \A c \in Pages \ {b} : dialogs'[c] = dialogs[c]
    BY DEF BeginSave, BeginDiscard, OpenMerge, CloseMerge, ReadMerged, ApplyMerge, SetDialog,
           QueueTypes
  <1>3. \/ dialogs'[b].at # m
        \/ dialogs'[b].phase = "merging"
        \/ dialogs'[b].phase = "saving"
        \/ dialogs'[b].phase = "patching" /\ dialogs'[b].patch = "discarded"
        \/ dialogs[b].at = m /\ ApplyMerge(b)
    <2>1. CASE \/ \E t \in Trips : BeginSave(b, t)
               \/ \E n \in Ids : BeginDiscard(b, n) \/ OpenMerge(b, n)
      <3>1. \/ dialogs'[b].phase \in {"merging", "saving"}
            \/ dialogs'[b].phase = "patching" /\ dialogs'[b].patch = "discarded"
            \/ dialogs'[b].at = 0
        BY <2>1 DEF BeginSave, BeginDiscard, OpenMerge, SetDialog, QueueTypes
      <3> QED BY <1>1, <3>1
    <2>2. CASE CloseMerge(b)
      BY <1>1, <2>2 DEF CloseMerge, SetDialog, IdleDialog, QueueTypes
    <2>3. CASE ReadMerged(b)
      <3>1. dialogs[b].phase = "merged" /\ dialogs[b].at # m
        BY <2>3 DEF ReadMerged, Finishing
      <3>2. dialogs' = [dialogs EXCEPT ![b] =
                          DialogOf("patching", dialogs[b].at,
                                   pending[dialogs[b].at], dialogs[b].patch)]
        BY <1>1, <2>3, DialogCopies DEF ReadMerged, SetDialog
      <3> QED BY <3>1, <3>2, DialogFields DEF QueueTypes
    <2>4. CASE ApplyMerge(b)
      <3>1. dialogs' = [dialogs EXCEPT ![b] =
                          DialogOf("merged", dialogs[b].at, dialogs[b].copy, dialogs[b].patch)]
        BY <1>1, <2>4, DialogSteps DEF ApplyMerge, SetDialog
      <3> QED BY <2>4, <3>1, DialogFields DEF QueueTypes
    <2> QED BY <2>1, <2>2, <2>3, <2>4
  <1> QED BY <1>1, <1>2, <1>3 DEF Finishing, Ids

LEMMA MergeIsSaved ==
    ASSUME QueueTypes, NEW b \in Pages, ApplyMerge(b)
    PROVE  /\ \A e : OnServer(e) => OnServer(e)'
           /\ history'.decided = history.decided \cup {dialogs[b].copy.draft}
           /\ history'.raced = history.raced
  <1>1. QueueTypes'
    BY ApplyMergeMoves
  <1>2. PICK t \in Trips : t = dialogs[b].copy.trip
    BY QueueFacts DEF ApplyMerge, DialogOK, SameRecord, Mutation
  <1>3. trips[t].revision \in Nat /\ Merged \in Writers
    BY DEF QueueTypes, TripRows, Writers
  <1>4. trips' = [trips EXCEPT ![t] =
                    UpdateItineraryAndCreateVersion(trips[t], Merged, trips[t].revision)]
    BY <1>2 DEF ApplyMerge, QueueTypes
  <1>5. history' = HistoryOf(history.raced, history.decided \cup {dialogs[b].copy.draft},
                             history.unsure, history.abandoned)
    BY HistoryDecides DEF ApplyMerge, QueueTypes
  <1>6. \A e : OnServer(e) => OnServer(e)'
    BY <1>1, <1>3, <1>4, ServerKeeps
  <1>7. /\ history'.decided = history.decided \cup {dialogs[b].copy.draft}
        /\ history'.raced = history.raced
    BY <1>5 DEF HistoryOf
  <1> QED BY <1>6, <1>7

LEMMA DialogsKeep ==
    ASSUME QueueTypes, KeptInv, NEW b \in Pages,
           \/ \E t \in Trips : BeginSave(b, t)
           \/ \E m \in Ids : BeginDiscard(b, m) \/ OpenMerge(b, m)
           \/ CloseMerge(b) \/ ReadMerged(b) \/ ApplyMerge(b)
    PROVE  KeptInv'
  <1>1. /\ QueueTypes' /\ CopiesFollow
    BY QueueSteps DEF OfflineNext
  <1>2. ~ApplyMerge(b) => UNCHANGED <<trips, history>>
    BY DEF BeginSave, BeginDiscard, OpenMerge, CloseMerge, ReadMerged
  <1>3. /\ \A e : OnServer(e) => OnServer(e)'
        /\ history.decided \subseteq history'.decided /\ history.raced \subseteq history'.raced
    BY <1>2, MergeIsSaved DEF OnServer
  <1>4. edits' = edits
    BY DEF BeginSave, BeginDiscard, OpenMerge, CloseMerge, ReadMerged, ApplyMerge
  <1>5. ASSUME NEW e, NEW m \in Ids, ActiveAt(e, m)
        PROVE  Accounted(e)'
    <2>1. ~Finishing(m)
      BY <1>5 DEF ActiveAt
    <2>2. /\ UNCHANGED pending /\ Ids' = Ids
          /\ ~Finishing(m)' \/ (dialogs[b].at = m /\ ApplyMerge(b))
      BY <2>1, DialogsKeepActive
    <2>3. CASE ~Finishing(m)'
      <3>1. ActiveAt(e, m)'
        BY <1>1, <1>5, <2>2, <2>3, ActiveStays DEF ActiveAt
      <3> QED BY <2>2, <3>1 DEF Accounted
    <2>4. CASE dialogs[b].at = m /\ ApplyMerge(b)
      BY <1>5, <2>4, MergeIsSaved DEF ActiveAt, Accounted
    <2> QED BY <2>2, <2>3, <2>4
  <1> QED BY <1>3, <1>4, <1>5, KeptStays

(* A step that puts a record moves no dialog to it but the one that ends.  *)
LEMMA PutsDoNotFinish ==
    ASSUME QueueTypes, NEW b \in Pages, UNCHANGED passes,
           dialogs'[b] = IdleDialog, \A c \in Pages \ {b} : dialogs'[c] = dialogs[c],
           NEW m \in Ids, ~Finishing(m)
    PROVE  ~Finishing(m)'
  <1>1. m # 0
    BY QueueFacts
  <1> QED BY <1>1 DEF Finishing, IdleDialog

LEMMA SavesKeep ==
    ASSUME QueueTypes, KeptInv, NEW b \in Pages, FinishSave(b)
    PROVE  KeptInv'
  <1>1. QueueTypes' /\ CopiesFollow /\ edits \in Nat
    BY SavesMove, QueueFacts
  <1> PICK new : new = edits + 1
    OBVIOUS
  <1>2. CASE dialogs[b].phase = "saving"
    <2>1. PICK m \in Ids : m = dialogs[b].at
      BY <1>2, SavesOverMove
    <2>2. /\ Ids' = Ids /\ pending'[m].kind = "itinerary"
          /\ pending'[m].draft = new /\ pending'[m].status \in ACTIVE_STATUSES
          /\ \A n \in Ids \ {m} : pending'[n] = pending[n]
          /\ history'.raced = (IF InFlight(m, Pages \ {b})
                               THEN history.raced \cup {new} ELSE history.raced)
          /\ history'.decided = history.decided \cup {dialogs[b].copy.draft}
          /\ edits' = new /\ UNCHANGED <<trips, passes>>
          /\ dialogs'[b] = IdleDialog /\ \A c \in Pages \ {b} : dialogs'[c] = dialogs[c]
      BY <1>2, <2>1, SavesOverMove DEF SameRecord, ACTIVE_STATUSES
    <2>3. ASSUME NEW e, OnServer(e) \/ e \in history.decided
          PROVE  Accounted(e)'
      BY <2>2, <2>3 DEF Accounted, OnServer
    <2>4. ASSUME NEW e, NEW n \in Ids, ActiveAt(e, n)
          PROVE  Accounted(e)'
      <3>1. CASE n = m
        BY <2>1, <2>2, <2>4, <3>1 DEF ActiveAt, Accounted
      <3>2. CASE n # m
        <4>1. ~Finishing(n)'
          BY <2>2, <2>4, PutsDoNotFinish DEF ActiveAt
        <4>2. ActiveAt(e, n)'
          BY <1>1, <2>2, <2>4, <3>2, <4>1, ActiveStays DEF ActiveAt
        <4> QED BY <2>2, <4>2 DEF Accounted
      <3> QED BY <3>1, <3>2
    <2>5. new \notin history'.raced => Accounted(new)'
      <3> SUFFICES ASSUME new \notin history'.raced PROVE ActiveAt(new, m)'
        BY <2>2 DEF Accounted
      <3>1. ~InFlight(m, Pages \ {b})
        BY <2>2
      <3>2. /\ \A c \in Tabs : passes'[c].at # m
            /\ \A c \in Pages : dialogs'[c].at # m
        <4>1. m # 0 /\ IdleDialog.at = 0
          BY QueueFacts DEF IdleDialog
        <4> HIDE DEF IdleDialog
        <4>2. dialogs'[b].at # m
          BY <2>2, <4>1
        <4> QED BY <2>2, <3>1, <4>2 DEF InFlight
      <3> QED BY <2>2, <3>2 DEF ActiveAt, Finishing
    <2>6. \A e \in 1..new : e \in 1..edits \/ e = new
      BY <1>1
    <2> QED BY <2>2, <2>3, <2>4, <2>5, <2>6 DEF KeptInv, Accounted
  <1>3. CASE dialogs[b].phase = "creating"
    <2>1. PICK record \in Mutation :
             /\ Add(record) /\ record.draft = new /\ record.status = "pending"
             /\ record.kind = "itinerary"
      BY <1>3, SavesAnewMove
    <2>2. PICK m : m = Len(pending) + 1
      OBVIOUS
    <2>3. /\ Ids' = Ids \cup {m} /\ pending'[m] = record
          /\ \A n \in Ids : pending'[n] = pending[n]
      BY <2>1, <2>2, AddGrows
    <2>4. /\ edits' = new /\ UNCHANGED <<trips, passes, history>>
          /\ dialogs'[b] = IdleDialog /\ \A c \in Pages \ {b} : dialogs'[c] = dialogs[c]
      BY <1>3, SavesAnewMove
    <2>5. ASSUME NEW e, OnServer(e) \/ e \in history.decided
          PROVE  Accounted(e)'
      BY <2>4, <2>5 DEF Accounted, OnServer
    <2>6. ASSUME NEW e, NEW n \in Ids, ActiveAt(e, n)
          PROVE  Accounted(e)'
      <3>1. ~Finishing(n)'
        BY <2>4, <2>6, PutsDoNotFinish DEF ActiveAt
      <3>2. ActiveAt(e, n)'
        BY <1>1, <2>3, <2>6, <3>1, ActiveStays DEF ActiveAt
      <3> QED BY <2>3, <3>2 DEF Accounted
    <2>7. ActiveAt(new, m)'
      <3>1. m \notin Ids /\ m # 0
        BY <2>2, QueueFacts DEF Ids
      <3>2. /\ \A c \in Tabs : passes[c].at # m
            /\ \A c \in Pages : dialogs[c].at # m
        BY <3>1, QueueFacts DEF PassOK, DialogOK, Ids
      <3>3. /\ \A c \in Tabs : passes'[c].at # m
            /\ \A c \in Pages : dialogs'[c].at # m
        <4>1. dialogs'[b].at # m
          BY <2>4, <3>1 DEF IdleDialog
        <4> QED BY <2>4, <3>2, <4>1
      <3>4. pending'[m].status \in ACTIVE_STATUSES
        BY <2>1, <2>3 DEF ACTIVE_STATUSES
      <3> QED BY <2>1, <2>3, <3>3, <3>4 DEF ActiveAt, Finishing
    <2>8. \A e \in 1..new : e \in 1..edits \/ e = new
      BY <1>1
    <2>9. Accounted(new)'
      BY <2>3, <2>7 DEF Accounted
    <2> QED BY <2>4, <2>5, <2>6, <2>8, <2>9 DEF KeptInv, Accounted
  <1> QED BY <1>2, <1>3 DEF FinishSave

LEMMA PatchKeeps ==
    ASSUME QueueTypes, KeptInv, NEW b \in Pages, Patch(b)
    PROVE  KeptInv'
  <1>1. QueueTypes' /\ CopiesFollow /\ Ids' = Ids
    BY PatchMoves
  <1>2. /\ UNCHANGED trips /\ edits' = edits
        /\ history.decided \subseteq history'.decided /\ history.raced \subseteq history'.raced
    BY PatchMoves
  <1>3. ASSUME NEW e, NEW n \in Ids, ActiveAt(e, n)
        PROVE  Accounted(e)'
    <2>1. CASE n = dialogs[b].at
      <3>1. dialogs[b].patch = "discarded" /\ dialogs[b].copy.draft = e
        BY <1>3, <2>1, PatchMoves DEF ActiveAt, Finishing, FINAL_STATUSES
      <3> QED BY <3>1, PatchMoves DEF Accounted
    <2>2. CASE n # dialogs[b].at
      <3>1. ~Finishing(n)'
        BY <1>3, PatchMoves, PutsDoNotFinish DEF ActiveAt
      <3>2. pending'[n] = pending[n]
        BY <2>2, PatchMoves
      <3>3. ActiveAt(e, n)'
        BY <1>1, <1>3, <3>1, <3>2, ActiveStays DEF ActiveAt
      <3> QED BY <1>1, <3>3 DEF Accounted
    <2> QED BY <2>1, <2>2
  <1>4. \A e : OnServer(e) => OnServer(e)'
    BY <1>2 DEF OnServer
  <1> QED BY <1>2, <1>3, <1>4, KeptStays

(* A pass is about to write "synced" only after an answer that says so.    *)
LEMMA PassesDoNotFinish ==
    ASSUME NEW b \in Tabs, NEW pass, Onwards(b, pass), NEW m \in Ids, ~Finishing(m), m # 0,
           pass.at = m /\ pass.phase \in {"answered", "settling"} => pass.outcome # "synced",
           \A c \in Pages : dialogs'[c] = dialogs[c] \/ dialogs'[c] = IdleDialog
    PROVE  ~Finishing(m)'
  BY DEF Finishing, Onwards, IdleDialog

LEMMA PassesKeep ==
    ASSUME QueueTypes, KeptInv, NEW b \in Tabs,
           \/ StartPass(b) \/ ReadNext(b) \/ SendFails(b) \/ ReadSent(b) \/ CloseTab(b)
    PROVE  KeptInv'
  <1>1. QueueTypes' /\ CopiesFollow
    BY QueueSteps DEF OfflineNext
  <1>2. UNCHANGED <<trips, pending, edits>>
    BY DEF StartPass, ReadNext, SendFails, ReadSent, CloseTab
  <1>3. history'.decided = history.decided /\ history'.raced = history.raced
    BY StartPassMoves, ReadNextMoves, SendFailsMoves, ReadSentMoves, CloseTabMoves
  <1>4. \A c \in Pages : dialogs'[c] = dialogs[c] \/ dialogs'[c] = IdleDialog
    BY StartPassMoves, ReadNextMoves, SendFailsMoves, ReadSentMoves, CloseTabMoves
  <1>5. ASSUME NEW m \in Ids, ~Finishing(m)
        PROVE  ~Finishing(m)'
    <2>1. m # 0
      BY QueueFacts
    <2>2. CASE StartPass(b) \/ ReadNext(b)
      <3>1. \E pass : Onwards(b, pass) /\ pass.phase \in {"listed", "marking"}
        BY <2>2, StartPassMoves, ReadNextMoves, PassFields
      <3> QED BY <1>4, <1>5, <2>1, <3>1, PassesDoNotFinish
    <2>3. CASE SendFails(b)
      <3>1. \E pass : Onwards(b, pass) /\ pass.outcome # "synced"
        BY <2>3, SendFailsMoves, PassFields
      <3> QED BY <1>4, <1>5, <2>1, <3>1, PassesDoNotFinish
    <2>4. CASE ReadSent(b)
      <3>1. \E pass : /\ Onwards(b, pass) /\ pass.at = passes[b].at
                      /\ pass.outcome = passes[b].outcome
        BY <2>4, ReadSentMoves, PassFields
      <3>2. passes[b].phase = "answered"
        BY <2>4, ReadSentMoves
      <3>3. passes[b].at = m => passes[b].outcome # "synced"
        BY <1>5, <3>2 DEF Finishing
      <3> QED BY <1>4, <1>5, <2>1, <3>1, <3>3, PassesDoNotFinish
    <2>5. CASE CloseTab(b)
      <3>1. Onwards(b, IdlePass) /\ IdlePass.phase = "idle"
        BY <2>5, CloseTabMoves DEF IdlePass
      <3> QED BY <1>4, <1>5, <2>1, <3>1, PassesDoNotFinish
    <2> QED BY <2>2, <2>3, <2>4, <2>5
  <1>6. ASSUME NEW e, NEW m \in Ids, ActiveAt(e, m)
        PROVE  Accounted(e)'
    <2>1. ActiveAt(e, m)'
      BY <1>1, <1>2, <1>5, <1>6, ActiveStays DEF ActiveAt
    <2> QED BY <1>2, <2>1 DEF Accounted, Ids
  <1>7. \A e : OnServer(e) => OnServer(e)'
    BY <1>2 DEF OnServer
  <1> QED BY <1>2, <1>3, <1>6, <1>7, KeptStays

LEMMA SendsKeep ==
    ASSUME QueueTypes, KeptInv, NEW b \in Tabs, SendItinerary(b) \/ SendCreate(b)
    PROVE  KeptInv'
  <1>1. QueueTypes' /\ CopiesFollow
    BY QueueSteps DEF OfflineNext
  <1>2. UNCHANGED <<pending, edits, dialogs>> /\ passes[b].phase = "sending"
    BY DEF SendItinerary, SendCreate
  <1>3. history'.decided = history.decided /\ history'.raced = history.raced
    BY SendItineraryMoves, SendCreateMoves
  <1>4. /\ PassOK(passes[b], pending) /\ SameRecord(passes[b].copy, pending[passes[b].at])
        /\ HasCopy(passes[b])
    BY <1>2, QueueFacts DEF PassOK, HasCopy
  <1> PICK draft : draft = passes[b].copy.draft
    OBVIOUS
  <1>5. PICK outcome : /\ Onwards(b, PassOf("answered", passes[b].listed, passes[b].at,
                                            NoCopy, outcome))
                       /\ SendItinerary(b) =>
                            \/ outcome = "conflict" /\ UNCHANGED trips
                            \/ trips' = [trips EXCEPT ![passes[b].copy.trip] =
                                  UpdateItineraryAndCreateVersion(trips[passes[b].copy.trip],
                                     passes[b].copy.draft, passes[b].copy.base)]
    BY SendItineraryMoves, SendCreateMoves
  <1>6. /\ \A e : OnServer(e) => OnServer(e)'
        /\ SendItinerary(b) /\ outcome # "conflict" => OnServer(draft)'
    <2>1. CASE UNCHANGED trips /\ (outcome = "conflict" \/ ~SendItinerary(b))
      BY <2>1 DEF OnServer
    <2>2. CASE trips' = [trips EXCEPT ![passes[b].copy.trip] =
                  UpdateItineraryAndCreateVersion(trips[passes[b].copy.trip],
                     passes[b].copy.draft, passes[b].copy.base)]
      <3>1. PICK t \in Trips, writer \in Nat, base \in Nat :
               t = passes[b].copy.trip /\ writer = passes[b].copy.draft
               /\ base = passes[b].copy.base
        BY <1>4 DEF SameRecord, Mutation
      <3>2. trips' = [trips EXCEPT ![t] = UpdateItineraryAndCreateVersion(trips[t], writer, base)]
        BY <2>2, <3>1
      <3>3. (\A e : OnServer(e) => OnServer(e)') /\ OnServer(writer)'
        BY <1>1, <3>2, ServerKeeps DEF Writers
      <3> QED BY <3>1, <3>3
    <2>3. ~SendItinerary(b) => UNCHANGED trips
      BY DEF SendCreate
    <2> QED BY <1>5, <2>1, <2>2, <2>3
  <1>7. ASSUME NEW e, NEW m \in Ids, ActiveAt(e, m)
        PROVE  Accounted(e)'
    <2>1. m # 0
      BY QueueFacts
    <2>2. CASE passes[b].at = m /\ outcome = "synced"
      <3>1. draft = e /\ passes[b].copy.kind = "itinerary"
        BY <1>4, <1>7, <2>2 DEF ActiveAt, SameRecord
      <3>2. SendItinerary(b)
        BY <3>1 DEF SendCreate
      <3>3. OnServer(e)'
        BY <1>6, <2>2, <3>1, <3>2
      <3> QED BY <3>3 DEF Accounted
    <2>3. CASE ~(passes[b].at = m /\ outcome = "synced")
      <3>1. ~Finishing(m)'
        BY <1>2, <1>5, <1>7, <2>1, <2>3, PassFields, PassesDoNotFinish DEF ActiveAt
      <3>2. ActiveAt(e, m)'
        BY <1>1, <1>2, <1>7, <3>1, ActiveStays DEF ActiveAt
      <3> QED BY <1>2, <3>2 DEF Accounted, Ids
    <2> QED BY <2>2, <2>3
  <1> QED BY <1>2, <1>3, <1>6, <1>7, KeptStays

LEMMA WritesKeep ==
    ASSUME QueueTypes, KeptInv, NEW b \in Tabs, MarkSyncing(b) \/ Settle(b)
    PROVE  KeptInv'
  <1>1. QueueTypes' /\ CopiesFollow
    BY QueueSteps DEF OfflineNext
  <1>2. /\ UNCHANGED <<trips, edits, history, dialogs>> /\ Ids' = Ids
        /\ passes[b].at \in Ids /\ HasCopy(passes[b])
        /\ SameRecord(pending'[passes[b].at], pending[passes[b].at])
        /\ pending'[passes[b].at].draft = passes[b].copy.draft
        /\ \A n \in Ids \ {passes[b].at} : pending'[n] = pending[n]
    BY MarkSyncingMoves, SettleMoves DEF HasCopy
  <1>3. PICK pass : Onwards(b, pass) /\ pass.phase \in {"idle", "listed", "sending"}
    <2>1. CASE MarkSyncing(b)
      BY <2>1, MarkSyncingMoves, PassFields
    <2>2. CASE Settle(b)
      <3>1. IdlePass.phase = "idle"
        BY DEF IdlePass
      <3>2. \/ Onwards(b, IdlePass)
            \/ \E rest : Onwards(b, PassOf("listed", rest, 0, NoCopy, "none"))
        BY <2>2, SettleMoves
      <3> QED BY <3>1, <3>2, PassFields
    <2> QED BY <2>1, <2>2
  <1>4. ASSUME NEW e, NEW m \in Ids, ActiveAt(e, m)
        PROVE  Accounted(e)'
    <2>1. ~Finishing(m)'
      <3>1. m # 0 /\ ~Finishing(m)
        BY <1>4, QueueFacts DEF ActiveAt
      <3> QED BY <1>2, <1>3, <3>1, PassesDoNotFinish
    <2>2. /\ pending'[m].kind = "itinerary" /\ pending'[m].draft = e
          /\ pending'[m].status \in ACTIVE_STATUSES
      <3>1. CASE m = passes[b].at
        <4>1. MarkSyncing(b) => pending'[m].status = "syncing"
          BY <3>1, MarkSyncingMoves
        <4>2. Settle(b) => /\ passes[b].outcome \in Outcomes \ {"synced"}
                           /\ pending'[m].status = passes[b].outcome
          BY <1>4, <3>1, SettleMoves DEF ActiveAt, Finishing
        <4>3. pending'[m].status \in ACTIVE_STATUSES
          BY <4>1, <4>2 DEF Outcomes, ACTIVE_STATUSES
        <4> QED BY <1>2, <1>4, <3>1, <4>3 DEF ActiveAt, SameRecord
      <3>2. CASE m # passes[b].at
        BY <1>2, <1>4, <3>2 DEF ActiveAt
      <3> QED BY <3>1, <3>2
    <2>3. ActiveAt(e, m)'
      BY <1>1, <1>4, <2>1, <2>2, ActiveStays
    <2> QED BY <1>2, <2>3 DEF Accounted
  <1>5. \A e : OnServer(e) => OnServer(e)'
    BY <1>2 DEF OnServer
  <1> QED BY <1>2, <1>4, <1>5, KeptStays

LEMMA OthersKeep ==
    ASSUME QueueTypes, KeptInv, NEW t \in Trips,
           enqueueCompanionMutation(t) \/ UpdateElsewhere(t)
    PROVE  KeptInv'
  <1>1. QueueTypes' /\ CopiesFollow /\ UNCHANGED <<edits, passes, dialogs, history>>
    BY CompanionMoves, ElsewhereMoves
  <1>2. \A e : OnServer(e) => OnServer(e)'
    <2>1. CASE enqueueCompanionMutation(t)
      BY <2>1 DEF enqueueCompanionMutation, OnServer
    <2>2. CASE UpdateElsewhere(t)
      <3>1. trips[t].revision \in Nat /\ Elsewhere \in Writers
        BY DEF QueueTypes, TripRows, Writers
      <3> QED BY <1>1, <2>2, <3>1, ElsewhereMoves, ServerKeeps
    <2> QED BY <2>1, <2>2
  <1>3. Ids \subseteq Ids' /\ \A n \in Ids : pending'[n] = pending[n]
    BY CompanionMoves, ElsewhereMoves, AddGrows DEF Ids
  <1>4. ASSUME NEW e, NEW m \in Ids, ActiveAt(e, m)
        PROVE  Accounted(e)'
    <2>1. ~Finishing(m)'
      BY <1>1, <1>4 DEF ActiveAt, Finishing
    <2>2. ActiveAt(e, m)'
      BY <1>1, <1>3, <1>4, <2>1, ActiveStays DEF ActiveAt
    <2> QED BY <1>3, <2>2 DEF Accounted
  <1> QED BY <1>1, <1>2, <1>4, KeptStays

LEMMA KeptSteps ==
    QueueTypes /\ KeptInv /\ [OfflineNext]_offlineVars => KeptInv'
  <1>1. QueueTypes /\ KeptInv /\ OfflineNext => KeptInv'
    BY OthersKeep, DialogsKeep, SavesKeep, PatchKeeps, PassesKeep, SendsKeep, WritesKeep
       DEF OfflineNext
  <1>2. KeptInv /\ UNCHANGED offlineVars => KeptInv'
    BY DEF offlineVars, KeptInv, Accounted, OnServer, ActiveAt, Finishing, HasCopy, Ids
  <1> QED BY <1>1, <1>2

(* An itinerary edit that was saved offline is on the server, or in the    *)
(* queue, or its user decided about it, unless it was saved while its      *)
(* record was between a get and a put (enqueueItineraryUpdate,             *)
(* updateMutationRecord).                                                  *)
THEOREM EditsAreKept == OfflineSpec => []KeptUnlessRaced
  <1>1. OfflineInit => KeptInv
    BY DEF OfflineInit, KeptInv
  <1>2. KeptInv => KeptUnlessRaced
    BY DEF KeptInv, KeptUnlessRaced, Accounted, ActiveAt, Queued
  <1> QED BY <1>1, <1>2, KeptSteps, QueueTypesHold, PTL DEF OfflineSpec

-----------------------------------------------------------------------------
(* Edits on the server: a draft is in one record at most, and a version    *)
(* that was sent from it is where the record's base says.                  *)
Holds(m, d) ==
    \/ pending[m].draft = d
    \/ \E b \in Tabs : passes[b].at = m /\ HasCopy(passes[b]) /\ passes[b].copy.draft = d
    \/ \E b \in Pages : dialogs[b].at = m /\ dialogs[b].copy.draft = d

HeldInv ==
    /\ \A m \in Ids : \A d \in Nat : Holds(m, d) =>
          d =< edits /\ (pending[m].kind = "itinerary" => d > 0)
    /\ \A m, n \in Ids : \A d \in Nat \ {0} : Holds(m, d) /\ Holds(n, d) => m = n

(* A step gives a new draft to one record at most.                         *)
Follows ==
    /\ edits' \in {edits, edits + 1}
    /\ \A m \in Ids : /\ m \in Ids' /\ pending'[m].kind = pending[m].kind
                      /\ pending'[m].trip = pending[m].trip
                      /\ pending'[m].base = pending[m].base
    /\ \E new : \A m \in Ids' : \A d \in Nat : Holds(m, d)' =>
          \/ m \in Ids /\ Holds(m, d)
          \/ m = new /\ d = edits + 1 /\ edits' = edits + 1
          \/ m \notin Ids /\ d = 0 /\ pending'[m].kind = "create"

LEMMA HoldsFollow ==
    ASSUME QueueTypes, CopiesFollow, NEW m, m # 0, NEW d, Holds(m, d)'
    PROVE  (m \in Ids /\ Holds(m, d)) \/ pending'[m].draft = d
  <1>1. \A b \in Tabs : HasCopy(passes[b]) => passes[b].at \in Ids
    BY QueueFacts DEF PassOK, HasCopy, Ids
  <1>2. \A b \in Pages : dialogs[b].at # 0 => dialogs[b].at \in Ids
    BY QueueFacts DEF DialogOK, Ids
  <1>3. CASE \E b \in Tabs : passes'[b].at = m /\ HasCopy(passes'[b]) /\ passes'[b].copy.draft = d
    BY <1>1, <1>3 DEF CopiesFollow, Holds
  <1>4. CASE \E b \in Pages : dialogs'[b].at = m /\ dialogs'[b].copy.draft = d
    BY <1>2, <1>4 DEF CopiesFollow, Holds
  <1> QED BY <1>3, <1>4 DEF Holds, HasCopy

LEMMA QuietlyFollows ==
    ASSUME QueueTypes, CopiesFollow, Ids' = Ids, edits' = edits,
           \A m \in Ids : DraftFrom(m) /\ SameRecord(pending'[m], pending[m])
    PROVE  Follows
  <1>1. 0 \notin Ids
    BY QueueFacts
  <1>2. ASSUME NEW m \in Ids, NEW d \in Nat, Holds(m, d)'
        PROVE  Holds(m, d)
    <2>1. Holds(m, d) \/ pending'[m].draft = d
      BY <1>1, <1>2, HoldsFollow
    <2>2. CASE pending'[m].draft = d
      <3>1. DraftFrom(m)
        OBVIOUS
      <3> QED BY <2>2, <3>1 DEF DraftFrom, Holds
    <2> QED BY <2>1, <2>2
  <1> QED BY <1>2 DEF Follows, SameRecord

LEMMA OneDraftFollows ==
    ASSUME QueueTypes, CopiesFollow, NEW new, Ids' = Ids \cup {new}, new # 0,
           edits' \in {edits, edits + 1},
           \A m \in Ids : \/ pending'[m] = pending[m]
                          \/ m = new /\ SameRecord(pending'[m], pending[m]),
           \/ pending'[new].draft = edits + 1 /\ edits' = edits + 1
           \/ new \notin Ids /\ pending'[new].draft = 0 /\ pending'[new].kind = "create"
    PROVE  Follows
  <1>1. 0 \notin Ids
    BY QueueFacts
  <1>2. ASSUME NEW m \in Ids', NEW d \in Nat, Holds(m, d)'
        PROVE  \/ m \in Ids /\ Holds(m, d)
               \/ m = new /\ d = edits + 1 /\ edits' = edits + 1
               \/ m \notin Ids /\ d = 0 /\ pending'[m].kind = "create"
    <2>1. (m \in Ids /\ Holds(m, d)) \/ pending'[m].draft = d
      BY <1>1, <1>2, HoldsFollow
    <2>2. CASE pending'[m].draft = d /\ m # new
      BY <2>2 DEF Holds
    <2>3. CASE pending'[m].draft = d /\ m = new
      BY <2>3
    <2> QED BY <2>1, <2>2, <2>3
  <1>3. \A m \in Ids : m \in Ids' /\ SameRecord(pending'[m], pending[m])
    BY QueueFacts DEF SameRecord
  <1> QED BY <1>2, <1>3 DEF Follows, SameRecord

LEMMA StepsFollow ==
    ASSUME QueueTypes, OfflineNext
    PROVE  Follows
  <1>1. QueueTypes' /\ CopiesFollow
    BY QueueSteps
  <1>2. ASSUME UNCHANGED <<pending, edits>>
        PROVE  Follows
    <2>1. Ids' = Ids /\ \A m \in Ids : DraftFrom(m) /\ SameRecord(pending'[m], pending[m])
      BY <1>2, QueueFacts DEF Ids, DraftFrom, SameRecord
    <2> QED BY <1>1, <1>2, <2>1, QuietlyFollows
  <1>3. ASSUME NEW m \in Ids, Ids' = Ids, edits' = edits, DraftFrom(m),
               SameRecord(pending'[m], pending[m]),
               \A n \in Ids \ {m} : pending'[n] = pending[n]
        PROVE  Follows
    <2>1. \A n \in Ids : DraftFrom(n) /\ SameRecord(pending'[n], pending[n])
      BY <1>3, QueueFacts DEF DraftFrom, SameRecord
    <2> QED BY <1>1, <1>3, <2>1, QuietlyFollows
  <1>4. ASSUME NEW record \in Mutation, Add(record),
               \/ record.draft = edits + 1 /\ edits' = edits + 1
               \/ record.draft = 0 /\ record.kind = "create" /\ edits' = edits
        PROVE  Follows
    <2>1. PICK new : new = Len(pending) + 1
      OBVIOUS
    <2>2. new # 0 /\ new \notin Ids
      BY <2>1, QueueFacts DEF Ids
    <2> QED BY <1>1, <1>4, <2>1, <2>2, AddGrows, OneDraftFollows
  <1>5. ASSUME NEW t \in Trips, enqueueCompanionMutation(t) \/ UpdateElsewhere(t)
        PROVE  Follows
    BY <1>2, <1>4, <1>5, CompanionMoves, ElsewhereMoves
  <1>6. ASSUME NEW b \in Pages, FinishSave(b)
        PROVE  Follows
    <2>1. CASE dialogs[b].phase = "saving"
      <3>1. PICK m \in Ids : m = dialogs[b].at
        BY <1>6, <2>1, SavesOverMove
      <3>2. /\ Ids' = Ids /\ SameRecord(pending'[m], pending[m])
            /\ pending'[m].draft = edits + 1 /\ edits' = edits + 1
            /\ \A n \in Ids \ {m} : pending'[n] = pending[n]
        BY <1>6, <2>1, <3>1, SavesOverMove
      <3>3. m # 0 /\ Ids' = Ids \cup {m}
        BY <3>1, <3>2, QueueFacts
      <3> QED BY <1>1, <3>2, <3>3, OneDraftFollows
    <2>2. CASE dialogs[b].phase = "creating"
      BY <1>4, <1>6, <2>2, SavesAnewMove
    <2> QED BY <1>6, <2>1, <2>2 DEF FinishSave
  <1>7. ASSUME NEW b \in Pages, Patch(b)
        PROVE  Follows
    <2>1. PICK m \in Ids : m = dialogs[b].at
      BY <1>7, PatchMoves
    <2>2. DraftFrom(m)
      BY <1>7, <2>1, PatchMoves DEF DraftFrom
    <2> QED BY <1>3, <1>7, <2>1, <2>2, PatchMoves
  <1>8. ASSUME NEW b \in Pages,
               \/ \E t \in Trips : BeginSave(b, t)
               \/ \E m \in Ids : BeginDiscard(b, m) \/ OpenMerge(b, m)
               \/ CloseMerge(b) \/ ApplyMerge(b) \/ ReadMerged(b)
        PROVE  Follows
    BY <1>2, <1>8 DEF BeginSave, BeginDiscard, OpenMerge, CloseMerge, ApplyMerge, ReadMerged
  <1>9. ASSUME NEW b \in Tabs, MarkSyncing(b) \/ Settle(b)
        PROVE  Follows
    <2>1. PICK m \in Ids : m = passes[b].at
      BY <1>9, MarkSyncingMoves, SettleMoves
    <2>2. /\ Ids' = Ids /\ edits' = edits /\ SameRecord(pending'[m], pending[m])
          /\ \A n \in Ids \ {m} : pending'[n] = pending[n]
          /\ pending'[m].draft = passes[b].copy.draft /\ HasCopy(passes[b])
      BY <1>9, <2>1, MarkSyncingMoves, SettleMoves DEF HasCopy
    <2>3. DraftFrom(m)
      BY <2>1, <2>2 DEF DraftFrom
    <2> QED BY <1>3, <2>2, <2>3
  <1>10. ASSUME NEW b \in Tabs,
                \/ StartPass(b) \/ ReadNext(b) \/ SendFails(b) \/ SendItinerary(b)
                \/ SendCreate(b) \/ ReadSent(b) \/ CloseTab(b)
         PROVE  Follows
    BY <1>2, <1>10 DEF StartPass, ReadNext, SendFails, SendItinerary, SendCreate, ReadSent, CloseTab
  <1> QED BY <1>5, <1>6, <1>7, <1>8, <1>9, <1>10 DEF OfflineNext

LEMMA HeldSteps ==
    ASSUME QueueTypes, QueueTypes', HeldInv, Follows
    PROVE  HeldInv'
  <1>1. edits \in Nat /\ edits' \in Nat /\ edits =< edits'
    BY DEF QueueTypes, Follows
  <1>2. PICK new : \A m \in Ids' : \A d \in Nat : Holds(m, d)' =>
          \/ m \in Ids /\ Holds(m, d)
          \/ m = new /\ d = edits + 1 /\ edits' = edits + 1
          \/ m \notin Ids /\ d = 0 /\ pending'[m].kind = "create"
    BY DEF Follows
  <1>3. ASSUME NEW m \in Ids', NEW d \in Nat, Holds(m, d)'
        PROVE  d =< edits' /\ (pending'[m].kind = "itinerary" => d > 0)
    BY <1>1, <1>2, <1>3 DEF HeldInv, Follows
  <1>4. ASSUME NEW m \in Ids', NEW n \in Ids', NEW d \in Nat \ {0}, Holds(m, d)', Holds(n, d)'
        PROVE  m = n
    <2>1. \A i \in Ids : ~Holds(i, edits + 1)
      BY <1>1 DEF HeldInv
    <2> QED BY <1>1, <1>2, <1>4, <2>1 DEF HeldInv
  <1> QED BY <1>3, <1>4 DEF HeldInv

(* What the invariant says of the versions of one trip.                    *)
SentOf(t, row) ==
    /\ row.revision = Len(row.versions)
    /\ \A k \in 1..Len(row.versions) : row.versions[k].writer \in Nat =>
          /\ row.versions[k].writer \in 1..edits
          /\ \A m \in Ids : Holds(m, row.versions[k].writer) =>
                pending[m].trip = t /\ pending[m].base = k - 1
    /\ \A k, l \in 1..Len(row.versions) :
          /\ row.versions[k].writer \in Nat /\ row.versions[k].writer = row.versions[l].writer
          => k = l

LEMMA HeldStaysSent ==
    ASSUME QueueTypes, Follows, NEW d \in 1..edits, NEW m \in Ids', Holds(m, d)'
    PROVE  /\ m \in Ids /\ Holds(m, d) /\ pending'[m].trip = pending[m].trip
           /\ pending'[m].base = pending[m].base
  <1>1. edits \in Nat /\ d # 0 /\ d # edits + 1
    BY DEF QueueTypes
  <1> QED BY <1>1 DEF Follows

LEMMA UnchangedStaysSent ==
    ASSUME QueueTypes, Follows, NEW t \in Trips, SentOf(t, trips[t]), trips'[t] = trips[t]
    PROVE  SentOf(t, trips[t])'
  <1>1. edits \in Nat /\ edits' \in {edits, edits + 1}
    BY DEF QueueTypes, Follows
  <1>2. PICK row : row = trips[t]
    OBVIOUS
  <1>3. ASSUME NEW k \in 1..Len(row.versions), row.versions[k].writer \in Nat
        PROVE  /\ row.versions[k].writer \in 1..edits'
               /\ \A m \in Ids' : Holds(m, row.versions[k].writer)' =>
                     pending'[m].trip = t /\ pending'[m].base = k - 1
    <2>1. PICK d : d = row.versions[k].writer
      OBVIOUS
    <2>2. d \in 1..edits /\ \A m \in Ids : Holds(m, d) =>
             pending[m].trip = t /\ pending[m].base = k - 1
      BY <1>2, <1>3, <2>1 DEF SentOf
    <2>3. \A m \in Ids' : Holds(m, d)' => pending'[m].trip = t /\ pending'[m].base = k - 1
      BY <2>2, HeldStaysSent
    <2> QED BY <1>1, <2>1, <2>2, <2>3
  <1> QED BY <1>2, <1>3 DEF SentOf

(* What a pass that saves a version has in hand.                           *)
Placed(t, writer, base) ==
    writer \in Nat =>
       /\ writer \in 1..edits /\ base = trips[t].revision
       /\ \E m \in Ids : Holds(m, writer) /\ pending[m].trip = t /\ pending[m].base = base

LEMMA VersionStaysSent ==
    ASSUME QueueTypes, QueueTypes', Follows, HeldInv, NEW t \in Trips, SentOf(t, trips[t]),
           NEW writer \in Writers, NEW base \in Nat, edits' = edits,
           trips' = [trips EXCEPT ![t] = UpdateItineraryAndCreateVersion(trips[t], writer, base)],
           Placed(t, writer, base)
    PROVE  SentOf(t, trips[t])'
  <1>1. /\ trips'[t].revision = trips[t].revision + 1
        /\ trips'[t].versions = Append(trips[t].versions, [writer |-> writer, base |-> base])
    BY SavesAreTyped
  <1>2. PICK old, new, version, n :
           /\ old = trips[t].versions /\ version = [writer |-> writer, base |-> base]
           /\ new = trips'[t].versions /\ n = Len(old)
    OBVIOUS
  <1>3. old \in Seq([writer : Writers, base : Nat]) /\ n \in Nat
    <2>1. trips[t] \in TripRows(Writers)
      BY DEF QueueTypes
    <2> QED BY <1>2, <2>1 DEF TripRows
  <1>4. /\ Len(new) = n + 1 /\ \A k \in 1..n : new[k] = old[k]
        /\ new[n + 1].writer = writer
    BY <1>1, <1>2, <1>3
  <1>5. trips'[t].revision = Len(new) /\ trips[t].revision = n
    BY <1>1, <1>2, <1>4 DEF SentOf
  <1>6. /\ \A k \in 1..n : old[k].writer \in Nat =>
             /\ old[k].writer \in 1..edits
             /\ \A m \in Ids : Holds(m, old[k].writer) =>
                   pending[m].trip = t /\ pending[m].base = k - 1
        /\ \A k, l \in 1..n : old[k].writer \in Nat /\ old[k].writer = old[l].writer => k = l
    BY <1>2 DEF SentOf
  <1>7. writer \in Nat => base = n /\ writer \in 1..edits /\ \A k \in 1..n : old[k].writer # writer
    <2>1. writer \in Nat => base = n /\ writer \in 1..edits
      BY <1>5 DEF Placed
    <2>2. ASSUME writer \in Nat, NEW k \in 1..n, old[k].writer = writer
          PROVE  FALSE
      <3>1. PICK m \in Ids : Holds(m, writer) /\ pending[m].base = base
        BY <2>2 DEF Placed
      <3>2. pending[m].base = k - 1
        BY <1>6, <2>2, <3>1
      <3> QED BY <1>3, <2>1, <2>2, <3>1, <3>2
    <2> QED BY <2>1, <2>2
  <1>8. ASSUME NEW k \in 1..(n + 1), new[k].writer \in Nat
        PROVE  /\ new[k].writer \in 1..edits'
               /\ \A m \in Ids' : Holds(m, new[k].writer)' =>
                     pending'[m].trip = t /\ pending'[m].base = k - 1
    <2>1. PICK d : d = new[k].writer
      OBVIOUS
    <2>2. d \in 1..edits /\ \A m \in Ids : Holds(m, d) =>
             pending[m].trip = t /\ pending[m].base = k - 1
      <3>1. CASE k \in 1..n
        BY <1>4, <1>6, <1>8, <2>1, <3>1
      <3>2. CASE k = n + 1
        <4>1. d = writer /\ d \in 1..edits /\ base = n
          BY <1>4, <1>7, <1>8, <2>1, <3>2
        <4>2. PICK m \in Ids : Holds(m, d) /\ pending[m].trip = t /\ pending[m].base = base
          BY <4>1 DEF Placed
        <4>3. d \in Nat \ {0}
          BY <4>1
        <4>4. \A i \in Ids : Holds(i, d) => i = m
          BY <4>2, <4>3 DEF HeldInv
        <4> QED BY <1>3, <3>2, <4>1, <4>2, <4>4
      <3> QED BY <1>3, <3>1, <3>2
    <2>3. \A m \in Ids' : Holds(m, d)' => pending'[m].trip = t /\ pending'[m].base = k - 1
      BY <2>2, HeldStaysSent
    <2> QED BY <2>1, <2>2, <2>3
  <1>9. ASSUME NEW k \in 1..(n + 1), NEW l \in 1..(n + 1),
               new[k].writer \in Nat, new[k].writer = new[l].writer
        PROVE  k = l
    <2>1. (k \in 1..n \/ k = n + 1) /\ (l \in 1..n \/ l = n + 1)
      BY <1>3
    <2> QED BY <1>4, <1>6, <1>7, <1>9, <2>1
  <1> QED BY <1>2, <1>4, <1>5, <1>8, <1>9, SMTT(20) DEF SentOf

SentInv == \A t \in Trips : SentOf(t, trips[t])

LEMMA SentSteps ==
    ASSUME QueueTypes, HeldInv, SentInv, OfflineNext
    PROVE  SentInv'
  <1>1. QueueTypes' /\ Follows
    BY QueueSteps, StepsFollow
  <1>2. ASSUME UNCHANGED trips
        PROVE  SentInv'
    BY <1>1, <1>2, UnchangedStaysSent DEF SentInv
  <1>3. ASSUME NEW t \in Trips, NEW writer \in Writers, NEW base \in Nat, edits' = edits,
               trips' = [trips EXCEPT ![t] =
                           UpdateItineraryAndCreateVersion(trips[t], writer, base)],
               Placed(t, writer, base)
        PROVE  SentInv'
    <2>1. SentOf(t, trips[t])'
      BY <1>1, <1>3, VersionStaysSent DEF SentInv
    <2>2. \A u \in Trips \ {t} : trips'[u] = trips[u]
      BY <1>3, SavesAreTyped
    <2>3. \A u \in Trips \ {t} : SentOf(u, trips[u])'
      BY <1>1, <2>2, UnchangedStaysSent DEF SentInv
    <2> QED BY <2>1, <2>3 DEF SentInv
  <1>4. Elsewhere \in Writers \ Nat /\ Merged \in Writers \ Nat
    BY OfflineAssumption DEF Writers
  <1>5. \A t \in Trips : trips[t].revision \in Nat
    BY DEF QueueTypes, TripRows
  <1>6. ASSUME NEW t \in Trips, UpdateElsewhere(t)
        PROVE  SentInv'
    BY <1>3, <1>4, <1>5, <1>6, ElsewhereMoves DEF Placed
  <1>7. ASSUME NEW b \in Pages, ApplyMerge(b)
        PROVE  SentInv'
    <2>1. PICK t \in Trips : t = dialogs[b].copy.trip
      BY <1>7, QueueFacts DEF ApplyMerge, DialogOK, SameRecord, Mutation
    <2>2. /\ trips' = [trips EXCEPT ![t] =
                    UpdateItineraryAndCreateVersion(trips[t], Merged, trips[t].revision)]
          /\ edits' = edits
      BY <1>7, <2>1 DEF ApplyMerge, QueueTypes
    <2> QED BY <1>3, <1>4, <1>5, <2>2 DEF Placed
  <1>8. ASSUME NEW b \in Tabs, SendItinerary(b)
        PROVE  SentInv'
    <2>1. CASE UNCHANGED trips
      BY <1>2, <2>1
    <2>2. CASE /\ trips[passes[b].copy.trip].revision = passes[b].copy.base
               /\ trips' = [trips EXCEPT ![passes[b].copy.trip] =
                     UpdateItineraryAndCreateVersion(trips[passes[b].copy.trip],
                        passes[b].copy.draft, passes[b].copy.base)]
      <3>1. /\ passes[b].phase = "sending" /\ passes[b].copy.kind = "itinerary"
            /\ PassOK(passes[b], pending) /\ edits' = edits
        BY <1>8, SendItineraryMoves, QueueFacts
      <3>2. PICK m \in Ids, t \in Trips, d \in Nat, base \in Nat :
               /\ m = passes[b].at /\ t = passes[b].copy.trip /\ d = passes[b].copy.draft
               /\ base = passes[b].copy.base
               /\ pending[m].kind = "itinerary" /\ pending[m].trip = t /\ pending[m].base = base
        BY <3>1 DEF PassOK, HasCopy, SameRecord, Mutation, Ids
      <3>3. Holds(m, d)
        BY <3>1, <3>2 DEF Holds, HasCopy
      <3>4. d \in 1..edits
        BY <3>2, <3>3, QueueFacts DEF HeldInv
      <3>5. /\ trips' = [trips EXCEPT ![t] = UpdateItineraryAndCreateVersion(trips[t], d, base)]
            /\ trips[t].revision = base /\ d \in Writers
        BY <2>2, <3>2 DEF Writers
      <3>6. Placed(t, d, base)
        BY <3>2, <3>3, <3>4, <3>5 DEF Placed
      <3> QED BY <1>3, <3>1, <3>5, <3>6
    <2> QED BY <1>8, <2>1, <2>2, SendItineraryMoves
  <1>9. \/ UNCHANGED trips
        \/ \E t \in Trips : UpdateElsewhere(t)
        \/ \E b \in Pages : ApplyMerge(b)
        \/ \E b \in Tabs : SendItinerary(b)
    BY DEF OfflineNext, enqueueCompanionMutation, BeginSave, BeginDiscard, OpenMerge, FinishSave,
           CloseMerge, ReadMerged, Patch, StartPass, ReadNext, MarkSyncing, SendFails, SendCreate,
           ReadSent, Settle, CloseTab
  <1> QED BY <1>2, <1>6, <1>7, <1>8, <1>9

-----------------------------------------------------------------------------
(* Creations on the server: as long as nothing made it unsure, one pass at *)
(* most has the record in its list, and after it was sent the record is    *)
(* not pending, nor listed any longer than until it is marked synced.      *)
IsListed(pass, m) == m \in DOMAIN pass.listed

Calm(m) ==
    /\ entities[m] \in {0, 1}
    /\ entities[m] = 1 => pending[m].status # "pending"
    /\ \A b, c \in Tabs : IsListed(passes[b], m) /\ IsListed(passes[c], m) => b = c
    /\ \A b \in Tabs : IsListed(passes[b], m) /\ entities[m] = 1 =>
          /\ passes[b].at = m /\ passes[b].phase \in {"answered", "settling"}
          /\ passes[b].outcome = "synced"
    /\ \A b \in Tabs :
          passes[b].at = m /\ passes[b].phase \in {"sending", "answered", "settling"} =>
             pending[m].status # "pending"

CreatedInv ==
    \A m \in Ids :
       /\ pending[m].kind \in {"itinerary", "create"}
       /\ pending[m].kind = "itinerary" => entities[m] = 0
       /\ pending[m].kind = "create" /\ m \notin history.unsure => Calm(m)

LEMMA KindsAre ==
    ASSUME QueueTypes
    PROVE  /\ \A m \in Ids : pending[m].kind \in {"itinerary", "create"}
           /\ \A b \in Tabs : passes[b].phase \notin {"idle", "listed"} =>
                 passes[b].at \in Ids /\ IsListed(passes[b], passes[b].at)
           /\ \A b \in Tabs : \A m : IsListed(passes[b], m) =>
                 m \in Ids /\ passes[b].phase # "idle"
           /\ \A m : ~IsListed(IdlePass, m)
           /\ IdlePass.at = 0 /\ 0 \notin Ids
  <1>1. \A m \in Ids : pending[m].kind \in {"itinerary", "create"}
    BY QueueFacts DEF Mutation
  <1>2. \A b \in Tabs : PassOK(passes[b], pending)
    BY QueueFacts
  <1>3. \A m : ~IsListed(IdlePass, m)
    BY DEF IdlePass, IsListed
  <1>4. IdlePass.at = 0
    BY DEF IdlePass
  <1> QED BY <1>1, <1>2, <1>3, <1>4, QueueFacts DEF PassOK, IsListed, Ids

(* A step of a pass for a record that it leaves as pending as it was.      *)
LEMMA CalmStays ==
    ASSUME NEW b, NEW pass, NEW m, Calm(m), entities'[m] = entities[m],
           pending'[m].status = pending[m].status \/ pending'[m].status # "pending",
           UNCHANGED passes \/ (b \in Tabs /\ Onwards(b, pass)),
           IsListed(pass, m) => IsListed(passes[b], m) /\ entities[m] # 1,
           pass.at = m /\ pass.phase \in {"sending", "answered", "settling"} =>
              pending'[m].status # "pending"
    PROVE  Calm(m)'
  <1>1. CASE UNCHANGED passes
    BY <1>1 DEF Calm, IsListed
  <1>2. CASE b \in Tabs /\ Onwards(b, pass)
    <2>1. passes'[b] = pass /\ \A c \in Tabs \ {b} : passes'[c] = passes[c]
      BY <1>2 DEF Onwards
    <2>2. \A c \in Tabs : IsListed(passes'[c], m) => IsListed(passes[c], m)
      BY <1>2, <2>1
    <2>3. \A c, d \in Tabs : IsListed(passes'[c], m) /\ IsListed(passes'[d], m) => c = d
      BY <2>2 DEF Calm
    <2>4. \A c \in Tabs : IsListed(passes'[c], m) /\ entities[m] = 1 =>
             /\ passes'[c].at = m /\ passes'[c].phase \in {"answered", "settling"}
             /\ passes'[c].outcome = "synced"
      BY <1>2, <2>1 DEF Calm
    <2>5. \A c \in Tabs :
             passes'[c].at = m /\ passes'[c].phase \in {"sending", "answered", "settling"} =>
                pending'[m].status # "pending"
      BY <1>2, <2>1 DEF Calm
    <2> QED BY <2>3, <2>4, <2>5 DEF Calm, IsListed
  <1> QED BY <1>1, <1>2

(* A step that changes no record but in status, no entity and no pass.     *)
LEMMA PagesKeepCalm ==
    ASSUME QueueTypes, CreatedInv, Ids' = Ids, UNCHANGED <<entities, passes>>,
           \A m \in Ids : /\ pending'[m].kind = pending[m].kind
                          /\ \/ pending'[m].status = pending[m].status
                             \/ pending'[m].status # "pending"
                             \/ pending[m].kind = "itinerary",
           history.unsure \subseteq history'.unsure
    PROVE  CreatedInv'
  <1>1. ASSUME NEW m \in Ids, Calm(m), pending[m].kind = "create"
        PROVE  Calm(m)'
    BY <1>1 DEF Calm, IsListed
  <1> QED BY <1>1 DEF CreatedInv

LEMMA AddsKeepCalm ==
    ASSUME QueueTypes, CreatedInv, NEW record \in Mutation, Add(record),
           UNCHANGED <<passes, history>>
    PROVE  CreatedInv'
  <1>1. PICK new : new = Len(pending) + 1
    OBVIOUS
  <1>2. /\ Ids' = Ids \cup {new} /\ new \notin Ids /\ pending'[new] = record
        /\ \A n \in Ids : pending'[n] = pending[n] /\ entities'[n] = entities[n]
        /\ entities'[new] = 0
    BY <1>1, AddGrows, QueueFacts DEF Ids
  <1>3. ASSUME NEW m \in Ids, Calm(m)
        PROVE  Calm(m)'
    BY <1>2, <1>3 DEF Calm, IsListed
  <1>4. Calm(new)'
    <2>1. \A b \in Tabs : /\ ~IsListed(passes[b], new)
                          /\ passes[b].phase \in {"sending", "answered", "settling"} =>
                                passes[b].at # new
      BY <1>2, KindsAre
    <2> QED BY <1>2, <2>1 DEF Calm, IsListed
  <1>5. record.kind \in {"itinerary", "create"}
    BY DEF Mutation
  <1> QED BY <1>2, <1>3, <1>4, <1>5 DEF CreatedInv

LEMMA PagesCreate ==
    ASSUME QueueTypes, CreatedInv, NEW b \in Pages,
           \/ \E t \in Trips : BeginSave(b, t)
           \/ \E m \in Ids : BeginDiscard(b, m) \/ OpenMerge(b, m)
           \/ FinishSave(b) \/ CloseMerge(b) \/ ApplyMerge(b) \/ ReadMerged(b) \/ Patch(b)
    PROVE  CreatedInv'
  <1>1. CASE \/ \E t \in Trips : BeginSave(b, t)
             \/ \E m \in Ids : BeginDiscard(b, m) \/ OpenMerge(b, m)
             \/ CloseMerge(b) \/ ReadMerged(b)
    <2>1. UNCHANGED <<pending, entities, passes, history>>
      BY <1>1 DEF BeginSave, BeginDiscard, OpenMerge, CloseMerge, ReadMerged
    <2> QED BY <2>1, PagesKeepCalm DEF Ids
  <1>2. CASE ApplyMerge(b)
    <2>1. UNCHANGED <<pending, entities, passes>> /\ history'.unsure = history.unsure
      BY <1>2 DEF ApplyMerge, QueueTypes, Histories
    <2> QED BY <2>1, PagesKeepCalm DEF Ids
  <1>3. CASE FinishSave(b) /\ dialogs[b].phase = "saving"
    <2>1. PICK m \in Ids : m = dialogs[b].at
      BY <1>3, SavesOverMove
    <2>2. /\ Ids' = Ids /\ UNCHANGED <<entities, passes>> /\ history'.unsure = history.unsure
          /\ pending'[m].kind = pending[m].kind /\ pending[m].kind = "itinerary"
          /\ \A n \in Ids \ {m} : pending'[n] = pending[n]
      BY <1>3, <2>1, SavesOverMove DEF SameRecord
    <2> QED BY <2>2, PagesKeepCalm
  <1>4. CASE FinishSave(b) /\ dialogs[b].phase = "creating"
    <2>1. UNCHANGED <<passes, history>>
      BY <1>4, SavesAnewMove
    <2>2. \E record \in Mutation : Add(record)
      BY <1>4, SavesAnewMove
    <2> QED BY <2>1, <2>2, AddsKeepCalm
  <1>5. CASE Patch(b)
    <2>1. PICK m \in Ids : m = dialogs[b].at
      BY <1>5, PatchMoves
    <2>2. /\ Ids' = Ids /\ UNCHANGED <<entities, passes>> /\ history'.unsure = history.unsure
          /\ pending'[m].kind = pending[m].kind /\ pending'[m].status \in FINAL_STATUSES
          /\ \A n \in Ids \ {m} : pending'[n] = pending[n]
      BY <1>5, <2>1, PatchMoves DEF SameRecord
    <2>3. pending'[m].status # "pending"
      BY <2>2 DEF FINAL_STATUSES
    <2> QED BY <2>2, <2>3, PagesKeepCalm
  <1> QED BY <1>1, <1>2, <1>3, <1>4, <1>5 DEF FinishSave

(* A record in the list of a pass that has not got an answer for it.       *)
LEMMA ListedAreNotSent ==
    ASSUME NEW m, Calm(m), NEW b \in Tabs, IsListed(passes[b], m),
           passes[b].at # m \/ passes[b].phase \notin {"answered", "settling"}
    PROVE  entities[m] # 1
  BY DEF Calm

LEMMA StartCreates ==
    ASSUME QueueTypes, CreatedInv, NEW b \in Tabs, StartPass(b)
    PROVE  CreatedInv'
  <1>1. PICK pass : /\ Onwards(b, pass) /\ DOMAIN pass.listed = DueForSync
                    /\ pass.phase = "listed"
    BY StartPassMoves, PassFields
  <1>2. /\ UNCHANGED <<pending, entities>> /\ Ids' = Ids /\ passes[b].phase = "idle"
        /\ history'.unsure = history.unsure \cup
              {m \in DueForSync : \E c \in Tabs : m \in DOMAIN passes[c].listed}
    BY StartPassMoves DEF Ids
  <1>3. ASSUME NEW m \in Ids, Calm(m), m \notin history'.unsure
        PROVE  Calm(m)'
    <2>1. CASE m \notin DueForSync
      <3>1. ~IsListed(pass, m)
        BY <1>1, <2>1 DEF IsListed
      <3> QED BY <1>1, <1>2, <1>3, <3>1, CalmStays
    <2>2. CASE m \in DueForSync
      <3>1. pending[m].status = "pending" /\ entities[m] = 0
        BY <1>3, <2>2 DEF DueForSync, Calm
      <3>2. \A c \in Tabs : ~IsListed(passes[c], m)
        BY <1>2, <1>3, <2>2 DEF IsListed
      <3>3. \A c \in Tabs \ {b} : passes'[c] = passes[c] /\ ~IsListed(passes'[c], m)
        BY <1>1, <3>2 DEF Onwards
      <3>4. passes'[b].phase = "listed"
        BY <1>1 DEF Onwards
      <3>5. entities'[m] = 0 /\ pending'[m] = pending[m]
        BY <1>2, <3>1
      <3>6. \A c, d \in Tabs : IsListed(passes'[c], m) /\ IsListed(passes'[d], m) => c = d
        BY <3>3
      <3>7. \A c \in Tabs :
               passes'[c].at = m /\ passes'[c].phase \in {"sending", "answered", "settling"} =>
                  pending'[m].status # "pending"
        BY <1>3, <3>3, <3>4, <3>5 DEF Calm
      <3> QED BY <3>5, <3>6, <3>7 DEF Calm, IsListed
    <2> QED BY <2>1, <2>2
  <1> QED BY <1>2, <1>3 DEF CreatedInv

LEMMA PassesCreate ==
    ASSUME QueueTypes, CreatedInv, NEW b \in Tabs,
           ReadNext(b) \/ SendFails(b) \/ SendItinerary(b) \/ CloseTab(b)
    PROVE  CreatedInv'
  <1>1. /\ UNCHANGED <<pending, entities>> /\ Ids' = Ids /\ history'.unsure = history.unsure
    BY ReadNextMoves, SendFailsMoves, SendItineraryMoves, CloseTabMoves DEF Ids
  <1>2. \/ Onwards(b, IdlePass)
        \/ \E pass : /\ Onwards(b, pass) /\ pass.listed = passes[b].listed
                     /\ \/ pass.phase = "marking" /\ passes[b].phase = "listed"
                        \/ /\ pass.phase = "answered" /\ passes[b].phase = "sending"
                           /\ pass.at = passes[b].at
    BY ReadNextMoves, SendFailsMoves, SendItineraryMoves, CloseTabMoves, PassFields
  <1>3. ASSUME NEW m \in Ids, Calm(m)
        PROVE  Calm(m)'
    <2>1. CASE Onwards(b, IdlePass)
      BY <1>1, <1>3, <2>1, KindsAre, CalmStays
    <2>2. ASSUME NEW pass, Onwards(b, pass), pass.listed = passes[b].listed,
                 \/ pass.phase = "marking" /\ passes[b].phase = "listed"
                 \/ /\ pass.phase = "answered" /\ passes[b].phase = "sending"
                    /\ pass.at = passes[b].at
          PROVE  Calm(m)'
      <3>1. IsListed(pass, m) => IsListed(passes[b], m) /\ entities[m] # 1
        BY <1>3, <2>2, ListedAreNotSent DEF IsListed
      <3>2. pass.at = m /\ pass.phase \in {"sending", "answered", "settling"} =>
              pending'[m].status # "pending"
        BY <1>1, <1>3, <2>2 DEF Calm
      <3> QED BY <1>1, <1>3, <2>2, <3>1, <3>2, CalmStays
    <2> QED BY <1>2, <2>1, <2>2
  <1> QED BY <1>1, <1>3 DEF CreatedInv

LEMMA ReadSentCreates ==
    ASSUME QueueTypes, CreatedInv, NEW b \in Tabs, ReadSent(b)
    PROVE  CreatedInv'
  <1>1. PICK pass : /\ Onwards(b, pass) /\ pass.listed = passes[b].listed
                    /\ pass.phase = "settling" /\ pass.at = passes[b].at
                    /\ pass.outcome = passes[b].outcome
    BY ReadSentMoves, PassFields
  <1>2. /\ UNCHANGED <<pending, entities, history>> /\ Ids' = Ids /\ passes[b].phase = "answered"
    BY ReadSentMoves DEF Ids
  <1>3. ASSUME NEW m \in Ids, Calm(m)
        PROVE  Calm(m)'
    <2>1. passes'[b] = pass /\ \A c \in Tabs \ {b} : passes'[c] = passes[c]
      BY <1>1 DEF Onwards
    <2>2. \A c \in Tabs : IsListed(passes'[c], m) <=> IsListed(passes[c], m)
      BY <1>1, <2>1 DEF IsListed
    <2>3. \A c, d \in Tabs : IsListed(passes'[c], m) /\ IsListed(passes'[d], m) => c = d
      BY <1>3, <2>2 DEF Calm
    <2>4. \A c \in Tabs : IsListed(passes'[c], m) /\ entities[m] = 1 =>
             /\ passes'[c].at = m /\ passes'[c].phase \in {"answered", "settling"}
             /\ passes'[c].outcome = "synced"
      BY <1>1, <1>3, <2>1, <2>2 DEF Calm
    <2>5. \A c \in Tabs :
             passes'[c].at = m /\ passes'[c].phase \in {"sending", "answered", "settling"} =>
                pending[m].status # "pending"
      BY <1>1, <1>2, <1>3, <2>1 DEF Calm
    <2> QED BY <1>2, <1>3, <2>3, <2>4, <2>5 DEF Calm, IsListed
  <1> QED BY <1>2, <1>3 DEF CreatedInv

LEMMA SendCreateCreates ==
    ASSUME QueueTypes, CreatedInv, NEW b \in Tabs, SendCreate(b)
    PROVE  CreatedInv'
  <1>1. PICK n \in Ids : n = passes[b].at /\ IsListed(passes[b], n)
    BY SendCreateMoves, KindsAre
  <1>2. /\ passes[b].phase = "sending" /\ UNCHANGED pending /\ Ids' = Ids
        /\ pending[n].kind = "create"
    BY <1>1, SendCreateMoves, QueueFacts DEF PassOK, HasCopy, SameRecord, Ids
  <1>3. PICK outcome \in {"synced", "pending"} :
          /\ Onwards(b, PassOf("answered", passes[b].listed, passes[b].at, NoCopy, outcome))
          /\ history'.unsure = IF outcome = "pending" THEN history.unsure \cup {n}
                               ELSE history.unsure
    BY <1>1, SendCreateMoves
  <1>4. PICK pass : /\ Onwards(b, pass) /\ pass.listed = passes[b].listed /\ pass.at = n
                    /\ pass.phase = "answered" /\ pass.outcome = outcome
    BY <1>1, <1>3, PassFields
  <1>5. PICK count : count = IF entities[n] = 0 THEN 1 ELSE 2
    OBVIOUS
  <1>6. entities'[n] = count /\ \A m \in Ids \ {n} : entities'[m] = entities[m]
    <2>1. entities' = [entities EXCEPT ![n] = count]
      BY <1>1, <1>5, SendCreateMoves
    <2>2. entities \in Seq(0..2) /\ Len(entities) = Len(pending)
      BY DEF QueueTypes
    <2> QED BY <1>1, <2>1, <2>2 DEF Ids
  <1>7. ASSUME NEW m \in Ids, m # n, Calm(m)
        PROVE  Calm(m)'
    <2>1. IsListed(pass, m) => IsListed(passes[b], m) /\ entities[m] # 1
      BY <1>1, <1>2, <1>4, <1>7, ListedAreNotSent DEF IsListed
    <2> QED BY <1>2, <1>4, <1>6, <1>7, <2>1, CalmStays
  <1>8. ASSUME Calm(n), n \notin history'.unsure
        PROVE  Calm(n)'
    <2>1. outcome = "synced"
      BY <1>3, <1>8
    <2>2. entities[n] # 1
      BY <1>1, <1>2, <1>8, ListedAreNotSent
    <2>3. entities'[n] = 1
      BY <1>5, <1>6, <1>8, <2>2 DEF Calm
    <2>4. pending[n].status # "pending"
      BY <1>1, <1>2, <1>8 DEF Calm
    <2>5. passes'[b] = pass /\ \A c \in Tabs \ {b} : passes'[c] = passes[c]
      BY <1>4 DEF Onwards
    <2>6. \A c \in Tabs \ {b} : ~IsListed(passes[c], n)
      BY <1>1, <1>8 DEF Calm
    <2>7. \A c \in Tabs : IsListed(passes'[c], n) => c = b
      BY <2>5, <2>6
    <2> QED BY <1>2, <1>4, <2>1, <2>3, <2>4, <2>5, <2>7 DEF Calm, IsListed
  <1> QED BY <1>2, <1>3, <1>6, <1>7, <1>8 DEF CreatedInv

LEMMA WritesCreate ==
    ASSUME QueueTypes, CreatedInv, NEW b \in Tabs, MarkSyncing(b) \/ Settle(b)
    PROVE  CreatedInv'
  <1>1. PICK n \in Ids : n = passes[b].at /\ IsListed(passes[b], n)
    <2>1. passes[b].phase \notin {"idle", "listed"}
      BY DEF MarkSyncing, Settle
    <2> QED BY <2>1, KindsAre
  <1>2. /\ UNCHANGED <<entities, history>> /\ Ids' = Ids
        /\ pending'[n].kind = pending[n].kind
        /\ \A m \in Ids \ {n} : pending'[m] = pending[m]
    BY <1>1, MarkSyncingMoves, SettleMoves DEF SameRecord
  <1>3. CASE MarkSyncing(b)
    <2>1. PICK pass : Onwards(b, pass) /\ pass.listed = passes[b].listed /\ pass.at = n
      BY <1>1, <1>3, MarkSyncingMoves, PassFields
    <2>2. passes[b].phase = "marking" /\ pending'[n].status = "syncing"
      BY <1>1, <1>3, MarkSyncingMoves
    <2>3. ASSUME NEW m \in Ids, Calm(m)
          PROVE  Calm(m)'
      <3>1. IsListed(pass, m) => IsListed(passes[b], m) /\ entities[m] # 1
        BY <2>1, <2>2, <2>3, ListedAreNotSent DEF IsListed
      <3>2. pending'[m].status = pending[m].status \/ pending'[m].status # "pending"
        BY <1>2, <2>2
      <3>3. pass.at = m => pending'[m].status # "pending"
        BY <2>1, <2>2
      <3> QED BY <1>2, <2>1, <2>3, <3>1, <3>2, <3>3, CalmStays
    <2> QED BY <1>2, <2>3 DEF CreatedInv
  <1>4. CASE Settle(b)
    <2>1. PICK pass : /\ Onwards(b, pass) /\ pass.at = 0
                      /\ \A m : IsListed(pass, m) => IsListed(passes[b], m) /\ m # n
      <3>1. \/ Onwards(b, IdlePass)
            \/ \E rest : DOMAIN rest = DOMAIN passes[b].listed \ {n}
                    /\ Onwards(b, PassOf("listed", rest, 0, NoCopy, "none"))
        BY <1>1, <1>4, SettleMoves
      <3>2. CASE Onwards(b, IdlePass)
        BY <3>2, KindsAre
      <3>3. ASSUME NEW rest, DOMAIN rest = DOMAIN passes[b].listed \ {n},
                   Onwards(b, PassOf("listed", rest, 0, NoCopy, "none"))
            PROVE  \E next : /\ Onwards(b, next) /\ next.at = 0
                             /\ \A m : IsListed(next, m) => IsListed(passes[b], m) /\ m # n
        <4>1. PICK pass : /\ pass = PassOf("listed", rest, 0, NoCopy, "none")
                          /\ pass.at = 0 /\ pass.listed = rest
          BY PassFields
        <4> QED BY <3>3, <4>1 DEF IsListed
      <3> QED BY <3>1, <3>2, <3>3
    <2>2. passes[b].phase = "settling" /\ pending'[n].status = passes[b].outcome
      BY <1>1, <1>4, SettleMoves
    <2>3. ASSUME NEW m \in Ids, m # n, Calm(m)
          PROVE  Calm(m)'
      <3>1. IsListed(pass, m) => IsListed(passes[b], m) /\ entities[m] # 1
        BY <1>1, <2>1, <2>3, ListedAreNotSent
      <3>2. pass.at # m
        BY <2>1, KindsAre
      <3> QED BY <1>2, <2>1, <2>3, <3>1, <3>2, CalmStays
    <2>4. ASSUME Calm(n)
          PROVE  Calm(n)'
      <3>1. entities[n] = 1 => pending'[n].status # "pending"
        BY <1>1, <2>2, <2>4 DEF Calm
      <3>2. passes'[b] = pass /\ \A c \in Tabs \ {b} : passes'[c] = passes[c]
        BY <2>1 DEF Onwards
      <3>3. \A c \in Tabs \ {b} : ~IsListed(passes[c], n)
        BY <1>1, <2>4 DEF Calm
      <3>4. \A c \in Tabs : ~IsListed(passes'[c], n)
        BY <2>1, <3>2, <3>3
      <3>5. \A c \in Tabs : passes'[c].phase \in {"sending", "answered", "settling"} =>
               passes'[c].at # n
        <4>1. \A c \in Tabs \ {b} : passes[c].phase \in {"sending", "answered", "settling"} =>
                passes[c].at # n
          BY <3>3, KindsAre
        <4>2. pass.at # n
          BY <2>1, KindsAre
        <4> QED BY <3>2, <4>1, <4>2
      <3> QED BY <1>2, <2>4, <3>1, <3>4, <3>5 DEF Calm, IsListed
    <2> QED BY <1>2, <2>3, <2>4 DEF CreatedInv
  <1> QED BY <1>3, <1>4

LEMMA CreatedSteps ==
    QueueTypes /\ CreatedInv /\ [OfflineNext]_offlineVars => CreatedInv'
  <1>1. ASSUME QueueTypes, CreatedInv, NEW t \in Trips, enqueueCompanionMutation(t)
        PROVE  CreatedInv'
    <2>1. UNCHANGED <<passes, history>> /\ \E record \in Mutation : Add(record)
      BY <1>1, CompanionMoves
    <2> QED BY <1>1, <2>1, AddsKeepCalm
  <1>2. ASSUME QueueTypes, CreatedInv, NEW t \in Trips, UpdateElsewhere(t)
        PROVE  CreatedInv'
    BY <1>2, ElsewhereMoves, PagesKeepCalm DEF Ids
  <1>3. CreatedInv /\ UNCHANGED offlineVars => CreatedInv'
    BY DEF offlineVars, CreatedInv, Calm, IsListed, Ids
  <1> QED BY <1>1, <1>2, <1>3, PagesCreate, StartCreates, PassesCreate, ReadSentCreates,
             SendCreateCreates, WritesCreate DEF OfflineNext

LEMMA SentAndHeldSteps ==
    QueueTypes /\ HeldInv /\ SentInv /\ [OfflineNext]_offlineVars =>
       HeldInv' /\ SentInv'
  <1>1. QueueTypes /\ HeldInv /\ SentInv /\ OfflineNext => HeldInv' /\ SentInv'
    BY QueueSteps, StepsFollow, HeldSteps, SentSteps
  <1>2. HeldInv /\ UNCHANGED offlineVars => HeldInv'
    BY DEF offlineVars, HeldInv, Holds, HasCopy, Ids
  <1>3. SentInv /\ UNCHANGED offlineVars => SentInv'
    BY DEF offlineVars, SentInv, SentOf, Holds, HasCopy, Ids
  <1> QED BY <1>1, <1>2, <1>3

(* An edit becomes one version at most, however often passes of any tab    *)
(* send it, and a creation one entity, unless its answer was lost or two   *)
(* passes had listed it (syncMutation).                                    *)
THEOREM SendsTakeEffectOnce == OfflineSpec => []DuplicatesExplained
  <1>1. OfflineInit => HeldInv /\ SentInv /\ CreatedInv
    <2>1. OfflineInit => HeldInv /\ CreatedInv
      BY DEF OfflineInit, HeldInv, CreatedInv, Ids
    <2>2. ASSUME OfflineInit
          PROVE  SentInv
      <3>1. \A t \in Trips : trips[t].versions = << >> /\ trips[t].revision = 0
        BY <2>2 DEF OfflineInit, InitTrips, NewTrip
      <3>2. ASSUME NEW t \in Trips
            PROVE  Len(trips[t].versions) = 0 /\ 1..Len(trips[t].versions) = {}
        BY <3>1
      <3>3. ASSUME NEW t \in Trips
            PROVE  SentOf(t, trips[t])
        BY <3>1, <3>2 DEF SentOf
      <3> QED BY <3>3 DEF SentInv
    <2> QED BY <2>1, <2>2
  <1>2. QueueTypes /\ SentInv /\ CreatedInv => DuplicatesExplained
    <2>1. ASSUME CreatedInv, NEW m \in Ids, entities[m] > 1
          PROVE  m \in history.unsure
      BY <2>1 DEF CreatedInv, Calm
    <2>2. SentInv => \A t \in Trips : \A k, l \in 1..Len(trips[t].versions) :
             /\ trips[t].versions[k].writer \in Nat
             /\ trips[t].versions[k].writer = trips[t].versions[l].writer
             => k = l
      BY DEF SentInv, SentOf
    <2> QED BY <2>1, <2>2 DEF DuplicatesExplained
  <1> QED BY <1>1, <1>2, SentAndHeldSteps, CreatedSteps, QueueTypesHold, PTL DEF OfflineSpec
=============================================================================
