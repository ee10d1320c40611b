------------------------------ MODULE MCServices ------------------------------
(***************************************************************************)
(* Instances of the components of the services that share no state with    *)
(* each other: a behaviour lets one of them move, chosen initially, and    *)
(* the others rest in their initial states.  So one run checks each of     *)
(* them, and no product of independent ones.  Reminders have two such      *)
(* instances: one reminder, which users decide about and passes report,    *)
(* and two editors who generate reminders at a time, before any is due.    *)
(* Beside two proposals there is one edit at most.                         *)
(***************************************************************************)
EXTENDS CleanupRuns, Collaboration, DataExports, DeadLetters, Digests, Expenses,
        NotificationDedupe, Proposals, Reminders, Workspaces, TLC

VARIABLE component

serviceVars == <<component, cleanupVars, collabVars, letterVars, digestVars, expenseVars,
                 dedupeVars, exportVars, proposalVars, reminderVars, workspaceVars>>

ServicesInit ==
    /\ component \in {"cleanup", "collaboration", "exports", "deadLetters", "digests", "expenses",
                      "notifications", "proposals", "remindersDecided", "remindersGenerated",
                      "workspaces"}
    /\ CleanupInit /\ CollabInit /\ ExportInit /\ DeadLetterInit /\ DigestInit /\ ExpenseInit
    /\ DedupeInit /\ ProposalInit /\ ReminderInit /\ WorkspaceInit

Edits(t) == Cardinality({k \in DOMAIN trips[t].versions : trips[t].versions[k].writer = 0})
OneEdit == Len(proposals') > 1 => \A t \in Trips : Edits(t)' =< 1

OneReminder == Len(reminders') =< 1 /\ Cardinality(UnderWay') =< 1
NothingIsDue == \A k \in DOMAIN reminders' : ~reminders'[k].due

ServicesNext ==
    /\ UNCHANGED component
    /\ IF component = "cleanup" THEN CleanupNext ELSE UNCHANGED cleanupVars
    /\ IF component = "collaboration" THEN CollabNext ELSE UNCHANGED collabVars
    /\ IF component = "exports" THEN ExportNext ELSE UNCHANGED exportVars
    /\ IF component = "deadLetters" THEN DeadLetterNext ELSE UNCHANGED letterVars
    /\ IF component = "digests" THEN DigestNext ELSE UNCHANGED digestVars
    /\ IF component = "expenses" THEN ExpenseNext ELSE UNCHANGED expenseVars
    /\ IF component = "notifications" THEN DedupeNext ELSE UNCHANGED dedupeVars
    /\ IF component = "proposals" THEN ProposalNext /\ OneEdit
       ELSE UNCHANGED proposalVars
    /\ CASE component = "remindersDecided" -> ReminderNext /\ OneReminder
         [] component = "remindersGenerated" -> ReminderNext /\ NothingIsDue
         [] OTHER -> UNCHANGED reminderVars
    /\ IF component = "workspaces" THEN WorkspaceNext ELSE UNCHANGED workspaceVars

ServicesSpec == ServicesInit /\ [][ServicesNext]_serviceVars

(* Replicas, requests and passes of one kind are interchangeable; the      *)
(* instance gives all kinds the same two names.                            *)
ServicesSymmetry == Permutations(Appliers)

(* Every component's state holds values of its types.                      *)
ServicesTypeOK ==
    /\ CleanupTypeOK /\ CollabTypeOK /\ ExportTypeOK /\ DeadLetterTypeOK /\ DigestTypeOK
    /\ ExpenseTypeOK /\ DedupeTypeOK /\ ProposalTypeOK /\ ReminderTypeOK /\ WorkspaceTypeOK
===============================================================================
