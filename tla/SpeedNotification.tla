------------------------- MODULE SpeedNotification -------------------------
(***************************************************************************)
(* The speed notification (SpeedNotificationManager).  Publishing and      *)
(* cancelling await the system, the page's timer waits for neither, and    *)
(* the process may end with calls on their way.  An error of cancel is     *)
(* taken for a notification that is not there.                             *)
(***************************************************************************)
EXTENDS RuntimeSurfaces, Sequences

CONSTANT MaxCalls  \* bound: notification calls under way

ASSUME MaxCallsAssumption == MaxCalls \in Nat

VARIABLES speed,     \* the setting of the speed notification
          manager,   \* fields of SpeedNotificationManager
          calls,     \* calls of the notification service, in their order
          visible,   \* the notification is there
          missed     \* history: it is there because the system refused the
                     \* last cancel, which the manager takes for done

noteVars == <<status, acts, speed, manager, calls, visible, missed>>

Wanted == status = "RUNNING" /\ speed

(* Mutant: a manager thinks that nothing is shown yet.                     *)
NewManagerHidden == [published |-> FALSE, mayBeVisible |-> FALSE, publishing |-> "no"]

NewManager == [published |-> FALSE, mayBeVisible |-> TRUE, publishing |-> "no"]

(* heard : the process that made the call is there to hear of the result.  *)
Ask(kind) == calls' = Append(calls, [kind |-> kind, served |-> "no", heard |-> TRUE])

(* sync, up to what it waits for: cancel, or the permission to publish.    *)
(* elapsed : the interval since the last one has passed.                   *)
SyncNotification(elapsed) ==
  /\ IF ~Wanted
     THEN /\ IF manager.mayBeVisible THEN Len(calls) < MaxCalls /\ Ask("cancel") ELSE UNCHANGED calls
          /\ UNCHANGED manager
     ELSE /\ manager' = IF (manager.published /\ ~elapsed) \/ manager.publishing # "no" THEN manager
                        ELSE [manager EXCEPT !.publishing = "enabling"]
          /\ UNCHANGED calls
  /\ UNCHANGED <<status, acts, speed, visible, missed>>

(* ensureEnabled, ensureSlot and the tap; the user may refuse.             *)
EnsureEnabled ==
  /\ manager.publishing = "enabling" /\ Len(calls) < MaxCalls
  /\ \/ manager' = [manager EXCEPT !.publishing = "asked"] /\ Ask("publish") /\ UNCHANGED acts
     \/ manager' = [manager EXCEPT !.publishing = "no"] /\ Act /\ UNCHANGED calls
  /\ UNCHANGED <<status, speed, visible, missed>>

(* The system serves the calls in their order, or refuses one.             *)
Serve == \E i \in DOMAIN calls :
  /\ calls[i].served = "no" /\ \A j \in 1..(i - 1) : calls[j].served # "no"
  /\ \/ /\ calls' = [calls EXCEPT ![i].served = "done"]
        /\ visible' = (calls[i].kind = "publish")
        /\ missed' = FALSE
        /\ UNCHANGED acts
     \/ /\ calls' = [calls EXCEPT ![i].served = "refused"]
        /\ missed' = (missed \/ (calls[i].kind = "cancel" /\ calls[i].heard /\ visible))
        /\ Act /\ UNCHANGED visible
  /\ UNCHANGED <<status, speed, manager>>

(* Whatever the system answered: an error of cancel is caught.             *)
AfterCancel == [manager EXCEPT !.published = FALSE, !.mayBeVisible = FALSE]

(* Mutant: the flag of a publish under way holds its result.               *)
AfterPublishResult(done) ==
  [published |-> done, mayBeVisible |-> done, publishing |-> IF done THEN "done" ELSE "refused"]

AfterPublish(done) ==
  [published |-> done \/ manager.published, mayBeVisible |-> done \/ manager.mayBeVisible,
   publishing |-> "no"]

(* The system answers in the order of the calls.                           *)
Answered ==
  /\ calls # <<>> /\ Head(calls).served # "no"
  /\ manager' = IF ~Head(calls).heard THEN manager
                ELSE IF Head(calls).kind = "cancel" THEN AfterCancel
                ELSE AfterPublish(Head(calls).served = "done")
  /\ calls' = Tail(calls)
  /\ UNCHANGED <<status, acts, speed, visible, missed>>

ChangeStatus ==
  /\ Act
  /\ \/ status' \in Status \ {status} /\ UNCHANGED speed
     \/ speed' = ~speed /\ UNCHANGED status
  /\ UNCHANGED <<manager, calls, visible, missed>>

(* The process ends and is started again; the system serves what it has,   *)
(* and the new manager will cancel whatever is there.                      *)
ManagerRestarts ==
  /\ Act
  /\ manager' = NewManager
  /\ calls' = [i \in DOMAIN calls |-> [calls[i] EXCEPT !.heard = FALSE]]
  /\ missed' = FALSE
  /\ status' \in Status
  /\ UNCHANGED <<speed, visible>>

NoteInit ==
  /\ status = "IDLE" /\ speed \in BOOLEAN /\ acts = 0
  /\ manager = NewManager
  /\ calls = <<>>
  /\ visible = FALSE /\ missed = FALSE

NoteNext ==
  \/ \E elapsed \in BOOLEAN : SyncNotification(elapsed)
  \/ EnsureEnabled \/ Serve \/ Answered
  \/ ChangeStatus \/ ManagerRestarts

(* The timer ticks, intervals pass, and the system serves what it is asked. *)
NoteSpec ==
  /\ NoteInit /\ [][NoteNext]_noteVars
  /\ WF_noteVars(SyncNotification(TRUE))
  /\ WF_noteVars(EnsureEnabled) /\ WF_noteVars(Serve) /\ WF_noteVars(Answered)

-----------------------------------------------------------------------------
NoteTypeOK ==
  /\ status \in Status /\ acts \in Nat
  /\ speed \in BOOLEAN /\ visible \in BOOLEAN /\ missed \in BOOLEAN
  /\ manager \in [published : BOOLEAN, mayBeVisible : BOOLEAN, publishing : {"no", "enabling", "asked"}]
  /\ calls \in Seq([kind : {"publish", "cancel"}, served : {"no", "done", "refused"}, heard : BOOLEAN])

(* A notification that is there is one the manager knows it may have to    *)
(* cancel, or is about to hear of, also when its process has ended in      *)
(* between (notificationMayBeVisible of a new manager), unless the system  *)
(* refused the last cancel (the error that cancel catches).                *)
NotificationKnown ==
  visible /\ ~missed =>
    \/ manager.mayBeVisible
    \/ \E i \in DOMAIN calls : calls[i] = [kind |-> "publish", served |-> "done", heard |-> TRUE]

(* However publishing, cancelling, the permission and the end of the       *)
(* process interleave, the notification comes when the connection and the  *)
(* setting are on for good, and goes when one of them is off for good, but *)
(* for a cancel that the system refused, which is not tried again          *)
(* (SpeedNotificationManager.sync, cancel).                                *)
NotificationFollows ==
  /\ <>[]Wanted => <>[]visible
  /\ <>[]~Wanted => <>[](~visible \/ missed)
=============================================================================
