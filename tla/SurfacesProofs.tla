--------------------------- MODULE SurfacesProofs ---------------------------
(***************************************************************************)
(* Proofs about the notification, for any number of calls of the service,  *)
(* of refusals and of ends of the process, and about the control cards,    *)
(* for every set of cards, of overlapping syncs and of overlapping calls   *)
(* of the ability, and any number of failures.                             *)
(***************************************************************************)
EXTENDS SpeedNotification, ControlCards, TLAPS

(***************************************************************************)
(* The speed notification.                                                 *)
(***************************************************************************)
(* ---- what is known of the calls of the service ---- *)

(* The calls are served in their order.                                    *)
ServedFirst ==
  \A i, j \in DOMAIN calls : i < j /\ calls[j].served # "no" => calls[i].served # "no"

(* Those of a process that has ended come before those of this one.        *)
UnheardFirst ==
  \A i, j \in DOMAIN calls : i < j /\ ~calls[j].heard => ~calls[i].heard

(* While one of them is there, this manager has heard of no cancel.        *)
UnheardMayShow == (\E i \in DOMAIN calls : ~calls[i].heard) => manager.mayBeVisible

(* A call whose answer will tell this manager of a cancel, or a publish.   *)
CancelServed(c) == c.kind = "cancel" /\ c.served # "no" /\ c.heard
PublishServed(c) == c.kind = "publish" /\ c.served = "done" /\ c.heard

(* What is there is known and will not be forgotten, or will be known: no  *)
(* cancel is answered after the publish.                                   *)
StaysKnown ==
  visible /\ ~missed =>
             \/ manager.mayBeVisible /\ \A i \in DOMAIN calls : ~CancelServed(calls[i])
             \/ \E i \in DOMAIN calls :
                  PublishServed(calls[i]) /\ \A j \in DOMAIN calls : j > i => ~CancelServed(calls[j])

NoteInv == ServedFirst /\ UnheardFirst /\ UnheardMayShow /\ StaysKnown

(* ---- helpers ---- *)

Call == [kind : {"publish", "cancel"}, served : {"no", "done", "refused"}, heard : BOOLEAN]

Manager == [published : BOOLEAN, mayBeVisible : BOOLEAN, publishing : {"no", "enabling", "asked"}]

(* A call that is asked for is the last one, not served, and heard of.     *)
LEMMA Asked ==
  ASSUME calls \in Seq(Call), NEW kind \in {"publish", "cancel"}, Ask(kind)
  PROVE  /\ calls' \in Seq(Call)
         /\ DOMAIN calls' = DOMAIN calls \cup {Len(calls) + 1}
         /\ \A i \in DOMAIN calls : calls'[i] = calls[i]
         /\ calls'[Len(calls) + 1] = [kind |-> kind, served |-> "no", heard |-> TRUE]
         /\ DOMAIN calls = 1..Len(calls)
         /\ Len(calls) \in Nat
  <1> DEFINE e == [kind |-> kind, served |-> "no", heard |-> TRUE]
  <1>1. e \in Call BY DEF Call
  <1>2. calls' = Append(calls, e) BY DEF Ask
  <1> HIDE DEF e
  <1>3. /\ calls' \in Seq(Call) /\ Len(calls') = Len(calls) + 1
        /\ calls'[Len(calls) + 1] = e
        /\ \A i \in 1..Len(calls) : calls'[i] = calls[i]
        /\ DOMAIN calls = 1..Len(calls) /\ DOMAIN calls' = 1..Len(calls') /\ Len(calls) \in Nat
    BY <1>1, <1>2
  <1>4. DOMAIN calls' = DOMAIN calls \cup {Len(calls) + 1} BY <1>3
  <1>5. QED BY <1>3, <1>4 DEF e

(* What the system serves keeps its kind and its caller.                   *)
LEMMA Served ==
  ASSUME calls \in Seq(Call), NEW i \in DOMAIN calls, NEW s \in {"done", "refused"},
         calls' = [calls EXCEPT ![i].served = s]
  PROVE  /\ calls' \in Seq(Call)
         /\ DOMAIN calls' = DOMAIN calls
         /\ \A j \in DOMAIN calls : j # i => calls'[j] = calls[j]
         /\ calls'[i] = [calls[i] EXCEPT !.served = s]
  <1>1. calls[i] \in Call OBVIOUS
  <1>2. [calls[i] EXCEPT !.served = s] \in Call BY <1>1 DEF Call
  <1>3. calls' = [calls EXCEPT ![i] = [calls[i] EXCEPT !.served = s]] OBVIOUS
  <1>4. QED BY <1>2, <1>3

(* An answer takes the first call away.                                    *)
LEMMA Tailed ==
  ASSUME calls \in Seq(Call), calls # <<>>, calls' = Tail(calls)
  PROVE  /\ calls' \in Seq(Call)
         /\ \A i \in DOMAIN calls' : i + 1 \in DOMAIN calls /\ calls'[i] = calls[i + 1]
         /\ \A i \in DOMAIN calls : i # 1 => i - 1 \in DOMAIN calls'
         /\ DOMAIN calls = 1..Len(calls) /\ Len(calls) \in Nat /\ Len(calls) > 0
         /\ Head(calls) = calls[1] /\ calls[1] \in Call
         /\ DOMAIN calls' = 1..(Len(calls) - 1)
  OBVIOUS

(* The end of the process leaves the calls, and nobody hears of them.      *)
LEMMA Forgotten ==
  ASSUME calls \in Seq(Call),
         calls' = [i \in DOMAIN calls |-> [calls[i] EXCEPT !.heard = FALSE]]
  PROVE  /\ calls' \in Seq(Call)
         /\ DOMAIN calls' = DOMAIN calls
         /\ \A i \in DOMAIN calls : calls'[i] = [calls[i] EXCEPT !.heard = FALSE]
  <1>1. \A i \in DOMAIN calls : [calls[i] EXCEPT !.heard = FALSE] \in Call
    <2> TAKE i \in DOMAIN calls
    <2>1. calls[i] \in Call OBVIOUS
    <2>2. QED BY <2>1 DEF Call
  <1>2. DOMAIN calls = 1..Len(calls) /\ Len(calls) \in Nat OBVIOUS
  <1>3. QED BY <1>1, <1>2

(* What syncs do to the manager and to the calls.                          *)
LEMMA ManagerKept ==
  ASSUME manager \in Manager, NEW p \in {"no", "enabling", "asked"}
  PROVE  /\ [manager EXCEPT !.publishing = p] \in Manager
         /\ [manager EXCEPT !.publishing = p].mayBeVisible = manager.mayBeVisible
  BY DEF Manager

(* ---- the types ---- *)

LEMMA NoteTypes ==
  NoteTypeOK <=> /\ status \in Status /\ acts \in Nat
                 /\ speed \in BOOLEAN /\ visible \in BOOLEAN /\ missed \in BOOLEAN
                 /\ manager \in Manager /\ calls \in Seq(Call)
  BY DEF NoteTypeOK, Manager, Call

LEMMA NoteTypesNext ==
  NoteTypeOK' <=> /\ status' \in Status /\ acts' \in Nat
                  /\ speed' \in BOOLEAN /\ visible' \in BOOLEAN /\ missed' \in BOOLEAN
                  /\ manager' \in Manager /\ calls' \in Seq(Call)
  BY DEF NoteTypeOK, Manager, Call

LEMMA NoteTypeStep ==
  ASSUME NoteTypeOK, [NoteNext]_noteVars
  PROVE  NoteTypeOK'
  <1>0. /\ status \in Status /\ acts \in Nat
        /\ speed \in BOOLEAN /\ visible \in BOOLEAN /\ missed \in BOOLEAN
        /\ manager \in Manager /\ calls \in Seq(Call)
    BY NoteTypes
  <1>1. ASSUME NEW e \in BOOLEAN, SyncNotification(e)
        PROVE  NoteTypeOK'
    <2>1. manager' \in Manager
      BY <1>0, <1>1, ManagerKept DEF SyncNotification
    <2>2. calls' \in Seq(Call)
      <3>1. CASE Ask("cancel") BY <1>0, <3>1, Asked
      <3>2. CASE UNCHANGED calls BY <1>0, <3>2
      <3>3. QED BY <1>1, <3>1, <3>2 DEF SyncNotification
    <2>3. UNCHANGED <<status, acts, speed, visible, missed>> BY <1>1 DEF SyncNotification
    <2>4. QED BY <1>0, <2>1, <2>2, <2>3, NoteTypesNext
  <1>2. CASE EnsureEnabled
    <2>1. manager' \in Manager /\ acts' \in Nat
      BY <1>0, <1>2, ManagerKept DEF EnsureEnabled, Act
    <2>2. calls' \in Seq(Call)
      BY <1>0, <1>2, Asked DEF EnsureEnabled
    <2>3. UNCHANGED <<status, speed, visible, missed>> BY <1>2 DEF EnsureEnabled
    <2>4. QED BY <1>0, <2>1, <2>2, <2>3, NoteTypesNext
  <1>3. CASE Serve
    <2>1. PICK i \in DOMAIN calls, s \in {"done", "refused"} : calls' = [calls EXCEPT ![i].served = s]
      BY <1>3 DEF Serve
    <2>2. calls' \in Seq(Call) BY <1>0, <2>1, Served
    <2>3. acts' \in Nat BY <1>0, <1>3 DEF Serve, Act
    <2>4. visible' \in BOOLEAN
      <3>1. CASE UNCHANGED visible BY <1>0, <3>1
      <3>2. CASE \E j \in DOMAIN calls : visible' = (calls[j].kind = "publish") BY <3>2
      <3>3. QED BY <1>3, <3>1, <3>2 DEF Serve
    <2>5. missed' \in BOOLEAN
      <3>1. CASE missed' = FALSE BY <3>1
      <3>2. CASE \E j \in DOMAIN calls :
                   missed' = (missed \/ (calls[j].kind = "cancel" /\ calls[j].heard /\ visible))
        BY <3>2
      <3>3. QED BY <1>3, <3>1, <3>2 DEF Serve
    <2>6. UNCHANGED <<status, speed, manager>> BY <1>3 DEF Serve
    <2>7. QED BY <1>0, <2>2, <2>3, <2>4, <2>5, <2>6, NoteTypesNext
  <1>4. CASE Answered
    <2>1. manager' \in Manager
      BY <1>0, <1>4 DEF Answered, AfterCancel, AfterPublish, Manager
    <2>2. calls' \in Seq(Call)
      BY <1>0, <1>4, Tailed DEF Answered
    <2>3. UNCHANGED <<status, acts, speed, visible, missed>> BY <1>4 DEF Answered
    <2>4. QED BY <1>0, <2>1, <2>2, <2>3, NoteTypesNext
  <1>5. CASE ChangeStatus
    <2>1. status' \in Status /\ acts' \in Nat BY <1>0, <1>5 DEF ChangeStatus, Act
    <2>2. speed' \in BOOLEAN BY <1>0, <1>5 DEF ChangeStatus
    <2>3. UNCHANGED <<manager, calls, visible, missed>> BY <1>5 DEF ChangeStatus
    <2>4. QED BY <1>0, <2>1, <2>2, <2>3, NoteTypesNext
  <1>6. CASE ManagerRestarts
    <2>1. calls' \in Seq(Call) BY <1>0, <1>6, Forgotten DEF ManagerRestarts
    <2>2. manager' \in Manager BY <1>6 DEF ManagerRestarts, NewManager, Manager
    <2>3. UNCHANGED <<speed, visible>> /\ status' \in Status /\ acts' \in Nat
      BY <1>0, <1>6 DEF ManagerRestarts, Act
    <2>4. missed' \in BOOLEAN BY <1>6 DEF ManagerRestarts
    <2>5. QED BY <1>0, <2>1, <2>2, <2>3, <2>4, NoteTypesNext
  <1>7. CASE UNCHANGED noteVars
    BY <1>0, <1>7, NoteTypesNext DEF noteVars
  <1>8. QED BY <1>1, <1>2, <1>3, <1>4, <1>5, <1>6, <1>7 DEF NoteNext

LEMMA NoteTypeInit == NoteInit => NoteTypeOK
  <1> SUFFICES ASSUME NoteInit PROVE NoteTypeOK OBVIOUS
  <1>1. calls \in Seq(Call) /\ manager \in Manager
    BY DEF NoteInit, NewManager, Manager
  <1>2. QED BY <1>1, NoteTypes DEF NoteInit, Status

(* The variables of the notification keep their types whatever is refused  *)
(* and however often the process ends (SpeedNotificationManager).          *)
THEOREM NotificationTypes == NoteSpec => []NoteTypeOK
  <1>1. NoteTypeOK /\ [NoteNext]_noteVars => NoteTypeOK' BY NoteTypeStep
  <1>2. QED BY NoteTypeInit, <1>1, PTL DEF NoteSpec

(* ---- the notification is known ---- *)

(* One more call at the end disturbs nothing: nobody has served it yet.    *)
LEMMA AskKeepsKnown ==
  ASSUME NoteTypeOK, NoteInv, NEW kind \in {"publish", "cancel"}, Ask(kind),
         UNCHANGED <<visible, missed>>, manager'.mayBeVisible = manager.mayBeVisible
  PROVE  NoteInv'
  <1>0. calls \in Seq(Call) BY NoteTypes
  <1>1. PICK last \in Nat :
        /\ DOMAIN calls' = DOMAIN calls \cup {last}
        /\ \A i \in DOMAIN calls : calls'[i] = calls[i]
        /\ calls'[last].served = "no" /\ calls'[last].heard = TRUE
        /\ \A i \in DOMAIN calls : i \in Nat /\ i < last
    <2>1. Len(calls) + 1 \in Nat BY <1>0
    <2>2. /\ DOMAIN calls' = DOMAIN calls \cup {Len(calls) + 1}
          /\ \A i \in DOMAIN calls : calls'[i] = calls[i]
          /\ calls'[Len(calls) + 1] = [kind |-> kind, served |-> "no", heard |-> TRUE]
      BY <1>0, Asked
    <2>3. \A i \in DOMAIN calls : i \in Nat /\ i < Len(calls) + 1
      BY <1>0
    <2>4. /\ calls'[Len(calls) + 1].served = "no"
          /\ calls'[Len(calls) + 1].heard = TRUE
      BY <2>2
    <2>5. QED BY <2>1, <2>2, <2>3, <2>4
  <1>2. ServedFirst'
    BY <1>1 DEF NoteInv, ServedFirst
  <1>3. UnheardFirst'
    BY <1>1 DEF NoteInv, UnheardFirst
  <1>4. UnheardMayShow'
    BY <1>1 DEF NoteInv, UnheardMayShow
  <1>5. ~CancelServed(calls'[last])
    BY <1>1 DEF CancelServed
  <1>6. StaysKnown'
    <2> SUFFICES ASSUME visible, ~missed PROVE StaysKnown' BY DEF StaysKnown
    <2>1. CASE manager.mayBeVisible /\ \A i \in DOMAIN calls : ~CancelServed(calls[i])
      BY <1>1, <1>5, <2>1 DEF StaysKnown
    <2>2. CASE \E i \in DOMAIN calls :
                 PublishServed(calls[i]) /\ \A j \in DOMAIN calls : j > i => ~CancelServed(calls[j])
      BY <1>1, <1>5, <2>2 DEF StaysKnown
    <2>3. QED BY <2>1, <2>2 DEF NoteInv, StaysKnown
  <1>7. QED BY <1>2, <1>3, <1>4, <1>6 DEF NoteInv

(* Serving call i: all before it are served, and a cancel takes down what  *)
(* is there, or is refused, and then what is there is missed.              *)
LEMMA ServeKeepsKnown ==
  ASSUME NoteTypeOK, NoteInv, Serve
  PROVE  NoteInv'
  <1>0. calls \in Seq(Call) BY NoteTypes
  <1>1. PICK i \in DOMAIN calls :
          /\ calls[i].served = "no" /\ \A j \in 1..(i - 1) : calls[j].served # "no"
          /\ \/ /\ calls' = [calls EXCEPT ![i].served = "done"]
                /\ visible' = (calls[i].kind = "publish")
             \/ /\ calls' = [calls EXCEPT ![i].served = "refused"]
                /\ missed' = (missed \/ (calls[i].kind = "cancel" /\ calls[i].heard /\ visible))
                /\ UNCHANGED visible
    BY DEF Serve
  <1>2. PICK s \in {"done", "refused"} : calls' = [calls EXCEPT ![i].served = s]
    BY <1>1
  <1>3. /\ DOMAIN calls' = DOMAIN calls
        /\ \A j \in DOMAIN calls : j # i => calls'[j] = calls[j]
        /\ calls'[i] = [calls[i] EXCEPT !.served = s]
    BY <1>0, <1>2, Served
  <1>4. calls[i] \in Call /\ i \in Nat BY <1>0
  <1>5. /\ calls'[i].kind = calls[i].kind /\ calls'[i].heard = calls[i].heard
        /\ calls'[i].served = s
    BY <1>3, <1>4 DEF Call
  <1>6. manager' = manager BY DEF Serve
  <1>7. \A j \in DOMAIN calls : j \in Nat /\ j > 0 BY <1>0
  <1>8. \A j \in DOMAIN calls : j < i => calls[j].served # "no"
    <2> TAKE j \in DOMAIN calls
    <2>1. j < i => j \in 1..(i - 1) BY <1>4, <1>7
    <2>2. QED BY <1>1, <2>1
  <1>9. \A j \in DOMAIN calls : j > i => calls[j].served = "no"
    BY <1>1 DEF NoteInv, ServedFirst
  <1>10. ServedFirst'
    <2> SUFFICES ASSUME NEW j \in DOMAIN calls, NEW k \in DOMAIN calls,
                        j < k, calls'[k].served # "no"
                 PROVE  calls'[j].served # "no"
      BY <1>3 DEF ServedFirst
    <2>1. CASE j = i BY <2>1, <1>5
    <2>2. CASE j # i /\ k = i BY <2>2, <1>3, <1>8
    <2>3. CASE j # i /\ k # i BY <2>3, <1>3 DEF NoteInv, ServedFirst
    <2>4. QED BY <2>1, <2>2, <2>3
  <1>11. \A j \in DOMAIN calls : calls'[j].heard = calls[j].heard
    BY <1>3, <1>5
  <1>12. UnheardFirst' /\ UnheardMayShow'
    BY <1>3, <1>6, <1>11 DEF NoteInv, UnheardFirst, UnheardMayShow
  <1>13. CASE visible' = (calls[i].kind = "publish") /\ s = "done"
    <2> SUFFICES ASSUME calls[i].kind = "publish" PROVE StaysKnown'
      BY <1>10, <1>12, <1>13 DEF NoteInv, StaysKnown
    <2>1. CASE calls[i].heard
      <3>1. PublishServed(calls'[i]) BY <1>5, <1>13, <2>1 DEF PublishServed
      <3>2. \A j \in DOMAIN calls : j > i => ~CancelServed(calls'[j])
        BY <1>3, <1>4, <1>7, <1>9 DEF CancelServed
      <3>3. QED BY <1>3, <3>1, <3>2 DEF StaysKnown
    <2>2. CASE ~calls[i].heard
      <3>1. manager.mayBeVisible BY <2>2 DEF NoteInv, UnheardMayShow
      <3>2. \A j \in DOMAIN calls : ~CancelServed(calls'[j])
        <4> TAKE j \in DOMAIN calls
        <4>1. CASE j < i BY <2>2, <4>1, <1>11 DEF NoteInv, UnheardFirst, CancelServed
        <4>2. CASE j = i BY <2>2, <4>2, <1>11 DEF CancelServed
        <4>3. CASE j > i BY <1>3, <1>4, <1>7, <1>9, <4>3 DEF CancelServed
        <4>4. QED BY <1>4, <1>7, <4>1, <4>2, <4>3
      <3>3. QED BY <1>3, <1>6, <3>1, <3>2 DEF StaysKnown
    <2>3. QED BY <2>1, <2>2
  <1>14. CASE /\ missed' = (missed \/ (calls[i].kind = "cancel" /\ calls[i].heard /\ visible))
              /\ visible' = visible
    <2> SUFFICES ASSUME visible, ~missed' PROVE StaysKnown'
      BY <1>10, <1>12, <1>14 DEF NoteInv, StaysKnown
    <2>0. ~missed /\ ~(calls[i].kind = "cancel" /\ calls[i].heard) BY <1>14
    <2>1. \A j \in DOMAIN calls : CancelServed(calls'[j]) => CancelServed(calls[j])
      <3> TAKE j \in DOMAIN calls
      <3>1. CASE j = i BY <1>5, <2>0, <3>1 DEF CancelServed
      <3>2. CASE j # i BY <1>3, <3>2
      <3>3. QED BY <3>1, <3>2
    <2>2. \A j \in DOMAIN calls : PublishServed(calls[j]) => PublishServed(calls'[j])
      BY <1>1, <1>3 DEF PublishServed
    <2>3. QED BY <1>3, <1>6, <2>0, <2>1, <2>2 DEF NoteInv, StaysKnown
  <1>15. QED
    <2>1. CASE calls' = [calls EXCEPT ![i].served = "done"] /\ visible' = (calls[i].kind = "publish")
      <3>1. s = "done" 
        <4>1. calls'[i].served = "done" BY <1>0, <2>1, <1>4 DEF Call
        <4>2. QED BY <4>1, <1>5
      <3>2. QED BY <2>1, <3>1, <1>13
    <2>2. QED BY <1>1, <1>14, <2>1

(* The first answer: of a cancel, and what there is has been published     *)
(* after it, or of a publish, and the manager knows from now on.           *)
LEMMA AnswerKeepsKnown ==
  ASSUME NoteTypeOK, NoteInv, Answered
  PROVE  NoteInv'
  <1>0. calls \in Seq(Call) /\ manager \in Manager BY NoteTypes
  <1>1. calls # <<>> /\ Head(calls).served # "no" /\ calls' = Tail(calls)
        /\ UNCHANGED <<visible, missed>>
    BY DEF Answered
  <1>2. /\ \A i \in DOMAIN calls' : i + 1 \in DOMAIN calls /\ calls'[i] = calls[i + 1]
        /\ \A i \in DOMAIN calls : i # 1 => i - 1 \in DOMAIN calls'
        /\ Head(calls) = calls[1] /\ calls[1] \in Call
        /\ 1 \in DOMAIN calls
        /\ \A i \in DOMAIN calls : i \in Nat /\ i > 0
        /\ \A i \in DOMAIN calls' : i \in Nat /\ i > 0
    BY <1>0, <1>1, Tailed
  <1>3. ServedFirst'
    BY <1>2 DEF NoteInv, ServedFirst
  <1>4. UnheardFirst'
    BY <1>2 DEF NoteInv, UnheardFirst
  <1>5. CASE ~calls[1].heard
    <2>1. manager' = manager BY <1>2, <1>5 DEF Answered
    <2>2. manager.mayBeVisible BY <1>2, <1>5 DEF NoteInv, UnheardMayShow
    <2>3. UnheardMayShow' BY <2>1, <2>2 DEF UnheardMayShow
    <2>4. ASSUME visible, ~missed
          PROVE  \/ \A i \in DOMAIN calls' : ~CancelServed(calls'[i])
                 \/ \E i \in DOMAIN calls' :
                      PublishServed(calls'[i]) /\ \A j \in DOMAIN calls' : j > i => ~CancelServed(calls'[j])
      <3>1. CASE \A i \in DOMAIN calls : ~CancelServed(calls[i])
        BY <1>2, <3>1
      <3>2. ASSUME NEW i \in DOMAIN calls, PublishServed(calls[i]),
                   \A j \in DOMAIN calls : j > i => ~CancelServed(calls[j])
            PROVE  \E k \in DOMAIN calls' :
                     PublishServed(calls'[k]) /\ \A j \in DOMAIN calls' : j > k => ~CancelServed(calls'[j])
        <4>1. i # 1 BY <1>5, <3>2 DEF PublishServed
        <4>2. i - 1 \in DOMAIN calls' /\ calls'[i - 1] = calls[i] BY <1>2, <4>1
        <4>3. \A j \in DOMAIN calls' : j > i - 1 => ~CancelServed(calls'[j]) BY <1>2, <3>2
        <4>4. QED BY <3>2, <4>2, <4>3
      <3>3. QED BY <2>4, <3>1, <3>2 DEF NoteInv, StaysKnown
    <2>5. StaysKnown' BY <1>1, <2>1, <2>2, <2>4 DEF StaysKnown
    <2>6. QED BY <1>3, <1>4, <2>3, <2>5 DEF NoteInv
  <1>6. CASE calls[1].heard
    <2>1. \A i \in DOMAIN calls : calls[i].heard
      BY <1>2, <1>6 DEF NoteInv, UnheardFirst
    <2>2. UnheardMayShow' BY <1>2, <2>1 DEF UnheardMayShow
    <2>3. ASSUME NEW i \in DOMAIN calls, i # 1, PublishServed(calls[i]),
                 \A j \in DOMAIN calls : j > i => ~CancelServed(calls[j])
          PROVE  StaysKnown'
      <3>1. i - 1 \in DOMAIN calls' /\ calls'[i - 1] = calls[i] BY <1>2, <2>3
      <3>2. \A j \in DOMAIN calls' : j > i - 1 => ~CancelServed(calls'[j]) BY <1>2, <2>3
      <3>3. QED BY <2>3, <3>1, <3>2 DEF StaysKnown
    <2>4. CASE calls[1].kind = "cancel"
      <3>1. CancelServed(calls[1]) BY <1>1, <1>2, <1>6, <2>4 DEF CancelServed
      <3>2. ~PublishServed(calls[1]) BY <2>4 DEF PublishServed
      <3>3. ASSUME ~visible \/ missed PROVE StaysKnown' BY <1>1, <3>3 DEF StaysKnown
      <3>4. ASSUME visible, ~missed PROVE StaysKnown'
        <4>1. PICK i \in DOMAIN calls :
                PublishServed(calls[i]) /\ \A j \in DOMAIN calls : j > i => ~CancelServed(calls[j])
          BY <1>2, <3>1, <3>4 DEF NoteInv, StaysKnown
        <4>2. i # 1 BY <3>2, <4>1
        <4>3. QED BY <2>3, <4>1, <4>2
      <3>5. StaysKnown' BY <3>3, <3>4
      <3>6. QED BY <1>3, <1>4, <2>2, <3>5 DEF NoteInv
    <2>5. CASE calls[1].kind = "publish"
      <3>1. manager' = AfterPublish(calls[1].served = "done")
        BY <1>2, <1>6, <2>5 DEF Answered
      <3>2. manager.mayBeVisible => manager'.mayBeVisible
        BY <3>1 DEF AfterPublish
      <3>3. calls[1].served = "done" => manager'.mayBeVisible
        BY <3>1 DEF AfterPublish
      <3>4. ASSUME ~visible \/ missed PROVE StaysKnown' BY <1>1, <3>4 DEF StaysKnown
      <3>5. ASSUME manager.mayBeVisible, \A i \in DOMAIN calls : ~CancelServed(calls[i])
            PROVE  StaysKnown'
        BY <1>2, <3>2, <3>5 DEF StaysKnown
      <3>6. ASSUME NEW i \in DOMAIN calls, PublishServed(calls[i]),
                   \A j \in DOMAIN calls : j > i => ~CancelServed(calls[j])
            PROVE  StaysKnown'
        <4>1. CASE i # 1 BY <2>3, <3>6, <4>1
        <4>2. CASE i = 1
          <5>1. manager'.mayBeVisible BY <3>3, <3>6, <4>2 DEF PublishServed
          <5>2. \A j \in DOMAIN calls' : ~CancelServed(calls'[j]) BY <1>2, <3>6, <4>2
          <5>3. QED BY <5>1, <5>2 DEF StaysKnown
        <4>3. QED BY <4>1, <4>2
      <3>7. StaysKnown' BY <3>4, <3>5, <3>6 DEF NoteInv, StaysKnown
      <3>8. QED BY <1>3, <1>4, <2>2, <3>7 DEF NoteInv
    <2>6. QED BY <1>2, <2>4, <2>5 DEF Call
  <1>7. QED BY <1>5, <1>6

(* The end of the process: the next manager takes it that there may be a   *)
(* notification, and it will hear of none of the calls that are left.      *)
LEMMA RestartKeepsKnown ==
  ASSUME NoteTypeOK, NoteInv, ManagerRestarts
  PROVE  NoteInv'
  <1>0. calls \in Seq(Call) BY NoteTypes
  <1>1. /\ DOMAIN calls' = DOMAIN calls
        /\ \A i \in DOMAIN calls : calls'[i] = [calls[i] EXCEPT !.heard = FALSE]
        /\ manager'.mayBeVisible
    BY <1>0, Forgotten DEF ManagerRestarts, NewManager
  <1>2. \A i \in DOMAIN calls : calls'[i].served = calls[i].served /\ ~calls'[i].heard
    <2> TAKE i \in DOMAIN calls
    <2>1. calls[i] \in Call BY <1>0
    <2>2. QED BY <1>1, <2>1 DEF Call
  <1>3. ServedFirst' BY <1>1, <1>2 DEF NoteInv, ServedFirst
  <1>4. UnheardFirst' BY <1>1, <1>2 DEF UnheardFirst
  <1>5. UnheardMayShow' BY <1>1 DEF UnheardMayShow
  <1>6. StaysKnown' BY <1>1, <1>2 DEF StaysKnown, CancelServed
  <1>7. QED BY <1>3, <1>4, <1>5, <1>6 DEF NoteInv

(* Whatever leaves the calls, the notification and what the manager knows. *)
LEMMA NotesAlone ==
  ASSUME NoteInv, UNCHANGED <<calls, visible, missed>>,
         manager'.mayBeVisible = manager.mayBeVisible
  PROVE  NoteInv'
  BY DEF NoteInv, ServedFirst, UnheardFirst, UnheardMayShow, StaysKnown

LEMMA NoteStep ==
  ASSUME NoteTypeOK, NoteInv, [NoteNext]_noteVars
  PROVE  NoteInv'
  <1>0. manager \in Manager BY NoteTypes
  <1>1. ASSUME NEW e \in BOOLEAN, SyncNotification(e)
        PROVE  NoteInv'
    <2>1. manager'.mayBeVisible = manager.mayBeVisible
      BY <1>0, <1>1, ManagerKept DEF SyncNotification
    <2>2. UNCHANGED <<visible, missed>> BY <1>1 DEF SyncNotification
    <2>3. CASE Ask("cancel") BY <2>1, <2>2, <2>3, AskKeepsKnown
    <2>4. CASE UNCHANGED calls BY <2>1, <2>2, <2>4, NotesAlone
    <2>5. QED BY <1>1, <2>3, <2>4 DEF SyncNotification
  <1>2. CASE EnsureEnabled
    <2>1. manager'.mayBeVisible = manager.mayBeVisible
      BY <1>0, <1>2, ManagerKept DEF EnsureEnabled
    <2>2. UNCHANGED <<visible, missed>> BY <1>2 DEF EnsureEnabled
    <2>3. CASE Ask("publish") BY <2>1, <2>2, <2>3, AskKeepsKnown
    <2>4. CASE UNCHANGED calls BY <2>1, <2>2, <2>4, NotesAlone
    <2>5. QED BY <1>2, <2>3, <2>4 DEF EnsureEnabled
  <1>3. CASE Serve BY <1>3, ServeKeepsKnown
  <1>4. CASE Answered BY <1>4, AnswerKeepsKnown
  <1>5. CASE ManagerRestarts BY <1>5, RestartKeepsKnown
  <1>6. CASE ChangeStatus
    <2>1. UNCHANGED <<calls, visible, missed>> /\ manager' = manager BY <1>6 DEF ChangeStatus
    <2>2. QED BY <2>1, NotesAlone
  <1>7. CASE UNCHANGED noteVars
    <2>1. UNCHANGED <<calls, visible, missed>> /\ manager' = manager BY <1>7 DEF noteVars
    <2>2. QED BY <2>1, NotesAlone
  <1>8. QED BY <1>1, <1>2, <1>3, <1>4, <1>5, <1>6, <1>7 DEF NoteNext

(* Whatever calls the system refuses or answers late, and however often    *)
(* the process ends, a notification that is there is one the manager would *)
(* cancel, or will hear of, unless it is there because the system refused  *)
(* the last cancel, which the manager takes for done                       *)
(* (SpeedNotificationManager.notificationMayBeVisible, cancel).  It is not *)
(* inductive: a cancel answered after the publish would make the manager   *)
(* forget, and NoteInv says, from the order of the calls, that none is.    *)
THEOREM NotificationIsKnown == NoteSpec => []NotificationKnown
  <1>1. NoteInit => NoteInv
    BY DEF NoteInit, NewManager, NoteInv, ServedFirst, UnheardFirst, UnheardMayShow, StaysKnown
  <1>2. NoteTypeOK /\ [NoteNext]_noteVars => NoteTypeOK' BY NoteTypeStep
  <1>3. NoteTypeOK /\ NoteInv /\ [NoteNext]_noteVars => NoteInv' BY NoteStep
  <1>4. NoteTypeOK /\ NoteInv => NotificationKnown
    <2> SUFFICES ASSUME NoteTypeOK, NoteInv, visible, ~missed PROVE NotificationKnown
      BY DEF NotificationKnown
    <2>1. CASE manager.mayBeVisible BY <2>1 DEF NotificationKnown
    <2>2. ASSUME NEW i \in DOMAIN calls, PublishServed(calls[i]) PROVE NotificationKnown
      <3>1. calls[i] \in Call BY NoteTypes
      <3>2. calls[i] = [kind |-> "publish", served |-> "done", heard |-> TRUE]
        BY <2>2, <3>1 DEF Call, PublishServed
      <3>3. QED BY <3>2 DEF NotificationKnown
    <2>3. QED BY <2>1, <2>2 DEF NoteInv, StaysKnown
  <1>5. QED BY NoteTypeInit, <1>1, <1>2, <1>3, <1>4, PTL DEF NoteSpec

(***************************************************************************)
(* The control cards.                                                      *)
(***************************************************************************)

SyncRecord == [pc : {"idle", "saving", "loading", "updating"}, status : Status, left : SUBSET Form]

CallRecord ==
  [pc : {"idle", "reading", "writing", "loading", "updating"},
   adds : BOOLEAN, form : Form \cup {"none"}, read : SUBSET Form, shown : Status]

(* A call that is under way is for a card there can be, and a card whose   *)
(* removal is under way has gone.                                          *)
CallOfForm(r) == r.pc # "idle" => r.form \in Form
Removes(r) == ~r.adds /\ r.pc \in {"reading", "writing"}

CallsOfForms ==
  \A c \in FormCall : CallOfForm(call[c]) /\ (Removes(call[c]) => card[call[c].form] = "gone")

CardInv == CardsTypeOK /\ CallsOfForms

LEMMA CardTypes ==
  CardsTypeOK <=> /\ status \in Status /\ acts \in Nat
                  /\ card \in [Form -> Status \cup {"new", "gone"}]
                  /\ formIds \subseteq Form /\ state \in Status /\ lost \subseteq Form
                  /\ sync \in [Sync -> SyncRecord]
                  /\ lastKey \in Status \cup {"none"}
                  /\ call \in [FormCall -> CallRecord]
  BY DEF CardsTypeOK, SyncRecord, CallRecord

LEMMA CardTypesNext ==
  CardsTypeOK' <=> /\ status' \in Status /\ acts' \in Nat
                   /\ card' \in [Form -> Status \cup {"new", "gone"}]
                   /\ formIds' \subseteq Form /\ state' \in Status /\ lost' \subseteq Form
                   /\ sync' \in [Sync -> SyncRecord]
                   /\ lastKey' \in Status \cup {"none"}
                   /\ call' \in [FormCall -> CallRecord]
  BY DEF CardsTypeOK, SyncRecord, CallRecord

(* The card that is updated stays where it is.                             *)
LEMMA Updated ==
  ASSUME CardsTypeOK, NEW f, NEW shown \in Status, Update(f, shown)
  PROVE  /\ card' \in [Form -> Status \cup {"new", "gone"}]
         /\ Placed' = Placed
         /\ \A g \in Form : card[g] = "gone" => card'[g] = "gone"
         /\ acts' \in Nat
  <1>1. card \in [Form -> Status \cup {"new", "gone"}] /\ acts \in Nat BY CardTypes
  <1>2. CASE card' = card BY <1>1, <1>2 DEF Update, Act, Placed
  <1>3. CASE f \in Placed /\ card' = [card EXCEPT ![f] = shown] /\ UNCHANGED acts
    <2>1. f \in Form BY <1>3 DEF Placed
    <2>2. card' \in [Form -> Status \cup {"new", "gone"}] BY <1>1, <1>3
    <2>3. \A g \in Form : card'[g] \in Status <=> card[g] \in Status
      BY <1>1, <1>3, <2>1 DEF Placed
    <2>4. QED BY <1>1, <1>3, <2>1, <2>2, <2>3 DEF Placed, Status
  <1>4. QED BY <1>2, <1>3 DEF Update

(* One call goes on, and no card comes back.                               *)
LEMMA CallSet ==
  ASSUME CardInv, NEW c \in FormCall, NEW r \in CallRecord, call' = [call EXCEPT ![c] = r],
         CallOfForm(r), Removes(r) => card'[r.form] = "gone",
         \A g \in Form : card[g] = "gone" => card'[g] = "gone"
  PROVE  call' \in [FormCall -> CallRecord] /\ CallsOfForms'
  <1>1. call \in [FormCall -> CallRecord] BY CardTypes DEF CardInv
  <1>2. /\ call' \in [FormCall -> CallRecord] /\ call'[c] = r
        /\ \A d \in FormCall \ {c} : call'[d] = call[d]
    BY <1>1
  <1>3. ASSUME NEW d \in FormCall
        PROVE  CallOfForm(call'[d]) /\ (Removes(call'[d]) => card'[call'[d].form] = "gone")
    <2>1. CASE d = c BY <1>2, <2>1
    <2>2. CASE d # c
      <3>1. CallOfForm(call[d]) /\ (Removes(call[d]) => card[call[d].form] = "gone")
        BY DEF CardInv, CallsOfForms
      <3>2. Removes(call[d]) => call[d].form \in Form BY <3>1 DEF CallOfForm, Removes
      <3>3. QED BY <1>2, <2>2, <3>1, <3>2
    <2>3. QED BY <2>1, <2>2
  <1>4. QED BY <1>2, <1>3 DEF CallsOfForms

(* What leaves the calls and brings no card back.                          *)
LEMMA CallsAlone ==
  ASSUME CardInv, UNCHANGED call, \A g \in Form : card[g] = "gone" => card'[g] = "gone"
  PROVE  call' \in [FormCall -> CallRecord] /\ CallsOfForms'
  <1>1. call \in [FormCall -> CallRecord] BY CardTypes DEF CardInv
  <1>2. \A c \in FormCall : Removes(call[c]) => call[c].form \in Form
    BY DEF CardInv, CallsOfForms, CallOfForm, Removes
  <1>3. QED BY <1>1, <1>2 DEF CardInv, CallsOfForms

LEMMA SyncSet ==
  ASSUME CardsTypeOK, NEW k \in Sync, NEW r \in SyncRecord, sync' = [sync EXCEPT ![k] = r]
  PROVE  sync' \in [Sync -> SyncRecord]
  BY CardTypes

LEMMA CardsSyncStep ==
  ASSUME CardInv, NEW k \in Sync, SyncStep(k)
  PROVE  CardInv' /\ Placed' = Placed /\ UNCHANGED <<formIds, call, lost>>
  <1>0. /\ status \in Status /\ acts \in Nat
        /\ card \in [Form -> Status \cup {"new", "gone"}]
        /\ formIds \subseteq Form /\ state \in Status /\ lost \subseteq Form
        /\ sync \in [Sync -> SyncRecord]
        /\ lastKey \in Status \cup {"none"}
        /\ call \in [FormCall -> CallRecord]
    BY CardTypes DEF CardInv
  <1>1. sync[k] \in SyncRecord BY <1>0
  <1>2. UNCHANGED <<status, formIds, call, lost>>
    BY DEF SyncStep, SaveState, SyncReads, UpdateOne, EndSync
  <1>3. /\ card' \in [Form -> Status \cup {"new", "gone"}] /\ Placed' = Placed
        /\ \A g \in Form : card[g] = "gone" => card'[g] = "gone"
        /\ acts' \in Nat
    <2>1. CASE UpdateOne(k)
      <3>1. PICK f \in sync[k].left : Update(f, sync[k].status) BY <2>1 DEF UpdateOne
      <3>2. sync[k].status \in Status BY <1>1 DEF SyncRecord
      <3>3. QED BY <3>1, <3>2, Updated DEF CardInv
    <2>2. CASE ~UpdateOne(k)
      <3>1. UNCHANGED card BY <2>2 DEF SyncStep, SaveState, SyncReads, EndSync
      <3>2. acts' \in Nat
        BY <1>0, <2>2 DEF SyncStep, SaveState, SyncReads, EndSync, LoadFormIds, Act
      <3>3. QED BY <1>0, <3>1, <3>2 DEF Placed
    <2>3. QED BY <2>1, <2>2
  <1>4. state' \in Status /\ lastKey' \in Status \cup {"none"}
    BY <1>0, <1>1 DEF SyncStep, SaveState, SyncReads, UpdateOne, EndSync, SyncRecord
  <1>5. sync' \in [Sync -> SyncRecord]
    <2>1. CASE SaveState(k)
      <3>1. [sync[k] EXCEPT !.pc = "loading"] \in SyncRecord BY <1>1 DEF SyncRecord
      <3>2. QED BY <2>1, <3>1, SyncSet DEF SaveState, CardInv
    <2>2. CASE SyncReads(k)
      <3>1. PICK ids \in {formIds, {}} :
              sync' = [sync EXCEPT ![k] = [sync[k] EXCEPT !.pc = "updating", !.left = ids]]
        BY <2>2 DEF SyncReads
      <3>2. [sync[k] EXCEPT !.pc = "updating", !.left = ids] \in SyncRecord
        BY <1>0, <1>1 DEF SyncRecord
      <3>3. QED BY <3>1, <3>2, SyncSet DEF CardInv
    <2>3. CASE UpdateOne(k)
      <3>1. PICK f \in sync[k].left :
              sync' = [sync EXCEPT ![k] = [sync[k] EXCEPT !.left = sync[k].left \ {f}]]
        BY <2>3 DEF UpdateOne
      <3>2. [sync[k] EXCEPT !.left = sync[k].left \ {f}] \in SyncRecord BY <1>1 DEF SyncRecord
      <3>3. QED BY <3>1, <3>2, SyncSet DEF CardInv
    <2>4. CASE EndSync(k)
      <3>1. IdleSync \in SyncRecord BY DEF IdleSync, SyncRecord, Status
      <3>2. QED BY <2>4, <3>1, SyncSet DEF EndSync, CardInv
    <2>5. QED BY <2>1, <2>2, <2>3, <2>4 DEF SyncStep
  <1>6. call' \in [FormCall -> CallRecord] /\ CallsOfForms' BY <1>2, <1>3, CallsAlone
  <1>7. CardsTypeOK' BY <1>0, <1>2, <1>3, <1>4, <1>5, <1>6, CardTypesNext
  <1>8. QED BY <1>2, <1>3, <1>6, <1>7 DEF CardInv

LEMMA CardsCallStep ==
  ASSUME CardInv, NEW c \in FormCall, CallStep(c)
  PROVE  CardInv' /\ Placed' = Placed
  <1>0. /\ status \in Status /\ acts \in Nat
        /\ card \in [Form -> Status \cup {"new", "gone"}]
        /\ formIds \subseteq Form /\ state \in Status /\ lost \subseteq Form
        /\ sync \in [Sync -> SyncRecord]
        /\ lastKey \in Status \cup {"none"}
        /\ call \in [FormCall -> CallRecord]
    BY CardTypes DEF CardInv
  <1>1. /\ call[c] \in CallRecord /\ call[c].pc # "idle" /\ call[c].form \in Form
        /\ Removes(call[c]) => card[call[c].form] = "gone"
    <2>1. call[c].pc # "idle"
      BY DEF CallStep, ReadFormIds, SaveFormIds, ReadState, UpdateForm
    <2>2. QED BY <1>0, <2>1 DEF CardInv, CallsOfForms, CallOfForm
  <1>2. UNCHANGED <<status, state, sync, lastKey>>
    BY DEF CallStep, ReadFormIds, SaveFormIds, ReadState, UpdateForm
  <1>3. /\ card' \in [Form -> Status \cup {"new", "gone"}] /\ Placed' = Placed
        /\ \A g \in Form : card[g] = "gone" => card'[g] = "gone"
        /\ acts' \in Nat
    <2>1. CASE UpdateForm(c)
      <3>1. call[c].shown \in Status BY <1>1 DEF CallRecord
      <3>2. QED BY <2>1, <3>1, Updated DEF CardInv, UpdateForm
    <2>2. CASE ~UpdateForm(c)
      <3>1. UNCHANGED card BY <2>2 DEF CallStep, ReadFormIds, SaveFormIds, ReadState
      <3>2. acts' \in Nat
        <4>1. CASE ReadFormIds(c) BY <1>0, <4>1 DEF ReadFormIds, LoadFormIds, Act
        <4>2. CASE SaveFormIds(c) BY <1>0, <4>2 DEF SaveFormIds, Act
        <4>3. CASE ReadState(c) BY <1>0, <4>3 DEF ReadState, LoadState, Act
        <4>4. QED BY <2>2, <4>1, <4>2, <4>3 DEF CallStep
      <3>3. QED BY <1>0, <3>1, <3>2 DEF Placed
    <2>3. QED BY <2>1, <2>2
  <1>4. /\ NoCall \in CallRecord /\ CallOfForm(NoCall) /\ ~Removes(NoCall)
        /\ AfterIds(c) \in CallRecord /\ CallOfForm(AfterIds(c)) /\ ~Removes(AfterIds(c))
    <2>1. NoCall \in CallRecord /\ CallOfForm(NoCall) /\ ~Removes(NoCall)
      BY DEF NoCall, CallRecord, CallOfForm, Removes, Status
    <2>2. DEFINE r == [call[c] EXCEPT !.pc = "loading", !.read = {}]
    <2>3. r \in CallRecord /\ r.pc = "loading" /\ r.form = call[c].form
      BY <1>1 DEF CallRecord
    <2>4. CallOfForm(r) /\ ~Removes(r) BY <1>1, <2>3 DEF CallOfForm, Removes
    <2>5. AfterIds(c) \in {r, NoCall} BY DEF AfterIds
    <2>6. QED BY <2>1, <2>3, <2>4, <2>5
  <1>5. /\ call' \in [FormCall -> CallRecord] /\ CallsOfForms'
        /\ formIds' \subseteq Form /\ lost' \subseteq Form
    <2>1. CASE ReadFormIds(c)
      <3>1. PICK ids \in {formIds, {}} :
              call' = [call EXCEPT ![c] = IF call[c].adds = (call[c].form \in ids) THEN AfterIds(c)
                                         ELSE [call[c] EXCEPT !.pc = "writing", !.read = ids]]
        BY <2>1 DEF ReadFormIds
      <3>2. DEFINE r == [call[c] EXCEPT !.pc = "writing", !.read = ids]
      <3>3. r \in CallRecord /\ r.form = call[c].form /\ r.adds = call[c].adds
        BY <1>0, <1>1 DEF CallRecord
      <3>4. CallOfForm(r) BY <1>1, <3>3 DEF CallOfForm
      <3>5. Removes(r) => Removes(call[c]) BY <2>1, <3>3 DEF Removes, ReadFormIds
      <3>6. CASE call' = [call EXCEPT ![c] = r]
        <4>1. Removes(r) => card'[r.form] = "gone" BY <1>1, <1>3, <3>3, <3>5
        <4>2. HIDE DEF r
        <4>3. QED BY <1>0, <1>3, <2>1, <3>3, <3>4, <3>6, <4>1, CallSet DEF ReadFormIds
      <3>7. CASE call' = [call EXCEPT ![c] = AfterIds(c)]
        BY <1>0, <1>3, <1>4, <2>1, <3>7, CallSet DEF ReadFormIds
      <3>8. QED BY <3>1, <3>6, <3>7
    <2>2. CASE SaveFormIds(c)
      <3>1. call' = [call EXCEPT ![c] = AfterIds(c)] BY <2>2 DEF SaveFormIds
      <3>2. call' \in [FormCall -> CallRecord] /\ CallsOfForms'
        BY <1>3, <1>4, <3>1, CallSet
      <3>3. call[c].read \subseteq Form /\ call[c].adds \in BOOLEAN BY <1>1 DEF CallRecord
      <3>4. formIds' \subseteq Form
        BY <1>0, <1>1, <2>2, <3>3 DEF SaveFormIds, NewFormIds
      <3>5. lost' \subseteq Form
        BY <1>0, <1>1, <2>2, <3>3 DEF SaveFormIds
      <3>6. QED BY <3>2, <3>4, <3>5
    <2>3. CASE ReadState(c)
      <3>1. PICK shown \in Status :
              call' = [call EXCEPT ![c] = [call[c] EXCEPT !.pc = "updating", !.shown = shown]]
        BY <2>3 DEF ReadState
      <3>2. DEFINE r == [call[c] EXCEPT !.pc = "updating", !.shown = shown]
      <3>3. r \in CallRecord /\ r.form = call[c].form /\ r.pc = "updating"
        BY <1>1 DEF CallRecord
      <3>4. CallOfForm(r) /\ ~Removes(r) BY <1>1, <3>3 DEF CallOfForm, Removes
      <3>5. HIDE DEF r
      <3>6. call' = [call EXCEPT ![c] = r] BY <3>1 DEF r
      <3>7. QED BY <1>0, <1>3, <2>3, <3>3, <3>4, <3>6, CallSet DEF ReadState
    <2>4. CASE UpdateForm(c)
      BY <1>0, <1>3, <1>4, <2>4, CallSet DEF UpdateForm
    <2>5. QED BY <2>1, <2>2, <2>3, <2>4 DEF CallStep
  <1>6. CardsTypeOK' BY <1>0, <1>2, <1>3, <1>5, CardTypesNext
  <1>7. QED BY <1>3, <1>5, <1>6 DEF CardInv

LEMMA CardsBegin ==
  ASSUME CardInv, NEW c \in FormCall, NEW f \in Form,
         RegisterForm(c, f) \/ RefreshForm(c, f) \/ UnregisterForm(c, f)
  PROVE  CardInv'
  <1>0. /\ status \in Status /\ acts \in Nat
        /\ card \in [Form -> Status \cup {"new", "gone"}]
        /\ formIds \subseteq Form /\ state \in Status /\ lost \subseteq Form
        /\ sync \in [Sync -> SyncRecord]
        /\ lastKey \in Status \cup {"none"}
        /\ call \in [FormCall -> CallRecord]
    BY CardTypes DEF CardInv
  <1>1. PICK pc \in {"reading", "loading"}, adds \in BOOLEAN :
          /\ Begin(c, pc, adds, f)
          /\ pc = "reading" /\ ~adds => card' = [card EXCEPT ![f] = "gone"]
    BY DEF RegisterForm, RefreshForm, UnregisterForm
  <1>2. /\ card' \in [Form -> Status \cup {"new", "gone"}]
        /\ \A g \in Form : card[g] = "gone" => card'[g] = "gone"
    BY <1>0 DEF RegisterForm, RefreshForm, UnregisterForm, Status, Placed
  <1>3. acts' \in Nat /\ UNCHANGED <<status, formIds, state, sync, lastKey, lost>>
    BY <1>0, <1>1 DEF Begin, Act
  <1>4. DEFINE r == [NoCall EXCEPT !.pc = pc, !.adds = adds, !.form = f]
  <1>5. /\ r \in CallRecord /\ r.pc = pc /\ r.adds = adds /\ r.form = f
    BY DEF NoCall, CallRecord, Status
  <1>6. call' = [call EXCEPT ![c] = r] BY <1>1 DEF Begin
  <1>7. CallOfForm(r) BY <1>5 DEF CallOfForm
  <1>8. Removes(r) => card'[r.form] = "gone"
    <2>1. Removes(r) => pc = "reading" /\ ~adds BY <1>5 DEF Removes
    <2>2. QED BY <1>0, <1>1, <1>5, <2>1
  <1> HIDE DEF r
  <1>9. call' \in [FormCall -> CallRecord] /\ CallsOfForms'
    BY <1>2, <1>5, <1>6, <1>7, <1>8, CallSet
  <1>10. CardsTypeOK' BY <1>0, <1>2, <1>3, <1>9, CardTypesNext
  <1>11. QED BY <1>9, <1>10 DEF CardInv

LEMMA CardsStep ==
  ASSUME CardInv, [CardsNext]_cardVars
  PROVE  CardInv'
  <1>0. /\ status \in Status /\ acts \in Nat
        /\ card \in [Form -> Status \cup {"new", "gone"}]
        /\ formIds \subseteq Form /\ state \in Status /\ lost \subseteq Form
        /\ sync \in [Sync -> SyncRecord]
        /\ lastKey \in Status \cup {"none"}
        /\ call \in [FormCall -> CallRecord]
    BY CardTypes DEF CardInv
  <1>1. ASSUME NEW e \in BOOLEAN, SyncCards(e) PROVE CardInv'
    <2>1. sync' \in [Sync -> SyncRecord]
      <3>1. [pc |-> "saving", status |-> status, left |-> {}] \in SyncRecord
        BY <1>0 DEF SyncRecord
      <3>2. QED BY <1>0, <1>1, <3>1, SyncSet DEF SyncCards, CardInv
    <2>2. UNCHANGED <<status, acts, card, formIds, state, lastKey, call, lost>>
      BY <1>1 DEF SyncCards
    <2>3. CallsOfForms' BY <2>2, CallsAlone
    <2>4. CardsTypeOK' BY <1>0, <2>1, <2>2, CardTypesNext
    <2>5. QED BY <2>3, <2>4 DEF CardInv
  <1>2. ASSUME NEW k \in Sync, SyncStep(k) PROVE CardInv' BY <1>2, CardsSyncStep
  <1>3. ASSUME NEW c \in FormCall, CallStep(c) PROVE CardInv' BY <1>3, CardsCallStep
  <1>4. ASSUME NEW c \in FormCall, NEW f \in Form,
               RegisterForm(c, f) \/ RefreshForm(c, f) \/ UnregisterForm(c, f)
        PROVE  CardInv'
    BY <1>4, CardsBegin
  <1>5. CASE ChangeCardStatus
    <2>1. UNCHANGED <<card, formIds, state, sync, lastKey, call, lost>> BY <1>5 DEF ChangeCardStatus
    <2>2. status' \in Status /\ acts' \in Nat BY <1>0, <1>5 DEF ChangeCardStatus, Act
    <2>3. CallsOfForms' BY <2>1, CallsAlone
    <2>4. CardsTypeOK' BY <1>0, <2>1, <2>2, CardTypesNext
    <2>5. QED BY <2>3, <2>4 DEF CardInv
  <1>6. CASE PageRestarts
    <2>1. UNCHANGED <<card, formIds, state, call, lost>> BY <1>6 DEF PageRestarts
    <2>2. status' \in Status /\ acts' \in Nat /\ lastKey' = "none"
      BY <1>0, <1>6 DEF PageRestarts, Act
    <2>3. sync' \in [Sync -> SyncRecord]
      BY <1>6 DEF PageRestarts, IdleSync, SyncRecord, Status
    <2>4. CallsOfForms' BY <2>1, CallsAlone
    <2>5. CardsTypeOK' BY <1>0, <2>1, <2>2, <2>3, CardTypesNext
    <2>6. QED BY <2>4, <2>5 DEF CardInv
  <1>7. CASE AbilityEnds
    <2>1. UNCHANGED <<status, card, formIds, state, sync, lastKey>> BY <1>7 DEF AbilityEnds
    <2>2. acts' \in Nat BY <1>0, <1>7 DEF AbilityEnds, Act
    <2>3. call' \in [FormCall -> CallRecord] /\ CallsOfForms'
      <3>1. NoCall \in CallRecord /\ CallOfForm(NoCall) /\ ~Removes(NoCall)
        BY DEF NoCall, CallRecord, CallOfForm, Removes, Status
      <3>2. QED BY <1>7, <3>1 DEF AbilityEnds, CallsOfForms
    <2>4. lost' \subseteq Form
      <3>1. \A c \in FormCall : call[c].pc \in {"reading", "writing"} => call[c].form \in Form
        BY DEF CardInv, CallsOfForms, CallOfForm
      <3>2. QED BY <1>0, <1>7, <3>1 DEF AbilityEnds
    <2>5. CardsTypeOK' BY <1>0, <2>1, <2>2, <2>3, <2>4, CardTypesNext
    <2>6. QED BY <2>3, <2>5 DEF CardInv
  <1>8. CASE UNCHANGED cardVars
    <2>1. CallsOfForms' BY <1>8, CallsAlone DEF cardVars
    <2>2. CardsTypeOK' BY <1>0, <1>8, CardTypesNext DEF cardVars
    <2>3. QED BY <2>1, <2>2 DEF CardInv
  <1>9. QED BY <1>1, <1>2, <1>3, <1>4, <1>5, <1>6, <1>7, <1>8 DEF CardsNext

LEMMA CardsBegun == CardsInit => CardInv
  <1> SUFFICES ASSUME CardsInit PROVE CardInv OBVIOUS
  <1>1. NoCall \in CallRecord /\ CallOfForm(NoCall) /\ ~Removes(NoCall)
    BY DEF NoCall, CallRecord, CallOfForm, Removes, Status
  <1>2. IdleSync \in SyncRecord BY DEF IdleSync, SyncRecord, Status
  <1>3. CardsTypeOK BY <1>1, <1>2, CardTypes DEF CardsInit, Status
  <1>4. CallsOfForms BY <1>1 DEF CardsInit, CallsOfForms
  <1>5. QED BY <1>3, <1>4 DEF CardInv

(* The variables of the cards keep their types for any number of cards, of *)
(* syncs and of calls that overlap, and whatever fails (ControlCardManager,*)
(* ControlCardStore, ControlCardAbility).                                  *)
THEOREM CardsTypes == CardsSpec => []CardsTypeOK
  <1>1. CardInv /\ [CardsNext]_cardVars => CardInv' BY CardsStep
  <1>2. CardInv => CardsTypeOK BY DEF CardInv
  <1>3. QED BY CardsBegun, <1>1, <1>2, PTL DEF CardsSpec

(* ---- the cards are listed ---- *)

Adding(f) == \E c \in FormCall : /\ call[c].adds /\ call[c].form = f
                                 /\ call[c].pc \in {"reading", "writing"}

LEMMA ListedStep ==
  ASSUME CardInv, CardsListed, [CardsNext]_cardVars
  PROVE  CardsListed'
  <1>0. call \in [FormCall -> CallRecord] BY CardTypes DEF CardInv
  <1>1. ASSUME UNCHANGED <<formIds, call, lost>>, Placed' \subseteq Placed PROVE CardsListed'
    BY <1>1 DEF CardsListed
  <1>2. ASSUME NEW k \in Sync, SyncStep(k) PROVE CardsListed' BY <1>1, <1>2, CardsSyncStep
  <1>3. ASSUME NEW c \in FormCall, CallStep(c) PROVE CardsListed'
    <2>0. Placed' = Placed BY <1>3, CardsCallStep
    <2> SUFFICES ASSUME NEW f \in Placed, f \notin lost', f \notin formIds'
                 PROVE  Adding(f)'
      BY <2>0 DEF CardsListed, Adding
    <2>1. \A d \in FormCall \ {c} : call'[d] = call[d]
      BY <1>0, <1>3 DEF CallStep, ReadFormIds, SaveFormIds, ReadState, UpdateForm
    <2>2. CASE SaveFormIds(c)
      <3>1. formIds' = formIds \/ formIds' = NewFormIds(call[c].adds, call[c].form, call[c].read)
        BY <2>2 DEF SaveFormIds
      <3>2. CASE formIds' = NewFormIds(call[c].adds, call[c].form, call[c].read)
                 /\ lost' = (lost \cup (formIds \ call[c].read))
                              \ (call[c].read \cup (IF call[c].adds THEN {call[c].form} ELSE {}))
        <4>1. call[c].adds => f \notin call[c].read /\ f # call[c].form BY <3>2 DEF NewFormIds
        <4>2. ~call[c].adds => f # call[c].form
          <5>1. ~call[c].adds => Removes(call[c]) BY <2>2 DEF SaveFormIds, Removes
          <5>2. ~call[c].adds => card[call[c].form] = "gone" BY <5>1 DEF CardInv, CallsOfForms
          <5>3. QED BY <5>2 DEF Placed, Status
        <4>3. f \notin call[c].read BY <3>2, <4>1, <4>2 DEF NewFormIds
        <4>4. f # call[c].form BY <1>0, <4>1, <4>2 DEF CallRecord
        <4>5. f \notin lost /\ f \notin formIds
          <5>1. f \notin (IF call[c].adds THEN {call[c].form} ELSE {}) BY <4>4
          <5>2. QED BY <3>2, <4>3, <5>1
        <4>6. PICK d \in FormCall : /\ call[d].adds /\ call[d].form = f
                                    /\ call[d].pc \in {"reading", "writing"}
          BY <4>5 DEF CardsListed
        <4>7. d # c BY <4>4, <4>6
        <4>8. QED BY <2>1, <4>6, <4>7 DEF Adding
      <3>3. CASE formIds' = formIds /\ lost' = lost \cup (IF call[c].adds THEN {call[c].form} ELSE {})
        <4>1. f \notin lost /\ f \notin formIds BY <3>3
        <4>2. PICK d \in FormCall : /\ call[d].adds /\ call[d].form = f
                                    /\ call[d].pc \in {"reading", "writing"}
          BY <4>1 DEF CardsListed
        <4>3. d # c BY <3>3, <4>2
        <4>4. QED BY <2>1, <4>2, <4>3 DEF Adding
      <3>4. QED BY <2>2, <3>2, <3>3 DEF SaveFormIds
    <2>3. CASE ~SaveFormIds(c)
      <3>1. formIds' = formIds /\ lost' = lost
        BY <1>3, <2>3 DEF CallStep, ReadFormIds, ReadState, UpdateForm
      <3>2. PICK d \in FormCall : /\ call[d].adds /\ call[d].form = f
                                  /\ call[d].pc \in {"reading", "writing"}
        BY <3>1 DEF CardsListed
      <3>3. CASE d # c BY <2>1, <3>2, <3>3 DEF Adding
      <3>4. CASE d = c
        <4>1. ReadFormIds(c)
          BY <1>3, <2>3, <3>2, <3>4 DEF CallStep, ReadState, UpdateForm
        <4>2. PICK ids \in {formIds, {}} :
                call' = [call EXCEPT ![c] = IF call[c].adds = (call[c].form \in ids) THEN AfterIds(c)
                                           ELSE [call[c] EXCEPT !.pc = "writing", !.read = ids]]
          BY <4>1 DEF ReadFormIds
        <4>3. call[c].form \notin ids BY <3>1, <3>2, <3>4
        <4>4. call[c].adds = TRUE BY <1>0, <3>2, <3>4 DEF CallRecord
        <4>5. call' = [call EXCEPT ![c] = [call[c] EXCEPT !.pc = "writing", !.read = ids]]
          BY <4>2, <4>3, <4>4
        <4>6. call[c] \in CallRecord BY <1>0
        <4>7. call'[c] = [call[c] EXCEPT !.pc = "writing", !.read = ids] BY <1>0, <4>5
        <4>8. call'[c].adds /\ call'[c].form = f /\ call'[c].pc = "writing"
          BY <3>2, <3>4, <4>6, <4>7 DEF CallRecord
        <4>9. QED BY <4>8 DEF Adding
      <3>5. QED BY <3>3, <3>4
    <2>4. QED BY <2>2, <2>3
  <1>4. ASSUME NEW c \in FormCall, NEW g \in Form,
               RegisterForm(c, g) \/ RefreshForm(c, g) \/ UnregisterForm(c, g)
        PROVE  CardsListed'
    <2>1. /\ UNCHANGED <<formIds, lost>> /\ call[c].pc = "idle"
          /\ \A d \in FormCall \ {c} : call'[d] = call[d]
      BY <1>0, <1>4 DEF RegisterForm, RefreshForm, UnregisterForm, Begin
    <2>2. \A f \in Form : Adding(f) => Adding(f)'
      <3> TAKE f \in Form
      <3>1. ASSUME NEW d \in FormCall, call[d].pc \in {"reading", "writing"} PROVE d # c
        BY <2>1, <3>1
      <3>2. QED BY <2>1, <3>1 DEF Adding
    <2>3. card \in [Form -> Status \cup {"new", "gone"}] BY CardTypes DEF CardInv
    <2>4. CASE RegisterForm(c, g)
      <3>1. Placed' \subseteq Placed \cup {g} BY <2>3, <2>4 DEF RegisterForm, Placed
      <3>2. DEFINE r == [NoCall EXCEPT !.pc = "reading", !.adds = TRUE, !.form = g]
      <3>3. call'[c] = r BY <1>0, <2>4 DEF RegisterForm, Begin
      <3>4. r.pc = "reading" /\ r.adds /\ r.form = g BY DEF NoCall
      <3>5. Adding(g)' BY <3>3, <3>4 DEF Adding
      <3>6. \A f \in Placed' : f \in Form BY DEF Placed
      <3>7. QED BY <2>1, <2>2, <3>1, <3>5, <3>6 DEF CardsListed, Adding
    <2>5. CASE ~RegisterForm(c, g)
      <3>1. Placed' \subseteq Placed /\ \A f \in Placed' : f \in Form
        BY <1>4, <2>3, <2>5 DEF RefreshForm, UnregisterForm, Placed, Status
      <3>2. QED BY <2>1, <2>2, <3>1 DEF CardsListed, Adding
    <2>6. QED BY <2>4, <2>5
  <1>5. CASE AbilityEnds
    <2>1. Placed' = Placed /\ formIds' = formIds BY <1>5 DEF AbilityEnds, Placed
    <2>2. \A f \in Form : Adding(f) => f \in lost' BY <1>5 DEF AbilityEnds, Adding
    <2>3. lost \subseteq lost' BY <1>5 DEF AbilityEnds
    <2>4. \A f \in Placed : f \in Form BY DEF Placed
    <2>5. QED BY <2>1, <2>2, <2>3, <2>4 DEF CardsListed, Adding
  <1>6. ASSUME UNCHANGED <<card, formIds, call, lost>> PROVE CardsListed'
    BY <1>6 DEF CardsListed, Placed
  <1>7. ASSUME NEW e \in BOOLEAN, SyncCards(e) PROVE CardsListed' BY <1>6, <1>7 DEF SyncCards
  <1>8. CASE ChangeCardStatus BY <1>6, <1>8 DEF ChangeCardStatus
  <1>9. CASE PageRestarts BY <1>6, <1>9 DEF PageRestarts
  <1>10. CASE UNCHANGED cardVars BY <1>6, <1>10 DEF cardVars
  <1>11. QED BY <1>2, <1>3, <1>4, <1>5, <1>7, <1>8, <1>9, <1>10 DEF CardsNext

(* However many calls of the ability overlap, and whatever fails, the id   *)
(* of a card that is there is in the preferences or on its way there,      *)
(* unless it was written over by a call that had read the list before, or  *)
(* dropped by a read or a write that failed (ControlCardStore.addFormId,   *)
(* removeFormId).  A removal could take the id of a card that is there;    *)
(* CardInv says that its card has gone.                                    *)
THEOREM CardsAreListed == CardsSpec => []CardsListed
  <1>1. CardsInit => CardsListed
    BY DEF CardsInit, CardsListed, Placed, Status
  <1>2. CardInv /\ [CardsNext]_cardVars => CardInv' BY CardsStep
  <1>3. CardInv /\ CardsListed /\ [CardsNext]_cardVars => CardsListed' BY ListedStep
  <1>4. QED BY CardsBegun, <1>1, <1>2, <1>3, PTL DEF CardsSpec
=============================================================================
