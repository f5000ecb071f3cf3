---------------------------- MODULE ControlCards ----------------------------
(***************************************************************************)
(* The control cards on the desktop: ControlCardManager.sync, called by    *)
(* the page at each refresh, and the calls of ControlCardAbility when a    *)
(* card is placed, refreshed or removed.  None of them is waited for, so   *)
(* they overlap wherever ControlCardStore waits for the preferences, and   *)
(* the store answers an empty list for a read that fails and ignores a     *)
(* write that fails.  The preferences are taken to be one for both         *)
(* processes.                                                              *)
(***************************************************************************)
EXTENDS RuntimeSurfaces

CONSTANTS Form,      \* cards the user may place, each with an id of its own
          Sync,      \* bound: syncs of the cards under way
          FormCall   \* bound: calls of the ability under way

VARIABLES card,      \* what each card shows, before and after it is there too
          formIds,   \* the cards in the preferences
          state,     \* the state of the cards in the preferences
          sync,      \* the calls of ControlCardManager.sync
          lastKey,   \* lastImmediateKey
          call,      \* the calls of the ability
          lost       \* history: cards whose id never got into the preferences
                     \* or was written over, by a failure or an overlap

cardVars == <<status, acts, card, formIds, state, sync, lastKey, call, lost>>

Placed == {f \in Form : card[f] \in Status}

-----------------------------------------------------------------------------
(* ControlCardStore.                                                       *)

(* A read that fails finds no cards.                                       *)
LoadFormIds(ids) == \/ ids = formIds /\ UNCHANGED acts
                    \/ ids = {} /\ Act

(* A read that fails finds the state of a card that was just made.         *)
LoadState(shown) == \/ shown = state /\ UNCHANGED acts
                    \/ shown = "IDLE" /\ Act

(* updateOne: a card that is not there, or that the system does not        *)
(* update, is passed over.                                                 *)
Update(f, shown) ==
  \/ /\ card' = IF f \in Placed THEN [card EXCEPT ![f] = shown] ELSE card
     /\ UNCHANGED acts
  \/ f \in Placed /\ Act /\ UNCHANGED card

-----------------------------------------------------------------------------
(* ControlCardManager.sync.                                                *)

IdleSync == [pc |-> "idle", status |-> "IDLE", left |-> {}]

(* Mutant: the three seconds are left out.                                 *)
DueByKey(elapsed) == lastKey # status

(* shouldSkipSync; elapsed : the three seconds have passed.                *)
Due(elapsed) == lastKey # status \/ elapsed

SyncCards(elapsed) ==
  /\ IF Due(elapsed)
     THEN \E k \in Sync : /\ sync[k].pc = "idle"
                          /\ sync' = [sync EXCEPT ![k] =
                               [pc |-> "saving", status |-> status, left |-> {}]]
     ELSE UNCHANGED sync
  /\ UNCHANGED <<status, acts, card, formIds, state, lastKey, call, lost>>

(* A write that fails is ignored.                                          *)
SaveState(k) ==
  /\ sync[k].pc = "saving"
  /\ \/ state' = sync[k].status /\ UNCHANGED acts
     \/ Act /\ UNCHANGED state
  /\ sync' = [sync EXCEPT ![k].pc = "loading"]
  /\ UNCHANGED <<status, card, formIds, lastKey, call, lost>>

SyncReads(k) ==
  /\ sync[k].pc = "loading"
  /\ \E ids \in {formIds, {}} :
       /\ LoadFormIds(ids)
       /\ sync' = [sync EXCEPT ![k] = [@ EXCEPT !.pc = "updating", !.left = ids]]
  /\ UNCHANGED <<status, card, formIds, state, lastKey, call, lost>>

UpdateOne(k) ==
  /\ sync[k].pc = "updating"
  /\ \E f \in sync[k].left :
       /\ Update(f, sync[k].status)
       /\ sync' = [sync EXCEPT ![k].left = @ \ {f}]
  /\ UNCHANGED <<status, formIds, state, lastKey, call, lost>>

EndSync(k) ==
  /\ sync[k].pc = "updating" /\ sync[k].left = {}
  /\ lastKey' = sync[k].status
  /\ sync' = [sync EXCEPT ![k] = IdleSync]
  /\ UNCHANGED <<status, acts, card, formIds, state, call, lost>>

SyncStep(k) == SaveState(k) \/ SyncReads(k) \/ UpdateOne(k) \/ EndSync(k)

-----------------------------------------------------------------------------
(* ControlCardAbility; read : the ids that the call has read.              *)

NoCall == [pc |-> "idle", adds |-> FALSE, form |-> "none", read |-> {}, shown |-> "IDLE"]

Begin(c, pc, adds, f) ==
  /\ call[c].pc = "idle" /\ Act
  /\ call' = [call EXCEPT ![c] = [NoCall EXCEPT !.pc = pc, !.adds = adds, !.form = f]]
  /\ UNCHANGED <<status, formIds, state, sync, lastKey, lost>>

(* onAddForm answers with a card just made, and starts registerForm.       *)
RegisterForm(c, f) ==
  /\ card[f] = "new" /\ card' = [card EXCEPT ![f] = "IDLE"]
  /\ Begin(c, "reading", TRUE, f)

RefreshForm(c, f) ==
  /\ f \in Placed /\ UNCHANGED card
  /\ Begin(c, "loading", FALSE, f)

UnregisterForm(c, f) ==
  /\ f \in Placed /\ card' = [card EXCEPT ![f] = "gone"]
  /\ Begin(c, "reading", FALSE, f)

(* Mutant: a call that is done is kept.                                    *)
AfterIdsKept(c) == [call[c] EXCEPT !.pc = IF @ = "writing" THEN "written" ELSE "loading"]

(* What the call does once the ids are read, or written: registerForm goes *)
(* on to the state, unregisterForm is done.                                *)
AfterIds(c) ==
  IF call[c].adds THEN [call[c] EXCEPT !.pc = "loading", !.read = {}] ELSE NoCall

ReadFormIds(c) ==
  /\ call[c].pc = "reading"
  /\ \E ids \in {formIds, {}} :
       /\ LoadFormIds(ids)
       /\ call' = [call EXCEPT ![c] =
            IF call[c].adds = (call[c].form \in ids) THEN AfterIds(c)
            ELSE [@ EXCEPT !.pc = "writing", !.read = ids]]
  /\ UNCHANGED <<status, card, formIds, state, sync, lastKey, lost>>

(* Mutant: the list is written anew.                                       *)
NewFormIdsAnew(adds, f, ids) == IF adds THEN {f} ELSE ids \ {f}

NewFormIds(adds, f, ids) == IF adds THEN ids \cup {f} ELSE ids \ {f}

(* saveFormIds: ids that came in since the read are written over; a write  *)
(* that fails is ignored.                                                  *)
SaveFormIds(c) ==
  /\ call[c].pc = "writing"
  /\ \/ /\ formIds' = NewFormIds(call[c].adds, call[c].form, call[c].read)
        /\ lost' = (lost \cup (formIds \ call[c].read))
                     \ (call[c].read \cup (IF call[c].adds THEN {call[c].form} ELSE {}))
        /\ UNCHANGED acts
     \/ /\ lost' = lost \cup (IF call[c].adds THEN {call[c].form} ELSE {})
        /\ Act /\ UNCHANGED formIds
  /\ call' = [call EXCEPT ![c] = AfterIds(c)]
  /\ UNCHANGED <<status, card, state, sync, lastKey>>

ReadState(c) ==
  /\ call[c].pc = "loading"
  /\ \E shown \in Status :
       /\ LoadState(shown)
       /\ call' = [call EXCEPT ![c] = [@ EXCEPT !.pc = "updating", !.shown = shown]]
  /\ UNCHANGED <<status, card, formIds, state, sync, lastKey, lost>>

UpdateForm(c) ==
  /\ call[c].pc = "updating"
  /\ Update(call[c].form, call[c].shown)
  /\ call' = [call EXCEPT ![c] = NoCall]
  /\ UNCHANGED <<status, formIds, state, sync, lastKey, lost>>

CallStep(c) == ReadFormIds(c) \/ SaveFormIds(c) \/ ReadState(c) \/ UpdateForm(c)

-----------------------------------------------------------------------------
ChangeCardStatus ==
  /\ Act /\ status' \in Status \ {status}
  /\ UNCHANGED <<card, formIds, state, sync, lastKey, call, lost>>

(* The process of the page ends and is started again.                      *)
PageRestarts ==
  /\ Act
  /\ sync' = [k \in Sync |-> IdleSync]
  /\ lastKey' = "none"
  /\ status' \in Status
  /\ UNCHANGED <<card, formIds, state, call, lost>>

(* The process of the ability ends: what it had not written is lost.       *)
AbilityEnds ==
  /\ Act
  /\ call' = [c \in FormCall |-> NoCall]
  /\ lost' = lost \cup {call[c].form : c \in
       {d \in FormCall : call[d].adds /\ call[d].pc \in {"reading", "writing"}}}
  /\ UNCHANGED <<status, card, formIds, state, sync, lastKey>>

CardsInit ==
  /\ status = "IDLE" /\ acts = 0
  /\ card = [f \in Form |-> "new"]
  /\ formIds = {} /\ state = "IDLE"
  /\ sync = [k \in Sync |-> IdleSync]
  /\ lastKey = "none"
  /\ call = [c \in FormCall |-> NoCall]
  /\ lost = {}

CardsNext ==
  \/ \E elapsed \in BOOLEAN : SyncCards(elapsed)
  \/ \E k \in Sync : SyncStep(k)
  \/ \E c \in FormCall : CallStep(c)
  \/ \E c \in FormCall, f \in Form : RegisterForm(c, f) \/ RefreshForm(c, f) \/ UnregisterForm(c, f)
  \/ ChangeCardStatus \/ PageRestarts \/ AbilityEnds

(* The timer ticks, intervals pass, and every call is answered.            *)
CardsSpec ==
  /\ CardsInit /\ [][CardsNext]_cardVars
  /\ WF_cardVars(SyncCards(TRUE))
  /\ \A k \in Sync : WF_cardVars(SyncStep(k))
  /\ \A c \in FormCall : WF_cardVars(CallStep(c))

-----------------------------------------------------------------------------
CardsTypeOK ==
  /\ status \in Status /\ acts \in Nat
  /\ card \in [Form -> Status \cup {"new", "gone"}]
  /\ formIds \subseteq Form /\ state \in Status /\ lost \subseteq Form
  /\ sync \in [Sync -> [pc : {"idle", "saving", "loading", "updating"}, status : Status,
                       left : SUBSET Form]]
  /\ lastKey \in Status \cup {"none"}
  /\ call \in [FormCall -> [pc : {"idle", "reading", "writing", "loading", "updating"},
                            adds : BOOLEAN, form : Form \cup {"none"}, read : SUBSET Form, shown : Status]]

(* However the calls of the cards overlap, the id of a card that is there  *)
(* is in the preferences, where the syncs look for it, or its call is on   *)
(* the way there, or it was lost: written over by a call that had read the *)
(* list before, or dropped by a read or a write that failed                *)
(* (ControlCardStore.addFormId, removeFormId).                             *)
CardsListed ==
  \A f \in Placed \ lost :
    \/ f \in formIds
    \/ \E c \in FormCall : /\ call[c].adds /\ call[c].form = f
                           /\ call[c].pc \in {"reading", "writing"}

(* However the syncs and the calls of the cards overlap, a status that     *)
(* lasts is in the end what every card shows, so its button does what it   *)
(* says, but for a card whose id was lost (ControlCardManager.sync).       *)
CardsFollow ==
  \A s \in Status : <>[](status = s) => <>[](\A f \in Placed \ lost : card[f] = s)
=============================================================================
