------------------------- MODULE MCRuntimeSurfaces -------------------------
(* A small instance of the notification and of the cards for TLC.  They     *)
(* share nothing but the status: a behaviour is about one of the two, and   *)
(* the other keeps its first state.                                         *)
EXTENDS SpeedNotification, ControlCards

VARIABLE about  \* which of the two

surfaceVars == <<noteVars, cardVars, about>>

Of(surface, action) ==
  /\ about = surface /\ action /\ UNCHANGED about
  /\ IF surface = "cards" THEN UNCHANGED <<speed, manager, calls, visible, missed>>
     ELSE UNCHANGED <<card, formIds, state, sync, lastKey, call, lost>>

SurfacesInit ==
  /\ NoteInit /\ CardsInit
  /\ about \in {"notification", "cards"} /\ (about = "cards" => ~speed)

SurfacesNext == Of("notification", NoteNext) \/ Of("cards", CardsNext)

SurfacesSpec ==
  /\ SurfacesInit /\ [][SurfacesNext]_surfaceVars
  /\ WF_surfaceVars(Of("notification", SyncNotification(TRUE)))
  /\ WF_surfaceVars(Of("notification", EnsureEnabled))
  /\ WF_surfaceVars(Of("notification", Serve))
  /\ WF_surfaceVars(Of("notification", Answered))
  /\ WF_surfaceVars(Of("cards", SyncCards(TRUE)))
  /\ \A k \in Sync : WF_surfaceVars(Of("cards", SyncStep(k)))
  /\ \A c \in FormCall : WF_surfaceVars(Of("cards", CallStep(c)))
=============================================================================
