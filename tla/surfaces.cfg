SPECIFICATION SurfacesSpec
CONSTANTS
  MaxCalls = 3
  Form = {"f1", "f2"}
  Sync = {1, 2}
  FormCall = {1, 2}
  MaxActs = 3
INVARIANTS NoteTypeOK CardsTypeOK NotificationKnown CardsListed
PROPERTIES NotificationFollows CardsFollow
