SPECIFICATION PartsSpec
CONSTANTS
  Apps = {a, b}
  Hosts = {"h1", "h2"}
  NoValue = NoValue
  hash_host <- HashHost
  kFirstEphemeralPort = 1
  kEphemeralPortCount = 2
  MaxBindings = 2
  kResolveAttempts = 2
  MaxContexts = 1
  MaxAnswers = 1
  Suits = {0, 2, 3}
  Top = 3
  kTableauCount = 3
  kMaxUndo = 2
  Decks <- OneDeck
INVARIANTS
  WorkNotLost
  BoardsLegal
  NamesJust
PROPERTIES
  KeysDoOneThing
CHECK_DEADLOCK FALSE
