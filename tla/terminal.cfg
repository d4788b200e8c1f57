\* Every command with a ring of six events, so that spans outlive their events;
\* two terminals of one user, whose tree is shared and whose working directories
\* are not; every key in every order.
SPECIFICATION Spec
CONSTANTS
  Typed <- TypedCommands
  Untyped <- UntypedCommands
  Mutating <- MutatingCommands
  RingSize = 6
  MaxPath = 2
  MaxSeq = 8
  MaxWork = 2
  MaxTx = 2
  Terminal = {t1, t2}
  User = {"u"}
  NoUser = "nobody"
  NoSession = NoSession
  Name = {"u", "a"}
  Home <- HomeOfUser
  MaxDepth = 2
  MaxTyped = 2
  Letter = {"a", "b"}
  Word <- KnownWords
  MaxLine = 2
  HistoryLimit = 2
INVARIANTS
  TypeOK
  StackIsOpenSpans
  TxEventsInTx
  PathIsWalk
  TabReplacesCandidate
PROPERTIES
  ShownIsTheCommand
  DraftReturns
