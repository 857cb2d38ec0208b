SPECIFICATION MCSpec
CONSTANTS
  \* ArgumentParser
  MaxOptions = 4
  MaxPositionals = 4
  \* ServerConnection
  Input <- MCInput
  MaxRequest = 2
  Values = {"u", "v"}
  MaxDrafts = 2
  MaxDraftId = 3
  MaxRevision = 1
  \* CredentialVault
  Identifiers = {"n", "-"}
  ValidName = {"n"}
  Urls <- MCUrls
  Secrets = {"s", "t", "empty"}
  ValidSecret = {"s", "t"}
  VaultUsers = {1, 2}
  \* Workspace
  p = p
  q = q
  f = f
  g = g
  c = c
  d = d
  Workers = {p, q}
  Files = {f, g}
  Contents = {c, d}
  MaxEdits = 1
  MaxSaved = 2
  \* WorkspaceGit
  Branches = {"main", "work"}
  Main = "main"
  RootPath = "root"
  Paths = {"linked"}
  Conflicts <- MCConflicts
  MaxCommits = 4
SYMMETRY MCSymmetry
CHECK_DEADLOCK FALSE
INVARIANTS  ParserFollowsUsage SecretStaysWithItsOrigin
PROPERTIES WritesReplaceWhatWasRead  MergeIsThePreflighted
