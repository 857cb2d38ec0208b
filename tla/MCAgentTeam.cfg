\* Delegation, messages and dependent Tasks together, the Active limit changed
\* between opens.
SPECIFICATION Spec
CONSTANTS
  Labels = {src}
  Caps = {net}
  Budgets <- MCBudgets
  Limits = {1, 2}
  MaxTasks = 4
  MaxOperations = 7
  MaxMessages = 1
INVARIANTS ValidationNeverRefuses AuthorityNarrows JournalReplays InputsSucceeded
