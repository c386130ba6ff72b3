SPECIFICATION FairSpec
CONSTANTS
  Questions = {"market", "margins", "risks", "pricing"}
  Roles = {1, 2}
  NoRole = 0
  RoleOf <- Plan
  Blocking = {"margins"}
  Conditional = {"margins"}
  External = {"risks"}
  Rules = {"all_blocking_questions_answered"}
  Intents = 1
  SearchCap = 1
  MaxRounds = 3
  MaxTasks = 4
  MaxCalls = 3
  SearchBudget = 1
  WebRounds = 1
  MaxWebGaps = 1
  CorpusBatch = 1
  FollowupQueries = 1
  PlatformCalls = 1
  SearchCalls = 2
  GapKinds = {"absence"}
INVARIANTS BudgetsHold FedQuestionsAreQueued NothingLeftIsTrue ALimitLeftWorkUndone CompletionStands
PROPERTY LoopTerminates
CHECK_DEADLOCK FALSE
