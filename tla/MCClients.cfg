\* Two callers; a part of each kind, a circle, an archived one, a story with a task; the
\* nine cosigners and a stranger; three accounts, one unknown, and pages of one.
CONSTANTS
  c1 = c1
  c2 = c2
  Callers <- TwoCallers
  DropletNames = {"TF-d", "tf-d"}
  Lower <- Lowered
  Spared = {"TF-d"}
  Projects = {"p"}
  Default = "default"
  MaxDroplets = 2
  Circle = {circle}
  Comments = {comment}
  ItemTasks = {item}
  Fields = {field}
  MaxItems = 3
  Filed = {circle, archive}
  Story = {story}
  Task = {task}
  Nowhere = nowhere
  Archived = {archive}
  NodeNames = {"a", "b", ""}
  Depth = 2
  MaxNodes = 4
  EntryNames = {"a", "b", "c"}
  MaxEntries = 3
  Hosts = {"h"}
  V4 = {"4"}
  V6 = {"6"}
  Malformed = "no"
  MaxRecords = 2
  LabelNames = {"type_bug", "type_unknown", "p_x"}
  LabelLower <- LowerLabels
  Replace <- Replacements
  UnknownType = "type_unknown"
  Protected = {"p_x"}
  GetColor <- Colors
  Wants = {{"type_unknown"}, {"type_unknown", "p_x"}}
  Absent = "absent"
  Nothing = nothing
  Cosigners = {"s1", "s2", "s3", "s4", "s5", "s6", "s7", "s8", "s9"}
  Owner = "owner"
  Account = "account"
  Strangers = {"stranger"}
  Transactions <- Signed
  Known = {"cleanup", "elsewhere", "longer"}
  Weights = {0, 1, 5, 10}
  MaxChanges = 3
  Endpoints = {"stats", "detailed"}
  Detailed = "detailed"
  MaxAccounts = 3
  Unknown = {3}
  PageSize = 1
  Supply = 1
SPECIFICATION Spec
INVARIANTS
  TypeOK
  NamedOnce
  
  
  
  LedgerReadRight
SYMMETRY Interchangeable
CHECK_DEADLOCK FALSE
