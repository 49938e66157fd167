SPECIFICATION MCSpec
CONSTANTS
  Workspaces = {w1, w2}
  Agents = {a}
  Templates = {m}
  Projects = {p}
  Skills = {s}
  Servers = {v}
  Memories = {y}
  Tasks = {t}
  Credentials = {c}
  Comments = {k}
  Handlers = {h1, h2}
  MaxWork = 4
  MaxUnderWay = 2
  Editors = {"y", "z"}
  MaxEdits = 2
  Texts = {"null", "empty", "default", "x", "y", "z"}
  None = None
SYMMETRY Symmetry
CHECK_DEADLOCK FALSE
INVARIANTS
  TypeOK
  NamesHold
  RecordsKept
