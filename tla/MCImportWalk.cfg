CONSTANTS
  Classes <- MCClasses
  AnyRepo = "any"
  Allow <- MCAllow
  Bare = {"crossstage"}
  NoArea = "none"
  Roots = {"pqcota", "common", "inventory", "discovery", "provisioning"}
  Workspaces <- MCWorkspaces
  Commands <- MCCommands
SPECIFICATION Spec
INVARIANT LinkedIsAllowed
CHECK_DEADLOCK FALSE
