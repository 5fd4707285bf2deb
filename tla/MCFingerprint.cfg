CONSTANTS
  Nics <- TwoNics
  DiskOrder <- TwoDisks
  Machines <- AllMachines
  Deployments <- AllDeployments
  Unset = Unset
  MaxChanges = 2
SPECIFICATION Spec
INVARIANTS TypeOK MismatchHasACause OkMeansSameParts ToolsAgree TwinsAgree
