\* Every command of up to three arguments, with thresholds at four and five hosts.
CONSTANTS
  first = first
  OtherName <- MCOtherName
  Arguments <- MCArguments
  Loadable <- MCLoadable
  MaxLength = 3
  MaxRuns = 1
  KUBE_CONTROL_HOSTS = 2
  SCALE_THRESHOLD = 4
  MASSIVE_SCALE_THRESHOLD = 5
SPECIFICATION Spec
INVARIANTS TypeOK UniqueAddresses SeparatedAtScale DeployableGroups AddressesAsAsked
CHECK_DEADLOCK FALSE
