SPECIFICATION FairSpec
CONSTANTS
  coredns = coredns
  kube_dns = kube_dns
  controller = controller
  speaker = speaker
  storageclass = storageclass
  coredns_deployment = coredns_deployment
  metallb = metallb
  storage_class = storage_class
  Object <- MCObject
  File <- MCFile
  Objects <- MCObjects
  Apps <- MCApps
  Dns = coredns
  DnsService = kube_dns
  MaxVersion = 2
  MaxAborts = 1
  MaxOutages = 1
  MaxTouches = 1
INVARIANTS TypeOK CompletedRunUpToDate CompletedRunExists CompletedRunCleans
PROPERTY AppliedEventually
