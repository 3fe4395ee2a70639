---- MODULE MCKubeModule ----
\* CoreDNS, MetalLB and a storage class, each with the policy of its tasks.
EXTENDS KubeModule

CONSTANTS coredns, kube_dns, controller, speaker, storageclass,
          coredns_deployment, metallb, storage_class

MCObject == {coredns, kube_dns, controller, speaker, storageclass}
MCFile == {coredns_deployment, metallb, storage_class}
MCObjects == [f \in MCFile |->
  CASE f = coredns_deployment -> <<coredns>>
    [] f = metallb -> <<controller, speaker>>
    [] f = storage_class -> <<storageclass>>]
MCApps == <<
  [files |-> <<coredns_deployment>>, policy |-> "latest", retries |-> 1],
  [files |-> <<metallb>>, policy |-> "latest_or_present", retries |-> 0],
  [files |-> <<storage_class>>, policy |-> "if_changed", retries |-> 0]>>
====
