----------------------------- MODULE MCEtcdCerts -----------------------------
EXTENDS EtcdCerts

Groups(etcd, kube, node) ==
  [etcd |-> etcd, k8s_cluster |-> kube, kube_node |-> node]
Hosts == 1 .. 3
\* One etcd host and one node; a second etcd host, which is a node too.
Growing == {Groups({1}, {3}, {3}), Groups({1, 2}, {2, 3}, {3})}
=============================================================================
