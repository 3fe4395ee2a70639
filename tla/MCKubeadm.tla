---- MODULE MCKubeadm ----
\* A cluster that is deployed with two masters and grows.
EXTENDS Kubeadm

CONSTANTS m1, m2, m3

MCMaster == {m1, m2, m3}
MCDeployed == <<m1, m2>>
====
