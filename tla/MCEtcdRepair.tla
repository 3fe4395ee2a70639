---- MODULE MCEtcdRepair ----
EXTENDS EtcdRepair

CONSTANTS e1, e2, e3, n1, n2

MCFounders == {e1, e2, e3}
MCHost == MCFounders \cup {n1}
MCHosts == MCFounders \cup {n1, n2}

\* etcd_member_name set for every host
MCNames == [h \in MCHosts |-> h]

\* the default, when the new host takes the place of the last one
MCPlaces == [h \in MCHosts |-> IF h = n1 THEN e3 ELSE h]

\* the address of the new host is a part of that of e1
MCPart == {<<n1, e1>>}
====
