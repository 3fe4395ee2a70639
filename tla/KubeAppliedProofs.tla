-------------------------- MODULE KubeAppliedProofs --------------------------
(***************************************************************************)
(* Proofs about what a completed run of KubeModule has applied: every object *)
(* of a manifest is there, and is as its manifest says.                      *)
(***************************************************************************)
EXTENDS KubeModuleProofs

(* A loop over a sequence: what is left of it, and the indexes that are done. *)

Before(rest, s) == 1 .. (Len(s) - Len(rest))
IsRest(rest, s) ==
  /\ Len(rest) <= Len(s)
  /\ \A i \in DOMAIN rest : rest[i] = s[Len(s) - Len(rest) + i]

LEMMA RestAll == ASSUME NEW S, NEW s \in Seq(S) PROVE IsRest(s, s) /\ Before(s, s) = {}
  BY DEF IsRest, Before

LEMMA RestNone == ASSUME NEW S, NEW s \in Seq(S) PROVE Before(<<>>, s) = DOMAIN s
  BY DEF Before

LEMMA BeforeIndexes ==
  ASSUME NEW S, NEW s \in Seq(S), NEW rest \in Seq(S), IsRest(rest, s)
  PROVE  Before(rest, s) \subseteq DOMAIN s
  <1>1. Len(rest) \in Nat /\ Len(s) \in Nat
    OBVIOUS
  <1>2. Before(rest, s) \subseteq 1 .. Len(s)
    BY <1>1 DEF Before
  <1>3. QED BY <1>2

\* One more element is done: the head of what was left.
LEMMA RestTail ==
  ASSUME NEW S, NEW s \in Seq(S), NEW rest \in Seq(S), rest # <<>>, IsRest(rest, s)
  PROVE  /\ IsRest(Tail(rest), s)
         /\ \E n \in DOMAIN s : /\ s[n] = Head(rest)
                                /\ Before(Tail(rest), s) = Before(rest, s) \cup {n}
  <1>1. /\ Len(rest) \in Nat \ {0} /\ Len(s) \in Nat /\ Len(rest) <= Len(s)
        /\ DOMAIN rest = 1 .. Len(rest) /\ DOMAIN s = 1 .. Len(s)
    BY DEF IsRest
  <1>2. Len(Tail(rest)) = Len(rest) - 1 /\ DOMAIN Tail(rest) = 1 .. (Len(rest) - 1)
    BY <1>1
  <1>3. \A i \in DOMAIN Tail(rest) : i + 1 \in DOMAIN rest /\ Tail(rest)[i] = rest[i + 1]
    BY HeadTail
  <1>4. IsRest(Tail(rest), s)
    <2>1. ASSUME NEW i \in DOMAIN Tail(rest)
          PROVE  Tail(rest)[i] = s[Len(s) - Len(Tail(rest)) + i]
      <3>1. Tail(rest)[i] = s[Len(s) - Len(rest) + (i + 1)]
        BY <1>3 DEF IsRest
      <3>2. Len(s) - Len(rest) + (i + 1) = Len(s) - Len(Tail(rest)) + i
        BY <1>1, <1>2
      <3>3. QED BY <3>1, <3>2
    <2>2. Len(Tail(rest)) <= Len(s)
      BY <1>1, <1>2
    <2>3. QED BY <2>1, <2>2 DEF IsRest
  <1>5. DEFINE n == Len(s) - Len(rest) + 1
  <1>6. n \in DOMAIN s
    BY <1>1
  <1>7. s[n] = Head(rest)
    BY HeadTail DEF IsRest
  <1>8. Before(Tail(rest), s) = Before(rest, s) \cup {n}
    BY <1>1, <1>2 DEF Before
  <1>9. QED BY <1>4, <1>6, <1>7, <1>8
-----------------------------------------------------------------------------
(* Where a run is, and what its steps do to the call.                        *)

InCall == pc \in {"exists", "execute"}
InItems == pc = "items" \/ (InCall /\ call.then = "items")
InApps == pc \in {"next_app", "render"} \/ InItems
DnsCall == InCall /\ call.then = "delete_service"
AfterDns == pc = "delete_service" \/ InApps \/ (InCall /\ call.then = "next_app")

LEMMA CallStarts ==
  ASSUME NEW state \in {"present", "absent", "latest"}, NEW objects \in Seq(Object),
         NEW then \in ThenTask, Call(state, objects, then)
  PROVE  /\ InCall' /\ call' \in CallType
         /\ call'.state = state /\ call'.then = then
         /\ call'.objects = objects /\ call'.left = objects /\ ~call'.error
         /\ InItems' <=> then = "items"
         /\ InApps' <=> then = "items"
         /\ AfterDns' <=> then \in {"items", "next_app"}
         /\ DnsCall' <=> then = "delete_service"
  <1>1. /\ call' \in CallType
        /\ call'.state = state /\ call'.then = then
        /\ call'.objects = objects /\ call'.left = objects /\ ~call'.error
        /\ pc' \in {"exists", "execute"}
    BY CallFacts
  <1>2. QED BY <1>1 DEF InCall, InItems, InApps, AfterDns, DnsCall

LEMMA CallEnds ==
  ASSUME CInv, InCall, Exit
  PROVE  /\ pc' = call.then /\ ~InCall' /\ ~DnsCall'
         /\ call.then \in {"delete_service", "next_app", "items"}
         /\ InItems' <=> call.then = "items"
         /\ InApps' <=> call.then \in {"next_app", "items"}
         /\ AfterDns'
         /\ todo' = IF call.then = "items" THEN Tail(todo) ELSE todo
  <1>1. pc' = call.then /\ call.then \in {"delete_service", "next_app", "items"}
    BY DEF Exit, InCall, CInv, Cleaning
  <1>2. QED BY <1>1 DEF Exit, InCall, InItems, InApps, AfterDns, DnsCall

\* kubectl does an object.
OtherVariables ==
  <<wanted, file, missed, api, app, todo, changed, retries, failed, completed, touched,
    aborts, outages, touches>>

LEMMA ObjectStep ==
  ASSUME TypeOK, ApplyObject \/ DeleteObject
  PROVE  /\ InCall /\ InCall' /\ pc = "execute" /\ pc' = "execute"
         /\ call.left \in Seq(Object) /\ call.left # <<>>
         /\ Head(call.left) \in Object /\ call'.left = Tail(call.left)
         /\ call'.state = call.state /\ call'.then = call.then /\ call'.objects = call.objects
         /\ UNCHANGED <<InItems, InApps, AfterDns, DnsCall>>
         /\ UNCHANGED OtherVariables
  <1>1. PICK done \in BOOLEAN : ObjectDone(done)
    BY DEF ApplyObject, DeleteObject, Exist, TypeOK
  <1>2. pc = "execute" /\ call.left # <<>>
    BY DEF ApplyObject, DeleteObject
  <1>3. call \in CallType
    BY TypeParts DEF CallsType
  <1>4. /\ call' = [call EXCEPT !.left = Tail(call.left), !.error = call.error \/ ~done]
        /\ pc' = pc
        /\ UNCHANGED OtherVariables
    BY <1>1 DEF ObjectDone, manifests, faults, OtherVariables
  <1>5. /\ call'.left = Tail(call.left)
        /\ call'.state = call.state /\ call'.then = call.then /\ call'.objects = call.objects
    BY <1>3, <1>4 DEF CallType
  <1>6. call.left \in Seq(Object) /\ Head(call.left) \in Object
    BY <1>2, <1>3, HeadTail DEF CallType
  <1>7. QED
    BY <1>2, <1>4, <1>5, <1>6 DEF InCall, InItems, InApps, AfterDns, DnsCall

\* An object is applied if the API server answers, else it is an error.
LEMMA ApplyStep ==
  ASSUME CInv, ApplyObject
  PROVE  /\ call.then = "items" /\ todo # <<>> /\ Head(todo) \in File
         /\ ~api => UNCHANGED live /\ call'.error
         /\ api => /\ live'[Head(call.left)] = Applied(Head(call.left), file[Head(todo)])
                   /\ \A o \in Object \ {Head(call.left)} : live'[o] = live[o]
                   /\ call'.error = call.error
  <1>1. /\ InCall /\ call.state # "absent" /\ call \in CallType
        /\ Head(call.left) \in Object
    BY ObjectStep, TypeParts DEF CInv, ApplyObject, CallsType
  <1>2. call.then = "items"
    BY <1>1 DEF CInv, Cleaning, InCall
  <1>3. todo # <<>> /\ Head(todo) \in File
    BY <1>1, <1>2, HeadTail DEF CInv, TypeOK, InCall
  <1>4. ~api => UNCHANGED live /\ call'.error
    BY <1>1 DEF ApplyObject, ObjectDone, CallType
  <1>5. api => call'.error = call.error
    BY <1>1 DEF ApplyObject, ObjectDone, CallType
  <1>6. api => live' = [live EXCEPT ![Head(call.left)] = Applied(Head(call.left), file[Head(todo)])]
    BY DEF ApplyObject
  <1>7. live \in [Object -> [by : Creator, version : Nat]]
    BY DEF CInv, TypeOK
  <1>8. QED BY <1>1, <1>2, <1>3, <1>4, <1>5, <1>6, <1>7

\* Only kubeadm's DNS is deleted, before the applications.
LEMMA DeleteStep ==
  ASSUME CInv, DeleteObject
  PROVE  /\ call.then \in {"delete_service", "next_app"}
         /\ ~InItems /\ ~InApps
         /\ ~api => UNCHANGED live /\ call'.error
         /\ api => /\ live'[Head(call.left)] = None
                   /\ \A o \in Object \ {Head(call.left)} : live'[o] = live[o]
  <1>1. /\ InCall /\ call.state = "absent" /\ call \in CallType
        /\ pc = "execute" /\ Head(call.left) \in Object
    BY ObjectStep, TypeParts DEF CInv, DeleteObject, CallsType
  <1>2. call.then \in {"delete_service", "next_app"}
    BY <1>1 DEF CInv, Cleaning, InCall
  <1>3. ~api => UNCHANGED live /\ call'.error
    BY <1>1 DEF DeleteObject, ObjectDone, CallType
  <1>4. api => live' = [live EXCEPT ![Head(call.left)] = None]
    BY DEF DeleteObject
  <1>5. live \in [Object -> [by : Creator, version : Nat]]
    BY DEF CInv, TypeOK
  <1>6. QED BY <1>1, <1>2, <1>3, <1>4, <1>5 DEF InItems, InApps

LEMMA RunEnds ==
  ASSUME NEW c, EndRun(c)
  PROVE  ~InCall' /\ ~InItems' /\ ~InApps' /\ ~AfterDns' /\ ~DnsCall'
  BY DEF EndRun, InCall, InItems, InApps, AfterDns, DnsCall

\* Others have no part in where a run is.
LEMMA SamePlace ==
  ASSUME UNCHANGED play
  PROVE  UNCHANGED <<pc, app, todo, changed, call, retries, failed>>
         /\ UNCHANGED <<InCall, InItems, InApps, AfterDns, DnsCall>>
  <1>1. UNCHANGED <<pc, app, todo, changed, call, retries, failed>>
    BY DEF play
  <1>2. QED BY <1>1 DEF InCall, InItems, InApps, AfterDns, DnsCall

\* The tasks that are no calls.
LEMMA AppTask ==
  ASSUME StartApp \/ Render \/ Rendered \/ SkipItem \/ EndOfLoop
  PROVE  /\ InApps /\ InApps' /\ AfterDns /\ ~InCall /\ ~InCall' /\ ~DnsCall'
         /\ InItems <=> pc = "items"
         /\ InItems' <=> pc' = "items"
         /\ UNCHANGED <<live, missed, api, wanted, failed, completed, touched, call,
                        aborts, outages, touches>>
  <1>1. /\ pc \in {"next_app", "render", "items"} /\ pc' \in {"next_app", "render", "items"}
        /\ UNCHANGED <<live, missed, api, wanted, failed, completed, touched, call,
                       aborts, outages, touches>>
    BY DEF StartApp, Render, Rendered, SkipItem, EndOfLoop, manifests, cluster, faults
  <1>2. QED BY <1>1 DEF InCall, InItems, InApps, AfterDns, DnsCall
-----------------------------------------------------------------------------
(* Who made the objects: what kubeadm made is merged only after a lookup that *)
(* failed, and its deployment is gone, or was missed, from its deletion on.   *)

DnsCleaned == live[Dns].by # "kubeadm" \/ Dns \in missed

OwnMade == \A o \in Object \ {Dns, DnsService} : live[o].by \in {"nobody", "kubespray"}
MergedMissed == \A o \in Object : live[o].by = "mixed" => o \in missed
DnsDeletion ==
  DnsCall =>
    /\ call.objects = <<Dns>>
    /\ call.left = <<Dns>> \/ (call.left = <<>> /\ (call.error \/ DnsCleaned))

Made == OwnMade /\ MergedMissed /\ (AfterDns => DnsCleaned) /\ DnsDeletion

LEMMA MadeInit == Init => Made
  <1> SUFFICES ASSUME Init PROVE Made
    OBVIOUS
  <1>1. PICK made \in SUBSET {Dns, DnsService} :
          live = [o \in Object |-> IF o \in made THEN ByKubeadm ELSE None]
    BY DEF Init
  <1>2. OwnMade /\ MergedMissed
    BY <1>1 DEF OwnMade, MergedMissed, ByKubeadm, None
  <1>3. ~AfterDns /\ ~DnsCall
    BY DEF Init, AfterDns, DnsCall, InApps, InItems, InCall
  <1>4. QED BY <1>2, <1>3 DEF Made, DnsDeletion

\* A step that leaves the objects alone.
LEMMA MadeFrame ==
  ASSUME Made, UNCHANGED <<live, missed>>,
         AfterDns' => DnsCleaned,
         DnsCall' => \/ call'.objects = <<Dns>> /\ call'.left = <<Dns>>
                     \/ DnsCall /\ UNCHANGED call
  PROVE  Made'
  <1>1. UNCHANGED <<OwnMade, MergedMissed, DnsCleaned>>
    BY DEF OwnMade, MergedMissed, DnsCleaned
  <1>2. DnsDeletion'
    BY <1>1 DEF Made, DnsDeletion
  <1>3. QED BY <1>1, <1>2 DEF Made

\* A lookup that ends: what it has missed is known.
LEMMA MadeExists == ASSUME CInv, Made, CheckExists PROVE Made'
  <1>1. /\ pc = "exists" /\ InCall /\ UNCHANGED live
        /\ missed \subseteq missed'
    BY DEF CheckExists, InCall
  <1>2. OwnMade' /\ MergedMissed' /\ (DnsCleaned => DnsCleaned')
    BY <1>1 DEF Made, OwnMade, MergedMissed, DnsCleaned
  <1>3. CASE exists(call.objects) = (call.state = "present")
    <2>1. /\ Exit /\ missed' = IF call.state = "absent" /\ ~api
                               THEN missed \cup {o \in {call.objects[i] : i \in DOMAIN call.objects} : Exist(o)}
                               ELSE missed
      BY <1>3 DEF CheckExists
    <2>2. /\ ~DnsCall' /\ call.then \in {"delete_service", "next_app", "items"}
      BY <1>1, <2>1, CallEnds
    <2>3. CASE call.then = "delete_service"
      <3>1. DnsCall /\ call.objects = <<Dns>> /\ call.state = "absent"
        BY <1>1, <2>3 DEF Made, DnsDeletion, DnsCall, CInv, Cleaning, InCall
      <3>2. 1 \in DOMAIN call.objects /\ call.objects[1] = Dns
        BY <3>1
      <3>3. api => ~Exist(Dns)
        BY <1>3, <3>1 DEF exists
      <3>4. ~api /\ Exist(Dns) => Dns \in missed'
        BY <2>1, <3>1, <3>2
      <3>5. DnsCleaned'
        BY <1>1, <3>3, <3>4 DEF DnsCleaned, Exist
      <3>6. QED BY <1>2, <2>2, <3>5 DEF Made, DnsDeletion
    <2>4. CASE call.then \in {"next_app", "items"}
      <3>1. AfterDns
        BY <1>1, <2>4 DEF AfterDns, InApps, InItems
      <3>2. QED BY <1>2, <2>2, <3>1 DEF Made, DnsDeletion
    <2>5. QED BY <2>2, <2>3, <2>4
  <1>4. CASE ~(exists(call.objects) = (call.state = "present"))
    <2>1. pc' = "execute" /\ UNCHANGED <<call, missed>>
      BY <1>4 DEF CheckExists
    <2>2. (AfterDns' => AfterDns) /\ (DnsCall' => DnsCall)
      BY <1>1, <2>1 DEF AfterDns, DnsCall, InApps, InItems, InCall
    <2>3. QED BY <1>1, <2>1, <2>2, MadeFrame DEF Made
  <1>5. QED BY <1>3, <1>4

LEMMA MadeObject == ASSUME CInv, Made, ApplyObject \/ DeleteObject PROVE Made'
  <1> USE KubeAssumption
  <1>1. /\ InCall /\ Head(call.left) \in Object /\ call.left # <<>>
        /\ UNCHANGED <<AfterDns, DnsCall, missed>>
        /\ call'.left = Tail(call.left) /\ call'.objects = call.objects
    BY ObjectStep DEF CInv, OtherVariables
  <1>2. DEFINE o == Head(call.left)
  <1>3. CASE UNCHANGED live /\ call'.error
    <2>1. UNCHANGED <<OwnMade, MergedMissed, DnsCleaned>>
      BY <1>1, <1>3 DEF OwnMade, MergedMissed, DnsCleaned
    <2>2. DnsDeletion'
      <3>1. SUFFICES ASSUME DnsCall PROVE call'.objects = <<Dns>> /\ call'.left = <<>>
        BY <1>1, <1>3 DEF DnsDeletion
      <3>2. call.left = <<Dns>>
        BY <1>1, <3>1 DEF Made, DnsDeletion
      <3>3. QED BY <1>1, <3>1, <3>2 DEF Made, DnsDeletion
    <2>3. QED BY <1>1, <2>1, <2>2 DEF Made
  <1>4. CASE ApplyObject /\ api
    <2>1. /\ call.then = "items" /\ live'[o] = Applied(o, file[Head(todo)])
          /\ \A p \in Object \ {o} : live'[p] = live[p]
      BY <1>4, ApplyStep
    <2>2. AfterDns /\ ~DnsCall
      BY <1>1, <2>1 DEF AfterDns, DnsCall, InApps, InItems
    <2>3. live[o].by = "kubeadm" => o \in missed
      <3>1. \A i \in DOMAIN call.left : call.left[i] # DnsService
        BY <1>1, <2>1 DEF CInv, Cleaning, InCall
      <3>2. o # DnsService
        BY <1>1, <3>1, ObjectStep, <1>4, HeadTail DEF CInv
      <3>3. QED BY <1>1, <2>2, <3>2 DEF Made, OwnMade, DnsCleaned
    <2>4. o \notin {Dns, DnsService} => live'[o].by = "kubespray"
      BY <1>1, <2>1 DEF Applied, Made, OwnMade
    <2>5. live'[o].by \in {"mixed", "kubespray"} /\ (live'[o].by = "mixed" => o \in missed)
      BY <1>1, <2>1, <2>3 DEF Applied, Made, MergedMissed
    <2>6. OwnMade'
      BY <1>1, <2>1, <2>4 DEF Made, OwnMade
    <2>7. MergedMissed'
      BY <1>1, <2>1, <2>5 DEF Made, MergedMissed
    <2>8. DnsCleaned'
      BY <1>1, <2>1, <2>2, <2>5 DEF Made, DnsCleaned
    <2>9. QED BY <1>1, <2>2, <2>6, <2>7, <2>8 DEF Made, DnsDeletion
  <1>5. CASE DeleteObject /\ api
    <2>1. live'[o].by = "nobody" /\ \A p \in Object \ {o} : live'[p] = live[p]
      BY <1>5, DeleteStep DEF None
    <2>2. OwnMade'
      BY <1>1, <2>1 DEF Made, OwnMade
    <2>3. MergedMissed'
      BY <1>1, <2>1 DEF Made, MergedMissed
    <2>4. DnsCleaned => DnsCleaned'
      BY <1>1, <2>1 DEF DnsCleaned
    <2>5. DnsDeletion'
      <3>1. SUFFICES ASSUME DnsCall PROVE call'.objects = <<Dns>> /\ call'.left = <<>> /\ DnsCleaned'
        BY <1>1 DEF DnsDeletion
      <3>2. call.objects = <<Dns>> /\ call.left = <<Dns>>
        BY <1>1, <3>1 DEF Made, DnsDeletion
      <3>3. o = Dns /\ call'.left = <<>>
        BY <1>1, <3>2
      <3>4. DnsCleaned'
        BY <2>1, <3>3 DEF DnsCleaned
      <3>5. QED BY <1>1, <3>2, <3>3, <3>4
    <2>6. QED BY <1>1, <2>2, <2>3, <2>4, <2>5 DEF Made
  <1>6. QED BY <1>3, <1>4, <1>5, ApplyStep, DeleteStep DEF CInv, TypeOK

\* The other steps of the module.
LEMMA MadeModule == ASSUME CInv, Made, Module PROVE Made'
  <1>1. CASE CheckExists
    BY <1>1, MadeExists
  <1>2. CASE ApplyObject \/ DeleteObject
    BY <1>2, MadeObject
  <1>3. CASE Executed \/ ItemFails
    <2>1. /\ InCall /\ Exit /\ UNCHANGED <<live, missed>>
          /\ pc = "execute" /\ call.left = <<>>
          /\ ~call.error \/ call.then = "items"
      BY <1>3 DEF Executed, ItemFails, InCall, cluster
    <2>2. ~DnsCall' /\ call.then \in {"delete_service", "next_app", "items"}
      BY <2>1, CallEnds
    <2>3. call.then = "delete_service" => DnsCleaned
      BY <2>1 DEF Made, DnsDeletion, DnsCall
    <2>4. call.then \in {"next_app", "items"} => DnsCleaned
      BY <2>1 DEF Made, AfterDns, InApps, InItems
    <2>5. QED BY <2>1, <2>2, <2>3, <2>4, MadeFrame
  <1>4. CASE Retry
    <2>1. /\ InCall /\ Call(call.state, call.objects, call.then) /\ UNCHANGED <<live, missed>>
      BY <1>4 DEF Retry, InCall, cluster
    <2>2. call.then \in {"delete_service", "next_app", "items"}
      BY <2>1 DEF InCall, CInv, Cleaning
    <2>3. /\ call.state \in {"present", "absent", "latest"} /\ call.objects \in Seq(Object)
          /\ call.then \in ThenTask
      BY <2>1 DEF InCall, CInv, TypeOK, ThenTask
    <2>4. /\ AfterDns' <=> call.then \in {"items", "next_app"}
          /\ DnsCall' <=> call.then = "delete_service"
          /\ call'.objects = call.objects /\ call'.left = call.objects
      BY <2>1, <2>3, CallStarts
    <2>5. AfterDns' => DnsCleaned
      BY <2>1, <2>4 DEF Made, AfterDns, InApps, InItems
    <2>6. DnsCall' => call.objects = <<Dns>>
      BY <2>1, <2>4 DEF Made, DnsDeletion, DnsCall
    <2>7. QED BY <2>1, <2>4, <2>5, <2>6, MadeFrame
  <1>5. CASE TaskFails
    BY <1>5, RunEnds, MadeFrame DEF TaskFails, cluster
  <1>6. QED BY <1>1, <1>2, <1>3, <1>4, <1>5 DEF Module

LEMMA MadePlay == ASSUME CInv, Made, Play PROVE Made'
  <1>1. <<Dns>> \in Seq(Object) /\ <<DnsService>> \in Seq(Object)
    BY KubeAssumption
  <1>2. CASE ReadAnnotation
    <2>1. pc = "annotation" /\ UNCHANGED <<live, missed>>
      BY <1>2 DEF ReadAnnotation, cluster
    <2>2. CASE /\ live[Dns].by \in {"kubespray", "mixed"}
               /\ pc' = "delete_service" /\ UNCHANGED call
      BY <2>1, <2>2, MadeFrame DEF DnsCleaned, DnsCall, InCall
    <2>3. CASE Call("absent", <<Dns>>, "delete_service")
      <3>1. ~AfterDns' /\ call'.objects = <<Dns>> /\ call'.left = <<Dns>>
        BY <1>1, <2>3, CallStarts DEF ThenTask
      <3>2. QED BY <2>1, <3>1, MadeFrame
    <2>4. QED BY <1>2, <2>2, <2>3 DEF ReadAnnotation
  <1>3. CASE DeleteService
    <2>1. AfterDns /\ UNCHANGED <<live, missed>> /\ Call("absent", <<DnsService>>, "next_app")
      BY <1>3 DEF DeleteService, cluster, AfterDns
    <2>2. ~DnsCall'
      BY <1>1, <2>1, CallStarts DEF ThenTask
    <2>3. QED BY <2>1, <2>2, MadeFrame DEF Made
  <1>4. CASE StartApp \/ Render \/ Rendered \/ SkipItem \/ EndOfLoop
    BY <1>4, AppTask, MadeFrame DEF Made
  <1>5. CASE NextItem
    <2>1. /\ AfterDns /\ UNCHANGED <<live, missed>> /\ todo # <<>>
          /\ State(Head(todo)) \in {"present", "latest"}
          /\ Call(State(Head(todo)), Objects[Head(todo)], "items")
      BY <1>5 DEF NextItem, State, cluster, AfterDns, InApps, InItems
    <2>2. Objects[Head(todo)] \in Seq(Object)
      BY <2>1, HeadTail, ObjectsType DEF CInv, TypeOK
    <2>3. ~DnsCall'
      BY <2>1, <2>2, CallStarts DEF ThenTask
    <2>4. QED BY <2>1, <2>3, MadeFrame DEF Made
  <1>6. CASE LoopFails \/ RunCompletes
    BY <1>6, RunEnds, MadeFrame DEF LoopFails, RunCompletes, cluster
  <1>7. QED BY <1>2, <1>3, <1>4, <1>5, <1>6 DEF Play

LEMMA MadeOther ==
  ASSUME CInv, Made,
         \/ StartRun \/ Interrupt \/ KubeadmDeploys \/ ApiUnreachable \/ ApiReturns
         \/ (\E f \in File : Reconfigure(f)) \/ (\E o \in Object : OthersDelete(o))
  PROVE  Made'
  <1>1. CASE StartRun
    <2>1. /\ pc' = "annotation" /\ UNCHANGED live
          /\ missed' = {o \in missed : live[o].by = "mixed"}
      BY <1>1 DEF StartRun
    <2>2. ~AfterDns' /\ ~DnsCall'
      BY <2>1 DEF AfterDns, DnsCall, InApps, InItems, InCall
    <2>3. OwnMade' /\ MergedMissed'
      BY <2>1 DEF Made, OwnMade, MergedMissed
    <2>4. QED BY <2>2, <2>3 DEF Made, DnsDeletion
  <1>2. CASE Interrupt
    BY <1>2, RunEnds, MadeFrame DEF Interrupt, cluster
  <1>3. CASE KubeadmDeploys
    <2>1. /\ pc = "idle" /\ pc' = pc /\ missed' = missed \ {Dns, DnsService}
          /\ \A o \in Object : live'[o] = IF o \in {Dns, DnsService} THEN ByKubeadm ELSE live[o]
      BY <1>3 DEF KubeadmDeploys, play
    <2>2. ~AfterDns' /\ ~DnsCall'
      BY <2>1 DEF AfterDns, DnsCall, InApps, InItems, InCall
    <2>3. OwnMade' /\ MergedMissed'
      BY <2>1 DEF Made, OwnMade, MergedMissed, ByKubeadm
    <2>4. QED BY <2>2, <2>3 DEF Made, DnsDeletion
  <1>4. CASE ApiUnreachable \/ ApiReturns
    BY <1>4, SamePlace, MadeFrame DEF ApiUnreachable, ApiReturns, Made
  <1>5. ASSUME NEW f \in File, Reconfigure(f) PROVE Made'
    BY <1>5, SamePlace, MadeFrame DEF Reconfigure, cluster, Made
  <1>6. ASSUME NEW o \in Object, OthersDelete(o) PROVE Made'
    <2>1. UNCHANGED <<AfterDns, DnsCall, call>>
      BY <1>6, SamePlace DEF OthersDelete
    <2>2. /\ live'[o].by = "nobody" /\ missed' = missed \ {o}
          /\ \A p \in Object \ {o} : live'[p] = live[p]
      BY <1>6 DEF OthersDelete, None, CInv, TypeOK
    <2>3. OwnMade'
      BY <2>2 DEF Made, OwnMade
    <2>4. MergedMissed'
      BY <2>2 DEF Made, MergedMissed
    <2>5. DnsCleaned => DnsCleaned'
      BY <2>2, KubeAssumption DEF DnsCleaned
    <2>6. QED BY <2>1, <2>3, <2>4, <2>5 DEF Made, DnsDeletion
  <1>7. QED BY <1>1, <1>2, <1>3, <1>4, <1>5, <1>6
-----------------------------------------------------------------------------
(* The loops of an application: what they have done, and what is rendered.    *)

AppFiles == Apps[app].files
InLoop == pc = "render" \/ InItems
Fresh(f) == file[f] = wanted[f]

Order == (~InApps => app = 1) /\ (failed => InItems)
LoopRest ==
  InLoop => /\ IsRest(todo, AppFiles)
            /\ \A f \in changed : \E j \in DOMAIN AppFiles : AppFiles[j] = f
FilesRendered ==
  /\ pc = "render" => \A j \in Before(todo, AppFiles) : Fresh(AppFiles[j])
  /\ InItems => \A j \in DOMAIN AppFiles : Fresh(AppFiles[j])
Versions == \A f \in File : file[f] <= wanted[f]
TouchesCounted == touched # {} => touches # 0

Loops == Order /\ LoopRest /\ FilesRendered /\ Versions /\ TouchesCounted

LEMMA AppFilesType == ASSUME TypeOK, InLoop PROVE AppFiles \in Seq(File)
  <1>1. app \in Nat \ {0} /\ app <= Len(Apps)
    BY DEF TypeOK, InLoop, InItems, InCall
  <1>2. QED BY <1>1, AppFacts DEF AppFiles

LEMMA LoopsInit == Init => Loops
  BY DEF Init, Loops, Order, LoopRest, FilesRendered, Versions, TouchesCounted,
         InLoop, InItems, InApps, InCall

\* A step of the loop over the files, or of something that is none of a loop's.
LEMMA LoopsFrame ==
  ASSUME TypeOK, Loops, UNCHANGED <<wanted, file, app, changed>>,
         InApps => InApps', InItems <=> InItems', pc = "render" <=> pc' = "render",
         failed' => failed \/ InItems',
         touched' # {} => touches' # 0,
         todo' = todo \/ (InItems /\ todo # <<>> /\ todo' = Tail(todo))
  PROVE  Loops'
  <1>1. Order' /\ Versions' /\ TouchesCounted' /\ AppFiles' = AppFiles
    BY DEF Loops, Order, Versions, TouchesCounted, AppFiles
  <1>2. LoopRest'
    <2>1. SUFFICES ASSUME InLoop' PROVE IsRest(todo', AppFiles)
      BY <1>1 DEF Loops, LoopRest, InLoop
    <2>2. InLoop /\ AppFiles \in Seq(File) /\ todo \in Seq(File) /\ IsRest(todo, AppFiles)
      BY <2>1, AppFilesType DEF InLoop, Loops, LoopRest, TypeOK
    <2>3. CASE todo' = todo
      BY <2>2, <2>3
    <2>4. CASE todo # <<>> /\ todo' = Tail(todo)
      BY <2>2, <2>4, RestTail
    <2>5. QED BY <2>3, <2>4
  <1>3. FilesRendered'
    <2>1. pc = "render" => todo' = todo
      BY DEF InItems, InCall
    <2>2. QED BY <1>1, <2>1 DEF Loops, FilesRendered, Fresh
  <1>4. QED BY <1>1, <1>2, <1>3 DEF Loops

LEMMA LoopsEnd ==
  ASSUME Loops, NEW c, EndRun(c), UNCHANGED <<wanted, file, touched, touches>>
  PROVE  Loops'
  <1>1. /\ ~InApps' /\ ~InItems' /\ pc' # "render"
        /\ app' = 1 /\ ~failed'
    BY RunEnds DEF EndRun
  <1>2. Order' /\ LoopRest' /\ FilesRendered'
    BY <1>1 DEF Order, LoopRest, FilesRendered, InLoop
  <1>3. Versions' /\ TouchesCounted'
    BY DEF Loops, Versions, TouchesCounted
  <1>4. QED BY <1>2, <1>3 DEF Loops

\* The end of a call, in whichever way.
LEMMA CallEndsLoops ==
  ASSUME CInv, InCall, Exit
  PROVE  /\ InApps => InApps'
         /\ InItems <=> InItems'
         /\ pc # "render" /\ pc' # "render"
         /\ todo' = todo \/ (InItems /\ todo # <<>> /\ todo' = Tail(todo))
  <1>1. /\ pc' = call.then /\ call.then \in {"delete_service", "next_app", "items"}
        /\ InItems' <=> call.then = "items"
        /\ InApps' <=> call.then \in {"next_app", "items"}
        /\ todo' = IF call.then = "items" THEN Tail(todo) ELSE todo
    BY CallEnds
  <1>2. InItems <=> call.then = "items"
    BY DEF InItems, InCall
  <1>3. call.then = "items" => todo # <<>>
    BY DEF CInv, TypeOK, InCall
  <1>4. InApps => call.then = "items"
    BY <1>2 DEF InApps, InCall
  <1>5. pc # "render"
    BY DEF InCall
  <1>6. QED BY <1>1, <1>2, <1>3, <1>4, <1>5

LEMMA LoopsModule == ASSUME CInv, Loops, Module PROVE Loops'
  <1>1. TypeOK /\ TouchesCounted
    BY DEF CInv, Loops
  <1>2. CASE CheckExists
    <2>1. /\ UNCHANGED <<wanted, file, app, changed, failed, touched, touches>>
          /\ InCall /\ pc = "exists"
      BY <1>2 DEF CheckExists, manifests, faults, InCall
    <2>2. CASE Exit
      BY <1>1, <2>1, <2>2, CallEndsLoops, LoopsFrame DEF TouchesCounted
    <2>3. CASE pc' = "execute" /\ UNCHANGED <<call, todo>>
      <3>1. UNCHANGED <<InItems, InApps>>
        BY <2>1, <2>3 DEF InItems, InApps, InCall
      <3>2. QED BY <1>1, <2>1, <2>3, <3>1, LoopsFrame DEF TouchesCounted
    <2>4. QED BY <1>2, <2>2, <2>3 DEF CheckExists
  <1>3. CASE ApplyObject \/ DeleteObject
    <2>1. /\ UNCHANGED <<wanted, file, app, changed, failed, touched, touches, todo>>
          /\ UNCHANGED <<InItems, InApps>> /\ pc = "execute" /\ pc' = "execute"
      BY <1>1, <1>3, ObjectStep DEF OtherVariables
    <2>2. QED BY <1>1, <2>1, LoopsFrame DEF TouchesCounted
  <1>4. CASE Executed \/ ItemFails
    <2>1. /\ UNCHANGED <<wanted, file, app, changed, touched, touches>>
          /\ InCall /\ Exit /\ (failed' => failed \/ call.then = "items")
      BY <1>4 DEF Executed, ItemFails, manifests, faults, InCall
    <2>2. call.then = "items" => InItems
      BY <2>1 DEF InItems
    <2>3. QED BY <1>1, <2>1, <2>2, CallEndsLoops, LoopsFrame DEF TouchesCounted
  <1>5. CASE Retry
    <2>1. /\ UNCHANGED <<wanted, file, app, changed, failed, touched, touches, todo>>
          /\ InCall /\ Call(call.state, call.objects, call.then)
      BY <1>5 DEF Retry, manifests, faults, InCall
    <2>2. /\ call.state \in {"present", "absent", "latest"} /\ call.objects \in Seq(Object)
          /\ call.then \in ThenTask
      BY <2>1 DEF InCall, CInv, TypeOK, ThenTask
    <2>3. /\ InItems' <=> call.then = "items"
          /\ InApps' <=> call.then = "items"
          /\ InCall'
      BY <2>1, <2>2, CallStarts
    <2>4. /\ InItems <=> call.then = "items"
          /\ InApps <=> call.then = "items"
          /\ pc # "render" /\ pc' # "render"
      BY <2>1, <2>3 DEF InItems, InApps, InCall
    <2>5. QED BY <1>1, <2>1, <2>3, <2>4, LoopsFrame DEF TouchesCounted
  <1>6. CASE TaskFails
    BY <1>6, LoopsEnd DEF TaskFails, manifests, faults
  <1>7. QED BY <1>2, <1>3, <1>4, <1>5, <1>6 DEF Module

LEMMA LoopsTask ==
  ASSUME CInv, Loops, StartApp \/ Render \/ Rendered \/ SkipItem \/ EndOfLoop
  PROVE  Loops'
  <1>1. TypeOK /\ TouchesCounted'
    BY AppTask DEF CInv, Loops, TouchesCounted
  <1>2. /\ InApps /\ InApps' /\ (InItems <=> pc = "items") /\ (InItems' <=> pc' = "items")
        /\ UNCHANGED <<wanted, failed, touched, touches>>
    BY AppTask
  <1>3. CASE StartApp
    <2>1. /\ pc = "next_app" /\ pc' = "render" /\ app <= Len(Apps)
          /\ todo' = AppFiles /\ changed' = {} /\ UNCHANGED <<app, file>>
      BY <1>3 DEF StartApp, manifests, AppFiles
    <2>2. AppFiles \in Seq(File) /\ AppFiles' = AppFiles
      BY <1>1, <2>1, AppFacts DEF AppFiles, TypeOK
    <2>3. IsRest(todo', AppFiles) /\ Before(todo', AppFiles) = {}
      BY <2>1, <2>2, RestAll
    <2>4. Order' /\ Versions'
      BY <1>2, <2>1 DEF Loops, Order, Versions
    <2>5. LoopRest' /\ FilesRendered'
      BY <1>2, <2>1, <2>2, <2>3 DEF LoopRest, FilesRendered
    <2>6. QED BY <1>1, <2>4, <2>5 DEF Loops
  <1>4. CASE Render
    <2>1. /\ pc = "render" /\ pc' = "render" /\ todo # <<>> /\ todo' = Tail(todo)
          /\ file' = [file EXCEPT ![Head(todo)] = wanted[Head(todo)]]
          /\ changed' \subseteq changed \cup {Head(todo)}
          /\ UNCHANGED app
      BY <1>4 DEF Render
    <2>2. /\ AppFiles \in Seq(File) /\ AppFiles' = AppFiles
          /\ todo \in Seq(File) /\ IsRest(todo, AppFiles) /\ Head(todo) \in File
      BY <1>1, <2>1, AppFilesType, HeadTail DEF AppFiles, InLoop, Loops, LoopRest, TypeOK
    <2>3. IsRest(todo', AppFiles)
      BY <2>1, <2>2, RestTail
    <2>4. PICK n \in DOMAIN AppFiles :
            AppFiles[n] = Head(todo) /\ Before(todo', AppFiles) = Before(todo, AppFiles) \cup {n}
      BY <2>1, <2>2, RestTail
    <2>5. \A f \in File : f = Head(todo) \/ Fresh(f) => Fresh(f)'
      BY <1>1, <1>2, <2>1, <2>2 DEF Fresh, TypeOK
    <2>6. Order'
      BY <1>2, <2>1 DEF Loops, Order
    <2>7. Versions'
      <3>1. ASSUME NEW f \in File PROVE file'[f] <= wanted[f]
        <4>1. file[f] <= wanted[f] /\ file \in [File -> Nat] /\ wanted[f] \in Nat
          BY <1>1 DEF Loops, Versions, TypeOK
        <4>2. file'[f] = file[f] \/ file'[f] = wanted[f]
          BY <2>1, <4>1
        <4>3. QED BY <4>1, <4>2
      <3>2. QED BY <1>2, <3>1 DEF Versions
    <2>8. LoopRest'
      BY <2>1, <2>2, <2>3, <2>4 DEF LoopRest, Loops, InLoop
    <2>9. FilesRendered'
      <3>1. Before(todo, AppFiles) \subseteq DOMAIN AppFiles
        BY <2>2, BeforeIndexes
      <3>2. ASSUME NEW j \in Before(todo', AppFiles) PROVE Fresh(AppFiles[j])'
        <4>1. AppFiles[j] \in File
          BY <2>2, <2>4, <3>1, <3>2, ElementType
        <4>2. AppFiles[j] = Head(todo) \/ Fresh(AppFiles[j])
          BY <2>1, <2>4, <3>2 DEF Loops, FilesRendered
        <4>3. file'[AppFiles[j]] = wanted'[AppFiles[j]]
          BY <2>5, <4>1, <4>2 DEF Fresh
        <4>4. QED BY <2>2, <4>3 DEF Fresh
      <3>3. QED BY <1>2, <2>1, <2>2, <3>2 DEF FilesRendered, Fresh
    <2>10. QED BY <1>1, <2>6, <2>7, <2>8, <2>9 DEF Loops
  <1>5. CASE Rendered
    <2>1. /\ pc = "render" /\ pc' = "items" /\ todo = <<>> /\ todo' = AppFiles
          /\ UNCHANGED <<app, changed, file>>
      BY <1>5 DEF Rendered, manifests, AppFiles
    <2>2. AppFiles \in Seq(File) /\ AppFiles' = AppFiles
      BY <1>1, <2>1, AppFilesType DEF AppFiles, InLoop
    <2>3. IsRest(todo', AppFiles) /\ Before(todo, AppFiles) = DOMAIN AppFiles
      BY <2>1, <2>2, RestAll, RestNone
    <2>4. Order' /\ Versions'
      BY <1>2, <2>1 DEF Loops, Order, Versions
    <2>5. LoopRest'
      BY <2>1, <2>2, <2>3 DEF LoopRest, Loops, InLoop
    <2>6. FilesRendered'
      BY <1>2, <2>1, <2>2, <2>3 DEF FilesRendered, Loops, Fresh
    <2>7. QED BY <1>1, <2>4, <2>5, <2>6 DEF Loops
  <1>6. CASE SkipItem
    <2>1. /\ pc = "items" /\ pc' = pc /\ todo # <<>> /\ todo' = Tail(todo)
          /\ UNCHANGED <<app, changed, file>>
      BY <1>6 DEF SkipItem, manifests
    <2>2. QED BY <1>1, <1>2, <2>1, LoopsFrame DEF TouchesCounted
  <1>7. CASE EndOfLoop
    <2>1. pc' = "next_app" /\ ~failed /\ UNCHANGED file
      BY <1>7 DEF EndOfLoop, manifests
    <2>2. Order' /\ LoopRest' /\ FilesRendered'
      BY <1>2, <2>1 DEF Order, LoopRest, FilesRendered, InLoop
    <2>3. Versions'
      BY <1>2, <2>1 DEF Loops, Versions
    <2>4. QED BY <1>1, <2>2, <2>3 DEF Loops
  <1>8. QED BY <1>3, <1>4, <1>5, <1>6, <1>7

\* A call for the head of the loop begins.
LEMMA ItemStarts ==
  ASSUME TypeOK, NextItem
  PROVE  /\ InItems /\ InApps /\ InCall' /\ InItems' /\ InApps'
         /\ pc # "render" /\ pc' # "render"
         /\ todo # <<>> /\ Head(todo) \in File
         /\ State(Head(todo)) \in {"present", "latest"}
         /\ call' \in CallType
         /\ call'.state = State(Head(todo)) /\ call'.objects = Objects[Head(todo)]
         /\ call'.left = Objects[Head(todo)] /\ ~call'.error /\ call'.then = "items"
         /\ pc' = "exists" => State(Head(todo)) = "present"
         /\ UNCHANGED <<wanted, file, live, missed, api, app, todo, changed, failed,
                        completed, touched, aborts, outages, touches>>
  <1>1. /\ pc = "items" /\ todo # <<>>
        /\ State(Head(todo)) \in {"present", "latest"}
        /\ Call(State(Head(todo)), Objects[Head(todo)], "items")
        /\ UNCHANGED <<wanted, file, live, missed, api, app, todo, changed, failed,
                       completed, touched, aborts, outages, touches>>
    BY DEF NextItem, State, manifests, cluster, faults
  <1>2. Head(todo) \in File /\ Objects[Head(todo)] \in Seq(Object)
    BY <1>1, HeadTail, ObjectsType DEF TypeOK
  <1>3. /\ InCall' /\ InItems' /\ InApps' /\ call' \in CallType
        /\ call'.state = State(Head(todo)) /\ call'.objects = Objects[Head(todo)]
        /\ call'.left = Objects[Head(todo)] /\ ~call'.error /\ call'.then = "items"
    BY <1>1, <1>2, CallStarts DEF ThenTask
  <1>4. pc' = "exists" => State(Head(todo)) = "present"
    BY <1>1 DEF Call
  <1>5. InItems /\ InApps /\ pc # "render" /\ pc' # "render"
    BY <1>1, <1>3 DEF InItems, InApps, InCall
  <1>6. QED BY <1>1, <1>2, <1>3, <1>4, <1>5

\* The deletion of kubeadm's DNS is before the applications.
LEMMA DnsTask ==
  ASSUME ReadAnnotation \/ DeleteService
  PROVE  /\ ~InApps /\ ~InItems /\ ~InApps' /\ ~InItems' /\ pc # "render" /\ pc' # "render"
         /\ UNCHANGED <<wanted, file, live, missed, api, app, todo, changed, failed,
                        completed, touched, aborts, outages, touches>>
  <1>1. UNCHANGED <<wanted, file, live, missed, api, app, todo, changed, failed,
                    completed, touched, aborts, outages, touches>>
    BY DEF ReadAnnotation, DeleteService, manifests, cluster, faults
  <1>2. pc \in {"annotation", "delete_service"}
    BY DEF ReadAnnotation, DeleteService
  <1>3. \/ pc' = "delete_service"
        \/ Call("absent", <<Dns>>, "delete_service")
        \/ Call("absent", <<DnsService>>, "next_app")
    BY DEF ReadAnnotation, DeleteService
  <1>4. ~InApps' /\ pc' # "render"
    <2>1. <<Dns>> \in Seq(Object) /\ <<DnsService>> \in Seq(Object)
      BY KubeAssumption
    <2>2. QED BY <1>3, <2>1, CallStarts DEF ThenTask, InApps, InItems, InCall
  <1>5. ~InItems'
    BY <1>4 DEF InApps
  <1>6. QED BY <1>1, <1>2, <1>4, <1>5 DEF InApps, InItems, InCall

LEMMA LoopsPlay == ASSUME CInv, Loops, Play PROVE Loops'
  <1>1. TypeOK /\ TouchesCounted
    BY DEF CInv, Loops
  <1>2. CASE ReadAnnotation \/ DeleteService
    BY <1>1, <1>2, DnsTask, LoopsFrame DEF TouchesCounted
  <1>3. CASE StartApp \/ Render \/ Rendered \/ SkipItem \/ EndOfLoop
    BY <1>3, LoopsTask
  <1>4. CASE NextItem
    BY <1>1, <1>4, ItemStarts, LoopsFrame DEF TouchesCounted
  <1>5. CASE LoopFails \/ RunCompletes
    BY <1>5, LoopsEnd DEF LoopFails, RunCompletes, manifests, faults
  <1>6. QED BY <1>2, <1>3, <1>4, <1>5 DEF Play

LEMMA LoopsOther ==
  ASSUME CInv, Loops,
         \/ StartRun \/ Interrupt \/ KubeadmDeploys \/ ApiUnreachable \/ ApiReturns
         \/ (\E f \in File : Reconfigure(f)) \/ (\E o \in Object : OthersDelete(o))
  PROVE  Loops'
  <1>1. TypeOK /\ TouchesCounted /\ touches \in Nat
    BY DEF CInv, Loops, TypeOK
  <1>2. CASE StartRun
    <2>1. /\ UNCHANGED <<wanted, file, app, changed, todo, failed>> /\ touched' = {}
          /\ pc = "idle" /\ pc' = "annotation"
      BY <1>2 DEF StartRun, manifests
    <2>2. ~InApps /\ ~InItems /\ ~InItems'
      BY <2>1 DEF InApps, InItems, InCall
    <2>3. QED BY <1>1, <2>1, <2>2, LoopsFrame
  <1>3. CASE Interrupt
    BY <1>3, LoopsEnd DEF Interrupt, manifests
  <1>4. ASSUME UNCHANGED <<wanted, file, play>>, touched' # {} => touches' # 0
        PROVE  Loops'
    BY <1>1, <1>4, SamePlace, LoopsFrame
  <1>5. CASE KubeadmDeploys \/ ApiUnreachable \/ ApiReturns
    BY <1>1, <1>4, <1>5 DEF KubeadmDeploys, ApiUnreachable, ApiReturns, manifests, faults,
                            TouchesCounted
  <1>6. ASSUME NEW f \in File, Reconfigure(f) PROVE Loops'
    <2>1. /\ pc = "idle" /\ wanted' = [wanted EXCEPT ![f] = @ + 1]
          /\ UNCHANGED <<file, play, touched, touches>>
      BY <1>6 DEF Reconfigure, faults
    <2>2. ~InItems' /\ ~InLoop' /\ UNCHANGED Order /\ pc' # "render"
      BY <2>1, SamePlace DEF Order, InLoop, InItems, InCall, play
    <2>3. Versions'
      BY <1>1, <2>1 DEF Loops, Versions, TypeOK
    <2>4. TouchesCounted'
      BY <1>1, <2>1 DEF TouchesCounted
    <2>5. QED BY <2>2, <2>3, <2>4 DEF Loops, LoopRest, FilesRendered
  <1>7. ASSUME NEW o \in Object, OthersDelete(o) PROVE Loops'
    BY <1>1, <1>4, <1>7 DEF OthersDelete, manifests
  <1>8. QED BY <1>2, <1>3, <1>5, <1>6, <1>7
-----------------------------------------------------------------------------
(* The call for a file: the objects that are done are as the file says, but   *)
(* for what was deleted since, or the call fails.                             *)

\* An object of f is as the manifest says.
Current(f, o) == live[o].version = wanted[f] /\ live[o].by \in {"kubespray", "mixed"}

DoneObject(o) ==
  \/ call.error
  \/ Current(Head(todo), o)
  \/ o \in touched /\ ~Exist(o)

ItemCall ==
  InCall /\ call.then = "items" =>
    /\ call.state = State(Head(todo))
    /\ call.objects = Objects[Head(todo)]
    /\ IsRest(call.left, call.objects)
    /\ \A j \in Before(call.left, call.objects) : DoneObject(call.objects[j])
    /\ pc = "exists" => call.state # "latest" /\ call.left = call.objects /\ ~call.error

LEMMA ItemCallInit == Init => ItemCall
  BY DEF Init, ItemCall, InCall

\* Where no call of an item is under way there is nothing to show.
LEMMA NoItemCall == ASSUME ~InCall' \/ call'.then # "items" PROVE ItemCall'
  BY DEF ItemCall

\* Others may only delete what is done, or make it something they have touched.
LEMMA ItemCallFrame ==
  ASSUME TypeOK, ItemCall, UNCHANGED <<call, app, todo, changed, wanted>>,
         InCall' => InCall, pc' = "exists" => pc = "exists",
         touched \subseteq touched',
         \A o \in Object : live'[o] = live[o] \/ (o \in touched' /\ ~Exist(o)')
  PROVE  ItemCall'
  <1>1. SUFFICES ASSUME InCall', call'.then = "items" PROVE ItemCall'
    BY DEF ItemCall
  <1>2. /\ InCall /\ call.then = "items" /\ call \in CallType
        /\ todo # <<>> /\ Head(todo) \in File
    BY <1>1, TypeParts, HeadTail DEF CallsType, TaskType, InCall
  <1>3. State(Head(todo))' = State(Head(todo))
    BY DEF State
  <1>4. ASSUME NEW j \in Before(call.left, call.objects)
        PROVE  DoneObject(call.objects[j])'
    <2>1. call.objects[j] \in Object
      <3>1. call.objects \in Seq(Object) /\ call.left \in Seq(Object) /\ IsRest(call.left, call.objects)
        BY <1>2 DEF CallType, ItemCall
      <3>2. j \in DOMAIN call.objects
        BY <3>1, BeforeIndexes
      <3>3. QED BY <3>1, <3>2
    <2>2. DoneObject(call.objects[j])
      BY <1>2, <1>4 DEF ItemCall
    <2>3. CASE live'[call.objects[j]] = live[call.objects[j]]
      BY <2>2, <2>3 DEF DoneObject, Current, Exist
    <2>4. CASE call.objects[j] \in touched' /\ ~Exist(call.objects[j])'
      BY <2>4 DEF DoneObject
    <2>5. QED BY <2>1, <2>3, <2>4
  <1>5. QED BY <1>2, <1>3, <1>4 DEF ItemCall

\* The head of the loop is a file of the application, and it is rendered.
LEMMA HeadFresh ==
  ASSUME TypeOK, Loops, InItems, todo # <<>>
  PROVE  /\ Head(todo) \in File /\ Fresh(Head(todo)) /\ AppFiles \in Seq(File)
         /\ \E n \in DOMAIN AppFiles :
              /\ AppFiles[n] = Head(todo)
              /\ Before(Tail(todo), AppFiles) = Before(todo, AppFiles) \cup {n}
  <1>1. AppFiles \in Seq(File) /\ todo \in Seq(File) /\ IsRest(todo, AppFiles)
    BY AppFilesType DEF InLoop, Loops, LoopRest, TypeOK
  <1>2. PICK n \in DOMAIN AppFiles :
          AppFiles[n] = Head(todo) /\ Before(Tail(todo), AppFiles) = Before(todo, AppFiles) \cup {n}
    BY <1>1, RestTail
  <1>3. Fresh(Head(todo))
    BY <1>2 DEF Loops, FilesRendered
  <1>4. Head(todo) \in File
    BY <1>1, HeadTail
  <1>5. QED BY <1>1, <1>2, <1>3, <1>4

\* A call for the head of the loop begins, or begins again.
LEMMA ItemCallStarts ==
  ASSUME NEW state, NEW objects \in Seq(Object), UNCHANGED <<app, todo, changed>>,
         call'.state = state, call'.objects = objects, call'.left = objects, ~call'.error,
         state = State(Head(todo)), objects = Objects[Head(todo)],
         pc' = "exists" => state # "latest"
  PROVE  ItemCall'
  <1>1. State(Head(todo))' = State(Head(todo))
    BY DEF State
  <1>2. IsRest(objects, objects) /\ Before(objects, objects) = {}
    BY RestAll
  <1>3. QED BY <1>1, <1>2 DEF ItemCall

LEMMA ItemCallApply == ASSUME CInv, Loops, ItemCall, ApplyObject PROVE ItemCall'
  <1>1. /\ InCall /\ InCall' /\ pc' = "execute"
        /\ call.left \in Seq(Object) /\ call.left # <<>> /\ Head(call.left) \in Object
        /\ call'.left = Tail(call.left)
        /\ call'.state = call.state /\ call'.objects = call.objects
        /\ UNCHANGED OtherVariables
    BY ObjectStep DEF CInv
  <1>2. UNCHANGED <<wanted, app, todo, changed, touched>>
    BY <1>1 DEF OtherVariables
  <1>3. call.then = "items" /\ Head(todo) \in File /\ todo # <<>>
    BY ApplyStep
  <1>4. /\ call.objects \in Seq(Object) /\ call.objects = Objects[Head(todo)]
        /\ call.state = State(Head(todo)) /\ IsRest(call.left, call.objects)
    BY <1>1, <1>3, TypeParts DEF ItemCall, CInv, CallsType, CallType
  <1>5. State(Head(todo))' = State(Head(todo))
    BY <1>2 DEF State
  <1>6. PICK n \in DOMAIN call.objects :
          /\ call.objects[n] = Head(call.left)
          /\ Before(Tail(call.left), call.objects) = Before(call.left, call.objects) \cup {n}
          /\ IsRest(Tail(call.left), call.objects)
    BY <1>1, <1>4, RestTail
  <1>7. PICK o \in Object : o = Head(call.left)
    BY <1>1
  <1>8. api => Current(Head(todo), o)' /\ call'.error = call.error
               /\ \A p \in Object \ {o} : live'[p] = live[p]
    <2>1. SUFFICES ASSUME api PROVE Current(Head(todo), o)'
      BY <1>7, ApplyStep
    <2>2. file[Head(todo)] = wanted[Head(todo)]
      BY <1>1, <1>3, HeadFresh DEF CInv, InItems, Fresh
    <2>3. live'[o] = Applied(o, file[Head(todo)])
      BY <1>7, <2>1, ApplyStep
    <2>4. live'[o].by \in {"kubespray", "mixed"} /\ live'[o].version = wanted[Head(todo)]
      BY <2>2, <2>3 DEF Applied
    <2>5. QED BY <1>2, <2>4 DEF Current
  <1>9. ASSUME NEW j \in Before(Tail(call.left), call.objects) PROVE DoneObject(call.objects[j])'
    <2>1. PICK p \in Object : p = call.objects[j]
      <3>1. Tail(call.left) \in Seq(Object)
        BY <1>1, HeadTail
      <3>2. j \in DOMAIN call.objects
        BY <1>4, <1>6, <1>9, <3>1, BeforeIndexes
      <3>3. QED BY <1>4, <3>2
    <2>2. p = o \/ DoneObject(p)
      BY <1>1, <1>3, <1>6, <1>7, <1>9, <2>1 DEF ItemCall
    <2>3. CASE ~api
      BY <2>3, ApplyStep DEF DoneObject
    <2>4. CASE api /\ p = o
      BY <1>8, <2>1, <2>4, <1>1 DEF DoneObject
    <2>5. CASE api /\ p # o /\ DoneObject(p)
      <3>1. live'[p] = live[p] /\ call'.error = call.error
        BY <1>8, <2>5
      <3>2. DoneObject(p)'
        BY <1>2, <2>5, <3>1 DEF DoneObject, Current, Exist
      <3>3. QED BY <1>1, <2>1, <3>2
    <2>6. QED BY <2>2, <2>3, <2>4, <2>5 DEF CInv, TypeOK
  <1>10. ASSUME NEW j \in Before(call'.left, call'.objects) PROVE DoneObject(call.objects[j])'
    BY <1>1, <1>9, <1>10
  <1>11. IsRest(call'.left, call'.objects)
    BY <1>1, <1>6
  <1>12. /\ call'.state = State(Head(todo))' /\ call'.objects = Objects[Head(todo)]'
         /\ pc' # "exists"
    BY <1>1, <1>2, <1>4, <1>5
  <1>13. QED BY <1>10, <1>11, <1>12 DEF ItemCall

LEMMA ItemCallStep == ASSUME CInv, Loops, ItemCall, Next PROVE ItemCall'
  <1>1. TypeOK
    BY DEF CInv
  <1>2. CASE CheckExists
    <2>1. /\ UNCHANGED <<wanted, live, app, changed, touched>>
          /\ InCall /\ pc = "exists"
      BY <1>2 DEF CheckExists, manifests, InCall
    <2>2. CASE Exit
      BY <2>1, <2>2, CallEnds, NoItemCall
    <2>3. CASE pc' = "execute" /\ UNCHANGED <<call, todo>>
      BY <1>1, <2>1, <2>3, ItemCallFrame
    <2>4. QED BY <1>2, <2>2, <2>3 DEF CheckExists
  <1>3. CASE ApplyObject
    BY <1>3, ItemCallApply
  <1>4. CASE DeleteObject
    <2>1. call'.then = call.then /\ call.then # "items"
      BY <1>1, <1>4, ObjectStep, DeleteStep
    <2>2. QED BY <2>1, NoItemCall
  <1>5. CASE Executed \/ ItemFails
    BY <1>5, CallEnds, NoItemCall DEF Executed, ItemFails, InCall
  <1>6. CASE Retry
    <2>1. /\ InCall /\ Call(call.state, call.objects, call.then)
          /\ UNCHANGED <<app, todo, changed>>
      BY <1>6 DEF Retry, InCall
    <2>2. /\ call.state \in {"present", "absent", "latest"} /\ call.objects \in Seq(Object)
          /\ call.then \in ThenTask
      BY <2>1 DEF InCall, CInv, TypeOK, ThenTask
    <2>3. /\ call'.state = call.state /\ call'.then = call.then
          /\ call'.objects = call.objects /\ call'.left = call.objects /\ ~call'.error
      BY <2>1, <2>2, CallStarts
    <2>4. CASE call.then = "items"
      <3>1. pc' = "exists" => call.state # "latest"
        BY <2>1 DEF Call
      <3>2. QED BY <2>1, <2>2, <2>3, <2>4, <3>1, ItemCallStarts DEF ItemCall
    <2>5. CASE call.then # "items"
      BY <2>3, <2>5, NoItemCall
    <2>6. QED BY <2>4, <2>5
  <1>7. CASE TaskFails \/ LoopFails \/ RunCompletes \/ Interrupt
    BY <1>7, RunEnds, NoItemCall DEF TaskFails, LoopFails, RunCompletes, Interrupt
  <1>8. CASE ReadAnnotation \/ DeleteService
    BY <1>8, DnsTask, NoItemCall DEF InItems
  <1>9. CASE StartApp \/ Render \/ Rendered \/ SkipItem \/ EndOfLoop
    BY <1>9, AppTask, NoItemCall
  <1>10. CASE NextItem
    <2>1. /\ call'.state = State(Head(todo)) /\ call'.objects = Objects[Head(todo)]
          /\ call'.left = Objects[Head(todo)] /\ ~call'.error /\ Head(todo) \in File
          /\ pc' = "exists" => State(Head(todo)) # "latest"
          /\ UNCHANGED <<app, todo, changed>>
      BY <1>1, <1>10, ItemStarts
    <2>2. Objects[Head(todo)] \in Seq(Object)
      BY <2>1, ObjectsType
    <2>3. QED BY <2>1, <2>2, ItemCallStarts
  <1>11. CASE StartRun \/ KubeadmDeploys \/ (\E f \in File : Reconfigure(f))
    <2>1. ~InCall'
      BY <1>11 DEF StartRun, KubeadmDeploys, Reconfigure, play, InCall
    <2>2. QED BY <2>1, NoItemCall
  <1>12. CASE ApiUnreachable \/ ApiReturns
    BY <1>1, <1>12, SamePlace, ItemCallFrame DEF ApiUnreachable, ApiReturns, manifests
  <1>13. ASSUME NEW o \in Object, OthersDelete(o) PROVE ItemCall'
    <2>1. \A p \in Object : live'[p] = live[p] \/ (p \in touched' /\ ~Exist(p)')
      BY <1>1, <1>13 DEF OthersDelete, Exist, None, TypeOK
    <2>2. UNCHANGED <<pc, call, app, todo, changed, wanted, InCall>> /\ touched \subseteq touched'
      BY <1>13, SamePlace DEF OthersDelete, manifests
    <2>3. QED BY <1>1, <2>1, <2>2, ItemCallFrame
  <1>14. QED
    BY <1>2, <1>3, <1>4, <1>5, <1>6, <1>7, <1>8, <1>9, <1>10, <1>11, <1>12, <1>13
       DEF Next, Module, Play
-----------------------------------------------------------------------------
(* Without interruptions and outages every rendered manifest that waits for   *)
(* nothing is applied, but for what others and kubeadm did to its objects.    *)

\* f has changed, and its turn in the loop is still to come.
Pending(f) ==
  /\ f \in changed
  /\ \/ pc = "render"
     \/ InItems /\ \A j \in Before(todo, AppFiles) : AppFiles[j] # f

Settled(f) ==
  \A o \in ObjectsOf(f) :
    \/ Current(f, o)
    \/ touches # 0 /\ live[o].by \in {"nobody", "kubeadm"}

Steady ==
  aborts = 0 /\ outages = 0 =>
    /\ api /\ missed = {} /\ ~failed
    /\ InCall /\ call.then = "items" => ~call.error
    /\ DnsCall => live[Dns].by \in {"nobody", "kubeadm"}
    /\ \A f \in File : Fresh(f) /\ ~Pending(f) => Settled(f)

\* What is promised of a file of an application that is done.
Trusted(policy) ==
  \/ policy = "latest"
  \/ policy = "latest_or_present" /\ aborts = 0 /\ outages = 0
  \/ policy = "if_changed" /\ aborts = 0 /\ outages = 0 /\ touches = 0

Promise(policy, f) ==
  \A o \in ObjectsOf(f) \ touched :
    /\ policy \in {"latest", "latest_or_present"} => Exist(o)
    /\ Trusted(policy) => Current(f, o)

DoneItems(a) ==
  IF completed \/ a < app THEN DOMAIN Apps[a].files
  ELSE IF a = app /\ InItems THEN Before(todo, Apps[a].files)
  ELSE {}

Promised ==
  ~failed => \A a \in DOMAIN Apps : \A j \in DoneItems(a) : Promise(Apps[a].policy, Apps[a].files[j])

AInv == CInv /\ Made /\ Loops /\ ItemCall /\ Steady /\ Promised

LEMMA ObjectsOfType == ASSUME NEW f \in File PROVE ObjectsOf(f) \subseteq Object
  <1>1. Objects[f] \in Seq(Object)
    BY ObjectsType
  <1>2. QED BY <1>1 DEF ObjectsOf

LEMMA ObjectsDiffer ==
  ASSUME NEW f \in File, NEW g \in File, NEW o \in ObjectsOf(f), o \in ObjectsOf(g)
  PROVE  f = g
  <1>1. PICK i \in DOMAIN Objects[f] : o = Objects[f][i]
    BY DEF ObjectsOf
  <1>2. PICK j \in DOMAIN Objects[g] : o = Objects[g][j]
    BY DEF ObjectsOf
  <1>3. QED BY <1>1, <1>2, KubeAssumption

LEMMA AppPolicy ==
  ASSUME NEW a \in DOMAIN Apps
  PROVE  a \in Nat \ {0} /\ Apps[a].policy \in Policy /\ Apps[a].files \in Seq(File)
  <1>1. Apps \in Seq([files : Seq(File), policy : Policy, retries : Nat])
    BY KubeAssumption
  <1>2. a \in Nat \ {0} /\ a <= Len(Apps)
    BY <1>1
  <1>3. Apps[a] \in [files : Seq(File), policy : Policy, retries : Nat]
    BY <1>1, <1>2, ElementType
  <1>4. QED BY <1>2, <1>3
-----------------------------------------------------------------------------
(* What is applied, or need not be.                                           *)

\* The module has gone through the objects of a file.
LEMMA ItemApplied ==
  ASSUME AInv, pc = "execute", call.then = "items", call.left = <<>>, ~call.error
  PROVE  \A o \in ObjectsOf(Head(todo)) : Current(Head(todo), o) \/ (o \in touched /\ ~Exist(o))
  <1>1. InCall /\ call.objects \in Seq(Object)
    BY TypeParts DEF InCall, AInv, CInv, CallsType, CallType
  <1>2. /\ call.objects = Objects[Head(todo)]
        /\ \A j \in Before(<<>>, call.objects) : DoneObject(call.objects[j])
    BY <1>1 DEF AInv, ItemCall
  <1>3. Before(<<>>, call.objects) = DOMAIN call.objects
    BY <1>1, RestNone
  <1>4. QED BY <1>2, <1>3 DEF ObjectsOf, DoneObject

\* What did not change is settled, without interruptions and outages.
LEMMA UnchangedSettled ==
  ASSUME AInv, InItems, todo # <<>>, Head(todo) \notin changed, aborts = 0, outages = 0
  PROVE  Settled(Head(todo))
  <1>1. Head(todo) \in File /\ Fresh(Head(todo))
    BY HeadFresh DEF AInv, CInv
  <1>2. ~Pending(Head(todo))
    BY DEF Pending
  <1>3. QED BY <1>1, <1>2 DEF AInv, Steady

\* kubeadm's deployment is gone while the applications are looked at.
LEMMA NothingOfKubeadm ==
  ASSUME AInv, InItems, aborts = 0, outages = 0, NEW f \in File, NEW o \in ObjectsOf(f)
  PROVE  live[o].by # "kubeadm"
  <1>1. o \in Object /\ o # DnsService
    <2>1. PICK i \in DOMAIN Objects[f] : o = Objects[f][i]
      BY DEF ObjectsOf
    <2>2. QED BY <2>1, ObjectsOfType, KubeAssumption
  <1>2. AfterDns /\ missed = {}
    BY DEF AfterDns, InApps, AInv, Steady
  <1>3. live[Dns].by # "kubeadm"
    BY <1>2 DEF AInv, Made, DnsCleaned
  <1>4. CASE o = Dns
    BY <1>3, <1>4
  <1>5. CASE o # Dns
    BY <1>1, <1>5 DEF AInv, Made, OwnMade
  <1>6. QED BY <1>4, <1>5

\* The end of a file in the loop, by whichever way.
LEMMA ItemPromised ==
  ASSUME AInv, InItems, todo # <<>>,
         \/ \A o \in ObjectsOf(Head(todo)) : Current(Head(todo), o) \/ (o \in touched /\ ~Exist(o))
         \/ Head(todo) \notin changed /\ Apps[app].policy = "latest_or_present"
            /\ \A o \in ObjectsOf(Head(todo)) : Exist(o)
         \/ Head(todo) \notin changed /\ Apps[app].policy = "if_changed"
  PROVE  Promise(Apps[app].policy, Head(todo))
  <1>1. Head(todo) \in File
    BY HeadFresh DEF AInv, CInv
  <1>2. CASE \A o \in ObjectsOf(Head(todo)) : Current(Head(todo), o) \/ (o \in touched /\ ~Exist(o))
    BY <1>2 DEF Promise, Current, Exist
  <1>3. CASE /\ Head(todo) \notin changed /\ Apps[app].policy = "latest_or_present"
             /\ \A o \in ObjectsOf(Head(todo)) : Exist(o)
    <2>1. ASSUME NEW o \in ObjectsOf(Head(todo)), aborts = 0, outages = 0
          PROVE  Current(Head(todo), o)
      <3>1. Settled(Head(todo))
        BY <1>3, <2>1, UnchangedSettled
      <3>2. live[o].by # "kubeadm" /\ live[o].by # "nobody"
        BY <1>1, <1>3, <2>1, NothingOfKubeadm DEF Exist
      <3>3. QED BY <3>1, <3>2 DEF Settled
    <2>2. QED BY <1>3, <2>1 DEF Promise, Trusted
  <1>4. CASE Head(todo) \notin changed /\ Apps[app].policy = "if_changed"
    <2>1. ASSUME NEW o \in ObjectsOf(Head(todo)), aborts = 0, outages = 0, touches = 0
          PROVE  Current(Head(todo), o)
      BY <1>4, <2>1, UnchangedSettled DEF Settled
    <2>2. QED BY <1>4, <2>1 DEF Promise, Trusted
  <1>5. QED BY <1>2, <1>3, <1>4
-----------------------------------------------------------------------------
(* Steady is kept.                                                            *)

SteadyNow ==
  /\ api /\ missed = {} /\ ~failed
  /\ InCall /\ call.then = "items" => ~call.error
  /\ DnsCall => live[Dns].by \in {"nobody", "kubeadm"}
  /\ \A f \in File : Fresh(f) /\ ~Pending(f) => Settled(f)

LEMMA SteadyIs == Steady <=> (aborts = 0 /\ outages = 0 => SteadyNow)
  BY DEF Steady, SteadyNow

LEMMA SteadyInit == Init => Steady
  <1> SUFFICES ASSUME Init PROVE Steady
    OBVIOUS
  <1>1. ~InCall /\ ~DnsCall
    BY DEF Init, InCall, DnsCall
  <1>2. \A f \in File : ~Fresh(f)
    BY DEF Init, Fresh
  <1>3. api /\ missed = {} /\ ~failed
    BY DEF Init
  <1>4. QED BY <1>1, <1>2, <1>3 DEF Steady

LEMMA SettledKept ==
  ASSUME NEW f \in File, Settled(f), wanted'[f] = wanted[f],
         touches # 0 => touches' # 0,
         \A o \in ObjectsOf(f) :
           \/ live'[o] = live[o]
           \/ Current(f, o)'
           \/ touches' # 0 /\ live'[o].by \in {"nobody", "kubeadm"}
  PROVE  Settled(f)'
  <1>1. ASSUME NEW o \in ObjectsOf(f), live'[o] = live[o]
        PROVE  Current(f, o)' \/ (touches' # 0 /\ live'[o].by \in {"nobody", "kubeadm"})
    BY <1>1 DEF Settled, Current
  <1>2. ObjectsOf(f)' = ObjectsOf(f)
    BY DEF ObjectsOf
  <1>3. QED BY <1>1, <1>2 DEF Settled

\* A step that leaves objects and manifests alone.
LEMMA SteadyFrame ==
  ASSUME SteadyNow, UNCHANGED <<live, wanted, file, api, touches>>,
         missed' \subseteq missed, failed' => failed,
         InCall' /\ call'.then = "items" =>
           \/ ~call'.error
           \/ InCall /\ call.then = "items" /\ call'.error = call.error,
         DnsCall' => DnsCall \/ live[Dns].by \in {"nobody", "kubeadm"},
         \A f \in File : Pending(f) => Pending(f)' \/ Settled(f)
  PROVE  SteadyNow'
  <1>1. ASSUME NEW f \in File, Fresh(f)', ~Pending(f)' PROVE Settled(f)'
    <2>1. Fresh(f)
      BY <1>1 DEF Fresh
    <2>2. Settled(f)
      BY <1>1, <2>1 DEF SteadyNow
    <2>3. QED BY <2>2, SettledKept
  <1>2. QED BY <1>1 DEF SteadyNow

LEMMA NotPending == ASSUME NEW f, ~InItems, pc # "render" PROVE ~Pending(f)
  BY DEF Pending

\* Who waits goes on waiting, but for the head of the loop.
LEMMA PendingTail ==
  ASSUME AInv, InItems, InItems', todo # <<>>, todo' = Tail(todo), UNCHANGED <<app, changed>>,
         NEW f \in File, Pending(f), f # Head(todo)
  PROVE  Pending(f)'
  <1>1. PICK n \in DOMAIN AppFiles :
          /\ AppFiles[n] = Head(todo)
          /\ Before(Tail(todo), AppFiles) = Before(todo, AppFiles) \cup {n}
    BY HeadFresh DEF AInv, CInv
  <1>2. AppFiles' = AppFiles
    BY DEF AppFiles
  <1>3. f \in changed /\ \A j \in Before(todo, AppFiles) : AppFiles[j] # f
    BY DEF Pending, InItems, InCall
  <1>4. QED BY <1>1, <1>2, <1>3 DEF Pending

\* A call that ends without having failed.
LEMMA SteadyExit ==
  ASSUME AInv, SteadyNow, InCall, Exit, UNCHANGED <<live, wanted, file, api, touches, app, changed, failed>>,
         missed' \subseteq missed,
         call.then = "items" => Head(todo) \notin changed \/ Settled(Head(todo))
  PROVE  SteadyNow'
  <1>1. /\ ~InCall' /\ ~DnsCall' /\ (InItems' <=> call.then = "items")
        /\ call.then = "items" => todo' = Tail(todo)
    BY CallEnds DEF AInv
  <1>2. call.then = "items" => InItems /\ todo # <<>>
    BY DEF InItems, AInv, CInv, TypeOK, InCall
  <1>3. ASSUME NEW f \in File, Pending(f) PROVE Pending(f)' \/ Settled(f)
    <2>1. InItems
      BY <1>3 DEF Pending, InCall
    <2>2. call.then = "items"
      BY <2>1 DEF InItems, InCall
    <2>3. f = Head(todo) => Settled(f)
      BY <1>3, <2>2 DEF Pending
    <2>4. f # Head(todo) => Pending(f)'
      BY <1>1, <1>2, <1>3, <2>2, PendingTail
    <2>5. QED BY <2>3, <2>4
  <1>4. QED BY <1>1, <1>3, SteadyFrame

LEMMA SteadyExists == ASSUME AInv, SteadyNow, CheckExists PROVE SteadyNow'
  <1>1. /\ InCall /\ pc = "exists" /\ api
        /\ UNCHANGED <<live, wanted, file, api, touches, app, changed, failed>>
    BY DEF CheckExists, manifests, faults, InCall, SteadyNow
  <1>2. missed' \subseteq missed
    BY <1>1 DEF CheckExists
  <1>3. CASE Exit
    <2>1. call.then = "items" => Head(todo) \notin changed
      <3>1. SUFFICES ASSUME call.then = "items" PROVE Head(todo) \notin changed
        OBVIOUS
      <3>2. call.state = State(Head(todo))
        BY <1>1, <3>1 DEF AInv, ItemCall
      <3>3. call.state = "present"
        BY <1>1, <1>3, <3>1 DEF AInv, CInv, Cleaning, InCall, ItemCall
      <3>4. QED BY <3>2, <3>3 DEF State
    <2>2. QED BY <1>1, <1>2, <1>3, <2>1, SteadyExit
  <1>4. CASE pc' = "execute" /\ UNCHANGED <<call, todo>>
    <2>1. /\ DnsCall' <=> DnsCall
          /\ \A f \in File : Pending(f) => Pending(f)'
      BY <1>1, <1>4 DEF DnsCall, InCall, Pending, InItems, AppFiles
    <2>2. QED BY <1>1, <1>2, <1>4, <2>1, SteadyFrame
  <1>5. QED BY <1>3, <1>4 DEF CheckExists

LEMMA SteadyObject ==
  ASSUME AInv, SteadyNow, ApplyObject \/ DeleteObject
  PROVE  SteadyNow'
  <1>1. /\ InCall /\ pc = "execute" /\ pc' = "execute" /\ call.left # <<>>
        /\ Head(call.left) \in Object
        /\ call'.then = call.then
        /\ UNCHANGED <<InItems, InApps, DnsCall>>
        /\ UNCHANGED OtherVariables
    BY ObjectStep DEF AInv, CInv
  <1>2. /\ api /\ UNCHANGED <<wanted, file, api, missed, failed, touches, todo, app, changed>>
    BY <1>1 DEF SteadyNow, OtherVariables
  <1>3. ASSUME NEW f \in File PROVE Fresh(f)' = Fresh(f) /\ Pending(f)' = Pending(f)
    BY <1>1, <1>2 DEF Fresh, Pending, AppFiles
  <1>4. PICK o \in Object : o = Head(call.left)
    BY <1>1
  <1>5. CASE ApplyObject
    <2>1. /\ call.then = "items" /\ todo # <<>> /\ Head(todo) \in File
          /\ live'[o] = Applied(o, file[Head(todo)])
          /\ \A p \in Object \ {o} : live'[p] = live[p]
          /\ call'.error = call.error
      BY <1>2, <1>4, <1>5, ApplyStep DEF AInv
    <2>2. o \in ObjectsOf(Head(todo))
      <3>1. /\ call.objects = Objects[Head(todo)] /\ IsRest(call.left, call.objects)
            /\ call.objects \in Seq(Object) /\ call.left \in Seq(Object)
        BY <1>1, <2>1, TypeParts DEF AInv, CInv, CallsType, CallType, ItemCall
      <3>2. \E n \in DOMAIN call.objects : call.objects[n] = Head(call.left)
        BY <1>1, <3>1, RestTail
      <3>3. QED BY <1>4, <3>1, <3>2 DEF ObjectsOf
    <2>3. Current(Head(todo), o)'
      <3>1. file[Head(todo)] = wanted[Head(todo)]
        BY <1>1, <2>1, HeadFresh DEF AInv, CInv, InItems, Fresh
      <3>2. live'[o].by \in {"kubespray", "mixed"} /\ live'[o].version = wanted[Head(todo)]
        BY <2>1, <3>1 DEF Applied
      <3>3. QED BY <1>2, <3>2 DEF Current
    <2>4. ASSUME NEW f \in File, Settled(f) PROVE Settled(f)'
      <3>1. ASSUME NEW p \in ObjectsOf(f) PROVE live'[p] = live[p] \/ Current(f, p)'
        <4>1. CASE p = o
          <5>1. f = Head(todo)
            BY <2>1, <2>2, <4>1, ObjectsDiffer
          <5>2. QED BY <1>2, <2>3, <4>1, <5>1
        <4>2. CASE p # o
          BY <2>1, <4>2, ObjectsOfType
        <4>3. QED BY <4>1, <4>2
      <3>2. QED BY <1>2, <2>4, <3>1, SettledKept
    <2>5. ~DnsCall
      BY <2>1 DEF DnsCall
    <2>6. ~call'.error
      BY <1>1, <2>1 DEF SteadyNow
    <2>7. QED BY <1>1, <1>2, <1>3, <2>4, <2>5, <2>6 DEF SteadyNow
  <1>6. CASE DeleteObject
    <2>1. /\ call.then \in {"delete_service", "next_app"}
          /\ live'[o].by = "nobody"
          /\ \A p \in Object \ {o} : live'[p] = live[p]
      BY <1>2, <1>4, <1>6, DeleteStep DEF AInv, None
    <2>2. CASE call.then = "delete_service"
      <3>1. DnsCall /\ o = Dns
        <4>1. DnsCall /\ call.left = <<Dns>>
          BY <1>1, <2>2 DEF DnsCall, AInv, Made, DnsDeletion
        <4>2. QED BY <1>4, <4>1
      <3>2. live[Dns].by \in {"nobody", "kubeadm"}
        BY <3>1 DEF SteadyNow
      <3>3. ASSUME NEW f \in File, Settled(f) PROVE Settled(f)'
        <4>1. ASSUME NEW p \in ObjectsOf(f)
              PROVE  live'[p] = live[p] \/ (touches' # 0 /\ live'[p].by \in {"nobody", "kubeadm"})
          <5>1. CASE p = Dns
            <6>1. ~Current(f, p)
              BY <3>2, <5>1 DEF Current
            <6>2. QED BY <1>2, <2>1, <3>1, <3>3, <5>1, <6>1 DEF Settled
          <5>2. CASE p # Dns
            BY <2>1, <3>1, <5>2, ObjectsOfType
          <5>3. QED BY <5>1, <5>2
        <4>2. QED BY <1>2, <3>3, <4>1, SettledKept
      <3>4. QED BY <1>1, <1>2, <1>3, <2>1, <3>1, <3>3 DEF SteadyNow
    <2>3. CASE call.then = "next_app"
      <3>1. o = DnsService
        <4>1. call.left = <<DnsService>>
          BY <1>1, <2>3 DEF AInv, CInv, Cleaning
        <4>2. QED BY <1>4, <4>1
      <3>2. ASSUME NEW f \in File, Settled(f) PROVE Settled(f)'
        <4>1. DnsService \notin ObjectsOf(f)
          BY KubeAssumption DEF ObjectsOf
        <4>2. \A p \in ObjectsOf(f) : live'[p] = live[p]
          BY <2>1, <3>1, <4>1, ObjectsOfType
        <4>3. QED BY <1>2, <3>2, <4>2, SettledKept
      <3>3. ~DnsCall
        BY <2>3 DEF DnsCall
      <3>4. QED BY <1>1, <1>2, <1>3, <2>3, <3>2, <3>3 DEF SteadyNow
    <2>4. QED BY <2>1, <2>2, <2>3
  <1>7. QED BY <1>5, <1>6

LEMMA SteadyModule == ASSUME AInv, SteadyNow, Module PROVE SteadyNow'
  <1>1. CASE CheckExists
    BY <1>1, SteadyExists
  <1>2. CASE ApplyObject \/ DeleteObject
    BY <1>2, SteadyObject
  <1>3. CASE Executed
    <2>1. /\ pc = "execute" /\ call.left = <<>> /\ ~call.error /\ Exit /\ InCall
          /\ UNCHANGED <<live, wanted, file, api, touches, app, changed, failed, missed>>
      BY <1>3 DEF Executed, manifests, cluster, faults, InCall
    <2>2. call.then = "items" => Settled(Head(todo))
      <3>1. SUFFICES ASSUME call.then = "items" PROVE Settled(Head(todo))
        OBVIOUS
      <3>2. \A o \in ObjectsOf(Head(todo)) : Current(Head(todo), o) \/ (o \in touched /\ ~Exist(o))
        BY <2>1, <3>1, ItemApplied
      <3>3. touched # {} => touches # 0
        BY DEF AInv, Loops, TouchesCounted
      <3>4. QED BY <3>2, <3>3 DEF Settled, Exist
    <2>3. QED BY <2>1, <2>2, SteadyExit
  <1>4. CASE Retry
    <2>1. /\ InCall /\ pc = "execute" /\ call.error /\ Call(call.state, call.objects, call.then)
          /\ UNCHANGED <<live, wanted, file, api, touches, app, changed, failed, missed>>
      BY <1>4 DEF Retry, manifests, cluster, faults, InCall
    <2>2. call.then # "items"
      BY <2>1 DEF SteadyNow
    <2>3. /\ call.state \in {"present", "absent", "latest"} /\ call.objects \in Seq(Object)
          /\ call.then \in ThenTask
      BY <2>1 DEF InCall, AInv, CInv, TypeOK, ThenTask
    <2>4. call'.then = call.then /\ (DnsCall' => DnsCall) /\ ~InItems
      BY <2>1, <2>2, <2>3, CallStarts DEF DnsCall, InItems, InCall
    <2>5. \A f \in File : ~Pending(f)
      BY <2>1, <2>4, NotPending
    <2>6. QED BY <2>1, <2>2, <2>4, <2>5, SteadyFrame
  <1>5. CASE ItemFails
    BY <1>5 DEF ItemFails, SteadyNow, InCall
  <1>6. CASE TaskFails
    <2>1. /\ pc = "execute" /\ call.then # "items" /\ EndRun(FALSE) /\ ~failed'
          /\ UNCHANGED <<live, wanted, file, api, touches, missed>>
      BY <1>6 DEF TaskFails, manifests, cluster, faults, EndRun
    <2>2. \A f \in File : ~Pending(f)
      BY <2>1, NotPending DEF InItems
    <2>3. QED BY <2>1, <2>2, RunEnds, SteadyFrame
  <1>7. QED BY <1>1, <1>2, <1>3, <1>4, <1>5, <1>6 DEF Module

\* The tasks of an application around its calls.
LEMMA SteadyTask ==
  ASSUME AInv, SteadyNow, StartApp \/ Render \/ Rendered \/ SkipItem \/ EndOfLoop
  PROVE  SteadyNow'
  <1>1. /\ (InItems <=> pc = "items") /\ (InItems' <=> pc' = "items")
        /\ ~InCall' /\ ~DnsCall' /\ (InLoop => AppFiles \in Seq(File))
        /\ UNCHANGED <<live, missed, api, wanted, failed, touched, touches>>
    BY AppTask, AppFilesType DEF AInv, CInv
  <1>2. CASE StartApp
    <2>1. pc = "next_app" /\ UNCHANGED file
      BY <1>2 DEF StartApp, manifests
    <2>2. \A f \in File : ~Pending(f)
      BY <1>1, <2>1, NotPending
    <2>3. QED BY <1>1, <2>1, <2>2, SteadyFrame
  <1>3. CASE Render
    <2>1. /\ pc = "render" /\ pc' = "render" /\ todo # <<>>
          /\ file' = [file EXCEPT ![Head(todo)] = wanted[Head(todo)]]
          /\ changed' = IF file[Head(todo)] # wanted[Head(todo)] THEN changed \cup {Head(todo)} ELSE changed
      BY <1>3 DEF Render
    <2>2. Head(todo) \in File /\ file \in [File -> Nat]
      BY <2>1, HeadTail DEF AInv, CInv, TypeOK
    <2>3. ASSUME NEW f \in File, Fresh(f)', ~Pending(f)' PROVE Settled(f)'
      <3>1. f \notin changed'
        BY <2>1, <2>3 DEF Pending
      <3>2. Fresh(f) /\ f \notin changed
        BY <1>1, <2>1, <2>2, <2>3, <3>1 DEF Fresh
      <3>3. Settled(f)
        BY <3>2 DEF SteadyNow, Pending
      <3>4. QED BY <1>1, <3>3, SettledKept
    <2>4. QED BY <1>1, <2>3 DEF SteadyNow
  <1>4. CASE Rendered
    <2>1. /\ pc = "render" /\ pc' = "items" /\ todo' = AppFiles
          /\ UNCHANGED <<app, changed, file>>
      BY <1>4 DEF Rendered, manifests, AppFiles
    <2>2. Before(todo', AppFiles') = {}
      BY <1>1, <2>1, RestAll DEF AppFiles, InLoop
    <2>3. \A f \in File : Pending(f) => Pending(f)'
      BY <1>1, <2>1, <2>2 DEF Pending
    <2>4. QED BY <1>1, <2>1, <2>3, SteadyFrame
  <1>5. CASE SkipItem
    <2>1. /\ pc = "items" /\ pc' = "items" /\ todo # <<>> /\ todo' = Tail(todo)
          /\ State(Head(todo)) = "skipped"
          /\ UNCHANGED <<app, changed, file>>
      BY <1>5 DEF SkipItem, manifests
    <2>2. Head(todo) \notin changed
      BY <2>1 DEF State
    <2>3. ASSUME NEW f \in File, Pending(f) PROVE Pending(f)'
      BY <1>1, <2>1, <2>2, <2>3, PendingTail DEF Pending
    <2>4. QED BY <1>1, <2>1, <2>3, SteadyFrame
  <1>6. CASE EndOfLoop
    <2>1. pc = "items" /\ todo = <<>> /\ UNCHANGED file
      BY <1>6 DEF EndOfLoop, manifests
    <2>2. Before(todo, AppFiles) = DOMAIN AppFiles
      BY <1>1, <2>1, RestNone DEF InLoop
    <2>3. ASSUME NEW f \in File PROVE ~Pending(f)
      <3>1. f \in changed => \E j \in DOMAIN AppFiles : AppFiles[j] = f
        BY <1>1, <2>1 DEF AInv, Loops, LoopRest, InLoop
      <3>2. QED BY <2>1, <2>2, <3>1 DEF Pending
    <2>4. QED BY <1>1, <2>1, <2>3, SteadyFrame
  <1>7. QED BY <1>2, <1>3, <1>4, <1>5, <1>6

LEMMA SteadyPlay == ASSUME AInv, SteadyNow, Play PROVE SteadyNow'
  <1>1. CASE ReadAnnotation \/ DeleteService
    <2>1. /\ ~InItems /\ ~InItems' /\ pc # "render"
          /\ UNCHANGED <<live, wanted, file, api, touches, missed, failed>>
      BY <1>1, DnsTask
    <2>2. \A f \in File : ~Pending(f)
      BY <2>1, NotPending
    <2>3. DnsCall' => live[Dns].by \in {"nobody", "kubeadm"}
      <3>1. CASE DeleteService
        <4>1. Call("absent", <<DnsService>>, "next_app") /\ <<DnsService>> \in Seq(Object)
          BY <3>1, KubeAssumption DEF DeleteService
        <4>2. QED BY <4>1, CallStarts DEF ThenTask
      <3>2. CASE ReadAnnotation
        <4>1. CASE live[Dns].by \in {"kubespray", "mixed"}
          <5>1. pc' = "delete_service"
            BY <3>2, <4>1 DEF ReadAnnotation, SteadyNow
          <5>2. QED BY <5>1 DEF DnsCall, InCall
        <4>2. CASE live[Dns].by \notin {"kubespray", "mixed"}
          BY <4>2, KubeAssumption DEF AInv, CInv, TypeOK, Creator
        <4>3. QED BY <4>1, <4>2
      <3>3. QED BY <1>1, <3>1, <3>2
    <2>4. ~(InCall' /\ call'.then = "items")
      BY <2>1 DEF InItems
    <2>5. QED BY <2>1, <2>2, <2>3, <2>4, SteadyFrame
  <1>2. CASE StartApp \/ Render \/ Rendered \/ SkipItem \/ EndOfLoop
    BY <1>2, SteadyTask
  <1>3. CASE NextItem
    <2>1. /\ InItems /\ InItems' /\ ~call'.error /\ call'.then = "items"
          /\ pc # "render" /\ pc' # "render"
          /\ UNCHANGED <<wanted, file, live, missed, api, app, todo, changed, failed, touches>>
      BY <1>3, ItemStarts DEF AInv, CInv
    <2>2. \A f \in File : Pending(f) => Pending(f)'
      BY <2>1 DEF Pending, AppFiles
    <2>3. ~DnsCall'
      BY <2>1 DEF DnsCall
    <2>4. QED BY <2>1, <2>2, <2>3, SteadyFrame
  <1>4. CASE LoopFails
    BY <1>4 DEF LoopFails, SteadyNow
  <1>5. CASE RunCompletes
    <2>1. /\ pc = "next_app" /\ EndRun(TRUE) /\ ~failed'
          /\ UNCHANGED <<live, wanted, file, api, touches, missed>>
      BY <1>5 DEF RunCompletes, manifests, cluster, faults, EndRun
    <2>2. \A f \in File : ~Pending(f)
      BY <2>1, NotPending DEF InItems, InCall
    <2>3. QED BY <2>1, <2>2, RunEnds, SteadyFrame
  <1>6. QED BY <1>1, <1>2, <1>3, <1>4, <1>5 DEF Play

\* What others do, to objects or to manifests, outside of what is counted.
LEMMA SteadyOther ==
  ASSUME AInv, SteadyNow,
         \/ StartRun \/ KubeadmDeploys \/ ApiReturns
         \/ (\E f \in File : Reconfigure(f)) \/ (\E o \in Object : OthersDelete(o))
  PROVE  SteadyNow'
  <1>1. TypeOK /\ touches \in Nat
    BY DEF AInv, CInv, TypeOK
  <1>2. CASE StartRun
    <2>1. /\ pc = "idle" /\ pc' = "annotation" /\ missed' \subseteq missed
          /\ UNCHANGED <<live, wanted, file, api, touches, failed>>
      BY <1>2 DEF StartRun, manifests, faults
    <2>2. ~InItems /\ ~InCall' /\ ~DnsCall'
      BY <2>1 DEF InItems, InCall, DnsCall
    <2>3. \A f \in File : ~Pending(f)
      BY <2>1, <2>2, NotPending
    <2>4. QED BY <2>1, <2>2, <2>3, SteadyFrame
  <1>3. CASE KubeadmDeploys
    <2>1. /\ pc = "idle" /\ UNCHANGED <<wanted, file, api, play>>
          /\ touches' # 0 /\ missed' \subseteq missed
          /\ \A o \in Object : live'[o] = live[o] \/ live'[o].by = "kubeadm"
      BY <1>1, <1>3 DEF KubeadmDeploys, manifests, ByKubeadm
    <2>2. ~InItems /\ ~InCall' /\ ~DnsCall' /\ ~failed'
      BY <2>1 DEF InItems, InCall, DnsCall, play, SteadyNow
    <2>3. ASSUME NEW f \in File, Fresh(f)' PROVE Settled(f)'
      <3>1. Fresh(f) /\ ~Pending(f)
        BY <2>1, <2>2, <2>3, NotPending DEF Fresh
      <3>2. Settled(f)
        BY <3>1 DEF SteadyNow
      <3>3. QED BY <2>1, <3>2, SettledKept, ObjectsOfType
    <2>4. QED BY <2>1, <2>2, <2>3 DEF SteadyNow
  <1>4. CASE ApiReturns
    BY <1>4 DEF ApiReturns, SteadyNow
  <1>5. ASSUME NEW f \in File, Reconfigure(f) PROVE SteadyNow'
    <2>1. /\ pc = "idle" /\ wanted' = [wanted EXCEPT ![f] = @ + 1]
          /\ UNCHANGED <<file, live, missed, api, play, touches>>
      BY <1>5 DEF Reconfigure, faults, cluster
    <2>2. ~InItems /\ ~InCall' /\ ~DnsCall' /\ ~failed'
      BY <2>1 DEF InItems, InCall, DnsCall, play, SteadyNow
    <2>3. file[f] <= wanted[f] /\ wanted \in [File -> Nat] /\ file \in [File -> Nat]
      BY <1>1 DEF AInv, Loops, Versions, TypeOK
    <2>4. ASSUME NEW g \in File, Fresh(g)' PROVE Settled(g)'
      <3>1. g # f
        BY <2>1, <2>3, <2>4 DEF Fresh
      <3>2. Fresh(g) /\ ~Pending(g) /\ wanted'[g] = wanted[g]
        BY <2>1, <2>2, <2>3, <2>4, <3>1, NotPending DEF Fresh
      <3>3. Settled(g)
        BY <3>2 DEF SteadyNow
      <3>4. QED BY <2>1, <3>2, <3>3, SettledKept
    <2>5. QED BY <2>1, <2>2, <2>4 DEF SteadyNow
  <1>6. ASSUME NEW o \in Object, OthersDelete(o) PROVE SteadyNow'
    <2>1. /\ UNCHANGED <<wanted, file, api, play>>
          /\ touches' # 0 /\ missed' \subseteq missed
          /\ live'[o].by = "nobody" /\ \A p \in Object \ {o} : live'[p] = live[p]
      BY <1>1, <1>6 DEF OthersDelete, manifests, None, TypeOK
    <2>2. UNCHANGED <<pc, app, todo, changed, call, failed, InCall, InItems, DnsCall>>
      BY <2>1, SamePlace
    <2>3. ASSUME NEW f \in File, Fresh(f)', ~Pending(f)' PROVE Settled(f)'
      <3>1. Fresh(f) /\ ~Pending(f)
        BY <2>1, <2>2, <2>3 DEF Fresh, Pending, AppFiles
      <3>2. Settled(f)
        BY <3>1 DEF SteadyNow
      <3>3. QED BY <2>1, <3>2, SettledKept, ObjectsOfType
    <2>4. DnsCall' => live'[Dns].by \in {"nobody", "kubeadm"}
      BY <2>1, <2>2, KubeAssumption DEF SteadyNow
    <2>5. QED BY <2>1, <2>2, <2>3, <2>4 DEF SteadyNow
  <1>7. QED BY <1>2, <1>3, <1>4, <1>5, <1>6

\* Interruptions and outages are counted.
LEMMA FaultsCounted ==
  ASSUME TypeOK, Next
  PROVE  /\ aborts' \in Nat /\ (UNCHANGED aborts \/ aborts' # 0)
         /\ outages' \in Nat /\ (UNCHANGED outages \/ outages' # 0)
         /\ touches' \in Nat /\ (UNCHANGED touches \/ touches' # 0)
         /\ Interrupt => aborts' # 0
         /\ ApiUnreachable => outages' # 0
  <1>1. aborts \in Nat /\ outages \in Nat /\ touches \in Nat
    BY DEF TypeOK
  <1>2. Interrupt => aborts' = aborts + 1 /\ UNCHANGED <<outages, touches>>
    BY DEF Interrupt
  <1>3. ApiUnreachable => outages' = outages + 1 /\ UNCHANGED <<aborts, touches>>
    BY DEF ApiUnreachable
  <1>4. KubeadmDeploys \/ (\E o \in Object : OthersDelete(o))
        => touches' = touches + 1 /\ UNCHANGED <<aborts, outages>>
    BY DEF KubeadmDeploys, OthersDelete
  <1>5. StartRun \/ ApiReturns \/ (\E f \in File : Reconfigure(f))
        => UNCHANGED <<aborts, outages, touches>>
    BY DEF StartRun, ApiReturns, Reconfigure, faults
  <1>6. Module => UNCHANGED <<aborts, outages, touches>>
    BY DEF Module, CheckExists, ApplyObject, DeleteObject, ObjectDone, Executed, Retry,
           ItemFails, TaskFails, faults
  <1>7. Play => UNCHANGED <<aborts, outages, touches>>
    BY DEF Play, ReadAnnotation, DeleteService, StartApp, Render, Rendered, NextItem,
           SkipItem, EndOfLoop, LoopFails, RunCompletes, faults
  <1>8. QED BY <1>1, <1>2, <1>3, <1>4, <1>5, <1>6, <1>7 DEF Next

LEMMA SteadyStep == ASSUME AInv, Next PROVE Steady'
  <1> SUFFICES ASSUME aborts' = 0, outages' = 0 PROVE SteadyNow'
    BY SteadyIs DEF Steady, SteadyNow
  <1>1. aborts = 0 /\ outages = 0 /\ ~Interrupt /\ ~ApiUnreachable
    BY FaultsCounted DEF AInv, CInv
  <1>2. SteadyNow
    BY <1>1, SteadyIs DEF AInv
  <1>3. QED BY <1>1, <1>2, SteadyModule, SteadyPlay, SteadyOther DEF Next
-----------------------------------------------------------------------------
(* Promised is kept.                                                          *)

LEMMA PromisedInit == Init => Promised
  <1> SUFFICES ASSUME Init PROVE Promised
    OBVIOUS
  <1>1. app = 1 /\ ~completed /\ ~InItems
    BY DEF Init, InItems, InCall
  <1>2. \A a \in DOMAIN Apps : ~(a < app)
    BY <1>1, KubeAssumption
  <1>3. QED BY <1>1, <1>2 DEF Promised, DoneItems

\* A promise is about objects nobody touches, and about no more faults.
LEMMA PromiseKept ==
  ASSUME NEW policy, NEW f, Promise(policy, f), UNCHANGED wanted, touched \subseteq touched',
         aborts' = 0 => aborts = 0, outages' = 0 => outages = 0, touches' = 0 => touches = 0,
         \A o \in ObjectsOf(f) \ touched' : live'[o] = live[o] \/ Current(f, o)'
  PROVE  Promise(policy, f)'
  <1>1. Trusted(policy)' => Trusted(policy)
    BY DEF Trusted
  <1>2. ASSUME NEW o \in ObjectsOf(f) \ touched'
        PROVE  /\ policy \in {"latest", "latest_or_present"} => Exist(o)'
               /\ Trusted(policy)' => Current(f, o)'
    <2>1. /\ policy \in {"latest", "latest_or_present"} => Exist(o)
          /\ Trusted(policy) => Current(f, o)
      BY <1>2 DEF Promise
    <2>2. CASE live'[o] = live[o]
      BY <1>1, <2>1, <2>2 DEF Exist, Current
    <2>3. CASE Current(f, o)'
      BY <2>3 DEF Exist, Current
    <2>4. QED BY <1>2, <2>2, <2>3
  <1>3. ObjectsOf(f)' = ObjectsOf(f)
    BY DEF ObjectsOf
  <1>4. QED BY <1>2, <1>3 DEF Promise

\* No file is done: there is nothing to show.
LEMMA NothingDone ==
  ASSUME ~completed', app' = 1, ~InItems'
  PROVE  Promised'
  <1>1. \A a \in DOMAIN Apps : ~(a < app')
    BY KubeAssumption
  <1>2. QED BY <1>1 DEF Promised, DoneItems

\* No more files are done than before, but for those that are as promised.
LEMMA PromisedFrame ==
  ASSUME AInv, UNCHANGED <<wanted, live>>, touched \subseteq touched',
         aborts' = 0 => aborts = 0, outages' = 0 => outages = 0, touches' = 0 => touches = 0,
         failed => failed',
         \A a \in DOMAIN Apps : \A j \in DoneItems(a)' :
           \/ j \in DoneItems(a)
           \/ Promise(Apps[a].policy, Apps[a].files[j])
  PROVE  Promised'
  <1>1. SUFFICES ASSUME ~failed', NEW a \in DOMAIN Apps, NEW j \in DoneItems(a)'
                 PROVE  Promise(Apps[a].policy, Apps[a].files[j])'
    BY DEF Promised
  <1>2. Promise(Apps[a].policy, Apps[a].files[j])
    BY <1>1 DEF AInv, Promised
  <1>3. QED BY <1>2, PromiseKept

\* The same files are done.
LEMMA SameDone ==
  ASSUME UNCHANGED <<completed, app>>, InItems <=> InItems', InItems => UNCHANGED todo,
         NEW a
  PROVE  DoneItems(a)' = DoneItems(a)
  BY DEF DoneItems

\* One more file is done.
LEMMA OneMoreDone ==
  ASSUME AInv, InItems, InItems', todo # <<>>, todo' = Tail(todo), UNCHANGED <<completed, app>>,
         NEW a \in DOMAIN Apps, NEW j \in DoneItems(a)',
         Promise(Apps[app].policy, Head(todo))
  PROVE  j \in DoneItems(a) \/ Promise(Apps[a].policy, Apps[a].files[j])
  <1>1. PICK n \in DOMAIN AppFiles :
          /\ AppFiles[n] = Head(todo)
          /\ Before(Tail(todo), AppFiles) = Before(todo, AppFiles) \cup {n}
    BY HeadFresh DEF AInv, CInv
  <1>2. CASE completed \/ a # app
    BY <1>2 DEF DoneItems
  <1>3. CASE ~completed /\ a = app
    <2>1. ~(a < app)
      BY <1>3, KubeAssumption
    <2>2. DoneItems(a)' = DoneItems(a) \cup {n}
      BY <1>1, <1>3, <2>1 DEF DoneItems, AppFiles
    <2>3. QED BY <1>1, <1>3, <2>2 DEF AppFiles
  <1>4. QED BY <1>2, <1>3

\* A call that ends with the file as promised, or with the loop having failed.
LEMMA PromisedExit ==
  ASSUME AInv, InCall, Exit, UNCHANGED <<wanted, live, completed, app, touched, aborts, outages, touches>>,
         failed => failed',
         call.then = "items" => failed' \/ Promise(Apps[app].policy, Head(todo))
  PROVE  Promised'
  <1>1. /\ InItems' <=> call.then = "items"
        /\ call.then = "items" => todo' = Tail(todo)
    BY CallEnds DEF AInv
  <1>2. (InItems <=> call.then = "items") /\ (InItems => todo # <<>>)
    BY DEF InItems, AInv, CInv, TypeOK, InCall
  <1>3. CASE call.then = "items" /\ failed'
    BY <1>3 DEF Promised
  <1>4. CASE call.then = "items" /\ Promise(Apps[app].policy, Head(todo))
    <2>1. ASSUME NEW a \in DOMAIN Apps, NEW j \in DoneItems(a)'
          PROVE  j \in DoneItems(a) \/ Promise(Apps[a].policy, Apps[a].files[j])
      BY <1>1, <1>2, <1>4, OneMoreDone
    <2>2. QED BY <2>1, PromisedFrame
  <1>5. CASE call.then # "items"
    <2>1. \A a : DoneItems(a)' = DoneItems(a)
      BY <1>1, <1>2, <1>5, SameDone
    <2>2. QED BY <2>1, PromisedFrame
  <1>6. QED BY <1>3, <1>4, <1>5

LEMMA PromisedExists == ASSUME AInv, CheckExists PROVE Promised'
  <1>1. /\ pc = "exists" /\ InCall
        /\ UNCHANGED <<wanted, file, live, app, changed, failed, completed, touched,
                       aborts, outages, touches>>
    BY DEF CheckExists, InCall, manifests, faults
  <1>2. CASE exists(call.objects) = (call.state = "present")
    <2>1. Exit
      BY <1>2 DEF CheckExists
    <2>2. ASSUME call.then = "items" PROVE Promise(Apps[app].policy, Head(todo))
      <3>1. /\ InItems /\ todo # <<>> /\ app \in DOMAIN Apps
        BY <1>1, <2>2, KubeAssumption DEF InItems, AInv, CInv, TypeOK, InCall
      <3>2. /\ call.state = State(Head(todo)) /\ call.state = "present"
            /\ call.objects = Objects[Head(todo)]
        BY <1>1, <2>2 DEF AInv, ItemCall, CInv, Cleaning, InCall
      <3>3. Head(todo) \notin changed /\ Apps[app].policy = "latest_or_present"
        BY <3>2 DEF State
      <3>4. \A o \in ObjectsOf(Head(todo)) : Exist(o)
        BY <1>2, <3>2 DEF exists, ObjectsOf
      <3>5. QED BY <3>1, <3>3, <3>4, ItemPromised
    <2>3. QED BY <1>1, <2>1, <2>2, PromisedExit
  <1>3. CASE ~(exists(call.objects) = (call.state = "present"))
    <2>1. pc' = "execute" /\ UNCHANGED <<call, todo>>
      BY <1>3 DEF CheckExists
    <2>2. InItems <=> InItems'
      BY <1>1, <2>1 DEF InItems, InCall
    <2>3. \A a : DoneItems(a)' = DoneItems(a)
      BY <1>1, <2>1, <2>2, SameDone
    <2>4. QED BY <1>1, <2>3, PromisedFrame
  <1>4. QED BY <1>2, <1>3

LEMMA DoneIsFile ==
  ASSUME AInv, NEW a \in DOMAIN Apps, NEW j \in DoneItems(a)
  PROVE  Apps[a].files[j] \in File
  <1>1. Apps[a].files \in Seq(File)
    BY AppPolicy
  <1>2. CASE j \in DOMAIN Apps[a].files
    BY <1>1, <1>2
  <1>3. CASE j \in Before(todo, Apps[a].files) /\ a = app /\ InItems
    <2>1. AppFiles \in Seq(File) /\ todo \in Seq(File) /\ IsRest(todo, AppFiles)
      BY <1>3, AppFilesType DEF InLoop, AInv, CInv, Loops, LoopRest, TypeOK
    <2>2. j \in DOMAIN Apps[a].files
      BY <1>3, <2>1, BeforeIndexes DEF AppFiles
    <2>3. QED BY <1>1, <2>2
  <1>4. QED BY <1>2, <1>3 DEF DoneItems

\* The object that is applied is as its own file says, and of no other file.
LEMMA PromisedApply == ASSUME AInv, ApplyObject PROVE Promised'
  <1>1. /\ InCall /\ Head(call.left) \in Object /\ call.left # <<>>
        /\ UNCHANGED InItems
        /\ UNCHANGED OtherVariables
    BY ObjectStep DEF AInv, CInv
  <1>2. UNCHANGED <<wanted, failed, completed, app, todo, touched, aborts, outages, touches>>
    BY <1>1 DEF OtherVariables
  <1>3. call.then = "items" /\ todo # <<>> /\ Head(todo) \in File
    BY ApplyStep DEF AInv
  <1>4. PICK o \in Object : o = Head(call.left)
    BY <1>1
  <1>5. o \in ObjectsOf(Head(todo))
    <2>1. /\ call.objects = Objects[Head(todo)] /\ IsRest(call.left, call.objects)
          /\ call.objects \in Seq(Object) /\ call.left \in Seq(Object)
      BY <1>1, <1>3, TypeParts DEF AInv, CInv, CallsType, CallType, ItemCall
    <2>2. \E n \in DOMAIN call.objects : call.objects[n] = Head(call.left)
      BY <1>1, <2>1, RestTail
    <2>3. QED BY <1>4, <2>1, <2>2 DEF ObjectsOf
  <1>6. ASSUME NEW f \in File, o \in ObjectsOf(f), live'[o] # live[o] PROVE Current(f, o)'
    <2>1. f = Head(todo)
      BY <1>3, <1>5, <1>6, ObjectsDiffer
    <2>2. api /\ live'[o] = Applied(o, file[Head(todo)])
      BY <1>4, <1>6, ApplyStep DEF AInv
    <2>3. file[Head(todo)] = wanted[Head(todo)]
      BY <1>1, <1>3, HeadFresh DEF AInv, CInv, InItems, Fresh
    <2>4. live'[o].by \in {"kubespray", "mixed"} /\ live'[o].version = wanted[f]
      BY <2>1, <2>2, <2>3 DEF Applied
    <2>5. QED BY <1>2, <2>4 DEF Current
  <1>7. \A p \in Object \ {o} : live'[p] = live[p]
    BY <1>4, ApplyStep DEF AInv, CInv, TypeOK
  <1>8. ASSUME ~failed', NEW a \in DOMAIN Apps, NEW j \in DoneItems(a)'
        PROVE  Promise(Apps[a].policy, Apps[a].files[j])'
    <2>1. j \in DoneItems(a)
      BY <1>1, <1>2, <1>8, SameDone
    <2>2. Apps[a].files[j] \in File
      BY <2>1, DoneIsFile
    <2>3. Promise(Apps[a].policy, Apps[a].files[j])
      BY <1>2, <1>8, <2>1 DEF AInv, Promised
    <2>4. \A p \in ObjectsOf(Apps[a].files[j]) : live'[p] = live[p] \/ Current(Apps[a].files[j], p)'
      BY <1>6, <1>7, <2>2, ObjectsOfType
    <2>5. QED BY <1>2, <2>3, <2>4, PromiseKept
  <1>9. QED BY <1>8 DEF Promised

LEMMA PromisedModule == ASSUME AInv, Module PROVE Promised'
  <1>1. CASE CheckExists
    BY <1>1, PromisedExists
  <1>2. CASE ApplyObject
    BY <1>2, PromisedApply
  <1>3. CASE DeleteObject
    <2>1. /\ InCall /\ ~InApps /\ ~InItems' /\ UNCHANGED <<app, completed>>
      BY <1>3, ObjectStep, DeleteStep DEF AInv, CInv, OtherVariables
    <2>2. app = 1 /\ ~completed
      BY <2>1 DEF AInv, Loops, Order, CInv, Cleaning, InCall
    <2>3. QED BY <2>1, <2>2, NothingDone
  <1>4. CASE Executed
    <2>1. /\ InCall /\ Exit /\ pc = "execute" /\ call.left = <<>> /\ ~call.error
          /\ UNCHANGED <<wanted, live, completed, app, touched, failed, aborts, outages, touches>>
      BY <1>4 DEF Executed, InCall, manifests, cluster, faults
    <2>2. ASSUME call.then = "items" PROVE Promise(Apps[app].policy, Head(todo))
      <3>1. InItems /\ todo # <<>>
        BY <2>1, <2>2 DEF InItems, AInv, CInv, TypeOK, InCall
      <3>2. QED BY <2>1, <2>2, <3>1, ItemApplied, ItemPromised
    <2>3. QED BY <2>1, <2>2, PromisedExit
  <1>5. CASE Retry
    <2>1. /\ InCall /\ Call(call.state, call.objects, call.then)
          /\ UNCHANGED <<wanted, live, completed, app, todo, touched, failed, aborts, outages, touches>>
      BY <1>5 DEF Retry, InCall, manifests, cluster, faults
    <2>2. /\ call.state \in {"present", "absent", "latest"} /\ call.objects \in Seq(Object)
          /\ call.then \in ThenTask
      BY <2>1 DEF InCall, AInv, CInv, TypeOK, ThenTask
    <2>3. InItems' <=> InItems
      BY <2>1, <2>2, CallStarts DEF InItems, InCall
    <2>4. \A a : DoneItems(a)' = DoneItems(a)
      BY <2>1, <2>3, SameDone
    <2>5. QED BY <2>1, <2>4, PromisedFrame
  <1>6. CASE ItemFails
    BY <1>6 DEF ItemFails, Promised
  <1>7. CASE TaskFails
    BY <1>7, RunEnds, NothingDone DEF TaskFails, EndRun
  <1>8. QED BY <1>1, <1>2, <1>3, <1>4, <1>5, <1>6, <1>7 DEF Module

LEMMA PromisedPlay == ASSUME AInv, Play PROVE Promised'
  <1>1. CASE ReadAnnotation \/ DeleteService
    <2>1. /\ ~InApps /\ ~InItems' /\ UNCHANGED <<app, completed>>
          /\ pc \in {"annotation", "delete_service"}
      BY <1>1, DnsTask DEF ReadAnnotation, DeleteService
    <2>2. app = 1 /\ ~completed
      BY <2>1 DEF AInv, Loops, Order, CInv, Cleaning
    <2>3. QED BY <2>1, <2>2, NothingDone
  <1>2. CASE StartApp \/ Render \/ Rendered
    <2>1. /\ UNCHANGED <<wanted, live, completed, failed, touched, aborts, outages, touches>>
          /\ ~InItems /\ (InItems' <=> pc' = "items")
      BY <1>2, AppTask DEF StartApp, Render, Rendered
    <2>2. UNCHANGED app
      BY <1>2 DEF StartApp, Render, Rendered
    <2>3. CASE StartApp \/ Render
      <3>1. ~InItems'
        BY <2>1, <2>3 DEF StartApp, Render
      <3>2. \A a : DoneItems(a)' = DoneItems(a)
        BY <2>1, <2>2, <3>1, SameDone
      <3>3. QED BY <2>1, <3>2, PromisedFrame
    <2>4. CASE Rendered
      <3>1. /\ pc = "render" /\ todo' = AppFiles /\ AppFiles \in Seq(File)
        BY <2>4, AppFilesType DEF Rendered, AppFiles, InLoop, AInv, CInv
      <3>2. Before(todo', AppFiles) = {}
        BY <3>1, RestAll
      <3>3. \A a \in DOMAIN Apps : DoneItems(a)' \subseteq DoneItems(a)
        BY <2>1, <2>2, <3>2 DEF DoneItems, AppFiles
      <3>4. QED BY <2>1, <3>3, PromisedFrame
    <2>5. QED BY <1>2, <2>3, <2>4
  <1>3. CASE SkipItem
    <2>1. /\ pc = "items" /\ todo # <<>> /\ todo' = Tail(todo)
          /\ State(Head(todo)) = "skipped" /\ UNCHANGED app
          /\ InItems /\ InItems'
          /\ UNCHANGED <<wanted, live, completed, failed, touched, aborts, outages, touches>>
      BY <1>3, AppTask DEF SkipItem
    <2>2. app \in DOMAIN Apps
      BY <2>1, KubeAssumption DEF AInv, CInv, TypeOK
    <2>3. Head(todo) \notin changed /\ Apps[app].policy = "if_changed"
      BY <2>1, <2>2, AppPolicy DEF State, Policy
    <2>4. Promise(Apps[app].policy, Head(todo))
      BY <2>1, <2>3, ItemPromised
    <2>5. ASSUME NEW a \in DOMAIN Apps, NEW j \in DoneItems(a)'
          PROVE  j \in DoneItems(a) \/ Promise(Apps[a].policy, Apps[a].files[j])
      BY <2>1, <2>4, OneMoreDone
    <2>6. QED BY <2>1, <2>5, PromisedFrame
  <1>4. CASE EndOfLoop
    <2>1. /\ pc = "items" /\ todo = <<>> /\ app' = app + 1 /\ pc' = "next_app"
          /\ InItems /\ ~InItems'
          /\ UNCHANGED <<wanted, live, completed, failed, touched, aborts, outages, touches>>
      BY <1>4, AppTask DEF EndOfLoop
    <2>2. Before(todo, AppFiles) = DOMAIN AppFiles
      BY <2>1, AppFilesType, RestNone DEF InLoop, AInv, CInv
    <2>3. ASSUME NEW a \in DOMAIN Apps PROVE a < app' <=> a < app \/ a = app
      <3>1. a \in Nat /\ app \in Nat
        BY AppPolicy DEF AInv, CInv, TypeOK
      <3>2. QED BY <2>1, <3>1
    <2>4. ASSUME NEW a \in DOMAIN Apps PROVE DoneItems(a)' \subseteq DoneItems(a)
      BY <2>1, <2>2, <2>3 DEF DoneItems, AppFiles
    <2>5. QED BY <2>1, <2>4, PromisedFrame
  <1>5. CASE NextItem
    <2>1. /\ InItems /\ InItems'
          /\ UNCHANGED <<wanted, live, completed, app, todo, failed, touched, aborts, outages, touches>>
      BY <1>5, ItemStarts DEF AInv, CInv
    <2>2. \A a : DoneItems(a)' = DoneItems(a)
      BY <2>1, SameDone
    <2>3. QED BY <2>1, <2>2, PromisedFrame
  <1>6. CASE LoopFails
    BY <1>6, RunEnds, NothingDone DEF LoopFails, EndRun
  <1>7. CASE RunCompletes
    <2>1. /\ pc = "next_app" /\ app > Len(Apps)
          /\ UNCHANGED <<wanted, live, touched, aborts, outages, touches>>
      BY <1>7 DEF RunCompletes, manifests, cluster, faults
    <2>2. ~failed
      BY <2>1 DEF AInv, Loops, Order, InItems, InCall
    <2>3. ASSUME NEW a \in DOMAIN Apps PROVE a < app
      BY <2>1, KubeAssumption DEF AInv, CInv, TypeOK
    <2>4. ASSUME NEW a \in DOMAIN Apps PROVE DoneItems(a)' \subseteq DoneItems(a)
      <3>1. DoneItems(a) = DOMAIN Apps[a].files
        BY <2>3 DEF DoneItems
      <3>2. DoneItems(a)' = DOMAIN Apps[a].files
        BY <1>7 DEF DoneItems, RunCompletes, EndRun
      <3>3. QED BY <3>1, <3>2
    <2>5. QED BY <2>1, <2>2, <2>4, PromisedFrame
  <1>8. QED BY <1>1, <1>2, <1>3, <1>4, <1>5, <1>6, <1>7 DEF Play

LEMMA PromisedOther ==
  ASSUME AInv,
         \/ StartRun \/ Interrupt \/ KubeadmDeploys \/ ApiUnreachable \/ ApiReturns
         \/ (\E f \in File : Reconfigure(f)) \/ (\E o \in Object : OthersDelete(o))
  PROVE  Promised'
  <1>1. CASE StartRun \/ KubeadmDeploys \/ (\E f \in File : Reconfigure(f))
    <2>1. /\ pc = "idle" /\ pc' \in {"idle", "annotation"} /\ app' = app /\ ~completed'
      BY <1>1 DEF StartRun, KubeadmDeploys, Reconfigure, play
    <2>2. app = 1
      BY <2>1 DEF AInv, Loops, Order, InApps, InItems, InCall
    <2>3. ~InItems'
      BY <2>1 DEF InItems, InCall
    <2>4. QED BY <2>1, <2>2, <2>3, NothingDone
  <1>2. CASE Interrupt
    BY <1>2, RunEnds, NothingDone DEF Interrupt, EndRun
  <1>3. ASSUME UNCHANGED play, UNCHANGED completed, NEW a PROVE DoneItems(a)' = DoneItems(a)
    BY <1>3, SamePlace, SameDone
  <1>4. Next
    BY DEF Next
  <1>5. CASE ApiUnreachable \/ ApiReturns
    <2>1. UNCHANGED <<wanted, live, play, completed, failed, touched>>
      BY <1>5, SamePlace DEF ApiUnreachable, ApiReturns, manifests
    <2>2. /\ aborts' = 0 => aborts = 0
          /\ outages' = 0 => outages = 0
          /\ touches' = 0 => touches = 0
      BY <1>4, FaultsCounted DEF AInv, CInv
    <2>3. QED BY <1>3, <2>1, <2>2, PromisedFrame
  <1>6. ASSUME NEW o \in Object, OthersDelete(o) PROVE Promised'
    <2>1. /\ UNCHANGED <<wanted, play, completed>> /\ touched' = touched \cup {o}
          /\ \A p \in Object \ {o} : live'[p] = live[p]
      BY <1>6 DEF OthersDelete, manifests, AInv, CInv, TypeOK
    <2>2. /\ aborts' = 0 => aborts = 0
          /\ outages' = 0 => outages = 0
          /\ touches' = 0 => touches = 0
      BY <1>4, FaultsCounted DEF AInv, CInv
    <2>3. UNCHANGED failed
      BY <2>1, SamePlace
    <2>4. ASSUME ~failed', NEW a \in DOMAIN Apps, NEW j \in DoneItems(a)'
          PROVE  Promise(Apps[a].policy, Apps[a].files[j])'
      <3>1. j \in DoneItems(a)
        BY <1>3, <2>1, <2>4
      <3>2. Promise(Apps[a].policy, Apps[a].files[j])
        BY <2>3, <2>4, <3>1 DEF AInv, Promised
      <3>3. \A p \in ObjectsOf(Apps[a].files[j]) \ touched' : live'[p] = live[p]
        BY <2>1, <3>1, DoneIsFile, ObjectsOfType
      <3>4. QED BY <2>1, <2>2, <3>2, <3>3, PromiseKept
    <2>5. QED BY <2>4 DEF Promised
  <1>7. QED BY <1>1, <1>2, <1>5, <1>6
-----------------------------------------------------------------------------
(* The theorems.                                                              *)

LEMMA AppliedInit == Init => AInv
  BY InitType, CleaningInit, MadeInit, LoopsInit, ItemCallInit, SteadyInit, PromisedInit
     DEF AInv, CInv

LEMMA AppliedStep == AInv /\ [Next]_vars => AInv'
  <1> SUFFICES ASSUME AInv, [Next]_vars PROVE AInv'
    OBVIOUS
  <1>1. CInv'
    BY CleaningStep DEF AInv
  <1>2. CASE Next
    <2>1. \/ Module \/ Play
          \/ \/ StartRun \/ Interrupt \/ KubeadmDeploys \/ ApiUnreachable \/ ApiReturns
             \/ (\E f \in File : Reconfigure(f)) \/ (\E o \in Object : OthersDelete(o))
      BY <1>2 DEF Next
    <2>2. Made'
      BY <2>1, MadeModule, MadePlay, MadeOther DEF AInv
    <2>3. Loops'
      BY <2>1, LoopsModule, LoopsPlay, LoopsOther DEF AInv
    <2>4. ItemCall'
      BY <1>2, ItemCallStep DEF AInv
    <2>5. Steady'
      BY <1>2, SteadyStep
    <2>6. Promised'
      BY <2>1, PromisedModule, PromisedPlay, PromisedOther
    <2>7. QED BY <1>1, <2>2, <2>3, <2>4, <2>5, <2>6 DEF AInv
  <1>3. CASE UNCHANGED vars
    <2>1. UNCHANGED <<wanted, file, live, api, missed, pc, app, todo, changed, call, retries,
                      failed, completed, touched, aborts, outages, touches>>
      BY <1>3 DEF vars, manifests, cluster, faults
    <2>2. UNCHANGED <<InCall, InItems, InApps, DnsCall, AfterDns>>
      BY <2>1 DEF InCall, InItems, InApps, DnsCall, AfterDns
    <2>3. Made'
      BY <2>1, <2>2, MadeFrame DEF AInv, Made
    <2>4. Loops'
      BY <2>1, <2>2, LoopsFrame DEF AInv, CInv, Loops, TouchesCounted
    <2>5. ItemCall'
      BY <2>1, <2>2, ItemCallFrame DEF AInv, CInv
    <2>6. Steady'
      <3>1. \A f \in File : Pending(f) => Pending(f)'
        BY <2>1, <2>2 DEF Pending, AppFiles
      <3>2. QED BY <2>1, <2>2, <3>1, SteadyFrame, SteadyIs DEF AInv, Steady, SteadyNow
    <2>7. Promised'
      BY <2>1, <2>2, SameDone, PromisedFrame
    <2>8. QED BY <1>1, <2>3, <2>4, <2>5, <2>6, <2>7 DEF AInv
  <1>4. QED BY <1>2, <1>3

LEMMA AppliedAlways == Spec => []AInv
  BY AppliedInit, AppliedStep, PTL DEF Spec

\* The files of a completed run are all done.
LEMMA CompletedPromise ==
  ASSUME AInv, completed, NEW policies, NEW f \in Files(policies)
  PROVE  \E policy \in policies : Promise(policy, f)
  <1>1. PICK a \in DOMAIN Apps : /\ Apps[a].policy \in policies
                                /\ \E j \in DOMAIN Apps[a].files : Apps[a].files[j] = f
    BY DEF Files
  <1>2. PICK j \in DOMAIN Apps[a].files : Apps[a].files[j] = f
    BY <1>1
  <1>3. ~failed
    BY DEF AInv, CInv, Cleaning, Loops, Order, InItems, InCall
  <1>4. Promise(Apps[a].policy, f)
    BY <1>2, <1>3 DEF AInv, Promised, DoneItems
  <1>5. QED BY <1>1, <1>4

\* kube.py and the roles that use it: a run that completes leaves every object of
\* a manifest in the cluster, if its task has a state for what did not change,
\* whatever part of the manifest was there, and whatever runs before it left
\* behind, but for the objects that others delete while it runs.
THEOREM CompletedRunsExist == Spec => []CompletedRunExists
  <1>1. ASSUME AInv PROVE CompletedRunExists
    <2>1. SUFFICES ASSUME completed, NEW f \in Files({"latest", "latest_or_present"}),
                          NEW o \in ObjectsOf(f) \ touched
                   PROVE  Exist(o)
      BY DEF CompletedRunExists
    <2>2. PICK policy \in {"latest", "latest_or_present"} : Promise(policy, f)
      BY <1>1, <2>1, CompletedPromise
    <2>3. QED BY <2>2 DEF Promise
  <1>2. QED BY <1>1, AppliedAlways, PTL

\* ... and as its manifest says: always for a task of state latest; if no run was
\* stopped between rendering and applying for those that look at what changed;
\* and if, besides, nobody touched the objects for those that skip the rest.
THEOREM CompletedRunsUpToDate == Spec => []CompletedRunUpToDate
  <1>1. ASSUME AInv PROVE CompletedRunUpToDate
    <2>1. ASSUME NEW policy, NEW f \in File, Promise(policy, f), Trusted(policy)
          PROVE  UpToDate(f)
      <3>1. ASSUME NEW o \in ObjectsOf(f) \ touched
            PROVE  /\ live[o].version = wanted[f]
                   /\ live[o].by = "kubespray" \/ o \in missed
        <4>1. Current(f, o) /\ o \in Object
          BY <2>1, <3>1, ObjectsOfType DEF Promise
        <4>2. live[o].by = "mixed" => o \in missed
          BY <1>1, <4>1 DEF AInv, Made, MergedMissed
        <4>3. QED BY <4>1, <4>2 DEF Current
      <3>2. QED BY <3>1 DEF UpToDate
    <2>2. ASSUME completed, NEW policy, NEW f \in Files({policy}), Trusted(policy)
          PROVE  UpToDate(f)
      <3>1. PICK p \in {policy} : Promise(p, f)
        BY <1>1, <2>2, CompletedPromise
      <3>2. f \in File
        BY <2>2 DEF Files
      <3>3. QED BY <2>1, <2>2, <3>1, <3>2
    <2>3. completed => \A f \in Files({"latest"}) : UpToDate(f)
      BY <2>2 DEF Trusted
    <2>4. completed /\ aborts = 0 /\ outages = 0 => \A f \in Files({"latest_or_present"}) : UpToDate(f)
      BY <2>2 DEF Trusted
    <2>5. completed /\ aborts = 0 /\ outages = 0 /\ touches = 0 => \A f \in Files({"if_changed"}) : UpToDate(f)
      BY <2>2 DEF Trusted
    <2>6. QED BY <2>3, <2>4, <2>5 DEF CompletedRunUpToDate
  <1>2. QED BY <1>1, AppliedAlways, PTL
=============================================================================
