-------------------------- MODULE KubeModuleProofs --------------------------
(***************************************************************************)
(* Proofs about KubeModule, for any objects, manifests and applications, any *)
(* number of retries, outages and interrupted runs.                          *)
(***************************************************************************)
EXTENDS KubeModule, TLAPS

\* Head, Tail and indexing of a sequence that is not empty.
LEMMA HeadTail ==
  ASSUME NEW S, NEW s \in Seq(S), s # <<>>
  PROVE  /\ Head(s) \in S /\ Tail(s) \in Seq(S)
         /\ Head(s) = s[1] /\ 1 \in DOMAIN s
         /\ \A i \in DOMAIN Tail(s) : i + 1 \in DOMAIN s /\ Tail(s)[i] = s[i + 1]
  OBVIOUS

LEMMA ElementType ==
  ASSUME NEW S, NEW s \in Seq(S), NEW i \in Nat \ {0}, i <= Len(s)
  PROVE  s[i] \in S
  OBVIOUS

\* The parameters of the applications.
LEMMA AppFacts ==
  ASSUME NEW i \in Nat \ {0}, i <= Len(Apps)
  PROVE  Apps[i].files \in Seq(File) /\ Apps[i].retries \in Nat
  <1>1. Apps \in Seq([files : Seq(File), policy : Policy, retries : Nat])
    BY KubeAssumption
  <1>2. Apps[i] \in [files : Seq(File), policy : Policy, retries : Nat]
    BY <1>1, ElementType
  <1>3. QED BY <1>2

LEMMA ObjectsType == ASSUME NEW f \in File PROVE Objects[f] \in Seq(Object)
  BY KubeAssumption

ThenTask == {"idle", "delete_service", "next_app", "items"}
CallType ==
  [state : {"none", "present", "absent", "latest"}, objects : Seq(Object),
   left : Seq(Object), error : BOOLEAN, then : ThenTask]

\* What a call and the end of one are made of.
LEMMA CallFacts ==
  ASSUME NEW state \in {"present", "absent", "latest"}, NEW objects \in Seq(Object),
         NEW then \in ThenTask, Call(state, objects, then)
  PROVE  /\ call' \in CallType
         /\ call'.state = state /\ call'.then = then
         /\ call'.objects = objects /\ call'.left = objects /\ call'.error = FALSE
         /\ pc' \in {"exists", "execute"}
  BY DEF Call, CallType

LEMMA NoCallType == NoCall \in CallType
  BY DEF NoCall, CallType, ThenTask
-----------------------------------------------------------------------------
(* The types, in three parts.                                                *)

ClusterType ==
  /\ wanted \in [File -> Nat] /\ file \in [File -> Nat]
  /\ live \in [Object -> [by : Creator, version : Nat]]
  /\ api \in BOOLEAN
  /\ touched \subseteq Object /\ missed \subseteq Object
  /\ aborts \in Nat /\ outages \in Nat /\ touches \in Nat

TaskType ==
  /\ pc \in {"idle", "annotation", "delete_service", "next_app", "render", "items",
             "exists", "execute"}
  /\ app \in Nat \ {0} /\ (pc \in {"render", "items"} => app <= Len(Apps))
  /\ todo \in Seq(File) /\ changed \subseteq File
  /\ retries \in Nat /\ failed \in BOOLEAN /\ completed \in BOOLEAN

CallsType ==
  /\ call \in CallType
  /\ pc \in {"exists", "execute"} => call.state # "none"
  /\ pc \in {"exists", "execute"} /\ call.then = "items" => app <= Len(Apps) /\ todo # <<>>
  /\ call.state \in {"present", "latest"} => call.then = "items"

LEMMA TypeParts == TypeOK <=> ClusterType /\ TaskType /\ CallsType
  BY DEF TypeOK, ClusterType, TaskType, CallsType, CallType, ThenTask

LEMMA InitType == Init => TypeOK
  <1> SUFFICES ASSUME Init PROVE TypeOK
    OBVIOUS
  <1>1. live \in [Object -> [by : Creator, version : Nat]]
    BY DEF Init, None, ByKubeadm, Creator
  <1>2. call \in CallType /\ call.state = "none"
    BY NoCallType DEF Init, NoCall
  <1>3. wanted \in [File -> Nat] /\ file \in [File -> Nat]
    BY DEF Init
  <1>4. ClusterType
    BY <1>1, <1>3 DEF Init, ClusterType
  <1>5. TaskType
    <2>1. todo \in Seq(File)
      BY DEF Init
    <2>2. retries \in Nat /\ failed \in BOOLEAN /\ completed \in BOOLEAN
      BY DEF Init
    <2>3. pc = "idle" /\ app = 1 /\ changed = {}
      BY DEF Init
    <2>4. QED BY <2>1, <2>2, <2>3 DEF TaskType
  <1>6. CallsType
    BY <1>2 DEF Init, CallsType
  <1>7. QED BY <1>4, <1>5, <1>6, TypeParts

\* A run that ends, and what goes on around it.
LEMMA EndRunType ==
  ASSUME TypeOK, NEW c \in BOOLEAN, EndRun(c), UNCHANGED <<manifests, cluster, touched>>,
         aborts' \in Nat, outages' \in Nat, touches' \in Nat
  PROVE  TypeOK'
  <1>1. call' \in CallType /\ call'.state = "none"
    BY NoCallType DEF EndRun, NoCall
  <1>2. ClusterType'
    BY TypeParts DEF ClusterType, manifests, cluster
  <1>3. TaskType'
    <2>1. todo' \in Seq(File)
      BY DEF EndRun
    <2>2. retries' \in Nat /\ failed' \in BOOLEAN /\ completed' \in BOOLEAN
      BY DEF EndRun
    <2>3. pc' = "idle" /\ app' = 1 /\ changed' = {}
      BY DEF EndRun
    <2>4. QED BY <2>1, <2>2, <2>3 DEF TaskType
  <1>4. CallsType'
    BY <1>1 DEF EndRun, CallsType
  <1>5. QED BY <1>2, <1>3, <1>4, TypeParts, PTL

\* The steps of the module.
LEMMA ModuleType == ASSUME TypeOK, Module PROVE TypeOK'
  <1> USE DEF ThenTask, CallType
  <1>1. call \in CallType
    BY DEF TypeOK
  <1>2. ASSUME Exit, pc \in {"exists", "execute"}
        PROVE  /\ call' \in CallType /\ pc' \in ThenTask /\ todo' \in Seq(File)
               /\ pc' # "render" /\ pc' \notin {"exists", "execute"}
               /\ call'.state = "none"
               /\ pc' = "items" => app <= Len(Apps)
    <2>1. call.then = "items" => Tail(todo) \in Seq(File)
      BY <1>2, HeadTail DEF TypeOK
    <2>2. QED BY <1>1, <1>2, <2>1, NoCallType DEF Exit, TypeOK, NoCall
  <1>3. CASE CheckExists
    <2>1. {call.objects[i] : i \in DOMAIN call.objects} \subseteq Object
      BY <1>1
    <2>2. missed' \subseteq Object
      BY <1>3, <2>1 DEF CheckExists, TypeOK
    <2>3. CASE exists(call.objects) = (call.state = "present")
      <3>1. Exit
        BY <1>3, <2>3 DEF CheckExists
      <3>2. QED BY <1>2, <1>3, <2>2, <3>1 DEF CheckExists, TypeOK, manifests, faults
    <2>4. CASE ~(exists(call.objects) = (call.state = "present"))
      BY <1>3, <2>2, <2>4 DEF CheckExists, TypeOK, manifests, faults
    <2>5. QED BY <2>3, <2>4
  <1>4. CASE ApplyObject \/ DeleteObject
    <2>1. PICK done \in BOOLEAN : ObjectDone(done)
      BY <1>4 DEF ApplyObject, DeleteObject, Exist, TypeOK
    <2>2. Head(call.left) \in Object /\ Tail(call.left) \in Seq(Object)
      BY <1>1, <1>4, HeadTail DEF ApplyObject, DeleteObject
    <2>3. call' = [call EXCEPT !.left = Tail(call.left), !.error = call.error \/ ~done]
      BY <2>1 DEF ObjectDone
    <2>4. /\ call' \in CallType
          /\ call'.state = call.state /\ call'.then = call.then
      BY <1>1, <2>2, <2>3
    <2>5. live' \in [Object -> [by : Creator, version : Nat]]
      <3>1. CASE ApplyObject
        <4>1. file[Head(todo)] \in Nat
          BY <1>1, <3>1, HeadTail DEF ApplyObject, TypeOK
        <4>2. QED BY <2>2, <3>1, <4>1 DEF ApplyObject, Applied, TypeOK, Creator
      <3>2. CASE DeleteObject
        BY <2>2, <3>2 DEF DeleteObject, None, TypeOK, Creator
      <3>3. QED BY <1>4, <3>1, <3>2
    <2>6. UNCHANGED <<wanted, file, api, missed, pc, app, todo, changed, retries, failed,
                      completed, touched, aborts, outages, touches>>
      BY <2>1 DEF ObjectDone, manifests, faults
    <2>7. ClusterType' /\ TaskType'
      BY <2>5, <2>6, TypeParts DEF ClusterType, TaskType
    <2>8. CallsType'
      BY <2>4, <2>6, TypeParts DEF CallsType
    <2>9. QED BY <2>7, <2>8, TypeParts, PTL
  <1>5. CASE Executed
    BY <1>2, <1>5 DEF Executed, TypeOK, manifests, cluster, faults
  <1>6. CASE Retry
    <2>1. /\ call' \in CallType /\ call'.state = call.state /\ call'.then = call.then
          /\ pc' \in {"exists", "execute"}
      <3>1. call.state \in {"present", "absent", "latest"} /\ call.then \in ThenTask
            /\ call.objects \in Seq(Object) /\ Call(call.state, call.objects, call.then)
        BY <1>1, <1>6 DEF Retry, TypeOK
      <3>2. QED BY <3>1, CallFacts
    <2>2. retries' \in Nat
      BY <1>6 DEF Retry, TypeOK
    <2>3. QED BY <1>6, <2>1, <2>2 DEF Retry, TypeOK, manifests, cluster, faults
  <1>7. CASE ItemFails
    BY <1>2, <1>7 DEF ItemFails, TypeOK, manifests, cluster, faults
  <1>8. CASE TaskFails
    BY <1>8, EndRunType DEF TaskFails, TypeOK, faults
  <1>9. QED BY <1>3, <1>4, <1>5, <1>6, <1>7, <1>8 DEF Module

\* The tasks of the play.
LEMMA PlayType == ASSUME TypeOK, Play PROVE TypeOK'
  <1> USE DEF ThenTask, CallType
  <1>1. ASSUME NEW state \in {"present", "absent", "latest"}, NEW objects \in Seq(Object),
               NEW then \in ThenTask, Call(state, objects, then),
               then = "items" => app <= Len(Apps) /\ todo # <<>>,
               state \in {"present", "latest"} => then = "items",
               retries' \in Nat,
               UNCHANGED <<manifests, cluster, app, todo, changed, failed, completed, touched, faults>>
        PROVE  TypeOK'
    <2>1. /\ call' \in CallType /\ call'.state = state /\ call'.then = then
          /\ pc' \in {"exists", "execute"}
      BY <1>1, CallFacts
    <2>2. QED BY <1>1, <2>1 DEF TypeOK, manifests, cluster, faults
  <1>2. <<Dns>> \in Seq(Object) /\ <<DnsService>> \in Seq(Object)
    BY KubeAssumption
  <1>3. CASE ReadAnnotation
    <2>1. CASE pc' = "delete_service" /\ UNCHANGED call
      BY <1>3, <2>1 DEF ReadAnnotation, TypeOK, manifests, cluster, faults
    <2>2. CASE Call("absent", <<Dns>>, "delete_service")
      BY <1>1, <1>2, <1>3, <2>2 DEF ReadAnnotation, TypeOK
    <2>3. QED BY <1>3, <2>1, <2>2 DEF ReadAnnotation
  <1>4. CASE DeleteService
    BY <1>1, <1>2, <1>4 DEF DeleteService, TypeOK
  <1>5. CASE StartApp
    BY <1>5, AppFacts DEF StartApp, TypeOK, manifests, cluster, faults
  <1>6. CASE Render
    <2>1. Head(todo) \in File /\ Tail(todo) \in Seq(File)
      BY <1>6, HeadTail DEF Render, TypeOK
    <2>2. file' \in [File -> Nat] /\ changed' \subseteq File
      BY <1>6, <2>1 DEF Render, TypeOK
    <2>3. QED BY <1>6, <2>1, <2>2 DEF Render, TypeOK, cluster, faults
  <1>7. CASE Rendered
    BY <1>7, AppFacts DEF Rendered, TypeOK, manifests, cluster, faults
  <1>8. CASE NextItem
    <2>1. Head(todo) \in File
      BY <1>8, HeadTail DEF NextItem, TypeOK
    <2>2. State(Head(todo)) \in {"present", "latest"}
      BY <1>8 DEF NextItem, State
    <2>3. Objects[Head(todo)] \in Seq(Object)
      BY <2>1, ObjectsType
    <2>4. retries' \in Nat
      BY <1>8, AppFacts DEF NextItem, TypeOK
    <2>5. /\ Call(State(Head(todo)), Objects[Head(todo)], "items")
          /\ app <= Len(Apps) /\ todo # <<>>
          /\ UNCHANGED <<manifests, cluster, app, todo, changed, failed, completed, touched, faults>>
      BY <1>8 DEF NextItem, TypeOK
    <2>6. QED BY <1>1, <2>2, <2>3, <2>4, <2>5
  <1>9. CASE SkipItem
    BY <1>9, HeadTail DEF SkipItem, TypeOK, manifests, cluster, faults
  <1>10. CASE EndOfLoop
    BY <1>10 DEF EndOfLoop, TypeOK, manifests, cluster, faults
  <1>11. CASE LoopFails
    BY <1>11, EndRunType DEF LoopFails, TypeOK, faults
  <1>12. CASE RunCompletes
    BY <1>12, EndRunType DEF RunCompletes, TypeOK, faults
  <1>13. QED
    BY <1>3, <1>4, <1>5, <1>6, <1>7, <1>8, <1>9, <1>10, <1>11, <1>12 DEF Play

\* A run that begins, and what others do.
LEMMA OtherType ==
  ASSUME TypeOK,
         \/ StartRun \/ Interrupt \/ KubeadmDeploys \/ ApiUnreachable \/ ApiReturns
         \/ (\E f \in File : Reconfigure(f)) \/ (\E o \in Object : OthersDelete(o))
  PROVE  TypeOK'
  <1> USE TypeParts
  <1>1. ASSUME ClusterType', UNCHANGED play, completed' \in BOOLEAN
        PROVE  TypeOK'
    <2>1. TaskType'
      BY <1>1 DEF play, TaskType
    <2>2. CallsType'
      BY <1>1 DEF play, CallsType
    <2>3. QED BY <1>1, <2>1, <2>2, PTL
  <1>2. CASE StartRun
    <2>1. ClusterType'
      BY <1>2 DEF StartRun, ClusterType, manifests, faults
    <2>2. TaskType'
      BY <1>2 DEF StartRun, TaskType
    <2>3. CallsType'
      BY <1>2 DEF StartRun, CallsType
    <2>4. QED BY <2>1, <2>2, <2>3, PTL
  <1>3. CASE Interrupt
    <2>1. EndRun(FALSE) /\ UNCHANGED <<manifests, cluster, touched>>
      BY <1>3 DEF Interrupt
    <2>2. aborts' \in Nat /\ outages' \in Nat /\ touches' \in Nat
      BY <1>3 DEF Interrupt, ClusterType
    <2>3. QED BY <2>1, <2>2, EndRunType
  <1>4. CASE KubeadmDeploys
    <2>1. live' \in [Object -> [by : Creator, version : Nat]]
      BY <1>4 DEF KubeadmDeploys, ByKubeadm, Creator, ClusterType
    <2>2. ClusterType'
      BY <1>4, <2>1 DEF KubeadmDeploys, ClusterType, manifests
    <2>3. UNCHANGED play /\ completed' \in BOOLEAN
      BY <1>4 DEF KubeadmDeploys
    <2>4. QED BY <1>1, <2>2, <2>3
  <1>5. CASE ApiUnreachable \/ ApiReturns
    <2>1. api' \in BOOLEAN
      BY <1>5 DEF ApiUnreachable, ApiReturns
    <2>2. aborts' \in Nat /\ outages' \in Nat /\ touches' \in Nat
      BY <1>5 DEF ApiUnreachable, ApiReturns, ClusterType, faults
    <2>3. UNCHANGED <<wanted, file, live, missed, play, completed, touched>>
      BY <1>5 DEF ApiUnreachable, ApiReturns, manifests
    <2>4. ClusterType'
      BY <2>1, <2>2, <2>3 DEF ClusterType
    <2>5. completed' \in BOOLEAN
      BY <2>3 DEF TaskType
    <2>6. UNCHANGED play
      BY <2>3
    <2>7. QED BY <1>1, <2>4, <2>5, <2>6
  <1>6. ASSUME NEW f \in File, Reconfigure(f) PROVE TypeOK'
    <2>1. ClusterType'
      BY <1>6 DEF Reconfigure, ClusterType, cluster, faults
    <2>2. QED BY <1>1, <1>6, <2>1 DEF Reconfigure
  <1>7. ASSUME NEW o \in Object, OthersDelete(o) PROVE TypeOK'
    <2>1. live' \in [Object -> [by : Creator, version : Nat]]
      BY <1>7 DEF OthersDelete, None, Creator, ClusterType
    <2>2. ClusterType'
      BY <1>7, <2>1 DEF OthersDelete, ClusterType, manifests
    <2>3. QED BY <1>1, <1>7, <2>2 DEF OthersDelete, TaskType
  <1>8. QED BY <1>2, <1>3, <1>4, <1>5, <1>6, <1>7

LEMMA TypeStep == TypeOK /\ [Next]_vars => TypeOK'
  <1> SUFFICES ASSUME TypeOK, [Next]_vars PROVE TypeOK'
    OBVIOUS
  <1>1. CASE UNCHANGED vars
    BY <1>1 DEF vars, manifests, cluster, faults, TypeOK
  <1>2. CASE Next
    BY <1>2, ModuleType, PlayType, OtherType DEF Next
  <1>3. QED BY <1>1, <1>2

\* Every variable has its type, and a call of the module for a file of an
\* application always has one: what ApplyObject takes from the file is there.
THEOREM ModuleTypeCorrect == Spec => []TypeOK
  BY InitType, TypeStep, PTL DEF Spec
-----------------------------------------------------------------------------
(* The service of kubeadm.                                                   *)

Cleaned == ~Exist(DnsService) \/ DnsService \in missed

\* From the deletion of the service on it is gone, or was missed; a deletion
\* that is under way is of that service, and of nothing else.
Cleaning ==
  /\ completed => pc = "idle"
  /\ completed \/ pc \in {"next_app", "render", "items"} => Cleaned
  /\ pc \in {"exists", "execute"} =>
       /\ call.then \in {"delete_service", "next_app", "items"}
       /\ call.then = "items" =>
            /\ Cleaned /\ call.state \in {"present", "latest"}
            /\ \A i \in DOMAIN call.objects : call.objects[i] # DnsService
            /\ \A i \in DOMAIN call.left : call.left[i] # DnsService
       /\ call.then # "items" => call.state = "absent"
       /\ call.then = "next_app" =>
            /\ call.objects = <<DnsService>>
            /\ call.left = <<DnsService>> \/ (call.left = <<>> /\ (call.error \/ Cleaned))

CInv == TypeOK /\ Cleaning

LEMMA CleaningInit == Init => Cleaning
  BY DEF Init, Cleaning

\* A call that begins.
LEMMA CleaningCall ==
  ASSUME NEW state \in {"present", "absent", "latest"}, NEW objects \in Seq(Object),
         NEW then \in {"delete_service", "next_app", "items"}, Call(state, objects, then),
         ~completed',
         then = "items" => /\ Cleaned' /\ state # "absent"
                           /\ \A i \in DOMAIN objects : objects[i] # DnsService,
         then # "items" => state = "absent",
         then = "next_app" => objects = <<DnsService>>
  PROVE  Cleaning'
  <1>1. /\ call'.state = state /\ call'.then = then
        /\ call'.objects = objects /\ call'.left = objects
        /\ pc' \in {"exists", "execute"}
    BY CallFacts DEF ThenTask
  <1>2. QED BY <1>1 DEF Cleaning

\* A run that ends without being completed.
LEMMA CleaningEnd == ASSUME EndRun(FALSE) PROVE Cleaning'
  BY DEF EndRun, Cleaning

LEMMA CleaningModule == ASSUME CInv, Module PROVE Cleaning'
  <1> USE DEF CInv
  <1>1. call \in CallType /\ (pc \in {"exists", "execute"} => ~completed)
    BY DEF TypeOK, Cleaning, CallType, ThenTask
  <1>2. ASSUME Exit, pc \in {"exists", "execute"}, UNCHANGED completed,
               call.then \in {"next_app", "items"} => Cleaned'
        PROVE  Cleaning'
    BY <1>1, <1>2 DEF Exit, Cleaning
  <1>3. CASE CheckExists
    <2>1. pc = "exists" /\ UNCHANGED <<live, completed>>
      BY <1>3 DEF CheckExists
    <2>2. missed \subseteq missed' /\ (Cleaned => Cleaned')
      BY <1>3, <2>1 DEF CheckExists, Cleaned, Exist
    <2>3. CASE exists(call.objects) = (call.state = "present")
      <3>1. Exit
        BY <1>3, <2>3 DEF CheckExists
      <3>2. CASE call.then = "next_app"
        <4>1. call.objects = <<DnsService>> /\ call.state = "absent"
          BY <2>1, <3>2 DEF Cleaning
        <4>2. 1 \in DOMAIN call.objects /\ call.objects[1] = DnsService
          BY <4>1
        <4>3. api => ~Exist(DnsService)
          BY <2>3, <4>1 DEF exists
        <4>4. ~api /\ Exist(DnsService) => DnsService \in missed'
          <5>1. SUFFICES ASSUME ~api, Exist(DnsService) PROVE DnsService \in missed'
            OBVIOUS
          <5>2. missed' = missed \cup {o \in {call.objects[i] : i \in DOMAIN call.objects} : Exist(o)}
            BY <1>3, <2>3, <4>1, <5>1 DEF CheckExists
          <5>3. QED BY <4>2, <5>1, <5>2
        <4>5. Cleaned'
          BY <2>1, <4>3, <4>4 DEF Cleaned, Exist
        <4>6. QED BY <1>2, <2>1, <3>1, <4>5
      <3>3. CASE call.then # "next_app"
        <4>1. call.then = "items" => Cleaned'
          BY <2>1, <2>2 DEF Cleaning
        <4>2. QED BY <1>2, <2>1, <3>1, <3>3, <4>1
      <3>4. QED BY <3>2, <3>3
    <2>4. CASE ~(exists(call.objects) = (call.state = "present"))
      <3>1. pc' = "execute" /\ UNCHANGED <<call, missed>>
        BY <1>3, <2>4 DEF CheckExists
      <3>2. QED BY <2>1, <2>2, <3>1 DEF Cleaning
    <2>5. QED BY <2>3, <2>4
  <1>4. CASE ApplyObject
    <2>1. PICK done \in BOOLEAN : ObjectDone(done)
      BY <1>4 DEF ApplyObject, TypeOK
    <2>2. /\ pc = "execute" /\ call.state # "absent" /\ call.then = "items"
          /\ call.left \in Seq(Object) /\ call.left # <<>>
      BY <1>1, <1>4 DEF ApplyObject, Cleaning, CallType
    <2>3. /\ call' = [call EXCEPT !.left = Tail(call.left), !.error = call.error \/ ~done]
          /\ UNCHANGED <<pc, missed, completed>>
      BY <2>1 DEF ObjectDone
    <2>4. Head(call.left) # DnsService
      BY <2>2, HeadTail DEF Cleaning
    <2>5. Cleaned'
      <3>1. Cleaned
        BY <2>2 DEF Cleaning
      <3>2. live'[DnsService] = live[DnsService]
        BY <1>4, <2>4, KubeAssumption DEF ApplyObject, TypeOK
      <3>3. QED BY <2>3, <3>1, <3>2 DEF Cleaned, Exist
    <2>6. \A i \in DOMAIN Tail(call.left) : Tail(call.left)[i] # DnsService
      BY <2>2, HeadTail DEF Cleaning
    <2>7. /\ call'.left = Tail(call.left) /\ call'.then = "items"
          /\ call'.state = call.state /\ call'.objects = call.objects
      BY <1>1, <2>2, <2>3 DEF CallType
    <2>8. QED BY <1>1, <2>2, <2>3, <2>5, <2>6, <2>7 DEF Cleaning
  <1>5. CASE DeleteObject
    <2>1. PICK done \in BOOLEAN : done = (api /\ Exist(Head(call.left))) /\ ObjectDone(done)
      BY <1>5 DEF DeleteObject, Exist, TypeOK
    <2>2. /\ pc = "execute" /\ call.state = "absent"
          /\ call.left # <<>> /\ call.then \in {"delete_service", "next_app"}
      BY <1>5 DEF DeleteObject, Cleaning
    <2>3. /\ call' = [call EXCEPT !.left = Tail(call.left), !.error = call.error \/ ~done]
          /\ UNCHANGED <<pc, missed, completed>>
      BY <2>1 DEF ObjectDone
    <2>4. /\ call'.left = Tail(call.left) /\ call'.error = (call.error \/ ~done)
          /\ call'.then = call.then /\ call'.state = call.state /\ call'.objects = call.objects
      BY <1>1, <2>3 DEF CallType
    <2>5. CASE call.then = "next_app"
      <3>1. call.left = <<DnsService>>
        BY <2>2, <2>5 DEF Cleaning
      <3>2. Head(call.left) = DnsService /\ Tail(call.left) = <<>>
        BY <3>1
      <3>3. done => Cleaned'
        <4>1. done => live'[DnsService] = None
          BY <1>5, <2>1, <3>2, KubeAssumption DEF DeleteObject, TypeOK
        <4>2. QED BY <4>1 DEF Cleaned, Exist, None
      <3>4. call'.error \/ Cleaned'
        BY <2>4, <3>3
      <3>5. QED BY <1>1, <2>2, <2>3, <2>4, <2>5, <3>2, <3>4 DEF Cleaning
    <2>6. CASE call.then = "delete_service"
      BY <1>1, <2>2, <2>3, <2>4, <2>6 DEF Cleaning
    <2>7. QED BY <2>2, <2>5, <2>6
  <1>6. CASE Executed
    <2>1. pc = "execute" /\ call.left = <<>> /\ ~call.error /\ UNCHANGED <<live, missed, completed>>
      BY <1>6 DEF Executed, cluster
    <2>2. call.then \in {"next_app", "items"} => Cleaned
      BY <2>1 DEF Cleaning
    <2>3. QED BY <1>2, <1>6, <2>1, <2>2 DEF Executed, Cleaned, Exist
  <1>7. CASE Retry
    <2>1. /\ Call(call.state, call.objects, call.then)
          /\ pc = "execute" /\ UNCHANGED <<live, missed, completed>>
      BY <1>7 DEF Retry, cluster
    <2>2. /\ call.state \in {"present", "absent", "latest"} /\ call.objects \in Seq(Object)
          /\ call.then \in {"delete_service", "next_app", "items"}
      BY <1>1, <2>1 DEF Cleaning, TypeOK, CallType
    <2>3. /\ call.then = "items" => /\ Cleaned' /\ call.state # "absent"
                                   /\ \A i \in DOMAIN call.objects : call.objects[i] # DnsService
          /\ call.then # "items" => call.state = "absent"
          /\ call.then = "next_app" => call.objects = <<DnsService>>
      BY <2>1 DEF Cleaning, Cleaned, Exist
    <2>4. QED BY <1>1, <2>1, <2>2, <2>3, CleaningCall
  <1>8. CASE ItemFails
    <2>1. pc = "execute" /\ call.then = "items" /\ Exit /\ UNCHANGED <<live, missed, completed>>
      BY <1>8 DEF ItemFails, cluster
    <2>2. Cleaned'
      BY <2>1 DEF Cleaning, Cleaned, Exist
    <2>3. QED BY <1>2, <2>1, <2>2
  <1>9. CASE TaskFails
    BY <1>9, CleaningEnd DEF TaskFails
  <1>10. QED BY <1>3, <1>4, <1>5, <1>6, <1>7, <1>8, <1>9 DEF Module

LEMMA CleaningPlay == ASSUME CInv, Play PROVE Cleaning'
  <1> USE DEF CInv
  <1>1. ASSUME UNCHANGED <<live, missed>> PROVE Cleaned <=> Cleaned'
    BY <1>1 DEF Cleaned, Exist
  <1>2. <<Dns>> \in Seq(Object) /\ <<DnsService>> \in Seq(Object)
    BY KubeAssumption
  <1>3. CASE ReadAnnotation
    <2>1. pc = "annotation" /\ UNCHANGED completed /\ ~completed
      BY <1>3 DEF ReadAnnotation, Cleaning
    <2>2. CASE pc' = "delete_service" /\ UNCHANGED call
      BY <2>1, <2>2 DEF Cleaning
    <2>3. CASE Call("absent", <<Dns>>, "delete_service")
      BY <1>2, <2>1, <2>3, CleaningCall
    <2>4. QED BY <1>3, <2>2, <2>3 DEF ReadAnnotation
  <1>4. CASE DeleteService
    <2>1. Call("absent", <<DnsService>>, "next_app") /\ ~completed'
      BY <1>4 DEF DeleteService, Cleaning
    <2>2. QED BY <1>2, <2>1, CleaningCall
  <1>5. CASE StartApp \/ Render \/ Rendered \/ SkipItem \/ EndOfLoop
    <2>1. /\ pc \in {"next_app", "render", "items"} /\ pc' \in {"next_app", "render", "items"}
          /\ UNCHANGED <<live, missed, completed>>
      BY <1>5 DEF StartApp, Render, Rendered, SkipItem, EndOfLoop, cluster
    <2>2. QED BY <1>1, <2>1 DEF Cleaning
  <1>6. CASE NextItem
    <2>1. /\ pc = "items" /\ todo # <<>> /\ State(Head(todo)) # "skipped"
          /\ Call(State(Head(todo)), Objects[Head(todo)], "items")
          /\ UNCHANGED <<live, missed, completed>>
      BY <1>6 DEF NextItem, cluster
    <2>2. Head(todo) \in File
      BY <2>1, HeadTail DEF TypeOK
    <2>3. State(Head(todo)) \in {"present", "latest"}
      BY <2>1 DEF State
    <2>4. /\ Objects[Head(todo)] \in Seq(Object)
          /\ \A i \in DOMAIN Objects[Head(todo)] : Objects[Head(todo)][i] # DnsService
      BY <2>2, ObjectsType, KubeAssumption
    <2>5. Cleaned' /\ ~completed'
      BY <1>1, <2>1 DEF Cleaning
    <2>6. QED BY <2>1, <2>3, <2>4, <2>5, CleaningCall
  <1>7. CASE LoopFails
    BY <1>7, CleaningEnd DEF LoopFails
  <1>8. CASE RunCompletes
    <2>1. Cleaned'
      BY <1>1, <1>8 DEF RunCompletes, Cleaning, cluster
    <2>2. QED BY <1>8, <2>1 DEF RunCompletes, EndRun, Cleaning
  <1>9. QED BY <1>3, <1>4, <1>5, <1>6, <1>7, <1>8 DEF Play

LEMMA CleaningOther ==
  ASSUME CInv,
         \/ StartRun \/ Interrupt \/ KubeadmDeploys \/ ApiUnreachable \/ ApiReturns
         \/ (\E f \in File : Reconfigure(f)) \/ (\E o \in Object : OthersDelete(o))
  PROVE  Cleaning'
  <1> USE DEF CInv
  <1>1. CASE StartRun
    BY <1>1 DEF StartRun, Cleaning
  <1>2. CASE Interrupt
    BY <1>2, CleaningEnd DEF Interrupt
  <1>3. CASE KubeadmDeploys
    BY <1>3 DEF KubeadmDeploys, Cleaning, play
  <1>4. ASSUME UNCHANGED play, completed' => completed, Cleaned => Cleaned'
        PROVE  Cleaning'
    BY <1>4 DEF Cleaning, play
  <1>5. CASE ApiUnreachable \/ ApiReturns
    BY <1>4, <1>5 DEF ApiUnreachable, ApiReturns, Cleaned, Exist
  <1>6. ASSUME NEW f \in File, Reconfigure(f) PROVE Cleaning'
    BY <1>4, <1>6 DEF Reconfigure, cluster, Cleaned, Exist
  <1>7. ASSUME NEW o \in Object, OthersDelete(o) PROVE Cleaning'
    <2>1. Cleaned => Cleaned'
      BY <1>7, KubeAssumption DEF OthersDelete, Cleaned, Exist, None, TypeOK
    <2>2. QED BY <1>4, <1>7, <2>1 DEF OthersDelete
  <1>8. QED BY <1>1, <1>2, <1>3, <1>5, <1>6, <1>7

LEMMA CleaningStep == CInv /\ [Next]_vars => CInv'
  <1> SUFFICES ASSUME CInv, [Next]_vars PROVE CInv'
    OBVIOUS
  <1>1. TypeOK'
    BY TypeStep DEF CInv
  <1>2. CASE UNCHANGED vars
    BY <1>1, <1>2 DEF vars, manifests, cluster, faults, CInv, Cleaning, Cleaned, Exist
  <1>3. CASE Next
    BY <1>1, <1>3, CleaningModule, CleaningPlay, CleaningOther DEF Next, CInv
  <1>4. QED BY <1>2, <1>3

\* cleanup_dns.yml: after a run that completes the service of kubeadm is gone,
\* whatever was interrupted, retried or deleted by others, unless the API server
\* was unreachable when kube.py asked whether it exists.
THEOREM CompletedRunsClean == Spec => []CompletedRunCleans
  <1>1. Init => CInv
    BY InitType, CleaningInit DEF CInv
  <1>2. CInv => CompletedRunCleans
    BY DEF CInv, Cleaning, CompletedRunCleans, Cleaned
  <1>3. QED BY <1>1, <1>2, CleaningStep, PTL DEF Spec
=============================================================================
