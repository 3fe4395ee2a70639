----------------------------- MODULE KubeModule -----------------------------
(***************************************************************************)
(* library/kube.py, the module through which the playbooks hand objects to   *)
(* the API server, under the play that uses it for the cluster's             *)
(* applications: kubernetes-apps/ansible removes what kubeadm deployed for   *)
(* DNS and starts its own resources; metallb and the storage classes render  *)
(* manifests and decide from what changed whether to apply them.             *)
(*                                                                           *)
(* kubectl sends objects one at a time; others change objects, the API       *)
(* server may be unreachable, and the run may stop between any two steps.    *)
(* A loop of Ansible goes on after an item that failed and fails at its end. *)
(*                                                                           *)
(* Left out: the states reloaded (the same as latest) and stopped (of a      *)
(* kubectl command that is gone), which no task uses.                        *)
(***************************************************************************)
EXTENDS Naturals, Sequences

CONSTANTS
  Object,
  File,
  Objects,       \* Objects[f]: the sequence of objects in a manifest
  Dns,           \* the deployment coredns, which kubeadm and kubespray both make
  DnsService,    \* the service kube-dns, of kubeadm only
  Apps,          \* the applications in the order of the play
  MaxVersion,    \* bound: configurations of one manifest
  MaxAborts,     \* bound: interrupted runs
  MaxOutages,    \* bound: times the API server becomes unreachable
  MaxTouches     \* bound: changes that others make to objects

Policy == {"latest", "latest_or_present", "if_changed"}
Creator == {"nobody", "kubeadm", "kubespray", "mixed"}

ASSUME KubeAssumption ==
  /\ Objects \in [File -> Seq(Object)]
  /\ {Dns, DnsService} \subseteq Object /\ Dns # DnsService
  /\ \A f \in File : \A i \in DOMAIN Objects[f] : Objects[f][i] # DnsService
  \* no template describes an object of another one
  /\ \A f, g \in File : \A i \in DOMAIN Objects[f], j \in DOMAIN Objects[g] :
       Objects[f][i] = Objects[g][j] => f = g
  /\ Apps \in Seq([files : Seq(File), policy : Policy, retries : Nat])
  /\ {MaxVersion, MaxAborts, MaxOutages, MaxTouches} \subseteq Nat

VARIABLES
  wanted,        \* wanted[f]: version of a manifest the inventory asks for
  file,          \* file[f]: version of the rendered file, 0 if there is none
  live,          \* live[o]: who made the object, from which version
  api,           \* whether the API server answers
  pc,            \* the task of the play, or the step of the module
  app,           \* the application whose tasks are run
  todo,          \* the files the current loop has not done
  changed,       \* registered: the files that rendering has changed
  call,          \* the call of the module
  retries,       \* how often it may still be repeated
  failed,        \* an item of the loop has failed
  completed,     \* the last run was completed, and nothing was asked for since
  touched,       \* objects that others have deleted since the run began
  missed,        \* objects this run was to delete when a read failed, and what
                 \* was merged with such an object ever since
  aborts, outages, touches

cluster == <<live, api, missed>>
manifests == <<wanted, file>>
faults == <<aborts, outages, touches>>
vars == <<manifests, cluster, pc, app, todo, changed, call, retries, failed,
          completed, touched, faults>>

None == [by |-> "nobody", version |-> 0]
ByKubeadm == [by |-> "kubeadm", version |-> 0]
Exist(o) == live[o].by # "nobody"

\* left: the objects kubectl has not done.  then: the task that follows.
NoCall == [state |-> "none", objects |-> <<>>, left |-> <<>>, error |-> FALSE, then |-> "idle"]

Init ==
  /\ wanted = [f \in File |-> 1] /\ file = [f \in File |-> 0]
  /\ live \in {[o \in Object |-> IF o \in made THEN ByKubeadm ELSE None] :
                 made \in SUBSET {Dns, DnsService}}
  /\ api = TRUE
  /\ pc = "idle" /\ app = 1 /\ todo = <<>> /\ changed = {}
  /\ call = NoCall /\ retries = 0 /\ failed = FALSE
  /\ completed = FALSE /\ touched = {} /\ missed = {}
  /\ aborts = 0 /\ outages = 0 /\ touches = 0
-----------------------------------------------------------------------------
(* The module.                                                               *)

\* __init__ and main: present and absent begin with exists, latest does not.
Call(state, objects, then) ==
  /\ call' = [state |-> state, objects |-> objects, left |-> objects, error |-> FALSE, then |-> then]
  /\ pc' = IF state = "latest" THEN "execute" ELSE "exists"

\* exit_json
Exit ==
  /\ call' = NoCall
  /\ pc' = call.then
  /\ todo' = IF call.then = "items" THEN Tail(todo) ELSE todo

\* Mutant: one object of a manifest is enough.
exists_AnyObject(objects) == api /\ \E i \in DOMAIN objects : Exist(objects[i])

\* 'kubectl get' fails if an object is missing, and if the server is: both
\* are "does not exist".
exists(objects) == api /\ \A i \in DOMAIN objects : Exist(objects[i])

\* create(check=True) when the state is present, delete when it is absent.
CheckExists ==
  /\ pc = "exists"
  /\ IF exists(call.objects) = (call.state = "present")
     THEN /\ Exit
          /\ missed' = IF call.state = "absent" /\ ~api
                       THEN missed \cup {o \in {call.objects[i] : i \in DOMAIN call.objects} : Exist(o)}
                       ELSE missed
     ELSE /\ pc' = "execute"
          /\ UNCHANGED <<call, todo, missed>>
  /\ UNCHANGED <<manifests, live, api, app, changed, retries, failed, completed, touched, faults>>

\* What 'kubectl apply' makes of an object: one that kubeadm made is merged.
Applied(o, version) ==
  [by |-> IF live[o].by \in {"kubeadm", "mixed"} THEN "mixed" ELSE "kubespray", version |-> version]

\* kubectl has done the next object, or failed to.
ObjectDone(done) ==
  /\ call' = [call EXCEPT !.left = Tail(@), !.error = @ \/ ~done]
  /\ UNCHANGED <<manifests, api, missed, pc, app, todo, changed, retries, failed,
                 completed, touched, faults>>

\* replace, and create where something is missing.
ApplyObject ==
  /\ pc = "execute" /\ call.left # <<>> /\ call.state # "absent"
  /\ LET o == Head(call.left)
     IN  live' = IF api THEN [live EXCEPT ![o] = Applied(o, file[Head(todo)])] ELSE live
  /\ ObjectDone(api)

\* delete, of objects that exists has found: to find one gone is an error.
DeleteObject ==
  /\ pc = "execute" /\ call.left # <<>> /\ call.state = "absent"
  /\ LET o == Head(call.left)
     IN  /\ live' = IF api THEN [live EXCEPT ![o] = None] ELSE live
         /\ ObjectDone(api /\ Exist(o))

Executed ==
  /\ pc = "execute" /\ call.left = <<>> /\ ~call.error
  /\ Exit
  /\ UNCHANGED <<manifests, cluster, app, changed, retries, failed, completed, touched, faults>>

\* fail_json, and another attempt of the task.
Retry ==
  /\ pc = "execute" /\ call.left = <<>> /\ call.error
  /\ retries > 0
  /\ retries' = retries - 1
  /\ Call(call.state, call.objects, call.then)
  /\ UNCHANGED <<manifests, cluster, app, todo, changed, failed, completed, touched, faults>>

\* fail_json, and the loop goes on with the next item.
ItemFails ==
  /\ pc = "execute" /\ call.left = <<>> /\ call.error
  /\ retries = 0 /\ call.then = "items"
  /\ failed' = TRUE
  /\ Exit
  /\ UNCHANGED <<manifests, cluster, app, changed, retries, completed, touched, faults>>
-----------------------------------------------------------------------------
(* The play.                                                                 *)

EndRun(complete) ==
  /\ completed' = complete
  /\ pc' = "idle" /\ app' = 1 /\ todo' = <<>> /\ changed' = {}
  /\ call' = NoCall /\ retries' = 0 /\ failed' = FALSE

\* fail_json of a task that is not a loop.
TaskFails ==
  /\ pc = "execute" /\ call.left = <<>> /\ call.error
  /\ retries = 0 /\ call.then # "items"
  /\ EndRun(FALSE)
  /\ UNCHANGED <<manifests, cluster, touched, faults>>

\* Wait for kube-apiserver
StartRun ==
  /\ pc = "idle" /\ api
  /\ pc' = "annotation"
  /\ completed' = FALSE /\ touched' = {}
  /\ missed' = {o \in missed : live[o].by = "mixed"}
  /\ UNCHANGED <<manifests, live, api, app, todo, changed, call, retries, failed, faults>>

\* Mutant: the annotation decides about the service of kubeadm too.
ReadAnnotation_BlockSkipped ==
  /\ pc = "annotation"
  /\ IF api /\ live[Dns].by \in {"kubespray", "mixed"}
     THEN pc' = "next_app" /\ UNCHANGED call
     ELSE Call("absent", <<Dns>>, "delete_service")
  /\ UNCHANGED <<manifests, cluster, app, todo, changed, retries, failed, completed, touched, faults>>

\* A read that fails is not an error: then the answer is not kubespray.
ReadAnnotation ==
  /\ pc = "annotation"
  /\ IF api /\ live[Dns].by \in {"kubespray", "mixed"}
     THEN pc' = "delete_service" /\ UNCHANGED call
     ELSE Call("absent", <<Dns>>, "delete_service")
  /\ UNCHANGED <<manifests, cluster, app, todo, changed, retries, failed, completed, touched, faults>>

\* Mutant: the task does not say absent, and present is the module's default.
DeleteService_DefaultState ==
  /\ pc = "delete_service"
  /\ Call("present", <<DnsService>>, "next_app")
  /\ UNCHANGED <<manifests, cluster, app, todo, changed, retries, failed, completed, touched, faults>>

DeleteService ==
  /\ pc = "delete_service"
  /\ Call("absent", <<DnsService>>, "next_app")
  /\ UNCHANGED <<manifests, cluster, app, todo, changed, retries, failed, completed, touched, faults>>

StartApp ==
  /\ pc = "next_app" /\ app <= Len(Apps)
  /\ pc' = "render"
  /\ todo' = Apps[app].files
  /\ changed' = {}
  /\ UNCHANGED <<manifests, cluster, app, call, retries, failed, completed, touched, faults>>

\* The template task, file by file, and what it registers.
Render ==
  /\ pc = "render" /\ todo # <<>>
  /\ LET f == Head(todo)
     IN  /\ file' = [file EXCEPT ![f] = wanted[f]]
         /\ changed' = IF file[f] # wanted[f] THEN changed \cup {f} ELSE changed
  /\ todo' = Tail(todo)
  /\ UNCHANGED <<wanted, cluster, pc, app, call, retries, failed, completed, touched, faults>>

Rendered ==
  /\ pc = "render" /\ todo = <<>>
  /\ pc' = "items"
  /\ todo' = Apps[app].files
  /\ UNCHANGED <<manifests, cluster, app, changed, call, retries, failed, completed, touched, faults>>

\* Mutant: what did not change is not applied, whatever the policy.
State_IfChanged(f) ==
  CASE f \in changed -> "latest"
    [] Apps[app].policy = "latest_or_present" /\ f \notin changed -> "present"
    [] OTHER -> "skipped"

\* The state of the kube task for a file, or that it is not run for it.
State(f) ==
  CASE Apps[app].policy = "latest" \/ f \in changed -> "latest"
    [] Apps[app].policy = "latest_or_present" /\ f \notin changed -> "present"
    [] OTHER -> "skipped"

NextItem ==
  /\ pc = "items" /\ todo # <<>>
  /\ State(Head(todo)) # "skipped"
  /\ Call(State(Head(todo)), Objects[Head(todo)], "items")
  /\ retries' = Apps[app].retries
  /\ UNCHANGED <<manifests, cluster, app, todo, changed, failed, completed, touched, faults>>

SkipItem ==
  /\ pc = "items" /\ todo # <<>>
  /\ State(Head(todo)) = "skipped"
  /\ todo' = Tail(todo)
  /\ UNCHANGED <<manifests, cluster, pc, app, changed, call, retries, failed, completed, touched, faults>>

EndOfLoop ==
  /\ pc = "items" /\ todo = <<>> /\ ~failed
  /\ pc' = "next_app"
  /\ app' = app + 1
  /\ retries' = 0
  /\ UNCHANGED <<manifests, cluster, todo, changed, call, failed, completed, touched, faults>>

LoopFails ==
  /\ pc = "items" /\ todo = <<>> /\ failed
  /\ EndRun(FALSE)
  /\ UNCHANGED <<manifests, cluster, touched, faults>>

RunCompletes ==
  /\ pc = "next_app" /\ app > Len(Apps)
  /\ EndRun(TRUE)
  /\ UNCHANGED <<manifests, cluster, touched, faults>>

Interrupt ==
  /\ pc # "idle"
  /\ aborts < MaxAborts /\ aborts' = aborts + 1
  /\ EndRun(FALSE)
  /\ UNCHANGED <<manifests, cluster, touched, outages, touches>>
-----------------------------------------------------------------------------
(* What others do.                                                           *)

play == <<pc, app, todo, changed, call, retries, failed>>

\* The inventory is edited, or the repository updated.
Reconfigure(f) ==
  /\ pc = "idle"
  /\ wanted[f] < MaxVersion
  /\ wanted' = [wanted EXCEPT ![f] = @ + 1]
  /\ completed' = FALSE
  /\ UNCHANGED <<file, cluster, play, touched, faults>>

\* The plays before this one: kubeadm upgrade deploys its DNS.
KubeadmDeploys ==
  /\ pc = "idle"
  /\ touches < MaxTouches /\ touches' = touches + 1
  /\ live' = [o \in Object |-> IF o \in {Dns, DnsService} THEN ByKubeadm ELSE live[o]]
  /\ missed' = missed \ {Dns, DnsService}
  /\ completed' = FALSE
  /\ UNCHANGED <<manifests, api, play, touched, aborts, outages>>

OthersDelete(o) ==
  /\ Exist(o)
  /\ touches < MaxTouches /\ touches' = touches + 1
  /\ live' = [live EXCEPT ![o] = None]
  /\ missed' = missed \ {o}
  /\ touched' = touched \cup {o}
  /\ UNCHANGED <<manifests, api, play, completed, aborts, outages>>

ApiUnreachable ==
  /\ api /\ api' = FALSE
  /\ outages < MaxOutages /\ outages' = outages + 1
  /\ UNCHANGED <<manifests, live, missed, play, completed, touched, aborts, touches>>

ApiReturns ==
  /\ ~api /\ api' = TRUE
  /\ UNCHANGED <<manifests, live, missed, play, completed, touched, faults>>

Module == CheckExists \/ ApplyObject \/ DeleteObject \/ Executed \/ Retry \/ ItemFails \/ TaskFails
Play ==
  \/ ReadAnnotation \/ DeleteService
  \/ StartApp \/ Render \/ Rendered \/ NextItem \/ SkipItem \/ EndOfLoop \/ LoopFails
  \/ RunCompletes

Next ==
  \/ StartRun \/ Module \/ Play \/ Interrupt
  \/ \E f \in File : Reconfigure(f)
  \/ KubeadmDeploys
  \/ \E o \in Object : OthersDelete(o)
  \/ ApiUnreachable \/ ApiReturns

\* A run goes on, an outage ends, and the operator runs the playbook again.
Fairness ==
  /\ WF_vars(Module) /\ WF_vars(Play)
  /\ WF_vars(ApiReturns) /\ WF_vars(StartRun)

Spec == Init /\ [][Next]_vars
FairSpec == Spec /\ Fairness
-----------------------------------------------------------------------------
(* Correctness.                                                              *)

TypeOK ==
  /\ wanted \in [File -> Nat] /\ file \in [File -> Nat]
  /\ live \in [Object -> [by : Creator, version : Nat]]
  /\ api \in BOOLEAN
  /\ pc \in {"idle", "annotation", "delete_service", "next_app", "render", "items",
             "exists", "execute"}
  /\ app \in Nat \ {0} /\ (pc \in {"render", "items"} => app <= Len(Apps))
  /\ todo \in Seq(File) /\ changed \subseteq File
  /\ call \in [state : {"none", "present", "absent", "latest"}, objects : Seq(Object),
               left : Seq(Object), error : BOOLEAN,
               then : {"idle", "delete_service", "next_app", "items"}]
  /\ pc \in {"exists", "execute"} => call.state # "none"
  /\ pc \in {"exists", "execute"} /\ call.then = "items" => app <= Len(Apps) /\ todo # <<>>
  /\ call.state \in {"present", "latest"} => call.then = "items"
  /\ retries \in Nat /\ failed \in BOOLEAN /\ completed \in BOOLEAN
  /\ touched \subseteq Object /\ missed \subseteq Object
  /\ aborts \in Nat /\ outages \in Nat /\ touches \in Nat

Files(policies) ==
  {f \in File : \E i \in DOMAIN Apps : /\ Apps[i].policy \in policies
                                       /\ \E j \in DOMAIN Apps[i].files : Apps[i].files[j] = f}
ObjectsOf(f) == {Objects[f][i] : i \in DOMAIN Objects[f]}

UpToDate(f) ==
  \A o \in ObjectsOf(f) \ touched :
    /\ live[o].version = wanted[f]
    /\ live[o].by = "kubespray" \/ o \in missed

\* What a completed run has applied.  State latest needs nothing else, whatever
\* runs before it left behind; the tasks that look at what changed need that no
\* run has stopped between rendering and applying; those that skip what did not
\* change also need that nobody has changed the objects.
CompletedRunUpToDate ==
  completed =>
    /\ \A f \in Files({"latest"}) : UpToDate(f)
    /\ aborts = 0 /\ outages = 0 => \A f \in Files({"latest_or_present"}) : UpToDate(f)
    /\ aborts = 0 /\ outages = 0 /\ touches = 0 => \A f \in Files({"if_changed"}) : UpToDate(f)

\* state=present: after a completed run every object of a manifest is there,
\* also when a part of them was when the run began.
CompletedRunExists ==
  completed =>
    \A f \in Files({"latest", "latest_or_present"}) : \A o \in ObjectsOf(f) \ touched : Exist(o)

\* state=absent: after a completed run the service of kubeadm is gone, unless
\* the API server was unreachable when the module looked for it.
CompletedRunCleans ==
  completed => ~Exist(DnsService) \/ DnsService \in missed

\* Runs that are repeated end up with what the inventory asks for, for the
\* resources the play starts with state latest, also if some runs were stopped
\* between rendering and applying.
AppliedEventually ==
  <>[](\A f \in Files({"latest"}) : \A o \in ObjectsOf(f) : live[o].version = wanted[f])
=============================================================================
