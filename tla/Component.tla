------------------------------ MODULE Component ------------------------------
(***************************************************************************)
(* The ScalityUIComponent controller, for one component.  It runs the      *)
(* component's image in a Deployment behind a Service, and once the pods   *)
(* are rolled out it fetches from them, over HTTP, the configuration that  *)
(* the image serves and records it in the status, with the image it was    *)
(* fetched for.  An annotation forces another fetch.                       *)
(*                                                                         *)
(* Reads go to informer caches, writes to the API server, which refuses a  *)
(* write made from an outdated resourceVersion.  Pods are rolled out, and  *)
(* the Deployment's status is written, by Kubernetes, in its own time; it  *)
(* also collects the Deployment and the Service of a component that is     *)
(* gone, perhaps after another component of that name was created.         *)
(***************************************************************************)
CONSTANTS
    Images,        \* images of the component
    Configs,       \* valid micro-app configurations
    Lagging,       \* whose copy may be outdated when read; "Status": the status of
                   \* a Deployment may be about an earlier spec
    Disturbances,  \* what users, failures and other controllers may do
    None           \* no object, no image, no configuration

Bodies == Configs \cup {"malformed", "invalid"}

\* "failed": another status than 200, or no answer.
Answers == Bodies \cup {"failed"}

Reasons == {"FetchSucceeded", "FetchFailed", "ParseFailed", "ValidationFailed"}

\* reason and about: the condition ConfigurationRetrieved and the image that its message
\* names.  gone: it is a copy of a component that was deleted.
ComponentObject ==
    [img : Images, force : BOOLEAN, last : Images \cup {None},
     reason : Reasons \cup {None}, about : Images \cup {None}, cfg : Configs \cup {None},
     gone : BOOLEAN]

\* old: its owner was deleted.
DeploymentObject ==
    [img : Images, mounted : BOOLEAN, observed : BOOLEAN, ready : BOOLEAN, updated : BOOLEAN,
     old : BOOLEAN]

ServiceStates == {"none", "own", "old"}

ASSUME LaggingAssumption == Lagging \subseteq {"Component", "Deployment", "Service", "Status"}

ASSUME DisturbancesAssumption ==
    Disturbances \subseteq {"edit", "force", "refresh", "repair", "deployment",
                            "service", "pods", "delete", "leftover", "fail", "clearFails", "crash"}

ASSUME ConfigsAssumption == Configs \cap {"malformed", "invalid", "failed"} = {}

ASSUME NoneAssumption ==
    None \notin Images \cup Answers \cup Reasons
                \cup ComponentObject \cup DeploymentObject

VARIABLES
    cr,         \* the ScalityUIComponent in the API server
    crC,        \* the informer's copy of it
    crFresh,    \* the copy has the current resourceVersion
    dep, depC, depFresh,  \* its Deployment, likewise
    svc, svcC,  \* its Service: none, its own, or of an owner that is gone
    pods,       \* images of the ready pods behind the Service
    content,    \* what the pods of each image answer
    queued,     \* the component is in the controller's work queue
    pc,         \* the next step of the worker's reconciliation
    copy,       \* the worker's copy of the component
    held,       \* copy has the current resourceVersion
    image,      \* currentImage: the image the configuration is fetched for
    got         \* the answer to the fetch, or None before that

api     == <<cr, dep, svc>>
caches  == <<crC, crFresh, depC, depFresh, svcC>>
cluster == <<pods, content>>
worker  == <<pc, copy, held, image, got>>
vars    == <<cr, crC, crFresh, dep, depC, depFresh, svc, svcC, pods, content, queued,
             pc, copy, held, image, got>>

ApiTyped ==
    /\ cr \in ComponentObject \cup {None} /\ (cr # None => ~cr.gone)
    /\ dep \in DeploymentObject \cup {None}
    /\ svc \in ServiceStates

CopiesTyped ==
    /\ crC \in ComponentObject \cup {None} /\ crFresh \in BOOLEAN
    /\ depC \in DeploymentObject \cup {None} /\ depFresh \in BOOLEAN
    /\ svcC \in ServiceStates

ClusterTyped == pods \in SUBSET Images /\ content \in [Images -> Answers]

WorkerTyped ==
    /\ queued \in BOOLEAN
    /\ pc \in {"idle", "deployment", "service", "check", "fetch", "record", "clear"}
    /\ held \in BOOLEAN
    /\ pc = "idle" => copy = None
    /\ pc # "idle" => copy \in ComponentObject
    /\ image \in Images \cup {None} /\ (pc \in {"fetch", "record", "clear"} <=> image # None)
    /\ got \in Answers \cup {None} /\ (pc \in {"record", "clear"} <=> got # None)

TypeOK == ApiTyped /\ CopiesTyped /\ ClusterTyped /\ WorkerTyped

-----------------------------------------------------------------------------
(* Reads, writes, and the end of a reconciliation. *)

NewComponent(i) ==
    [img |-> i, force |-> FALSE, last |-> None, reason |-> None, about |-> None, cfg |-> None,
     gone |-> FALSE]

Read(kind, cached, stored) == IF kind \in Lagging THEN cached ELSE stored

ComponentRead == Read("Component", crC, cr)

DeploymentRead == Read("Deployment", depC, dep)

ServiceRead == Read("Service", svcC, svc)

IsCurrent(kind, upToDate) == kind \in Lagging => upToDate

\* A write that changes nothing leaves the resourceVersion alone.
WriteComponent(o) == cr' = o /\ crFresh' = (crFresh /\ o = cr)

WriteDeployment(o) == dep' = o /\ depFresh' = (depFresh /\ o = dep)

\* A mutation of Finish: the image of this reconciliation is kept.
FinishKeepsImage == pc' = "idle" /\ copy' = None /\ held' = FALSE /\ got' = None /\ UNCHANGED image

Finish == pc' = "idle" /\ copy' = None /\ held' = FALSE /\ image' = None /\ got' = None

Done == Finish /\ UNCHANGED queued

\* A mutation of Retry: no RequeueAfter.
RetryForgotten == Finish /\ UNCHANGED queued

\* An error or a RequeueAfter (5, 10 or 30 seconds).
Retry == Finish /\ queued' = TRUE

GoTo(step) == pc' = step /\ UNCHANGED <<queued, copy, held, image, got>>

\* A component that is not found is no error.
ReconcileNotFound ==
    /\ pc = "idle" /\ queued /\ ComponentRead = None
    /\ queued' = FALSE
    /\ UNCHANGED <<api, caches, cluster, worker>>

Reconcile ==
    /\ pc = "idle" /\ queued /\ ComponentRead # None
    /\ queued' = FALSE
    /\ pc' = "deployment" /\ copy' = ComponentRead /\ held' = IsCurrent("Component", crFresh)
    /\ UNCHANGED <<api, caches, cluster, image, got>>

-----------------------------------------------------------------------------
(* The Deployment and the Service. *)

\* The status of a Deployment d once Kubernetes has looked at its spec: a rollout is
\* complete when no pod of an earlier template is left.
Observed(d) == [d EXCEPT !.observed = TRUE, !.ready = pods # {}, !.updated = pods \subseteq {d.img}]

Unobserved(d) == IF "Status" \in Lagging THEN [d EXCEPT !.observed = FALSE] ELSE Observed(d)

\* A mutation of NewDeployment: it is created without its owner.
NewDeploymentUnowned(i, old) ==
    Unobserved([img |-> i, mounted |-> FALSE, observed |-> FALSE, ready |-> FALSE, updated |-> TRUE,
                old |-> FALSE])

NewDeployment(i, old) ==
    Unobserved([img |-> i, mounted |-> FALSE, observed |-> FALSE, ready |-> FALSE, updated |-> TRUE,
                old |-> old])

\* A mutation of WithImage: the pod template is written anew.
WithImageOnly(d, i) == IF d.img = i THEN d ELSE NewDeployment(i, d.old)

\* The Deployment d to run image i.  Only the image is set: the volumes and the
\* annotation of the exposers stay.
WithImage(d, i) == IF d.img = i THEN d ELSE Unobserved([d EXCEPT !.img = i])

CreateDeployment ==
    /\ pc = "deployment" /\ DeploymentRead = None
    /\ IF dep = None
         THEN WriteDeployment(NewDeployment(copy.img, copy.gone)) /\ GoTo("service")
         ELSE Retry /\ UNCHANGED <<dep, depFresh>>
    /\ UNCHANGED <<cr, svc, crC, crFresh, depC, svcC, cluster>>

\* SetControllerReference: an object has one owner.  Two owners that are gone may be
\* the same or not.
Refusals(old) == IF old = copy.gone THEN {FALSE, old} ELSE {TRUE}

UpdateDeployment ==
    /\ pc = "deployment" /\ DeploymentRead # None
    /\ LET seen == DeploymentRead
           want == WithImage(seen, copy.img)
       IN  \E refused \in Refusals(seen.old) :
             CASE ~refused /\ want = seen -> GoTo("service") /\ UNCHANGED <<dep, depFresh>>
               [] ~refused /\ want # seen /\ IsCurrent("Deployment", depFresh) ->
                    WriteDeployment(want) /\ GoTo("service")
               [] OTHER -> Retry /\ UNCHANGED <<dep, depFresh>>
    /\ UNCHANGED <<cr, svc, crC, crFresh, depC, svcC, cluster>>

\* The Service as it should be is the Service that exists.
CreateOrUpdateService ==
    /\ pc = "service"
    /\ \/ /\ ServiceRead = "none"
          /\ IF svc = "none" THEN GoTo("check") /\ svc' = IF copy.gone THEN "old" ELSE "own"
                             ELSE Retry /\ UNCHANGED svc
       \/ /\ ServiceRead # "none"
          /\ \E refused \in Refusals(ServiceRead = "old") : IF refused THEN Retry ELSE GoTo("check")
          /\ UNCHANGED svc
    /\ UNCHANGED <<cr, dep, caches, cluster>>

-----------------------------------------------------------------------------
(* The configuration. *)

\* A mutation of RolledOut: no wait for the old pods to go.
ReadyPods(d) == d # None /\ d.ready

RolledOut(d) == d # None /\ d.ready /\ d.updated

\* A mutation of NeedsFetch: the annotation counts only before the first fetch.
NeedsFetchOnce(o, i) == o.last # i

NeedsFetch(o, i) == o.last # i \/ o.force

ProcessUIComponentConfig ==
    /\ pc = "check"
    /\ LET d == DeploymentRead
       IN  CASE ServiceRead = "none" \/ ~RolledOut(d) -> Retry
             [] ServiceRead # "none" /\ RolledOut(d) /\ ~NeedsFetch(copy, d.img) -> Done
             [] OTHER -> pc' = "fetch" /\ image' = d.img /\ UNCHANGED <<copy, held, got, queued>>
    /\ UNCHANGED <<api, caches, cluster>>

\* Any ready pod answers; with the Service or the pods gone nobody does.
FetchConfig ==
    /\ pc = "fetch"
    /\ IF svc # "none" /\ pods # {} THEN \E i \in pods : got' = content[i]
                           ELSE got' = "failed"
    /\ pc' = "record"
    /\ UNCHANGED <<api, caches, cluster, queued, copy, held, image>>

\* A mutation of Recorded: a failure never counts as a fetch of the image.
RecordedUnstamped(o, i, body) ==
    IF body \in Configs
      THEN [o EXCEPT !.reason = "FetchSucceeded", !.about = i, !.last = i, !.cfg = body]
      ELSE [o EXCEPT !.reason = "ParseFailed", !.about = i]

\* The component o with the outcome of a fetch for image i in its status.  A
\* malformed body counts as a fetch of the image, no answer and an invalid one do not.
Recorded(o, i, body) ==
    CASE body = "failed" -> [o EXCEPT !.reason = "FetchFailed", !.about = i]
      [] body = "malformed" -> [o EXCEPT !.reason = "ParseFailed", !.about = i, !.last = i]
      [] body = "invalid" -> [o EXCEPT !.reason = "ValidationFailed", !.about = i]
      [] OTHER -> [o EXCEPT !.reason = "FetchSucceeded", !.about = i, !.last = i, !.cfg = body]

\* A mutation of ClearsAnnotation: only a success ends the request.
ClearsAfterSuccess(body) == body \in Configs

ClearsAnnotation(body) == body # "failed"

\* What follows a status write, which is refused if the component changed.  The error
\* ends a success before the annotation is removed; after a failure it is dropped.
AfterStatus(refused) ==
    IF ~ClearsAnnotation(got) \/ (got \in Configs /\ refused) THEN Retry ELSE GoTo("clear")

ParseAndApplyConfig ==
    /\ pc = "record"
    /\ LET new == Recorded(copy, image, got)
       IN  /\ IF held THEN WriteComponent(new) ELSE UNCHANGED <<cr, crFresh>>
           /\ AfterStatus(new # copy /\ ~held)
    /\ UNCHANGED <<dep, svc, crC, depC, depFresh, svcC, cluster>>

\* A failure is tried again after 30 seconds, a success is not.
EndAfter(body) == IF body \in Configs THEN Done ELSE Retry

\* The component is read again.  Conflicts are retried a few times, then given up; so
\* is a component that is gone.
RemoveForceRefreshAnnotation ==
    /\ pc = "clear"
    /\ IF copy.force /\ ComponentRead # None /\ ComponentRead.force /\ IsCurrent("Component", crFresh)
         THEN WriteComponent([cr EXCEPT !.force = FALSE])
         ELSE UNCHANGED <<cr, crFresh>>
    /\ EndAfter(got)
    /\ UNCHANGED <<dep, svc, crC, depC, depFresh, svcC, cluster>>

-----------------------------------------------------------------------------
(* The informers. The controller watches the components and what they own. *)

SyncComponent ==
    /\ ~crFresh
    /\ crC' = (IF "Component" \in Lagging THEN cr ELSE crC) /\ crFresh' = TRUE
    /\ queued' = TRUE
    /\ UNCHANGED <<api, depC, depFresh, svcC, cluster, worker>>

SyncDeployment ==
    /\ ~depFresh
    /\ depC' = (IF "Deployment" \in Lagging THEN dep ELSE depC) /\ depFresh' = TRUE
    /\ queued' = TRUE
    /\ UNCHANGED <<api, crC, crFresh, svcC, cluster, worker>>

SyncService ==
    /\ svcC # svc
    /\ svcC' = svc
    /\ queued' = TRUE
    /\ UNCHANGED <<api, crC, crFresh, depC, depFresh, cluster, worker>>

-----------------------------------------------------------------------------
(* Kubernetes rolls the pods out. *)

ObserveSpec ==
    /\ dep # None /\ ~dep.observed
    /\ WriteDeployment(Observed(dep))
    /\ UNCHANGED <<cr, svc, crC, crFresh, depC, svcC, cluster, queued, worker>>

PodReady ==
    /\ dep # None /\ dep.observed /\ dep.img \notin pods
    /\ pods' = pods \cup {dep.img}
    /\ WriteDeployment([dep EXCEPT !.ready = TRUE, !.updated = pods = {}])
    /\ UNCHANGED <<cr, svc, crC, crFresh, depC, svcC, content, queued, worker>>

OldPodsStop ==
    /\ dep # None /\ dep.observed /\ dep.img \in pods /\ ~dep.updated
    /\ pods' = {dep.img}
    /\ WriteDeployment([dep EXCEPT !.updated = TRUE])
    /\ UNCHANGED <<cr, svc, crC, crFresh, depC, svcC, content, queued, worker>>

Rollout == ObserveSpec \/ PodReady \/ OldPodsStop

\* The garbage collector takes what an owner that is gone has left.
CollectDeployment ==
    /\ dep # None /\ dep.old
    /\ WriteDeployment(None) /\ pods' = {}
    /\ UNCHANGED <<cr, svc, crC, crFresh, depC, svcC, content, queued, worker>>

CollectService ==
    /\ svc = "old"
    /\ svc' = "none"
    /\ UNCHANGED <<cr, dep, caches, cluster, queued, worker>>

Collect == CollectDeployment \/ CollectService

-----------------------------------------------------------------------------
(* Users, other controllers, failures. *)

UserWrites(o) ==
    /\ cr # None
    /\ WriteComponent(o)
    /\ held' = (held /\ o = cr)
    /\ UNCHANGED <<dep, svc, crC, depC, depFresh, svcC, pods, queued, pc, copy, image, got>>

Edit(i) ==
    /\ "edit" \in Disturbances
    /\ cr # None /\ i # cr.img
    /\ UserWrites([cr EXCEPT !.img = i])
    /\ UNCHANGED content

ForceRefresh ==
    /\ "force" \in Disturbances
    /\ UserWrites([cr EXCEPT !.force = TRUE])
    /\ UNCHANGED content

\* The component goes.  What it owns, and every copy of it, is of an owner that is gone.
Gone(o) == IF o = None THEN None ELSE [o EXCEPT !.gone = TRUE]

Disowned(d) == IF d = None THEN None ELSE [d EXCEPT !.old = TRUE]

DisownedService(s) == IF s = "none" THEN "none" ELSE "old"

Delete ==
    /\ "delete" \in Disturbances
    /\ cr # None
    /\ cr' = None /\ crFresh' = FALSE
    /\ crC' = Gone(crC) /\ copy' = Gone(copy) /\ held' = FALSE
    /\ dep' = Disowned(dep) /\ depC' = Disowned(depC)
    /\ svc' = DisownedService(svc) /\ svcC' = DisownedService(svcC)
    /\ UNCHANGED <<depFresh, cluster, queued, pc, image, got>>

Create(i) ==
    /\ "delete" \in Disturbances
    /\ cr = None
    /\ cr' = NewComponent(i) /\ crFresh' = FALSE
    /\ UNCHANGED <<dep, svc, crC, depC, depFresh, svcC, cluster, queued, worker>>

\* The image gets another content under the same tag, and the user asks for it.
Refresh(i, body) ==
    /\ "refresh" \in Disturbances
    /\ content' = [content EXCEPT ![i] = body]
    /\ UserWrites([cr EXCEPT !.force = TRUE])

\* An image that served an invalid body, or did not answer, serves a valid one.
Repair(i, body) ==
    /\ "repair" \in Disturbances
    /\ content[i] \in {"invalid", "failed"} /\ body \in Configs
    /\ content' = [content EXCEPT ![i] = body]
    /\ UNCHANGED <<api, caches, pods, queued, worker>>

DeleteDeployment ==
    /\ "deployment" \in Disturbances
    /\ dep # None
    /\ WriteDeployment(None) /\ pods' = {}
    /\ UNCHANGED <<cr, svc, crC, crFresh, depC, svcC, content, queued, worker>>

DeleteService ==
    /\ "service" \in Disturbances
    /\ svc # "none"
    /\ svc' = "none"
    /\ UNCHANGED <<cr, dep, caches, cluster, queued, worker>>

\* Pods of one image crash.
PodsCrash(i) ==
    /\ "pods" \in Disturbances
    /\ dep # None /\ dep.observed /\ i \in pods
    /\ pods' = pods \ {i}
    /\ WriteDeployment([dep EXCEPT !.ready = pods # {i}, !.updated = pods \subseteq {i, dep.img}])
    /\ UNCHANGED <<cr, svc, crC, crFresh, depC, svcC, content, queued, worker>>

\* A write of the Deployment, the Service or the status fails, or the fetch does.
WriteFails ==
    /\ "fail" \in Disturbances
    /\ \/ pc \in {"deployment", "service"} /\ Retry
       \/ pc = "record" /\ AfterStatus(TRUE)
    /\ UNCHANGED <<api, caches, cluster>>

FetchFails ==
    /\ "fail" \in Disturbances
    /\ pc = "fetch"
    /\ pc' = "record" /\ got' = "failed"
    /\ UNCHANGED <<api, caches, cluster, queued, copy, held, image>>

\* The annotation cannot be removed: the error is logged.
ClearFails ==
    /\ "clearFails" \in Disturbances
    /\ pc = "clear"
    /\ EndAfter(got)
    /\ UNCHANGED <<api, caches, cluster>>

Crash ==
    /\ "crash" \in Disturbances
    /\ Finish
    /\ crC' = Read("Component", cr, crC) /\ crFresh' = TRUE
    /\ depC' = Read("Deployment", dep, depC) /\ depFresh' = TRUE
    /\ svcC' = svc
    /\ queued' = TRUE
    /\ UNCHANGED <<api, cluster>>

-----------------------------------------------------------------------------

\* What an earlier component of that name may have left.
Leftovers == IF "leftover" \in Disturbances THEN {NewDeployment(i, TRUE) : i \in Images} ELSE {}

\* A component that was just created.
Init ==
    /\ cr \in {NewComponent(i) : i \in Images}
    /\ crC = (IF "Component" \in Lagging THEN cr ELSE None) /\ crFresh = FALSE
    /\ pods = {} /\ dep \in {None} \cup Leftovers
    /\ depC = (IF "Deployment" \in Lagging THEN dep ELSE None) /\ depFresh = TRUE
    /\ svc = "none" /\ svcC = "none"
    /\ content \in [Images -> Answers]
    /\ queued = FALSE
    /\ pc = "idle" /\ copy = None /\ held = FALSE /\ image = None /\ got = None

Work ==
    \/ CreateDeployment \/ UpdateDeployment \/ CreateOrUpdateService
    \/ ProcessUIComponentConfig \/ FetchConfig \/ ParseAndApplyConfig
    \/ RemoveForceRefreshAnnotation

Sync == SyncComponent \/ SyncDeployment \/ SyncService

Disturb ==
    \/ \E i \in Images : Edit(i) \/ PodsCrash(i) \/ Create(i)
    \/ \E i \in Images, b \in Answers : Refresh(i, b) \/ Repair(i, b)
    \/ Delete \/ ForceRefresh \/ DeleteDeployment \/ DeleteService
    \/ WriteFails \/ FetchFails \/ ClearFails \/ Crash

Take == Reconcile \/ ReconcileNotFound

Next == Take \/ Work \/ Sync \/ Rollout \/ Collect \/ Disturb

Spec == Init /\ [][Next]_vars

\* The worker goes on, the informers catch up, Kubernetes rolls out and collects.
Fairness ==
    /\ WF_vars(Take) /\ WF_vars(Work)
    /\ WF_vars(SyncComponent) /\ WF_vars(SyncDeployment) /\ WF_vars(SyncService)
    /\ WF_vars(Rollout) /\ WF_vars(CollectDeployment) /\ WF_vars(CollectService)

FairSpec == Spec /\ Fairness
-----------------------------------------------------------------------------
(* Properties. *)

\* A configuration that counts as fetched for an image is what that image serves,
\* whatever happens between the checks of the Deployment's status
\* (controller.go:277-303), the fetch, and the status write.
RecordedIsServed ==
    cr # None /\ cr.reason = "FetchSucceeded" => cr.cfg = content[cr.last]

\* The worker will come to the component: it is queued, or an event is still to come.
Due == queued \/ ~crFresh \/ ~depFresh \/ svcC # svc

\* The controller never rests too early: when it is idle and nothing brings it back - no
\* retry, no event of the component or of what it owns - then the image of the spec is
\* rolled out in a Deployment of its own, behind a Service of its own, it counts as
\* fetched, and no request for a refresh is left, whatever was outdated, failed or
\* changed while the controller worked (controller.go:128-360).
NothingForgotten ==
    cr # None /\ pc = "idle" /\ ~Due =>
        /\ dep # None /\ ~dep.old /\ dep.img = cr.img /\ dep.ready /\ dep.updated
        /\ svc = "own"
        /\ cr.last = cr.img
        /\ "clearFails" \notin Disturbances => ~cr.force

\* From some time on nobody disturbs the controller.  (Not []~Disturb: an action of the
\* controller can look like a failure.)
Calm == <>[][Take \/ Work \/ Sync \/ Rollout \/ Collect]_vars

\* Left alone, the controller runs the image of the spec, and the status has what
\* that image serves; an image that serves nothing usable is not reported as fetched.
SettlesOnSpecImage ==
    Calm => <>[](cr # None =>
                   /\ svc # "none" /\ dep # None /\ dep.img = cr.img
                   /\ IF content[cr.img] \in Configs
                        THEN cr.last = cr.img /\ cr.cfg = content[cr.img]
                        ELSE cr.reason # "FetchSucceeded")

\* Left alone, a component has a Deployment and a Service of its own, although those of
\* an earlier component of its name may be in the way until they are collected; and of a
\* component that is gone nothing is left, although a worker that still has a copy of
\* it may create its Deployment again (controller.go:145-215).
OwnsWhatItNeeds ==
    Calm => <>[]IF cr = None THEN dep = None /\ svc = "none"
                             ELSE dep # None /\ ~dep.old /\ svc = "own"

\* Left alone, the controller answers every request for a refresh, unless the pods go on
\* failing to answer: a malformed or an invalid body ends the request (controller.go:385 and
\* 416), a failed fetch does not (controller.go:355), as the assertion at
\* controller_test.go:1155 has it.  The title of that test (1102), "should remove
\* force-refresh annotation even on fetch failure", and the comment at controller.go:481,
\* "also done on failure to prevent fetch loops", say more than this.
ForceConsumed == Calm => <>[](cr # None /\ content[cr.img] # "failed" => ~cr.force)

\* It asks the pods no more, unless what they answer is invalid or they fail to: then it
\* asks every 30 seconds for ever, since neither counts as a fetch of the image, although
\* the comment at controller.go:415 has the annotation removed "to prevent infinite fetch
\* loops"; a malformed body does count (controller.go:377).
FetchesEnd ==
    Calm => <>[](pc = "fetch" => cr # None /\ content[cr.img] \in {"invalid", "failed"})

\* A request for a refresh that finds the worker idle leads to a fetch, unless the
\* component is deleted: although the worker may start from a copy from before the request,
\* fail, or crash on the way, no reconciliation removes the annotation before it has
\* asked the pods (controller.go:482-528).
RefreshServed ==
    Calm => [](cr # None /\ cr.force /\ pc = "idle" => <>(pc = "fetch" \/ cr = None))

-----------------------------------------------------------------------------
(* The steps that make a recorded configuration untrue. *)

\* The worker goes on to the fetch although the rollout is not complete: its copy of the
\* Deployment is outdated, or the status in it is about an earlier spec, which
\* the check of the replica counts does not notice (controller.go:277-303).
TrustsOldStatus ==
    /\ ProcessUIComponentConfig /\ pc' = "fetch"
    /\ ~(dep # None /\ dep.observed /\ dep.updated /\ dep.img = image')

\* An image gets another content under the same tag.
ContentChanges == content' # content

-----------------------------------------------------------------------------
(* What a test says and the code does not do. *)

\* "should eventually succeed after validation failure when config becomes valid"
\* (controller_test.go:858): at rest, a component whose image serves a valid
\* configuration has the condition ConfigurationRetrieved.
RecoversFromFailure ==
    Calm => <>[](cr # None /\ content[cr.img] \in Configs => cr.reason = "FetchSucceeded")
=============================================================================
