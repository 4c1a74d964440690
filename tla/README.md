# Specifications of ui-operator

`ui-operator` is a Kubernetes operator. It serves a web shell (a `ScalityUI`), runs micro-applications
(`ScalityUIComponent`) and connects the two (`ScalityUIComponentExposer`). This directory holds TLA+
modules of its controllers, the TLC configurations that check them, and proofs of what matters most.
`PROJECT.json` maps every definition to the lines of code it stands for, and lists the runs, the
hazards and the disagreements between code and comments that the runs exhibit.

## 1. Inventory

| Part | Code | State | Operations |
|---|---|---|---|
| Exposer controller | `internal/controller/scalityuicomponentexposer` | exposers, one shared ConfigMap per component, volume and hash annotation in the component's Deployment, an Ingress per exposer | reconcile: finalizer, dependencies, map, Deployment, Ingress, status; deletion: unmount, clean up, release |
| Component controller | `internal/controller/scalityuicomponent` | component status and force-refresh annotation, Deployment, Service | reconcile: Deployment, Service, fetch the configuration over HTTP, record it, remove the annotation |
| ScalityUI controller | `internal/controller/scalityui` | two ConfigMaps, Deployment, Service, Ingress, phase; in memory the times at which components were first seen not ready, and the hashes of a reconciliation | reconcile: six reducers, hold-off of a partial list, status |
| Event mappers, exposer service | `internal/mappers`, `internal/services` | none | from an exposer or a component to the UIs to reconcile; exposers of a UI, component of an exposer |
| API types | `api/v1alpha1` | the objects | |
| Helpers | `internal/utils`, `internal/controller/common_status.go` | none | image names, authentication settings; the status helpers are called by nobody |
| Entry point | `cmd/main.go` | none | flags, manager, leader election |

How they interact:

- The exposer controller and the component controller both write the component's Deployment: one its
  volume, mounts and hash annotation, the other its image.
- All exposers of a component share one ConfigMap, with one data entry and one finalizer each.
- The status of a component decides whether the ScalityUI lists it. Exposers and components are mapped
  to the UIs they concern. ConfigMap events are mapped to the exposers of the component.
- The garbage collector deletes what a component owns after the component, possibly after another one
  of the same name was created.
- Everything goes through the API server. Reads come from informer caches, which lag behind; writes
  carry the resourceVersion that was read, and are refused if it is outdated. A controller has one
  worker. Kubernetes rolls the pods out in its own time.

What is hard: outdated reads (also right after one's own write); a reconciliation interrupted between
two of its calls, by a failure or a restart; users who edit, delete and create again at any moment;
two controllers writing one object; events that do not come, because nothing changed or the kind is
not watched, and events that are mapped with a cache that has moved on; status fields about an earlier
spec; windows of time kept in memory. The list, line by line, is `hazards` in `PROJECT.json`.

What makes each part correct:

- Exposer controller: no update of the shared map is lost; an exposer leaves nothing behind; a map
  that is mounted exists; a published status is true; left alone, every exposer is published, the
  map is mounted with the hash of its content, and the Ingress says what its dependencies say.
- Component controller: the configuration recorded for an image is the one it serves; requests for a
  refresh are served, and end; left alone, it settles on the image of the spec, with a Deployment and
  a Service of its own.
- Both of them: neither undoes what the other wrote in the Deployment.
- ScalityUI controller: a component that fails for a moment keeps its place; a broken one does not
  block the others; the pods follow the maps; nothing is remembered for ever; no change of an exposer
  or of a component is missed by the list it concerns.

## 2. Modules

| Module | Models | Code it stands for |
|---|---|---|
| `Exposer` | the exposer controller: any set of exposers and components | controller, deletion, dependencies, configmap, deployment_update, ingress, status, watch_handlers |
| `SharedConfig` | abstract: what the exposers of a component promise each other about their map | |
| `Component` | the component controller, for one component, its pods and their rollout | scalityuicomponent/controller.go |
| `SharedDeployment` | `Exposer` and `Component` around the Deployment both write | the two controllers, as instances |
| `ScalityUI` | the ScalityUI controller, for one UI, with time | controller, configmap, deployed_apps_configmap, deployment, service, ingress, status |
| `AppLists` | the lists of several UIs, and how events find them | mappers, exposer service, deployed_apps_configmap, controller (the times) |
| `ExposerProofs`, `ExposerRefinement`, `MountProofs`, `RestProofs` | theorems about `Exposer` | |
| `ComponentProofs`, `ScalityUIProofs`, `AppListsProofs`, `SharedDeploymentProofs` | theorems about the module of that name | |
| `MCExposer`, `MCComponent`, `MCSharedDeployment`, `MCScalityUI`, `MCAppLists` | instances for TLC | |

Conventions shared by the specifications:

- The objects in the API server are variables (`ex`, `cm`, `dep`, `cr`, ...), the informers' copies are
  variables ending in `C`, and `fresh`, `cmFresh`, ... say which copies have the current
  resourceVersion. The constant `Lagging` names the kinds whose copy may be outdated; the others are
  read as they are. A run with fewer lagging kinds separates what a property depends on.
- `pc` is the next step of the worker. A step is one call that can change the cluster, with the
  conditions, early returns and in-memory changes around it, so that everything else may happen
  between any two calls. `CreateOrUpdate` is one step: its Get reads the copy, its write is accepted
  only if the copy is current, and no write is made when nothing changes.
- `Done`, `Retry`, `GoTo` are the ways a step ends: success; an error or `RequeueAfter`; the next
  reducer. The delay before a requeued item comes back is not modelled, except in `ScalityUI` and
  `AppLists`, where it is a tick.
- `Disturbances` says what users, other controllers, failures and crashes do in a run. Properties of
  convergence say what holds when they stop (`Calm`). `MaxEdits` (`Exposer`) and `MaxChanges`
  (`ScalityUI`, `SharedDeployment`) say how often they may, for TLC's sake; `None` is no bound.
- `Fail` lets any call fail, also by a conflict with a writer that is not modelled.
- The steps through which an outdated copy, or a user, breaks a promise have names (`BlindCleanup`,
  `BlindPublish`, `BlindUnmount` and `Move` in `Exposer`, `TrustsOldStatus` and `ContentChanges` in
  `Component`, `BlindMount` and `IdleUnmount` in `SharedDeployment`). They are steps of the controllers
  and of users that `Next` has anyway, seen with what they miss; theorems are stated with them.
- In `PROJECT.json` "external" marks what is not in this repository: the API server's treatment of
  finalizers and resourceVersions, the informers, Kubernetes' rollout, the garbage collector, users.

`Exposer`. A hash is the content it is the hash of. `Mounted` leaves the timestamp in the annotation
out, since it changes only with the rest. A ConfigMap or an exposer that is being deleted stays until
its last finalizer goes; the API server refuses new finalizers then. Deployments are not watched by
this controller, so `SyncDeployment` puts nothing in the queue. `route` is what the UI and the component
of an exposer give to it: a value, nothing when the UI has no networks, or "missing" when one of the two
objects is not found; the exposers in `available` have both. An Ingress is made of it, and together with
the exposer's own settings (`val`) the entry in the map: `EntryFor`, for which `RuntimeConfiguration` is
any function of the two, as the authentication of the UI and the kind of the component go into the
entry besides the settings (`configmap.go:133-159`). A dependency error writes the status also when only its
message changes; what the message says is not modelled, so that the write may or may not be. The Ingress reducer reads them twice,
once for host, path and annotations and once for TLS and the backend, hence two steps and the two
fields of an `IngressObject`.

`SharedConfig` has three variables: where an exposer is registered, the entries, and which exposers
announce theirs. `Exposer` implements it with the finalizer of an exposer as its registration, the
entries of the stored maps, and `ConfigMapReady` as the announcement.

`Component`. What the pods of an image answer, for good until the image changes, is a configuration, a
body that is malformed (no JSON) or invalid (a required field is missing), or "failed": another status
than 200, or nothing. `FetchFails` is a fetch that fails once. `about` is the image that the message of
the condition names: a condition that is repeated for another image is a write. `observed` is whether the status of the Deployment is about its current spec, `ready` and
`updated` are the two comparisons the controller makes on the replica counts. `pods` is the set of
images among the ready pods, of which any may answer. `Delete` makes what the component owned `old`
and every copy of the component, the worker's too, `gone`; the garbage collector takes what is old
away in its own time. "leftover" starts with a Deployment of an earlier component of the name.

`SharedDeployment` runs one worker of each controller. `dep` is the Deployment as the component
controller sees it, `mounts` as the exposer controller does: one object and one resourceVersion
(`Agree`), from one informer cache. Each writer writes the whole object it read, so the part it is not
concerned with is what its copy had. The exposer controller learns of a new Deployment only through
the component's status, which it watches. `route` says whether the component is there.

`ScalityUI`. A reconciliation takes no time; `Tick` lets 5 seconds pass (`partialWriteRequeue`), and
`Cap` is `partialWriteCap` in ticks. `dep` and `pods` are what the hash in their template stands for;
what pods of one template serve is not distinguished (see the last limit in section 3). While pods are
replaced the status is nondeterministic: the code compares replica counts only. The networks in the
spec and the shell's configuration are one value.

`AppLists` keeps of a UI its name, its list and its times, and has several. Its variables for exposers
and components are the informers' caches themselves; the handlers hear of a change some time after it,
and the handler of components looks for the UIs in the cache as it is by then. Names are sequences of
words, so that the name of one UI can be a prefix of another's, as the keys of the times are strings.
The exposers are numbered in the order of namespace and name, the one the service sorts them in. The
UIs exist throughout and a written list is seen at once; the opposite is in `ScalityUI`.

## 3. Runs

Passing runs:

| Run | Checks | Instance | Distinct states |
|---|---|---|---|
| `exposer_mount` | `TypeOK`, `ReadyIsPublished`, `NoLostEntries`, `MountConverges` | 2 exposers of 1 component, the maps' cache lags; deletions of exposers that are done, dependencies that come and go | 501 k |
| `exposer_cleanup` | `NoOrphans`, `MountedMapExists`, `NothingForgotten`, `ImplementsSharedConfig`, `EntriesConverge` | 2 exposers of 1 component, the exposers' cache lags; creations, deletions, failures, crashes, deletion of the map, replacement of the Deployment | 729 k |
| `exposer_edits` | `NothingForgotten`, `EntriesConverge`, `MountConverges`, `IngressConverges` | 1 exposer, 2 components, 2 values, 2 routes, of which one decides the entry, the maps' cache lags; 2 changes (`MaxEdits`): moves and edits of the settings, dependencies that come, go and change, deletion of the Ingress | 700 k |
| `component_served` | `NothingForgotten`, `RecordedIsServed`, `SettlesOnSpecImage` | 2 images, of which each may serve one of 2 configurations, a bad body or nothing, the caches of components and Services lag; edits, forced fetches, pod crashes, failures (of the removal of the annotation too), crashes, deletion of the Deployment | 1.6 M |
| `component_force` | `TypeOK`, `NothingForgotten`, `ForceConsumed`, `FetchesEnd`, `RefreshServed`, `OwnsWhatItNeeds` | 1 image, which may serve a configuration, a bad body or nothing, everything lags; requests, changes of what is served, deletion and creation of the component, leftovers, failures, crashes, deletion of the Service | 525 k |
| `shared_mount` | `TypeOK`, `NothingForgotten`, `NoLostUpdate`, `MountConverges` | 1 component, 1 exposer, 2 images that serve the same, the caches of the Deployment and the Service lag; one edit or deletion, leftovers | 217 k |
| `ui_gate` | `TypeOK`, `NoEarlyDrop` | 2 components, Cap 2; components and exposers change, the maps and the Deployment are deleted, crashes | 2.9 M |
| `ui_converge` | `NothingForgotten`, `AppsConverge`, `TimesAreDropped`, `SettlesReady` | 2 components, 2 specs, Cap 1, the list's cache lags; 2 changes (`MaxChanges`) of any kind: edits, component and exposer changes, deletion of the UI, of its Service and of its Ingress, failures, crashes | 1.1 M |
| `app_lists` | `TypeOK`, `NoLostEvent`, `OthersLeftAlone`, `ListsConverge` | 2 exposers, of which one moves, comes and goes, 2 UIs, the name of one a prefix of the other's, 1 component, Cap 1; component changes, failures | 1.0 M |

What they show: `exposer_mount` and `exposer_edits` that each exposer's entry gets into the map, with the content
that its settings and its dependencies make of it in the end, and the map into the pods, whatever order
the exposers, their dependencies, their edits and their moves come in;
`exposer_cleanup` that nothing stays behind and that steps made from old copies still amount to
publishing and withdrawing one's own entry; the two `component` runs that the fetch is about the right
pods and that requests for it neither vanish nor, from pods that answer, repeat for ever; `shared_mount` that two writers that
do not watch the same things still agree in the end; `ui_gate` that the times and the list keep in step
over crashes and deletions; `ui_converge` that a hold-off only delays, so that a component that is
broken for good does not keep the ready one next to it from the list, also when their windows begin one
after the other; `app_lists` that of the changes
that two handlers hear of late none is missed, and that the UIs do not disturb each other's times.
`NothingForgotten`, in the runs of the three controllers and of the two around the Deployment, is what
has to hold at every moment for them to converge: a controller that is at rest, with no retry and no
event to come, has done all its work. In `shared_mount` it is about both at once: with the component
controller at rest and no event of an exposer to come, the map is mounted as it is.

Runs that show a disagreement between the code and what a comment or a test says (quotes under
`findings`):

| Run | Refutes | What happens |
|---|---|---|
| `exposer_empty_map` | `EmptyMapIsDeleted` | a failure, or a stop, between emptying the map and deleting it leaves it for ever: the retry finds no trace of the exposer and returns early (`deletion.go:170`) |
| `component_old_pods` | `SettlesOnSpecImage` | right after an update of the image the Deployment's status is about the old spec and looks complete (`observedGeneration` is not compared): the configuration of the old pods is recorded for the new image, and not fetched again |
| `component_rollback` | `RecoversFromFailure` | back at the image fetched last, a component whose upgrade failed needs no fetch, so that its condition stays False and the UI drops it |

**Other limits of the code.** These were met while modelling; each is a short behaviour of the modules
and the reason for a precondition of a run. No run repeats them.

- Outdated map (`Lagging` has "ConfigMap"): a deletion that reads the map from before the exposer's own
  publication finds nothing to clean up and releases the exposer; entry and finalizer stay
  (`deletion.go:139-173`). `NoOrphans` fails.
- Outdated Deployment: a deletion that reads it from before the mount does not unmount, and deletes the
  map (`deletion.go:107`): `MountedMapExists` fails. A content that changes and changes back equals the
  annotation of an outdated Deployment (`deployment_update.go:131`): `MountConverges` of `Exposer` fails.
- Unmounting twice: the deletion of one exposer unmounts the map of all. Siblings mount it again when
  the map changes with the deletion. It does not change when the deleted exposer had published nothing,
  or when the deletion is retried after the map was cleaned (a failure, a crash, a conflict on the
  exposer, an outdated copy of it): then the siblings keep reporting DeploymentReady and nothing is
  mounted. Hence `exposer_mount` deletes only exposers that are done ("deleteReady"), without failures
  and with up-to-date copies of exposers, and `MountConverges` is not checked in `exposer_cleanup`.
- A Deployment that a user deletes is created again without the mount; if the component's status does
  not change with it, no event tells the exposers before the next one of their own. Hence no run that
  checks `MountConverges` deletes it.
- A map that a user deletes stays as long as one exposer has its finalizer in it, and the API server
  refuses finalizers of others: exposers that come later are shut out until it is gone (`ShutOut`,
  which `EntriesConverge` excepts).
- Pods that fail to answer for good: neither `LastFetchedImage` nor the annotation is touched, and they
  are asked every 30 seconds for ever (`controller.go:340-356`). A test asserts it ("force-refresh annotation
  should remain on fetch failure for retry", `controller_test.go:1158`), under a title that says the
  opposite ("should remove force-refresh annotation even on fetch failure", `:1102`), as do comments
  ("Remove force-refresh annotation even on failure to prevent infinite fetch loops",
  `controller.go:384` and `415`, and `481`). `ForceConsumed` and `FetchesEnd` except these pods, and
  `FetchesEnd` those with an invalid body, which are asked again without the annotation.
- An exposer that moves to another component leaves its entry and finalizer in the first one's map
  (`configmap.go:56`). Hence `exposer_cleanup` has no moves.
- An outdated Deployment with the image wanted, from before two edits, has the same effect as
  `component_old_pods` (`controller.go:271`). Hence `component_served` has up-to-date Deployments.
- A refresh requested while a forced fetch is under way is removed with it (`controller.go:518`).
  `RefreshServed` is about requests that find the worker idle.
- When the removal of the annotation fails for good after a success (`controller.go:522`), the error is
  logged and the annotation stays until another event. `ForceConsumed` is checked without "clearFails".
- Components that fail one after the other hold the list off for longer than `partialWriteCap`, and for
  ever if they go on (`deployed_apps_configmap.go:245`): every one of them is within its own window.
- A component that cannot be read is skipped, whatever the error (`deployed_apps_configmap.go:58-67`).
  Components are read from the informers' cache, which has no other error than that an object is not
  found, and that is what `ScalityUI` and `AppLists` have. With a client that asks the API server, one
  failed read would take a ready component from the list at once.
- Pods mount the UI's maps by `subPath`. A pod that starts between a change and its reversal keeps the
  content in between, under a hash that is again the right one (`deployment.go:110-123`).

Deadlock is not checked (`CHECK_DEADLOCK FALSE`): an operator with nothing to do and nobody to
disturb it stops, and should.

**Bounds and why they are enough.** Two exposers of one component are what the shared map and the
shared mount need: the one at work and a sibling. Two components are needed only when an exposer moves.
The map it leaves keeps its entry, so that a second value is needed there: the exposer may come back to
an entry that is no longer its own. Of two routes one decides the entry, so that a content can change with
the settings, with a dependency, or with both, and two readings of a dependency can be of different ones.
`MaxEdits` is 2: a change, and another one, or the change back, at any later moment, also before the
first one was seen. Two images make a change, and a change back, and two configurations tell what
one of them serves from what the other does; where there is one image one is enough, since what it serves
changes otherwise. Two components of a UI are one that breaks and
one that does not, or two that break one after the other; `MaxChanges` is 2 there, from states in
which each of them may be ready, broken or not there. `shared_mount` needs one exposer, since the
siblings are in `exposer_mount`, and one change by users (`MaxChanges`), which comes at any moment of
the controllers' first reconciliations or after them; a second one would find what the first one leaves.
Leftovers add the Deployment of an earlier component. One worker per controller is what the code has
(`MaxConcurrentReconciles` is not set). `Cap` 2 has a component within its window and one past it; 1 is
enough for convergence. Two UIs are enough for a name that begins
another, two exposers for a component with a first and a second. The other state spaces are
finite without further bounds; `notReadySince` saturates at `Cap`, which no condition tells from larger values.
Symmetry is used in `ui_gate` only, which has interchangeable components and no liveness.

**Preconditions.** Lag and disturbances are chosen per run as the table says; which of them a property
needs left out, and why, is in the list above. In short: `NoOrphans`, `ReadyIsPublished` and
`ImplementsSharedConfig` need up-to-date reads of maps and exposers that keep their component in
general; `ReadyIsPublished` also holds in `exposer_mount`, where maps lag but
only exposers that are done are deleted; `MountedMapExists` needs up-to-date reads of maps and
Deployments; `NothingForgotten` of `shared_mount` needs up-to-date reads of maps: when maps and
Deployment are both outdated, the content that changes and changes back of the list above passes for
mounted; `RecordedIsServed` and `SettlesOnSpecImage` need images that keep their content and
up-to-date Deployments. The cached client guarantees none of these reads, so the theorems do not assume
them: they name the very steps by which an outdated read, or a move, breaks the property, and show
that nothing else does. `NoEarlyDrop` needs an up-to-date copy of the list: a list that is not in the
cache yet is written at once, which the code accepts (`deployed_apps_configmap.go:212-216`). The
convergence properties start with `Calm`: from some time on, every step is one of the controllers, the
informers, Kubernetes or the clock.

**Fairness.** A worker that has started a reconciliation goes on (`WF` of `Work`). The work queue
starves nobody: an object that is queued again and again is taken (`SF` of `Take(e)` and
`Reconcile(u)`, which are disabled whenever the worker is busy); with a single key `WF` is enough.
Informers catch up and their handlers hear of every change, Kubernetes rolls out and collects garbage,
time passes (`WF`). Users and failures are under no fairness; the convergence properties hold once they
stop, which is what a controller can promise.

## 4. Proofs

Checked by TLAPS, for any values of the constants that meet the named assumptions of the modules - any
sets of exposers, components, UIs, images and values - and any `Lagging` and `Disturbances` but for what
the last column says. "until" means `Spec => []P \/ <><<Step>>_vars`: a behaviour with a state
or a step that violates the property has such a step, and not only later, since a behaviour may stop
anywhere.

| Theorem | Property | |
|---|---|---|
| `ExposerProofs!TypeCorrect` | `TypeOK` | |
| `RestProofs!NothingIsForgotten` | `NothingForgotten` | |
| `ExposerProofs!NothingIsOrphaned` | `NoOrphans` | until `BlindCleanup` or `Move` |
| `ExposerRefinement!SharedAsPromised` | `ImplementsSharedConfig` | until `BlindCleanup`, `BlindPublish` or `Move` |
| `ExposerRefinement!ReportsAreTrue` | `ReadyIsPublished` | the same |
| `ExposerRefinement!NothingIsLost` | `NoLostEntries` | |
| `MountProofs!MapOutlivesMount` | `MountedMapExists` | until `BlindPublish` or `BlindUnmount` |
| `ComponentProofs!TypeCorrect` | `TypeOK` | |
| `ComponentProofs!NothingIsForgotten` | `NothingForgotten` | assumes that the Service is read from a cache, as the code does |
| `ComponentProofs!RecordsAreTrue` | `RecordedIsServed` | until `TrustsOldStatus` or `ContentChanges` |
| `ScalityUIProofs!TypeCorrect` | `TypeOK` | |
| `ScalityUIProofs!NothingIsForgotten` | `NothingForgotten` | |
| `ScalityUIProofs!PlaceIsKept` | `NoEarlyDrop` | assumes that the list is read as it is |
| `AppListsProofs!TypeCorrect` | `TypeOK` | |
| `AppListsProofs!NothingIsMissed` | `NoLostEvent` | |
| `AppListsProofs!OthersAreLeftAlone` | `OthersLeftAlone` | |
| `SharedDeploymentProofs!TypeCorrect` | `TypeOK` | |
| `SharedDeploymentProofs!NoUpdateIsLost` | `NoLostUpdate` | |
| `SharedDeploymentProofs!NothingIsForgotten` | `NothingForgotten` | until `BlindMount` or `IdleUnmount`; assumes that the Service is read from a cache, as the code does |

The steps named are the first limits of section 3:

- `BlindCleanup`: a deletion finds nothing of the exposer in its copy of the map, which has its
  finalizer or its entry, and cleans nothing up.
- `BlindPublish`: the copy of the map has what would be published and nothing is written, but the entry was
  withdrawn since, for an exposer of the same name that was deleted.
- `BlindUnmount`: the copy of the Deployment does not have the map mounted and nothing is unmounted, but
  the Deployment has it.
- `Move`: a user gives an exposer that has its finalizer another component.
- `TrustsOldStatus`: the worker goes on to the fetch although the rollout is not complete, since its
  copy of the Deployment, or the status in it, is of an earlier spec.
- `ContentChanges`: an image gets another content under its tag.
- `BlindMount`: the copy of the Deployment has the map mounted with the hash to be written, or is not
  there, and nothing is written, but the Deployment has not.
- `IdleUnmount`: the map was unmounted for an exposer of which the map shows no trace, so that the map does
  not change and brings no other exposer back.

Each of them has a counterexample that TLC finds when the runs are given the lagging kinds and the
disturbances it needs.

**`NothingIsOrphaned`.** `NoOrphans` - a trace of an exposer in a map, or its Ingress, means that the
exposer exists and has its finalizer - is not inductive: a worker may be about to publish for an exposer
that it only has a copy of. `OrphanInv` adds what rules that out:

1. `CopiesAgree`, `HeldIsCurrent`: a copy that counts as current is the object that is stored;
2. `SeenIsProtected`: however old a copy is, if it has the finalizer and is not being deleted, the
   exposer still exists and has the finalizer. It can lose the finalizer only through
   `RemoveExposerFinalizer`, which is written from a current copy that is being deleted;
3. `PublisherIsProtected`, `RereadIsProtected`: hence so is the exposer being published, from the
   moment its finalizer was added;
4. `PhaseFitsCopy`, `CleanedBeforeRelease`: hence only a deleted exposer is released, and after its
   traces were removed from the map, unless the cleanup was a `BlindCleanup`.

The interesting step is the release: the exposer disappears, so every copy that could still publish
for it must be ruled out. Copies that are not deleting and have the finalizer exist only if
the exposer is still protected, and a released exposer that is created again starts
without traces and without the finalizer.

**`SharedAsPromised`, `ReportsAreTrue`.** `OrphanInv` is not enough: an announcement must be true when
it is made, and stay so while other exposers' workers rewrite the map. `RegistryInv` adds
`EntryHasFinalizer` (an entry comes with its finalizer), `AnnouncedIsPublished`, `MarkedIsPublished`
(what this reconciliation is going to report is in the map already), `DeletionIsSeen` and
`WithdrawerIsDeleted` (who takes an entry out works for an exposer that is being deleted, so that its
announcement is withdrawn). Under it every step is one step of `SharedConfig` for one exposer, or a
stutter. `NothingIsLost` needs `EntryHasFinalizer` and that a copy of a map that counts as current is the map:
the API server refuses writes made from any other, and a map with a sibling's entry has a sibling's
finalizer, which keeps it from being deleted.

**`MapOutlivesMount`.** A mounted map exists because somebody's finalizer is in it (`MountIsProtected`).
The worker that is about to mount a map has its own finalizer there (`MountedForPublisher`, with
`HashIsNew`: its hash comes from this very reconciliation), and no other worker takes it out; the worker
that takes the last finalizer out has unmounted (`UnmountedFirst`).

**`RecordsAreTrue`.** `ServedInv`: a Deployment that says its rollout is complete has no pods of another
image (`RolloutIsTrue`); so while the worker asks, only pods of that image answer, because only this
worker changes the image of the Deployment (`OnlyTheImageAnswers`); so what it got is what the image
serves (`AnswerIsTrue`), and that is what it records, in a write made from a current copy
(`SuccessIsTrue`).

**`PlaceIsKept`.** From the decision not to hold off until the write, no component is in its window or
there is no list to drop it from (`NobodyInWindow`): times change only between two reconciliations, and
nobody else writes the list.

**`NothingIsMissed`.** While the worker walks through the exposers of a UI, either an event is under way
that will bring it back, or what it has found is exactly what the exposers it has passed call for
(`WalkInv`, with `InOrder`: it has met the first exposer of every component it has met). Hence at the
end the list is `Canonical`, or it comes back. The crux is the handler of components: if an exposer
changes between the change of a component and the handler, the handler misses the UI, and the change of
the exposer has queued it.

**`NothingIsForgotten`**, of `Exposer`, `Component` and `ScalityUI`. The liveness properties are out of
the prover's reach; this is the part of them that is not, for all constants: with the fairness of
section 3 a controller that has something to come takes it, and here is why it has. `NothingForgotten`
is about rest, so `RestInv` adds what the worker knows on the way there (`WorkerKnows`): as long as
nothing else brings it back to the object - it is not queued and its copy is current (`Alone`) - the
worker's own copy is the stored object, and what its earlier steps have done is still there, or an event
of what they did is to come. Hence a reconciliation that ends without queueing its object again leaves
everything done; an error, a wait or a refused write puts the object back in the queue; and every
change by somebody else either makes a copy outdated or queues the object. In `Exposer` this has to
hold for each exposer while the worker is at another one, and rests on the watches: of a map that
changes, all its exposers hear. In `Component` a worker may have begun before the component was
deleted and created again (`gone`), and what it owned may be collected at any time; `ServicesAgree`
says that the copy of the Service does not claim the old one. In `ScalityUI` a hold-off ends a
reconciliation halfway, with a timer.

**`TypeCorrect` and `NoUpdateIsLost` of `SharedDeploymentProofs`.** The actions of `SharedDeployment`
are those of `Component` and `Exposer`, so the proof instantiates their proof modules and takes from
them that each controller's steps preserve its types; the lemmas `Same...` say that the two instances of
an action are one. What is new is what one step does to the other view of the Deployment:
`CopiesCurrent` (the two copies are of one resourceVersion, and current together) and `NoMountNoHash`.
With these a write made from a copy is either refused or made from the Deployment as it is, and the part
it is not concerned with stays.

**`NothingIsForgotten` of `SharedDeploymentProofs`.** The exposer controller does not watch Deployments,
so this holds of neither controller alone. What makes it true is an order of events: the component
controller records the fetch, in a status write that the exposers hear of, only after it found a
Deployment of its own; whoever looks for the Deployment after that event finds the right one. The
invariant has four parts.

1. `ComponentRests`: `RestInv` of `ComponentProofs` carries over to the composition; a write of the
   exposer controller to the Deployment makes the component due.
2. `OwnerInv`: once a fetch is recorded, or is about to be, the component has a Deployment of its own,
   and the copy of it, however old, is of that one and not of a leftover.
3. `CopiesKnown`, `HashKnown`: an up-to-date copy is what is stored, and the hash that the worker carries
   to the Deployment is that of the map as it is, or the map is written again or its news is
   still to come, and then every exposer will be brought back.
4. `MountKnown`: when the fetch is recorded and its event was seen, every exposer that nothing brings
   back has left the map mounted as it is, or the worker has just unmounted it and is about to change
   the map, which brings every exposer back.

The update is skipped when the copy of the Deployment shows the hash wanted (`deployment_update.go:131`);
that the copy tells the truth then is what nobody guarantees, and `BlindMount` is the step where it does not.
A second unmount by a deletion that was worked on before, or by one from an old copy of the exposer, is
`IdleUnmount`. Neither needs an assumption on what lags or on who is deleted. TLC finds
`NothingForgotten` violated with either, the latter with two exposers (section 3). Users and failures
are those of `SharedDeployment`: an edit of the image, deletions of exposers that are ready, leftovers.

**`OthersAreLeftAlone`.** Of two UIs neither's prefix begins a key of the other: names have no "/" in
them (`UIsAssumption`, which Kubernetes guarantees for names), so the first "/" of a key is where the
name ends, also when one name begins the other (`PrefixTellsUIs`, by the elements of the sequences,
without induction).

The assumptions on constants (`...Assumption`) say only that values are told apart: `None` is no value,
malformed is no configuration, and so on; TLC evaluates them in the runs.

TLC checked every one of these inductive invariants, on the instances above, before it was proved.
Every invariant of the runs, and every action property, is stated by a theorem. Only model-checked: the
temporal properties (`EntriesConverge`, `MountConverges`, `IngressConverges`, `AppsConverge`,
`ListsConverge`, `SettlesOnSpecImage`, `SettlesReady`, `ForceConsumed`, `FetchesEnd`, `RefreshServed`,
`OwnsWhatItNeeds`, `TimesAreDropped`), since TLAPS proves nothing about fairness and `ENABLED`. Nothing
is proved by induction over data, and no module has a recursive operator.

## 5. Not modelled

- The number of replicas of the UI's Deployment by the number of nodes (`deployment.go:203`): nodes are
  not watched, and nothing else depends on it.
- `ExtraUIApps` and the rendering of the maps to JSON; the merging of volumes, mounts, ports, labels,
  annotations and authentication settings; image names (`internal/utils`): pure functions of one
  object, without a state or an order of events, which unit tests reach. They are abstracted to the
  value or the flag that the controllers compare.
- Namespaces: components and exposers are of one; the UI is cluster-scoped.
- `internal/controller/common_status.go` and `FindUIComponentsByExposer`, which nobody calls.
- `cmd/main.go`: flags, TLS, the start of the manager. One operator process at a time is assumed, as
  the deployment has it by leader election.
- Generated code, manifests, tests.

## 6. Plan

In order, most important behaviour first, with what became of it.

1. `Exposer`: the shared map, the mount and the Ingress under outdated reads, crashes and deletions. Done.
2. `ExposerProofs`: type correctness, nothing is orphaned. Done.
3. `Component`: rollout, fetch, force-refresh, deletion and garbage collection. Done.
4. `ScalityUI`: hold-off, hashes, times, Service, Ingress, phase. Done.
5. `SharedConfig` and the refinement, checked by TLC and proved. Done.
6. `SharedDeployment`: both controllers on one Deployment. Done.
7. `AppLists`: several UIs, the event mappers and the exposer service. Done.
8. Operators for the pure parts (section 5) against reference definitions. Left aside: they have no
   state and would restate the code; the two whose result the rest depends on, the order of exposers
   and the prefix of keys, are in `AppLists`.
9. Theorems about each component's types and its main safety properties. Done.
10. Theorems that no controller rests too early. Done for each controller, and for the two of
    `SharedDeployment` together, image and mount.
