# KubeMod in TLA+

KubeMod is a Kubernetes operator that modifies or rejects resources at admission,
as told by `ModRule` resources.  This directory models its core in TLA+, checks
the models with TLC on small instances and proves the main safety properties
with TLAPS.  Paths below are relative to the repository.

## The system

| Component | State it keeps | Operations | What makes it correct |
|---|---|---|---|
| `ModRule` resource and webhooks (`api/v1beta1`) | none | `Default`, `validateModRule` | what is accepted can be compiled (it cannot always) |
| `ModRuleStore` (`core/modrulestore.go`) | map: namespace to list of compiled rules, behind a `RWMutex` | `Put`, `Delete`, `getMatchingModRuleStoreItems`, `GetStats` | a map keyed by namespace/name in spite of the unstable sort and the order-breaking delete; the scan is exact |
| Walks (`CalculatePatch`, `DetermineRejections`) | locals of one request: tier, document, annotation | one store read per tier, then the rules of the tier | no rule skipped while the store changes; rejections examine what is admitted; the annotation follows |
| `ModRuleStoreItem` (`core/modrulestoreitem.go`) | compiled queries, regular expressions, templates | `IsMatch`, `calculatePatch` | match as documented, `negate` on every path; an operation with a `select` changes each selected item and nothing else |
| Dragnet webhook (`core/dragnetwebhook.go`) | none | `Handle`, `injectSyntheticRefs` | every request is answered; Reject rules are enforced |
| Pod binding webhook (`core/podbindingwebhook.go`) | none (writes an annotation to a pod) | `Handle` | the annotation names the node the pod runs on; nobody's write is undone; no binding is held up |
| Reconciler (`controllers/modrule_controller.go`) | none (writes the store) | `Reconcile` | the store follows the API server |
| Process (`main.go`, `app/`) | goroutines, error channel, `WaitGroup` | `run`, the initializers, their signal handlers | no error lost, no goroutine left waiting; the process ends once a signal has reached every application |
| Web app (`app/webapp_handlers.go`) | a store per request | `dryRunHandler` | a dry run predicts what admission does |
| JSONPath engine and expressions (`jsonpath/`, `expressions/`) | none | parsing and evaluation of queries | a query yields what it describes, with the right keys; what is undefined never satisfies a comparison (it does satisfy `!=`) |
| Utilities (`util/`) | none | templates, diffs | (text) |

Interactions.  Users write ModRules to the API server, which calls `Default` and
`validateModRule` (webhooks with failure policy `Fail`).  The informer's cache
follows, its events fill a workqueue, and one worker calls `Reconcile`, which
calls `Put` or `Delete`.  Concurrently, the API server sends admission requests
to the dragnet webhook (failure policy `Ignore`).  Each request reads the store
once per execution tier, under the read lock, and uses what it read after the
lock is released.  The store is in memory only and is rebuilt after a restart.
When the scheduler binds a pod, the API server calls the pod binding webhook
(failure policy `Fail`, 10 seconds), which reads and updates that pod before the
binding is stored.  The web app's dry run fills a store of its own and uses the
same walks.

Hard behaviours: writers between two tiers of a walk; rules that change tier
during a walk; in-place sort and swap delete; int16 tiers with both end values as
sentinels; patches that fail half way; the same patch on two documents; Get and
Put of a reconcile interleaved with new events; retries; crashes; shutdown of
goroutines that wait for each other, and of applications that register for signals one after the other; the items of a select taken in the random
order of a Go map; an update of a pod that outlives the call that sent it.  `PROJECT.json` lists them as hazards, each
at its line.

## Modules

| Module | Models | State |
|---|---|---|
| `ModRule` | the resource, `Default`, `validateModRule`, what compiles | none |
| `RuleMap` | abstract specification of the store: a set of rules, one per namespace/name | `rules` |
| `ModRuleStore` | `Put`, `Delete`, candidates of a scan | `modRuleListMap` |
| `TierScan` | the two loops of `getMatchingModRuleStoreItems`, one element per step | the loop's locals |
| `Match` | `isMatch`, `isStringMatch` | none |
| `MatchReadme` | the README's definition of a match, against `isMatch` | one match item, one result |
| `Document` | manifests, `IsMatch`, `calculatePatch`, the JSON Patch library (external) | none |
| `Admission` | `Handle`, `CalculatePatch`, `DetermineRejections`, composed with the store | the locals of one request, two history variables |
| `Operator` | API server, informer, workqueue, `Reconcile`, crashes, composed with the store | `api`, `cache`, `queue`, the call in progress |
| `Lifecycle` | `run` of `main.go`, the signal handlers of the applications | goroutine positions, registered and reached handlers, channel, error list |
| `Expressions` | the functions and operators KubeMod adds to the expression language, with undefined; of the library (external) `==`, `!=`, `>` and the conversions to a number and a boolean | none |
| `Ranges` | the indices a range `[min:max:step]` visits, and what a range means | none |
| `JSONPath` | parser, selectors and paths of the JSONPath engine, placeholders (`RECURSIVE`, for TLC only) | none |
| `JSONPatch` | the JSON Patch library on values of any depth (external) | none |
| `PatchItems` | `newCompiledJSONPatch` and `calculatePatch` for any engine that runs the selects (`Found`, `Refused`) | one calculation: operation, items left, patch so far |
| `PatchSelect` | the calculation with `JSONPath` as its engine, and what a select means | (that of `PatchItems`) |
| `PodBinding` | overlapping calls of the pod binding webhook, API server, scheduler, other writers, crashes | the pod, and per attempt its phase, handler, copy |
| `DryRun` | `dryRunHandler`, composed with `Admission` | the rules still to be stored |
| `*_proofs` | theorems and proofs about the module of that name; `Admission_proofs` is about `Document` too, `PatchItems_proofs` about `JSONPatch`, `Query_proofs` about `MatchReadme`, `Expressions` and `Ranges` | |
| `MC*` | instances for TLC | |

Definitions named "Variant" in comments are deliberate bugs; each is substituted
for the definition it varies to see that a property notices.  They take no part
in any specification.

### Data

A rule is a record.  `targetNamespaceRegex` is the set of namespaces it matches
(`""` is the namespace of a cluster-wide resource) or `Nil`; `match` is a set of
match items; `patch` a sequence of operations, each with a constant value or, in
`from`, the field its template reads; `broken` names the parts whose text does not
parse.  A manifest is a function from a few fields to values, plus the contents
of `last-applied-configuration`.  Names, messages, logs and the wording of
errors are left out.

In `Expressions` and `JSONPath` a JSON value is a record whose field tells its Go
type; queries are trees instead of text.  `Selected` of `PatchSelect` says what a
select means without evaluating it step by step: a location (a list of keys) is
selected if it can be cut into pieces that the selectors admit one by one.  A key
is a string, and a few of them stand for what goes wrong on the way into a JSON
pointer: `a/b` (not escaped), `a[b` (not found by `rexSelectKeySegment`), `01` (printed
as 1).

### Atomicity

`Put`, `Delete` and a scan hold the store's lock from beginning to end, so they
are single steps; `TierScan` opens the scan and shows that the one-step
definition (`IsLowestTier`, `PotentialRules`) used by `Admission` is what the
loops compute.  In `Admission` a request takes one step per tier and one per
rule, and `Write` (a `Put` or `Delete`) may come between any two.  Requests only
read the store, so one at a time is modelled.  In `Operator`, `Get` and the write
to the store are separate steps.  In `PodBinding` a call reads the pod, sends its
update and has it arrive in three steps; `ctx` is cancelled when the API server
gives up, which stops a call that has not sent its update and none that has.  The
resourceVersion is modelled by `stale`: an update is accepted only if nobody has
written since the copy was read.  In `PatchItems`, `Emit` takes any item that is left.

In `Lifecycle` an application starts, registers its signal handler and serves in
separate steps, because the web app does so at once (`app/webapp.go:96`) and the operator
only when its manager has been built against the API server (`app/operatorapp.go:79`).  A
signal is given to the handlers that are registered, each of which keeps it; with none
registered it ends the process, and so does a second one after the operator has
registered (controller-runtime's handler, external) and the missing configuration that
`GetConfigOrDie` does not find.

The expression library is not part of the repository.  `Expressions` models what the
code's use of it depends on.  KubeMod's own `==` and `!=` on booleans are listed before
`gval.Base()`, whose `reflect.DeepEqual` replaces them, and numbers, texts of numbers and
undefined (a float, NaN) are compared as numbers before that.  A filter asks for a
boolean with `EvalBool`, which converts: a number other than 0 is true, NaN included.
`Greater` has no value for pairs that the library compares as text, so that TLC would
stop at one; no query of the instance meets any.

`sort.Sort` is not stable: `Sorts` allows every sorted order.  When a patch has
failed, `modifiedJSON` is nil and later patches are applied to it; the JSON Patch
library is a fork whose source is not in the repository, so the model allows all
outcomes (an error, an empty result, a panic).  No run that reports a divergence
depends on that choice: the shortest counterexamples have a single failing rule.

## Runs

| Run | Instance | Shows |
|---|---|---|
| `store` | 10 versions of 7 rules in 2 namespaces, 2 that do not compile; lists of up to 4; scans from 3 minimal tiers, for all operations and namespaces, between any writes | `UniqueNames`, `HomeNamespace`; the store refines `RuleMap` and each call has exactly the abstract effect; `ScanIsExact`, on lists that Delete has left unsorted too |
| `selects` | all match items over 2 strings, all results with up to 3 elements; 90 manifests (arrays of up to 3 of 4 kinds of members, objects, nests) with every one of 83 patches: 16 filters, 10 ranges, wildcards, unions, scripts, `..`, two operations with a select each | `OneCriterionAsDocumented`, `NegateInverts`; `SelectsExact`, `UndefinedNeverSelects`, `ReplaceExact`; `EmittedInTurn`, `SetExactly` |
| `admission` | 6 rules, one of them in two tiers, 5 requests, writers at any time; patches that fail, read each other's output or remove annotations | `NoRuleSkipped`, `RejectEnforced`, `DeniedForCause`, `TiersRise`, `HandleAdvances`, `MirrorKept`, `Answered` |
| `operator` | 2 keys in one namespace, one with two versions that compile and one only the store rejects, the other with a version the webhook rejects for its tier, which the store would take; unbounded edits, errors and crashes | `NothingLost`, `StoredRulesAccepted`, `ReconcileWritesItsKey`, `RulesArrive`, `DeletedRulesLeave` |
| `lifecycle` | both applications, all flags, any number of signals at any time | `NoSendOnClosed`, `NoErrorLost`, `NoneStuck`, `Returns` |
| `podbinding` | 3 attempts to bind one pod to one of 2 nodes or to none, 2 writes of others, any number of timeouts and crashes between | `AnnotationHolds`, `NoWriteUndone`, `WaitedForIsServed`, `NeverHeldUp` |

Bounds.  int16 is shrunk to -4..3 (`MCMinInt16`, `MCMaxInt16`); both end values
keep their role as sentinels, and the rules use the first and the last legal tier.
Three rules are enough for one to be moved or deleted between two others; four in
a list let the swap delete leave a list unsorted that the next sort must mend.
Two fields suffice for a rule to depend on, and to destroy, what another produced.
Edits, errors and crashes are unbounded.  `admission` has the one state constraint:
`OneKind` keeps the rules that reject and the rules that spoil each other's patches
from being stored together, except for the two they share.  Only writers leave the
constraint, never the handler whose steps `Answered` is about.  Three attempts in
`podbinding` let an update be overtaken by a retry and by the retry's retry; two
writes of others come before and after a read.  Arrays of three elements are enough
for a removal to shift a selected and an unselected one.  `selects` allows deadlock:
a calculation ends.

Divergences.  Six runs are expected to be violated; each states what a document
or a comment of the repository says.

* `reject_bypass`: README.md:310 says a resource a Reject rule matches is rejected,
  and `core/modrulestore.go:303` says of a failed patch "simply log it and continue
  to the next one"; a failed patch overwrites the document with nil, CalculatePatch
  fails, and `Handle` admits the resource before the Reject rules are asked.
* `last_applied`: README.md:1188 says the annotation is patched as well; one patch
  that fails on it discards all of them.
* `reported`: "Successfully stored ModRule" (`controllers/modrule_controller.go:83`)
  is logged for a rule that `Put` rejected; `validateModRule` lets such rules pass.
* `select_remove`: README.md:580 says a patch "is executed once for each item yielded
  by `select`"; of two removes from one array, in the order 0, 1 of the map, the
  second comes too late for the element it was made for, which has moved down: a
  selected element survives.  In the order 1, 0 the result is right.
* `dry_run`: "Dry-runs a set of ModRules against a resource" (`app/webapp_handlers.go:40`);
  it asks for the operation `""`, which no rule names once it has its defaults, so
  no rule runs.  With the operation `CREATE` the property holds.
* `node_ref`: README.md:933 says the annotation is the name of the node.  The first
  attempt times out with its update under way, which lands late; the retry, for another
  node, cannot read the pod (or its own update conflicts), and its binding is allowed and
  stored all the same, so the annotation keeps naming the first node.  (The README's name of the annotation, `ref.kubemod.io/node`, is not
  the code's, `ref.kubemod.io/nodename`, either.)

Three more have no run; the properties beside them say what does hold.

* README.md:424 joins the criteria of one match item by "one of the following is true";
  in `isStringMatch` (`core/modrulestoreitem.go:510`) the first one that is specified
  decides.  `OneCriterionAsDocumented` is therefore about items with at most one
  criterion.
* README.md:1203 says all comparisons to undefined are false and lists
  `$.a.b.c != 12`, which is true: undefined is a NaN, and the later `gval.Base()` takes
  `!=` away from KubeMod's operator.  A filter with `!=` so selects the members that lack
  the key.  `FilterOnUndefined` proves it for every other operand;
  `UndefinedNeverSelects` is about `==`, `>` and `&&`, for which the README is right.  The
  path alone, `[?@.n]`, selects them, too.
* A SIGTERM that comes after the web app's `signal.Notify` and before the operator's
  `SetupSignalHandler` goes to the web app only.  The web app ends, the process is not
  killed, the operator goes on to serve, and `wg.Wait` blocks until another signal comes,
  although `app/webapp.go:69` has the process terminated by the signal it waits for.
  `NoneStuck` and `Returns` are therefore about the signals that have reached an
  application, not about signals that have come; without a further one the process
  serves for ever.

The passing properties hold in spite of these.  `RejectEnforced` is about requests
that passed both walks, `MirrorKept` about manifests whose annotation mirrored them,
`RulesArrive` and `Agrees` about rules that compile, `AnnotationHolds` about attempts
whose own update was accepted, `ReplaceExact` about targets that exist, do not lie
within each other and have keys a JSON pointer writes as they are, `SetExactly` about
operations that replace what is there, or add to or remove from objects that are there,
at locations none of which lies within another.  So what `select_remove` shows takes an
operation that inserts into or removes from an array, or two that touch each other.

Fairness.  `Answered`: weak fairness of the handler's steps, because the Go
scheduler runs runnable goroutines and the `RWMutex` lets a waiting reader in;
nothing is assumed of requests and writers.  `RulesArrive`, `DeletedRulesLeave`:
the watch delivers (weak, per key), the workqueue serves each key in turn and Get
does not fail for ever (strong, since other keys and errors come between), the
worker finishes.  The properties are about a process that stays up.  `Returns`:
weak fairness of each goroutine as far as it is scheduled by Go alone, none of failures,
signals and of an application getting as far as to register.  `NeverHeldUp`: weak
fairness of each handler, whose client calls return, and of the API server storing a
binding it has let through; none of timeouts, so that no attempt is saved by one, and
none of crashes, restarts, the scheduler and other writers.

## Proofs

All theorems hold for every value of the constants under the named assumptions:
`Int16Assumption`, `NamespaceAssumption`, `ModRulesAssumption` (rules have a
namespace of the cluster and an int16 tier), `RequestsAssumption`,
`ValidRulesAssumption` (stored rules were accepted by `validateModRule`, so no rule
has a sentinel tier; that this is so is `AcceptedOnly` below), `DefaultAssumption` (the
set of rules is closed under `Default`, and they have the fields it fills in),
`FallibleAssumption`, `NodesAssumption`, `BoundsAssumption`, and for manifests
`NilAssumption` (nil is neither an object nor a document) and `PatchAssumption` (a
patch is a sequence of operations).  The engine of `PatchItems` is only assumed to
yield a Go map: finitely many values under lists of keys (`FoundAssumption`); paths
and templates are lists of keys and placeholders (`KeysAssumption`,
`PatchesAssumption`, `PlacesAssumption`), and `Error` is no manifest
(`ManifestsAssumption`).  TLC evaluates all of them with the real engine in `selects`.

* `ModRuleStore_proofs`.  `StoreInv` (types, unique names, home namespace) is
  inductive.  Lemmas say what sorting, replacing, swapping and the map operations
  do to the *set* of a list's elements; from them each `Put` and `Delete` is an
  abstract step (`StoreRefinesRuleMap`) with the same arguments (`StoreCallsExact`).
  The second is needed: a store that deleted the wrong rule would still refine
  `RuleMap`, where any rule may be removed at any time.
* `TierScan_proofs`.  The invariant says what the scan has collected from the
  elements it has passed: their lowest tier and all their rules in it.  It never
  mentions the order of the list, hence `ScanExact` for unsorted ones.
* `Admission_proofs`.  `AdmissionInv` adds to the store's invariant that a walk has
  put to the match every steady rule of the tiers passed (`WalkInv`), and that in
  the reject walk the examined document is the one to be admitted and each Reject
  rule that matched is a rejection or about to become one (`CheckInv`).  That the
  int16 addition does not wrap below `MaxInt16` is `NextTierDoesNotWrap`.
* `Operator_proofs`.  `NothingLost` is not inductive: Reconcile could hold the
  answer "not found" while the cache has the rule again and the store agrees with
  it.  `CallInv` excludes that: what was fetched is what the cache holds, unless the
  key is in the queue again.  `AcceptedOnly` follows a rule from the webhooks through
  the API server, the cache and a call of Reconcile into the store (`AcceptedInv`); it
  turns `ValidRulesAssumption`, which the theorems about `Admission` rest on, into a
  fact about the stores that `Operator` builds.  `OwnKeyOnly` combines what `Put` and
  `Delete` do to the set of rules with the fact that Get returns at most one rule
  (`OneFetched`): between crashes only the end of a call of Reconcile changes the
  store, and only for its key.
* `Lifecycle_proofs`.  An error that is not in the list is being sent or in the
  pump's hand, the channel is closed only when all goroutines are done, and the pump
  ends only then.  The same invariant gives `NoDeadlock`: wherever run has not
  returned, the guard of some goroutine's step holds, or there is an application that
  serves and that no signal has reached since it registered.  The others may long have
  been told to stop.
* `PodBinding_proofs`.  `AnnotationHolds` is not inductive: an old attempt could hold a
  copy that is not stale and write its node over the right one.  `PodInv` says that a
  copy that is not stale equals the pod (`FreshCopies`), that only one attempt is not
  lost (`OneLive`), that an attempt that has not been given up has found the pod
  unbound (`Unbound`, `Bound`), and that, once the live attempt's update is accepted,
  the annotation is its node and every other copy is stale (`Kept`), because a call
  that was given up reads no more.  `FreshCopies` alone gives `NoWriteUndone`.
  `AtWork` is the safety half of `NeverHeldUp`: who is waited for is at work.
* `Admission_proofs`, the manifest.  What a patch does to it, for patches of any length.
  `ApplyWithOptions` is a recursive function over the operations applied so far;
  `NatSetInduction` states induction over a *set* of numbers, from the library's
  well-founded minimum, so that no operator has to be instantiated.  With it
  `AppliedInTurn` says that the fold is the step-by-step application, `PatchTyped` that
  it stays among documents, and `MirrorPatched` that a patch does the same to a
  manifest and to an annotation that mirrors it, or fails on both.  From these come
  the types of `Admission` and `MirrorStays`, where the strengthening is that the
  annotation mirrors the examined document all along the patch walk.
  `DenialsHaveCause` needs that rules on the list of a tier have the type asked for,
  apply and match, also after they have been deleted from the store.  `HandleEnds`
  is the safety half of `Answered`: a lexicographic measure (phase, tier, rules left)
  falls with every step of the handler.
* `Query_proofs`.  `isMatch` against the README by cases of the result's kind and of
  the criterion, for arrays of any length.  `FilterOnUndefined` is the algebra behind
  `UndefinedNeverSelects`, for every value of the other operand: which operators make a
  filter select a member that lacks one of their operands, and which do not.  `RangeExact` shows the two loops of `rangeSelector` to visit what
  `InRange` defines and never to index past the array; its heart, `StepsCounted`, is
  the rounded division that counts the steps of a loop.
* `PatchItems_proofs`.  The two halves of `calculatePatch` and its caller.  What an
  operation does to a value: a path is followed down (`Containers`) and the value built
  again on the way up (`Rebuilt`), both recursive functions of the number of keys, so
  every fact is an induction on that number by `NatSetInduction`.  `EditInPlace` says
  that an operation in place succeeds, sets its location (or empties it, if it is a
  remove from an object), changes no location apart from it and keeps every operation
  apart from it in place; `PatchInPlace` carries that
  through a patch of any length, and the last part is what makes it an induction.  What
  the calculation emits: `EmittedInTurn` says nothing in the middle of an operation, so
  `CalcInv` adds `Blocks`: the operations emitted for the current one are those of the
  items that are not waiting any more, as many as are missing from the count.  A failed
  calculation has an operation it could not make.  `EveryItemInTurn` follows at once;
  `SetsExactly` puts both halves together: when all operations have had their turn the
  patch consists of the rule's operations (`PatchComplete`), in some order, and
  `PatchInPlace` does not ask for the order.

Only model-checked: the liveness properties (`Answered`, `RulesArrive`,
`DeletedRulesLeave`, `Returns`, `NeverHeldUp`), which need fairness; of these `HandleEnds`,
`NoChangeLost`, `NoDeadlock` and `AnswersToCome` prove the part that is safety.
`SelectsExact`, `UndefinedNeverSelects` and `ReplaceExact` are about `JSONPath`, whose
evaluator is made of mutually `RECURSIVE` operators on trees; no theorem can be stated
in a module that reaches one.  The parts around the evaluator are proved: the operators
of a filter (`FilterOnUndefined`), the indices of a range (`RangeExact`), and with
`SetsExactly` what happens to the items once the engine has yielded them, which is the
half of `ReplaceExact` that is not the engine's.

## Not modelled, and the plan

* Text: templates, the YAML diff, `date()`, the scanner of queries, generated code,
  mocks and deployment files.  No property is about them; deployment files were read
  for failure policies, timeouts, operations and replicas.
* The expression library's other conversions (strings read as indices, numbers as keys
  of objects), its arithmetic and its comparison of texts: the library is not part of
  the repository, and the instance avoids them.
* The CRD schema's checks are the API server's, and the instances respect them.
* Several replicas: leader election is off by default and the deployment has one
  replica.  With it, a replica that does not lead serves webhooks from an empty store.
* The HTTP server of the web app: a listener that fails is only logged, and shares no
  state with the goroutine that waits for the signal.
* One request at a time in `Admission`, because requests only read the store.

Next, in this order:

1. Theorems: when `AddedFieldsReachLastApplied` does hold; the dry run's store as an
   instance of the proofs about `ModRuleStore`.
2. `Admission` composed with `Operator`, so that "steady" is a property of the API
   server's rules; `Operator` with several replicas.
