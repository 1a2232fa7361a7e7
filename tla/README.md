# Switchstand in TLA+

A verification project for Switchstand (`src/`, Python): what its durable state promises to
the agents that share it, stated in TLA+, model-checked with TLC on small instances and, for
the most important promises, proved with TLAPS for every instance.

Switchstand is a set of stores and tools between several AI agents and a human. Agents call
MCP tools (`chatgpt_mcp.py`, `mcp.py`, `chatgpt.py`); the tools read an identity, admit the
caller and run PostgreSQL transactions; long-running tasks and host commands (the inbound
wake, the edge, monitors, launchers, deployments) act on what was committed and keep receipts
of their own on disk. Nothing else coordinates the agents, so the transactions, the receipts
and the identities they check are where the system is right or wrong.

## 1. The parts of the system

| Part | State | Operations | Talks to | Module |
| --- | --- | --- | --- | --- |
| Mailbox registry (`mailbox/agent_mailboxes.py`) | name -> endpoint, owning session, generation, agent type; transfer requests | register or rename, take over, take the coordinator over, request and approve a transfer | fences every message call by the generation | `AgentMailboxes` |
| Messages (`mailbox/messages.py`, `agent_messages.py`) | envelopes, deliveries with state, generation stamps and evidence | send, receive, recover, acknowledge, answer, disposition; the review service's internal sends | reads the registry; its commits signal the wake | `AgentMessages` |
| Inbound wake (`mailbox/codex_inbound_wake.py`) | in memory: observed and fresh deliveries, an event and a task per recipient, suspended recipients | signal, watch, discover, observe, fence, `turn/start`, alert | messages and registry; the Codex daemon | `InboundWake` |
| Canonical work (`tracker/runtime.py`, `work.py`, `relations.py`, `appends.py`, `events.py`) | work rows with revisions, parents, links; the effect journal | update, append, relate, create, classify feedback | locks grants; looks for pending reviews | `CanonicalWork` |
| Resultant-state policy (`tracker/policy.py`) | lifecycle, wait and next action of a row | validate an update or a create | called by the canonical work operations | `WorkPolicy` |
| Grants (`grant_state.py`, `grants.py`) | a grant per managed principal, with a version; intents | issue, rotate, revoke, lock, prepare, finish | read by every tool before its transaction | `CanonicalWork`, `ProviderEffects` |
| Provider gateways (`tracker/updates.py`, `creates.py`, `provider_relations.py`, `mutation_effect.py`, `provider.py`) | intents recorded before the send | prepare, send, finish, reconcile | the provider; the journal | `ProviderEffects` |
| OAuth continuity (`oauth_continuity.py`) | client tokens bound to one GitHub credential, a replay cache | load, exchange, promote, repair, converge | GitHub; FastMCP's OAuth proxy | `TokenRefresh` |
| Reviews (`reviews.py`) | basis, request and outcome messages of an occurrence | request, get, continue, recover, submit | works, messages, human reviews | `ReviewOccurrences` |
| Human reviews, implementation requests (`human_reviews.py`, `implementation_requests.py`) | consequences with decisions, requests, bindings | propose, decide, request, bind | works, grants, reviews, direction | `ImplementationRuns` |
| Task runs, control, direction (`task_runs.py`, `task_control.py`, `human_trajectory.py`) | requests, results, checkpoint and direction chains | request, bind, submit, checkpoint, record | works and grants | `TaskRuns` |
| Priority claims (`priority_claims.py`, `priority_claim_service.py`, `priority_context.py`) | superseding chains of claims | set, clear, record, reconcile, project | works, grants | `PriorityClaims` |
| Activation continuity and outcomes (`activation_continuity*.py`, `outcome_state.py`) | obligation chains, outcome snapshots | transition, get, record | currentness, works | `ActivationContinuity` |
| Pull requests (`pull_requests.py`) | rows, links, owners | add, remove, transfer, list | registry, messages | `PullRequests` |
| Required results (`lifecycle.py`, `chatgpt.py`) | obligation of a result bound to an effect | save, reconcile | the tracker | `RequiredResult` |
| Failure evidence (`failure_capture.py`, `pending_failures.py`, `failure_journal.py`) | a queue and a registry on disk, the journal | capture, replay, acknowledge, resolve | launches | `FailureQueue` |
| Wakeful store, edge monitor (`wakeful.py`, `edge_monitor*.py`) | cycle lease, cursor, condition streak, outbox | acquire, complete, abandon | host probes | `EdgeMonitor` |
| Edge maintenance (`edge_maintenance.py`) | a receipt with the phase reached | gate, stop, upgrade, swap, start, verify, ungate, roll back, resume | Caddy, systemd, Docker, the database | `EdgeMaintenance` |
| Edge deployment (`edge_deploy.py`) | attempt directory, backup, launcher copies | prepare, back up, migrate, swap, smoke, roll back | the same host | `EdgeDeploy` |
| Stable authentication (`stable_auth_deployment.py`, `stable_auth_migration.py`) | receipt, attempt pointer, frozen evidence | activate, roll back, reconcile | services, routes, the failure queue | `StableAuth` |
| Agent broker (`agent_broker.py`, `agent_executor.py`, `managed_launch.py`) | leases over one budget, attempts, receipts | reserve, attach, run, finish, abandon, recover | systemd units | `AgentLeases` |
| Coordinator workers, checkout, worktrees (`coordinator_workers.py`, `coordinator_sync.py`, `worktree_lifecycle.py`) | worker records, a git checkout, retirement plans and receipts | spawn, execute, cancel; sync, handoff; plan, apply, prune | systemd, git | `CoordinatorWorkers`, `CheckoutSync`, `WorktreeRetirement` |
| Managed runs (`run.py`, `launch.py`, `development.py`) | run receipt, reservation lock, Docker resources | reserve, prepare, supervise, stop | processes, Docker | `WriterRuns` |
| Product currentness (`product_currentness*.py`, `stateful_qualifier.py`) | sealed qualification receipt | evaluate, qualify | configuration, database | `ProductCurrentness` |
| Flow report, corpus and import, certification and test tooling | files of one run | one-shot programs | - | - |

`PROJECT.json` lists every part with its files, the ones left out too.

What makes the code hard to test:

- **Check, then act, across transactions.** A tool reads the caller's mailbox, grant or run in
  one transaction and writes in another. Takeovers, rotations and other calls run in between.
- **Lost answers.** Clients repeat calls whose answer they did not get; the tools repeat
  takeovers; `turn/start`, a provider request or the start of a unit can take effect after its
  caller has given up.
- **Two writers on one revision or one generation**, and operations that revise two works.
- **State spread over rows and messages** that no single row shows: a cycle of parents, two
  bases of one review, two current baselines, a pending review that ends with its subject.
- **Sequences of accepted steps**, each validated only for the fields it mentions.
- **Crashes between two effects** on the host, with a receipt that says less than was done,
  and commands that outlive the process that started them.

The hazards, each at its line and with the properties that would catch it, are in
`PROJECT.json`.

## 2. Modules

One PostgreSQL transaction is one action where the code locks what it decides on; everything
read before the transaction is kept in the call's own record and may be stale. A refused
request changes nothing. On the host, an effect and the receipt written after it are one
action with several outcomes where nothing else can act in between, and two actions where
something can. A process may die at every step. Payloads, names and digests are model values.

**AgentMailboxes.** `mailboxes` is the table keyed by name, `transfers` the requests, `retry`
the takeovers whose answer was lost. `RegisterAgent`, `AgentTakeover`, `AgentTakeoverLost`,
`RetryTakeover` (repeats an ordinary takeover, only re-reads a coordinator one),
`RequestTransfer`, `ApproveTransfer`. An actor is a principal with a session.

**AgentMessages** (extends AgentMailboxes). A call goes through `AgentContext`,
`ResolveRecipient` or `RouteResult`, a replay lookup and a storing transaction, or through
`Receive`, `Recover`, `Acknowledge`, `Disposition`; `ReviewRequest` and `ReviewVerdict` are the
review service's sends. Registry actions interleave with all of them.

**InboundWake.** Each `await` of `_run` and `_reconcile` ends an action (`Wake`, `Discover`,
`LockRoot`, `Observe`, `Release`, `ReadReceipts`, `CheckIdle`, `Fence`, `StartTurn`,
`Accepted`, `Fail`, `TimeOut`, `AdmissionRefused`, `Alerted`). `Signal` is reached from the
post-commit callback and from the watcher. The daemon (external) accepts, rejects or loses a
`turn/start`, in time or late; `Crash`, `Baseline`, `Listen` are a restart.

**CanonicalWork.** `work`, `journal`, `grant`, `asked` and `answered` reviews, and `call`, the
requests in flight with the grant version the tool read. `ProtectedUpdate`, `CanonicalAppend`
and `ProtectedRelation` lock before they look the operation up: one action each;
`ProtectedCreate` and `ProtectedClassify` look first (`LookUp`) and lock later: two. Init may
hold an effect of unknown outcome, as a database of the provider-backed release can.

**WorkPolicy.** One row's completion, lifecycle, wait and next action; `Update` is the
validation, FINISH normalisation and reopen rule of `protected_update`, `CloseSource` the
closing of a classified feedback.

**ProviderEffects, EffectOnce.** A call locks grant and work, journals its intent as UNKNOWN,
sends, reads back and records the verdict; requests get lost or arrive late (`peWire`), calls
die, grants expire and are reissued, a retry finds the journal and reconciles. `EffectOnce` is
the abstract promise: each operation's verdict is opened once and settled once, and the
effect at the provider agrees with it. `ProviderEffects` instantiates it with
`Once == INSTANCE EffectOnce WITH verdict <- ..., landed <- ...`, and `EffectsHappenAsRecorded`
is its specification.

**TokenRefresh.** `tfGit` (GitHub's side), the stored credentials and mappings, the replay
cache (token -> pair, expired, place in the order of use) and the requests in flight, each await
of `exchange_refresh_token` and `_converge_issued_tokens` an action; FastMCP and GitHub are
external.

**ReviewOccurrences, ImplementationRuns, TaskRuns, PriorityClaims, ActivationContinuity,
PullRequests, RequiredResult, FailureQueue** model the records of the table above. In each,
what a tool reads before its transaction is a step of its own, other sessions change works,
grants, mailboxes and policies through one `...Change`/`...World` action, and every call may be
repeated. `FailureQueue` is also what `StableAuth` writes its escape evidence to.

**EdgeMaintenance, EdgeDeploy, StableAuth, EdgeMonitor, AgentLeases, CoordinatorWorkers,
CheckoutSync, WorktreeRetirement, WriterRuns, ProductCurrentness** model the host. Their
variables are the receipt or record on disk, the state of the host that the code observes and
changes (services, gate, routes, launcher, database, units, processes, git), and the memory
of the command that runs, which a kill erases.

**MC modules.** `MCAgentMailboxes`, `MCAgentMessages`, `MCCanonicalWork` and `MCInboundWake`
give one module its constants. `MCHost`, `MCRecords` and `MCEffects` are sums: they extend
components that share no variable, and a variable `focus`, fixed in the initial state, says
which component takes steps. A behaviour of the sum is a behaviour of one component with the
others at rest, so every property is checked on exactly the behaviours of its component.

**AgentMailboxesProofs, AgentMessagesProofs, CanonicalWorkProofs, ProviderEffectsProofs,
InboundWakeProofs, RecordsProofs, HostProofs, ServicesProofs**: theorems (section 4). A proof
module extends the modules it is about and adds no assumption to theirs. `ProviderEffectsProofs`
holds the proofs about `TokenRefresh` too, `RecordsProofs` those about `ReviewOccurrences` and
`WorkPolicy`; `HostProofs` is about what happens to one writer, receipt or site, `ServicesProofs`
about the host's other commands and services.

## 3. Runs

A property of a run is often the conjunction of named parts, each stated and commented in its
module; the parts are what the table lists after a colon.

| Run | Question | Properties |
| --- | --- | --- |
| `mailboxes` | Three sessions of two principals, two ordinary names, both coordinator names, lost takeover answers, two transfer requests. | `RegistryIsConsistent`: `MailboxTypeOK`, `OneNamePerBinding`, `CoordinatorIsOne`, `TypeFollowsBinding`; `OneApprovalPerGeneration`, `NewOwnerNewGeneration`, `LostCoordinatorTakeoverIsNotRepeated` |
| `messages` | Two calls in flight on two mailboxes that change hands, with the review service beside them. | `MailIsWhole`: `TypeOK`, `MessageAndDeliveryTogether`, `ReplyDispositionAtomic`, `StampNotAhead`; `DeliveriesMoveForward`: `ForwardOnly`, `OldOwnerIsFenced` |
| `work_writers` | A managed and a chat principal write to one work with two calls in flight, retries, a rotation, an unresolved effect. | `WorkIsAccountedFor`: `WorkTypeOK`, `EveryVersionIsOneEffect`; `UnresolvedEffectFreezesWork` |
| `work_feedback` | Creates, all classifications, links, finishing and reopening while the grant is rotated and revoked. | `WorkIsAccountedFor`, `EffectsUseTheGrantInForce` |
| `work_reviews` | Creates, re-parentings, retypings and AMEND classifications beside a pending review of the amended work. | `ParentsFormAForest`, `PendingReviewIsCancelledKnowingly` |
| `wake` | Two deliveries to a Root beside one incident of any kind. | `NoticeIsFenced`: `WakeTypeOK`, `NoticedOnce`, `StartIsFenced`; `FreshMailIsKept`, `FreshMailIsNoticed` |
| `wake_heads` | A Root and its Head behind one thread. | `RootTurnsDoNotOverlap` |
| `effects` | Two principals' appends, updates, relations, moves and creates on one provider task; concurrent token refreshes. | `JournalIsSound`: `PeTypeOK`, `OneUnresolvedEffect`; `EffectsHappenAsRecorded` (refinement of `EffectOnce`); `RefreshIsSound`: `CredentialSpentOnce`, `MappedCredentialExists`, `AnswerIsLiveSuccessor` |
| `host` | Each host command failing, losing track of an effect, dying and being repeated anywhere. | `MaintenanceIsSound`: `EdgeTypeOK`, `UpgradeIsNeverRepeated`, `VerdictMatchesHost`, `CandidateIsPublicOnlyWhenProven`; `DeploymentIsReversible`: `DeployTypeOK`, `RollbackRestoresThePreimage`, `CodeOnlyKeepsWrites`; `SiteStaysServed`: `PublicIsServed`, `FailLeavesSiteAsFound`, `SplitKnowsEveryGrant`; `EscapesAreOnRecord`: `EscapeIsRecorded`, `EscapeNeverConflicts`; `MonitorIsSound`: `EventsAreTransitions`, `CursorNeverGoesBack`, `RecoveryIsConfirmed`; `LeasesAreSound`: `RunningUnitHoldsLease`, `NoOvercommit`, `ChildrenHaveActiveParents`, `ReleaseIsFinal`; `WorkersAreSound`: `LauncherStartsOnce`, `WorkerOutcomeStands`, `AdmittedBesideNoWorker`; `SyncIsSound`: `HistoryIsKept`, `SyncAnswerIsTrue`; `RetirementIsSound`: `EvidenceIsKept`, `ReceiptIsTrue`; `WriterRunsAreSound`: `StopHitsItsRun`, `OneAgentPerWriter`, `NothingIsOrphaned`, `CurrentRunIsOnFile`; `CurrentnessIsProved`: `AnswerHeldAtOnce`, `PassIsEarned` |
| `records` | Records beside work and mail, their calls racing, dying and being repeated. | `RowIsWhole`: `PolicyTypeOK`, `WaitsAreWhole`; `StepsKeepThePolicy`; `ResultIsSavedAsBound`: `ResultSavedOnce`, `TerminalResultIsSaved`, `BoundResultIsTheEffect`, `BindingIsKept`; `EvidenceReachesTheJournal`: `NoEvidenceLost`, `DispositionHasEvidence`; `ReviewsAreSound`: `ReviewIsUnambiguous`, `FocusedFollowsFindings`, `VerdictComesFromTheHolder`, `BaselineProofIsKept`; `ApprovalIsSound`: `OneCurrentBaseline`, `ApprovedTextBoundsNotes`, `OneRequestPerAuthorization`, `RunsStartUnderCurrentApproval`; `RunRecordsStand`: `TerminalResultStands`, `ChainsLoseNothing`; `ClaimsAreSound`: `ClaimsAreChains`, `AnsweredClaimIsStored`, `JournalMatchesClaims`, `KnowledgeWasTrue`; `ContinuityIsSound`: `DecidedOnTheLatest`, `DeliveryIsProved`, `AnsweredTransitionStands`, `OutcomesFollowTheWork`; `OwnershipIsSound`: `AcceptanceMovesOnce`, `SessionsAgreed`, `PagesAreOneSnapshot` |

Every property has a mutant in `PROJECT.json`: a change of a modelled operation, as a bug in
that code would make it, after which TLC finds the property violated in the same run.

Two runs end with a counterexample (details in `findings`):

| Run | What the trace shows |
| --- | --- |
| `late_signal` | A task fails and awaits its alert; mail committed meanwhile sets an event nobody waits for, and no task is started for it. |
| `obligation` | An obligation is accepted before the product is current and blocked once it is: `advance_obligation` stores it as DELIVERED with its blocker fields set, a record its own validator refuses on every later read. |

### Bounds

All bounds are constants that appear in guards, so that a refusal is always possible.

- Two generations per mailbox make one change of owner; the properties compare an owner with
  the one before it. Three sessions give two of one principal beside one of another.
- Two calls in flight: each hazard listed is between one call and one other step, or between
  two calls of the same operation.
- Two stored messages make a request and its answer, or two answers that compete; three to
  four revisions, since a sub-item classification takes two; two grant versions make a rotation.
- `wake` allows one incident (`MaxIncidents`) of any kind anywhere in a behaviour; two
  deliveries make mail that arrives during the round of other mail.
- `effects`: two principals and two operations of any kinds on one task, three calls (a first
  attempt, its retry and the rival) and one event of the environment (an edit, a reissued or
  an expired grant); for tokens two requests, four pairs issued, two credentials and one upset.
- `host`: two attempts or applications, so that a rerun meets what the first left behind (for
  the split of the authorization service two attempts alone, and one beside a launch that
  replays the failure queue); for monitors three cycles, which let a slow cycle outlive its
  lease and another follow; two leases and a child on a budget of two; two spawns and two
  cancels; two launchers, two process ids and three start tokens, so that an id is reused; two
  qualifier runs.
- `records`: two revisions, two clients and two operations of each kind, chains of two to
  three, which are a predecessor, a racing successor and what follows them; two review
  policies and a bounded number of changes of the world in a review; four versions of a pull
  request; for the failure queue one launch beside captures of two attempts, and two launches
  beside two captures of one attempt.
- In `WorkPolicy` one exact value stands for all: the rules never compare two exact values.

Sessions, calls, principals, operations and values are symmetric in `mailboxes`, `messages`,
the `work_*` runs and `effects`, whose properties are all safety properties; there is no
symmetry in runs with liveness. `MCHost` and `MCRecords` order interchangeable workers,
launchers, captures and operations by a guard on the first step instead, and leave out changes
that nothing in the component reads. Deadlock is checked in `mailboxes`, `messages` and `work_*`.
It is not in the others: a service without mail, or a command that has ended within the
bound on its attempts, really has nothing left to do.

### Fairness

Only `InboundWake` has liveness properties. Its fairness is weak for the steps of a task, the
callback and the watcher (the event loop runs whatever is ready, and `_watch` scans every
second), strong for acquiring the Root's lock (`asyncio.Lock` is first come, first served),
and weak for the timeout of `turn/start` (30 seconds in `call`), for the daemon dealing with
a request and for the end of turns. Nothing is assumed about sends, dispositions, takeovers,
the control file or the users. `FreshMailIsNoticed` promises nothing after a disturbance
(failure, lost answer, takeover, restart, switching off, refused admission), because the code
does not: it keeps the mail fresh and waits for the next signal. The host commands and the
records promise no progress: every one of them may be killed, and only a person reruns it.

## 4. What is proved

TLAPS checks these for every value of the constants that satisfies the named assumptions of
the modules (`MailboxConstants`, `MessageConstants`, `WorkConstants`, `PolicyConstants`,
`ProviderConstants`, `WakeConstants`, `FailureConstants`, `PriorityConstants`,
`ContinuityConstants`, `TaskRunConstants`, `ImplementationConstants`, `PullRequestConstants`,
`RequiredResultConstants`, `ReviewConstants`, `RetirementConstants`, `WrAssumption`,
`CkAssumption`, `StableAuthConstants`, `WorkerConstants`, `SyncConstants`, `MonitorConstants`,
`DeployConstants`, `LeaseConstants`, `TokenConstants`), which TLC evaluates in the runs. They say
that bounds are numbers, that a null value is none of the values it stands beside, that an id
derived from an operation is derived from no other, and that the clients an earlier release
leaves are finitely many; sets of sessions, calls, works, workers and messages are arbitrary.

**Registry** (`AgentMailboxesProofs`): `RegistryStaysConsistent` with its parts
`MailboxTypeCorrect`, `BindingsAreUnique`, `CoordinatorIsNeverAmbiguous`, `TypeIsTheOwners`;
`NewOwnerFencesTheOld`, `ApprovalsAreExclusive`, `LostCoordinatorTakeoverIsOnlyRead`. Every
operation does one of four things to the table: refresh a row, create one, rename one, or
move one to another actor. The inductive invariant `RegistryInv` (types, unique bindings and
endpoints, one coordinator, type of the owner) is kept by those four, and the actions are
shown to be instances of them. The parts need one another: that a move leaves a binding unique
follows from what the takeovers check about the caller's other names, and that is only enough
because endpoints are unique. `ApprovalInv` adds that an approved transfer's generation has
been left behind, which makes a second approval from it impossible.

**Messages** (`AgentMessagesProofs`): `MailStaysWhole`, `OnlyTheOwnerMovesMail`. A step does
nothing to the two tables, stores a message with its delivery, moves one delivery, or stores a
result with the disposition it causes; the theorems are proved of those four and every action
is shown to be one. `MailInv` adds to the registry's invariant that a reply is the only one of
its request, from its recipient to its sender (`OneReply`, `RepliesFit`), and what a call
carries between its transactions: the generation it resolved is one its recipient's mailbox
has reached, and the delivery it answers is stored (`CallsFit`). The generation is compared
again in the transaction that writes, which is what fences the previous owner.

**Canonical work** (`CanonicalWorkProofs`): `WorkTypeCorrect`, `WorksFormAForest`,
`UnresolvedWorkIsFrozen`, `GrantInForceAtCommit`, `WorkStaysAccountedFor`,
`ReviewsAreCancelledKnowingly`. The invariant `Inv` has, beside the types
and the forest, four parts that make them inductive: what an operation names is of the kind
it can change (`CallsFit`); the WorkId an operation creates is unused until the journal
records it (`CreatedByJournal`), so that a create adds a leaf even though it looked before it
locked; an unresolved effect is on a work that exists (`UnknownIsImported`); and the grant
read under a lock is still the current one at commit (`ReadGrantInForce`). A step keeps all
parents, moves one work after the search of its new parent's ancestors, or adds a leaf; the
lemmas `ForestKept`, `ForestMoves`, `ForestGrows` treat the three. That every revision is one
effect is proved as existence and uniqueness of a producer (`OneProducerEach`), from which
`OneProducerCounts` derives the cardinalities: a step journals at most one entry, and the
revisions the entry claims, one, two, or one of each of two works, are those newly reached.

**Provider effects** (`ProviderEffectsProofs`): `JournalStaysSound`, and
`GatewaysImplementEffectOnce`, the refinement of `EffectOnce`. `PeInv` says that a call past
its admission owns the unresolved journal row of its operation, so one call at a time acts for
an operation; that an operation is untouched at the provider until that call sends; and that a
request on the way is its operation's only one unless it is a placement move. Under it every
step maps to a step of `EffectOnce` or changes nothing there.

**Token refresh** (`ProviderEffectsProofs`): `RefreshStaysSound`, from `TokenInv`. Its first half
holds whatever happens: one request is past the refresh lock (`OneHolder`); a credential other
than the shared one is bound to one usable refresh token (`OneBinding`), so that deleting the
source after the new pair was rebound leaves no mapping behind; a replay leads to the pair issued
for its token (`ReplaysFit`); `RequestFits` says what a request relies on at each await; and
GitHub has moved past every credential that was spent (`SpentBehind`). The second half,
`FreshInv`, holds until something goes wrong (a restart, a revocation, a failed call): what a
request may take to GitHub is what GitHub has now, or its successor is in the hands of the one
request that has yet to store it (`Unsaved`). Together they show that nothing is spent twice.

**Inbound wake** (`InboundWakeProofs`): `NoticeStaysFenced`, `RootTurnsNeverOverlap`,
`FreshMailStays`. `WakeInv` turns on what can become of a `turn/start` that is still with the
daemon: its task waits for the answer, or the recipient is suspended, or the process was
restarted and the mail is in its baseline, which nothing makes fresh again. `TaskFits` says
what a task has read is still good for at each of its awaits, `RootLocks` that two tasks never
hold one Root's lock.

**Records** (`RecordsProofs`), one section and one inductive invariant for each component:

| Theorem | What makes the property inductive |
| --- | --- |
| `EvidenceIsNeverLost` | one file per attempt; the file an acknowledgement is about to remove is, under the lock, still the record it was told of (`AcknowledgeIsLocked`) |
| `ClaimsStaySound` | a claim has one successor (`OneSuccessor`); the agent's call holds the one intent nobody else can settle and knows whether its row is stored (`AgentFits`) |
| `ContinuityStaysSound` | what a call decided before its insert is right for the generation it was decided for (`DecisionsFit`); each field of a revision was earned by a transition before it (`FieldsAreEarned`) |
| `RunRecordsAlwaysStand` | a terminal result is stored and its run is the only one bound (`TerminalsHeld`) |
| `ApprovalStaysSound` | approved baselines supersede approved ones, and what a proposal was checked for holds until it is decided (`SupersessionClosed`, `PendingStillSupersedes`) |
| `OwnershipStaysSound` | a transfer has moved its pull request past the version it was accepted at (`MovesAreSpent`); a reader has seen the rows of its basis below its offset (`ReaderFits`) |
| `ResultStaysAsBound` | the notes follow the journal and the journal meets the binding, in either order of the two (`NotesFollowTheEffect`, `EffectMeetsBinding`, `SaveFits`) |
| `ReviewsStaySound` | one basis per revision, one request per basis, and never to its requester (`OneBasisEach`, `OneRequestEach`, `ReviewersAreOthers`); a basis about to be recorded already has the findings it follows (`BasisFits`); the answer a reviewer is about to store is to the request it read (`JudgingFits`) |

**Host** (`HostProofs`):

| Theorem | What makes the property inductive |
| --- | --- |
| `RetirementStaysSound` | only the application that made the archive moves anything (`OneArchivist`), and until the archive is there all that an application saw is in the writer (`ApplicationFits`) |
| `WriterRunsStaySound` | a start token names one process for ever (`TokensAreUnique`); a launcher that owns the writer is the one on file (`OwnersAreOnFile`); one that found it free relies on the last run having ended (`FreeWriterIsFree`). Exempt (`Forsaken`) are the agent of a launcher killed from outside, or by the stop while SIGTSTP held it, and what a Docker command makes after its client is gone |
| `CurrentnessStaysProved` | a source that was read holds what it said of the basis it was read at (`ItemFits`); the moment the answer speaks of is the second reading of the basis (`MomentsFit`) |
| `SiteIsAlwaysServed`, `EscapesStayOnRecord` | `AuthInv`: what the host looks like at each place of an attempt (`HostFits`), which failure is judged as before or after the boundary (`PhaseFits`), and that every record queued, journaled or shown to a launch is the one frozen for its attempt (`FrozenFits`) |

**Services** (`ServicesProofs`):

| Theorem | What makes the property inductive |
| --- | --- |
| `WorkersStaySound` | nothing is asked of systemd before the record is there, a launcher has not started before its wrapper starts it, and a record that is TERMINAL before its wrapper has ended was cancelled (`SpawnFits`) |
| `SyncStaysSound` | a call that goes on to the merge was behind its target, and one that moved the checkout left its target in the history (`SyncFits`); whoever moves the checkout, only forward, keeps that (`SyncStands`) |
| `MonitorStaysSound` | the cycle that still owns the lease has read no less of the journal than the store says (`CycleFits`); a healthy streak was begun by the cycle completed last (`StreakIsEarned`) |
| `DeploymentStaysReversible` | what each place of a run may rely on of the copies and the backup it took (`DeployFits`); a recorded attempt was made from the old launcher |
| `LeasesStaySound` | a launcher past its attachment holds an active lease and a recovery's proof is about a unit that has ended (`LauncherFits`, `RecoveryFits`); what a parent has handed out is counted unit by unit (`UnitsOf`), so a reservation adds exactly its own units and a release takes none from others |
| `MaintenanceStaysSound` | what the host, the receipt, the memory of the command and the place it has reached say of one another (`HostFits`, `ReceiptFits`, `ToolFits`, `PlaceFits`); `EdgeMaintenance` has no constants, so TLC visits all its states as well, and the proof says why its phases are safe |

**Policy** (`RecordsProofs`, last section): `RowsStayWhole` and `EveryStepKeepsThePolicy` with their parts
`PolicyTypeCorrect`, `WaitsStayWhole`, `CoherenceKept`, `ReopenedWorkIsStartable`. The groups
of fields are nested: a patch that affects the transition affects the wait, and one that
affects the wait affects the action. Each rule reads only columns of its own group and the
larger ones, so a rule that is not checked again reads nothing that changed.

Every safety property of the passing runs is a theorem. Only model-checked are
`FreshMailIsNoticed`, since liveness under fairness is outside TLAPS, and the counterexamples of
`late_signal` and `obligation`. The inductive invariants were checked by TLC, as invariants of
small instances, before they were proved.

## 5. Observations

### Shown by a run

- `late_signal`: a signal that arrives while a failed wake task sends its alert
  (`codex_inbound_wake.py:267`) finds the task neither waiting nor done and starts nothing;
  the retry the code describes waits for the signal after that.
- `obligation`: the transitions of `activation_continuity.py` admit a chain that stores a
  record which the validator of every later read refuses (`StoredRecordsAreCoherent`).

### Divergences from the documentation, without a run

- `messages.py:1149`: the ordinary disposition closes deliveries of the typed review protocol;
  docs/mailbox.md:26-27 say it is rejected.
- `tracker/runtime.py:370`: an AMEND classification cancels a pending review without the
  confirmation docs/tracker.md:54-55 ask for. `PendingReviewIsCancelledKnowingly` excepts it,
  and excepts an update that gives the occurrence another work type: `pending_review_id` then
  no longer finds it, and `protected_update` looks for reviews of the work it changes only.
- `tracker/runtime.py:307`: the slower of two identical classifications is answered
  `not_sent` although it is applied; docs/tracker.md:49-50 promise the recorded receipt.
- `edge_maintenance.py:1473-1490`: the old runtime can be restarted after an upgrade that was
  APPLIED; docs/chatgpt-mcp-edge.md:398 keeps rollback for a proven `NO_EFFECT`. Line 433 also
  asks for schema revision 0024 where the code checks 0025.

### Behaviour the models have and a maintainer may want to know

- *Registry and messages.* A transfer request's id leaves the name out (`agent_mailboxes.py:408`),
  so after a rename a repeated request keeps the old name and its approval turns STALE. The
  digest of a message covers the recipient's generation (`messages.py:374`): a repeated send
  after a takeover of the recipient may be answered with a conflict though stored once.
- *Work.* The grant version is part of an append's fingerprint (`mcp.py:487`), so a retry after
  a rotation is a conflict. `pending_review_id` recognises an occurrence by its work type.
- *Wake.* Only the first remaining delivery is fenced (`codex_inbound_wake.py:442`); when a Head
  closes it during the admission the round is dropped. A refused host admission (437) ends the
  round with no further signal. A repeated send marks its delivery observed but not fresh: one
  committed by another process and not yet scanned is then never announced.
- *Provider effects.* "applied" of an update or a relation means that the state converged; a
  lost request may still land later. A create with a lost answer stays UNKNOWN and fences its
  parent for good. `finish()` is unconditional.
- *Tokens.* A lost GitHub answer, or a restart between refresh and store, ends the shared
  credential; promotion of a legacy credential leaves the source, whose spent token may be
  presented once.
- *Edge.* A stop that times out in GATED leaves the service down in front of an open gate, and
  so does a failed readback of the ungating followed by a rollback. Writes between backup and
  stop are lost by a full rollback of a deployment; a rerun after a kill past the swap copies
  the candidate launcher over `launcher.before`. An OAuth marker in a batch classified
  TRANSPORT is consumed and never reported; `observed_at` is read before the lease, so the
  order of `pending()` can contradict the order of the transitions.
- *Failure queue.* Of two concurrent launches the second one's acknowledgement fails and with
  it the launch; one conflicting record fails the replay of every launch; a late mark may take
  STORED back to PENDING_SYNC; a crash between register and enqueue leaves UNRECORDED.
- *Required results.* A definitive rejection, a transient 429 included, is recorded `not_sent`
  under a deterministic operation id, so that principal can never save the result. A crash
  between the protected update and RESULT_READY followed by a reissued grant leaves the
  obligation PENDING. UNKNOWN with a currentness reason has no exit; `SAFE_TO_RETRY` and the
  currentness events have no caller.
- *Leases.* Leases of an earlier boot are never released; a crash between the state and the
  receipt leaves a lease nobody can recover.
- *Runs and reviews.* `submit_result` stores a result of a superseded run. A parallel retry of
  a checkpoint is answered stale though recorded, and a replayed one CURRENT though a newer
  generation with the same basis exists. The FULL upgrade of a FOCUSED review
  (`reviews.py:1254-1274`) is always refused as `review_basis_changed`. After a takeover of the
  requester the same request is refused. A second baseline review with another check at the
  same revision makes the proof UNKNOWN.
- *Workers and checkout.* `cancel` reads the unit's state without the lock: a queued unit may
  start although its record says cancelled, with a second spawn admitted beside it. A crash
  during a pull leaves `.git/config.lock` until an operator removes it; "applied after readback
  error" may describe somebody else's pull.
- *Claims and obligations.* `_send` stores a claim at a revision that may have moved on, shown
  as STALE. DEFER or RETIRE of an accepted obligation becomes DELIVERED when the product is
  current. The generations of an acceptance of a pull request are what its sender wrote.
- *Worktrees and writers.* Evidence written after the check of the archiving application goes
  with `git worktree remove --force`; after a crash past a rename the plan is refused and a new
  one meets the existing archive; a second application can overwrite COMPLETE by STARTED. A
  SIGKILLed launcher leaves its agent running while the receipt reads "stopped". So does the
  stop itself when SIGTSTP has stopped the launcher (`launch.py:436-437`): SIGTERM stays
  pending, SIGKILL follows after two seconds, the answer is "stopped", and the next launch puts
  a second agent into the writer. That a stop leaves no agent of a launcher that runs rests on
  GRACE_SECONDS (2) being longer than CHILD_TERM_SECONDS (1). A Docker command that outlives
  its launcher, or that its caller gave up on after the timeout (`docker.py:37-40`), can create
  its resource after the clean-up and after the reclaim of the next launch; nothing removes it.
- *Currentness.* The qualifier takes the selected runtime and the schema from its arguments and
  can seal a receipt for an edge configured otherwise, which then answers CONFLICT until it is
  removed by hand. After a foreign edit of the disposable work an attempt cannot pass.

## 6. Not modelled, and what is left

- Parsing, schemas, validation of text, rendering, logging and start-up: pure conversions and
  I/O that no property here is about. The flow report and the work corpus only read.
- One-shot imports and exports, the certification and development tooling (container images,
  test planning): sequential programs that run once under an operator's eye.
- Single operations left out of modelled parts: message calls addressed by a WorkId,
  `protected_project_create`, the Head route token, the provider projection,
  `PendingFailureQueue.sync`, paging beyond ten works of a listing.
- Variants that lead to the same states, or that no property names: a definite timeout in
  `StopCombined` and an interruption inside `CopyState` (both reach GATED otherwise); a partly
  restored database between `dropdb` and the end of `pg_restore`; the archive path per head and
  the prune receipt of a retirement; a handoff whose start commit is no ancestor, and a failed
  release of the lock, in `CheckoutSync`; a git child that outlives its caller; the exit status
  of a worker's execution; a worker id requested again after a refusal; the clock of a monitor
  cycle read before its transaction; `RuntimeProof` as one read of three; an unknown mutation
  outcome without a journal row in `RequiredResult`; the focused and quality containers of a
  run; the cursor of `pr_links`; `RunningE` compares the running code where the command looks at
  the launcher path and the FASTMCP home alone.
- FastMCP, GitHub, the Codex daemon, Asana, Docker, git and systemd are environment, modelled by
  the answers and effects the code provides for.

Worth adding: an abstract mailbox that `AgentMessages` implements, the way `ProviderEffects`
implements `EffectOnce`; the work of a message addressed by its WorkId; and liveness of the host
commands, should their callers come to retry by themselves.
