# A TLA+ model of azath

azath keeps the passphrases of encrypted NAS volumes out of the NAS. A KMS
server holds a master key in memory; a NAS stores its passphrase sealed under
that key and, when it boots, asks the server to open it. The server asks a human
over Telegram before it does. The modules in this directory model that exchange
from the NAS's boot script to the operator's button, the life of the server
process with the configuration it is started with, and the commands that edit the
configuration. TLC checks them on small instances, TLAPS proves the safety
properties for instances of any size.

## The system

| Component | State it keeps | Operations |
|---|---|---|
| Telegram gate (`internal/gate/telegram.go`, contract in `gate.go`) | pending request per device, last prompt per device, approval cache, send tokens, `closed`, bot token and HMAC key | `Check`, `runPending` (one goroutine per prompt), `processCallback`, `Close` |
| Update polling (same file) | `lastUpdateID`, the response in hand | `pollLoop`, `getUpdates`, `validateCallback`, `decodeCallbackData` |
| Key manager (`internal/keymanager`) | `state`, `key`, the loaded-gauge | `Load`, `Sealer`, `Destroy` |
| Crypto (`internal/crypto`) | a Sealer's own key copy, nonce counter | `NewSealer`, `Seal`, `Unseal`, `Destroy` |
| KMS server (`internal/server`) | nothing between RPCs; per RPC a Sealer and plaintext; counters | `Seal`, `Unseal`, panic recovery, response codec |
| Server process (`cmd/azath/serve.go`) | what has been acquired so far | start, serve, drain, forced stop, deferred teardown |
| Synology client (`cmd/azath/client.go`, `endpoint.go`) | shares and endpoints still to try, the plaintext in hand, results, exit status | loop over shares, failover, mount, output |
| Seal command | none | one RPC, one file written |
| Config commands | the configuration file | read, edit, validate, replace |
| Atomic write (`internal/fsutil/atomic.go`) | temporary file, target, directory entry | `Write` |
| Configuration (`internal/config`) | none | defaults, validation, derived settings |
| Health, logging, metrics (`internal/observability`) | the list of readiness checks, counters | `AddCheck`, `/readyz` |
| Secret resolver, platform calls, installer, deployment files | none or outside the program | |

How they interact. gRPC runs a handler goroutine per RPC. `Unseal` takes a Sealer
from the key manager, opens the blob once, zeroes the result, calls `gate.Check`
and blocks, perhaps for minutes; then it opens the blob again with the same
Sealer. Callers for one device share one prompt. The gate's poll goroutine
receives button presses out of Telegram's queue and decides the shared request.
`runServe` owns all of them and takes them down in the order
drain – gate – token – key. On the NAS, `azath synology` asks the endpoints for one
share after another and hands what it gets to DSM; a server answers every failure
with random bytes, so only the failing mount tells the client of a denial.

What is hard here, and why it is modelled:

* many goroutines finish the same request (press, deadline, failed send, last
  waiter, `Close`), and only the first may decide it;
* messages with live buttons stay in the chat for ever: presses come late, twice,
  out of order, and after a restart;
* the wait for a human lies between two halves of an RPC; the key may be
  destroyed, the gate closed, the client gone by the time it ends;
* limits on pending requests, waiters, sends and tracked devices, each with a
  path on which a count could leak;
* secrets (key copies, plaintext, token, HMAC key) must go as early as possible
  and not earlier than their last user;
* shutdown waits for goroutines that wait for contexts that shutdown cancels;
* the client gives up on a server that has not noticed, and asks the next;
* `Validate`, `NewTelegramGate` and `Unseal` each check a part of whether there is a
  gate to ask.

`PROJECT.json` lists these hazards at their lines with the properties that would
catch them.

## Modules

```
                  Gate  (contract)                   KeyLifecycle (contract)
            /       |          \                       /           \
 implemented     used by       used by            used by      implemented
      by            |             \                 /              by
 TelegramGate  SynologyClient      +-- KMSServer --+           KeyManager
      |                                   |
 fed by TelegramPoll     ServerConfig -- extended by Serve

 AtomicWrite -- extended by ConfigEdit -- implements AtomicFile (contract)
```

* **Gate** is what `gate.go` promises: a `Check` waits and returns Approved,
  Denied or an error; an Approved needs the operator's decision, for the waiting
  call or as a lease on the device, and comes only before `Close`.
* **TelegramGate** is the implementation. One action per locked section of
  `waitForApproval`, `runPending`, `processCallback` and `Close`, and one per step
  a goroutine takes without the lock. `AdmitClosed`, `AdmitCached`, `AdmitRefused`,
  `AdmitNew` and `AdmitJoin` are the five ways through the first locked section of
  `waitForApproval`; `Leave` is its second. There the last waiter reads its context
  twice, and what a cancellation between the two reads does is the second disjunct of
  its answer. `ImplementsGate` is the refinement of Gate, `AnswersEveryCheck` its
  liveness.
* **TelegramPoll** is the way of a press to `processCallback`: Telegram's queue,
  offsets, lost responses, restarts, the validation of a callback. The gate model
  accepts any press of any prompt at any moment, so it holds for whatever this
  module hands it.
* **KeyLifecycle** and **KeyManager**: contract and implementation of the key
  manager. `Load` reads its source without the lock, so its two checks are two
  actions. Every buffer of this code that holds key bytes is a variable, and so is
  `residue`, what this code cannot clear: the key schedules that `crypto/aes` expanded,
  which stay in memory past `Sealer.Destroy` until the garbage collector takes them
  (`Collect`), if it ever does (`manager.go:10-13`, `aes.go:68-72`).
* **KMSServer** models the two handlers. Each handler step that touches the gate or
  the key manager is a joint step with an action of the contract, so it is the
  contracts, proved or checked of the implementations, that it relies on.
* **Serve** extends it with `runServe`: every early return, the signal, the drain,
  the forced stop and the defers in their order. The process starts with any file of
  `Configs` and goes on as far as the file lets it.
* **ServerConfig** is that file: `ApplyDefaults` (`LoadFromBytes`), `Valid`
  (`Validate`), `Settings` (`ValidatedConfig`) and `GateAccepts` (what
  `NewTelegramGate` demands on its own), as operators over a record with one field
  per setting the rest of the process can tell apart. A field is `Unset`,
  `Malformed`, or what it says. `WellFormed` is the schema of the file, which the
  decoder enforces.
* **SynologyClient** is one run of `azath synology` against several servers. The
  servers are those of KMSServer seen from one device, each with its own gate; the
  gates together are one instance of the contract, in which a server plays the device.
  `Respond` answers calls the client waits for and calls it has abandoned;
  `TryUnseal`, `Receive`, `RPCFails` are the three things that can happen to a call,
  `Judge`, `StartMount`, `EndMount`, `Report` and `Finish` the rest of the loop body.
* **AtomicFile** is what the comment on `fsutil.Write` promises: the file is replaced as
  a whole, by nothing but what a writer offered, and a replacement once reported is not
  undone by a power failure.
* **AtomicWrite** is `fsutil.Write` over a file system that promises what POSIX does:
  synced data survive a power failure, any rename since the last sync of the
  directory may turn out to have been the last, and a temporary name made, renamed or
  removed since then may be there or not (`tempOnDisk`). The `Remove` of a failed `Write`
  may fail as well, and nobody notices. **ConfigEdit** runs the
  configuration commands on top of it, without a lock as in the code: read and
  validate, edit, validate, write. `ImplementsAtomicFile` is the refinement of
  AtomicFile, with `Progress` as what the contract sees of a command.
* **MC\*** modules instantiate these for TLC, **\*_proofs** modules hold the
  theorems.

Definitions marked *Mutant* are plausible bugs (a dropped comparison, a missing
reset, a leaked token). No specification uses them. Each stands before the
definition it corrupts, and shows that a property can fail: with the mutant in
place TLC finds the property violated.

## Abstractions

* **Time in TelegramGate.** The code compares `time.Now()` with stored instants.
  The model keeps ages and remaining times instead, which `Tick` advances and
  which saturate at `Horizon`, beyond which no comparison differs.
  `CallbackLive` is `<=`, `LiveCache` is `> 0`, as in the code.
* **Identity of a request.** A callback names its request by `createdAt` in
  nanoseconds. The model gives each request an identity; two requests of one device
  created at the same reading of the clock would share theirs, for which the first
  would have to end before the clock moves on.
* **Slots.** `Requests` bounds the request objects alive at once. A slot is used
  again when no goroutine holds it and its buttons have expired.
* **HTTP, JSON, gRPC framing** are success or failure. A failed send may have been
  delivered: its buttons work like any others.
* **Age of a press in TelegramPoll.** `Discard` may drop any press, because any
  press may be too old.
* **Blobs** are named by what opening them depends on: key, device, intact or not.
* **Unseal's plaintext** is named by the device whose secret it is, in SynologyClient
  by the share; random bytes are one value that is nobody's passphrase.
* **Files in ServerConfig.** Rules on fields that stand alone (log level, UUIDs, the
  `master_key` section) are one Boolean. An address is loopback or not, a
  reference is well-formed or not, a duration is a number of minutes.
* **Deadlines of the client.** `RPCFails` may happen at any moment of a call, and
  `EndMount` at any moment of a mount: it stands for the deadline per endpoint, the
  minute per mount, cancellation and transport errors alike. Two endpoints in the
  list that lead to one server are not modelled.
* `NewSealer` fails only for want of entropy, on which the Go runtime aborts;
  KeyManager has that failure path all the same, KMSServer does not.
* A panic is modelled inside `gate.Check` only, the one call of a handler that runs
  through an interface.

Assumed of the outside: Telegram numbers updates consecutively, keeps unconfirmed
ones, and answers with the oldest first; gRPC's `GracefulStop` returns when every
handler has returned, and `Stop` cancels them; a file system keeps what was synced;
synoshare mounts a share with that share's passphrase only.

## Runs

| Run | Question | Bounds, and why they suffice |
|---|---|---|
| `gate_sharing` | Is the shared request right under every interleaving? | 1 device, 2 callers, 2 request slots, all TTLs one tick. Two slots give an old prompt beside a new one, two callers a shared one; a third of either repeats the same relations. |
| `gate_limits` | Do the limits hold, and does refusing leave authority intact? | 2 devices, every limit 1, so that each is reached and contended. |
| `gate_live` | Does every `Check` return and `Close` complete? | 1 device, 2 callers, 1 slot, no symmetry. |
| `poll` | Are presses handled genuinely, in order, at most once, and none lost or ignored? | 3 updates of which 1 without a callback, responses of 2, 2 processes, 2 users, 2 chats: one full response and a rest, one restart. |
| `keymanager` | Do racing `Load`, `Sealer`, `Destroy` agree on one key? | 2 loaders, 2 holders, 2 keys. Deadlock is checked here too. |
| `kms_server` | What may leave an RPC, and when? | 2 RPCs, 2 devices of which 1 disabled, 2 keys, any request, with and without a gate. |
| `config_edit` | Can commands, kills and power failures spoil or lose the configuration, and does `Write` keep its promise beneath them? | 3 commands, 2 names: two that overlap and one before, between or after them. |
| `serve` | Does only a file that is fit to serve get served, is the process taken down in the right order, and does it end? | 2 RPCs, 1 device, 1 key, no symmetry. 53 files: one with everything under `gate.telegram`, one that leaves all it can to `notifications.telegram`, and those that differ from either in one place. Rules of `Validate` relate at most two sections, both present in the base files. |
| `synology` | Does the client end, tell the truth, and use no secret but its own? | 2 shares, one of which may seal nothing, 2 servers, any leases from earlier runs, with and without `--json`: one share before and one after the one in hand, one failover. |

`CHECK_DEADLOCK FALSE` stands where the system comes to rest: a closed gate with
all its callers gone, a stopped poller, RPCs all answered, an exited process or
client, commands that have all ended.

The limits of the code (64 pending requests, 32 waiters, 8 sends, 1024 devices, 100
updates) are constants of the models, and the proofs hold for any value.

### Where code and documentation disagree

Three runs state a sentence of the documentation and show that the code does
otherwise.

* `doc_prompt_interval`: the interval between prompts "includes unsuccessful
  attempts" (`docs/reference/runtime.md:12`), cancelled ones too by the design
  document. When the last waiter leaves cancelled, its record is deleted and the
  next `Check` prompts at once. `PromptSpacingUnlessCancelled` is what holds; it
  exempts a device from the moment a cancelled caller left it, so of a last waiter that
  deletes the record of a newer prompt only this run tells.
* `doc_gate_errors`: `GateAPIErrors` "counts external API errors"
  (`metrics.go:26`). A failed send ends in Denied and is not counted; a client that
  went away is.
* `doc_prompt_default`: durations default "to safe non-zero values", because "zero
  rate_limit means no rate limiting" (`config.go:158-159`), but only those of
  `notifications.telegram`, the section kept for old files. A valid file that leaves
  `rate_limit` out of `gate.telegram` is served with prompts unlimited.

Others came up while modelling and need no run:

* `lastUpdateID` is there "to avoid re-processing" (`telegram.go:110`), but an update
  without a callback does not advance it: a process gets it again with every poll
  until a press follows.
* "Slow local I/O must not block startup indefinitely" (`serve.go:31`), but the file
  source never looks at the context it is given (`source_file.go:26`).
* `approval_cache_ttl: 0` "disables cache" (`examples/server-lan.yaml:31`,
  `server-vps.yaml:32`, and `telegram.go:153`), but `validateDuration` refuses a zero.
* A `chat_id` that is no number, or a `gate.telegram` without `approval_ttl`, passes
  `config validate` and is refused by `NewTelegramGate` when the server starts
  (`GateAccepts` against `ValidTelegram`).
* The nonce counter "eliminates the birthday bound of random nonces" (`aes.go:63`)
  for one Sealer; the server builds a Sealer, with a fresh random prefix and seed, for
  every RPC.
* `azath synology --json` prints nothing when it is cancelled, though shares may have
  been mounted by then.
* "Remove temp file on any error" (`atomic.go:20`): the error of that `Remove` is
  dropped and its effect is not synced, so the file may stay or come back. `NoLitter`
  promises a clean directory only to a command that reported success.

### Fairness

Only what the runtime gives. *TelegramGate*: runnable goroutines run; a send whose
context is done returns (the HTTP client honours it); time passes. `Admit` is
strongly fair, for `sync.Mutex` starves nobody, and because the wait for a free
slot is the model's and not the code's. Clients, the operator, Telegram's answers and the
call of `Close` are assumed of nobody. *TelegramPoll*: the goroutine runs, and a
request retried for ever is answered now and then (strong fairness of `Answered`);
`PressesExamined` needs `MaxOthers < Limit`: as many updates without a
callback as fit in a response would be all it ever holds. *Serve*: the
process runs, the drain timer fires, and a `Check` whose caller is cancelled
returns, which `AnswersEveryCheck` shows; a `Check` that is not cancelled may wait
for ever, and so may the disk. *SynologyClient*: the command runs, the deadline of an
endpoint passes, and a synoshare that is killed is gone; no server has to answer.

## Proofs

Each proof module shows Init, every action and the unchanged step to preserve an
inductive invariant, one step per action, and reads the properties off it. The
constants are arbitrary but for the named assumptions in the component's module.

* **TelegramGate_proofs.** `IInv` joins the counts (waiters, tokens), the agreement
  of map and requests, where callers and `Close` are, and the secrets. The counts
  need that a waiting caller's request has its device (`CallerSound`), and that a
  request pending has a waiter, or the last one to leave could take the count below
  zero. Theorems: type correctness, `WaitersCounted`, `SendsCounted`,
  `PendingSound`, `SecretsOutliveUsers`, `ApprovedByOwnButton`,
  `NoWaitBesideApproval`, `DecisionIsFinal`.
* **TelegramGateContract_proofs.** What needs more than `IInv`. *The limits*: the sets
  counted are finite, and only `AdmitNew` and `CallbackApprove` add to them, each after
  a comparison. *Authority*: a live cache entry goes back to an approved request whose
  age and the entry's remaining time add up to at most both TTLs (`LeasesSound`).
  *Spacing*: while the gate is open, every prompt younger than `PromptInterval` is
  remembered, unless its device is in `withdrawn` (`PromptsSound`). *Independence*: two
  callers on one request are two waiters, so neither is the last. *The contract*: what
  Gate sees of each action is one of its steps or nothing; `Leave` needs the
  independence of waiters, `AdmitNew` that a slot reused has none. *Waits*: a blocked
  caller holds its slot, so neither `NewRequest` nor `Tick` can set its request back
  (`WaitsEnd`). *Close*: once `closed` is set nothing is pending, hence every sender's
  context is done, and no action admits a caller or approves (`CloseDrains`). Theorems:
  `LimitsRespected`, `AuthorizedByOperator`, `PromptSpacingUnlessCancelled`,
  `IndependentCancellation`, `ImplementsGate`, `WaitsEnd`, `CloseDrains`.
* **TelegramPoll_proofs.** `OffsetsSound` says that whatever the process ever told
  Telegram to drop has been looked at, by it or a predecessor; `BatchSound` that the
  rest of a response lies above `lastUpdateID`; `KeysSound` that a press signed by a
  later process follows all that earlier ones handled. `ExaminedSound` adds that the
  running process counts every callback it has examined, so it works through none of
  them twice (`FeedForward`). For `PollServes` take the first press that the process has
  not counted: everything the next answer holds below it is an update without a
  callback, and there are fewer of those than fit. Theorems: `HandledInOrder`,
  `HandledGenuine`, `NoPressLost`, `FeedForward`, `PollServes`, `PollerForward`.
* **KeyManager_proofs.** One key is in the manager and in all copies made of it,
  those between `keyCopy` and `NewSealer` included, and no key schedule is left of any
  other: a key is expanded only from a copy of the manager's, and a manager once loaded
  never gets a second key. Theorems: `KeyMatchesState`,
  `OneKeyAtWork`, `KeyBytesInUse`, that KeyManager implements KeyLifecycle, and
  `LoadHonest`: what each `Load` was told stays true of the manager.
* **KMSServer_proofs.** `Stage` says what each stage of an RPC may rely on; from the
  validation on, that its own key opens its blob, which is why an approval is never
  wasted. `Counted` says that an RPC not yet over has added nothing to the counters
  and one answered its one increment. Theorems: `PromptsJustified`, `PlaintextToOwner`,
  `ApprovalNeverWasted`, `SecretsInUse`; `CountersCorrect`, `OnceOnly`, `ClosedForGood`,
  `HandlersAdvance`; and `UsesGate`, `UsesKey`: every step of the server is a step of
  the contract Gate and of the contract KeyLifecycle, or none at all. With
  `ImplementsGate` and the refinement of KeyLifecycle both sides of each contract are
  proved.
* **Serve_proofs.** KMSServer's invariant with what each phase of `runServe` has
  acquired, and that every RPC is about a device of a file that is valid, hence has a
  gate. Theorems: `TeardownAfterDrain`, `KeyAndGateThere`, `NothingLeft`, for any set
  of files and devices; `ValidityGap`, which files pass `Validate` and fail in
  `NewTelegramGate`; `SettingsCorrect`, what is true of the settings an open gate runs
  on, its rate limit included; `ShutdownForward` and `ShutdownUnblocked`, which need that
  a forced stop has cancelled every RPC still active; `ProcessKeepsContracts`.
* **SynologyClient_proofs.** `SharesInOrder` and `EndpointsInOrder` place the command in
  its two loops, `BytesSound` says where the bytes in its hands come from,
  `Remembered` what `failed` and the output stand for. `StepsLeft` is a measure that
  each step of the command takes down and no other step takes up. Theorems:
  `ExitHonest`, `SecretFromApproval`, `FailoverInOrder`, `CommandBounded`, for any
  number of shares and endpoints, and `GatesKeepContract`: every step of the gates it
  meets is one of the contract's.
* **ConfigEdit_proofs.** `DiskSound` says that whatever the path may hold after a
  power failure is whole; `EditsTraced` that a command still to replace the file
  has every edit placed so far in what it read, or among those it is going to
  overwrite. Theorems: `OldOrNew`, `EditsValid`, `EditsKept`, `NoLitter`, and
  `ImplementsAtomicFile`, of which `OldOrNew` is a part; the refinement rests on
  `TempSound` (what `Rename` puts in place is what the command edited, synced) and on
  `DiskSound`. `TempSound` also says of which temporary files a power failure could
  bring one back, none of them a file of a command that reported success: for that one
  the directory was synced after the rename.

The assumptions on constants say what the constructors enforce (positive limits and
TTLs, `NewTelegramGate`), that callers and request slots are finitely many, that
every file has the fields its schema names, and that placeholders such as `None` differ
from what they stand beside.

Checked by TLC only: liveness, which the prover does not reach. What each of the six
properties rests on besides fairness is proved, for any value of the constants:

| Checked by TLC | What is proved of it |
|---|---|
| `AnswersEveryCheck` | `WaitsEnd`: a blocked caller can leave, or a running goroutine keeps its deadline, and neither is ever set back. |
| `CloseCompletes` | `CloseDrains`: what `Close` waits for only shrinks, and every part of it can go by itself. |
| `PressesExamined` | `PollServes`: the next answer holds a press not yet counted while one is outstanding. `FeedForward`: a count is never taken back. |
| `PollerStops` | `PollerForward`: once cancelled the loop moves only towards its end. |
| `ShutdownCompletes` | `ShutdownForward`, `ShutdownUnblocked`: phases only advance, and none waits for something that cannot come. |
| `CommandEnds` | `CommandBounded`: a bound on the command's own steps. |

That the steps so left open are enabled, and that fair scheduling takes them, is TLC's
part: ENABLED is beyond the prover, so a theorem names the guards where it needs them
(`HandlerCanGo`). Where an argument goes to a least number, `LeastNumber` gives it,
from the well-foundedness of the naturals.

The statements of the documentation above are refuted by TLC and not proved; of the one
about defaults `SettingsCorrect` says what does hold. Every invariant and every action
property of a passing run is a theorem.

## Not modelled

* *Seal command*: straight-line code without shared state, one RPC
  (`KMSServer!SealStart`, `SealData`) and one `AtomicWrite`; nothing is left to
  interleave.
* *Nonces*: a Sealer of the server serves one RPC in one goroutine, so its counter never
  goes past one. *Metrics*: histograms, registration, labels.
* *Health*: readiness reads the state of the key manager through the one check that
  `runServe` registers before it serves.
* *Secret resolver*: a subprocess that succeeds or fails, which `Serve!OpenGate` has.
* *Client file, flags, `config validate`*: read once before the first state, or
  changing nothing.
* *Platform, installer, deployment files, alerts*: nothing the program's state depends
  on; the installer never runs beside the program.
* Copies of secrets that this code cannot reach (`runtime.md:16`): those of the transport
  and the runtime, and the argument string that carries a passphrase to synoshare
  (`client.go:151`). `SecretsInUse`, `NothingLeft` and `SecretFromApproval` speak of the
  buffers the program owns; of the residues only the AES key schedule is modelled, in
  KeyManager. Nor is the part of a key file that `os.ReadFile` returns beside an error,
  which `FileSource` drops without zeroing it (`source_file.go:27-30`).
* A response of `getUpdates` beyond 1 MiB, two servers sharing one bot token, and two
  requests of one device created at the same reading of the clock. A cache TTL of zero
  is covered by the proofs, not by a run.

Known limits of the client that its model shows and no property forbids: random bytes
end the failover, those of a rate limit included, so after an abandoned prompt at the
first endpoint the second is not asked until that limit has passed; a mount killed
after its minute may have succeeded.

## What could follow

1. *Sealer* shared by several goroutines, should the server ever keep one: the nonce
   counter and `Destroy` beside `Seal`.
2. *Health*: a check registered while `/readyz` runs, should a second one appear.
3. The composition of SynologyClient with KMSServer in place of its view of one device,
   and a cache TTL of zero as a run of its own.

Runs are kept few: one per question, with the safety and liveness of a component
together where fairness does not blow up the instance.
