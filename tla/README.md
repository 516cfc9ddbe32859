# A TLA+ model of the TBOX provisioning service

This directory holds TLA+ modules that model the PROV service of this
repository, TLC configurations that check them on small instances, and theorems
that TLAPS proves for every instance. Paths below are those of the repository
(`src/prov_service.cpp` and so on).

## The system

PROV writes the VIN of a vehicle at the end of the assembly line, binds it to
the UID of the ECU, and seals the result against later writes. A daemon serves
clients over a Unix socket; `prov_cli` opens the same store from a process of
its own.

| part | code | state | operations |
|---|---|---|---|
| ProvService | `src/prov_service.cpp` | `initialized_`, `shutting_down_`, `mutex_` | `initialize`, `beginShutdown`, `write_vin`, `authorize_rewrite`, `write_vehicle_config`, `write_production_info`, reads |
| ProtectedStorage | `src/protected_storage.cpp` | `write_protected_`, cached at start | guarded reads and writes of four records, `set_write_protection` |
| Store | `src/framework_store.cpp` | one JSON file per key | `save` (temporary file and rename), `load` |
| UID providers | `src/se_uid_provider.cpp`, `src/ecu_uid.cpp` | none | `readUidDetailed`: secure element, then configuration in test builds |
| SN provider | `src/tbox_sn_provider.cpp` | none | fills the serial number of `read_binding` |
| VinValidator | `src/vin_validator.cpp` | none | length, alphabet, check digit |
| ProvApplication | `src/prov_application.cpp` | `init_stage_`, the owned components | `initialize`, rollback, `execute`, `cleanup` |
| ProvIpcDispatcher | `src/prov_ipc_dispatcher.cpp` | none | one handler per method |
| ProvClient | `src/prov_client.cpp` | connection | one call per method, one retry in the framework |
| prov_cli | `src/prov_cli.cpp` | none of its own | one ProvService per invocation |

ProvApplication owns everything. The framework's IPC server starts a thread for
each connection; a thread calls the dispatcher, the dispatcher the service, the
service its storage and its UID provider, the storage the store. The service's
mutex lets one call at a time run. A signal makes the main thread quiesce the
service, stop the server, join the threads and destroy the components.

What is hard about it:

* **Several saves, no transaction.** A successful `write_vin` saves the binding
  twice, reads it back and saves the protection flag in another file. A save may
  fail, a file may be cut short, the process may die in between, and the client
  tries again.
* **A cached flag.** Whether a write is allowed is a member read from a file
  when the storage starts.
* **Teardown under calls.** Raw pointers and references between components whose
  destruction a signal starts while threads may be inside them.
* **Lost answers.** A client cannot tell a lost request from a lost answer, and
  the framework repeats a call once, while the thread of the first connection may
  still carry the first request out, before or behind another client's.
* **A table of weights.** What the check digit finds hangs on every entry of two
  tables in `vin_validator.cpp`.

What makes it correct: an acknowledged VIN is complete, sealed and kept; a seal
never closes over an incomplete binding, since nothing could repair it; nothing
changes behind a seal; a SUCCESS says something about the files; a line that
keeps trying succeeds; what a client was told stays true and what it reads was
so while it asked; the validator accepts the VINs of ISO 3779; no thread runs in a destroyed object, no write begins
after the shutdown did, and a shutdown ends. `PROJECT.json` lists the hazards
with their lines and the properties that cover each.

## The modules

| module | models |
|---|---|
| `Store` | the outcomes of one `save` or `load` of a key under a set of faults |
| `UidProvider` | the outcomes of `readUidDetailed` |
| `ProvService` | the service, its protected storage and the lives of the processes that open the store |
| `Provisioning` | abstract: the vehicle's VIN, its state, the seal, the promise given to the line |
| `ServiceLife` | abstract: what the owner of a service and the service promise each other |
| `ProvServiceProps` | the properties of ProvService, its two refinement mappings, its fairness |
| `ProvServiceClaims` | what the documents say and the code does not do |
| `MCProvService` | symmetry for the runs of ProvService |
| `ProvServiceProofs` | the theorems about ProvService: types, seal, refinement |
| `ProvServiceCallProofs` | the theorems about its calls: what an answer says of the files |
| `ProvServiceSealProofs` | the theorems about its seal and about a production build |
| `ProvApplication` | the composition root and the connection threads of the server |
| `ProvApplicationProps` | the properties of ProvApplication and its refinement mapping |
| `ProvApplicationProofs` | the theorems about ProvApplication |
| `ProvIpc` | clients, connections and the dispatcher, over the vehicle of `Provisioning` |
| `ProvIpcProps` | what a user of ProvClient can rely on, and the inductive invariant |
| `MCProvIpc` | the requests of the run of ProvIpc |
| `ProvIpcProofs` | the theorems about ProvIpc |
| `VinValidator` | length, alphabet and check digit of a VIN |
| `VinStandard` | the VINs of ISO 3779, written out independently of the code's tables |
| `VinEntry` | somebody typing a VIN, with slips, and what the validator finds |
| `MCVinEntry` | two VINs and the characters at hand |
| `VinEntryProofs` | the theorems about the check digit and ISO 3779 |

**ProvService.** `bindingFile`, `configFile`, `infoFile` and `protectionFile`
are the files, common to all processes; `initialized`, `writeProtected` and
`shuttingDown` are members of one process's service and storage; `pc`, `call`
and `draft` are where its running call stands, the call's argument and answer,
and the local `VehicleBinding` of `establish_binding`. `acked` is a history
variable, the VIN last answered with SUCCESS. A call is a sequence of actions of
its process, one per access to the store, because a crash or another process may
come between any two; calls that touch the store at most once are one action.
The binding flow goes `WriteVin` or `AuthorizeRewrite`, `ReadExisting`,
`SaveVinWritten`, `SaveBound`, `VerifyWrite`, `SetWriteProtection`, `Finish`. The
service's mutex is why a process has one `pc`; that the connection threads really
use the service in this way is `ImplementsServiceLife` of ProvApplication.

A binding keeps the VIN, the UID, the state, the lock of older releases and the
rewrite count. Times, error texts, `retry_count` (never written by a caller) and
the serial number are left out: no decision reads them. A VIN is a model value
and `ValidVin` the set VinValidator accepts. `authorize_rewrite` refuses only a
stored binding with `locked` set; this release never sets it, so `LegacyVin` lets
the store begin with a snapshot of an older one. The model lets every process
make every call of ProvService. The IPC dispatcher answers the two data writes
with "Not implemented", so over IPC they are not reached; prov_cli reaches
`write_vehicle_config`.

`TakeTurns` says how processes share the store: one after the other (the daemon is
stopped before `prov_cli` is used and the other way round, and a restart follows a
stop or a crash), or at the same time. It is an assumption about the station, and
nothing in the repository enforces it: there is no lock on the store. The run
`stale_protection` shows what happens without it, and `StaleFlagIsTheOnlyWay` that
nothing else can happen to the seal.

**ProvApplication.** `main` is where the main thread stands, `stage` is
`init_stage_`, `alive` the components constructed, `thread` and `request` the
connection threads and what each was asked. The service is reduced to its two
flags and its mutex, and a call to `Enter` (mutex taken, guards passed or
refused), `Serve` and `Reply`. The server and `Application::run` are the
framework's, which the repository does not contain: the server stops reading
when stopped and `stop` returns once all threads have ended
(`prov_application.cpp:201`). After a failed `initialize` the model allows both
an exit at once and a `cleanup`, as the tests call it. Between `StartIpc` and
`EnterLastStage` the server already serves requests while the main thread is still
in `initialize`.

ProvService and ProvApplication are joined through `ServiceLife`. ProvApplication implements it with all
connection threads together; each process of ProvService implements it too, with
crashes, and so does the daemon of ProvIpc. `Stop` of ProvService (between calls only) is what `JoinThreads` and
`Release` achieve.

**ProvIpc.** `phase`, `link`, `tries` and `asked` are one call of `ProvClient`;
`conn` is what lies in each connection, from the request in the socket over the
call in the service to the reply; `mutex` is the connection whose call is in the
service. The dispatcher answers the data writes and an empty VIN itself (`Reject`),
reads and `initialize` in one step (`Query`), refuses or begins a write (`Refuse`,
`Enter`). A write then takes the steps of `execute_vin_binding_flow` that change
the vehicle, and these are the actions of `Provisioning`: `ServiceRefinesProvisioning`
is why ProvService may be replaced by that promise here, under the assumptions of
that theorem. One of them is that the protection file is readable, and like
`Provisioning` the model begins with a store without a seal. `GiveUp` is every error
of the flow, wherever it is met.

The framework's client and server are external. From `prov_client.cpp:42-48` and
the comments there: `call` returns a negative status when the transport failed or
timed out, after one reconnect and one repetition; a positive status, an error of
the server itself, ends the call at once (`prov_client.cpp:56-64`), so it is a reply,
`SERVER_ERROR`, that the server may give instead of running the handler (`Reject`)
and that returns what an unanswered call returns (`Decoded`). The model drops the connection
at each failure (`Fail`), which may come at any time; a request that the thread has
not finished is carried out all the same, behind anything else. So a request may
be lost (the daemon stops or dies), carried out and its answer lost, carried out
twice, or late. A reply cannot be garbled: `dispatch` always returns JSON with a
status (`prov_ipc_dispatcher.cpp:117-124`) and the transport is a local stream.
The daemon is `Launch` (components constructed), `Start` (service initialized,
server listening), `BeginShutdown`, then `Stop` once no call is in the service, or
`Stop` at once when the start failed; a `Crash` comes anywhere.
`told` and `seen` are history: the VINs clients were told SUCCESS for, and what
the vehicle was at the moments since a query began when no write was running.

**VinValidator and VinEntry.** A character is its upper-case form and whether it
was typed in lower case. `Validate` is the conjunction of the three checks,
`GetValidationError` their order, `CalculateCheckDigit` the sum over the tables of
`vin_validator.cpp:49-65`, "X" for an unknown character included. `VinEntry` is
the environment the check digit exists for: a VIN is read off and a character is
replaced, left out, or doubled, two neighbours are swapped, or the whole is typed
in the other case. `ValidVin` of the other modules is the set of model VINs that
pass.

## Faults

`Faults` selects what may go wrong: `init` (the directories cannot be made),
`save` (the temporary file cannot be opened or renamed: error, old file kept),
`torn` (a short write, which `atomic_write` does not notice, so the result is
SUCCESS over a file that does not parse), `read` (an existing file cannot be
opened: as if missing), `crash`. UID reads fail by `ConfigReads` containing `NoUid`.

## Runs

Runs that pass:

| run | instance | shows |
|---|---|---|
| `turns` | the daemon and `prov_cli` in turns, three VINs (one invalid), two codings, two infos, faults init, save, crash, counter modulo 3; 32,188 states | the type and seal invariants; an acknowledged VIN is kept and read back; nothing changes and no other write succeeds behind the seal; rewrites are counted; a config SUCCESS is stored; the service implements `Provisioning` and `ServiceLife` |
| `disk` | the same two with every fault; 334,500 states | what a SUCCESS and a seal say on a disk that also tears and hides files |
| `retry` | one process, faults and fair scheduling; 4,172 states | the line gets its vehicle sealed in the end |
| `lifecycle` | three connection threads; 3,074 states | start, rollback, shutdown and teardown around running and queued calls; a join that can always go on and only comes nearer to its end |
| `ipc` | two clients, two connections, two calls, two tries, crashes and restarts of the daemon; 423,148 states | a SUCCESS a client was told stays true whatever is repeated or late; a query returns a view of the vehicle between two writes while it was asked; every call gets nearer to its return and returns; the mutex is handed to nobody and comes free; the daemon implements `ServiceLife` |
| `vin` | two VINs of `test_vin_validator.cpp`, twelve characters, two slips; 46,472 states | the validator accepts exactly what ISO 3779 calls right; which substitutions and swaps it finds |

Runs that end with the counterexample they look for, each a finding:

| run | claim | what the code does |
|---|---|---|
| `authorized_rewrite` | README.md:8, docs/api.md:118 | a sealed vehicle cannot be rewritten at all |
| `bound_conflict` | docs/api.md:139 | a bound vehicle that failed to seal takes another VIN through `write_vin` |
| `resend` | docs/implementation-summary.md:107-108 | the VIN and UID already bound are bound again |
| `torn_config` | README.md:12 | the last save of `write_vehicle_config` is not read back |
| `stale_protection` | README.md:11 | a process that started before the seal still writes |
| `failed_retry` | docs/api.md:137 | after a crash behind the seal every retry fails for ever |

**Why the bounds are enough.** A binding is compared with one VIN at a time, so
two valid VINs give "the same" and "another"; the third is the invalid one. A
counter modulo 3 tells staying, advancing and wrapping apart. Two codings and
two infos give "what was written" and "something else"; they are only stored and
compared, so the safety runs treat them as symmetric. Two processes suffice for
a stale flag, and for a store that one leaves to another. With three threads one is in the service while two wait, so that
one that is let in and one that is refused meet. Crashes, failures, calls and
restarts are not bounded there. In `ipc` the requests are a write of one VIN, a
rewrite to the other, a write without a VIN and a query; two calls of two tries
each send up to four requests, of which two at a time, one in each connection, lie
in a socket or in the service: one that is abandoned meets its own repetition,
another client's write or a query; a third call adds no new kind of meeting. Model-checked there with these requests
only; that of a VIN the validator refuses, `initialize`, and the other queries are
covered by the theorems, which take any set of requests. In `vin` one slip is what
the verdicts speak of and the second makes them hold of texts that a first slip has
left; the characters are light and heavy ones, twins of one value, excluded
letters in both cases and one that is neither letter nor digit. The theorems hold for
all sizes.

## Fairness

`retry` assumes (`Fairness` in `ProvServiceProps`): weak fairness of the start of
a process (`packaging/systemd/tbox-prov.service` restarts one that failed, the next power-up
starts one that was stopped), of `Stop` once a shutdown began, and of the steps
of a running call (a thread that holds the mutex is scheduled); strong fairness
of `Initialize` succeeding and of each step of the binding flow succeeding, that
is, no fault and no crash hits the same step each time it is reached; strong
fairness of a valid VIN being sent to a service that reads its UID. The last two
speak of the environment: without a disk that works now and then, or a line that
keeps trying, nothing could be promised.

`lifecycle` assumes weak fairness of the main thread, of each connection thread
while it holds a request, and of the end of a connection's read once the server
is stopped. It assumes nothing of clients, signals or the service manager, and
no fairness of the mutex: once the server reads no more requests, the finitely
many that are queued come to their turn.

`ipc` assumes weak fairness of the step of a client whose call is running: each of
its waits ends with an answer or a timeout, whatever the daemon does (the timeouts
are the framework client's). It assumes weak fairness of the steps of the call in
the service, as `retry` does. The daemon need not start, no request need be taken
up and nobody need call.

## Theorems

`ProvServiceProofs`, for every set of VINs, codings, infos, UIDs, every counter
width and both settings of the protection:

* `TypeCorrect`: `TypeOK` for any number of processes and any faults.
* `SealCorrect`: `SealInv`, for processes that take turns and readable files.
* `FrozenCorrect`: `FrozenOnceProtected`, under the same assumptions.
* `AckedVinKeptCorrect`: `AckedVinKept`, if also no file is cut short.
* `ServiceRefinesProvisioning`: `RefinesProvisioning`, as for the last.

The assumptions are needed: `stale_protection` refutes the seal for processes that
do not take turns, and a protection file that cannot be read at a start opens the
store.

The argument. It has three layers. `TurnInv`: at most one process is not down, and
one that is down has no flags left; `StepsAlone` draws from it that whoever takes a
step is alone at the store, before and after. `FlightInv`, on any disk: "a sealed
store holds a complete binding" is not inductive, since when the protection file is
saved one must know that the binding file holds the BOUND draft, which was true
after the read-back and which no other write disturbed. `BindingInFlight` therefore
carries the flow's history in its labels, and `CallsAreAdmitted` says that past its
first save a call found the storage open. `SealInv`, on readable files, adds that
the cached flag is at least as closed as the file (`FlagFollowsFile`), whichever
process wrote it, and that a seal is over a complete binding (`SealedMeansBound`).
Then every guarded write finds the flag set once the file is "1"
(`ClosedFlagWritesNothing`), which gives `FrozenOnceProtected`. `AckedVinKept` needs
in addition that the file still says "1" between the seal and the answer
(`FinishIsSealed`). The refinement uses the same invariants and that no binding file
is torn.

`ProvServiceCallProofs`, for the same sets. What each needs is in brackets:

* `VinSuccessIsStoredCorrect`, `SealsItsOwnVinCorrect`: `VinSuccessIsStored`,
  `SealsItsOwnVin` [turns; every fault of the disk is allowed].
* `InfoSuccessIsStoredCorrect`: `InfoSuccessIsStored` [nothing].
* `ConfigSuccessIsStoredCorrect`: `ConfigSuccessIsStored` [turns, no torn file;
  `torn_config` shows that it is needed].
* `RewritesAreCountedCorrect`: `RewritesAreCounted` [turns, readable files].
* `AckedVinIsReadCorrect`: `AckedVinIsRead` [as for `AckedVinKept`].
* `LivesAsPromisedCorrect`: `LivesAsPromised` [nothing].

The argument. `CallInv` ties the label of a process to the operation and the VIN
of its call, so that `SuccessIsAnswered` can name the one step that answers each
kind of write with SUCCESS. What the file holds at that step comes from
`BindingInFlight`, from the read-back, or, for the unchecked second save of a
configuration, from `ConfigInv`: before it the file already held the coding.
`CountInv` says that the count of a draft about to be saved is one more than what
the file holds. `OthersStay` says that a step of one process leaves the calls of the
others alone, which is what the theorems for any number of processes need.

`ProvServiceSealProofs`:

* `SealEndsWritingCorrect`: `SealEndsWriting` [turns, whole and readable files].
* `StaleFlagIsTheOnlyWay`: over a seal that every initialized process knows of no
  file changes any more, and every process that starts later knows of it [whole and
  readable files; any number of processes at the same time].
* `ProductionFailsClosed`: a production build (`TestBuild` = FALSE) never writes a
  binding, seals or acknowledges [nothing else: any processes, any faults].

The argument. The action property of the second is the flag's own invariance, with
`RunInv` (a running call is one of an initialized service) in the place of turns.
`SealEndsWriting` needs `ClosedInv`: when the seal closes, the only write under way
is the one that closes it, and nothing has been acknowledged, because with write
protection an acknowledged VIN is already sealed. For the third, `se_uid_provider.cpp`
gives a production build no UID since `EcuUid::is_se_hardware_present` is false, so
that no binding flow ever gets past its UID.

`ProvApplicationProofs`, for every set of connection threads (a set that does not
hold the value standing for a free mutex, `ConnectionAssumption`):

* `AppTypeCorrect`: `TypeOK`, with at most one thread in the service.
* `NoUseAfterFreeCorrect`: `NoUseAfterFree`.
* `NothingDanglesCorrect`: `NothingDangles`.
* `FailedStartLeavesNothingCorrect`: `FailedStartLeavesNothing`.
* `WritesQuiesceCorrect`: `WritesQuiesce`.
* `RootImplementsServiceLife`: `ImplementsServiceLife`.
* `JoinIsNeverStuckCorrect`: `JoinIsNeverStuck`.
* `JoinDrainsCorrect`: `JoinDrains`.

The last two are the halves of `ShutdownCompletes` that need no fairness: while the
main thread joins, somebody it waits for can take a step, and each such step leaves
less to do.

The argument. None of the first four is inductive alone: `TypeOK` needs that a
rollback never meets the stage `IpcStarted`, and `NoUseAfterFree` that the main
thread destroys nothing while a thread exists. `RootInv` says, for each place of
the main thread, which stage is recorded and which components exist there
(`StartInv`, `RollbackInv`, `StopInv`); its heart is that a connection thread
exists only between `startIpc` and the end of `join`, when everything exists, and
that the server listens only then. A destruction is thus met by no thread, so for
`ServiceLife` it is a halt of an idle service or nothing (`DestroyIsHalt`), and a
thread's step is a call's begin, its end, or nothing (`ThreadImplements`).

`ProvIpcProofs`, for every set of clients, connections, VINs and requests and any
number of calls:

* `IpcInvariant`: the inductive invariant `IpcInv`.
* `IpcTypeCorrect`: `TypeOK`, with at most `MaxTries` tries of a call.
* `SuccessIsKeptAlways`: `SuccessIsKept`.
* `ReadsAreCurrentAlways`: `ReadsAreCurrent`.
* `DaemonImplementsServiceLife`: `ImplementsServiceLife`.
* `CallsDrainAlways`: `CallsDrain`, the half of `EveryCallReturns` that needs no
  fairness.
* `MutexIsGivenBackAlways`: `MutexIsGivenBack`, that of `MutexComesFree`.

The argument. `SuccessIsKept` speaks of what was told long ago, so nothing may
change a sealed vehicle: `OneCallInside` says that the mutex belongs to the one
call in the service and that the vehicle is as far as its stage says, in particular
that a call which still writes found the store open. A SUCCESS on its way carries
the same promise (`SuccessIsUnderway`). `LinksAgree` says that what lies in a
connection with an owner is the owner's running call, so that an answer to an
earlier request is never taken for one to this; with it `RepliesInSight` can say
that a reply to a query is a view of what its client has in `seen`. `NobodyServes`
says that a daemon that is not up has no connection left, so that every write in
the service belongs to a daemon that is up or closing. `CallsDrain` counts the
tries, and the sending and waiting of each, down to zero.

`VinEntryProofs`, for every set of VINs and characters and any number of slips:

* `SubstitutionIsJudged`: `SubstitutionVerdict`.
* `SwapIsJudged`: `SwapVerdict`.
* `StandardIsMet`: `AcceptsStandardVins`.

The argument. That the field holds a text of characters, whatever is typed, is a
lemma (`FieldHoldsText`). Two texts that differ at one place have sums that differ by weight
times the difference of the values; two swapped neighbours by the difference of
weights times that of the values. The weights, and the differences of
neighbouring weights away from the check digit, are not divisible by 11 and the
values lie in 0 to 9, so that the remainder, and with it the digit, stays just when
the values are the same. For `StandardIsMet` the sum of the standard, a recursive
function of the place, is unfolded over the seventeen places; the tables agree entry
by entry, and an unknown character, whose "X" the code does not tell from the remainder
10, was refused before.

TLC checked each of these invariants first. Every invariant and every action
property of the passing runs is proved. Only model-checked: what is temporal under
fairness (`EventuallySealed`, `ShutdownCompletes`, `EveryCallReturns`,
`MutexComesFree`), which is out of the prover's reach, like ENABLED and induction
over data; and the counterexamples.

## Not modelled

Logging and request contexts, error texts and time stamps. The serial number
provider: what it reads only fills a field of `read_binding`, is never stored and
decides nothing. `clear_all`, `record_error` and `char_to_value`, which no program
path calls. The parsing of arguments and the printing of `prov_cli`.
`main_legacy.cpp`, kept for rollback tests. Power loss after a rename:
`atomic_write` does not call fsync, and what then survives is up to the file system.
Two more hazards have no property because nothing says what ought to hold: a VIN typed in
lower case is valid but another VIN to the service (`prov_service.cpp:514`), and a
query whose transport failed looks like one of an empty vehicle
(`prov_client.cpp:113`).

## Plan

1. Compositions: `ProvIpc` with the connection threads of ProvApplication instead of
   its own, and a daemon that starts over an unreadable protection file.
2. Proofs: what `Provisioning` promises by itself, carried over to the service by
   `ServiceRefinesProvisioning`; the safety half of `EventuallySealed`, that no state
   with an open flag refuses a valid VIN.
