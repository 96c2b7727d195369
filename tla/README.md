# Verification of gzscript

TLA+ models of [gzscript](../src/README.md), the GDExtension that runs Zig
scripts in Godot: what its concurrent and stateful parts do, model-checked with
TLC on small instances, and theorems about them for every instance, checked by
TLAPS. The models are translated from the C++ under `src/src`; file and line of
every definition are in `PROJECT.json` under `map`. Paths below are relative to
`src/`.

## 1. Inventory

| Part | State | Operations | What is hard | What makes it correct |
|---|---|---|---|---|
| Build manager, `src/gz_build_manager.cpp` | deque of requests, one active job, child process, the scripts' generations | `queue_compile`, `queue_saved`, `queue_all`, `pump`, `start_next`, `complete_active`, `compile`, `compile_all`, `shutdown` | saves and edits while a compiler runs, retried plans, busy locks, timeouts, blocking compiles that pump the queue | the newest saved text is what runs, no outdated result is published, the queue drains, nothing after shutdown |
| Module cache, same file, and `src/gz_file_utils.cpp` | per key a module file, a stamp, a lock file | `prepare`, `try_lock`, `lock`, the compiler, `finish` | several editors, crashes between two renames, power failures, inputs that change during a compile | a cached module was compiled from the inputs of its key; locks are exclusive and never leak |
| Script and instances, `src/gz_script.cpp` | the script's module, a pending migration, instances that pin a module | `publish_module`, `_apply_pending_refresh`, `_instance_create`, `instance_free`, `instance_call` | publishes between the batches of a migration and while an init, a deinit or a call runs, frees and reused addresses, code that re-enters | no instance forgotten, no wakeup lost, code on the stack stays loaded |
| Diagnostic store, `src/diagnostics/gz_diagnostic_store.cpp` | per document a generation, a batch per source; a queue of changed documents | `open/advance/close/remove_document`, `replace`, `clear_*`, `take_changed_documents`, `snapshot` | results computed for a content that is gone, a consumer that drains and reads in two steps (none exists yet) | late results rejected, no change lost, queue consistent |
| Language server client, `src/gz_lsp_client.cpp` | connection state, server process, open documents, requests in flight, one pending and one cached query of each kind | `complete`, `lookup`, `start`, `pump`, `handle_response`, `fail`, `shutdown` | one restart, timeouts, late answers and answers to edited texts, a full pipe that loses what was written, a signal handler that asks again inside `pump()` | every query of a connected client is answered or given up, an answer belongs to its text, one server process at most |
| Cache key, `src/gz_build_manager.cpp:158-269` | the stack of files to visit, the visited set, the fingerprint | `source_dependencies`, `append_dependencies` | strings, comments and escapes; cycles, files both embedded and imported, imports by a bare name | every file the compiler can read is in the key, but for a non-Zig file imported by its bare name |
| Exports of a script, `src/gz_script.cpp` | placeholders, property lists in inspectors; per instance the exported values and `retained_objects` | `_update_exports`, `_placeholder_instance_create`, `instance_set`, `sync_retained_objects`, `migrate_editor_instance` | views told only of changes; objects that live only through the host's reference; values the new module rejects | views are current; an exported object lives, conforms to its class, and is let go when nothing exports it |
| Loader and ABI, `src/gz_compiled_module.cpp` | an opened library, its descriptor, the cached names | `load`, the destructor, `has_same_exports` | a dozen early returns that must close the library | the library is closed once; a loaded descriptor is consistent; equal exports look equal |
| Saving, `src/gz_resource_format.cpp` | a temporary file per save | `_save`, `save_text_safely` | death or power failure between two steps, two editors on one path | readers see whole texts; a save that returned OK survives |
| Document keys, `src/diagnostics/gz_diagnostic_path.cpp` | none | `gz_normalize_document_path` | schemes, drives, encoded and doubled separators, `..` at the top | one place, one key |
| Language, process trees, registration, generators | | | | not modelled: see section 7 |

The Godot main thread drives everything but the diagnostic producers: every
frame `GzLanguage::_frame()` calls `pump()`, which starts, polls and completes
compiler processes and publishes modules to scripts; `_reload()` compiles on the
same thread and blocks it. Other editor processes share the cache directory
through lock files. The diagnostic store is the one part that is called from
several threads; a mutex makes each of its methods atomic. Its producers and its
consumer are those of the threading contract in `gz_diagnostic_store.hpp`: outside
the tests nothing submits diagnostics or calls `take_changed_documents()` yet, and
`GzLanguage::_validate` only reads `snapshot()`.

## 2. Modules

| Module | What it models | Checked by |
|---|---|---|
| `GzBuildManager` | the compile queue as one main thread drives it, with a compiler process, other editors and changing files around it | `MCGzBuildManager` |
| `ContentCache` | abstract: an entry is absent or holds what its key stands for | as a property of `GzModuleCache` |
| `GzModuleCache` | processes sharing the on-disk cache, step by step, with crashes | `MCGzModuleCache` |
| `GzImportScanner` | the scanner for imports, beside the compiler's tokenizer | `MCGzModuleCache`, and alone with `ScanMultiline.cfg` |
| `GzDependencyWalk` | the walk over imports that makes the cache key | `MCGzModuleCache` |
| `DurableFile` | abstract: what a save promises of the file | as a property of `GzSave` |
| `GzSave` | saving a script, step by step, in several processes | `MCGzModuleCache` |
| `GzScript` | one script, its instances, publishes, migrations and calls | `MCGzScriptExports`, and alone with `ScriptDetach.cfg` |
| `GzScriptExports` | extends `GzScript` by the editor's views of its exports | `MCGzScriptExports` |
| `GzExportedState` | the exported values of one instance and the objects retained for it | `MCGzScriptExports`, and alone with `StateSwap.cfg` |
| `GzCompiledModule` | loading a library, check by check | `MCGzScriptExports` |
| `GzDiagnosticStore` | the store with the producers and the consumer of its threading contract | `MCGzDiagnosticPath`, `MCGzDiagnosticStore` |
| `GzDiagnosticPath` | the keys of documents | `MCGzDiagnosticPath` |
| `GzLspClient` | the language server client, its pipes and the server | `MCGzLspClient` |
| `GzLspFraming` | cutting the server's bytes into messages | `MCGzLspClient` |
| `FoldInduction` | induction over natural numbers, sequences and folds | TLAPS |
| `GzBuildManager_proofs`, `GzModuleCache_proofs`, `GzFiles_proofs`, `GzScript_proofs`, `GzModule_proofs`, `GzDiagnosticStore_proofs`, `GzLspClient_proofs` | theorems | TLAPS |

Where an MC module extends several modules that share no variable, it has a
variable `part`: a behaviour takes the steps of one part and leaves the others in
their initial states, so a property of a part is checked on exactly the behaviours
of that part. A theorem named `PartsTheorem` says so of each of these modules:
every behaviour of the run is a behaviour of each part's own specification.

`GzModuleCache` opens up what `GzBuildManager` does in one step: in
`GzBuildManager` a key is `stamped` or not, and preparing, publishing and
loading happen at once; `GzModuleCache` gives these steps to several processes,
any of which may die in between. `GzScript` in turn opens up the `Publish` of
`GzBuildManager`, `GzScriptExports` adds the editor's views to the same steps, and
`GzExportedState` opens up what the migration of one instance does to its values.
`GzSave` opens up its `Write`, which is one step there, and the scanner and the walk
open up its `Key`.

### GzBuildManager

`pending` is the deque, `active` the job with the request and plan it owns,
`process` its child, `generation` and `source` the fields of each `GzScript`.
The main thread is at `pc`: idle, in `pump()` before or after `start_next()`, in
`complete_active()`, or in `compile()` waiting for a lock or a compiler. Each
iteration of the loop in `start_next()` is one action, one per way the iteration
can end (`StartDiscard` ... `StartSpawn`); so is each outcome of
`complete_active()`. `sync` is the `compile()` in progress. A plan is its cache
key, the record of script, text and other inputs: sha256 is taken as injective.
`Moved` is a plan whose strings have been moved out of it. Everything outside is
an action of the environment: `ProcessExit`, `ExternalEdit`, `ChangeInputs`,
`PeerLock`, `PeerUnlock`. Errors of the operating system are faults named in
`FailureKinds`; a configuration says which may happen, and `MaxEvents` bounds
them together with saves, requests and outside changes. `calm` is chosen at the
start and never changes: in a calm behaviour nothing fails, no other process
compiles, and no text or input returns to an earlier value. `asked`, `newest`,
`past` and `pastInputs` are history: the text each script was last asked to
compile, the text of its newest generation, and the texts and inputs there have
been. `compile()` gives up when the inputs have changed under three attempts
(`Attempts`); its second `prepare()` can fail (`SyncFails`) and so can the loading of
what it has compiled. A stamp that cannot be written (`WriteStamp`) leaves the module
published and its key unstamped. Handlers of `changed`, which `publish_module()` emits,
are not modelled: a save that one of them makes comes as a step of its own.

### GzModuleCache and ContentCache

Each process runs one request after another: `Prepare`, `Lock`, `Check`,
`Compile`, `Verify`, `PublishFile`, `Load`, `WriteStamp`, and a failing variant
of each. The project's inputs are one value; the key of a request is that value,
a module file holds the value the compiler read, and a stamp holds the contents
of the module file it was computed from. `Crash` kills a process and frees its
lock; `PowerFailure` kills all and takes the contents of any files, none of
which is synced. `Entry` maps the files to the abstract cache: a key's entry is
its module file if the stamp matches.

### GzImportScanner and GzDependencyWalk

Scanner and tokenizer are two automata that read the same text a character at a
time, so a finite run covers programs of every length. A character is one of nine
classes; a text that the tokenizer rejects is not read further, since the compiler
would reject it. `missed` remembers that the compiler has seen an import that the
scanner was not looking at. The walk starts from any graph of references in which
each file imports or embeds at most `MaxReferences` files; a reading of a file
yields its references in any order. When the scanner or a read fails, `prepare()`
fingerprints the whole directory (`outcome = "tree"`), which covers everything
in it. References are embedded files, imports by a path and imports by a bare name;
`append_dependencies()` takes a bare name that does not end in `.zig` for a module
(`Skipped`), so a sibling file `x.zon` imported as `@import("x.zon")`, which the
compiler reads, is not in the key. `KeyCoversReachable` excepts exactly that file.

### GzSave and DurableFile

One action per step of `save_text_safely()`, per error, and for the death of a
process. A file's contents are written or `synced`; `onDisk` holds the files the
path may name after a power failure: a rename adds one, and syncing the directory
leaves the one it then names. The save acknowledges with `SyncParent`, so that
after it no power failure brings back an older text.

### GzScript

Modules are numbers in the order of their publication, instances the addresses
of `InstanceData` objects, used again after a free. `stack` holds whatever module
code the thread is running: calls, the `init` of an instance that is being created,
the `deinit` of one that is being freed, and in a migration the next module's `init`
(`upgrade`), its `deinit` when a property cannot be copied (`discard`), the previous
module's `deinit` (`retire`) and the handlers of a changed property list (`notify`).
Any of this code may publish, create, free and call, up to `MaxDepth` deep. An
instance has its module when its `init` starts and is `registered` when it has
returned, as in `_instance_create()`: a publish in between takes its snapshot without
it (`missed`). A frame holds no reference of its own, except `retire`, for which
`migrate_editor_instance()` has copied the old pointer to a local; so `Loaded` counts
the references of the script, the pending migration, the instances and such frames.
The loop of the deferred callback goes on whenever the stack is empty (`Looping`);
its batch ends after `MinBatch` instances or later, because the code also looks at a
clock. The handlers that run when a released object is deleted are not modelled.
`inEditor` is chosen at the start and never changes, so each run covers both the
editor, which migrates instances, and a game, which does not.

### GzScriptExports, GzExportedState and GzCompiledModule

`Schemas` are the classes of modules that `has_same_exports()` does not tell
apart. `shown` is what an inspector last read of an instance's owner: when it
shows it and when the owner is notified. `given` is what a placeholder was last
updated with. `mixed` remembers that a publish found an instance on a module other
than the script's own, see section 6.

In `GzExportedState` an object is alive while the rest of the engine (`others`) or
the host (`retained`, and `kept` during a migration) refers to it. A call may leave
any value in a field that its type admits, also the id of an object that is gone or
of another class, and others may let objects go at any time. The loop of
`sync_retained_objects()` is one action per property and outcome. Names have one
order for all modules.

`GzCompiledModule` starts from any descriptor with up to two properties and three
Inspector entries, with at most one of the earlier checks failing. `opens` counts
`dlopen()` calls not yet closed, with another module of the same file in
`elsewhere`.

### GzDiagnosticPath

A path is the sequence of texts between its slashes, over segments that stand for
the cases the code tells apart: empty, `.`, `..`, a name, `file:`, another scheme,
a drive, and names with an encoded `..` or slash. `Meaning` is the reference: an
anchor, how far up from it, and the names down.

### GzDiagnosticStore

One action per public method. A producer asks for the generation (`StartWork`)
and submits later (`Submit`); the consumer drains the queue (`TakeChanged`) and
takes the snapshots later (`Show`), as the threading contract lays down; since nothing
in the repository does so yet, nothing is assumed of when it runs. `revision` counts a
document's contents across removals and `madeFor` the revision each stored batch is about, which is
what makes "late" expressible.

### GzLspClient

`state`, `requests`, `documents`, the pending and cached queries and
`inFlight` (`completion_in_flight`) are the fields of `GzLspClient`. A query is a
document and its text; positions are left out. `pump()` is split where other code
can run: one action per kind of answer (`HandleCompletion`, `HandleError`, ...),
one per way to fail, and `PumpEnd` for its rest, where requests time out and the
pending completion is sent. `pumping` says where the main thread is in between:
after a message it only goes on pumping, but the handler of `completion_ready`
(`addons/gzscript/gzscript_editor.gd:107`) asks for the next completion from
inside. The pipe to the server does not block and `send()` ignores whether a write succeeded,
while `synchronize()` has recorded the text before: `Write` may lose what the server
is told of a document, which is not told again before a restart (`lost`). A request
that is lost, or cut so that the server gives up, is one the server never answers or
exits over. The server reads its pipe in order and answers each request with what it
then knows of the document, with an error, with the wrong version, or never; it
may exit at any time, and what it sends may be malformed. Its answers arrive in
any order. `attempts` is history: the times it was started since it was last
ready.

`GzLspFraming` is the part of `pump()` that comes before: `drain()` adds any number
of bytes up to its limit, wherever that cuts the stream, and `Turn` is one turn of
the loop in `parse_messages()`. A pump stops after `PumpLimit` messages or, as the
code looks at a clock, any earlier (`starved`). Sizes are small numbers with the
limits in the same relation as in the code; the blank line has its four bytes.

## 3. Runs

| Run | Bounds | Question and answer |
|---|---|---|
| `build_safety` | 2 scripts, 2 texts, 2 inputs, 3 events, every fault and disturbance, or (`calm`) none and no text that returns | types, queue invariant, no outdated publish, nothing after shutdown: hold. In calm weather the newest text is what runs once the queue is idle: holds. With four inputs it would not, since `compile()` gives up after three attempts |
| `build_liveness` | 1 script, same faults | does the queue drain and `compile()` return: yes |
| `build_revert` | 1 script, texts may come back | is the newest text what runs once the queue is idle: no, finding 1 |
| `build_moved_plan` | 1 script, one peer lock, changing inputs | the same question: no, finding 2 |
| `cache_safety` | cache: 2 processes, 3 inputs, 1 crash or power failure; texts of any length; 3 files with 2 references each; 2 savers, 3 texts, 3 saves | locks, loaded modules, refinement of `ContentCache`: hold while inputs do not return to an earlier value. The key covers the imports of any program without multiline strings and all that is reachable, but non-Zig files imported by a bare name. Saving implements `DurableFile` |
| `scan_multiline` | texts may have multiline strings | the scanner finds every import: no, finding 3 |
| `script_instances` | 2 instances, 3 modules, code nested 3 deep, batches of 1 or more, editor and game, 1 placeholder, 2 schemas; 2 properties, 2 objects of 2 classes; descriptors of up to 2 properties and 3 entries | migrations lose no wakeup, forget no instance but one whose `init` was running at a publish, take nothing from running code, and end; in a game instances keep their module; placeholders and inspectors are current; exported objects are retained, conform and survive migrations; a library is closed once, a loaded descriptor is consistent, equal exports look equal: hold |
| `script_detach` | a script may free its instance while it runs | code on the stack is loaded: no, finding 4 |
| `state_swap` | 2 properties, 2 objects | taking over what a call has assigned destroys nothing that is exported: no, finding 5 |
| `store_safety` | paths of up to 6 segments; 2 documents, 2 producers, 2 revisions | one place, one key; queue consistent, no change lost, late results rejected: hold while removed documents stay removed |
| `lsp_client` | messages of 3 header and 3 body sizes around the limits, 3 waiting, 2 per pump; 1 document, 2 texts, 3 queries, every failure of the server, texts lost by the pipe | bytes are judged by the messages they make up; the slot for completions is freed exactly once, definitions are asked, answers fit their text over restarts unless a text of the document was lost, one process, one restart, queries resolved: hold |
| `store_reopen` | removed documents may be opened again | late results rejected: no, finding 6 |

Why the bounds are enough. Two scripts give a queue with a head and something
behind it; three events are enough for every pair of disturbances plus a save,
and for save-replace-save. Two processes contend for a lock; three inputs let
two requests hold different plans while a third value is current. Two
instances give a batch and an instance behind it, which may have been created or
freed by the code of the first; three
modules let a publish interrupt a migration that was itself a replacement. Two
documents give the changed queue an order, two producers let results cross.
One document with two texts makes the server's copy differ from the client's,
and three queries are enough to ask, edit and ask again while the first is in flight,
or to ask, lose the server and ask the next one, with a completion and a definition
in flight together.
Three files with two references each give cycles, a file reached in two ways, and
one both embedded and imported. Two savers interleave their renames and syncs, and
a third save follows an acknowledged one. Two exported properties are enough for an
object to move from one to the other, and two objects for one to replace the other.
A path of six segments holds a scheme, a root, a name and two ways up. Two
properties and three entries let a layout repeat, omit and reorder.
The invariants proved in section 5 do not depend on these bounds at all.

`CHECK_DEADLOCK FALSE` is set where a bounded system may stop: the build manager
after `shutdown()` or with its events used up, the store when its revisions are
used up, the language server client after `shutdown()` or while nobody
asks, a loaded module once it is destroyed, and a text the tokenizer rejects.
`cache_safety` checks for deadlock: its walk, which ends, may stutter when it has
ended, and nothing else may stop. `script_detach` checks for it too.

## 4. Fairness

- Build manager: the main thread goes on (`_frame()` runs every frame and
  `compile()` loops by itself). The clock reaches the compiler's time limit
  while polls go on, hence strong fairness of `PollTimeout`. A compiler that was
  killed ends, and one that is not allowed to hang ends by itself. Other
  processes release their locks, which the operating system does for them if
  they die. Nothing is assumed of edits, saves or faults.
- Script: module code at any depth of the stack returns some time, whatever it
  calls itself, which is strong fairness of `Return` per depth. The message queue
  is flushed in every frame in which no code is on the stack; since code comes
  and goes this is strong fairness too. Nothing keeps the loop of the deferred
  callback from going on (`LoopStep`).
- Store: nothing is assumed, since nothing in the repository consumes its queue.
- Language server client: `pump()` runs every frame (`_frame()`), notices a
  server that is gone, and the clock goes on, so the time limits of `initialize`
  and of requests and the debouncing of completions pass. Nothing is assumed of
  the server, and the editor need not ask.

## 5. What is proved

Every invariant and every action property of the passing runs, and both
refinements, for any number of scripts, processes, keys, documents, sources,
producers, instances, modules, properties and nested calls, and for texts, paths,
graphs of files and streams of any size. The assumptions are the ones each module
names (`ConstantsAssumption` and the like), and the conditions a theorem states
itself: `~MayRevert`, `~MayReopen`,
`~MayDetach`, `~MayReload`, `~MayUseMultiline`, `FewInputs`. Where a condition is
left out, section 6 shows what goes wrong.

- `FoldInduction`. A set of naturals has a least element; from that, induction over
  sets of naturals by their maximum and over sequences by their last element, with
  what is proved of every element given as a set, and the step of a fold as a
  function. `FoldExists` and `FoldsAppend` say that a fold has a value and what
  another element adds to it: this is what `FoldLeft` in the models
  compute, for sequences of any length.
- `GzBuildManager_proofs`, for any finite set of scripts and any number of events.
  `ShutdownTheorem` from `ShutdownInv`: `shutdown()` only runs between two
  callbacks, and leaves nothing that could go on. `TypeCorrect`, with
  `CompilerInv`: while `compile()` waits for its lock or its compiler the queue is
  empty, so there is one child process at a time. `QueueTheorem` and
  `NoStalePublishTheorem` from `GenerationInv`: what waits is unique and newest
  (`WaitingInv`), a job that is still current is of the newest source (`JobInv`),
  and so is the attempt of `compile()` (`SyncInv`). Each needs the others: a job's
  request goes back into the deque only because it is current and none of its
  script waits. `NewestTheorem`: a script whose newest request is for its file's
  text runs a module of that text once the queue is idle, from `ServedInv`: it runs
  one, or the deque, the job or `compile()` is about to give it one. Its induction
  needs that nothing comes back (`FilesPast`, `QueuePast`, `JobPast`), that no
  request meets a lock (`OwnLockInv`, `QuietInv`), that a job whose source is still
  in the file is the newest (`JobNewest`), and `AttemptInv`: each attempt of
  `compile()` after the first has used up a value of the inputs, so that under
  `FewInputs` it does not give up.
- `GzModuleCache_proofs`. `TypeCorrect`: types, together with `StampInv` (a file
  whose hash is about to be taken still has its contents), without which a stamp
  could hold garbage. `LocksExclusive`: inductive as it stands, given the types.
  `StampsSound`: under `~MayRevert`, `StampSound` and `LoadedMatchesKey`, from
  `SoundInv`: a module file holds what its key stands for or nothing useful, a
  result about to be verified is right or the inputs have moved on from the
  plan, and a result about to be published is right. The middle part is
  inductive only because the inputs of a plan are in the past for good, which is
  exactly what inputs that return take away (section 6). Locks play no part in it: soundness
  survives a lock that fails. `CacheRefinement`: under the same condition every
  step is a step of `ContentCache` or a stutter; only `PublishFile`,
  `LoadFails`, `WriteStamp` and `PowerFailure` touch an entry.
- `GzFiles_proofs`. `DurableFileTheorem`: saving implements `DurableFile`, for any
  texts, saves and editors, from `SaveInv`: whatever the path may name, now or after
  a power failure, is a whole text on the disk (`DiskInv`); a temporary file is
  synced before it is read back and is the text to be saved before it gets the name
  (`SaverInv`). The step that acknowledges a save is where `DiskInv` and `SaverInv`
  of the saver meet. `ImportsTheorem` from `ScannerInv`: the scanner is in the
  compiler's mode or has failed (`InStep`), which multiline strings are the only way
  out of. `ReachableTheorem` from `WalkInv`: what the walk has come across was
  visited or is on the stack; when the stack is empty the visited set is closed
  under the imports that are followed, so it holds everything they reach, and no more,
  since every closed set holds what the walk discovers.
- `GzScript_proofs`. `RefreshTheorem`: types and `RefreshScheduled`, with
  `EditorOnly` (a pending migration implies the editor and a module) so that a
  publish in a game cannot leave a migration to another module behind, and `OwnInv`:
  an instance whose `init` or `deinit` runs has a module, is not registered, and is
  created or freed once.
  `NoneForgottenTheorem`: under `~MayDetach`, with `ComingInv`: an instance that a
  migration works on is registered and the migration pending, and one whose `init`
  runs has the script's module or has missed a publish.
  `CallsPinnedTheorem`: under `~MayDetach` and `~MayReload`, `CallsPinned`, and from it
  `ModuleLoadedWhileRunning`, with `AloneInv`: nothing but its `init` uses an instance
  that is being created, and nothing above a `deinit` on the stack uses what it takes
  down. `GameInstancesKeepTheirModule`: the action
  property outside the editor. `ScriptTheorem`: `GzScriptExports` implements
  `GzScript`, so all this holds of it. `PlaceholdersTheorem` is inductive with the
  types; `InspectorsTheorem` needs `ShownInv`, which covers the moment between an
  instance's migration and its notification, and `QuietMigration`: while a migration goes on that
  will notify nobody, no live instance runs a module with other exports than the one
  it migrates to.
- `GzModule_proofs`. `RetentionTheorem`, `ConformTheorem` and `MigrationTheorem` from
  `StateInv`: what a class admits is retained (`RetainedInv`), the old objects are
  kept until the migration ends (`KeptInv`), and what `sync_retained_objects()` has
  passed is settled, whatever it does to the properties that follow (`SyncInv`).
  `ClosedTheorem`, `ConsistentTheorem` and `UnseenTheorem` from `LoaderInv`: the
  checks that are done have passed, and the entries and names that were read are
  the ones the module has so far.
- `GzDiagnosticStore_proofs`. Lemmas about the queue: marking, taking out one
  document, appending an ordering of a set. `StoreSafe`: types and
  `ChangedQueueConsistent`, with `WorkInv` (a started analysis carries the
  generation of a tracked document, never 0) so that `replace()` only marks
  tracked documents. `NoChangeLost` and `NothingLate`: under `~MayReopen`, from
  `InStep`: a tracked document's generation is its revision, and a producer's
  generation its revision. Reopening breaks `InStep`, as `store_reopen` shows.
  `OneKeyTheorem`, for paths of any length: by induction over the segments the
  parts that the loop keeps are the text of the spot the path leads to so far
  (`TurnWalks`, `PartsPlaced`, `DrivePlaced`), so a key is its prefix and the text of
  a spot (`KeyIs`); and that text leads to that spot, has nothing left to resolve, and
  is not taken for a drive, a scheme or a root (`RootText`, `DriveText`, `HereText`).
  The last needs `Ordered`, that no drive comes after a name, which decoding and
  taking the scheme off preserve.
- `GzLspClient_proofs`. `ServerCountedTheorem` and `RestartedOnceTheorem` from
  `ConnectionInv`, which relates `restarts` to the attempts it stands for and
  says that a client that was never started has used none.
  `InFlightMatchesTheorem` and `DefinitionAskedTheorem` from `RequestInv`, which
  adds that a client that is not connected has asked nothing; the core is
  `CompletionsLeft`, that taking out requests leaves a completion exactly if the
  flag stays set. `AnswersTheorem` from `CrossingInv`: the server will read each
  request after the text it was asked for, and in the end knows the texts the client
  takes it to know, but of the documents of which something was lost (`InOrder`,
  `OrderLost`); an answer with a known id has the text of its request
  (`Identified`). `FramesTheorem` from `FramingInv` and lemmas about the bytes of the
  messages that are under way, for any messages, limits and cuts.

Only model-checked: liveness (`QueueDrains`, `MigrationEnds`,
`QueriesResolved`), which TLAPS does not prove, and the findings, which are
refutations on an instance.


## 6. Findings

Each is a run whose one property TLC refutes; `PROJECT.json` quotes the line it
contradicts.

1. Save A, B, A while the first A compiles: the last save is never compiled
   (`gz_build_manager.cpp:816`).
2. A request that waited for a lock and is put back by `complete_active()` has
   an empty plan and is dropped (`gz_build_manager.cpp:888`, `1172`).
3. A quotation mark in a multiline string hides the imports that follow it from the
   cache key (`gz_build_manager.cpp:170`).
4. A script on a retired module that detaches itself unloads the code it runs
   (`gz_script.cpp:302`).
5. An object that a script moves from one export to a later one is destroyed when
   the host takes over the first (`gz_script.cpp:86`).
6. A reopened document accepts results for the removed one
   (`gz_diagnostic_store.cpp:40`).

Differences without a run of their own, where a property excepts the case or the
model shows it step by step:

- Inputs that change and change back during a compile: the module built from the
  intermediate text is cached under the final key (`gz_build_manager.cpp:791`).
  `GzModuleCache` shows it with `MayRevert`, and `cache_safety` excludes it.
- An instance whose `init` is running when the script's module is published is not in
  `instances` yet (`gz_script.cpp:595`, `608`): the migration leaves it on the old
  module until the next publish. `NoneForgotten` excepts it (`missed`).
- A publish while a migration runs the next module's `init` replaces
  `pending_module`, to which `migrate_editor_instance()` has a reference only
  (`gz_script.cpp:96`): the module is unloaded while its code runs. With
  `MayReload = TRUE`, TLC finds it against `ModuleLoadedWhileRunning`; the runs have
  `MayReload = FALSE`.
- A text that a full pipe loses counts as sent (`gz_lsp_client.cpp:361`, `393`), so the
  answers that follow are about another text until the server is restarted.
  `AnswersMatchText` excepts them.
- A sibling file that is not Zig and is imported by its bare name is not in the key
  (`gz_build_manager.cpp:260`). `KeyCoversReachable` excepts it.
- A publish that meets an instance still on an older module compares exports with
  the script's previous module only, so the owner may not be told that its
  properties changed (`gz_script.cpp:505`). `InspectorsCurrent` excepts it (`mixed`).
- A repeated property name closes the library by hand and again in the destructor of
  the module that owns it (`gz_compiled_module.cpp:593`), against "exactly once" in
  `gz_lifecycle.hpp`. `ClosedOnce` excepts it; no Zig struct has such fields.
- `res:////a` has the key `res:///a`, whose key is `res://a`
  (`gz_diagnostic_path.cpp:71`), against "Idempotent" in `gz_diagnostic_path.hpp`.
  `OneKey` excepts it. The Windows branch calls `is_drive_prefix`, which no file
  declares.
- A header up to two bytes below its limit, or at it, is accepted if its blank line
  arrives with it and rejected if that is cut (`gz_lsp_client.cpp:625`).
  `FramesJudged` excepts it.
- `_save()` returns an error when only the sync of the directory fails, although
  the file is replaced, and queues no compile (`gz_resource_format.cpp:63`).
- `object_call()` returns a string in a local buffer (`gz_compiled_module.cpp:253`)
  that `runtime.zig:17` tells scripts to borrow until the next call.
- `gz_script.hpp:20` says old instances keep the retired module until destroyed,
  which `_apply_pending_refresh()` does not do in the editor; `docs/diagnostics.md:58`
  says that clearing non-empty state marks the document changed, which
  `remove_document()` does not do; `gz_lsp_client.hpp:116` says that shutdown sends
  the LSP shutdown and exit, but `gz_lsp_client.cpp:148` sends `exit` only;
  `gz_lifecycle.hpp:40` says its flag is never cleared, `register_types.cpp:43`
  clears it.
- A query asked during the restart backoff stays pending, and asking it again returns
  at `gz_lsp_client.cpp:702` before `start()`: only a different query starts the
  server again.

## 7. Not modelled

The binding generator and the build files have no protocol at run time; of the Zig
adapter and the value codec only what decides whether a field takes a value is
modelled, the rest copies data. The ordering of diagnostics and their Godot adapter
are conversions without state. The process table scan is operating-system code; in
the models killing a process tree is the cause of a later exit. Registration sets up
and tears down singletons in one fixed order. Documentation, highlighting and the
rest of `GzLanguage` forward to Godot. Windows branches are left out throughout:
the lock, the rename and the paths are those of the other systems.

## 8. Plan

1. A refinement between `GzBuildManager` and `GzModuleCache`: the plan, the lock and
   the stamp of the former are steps of one process of the latter. It needs the
   cache's inputs as a history of the manager's texts.
2. The abstract specification of the diagnostic store as a consumer sees it, a
   document's latest batch per source, with the changed queue as its detail.
3. The safety part of liveness: whatever waits in the deque or with the language
   client, there is a step enabled by the model's guards that takes it on, as an
   invariant that names the step instead of using ENABLED.
