# A TLA+ model of libwaifu

libwaifu runs image and speech models on the machine it is on: a Rust engine (`waifu`) over a C++
tensor library (`flint`), a library that fetches models (`waifu-modelmanager`), a terminal program
and two desktop apps over their C APIs. These modules model the parts of it that wait, retry,
share and interleave; TLC checks them on small instances, and TLAPS proves their safety
properties for every instance.

To check it, in this directory: `tlc -config MCEngineCalls.cfg MCEngine` for a run, and
`tlapm EngineProofs.tla` for the proofs. `PROJECT.json` lists the runs, the source lines behind each
definition, the mutations each property is known to catch, the hazards and the findings.

## The system

| part | state it keeps | operations | what is hard | modelled by |
|---|---|---|---|---|
| engine thread (`waifu/src/engine.rs`) | the channel; `open`, `cancelled`, `running`, `stop` in `Shared`; what is loaded | `submit` (load, unload, draw, speak, convert, layers), `cancel`, `cancel_all`, `Drop`, the loop `work` | several lock-free steps per call against a thread that takes, claims, runs and closes; panics; drop with work queued | `JobQueue`, `Engine` |
| fetch (`waifu-modelmanager/src/hub.rs`, `fetch.rs`) | the cache directory: files, `.part`s, staging directories | `fetch`, `stop`, `remove`; download over HTTP or by the Hugging Face client | kills, short transfers, servers that answer from elsewhere, downloads nobody can call back, several processes on one cache | `Fetch` |
| Metal blocks (`flint/metal_native/block_allocator.cc`) | chunks, cut into free and used blocks | `take`, `takeDedicated`, `addChunk`, `give`, `emptyChunks`, `removeChunk` | splitting and joining in any order, dedicated chunks | `BlockAllocator` |
| Metal commands (`command_stream.cc`) | the batch being encoded, `_submittedSerial`, `_completedSerial`, `_finished` | `beginCommand`/`endCommand`, `submit`, `waitFor`, completion handlers | handlers out of order, failure, the host running ahead | `CommandStream` |
| Metal tensors (`vram_allocator.cc`, `context.cc`) | buffers, weights, `_weightBytes`, `_memoryLimit` | `allocate`, `allocateWeight`, `free`, `releaseUnusedMemory`, `setMemoryLimit`, `upload`, `download` | memory reused while queued work still uses it; limits decided in several steps; waiting with a lock held | `VramAllocator` |
| weights (`waifu/src/flint/weights.rs`, `runtime.rs`) | which weights have a copy on the device | read a package, keep the smallest, evict | the device has less than its budget says; evictions while a run holds copies | `Weights` |
| graph and IR (`waifu/src/flint/graph.rs`, `op.rs`, `ir.rs`) | nodes and outputs; instructions; the slots of a run | write, compile, run, try again | frees placed by counting reads; a step that runs out of memory and is run again | `Ir` |
| pipelines (`sdxl`, `anima`, `krea2`, `qwen_image`, `see_through`, `indextts`, `cosyvoice3`) | the generators they share | draw, take apart, speak, convert | seeds, draws, reports and looks at the stop in the right order, at the ends of every count | `Pipelines`, `Reports` |
| progress (`waifu/src/progress.rs`) | what one job is doing | `told`, `fraction` | counts over a piece, a pass or the whole; an estimate that is passed; a vocoder that is only timed | `Progress`, `Reports` |
| Vulkan context (`flint/vulkan/context.cc`) | the batch being recorded, serials, the staging ring, the cache of buffers, the limit | `allocate`, `free`, `dispatch`, `submit`, `retire`, `upload`, `download`, `synchronize`, `releaseUnusedMemory` | a ring and a cache that are reused behind the device | `VulkanContext`, `Staging` |
| CUDA memory and copies (`flint/cuda/staged_upload.cc`, `to_device.cc`, `cuda_tensor_data.cc`, `common.cc`) | two pinned buffers, a copy stream, a count of bytes | `malloc`, free, `copy`, `startTransferAsync`, `completeTransfer` | two streams ordered only by events; buffers shared by threads; counting before looking | `CudaStreams`, `Staging` |
| C API (`waifu/src/c_api.rs`, `c_api/support.rs`) | a gate per call, the engine behind a handle, the last error per thread | `*_async`, `waifu_engine_cancel`, `waifu_engine_free` | callbacks against the return of the call that made them | `AsyncCall` |
| SwiftUI app (`waifu-app/swiftui`) | `Session`: jobs and their tasks; `Launcher`: what is on the engine; `Ticket` | start, stop, ensure, load, keep | cancels at every await, late reports, two records of what is loaded | `App`, `AsyncCall` |
| model manager C API | a handle per fetch: its thread and stop flag | `waifu_modelmanager_fetch_async`, `_cancel`, `_free` | free while the thread runs | no (as a call: `AsyncCall`) |
| terminal program, drawing (`waifu-cli/src/tui/draw.rs`) | the screen; two channels, a flag; the engine behind its thread | keys, devices, draws, stops, leaving | a stop against a run that is yet to begin; reads that fail; one answer for what is asked | `DrawScreen` |
| terminal program, models (`waifu-cli/src/tui/models.rs`) | rows read off the disk and the configuration; one fetch | browse, fetch, stop, delete, choose a folder, hand a model on | what the rows say was read earlier | `ModelList` |
| configuration (`config.rs`) | `config.toml` | read, set, write | read, changed and written whole, by more than one program | where models are kept: `ModelList` |
| log (`log.rs`), WPF app, exporters, tools | the sink; the app's protocol again; none | | offline scripts | no |
| networks, tokenizers, normalizer, operators of every backend | none, or that of one call | numeric graphs and parsers | numbers | no |

How they meet: the apps and the terminal program call the C APIs or the crates; each call becomes a
job on the engine's one thread, or a fetch on a thread of its own, and comes back as a callback from
that thread. The engine's thread reads weights and runs graphs through flint. On Metal a tensor's
memory is a block of a chunk, given back the moment the tensor is destroyed, with commands that use
it still queued.

What makes each correct, in a sentence each:

- engine: a job is never lost but to a thread that dies; in order and one at a time; a stop reaches the job it was meant
  for and no other; a request is answered by the model last loaded; drop returns.
- fetch: what comes to be under a file's own name is the whole file, unless a body was cut short where
  nothing could tell; a fetch that ended well has
  left a whole model; a stop ends it; removal takes what it names; what is left behind is resumed.
- blocks: the blocks of a chunk tile it, and free ones are joined.
- commands and tensors: the host never touches bytes the device has work left on; no two tensors
  share a byte; memory in flight is not given back; limits hold; every call comes back.
- staging, on Vulkan and CUDA: what is filled for the device is not filled again before it was read.
- weights and IR: a run holds what it needs and no more; memory pressure changes neither what is
  drawn nor what can run.
- pipelines and progress: what is made depends on the seed and the request alone; the bar only goes
  forward; a stop is looked at within two steps of work, and what nothing is reported between.
- app: a job is run by its own model where it was asked to run; a cancel is not lost; what ended stays
  as it ended; every job ends.
- terminal program: what the screen shows going on is what is going on; a picture is drawn on the
  device the heading names; what is handed on is whole and is where the configuration says; a stop
  stops what it was pressed for.

Under "hazards" `PROJECT.json` has, at its line, each thing that is hard to test here.

## The modules

```
JobQueue  <--- implemented by ---  Engine  <- EngineProofs                    MCEngine
                                   Fetch   <- FetchProofs                     MCFetch
BlockAllocator
      ^ extended, and BlockSpec implemented, by
VramAllocator ---extends---> CommandStream    <- VramProofs, of all three      MCVramAllocator
Staging  <--- implemented by ---  CudaStreams                  }
                        and by    VulkanContext                } <-- DeviceProofs   MCWork
Weights  <---extends---  Ir       <- IrProofs                  }
Progress <---extends--- Pipelines <---extends--- Reports <- ReportsProofs }
AsyncCall <---extends--- App                                   }
DrawScreen                                                     } <-- ProgramsProofs MCPrograms
ModelList                                                      }
DrawScreen, by itself                                                         MCDrawScreen
```

Where an MC module names several, its variable `side` says which of them the run is of: they share
nothing, and one run answers the question for each. `DeviceProofs` and `ProgramsProofs` extend those MC
modules, and prove of their specifications what each part keeps alone. `Sums` has the lemmas on
`MapThenSumSet` that the counts of bytes rest on, and on induction, which `ReportsProofs` uses too.

### JobQueue and Engine

`JobQueue` is what the engine promises whoever submits: a queue, one job active, each ends once, one
asked to stop while it waited ends as cancelled without being run. No thread is in it.

`Engine` is the code. A call is a series of actions, one per lock or atomic the source takes: `submit`
is `Submit` (the number, `fetch_add`), `SubmitOpen`, `SubmitSend`; `cancel` is `Cancel` (the look at
`open`), `CancelMark`, `CancelLook`, `CancelRaise` -- the last two apart because the lock on `running`
is let go before `stop` is stored. The loop `work` is `TakeJob` to `Close`, and `Worker::run` is the
`Run...` actions, by what the job is. A request reports up to `MaxReports` times and looks at `stop`
after each; its ends are finished, stopped, or failed. `DeliverPanics` is an `on_complete` that panics:
it is called outside `guarded`, so the thread dies, and the receiver with all that was on the channel.
`Drop` needs `&mut self`: nothing else is in progress, which is its guard `Idle`.
`log` and `asked` are history: what has been completed, and what somebody has asked to stop.

### Fetch

One repository directory, several processes. A file is a sequence of blocks, each the number of the
published block it is, so that a hole, a repetition or a short end shows; a block is what one `read`
returns. Over HTTP (ModelScope) a fetch measures its `.part`, asks for the rest, looks at where the
answer says it begins (`Content-Range`, or the status), opens the `.part`, copies block by block with
a look at `stop` after each write, checks the length where one was sent, and renames. A body ends by its
length, by its last chunk, or with the connection (`reply.ends`): of the last kind one that was cut short looks
like one that is over. `handle` is
where the file a transfer has open is by now, for a rename or a removal under it. Through the Hugging Face
client (external code) a thread downloads into a staging directory; the fetch asks for `stop` on a
clock while it waits, hands a stopped download to a thread that waits in its place (`abandon`), and
places and sweeps. `Killed` ends a process between any two steps. `remove` unlinks one entry at a time.

### BlockAllocator, CommandStream, VramAllocator

`BlockAllocator` has the chunks and blocks as sets: the linked list of a chunk is recovered from where
blocks begin and end, which is right exactly because they tile the chunk, and that is proved.
`BestFit` is the order of `_free` (size, then address; chunks of one size come in any order). `BlockSpec`
is the allocator under a caller that may do anything: the specification `VramAllocator` implements.

`CommandStream` has the batches. `Execute` is the device (external), running them in order;
`Completed(n)` is the handler of batch `n`, in any order. `uses` says which bytes the commands not yet
run read and write; no code has it, and the properties are about it.

`VramAllocator` composes the two. A host thread is in at most one call; `host[h].at` says where, and
each place is one look at state or one wait: limit, room, larger chunks, budget, the buffer, the second
try. `heap` and `turn` are the two mutexes: the allocator's is held across waits on the stream, and the
stream's is given back before empty chunks are let go. A wait either returns or throws, and a
throw drops both. That a tensor is not freed by one thread while another is using it is
the caller's promise, a guard of the free actions (`Mine`).

### Weights and Ir

`Weights` is the choice of weights that stay on the device (the smallest first, within the budget), what
of them the device turns out to have room for, in the order of the package, and the eviction of
the largest. `Ir` writes every graph of up to `MaxNodes` nodes (`Push` and what calls it), compiles it
(`Compile`: the nodes that live, the reads of each, a `Free` after the last) and runs it. A value is the
storage its tensor is over: one a run made, a weight's copy, or the caller's; a view shares its input's.
So an evicted weight gives its bytes back only when no slot has its copy, as a handle in the code does.
`Execute` is an instruction that fits, `MakeRoom` one that does not and lets a weight go, `GivesUp` one
for which none is left, and `Fails` any other failure. `taken` is what others have of the device
without the budget knowing.

### Progress, Pipelines and Reports

`Progress` is progress.rs with fractions as pairs, so that two are compared exactly. `Pipelines` says for
each model what a run does that can be told from outside: a sequence of looks (reports at which a
stop is honoured), tells, seeds, draws and work, one operator per function. `Reports` is the worker
in engine.rs that answers one request after another with such a run: `Ask` refuses or begins, `Stop`
may come at any time, `Fails` at any step, and the generators and the vocoder's time are what one
leaves the next. `draws`, `late` and `walked` are history. A piece of a reading is what was expected of it, what
it says, and whether it was cut at its limit: the token that stops it is a draw, which an empty piece makes too and
one that was cut does not. A draw is one call of the sampler: of how many numbers it takes, one, two where a
repetition is drawn again, none at temperature 0, the request decides. A request for layers may be refused on
the way, for its steps or its resolution (`Where`), before or after what has been done by then.

### Staging, VulkanContext and CudaStreams

`Staging` is the promise of an upload: a slot is filled only with no copy out of it left to make.
`VulkanContext` has one recursive lock around each call, so that only the device interleaves with it:
`Fence` is the device, running batches in order; a call that waits is at `"wait"` for a serial. A byte of
the ring is a slot. Buffers, once freed, are in the cache at once, whatever still uses them.
`CudaStreams` has threads that enqueue and a device that runs each stream in order (`MayRun`), events
as positions in a stream, and a pool whose blocks follow the stream they were freed in. `LockStaging`,
`FillBuffer` and `SendBuffer` are one pass of `StagedUpload::copy`.
`MCWork` checks the two on one at a time, as a build has one.

### AsyncCall, App

`AsyncCall` is one call of the app into the library: the thread that calls (`Submitted`, `GateOpens`, `Given`,
`Resumes`), the one that runs the job (`Job...`), and `CancelNow` from the main actor at any time. What
either says to the app is put on `mainQueue`, and handled in order. A fetch that ended well goes on to
its load without the main actor (`FetchedThenLoads`). `App` is the session and the launcher over it: a
task per job, its place between two awaits in `task[j].at`, what the list shows in `jobs[j].status`. What comes of
a run is kept at once, or is nothing where it makes no file (`Ran`), or, of layers, is made files off the main
actor first (`Exported`): a stop before that is over keeps nothing.
Swift does not promise that tasks put on the main actor run in the order they were made; the model
has them in order, which is what the executor does, and says no more about the words of progress.

### DrawScreen, ModelList

The screens are loops: ask, read a key, hear what there is. `DrawScreen` is draw.rs: `Asks` is what
the loop sends, `Key` an action per key and box, `Hears` one update, and `Leaves` and `Joined` the
end, which waits for the painter. The painter is `TakesRead` to `PainterEnds`, with `LooksAtCancel` between two
pieces of news; the engine under it is `run`, a job that ends once (`Engine` says so). The boxes are in the
rows and the order the code lays them out in, since up, down and tab compute on them.
`ModelList` is models.rs: the rows as they were last read, the disk and config.toml as they are, one
fetch with its two threads (the relay has the flag, the fetch is `Fetch` in short), deletions and
the choice of a folder. `spoilt` is history: a deletion that failed half way, after which the rows stay
as they were.

## What is checked

| run | bounds | shows |
|---|---|---|
| `engine_calls` | 2 callers, 2 jobs, 1 report; a good load, a bad one, an unload, a draw; a panicking completion | types; a stop that was asked for is not lost between taking a job and running it (`AskedIsStopped`); a job is lost only to a thread that dies of a completion, which takes what is on the channel (`OnlyDeathLoses`) |
| `engine_queue` | 1 caller, 3 jobs out of a load that succeeds, one that fails and a request; fairness | `Engine` implements `JobQueue` (`IsJobQueue`), its liveness included; every open job has somebody who will end it (`NoJobLost`); none is open after drop (`DropEndsAll`), which returns (`DropReturns`); a request is served by what the last load left (`ServedByLastLoad`) |
| `fetch_cache` | 2 processes on one cache, files of 1 and 3 blocks, 2 attempts; one fetch at a time over HTTP on an unreliable network, any number by the client; stops, kills, removal | what comes under a file's own name is the whole file, whatever ends a body early, but where only the closing of the connection ends it (`WholeOrNothing`); what arrived whole stays until it is removed (`ArrivedStays`) |
| `fetch_stop` | 1 process, 2 models that share a file, 3 attempts, kills, a client that fails or hangs; fairness | a stop ends the fetch (`StopEnds`); one that ends well leaves the whole model (`DoneIsCached`) |
| `vram_host` | 2 threads, 2 tensors, a chunk of 2 units, 2 batches of 2; fairness | the host is alone with what it copies (`HostAlone`), `BlockSpec` is implemented, every call returns or throws (`CallsEnd`) |
| `vram_limit` | 1 thread, 3 tensors, 2 chunks of 4 units or more, weights and dedicated chunks, a limit, a budget, a failing device | types and locks; the blocks of a chunk tile it and free ones do not touch (`BlocksTile`); memory in flight is not given back (`InFlightIsHeld`); nothing is made over the limit, but by what the device rounds one weight's buffer up by (`LimitHolds`). With one thread: of several, the theorem `LimitIsKept` |
| `work` | graphs: every one of 3 nodes, 2 weights, 2 runs, a device of 4 units of which others may have 2. Requests: every one of up to 2 steps, 2 pictures, 2 pieces, empty, cut at their limit or neither (and readings of 3 and 4 with empty ones between) or 3 windows, layers of as few and as many steps as are taken and one past either end, of every model, a release with a schedule of its own of more or fewer steps than asked for included, with stops and failures anywhere. Vulkan: 1 tensor at a time, 2 buffers, a limit, a ring of 2 segments, 2 batches of 3 before a call begins. CUDA: 2 threads, a tensor each, 2 blocks, the limit of one large one, uploads of 3 chunks; fairness | values are held as needed (`HeldAsNeeded`); every draw is made once and in order (`DrawsAsEager`); the weights kept are as many as can be (`KeepsTheMost`); a run fails for memory only where it would with no weight kept (`FailsAsStreamed`), and ends (`RunsEnd`); the bar never goes back but where a release walks more than was asked, and a conversion fills it (`BarForwardToFull`); what is made is walked in the steps asked for, or its release has, and drawn from the request's seed (`MadeAsAsked`); after a stop at most two steps of work are done, and the reading of each picture of the prompt or of each piece that comes back empty, between which nothing is reported (`StopIsNear`); memory has one owner, is counted, and outlives its use (`MemoryIsOwned`); what touches a CUDA block runs in order (`BlocksInOrder`); nothing is made over a limit (`LimitsHold`); staging memory is filled again in turn (`StagedInTurn`, of `Staging`) |
| `programs` | the app: 3 jobs of 2 models on 2 placements, a report each. The drawing screen: 2 devices, reads, runs and the terminal failing. The list: 2 models of one repository in 2 folders, any config.toml, failing disks; fairness | a job is run by its model (`DrawnByItsModel`), a cancel is kept until the job has it (`CancelIsNotLost`), what the list says is of its own model (`LineIsItsModels`) and stays (`EndedStays`), every job ends (`JobsEnd`); the screen shows the one thing that is asked (`OneAsked`), and draws where it says (`DrawnWhereShown`); the list hands on whole models (`HandedOnIsWhole`); a stop on either screen stops its run or fetch (`StopsAreTaken`) |

Four runs end in a violation, each of something the source says of itself (quoted in `PROJECT.json`
under "findings"):

| run | what the code does |
|---|---|
| `engine_wrong_stop` | `cancel` sees its job running, lets the lock go, and raises `stop` when the next job has been claimed: that one is stopped |
| `fetch_again` | a stop with the last block leaves a whole `.part`, and every later fetch asks for a range past its end |
| `fetch_remove` | two releases are published in one repository and `remove` takes the directory: the files of the other go with it (`RemovesItsOwn`) |
| `terminal_quit` | leaving sets the flag, and a draw still on the channel clears it as it is taken: the wait is for a whole picture, not for a step of one (`WaitIsAStep`) |

More disagreements are listed as hazards, each at its line: two fetches of one file over HTTP write one `.part`,
and what is renamed is not the file (`fetch_cache` has one such fetch at a time); an `on_complete` that panics
kills the thread and the jobs on the channel never end (`NoJobLost` is checked, and proved, where completions do
not panic), so that "a job it never sees still has to be ended" (engine.rs:344) holds of a send that fails and
not of what was sent (`OnlyDeathLoses` names it); a body with neither length nor chunks that the connection's
end cuts short skips the look at the length (hub.rs:1407) and is renamed, though a transfer "that still ended
cleanly would otherwise be renamed into place" (hub.rs:1403) is what that look is for and nothing is to be
written there before it is whole (hub.rs:1113): a manifest that was cut stays, and every later fetch reads that
one (`CutUnseen`, the one exception of `WholeOrNothing`); a picture drawn from one at strength 0 walks no step,
where generation.rs:45 says that the strength "does not change how many steps run" (`StepsAsAsked` is of the
strengths above); a Hugging Face download that fails leaves its staging directory; a release of Qwen-Image that
fixes its own schedule walks it whatever `num_steps` says (generation.rs:50), and since its bar is given the
steps asked for, it falls back at the decode where more are walked (asked 4 of a schedule of 8: from 9/12 to
5/8), which is the one exception of `BarForwardToFull` (`FallsBack`); and the gate of the C API opens before the
call has returned, which `AsyncCall` has as a step (`GateOpens` before `Given`) and the app is safe against.

Why the bounds are enough. The races of the engine are between one call and the passage from one job
to the next: two jobs and two callers have them all, and a third job is there where order is the
question. A `.part` of three blocks can be absent, empty, short in two ways or whole. A chunk of four
units can hold a block with a free neighbour on either side, and two chunks allow a wrong chunk. With
two commands a batch and one batch in flight, two batches reach the wait for room, a wait for the
batch being encoded, and a handler that is late. A ring of two segments comes round on the third upload, within
a batch and over two. Three nodes have a value read twice, one read by two, one nothing reads and one
that is an output and read. Three jobs of the app have one that runs, one stopped while it waits and
one after it; the first is always of one model in one place, which is a matter of names. Three batches
on Vulkan are one that runs, one that waits and one that is recorded. The screens have no bound but the devices,
the models and the folders: their channels hold one thing at a time, which is `OneAsked`. In the
list the second folder has one model at most. Each bound is a constant named in its module
(`MaxJobs`, `MaxReports`, `Attempts`, `MaxChunks`, `MaxBatches`, `Tensors`, `Excess`, `VkMaxBatches`,
`MaxWork`, `MaxNodes`, `MaxRuns`, `MaxAppJobs`) with a guard that
keeps to it. Callers, attempts, hosts and tensors are symmetric in the safety runs, never under a
liveness property. `CHECK_DEADLOCK FALSE` is in the engine's runs, where after drop nothing is left to
do; in `fetch_stop`, where what is killed or fails uses the attempts up; in `vram_host`, where a
thread that waits for ever is what the property is about; in `work`, whose runs are bounded; and in
`programs`, which may be left alone or come to their end.

Fairness. `Engine`: weak fairness of the thread and of the rest of each call that has begun, for a
thread that can run is scheduled; nobody has to begin a call. That work does end is the code's own:
a request makes a bounded number of reports. `Fetch`: the same for a fetch's thread, whose HTTP client
has timeouts; none for the client of Hugging Face, which may hang. `VramAllocator`: weak fairness of
the device and of each handler, which Metal promises for a committed buffer, and strong fairness of
each thread in a call, because it takes mutexes others take again and again, and a mutex keeps no
thread out for ever. `Ir`: weak fairness of the next instruction, for a run is one call on one thread.
`App`: weak fairness of the main actor, of each task and of the library's threads; nobody has to start or
stop a job. `DrawScreen` and `ModelList`: weak fairness of the loop, which comes round on a clock whether
a key is pressed or not, of the threads behind it, and of a run or fetch that has been told to stop, which
`Engine` and `Fetch` promise; that a run ends by itself is not counted on.

## What is proved

`EngineProofs`, for any callers, work and number of jobs:

- `Typing`, `TypesHold`: the types. The strengthening ties `wpc` to `job` and `running`: the thread has
  a job exactly where the loop has one, and `running` names it from `Claim` to `Unclaim`.
- `StopIsHonoured`: `AskedIsStopped`. The invariant follows a stop through the hand-over: once a job
  is asked for, either the caller is still on its way, or the mark is in `cancelled`, or the thread is
  before its second look, or `stop` is up. Without the second look the step to `run` breaks it.
- `HolderInvariant`, `NothingLost`: a job is held by one of its submitter, the channel, the thread and the
  history, never two; from it `NoJobLost`, where completions do not panic.
- `DeathAloneLoses`: `OnlyDeathLoses`, with panics. A step hands a job from one holder to the next; that no loop
  ends with a job on the channel needs that nothing is behind the message that ends it (`NothingBehindQuit`),
  and that a sender that finds the thread gone ends its job itself.
- `StepsOfAQueue`: where completions do not panic, every step of `Engine` is a step of `JobQueue` or none of it, for
  any number of callers, work and jobs. `TakeJob` is `Begin`, the two ways to complete are `End`, the
  send is `Put`, and the three ways to mark are `AskToStop`. It needs that the thread lives until it takes
  `Quit`, with nothing behind it (`LivesToQuit`), or the loop would leave a job.
  `IsJobQueue` is this and its liveness, which is TLC's.
- `DropCompletesAll`: `DropEndsAll`, where completions do not panic. `Quit` goes behind all that is
  numbered, since `Drop` finds nothing in progress, and what is numbered and has not ended is on the
  channel or with the thread, before it.
- `AnsweredByLastLoad`: `ServedByLastLoad`. The log and the model in memory are tied by what the last
  load or unload that was not cancelled in the queue left.

`FetchProofs`, for any processes, models that share files, sizes and attempts, with stops, kills, failures and
removals:

- `Typing`: a fetch under way is of a file its model names, and what is on the disk is files.
- `WholeUnderItsName`: `WholeOrNothing`, over HTTP with one fetch at a time (`OneOverHttp`; two at once
  break it, see the hazard). A `.part` is always the start of the file, what has it open writes at its end, and
  while a transfer is under way nothing is under the name; so what a body that was cut unseen leaves there is a start of
  the file too, and any other is renamed only with all of it.
- `DoneLeavesAllOfIt`: `DoneIsCached`, where nobody removes a model.
- `WhatArrivedStays`: `ArrivedStays`, an action property, of what is there whole.

`ProgramsProofs`, of the app for any models, placements and number of jobs:

- `AllAgree`: the invariant `Agreed`, which ties what a task is waiting for to what the launcher
  says is on the engine and to the call in progress. From it `RunByItsModel`
  (`DrawnByItsModel`), `CancelReachesTheJob` (`CancelIsNotLost`), `LineBesideItsModel` (`LineIsItsModels`), and
  `EndedForGood` (`EndedStays`), an action property.

of the drawing screen for any devices:

- `ScreenIsTrue`: the invariant `DrawInv`. What is asked for is in exactly one place -- with the loop,
  on the way, with the painter, on the way back -- and is what `status` says; that the list of
  devices is only up over an idle screen keeps a second read from being asked for. `OneAtATime` is
  `OneAsked`, `DrawnWhereNamed` is `DrawnWhereShown`.

of the list for any models, repositories and folders:

- `HandsOnWholeModels`: `HandedOnIsWhole`. A row that says a model is whole is right (`RowsAreTrue`) because
  whatever makes a model less than whole reads the rows again, but for a deletion that fails half way;
  and what was fetched is where it will be looked for (`FetchedIsWhole`) because no folder is chosen
  while a fetch goes on.

and of the three together, as their run has them (`ProgramsSpec`): `ProgramsAgree`, all of these invariants.

`VramProofs`, of the blocks for any alignment, sizes, batch numbers and number of chunks:

- `NoByteTwice`, `NoByteLost`, `FreeBlocksJoin`: `BlocksApart`, `NoGaps` and `FreeIsJoined`. None is
  inductive alone; `Tiles` is, which is the three with the types and that a block is within its chunk.
  One lemma per operation: `CutTiles`, `AddTiles`, `GiveTiles`, `RemoveTiles`. `GiveTiles` rests on
  `JoinedRun`: the joined block runs from the start of one old block to the end of another, and no
  free block touches it.
- `DedicatedHoldsOne`: `OneInDedicated`, from `EmptyIsWhole`: the block of an empty chunk is all of it.

  `BlocksAlwaysTile`: `BlocksTile`, the three as one run checks them.

and of the tensors for any threads, tensors, sizes, limits and budget, on a device that may fail:

- `MarksAreTrue`: the invariant `IInv`. The one thing between the host and the device is a mark,
  `lastUse`, and a mark goes from a tensor to a block, is joined with other marks, cut, and handed on
  to another tensor. `UsedBefore` says it is never older than the batch of any queued command that uses
  its bytes; `Dispatch` keeps it because it marks what it encodes, `give` because a joined block takes the
  later mark of those it is made of (`GiveUses`), and `take` because both halves keep it. The
  rest says what a thread may still count on when it has a lock, or when the stream's has been let go:
  `WaitOK` (the batch it waits for is the last that concerns it, and nothing is queued after), `LetGoOK`
  (a weight that is being destroyed is nobody's) and `WantOK` (its tensor has no memory yet).
- `HeldInFlight` is `InFlightIsHeld` and `CopiesAlone` is `HostAlone`: both are parts of it. Nothing of
  what ends a wait rests on the order of the completion handlers (`AdvancedIsRun`).
- `ImplementsBlocks`: `Spec => BlockSpec`, with `BlocksAlwaysTile` of it `TilesUnderLimit`. The allocator is asked for
  sizes the blocks are cut to, and gives marks that are batches.
- `LimitIsKept`: `LimitHolds`, for any threads. `RoomOK` carries what `Room` compared to the making of the
  chunk, over the wait for the device, the chunks let go and the budget: from the comparison on the lock is
  held, nobody else has room (`NobodyHasRoom`), and what a release does is make more of it. The bytes of the
  weights are a count, not a sum, so that `Counted` is needed: what is counted is what the device has given and
  not had back, what a failed free left included. A weight is counted for what its buffer turned out to be, so
  that what the device rounds up by (`Excess`) is of the last one alone and does not add up.
- `VramTyping`: `TypeOK`, the locks in it. `LocksOK` says which steps of a call have which lock, `BatchesOK` what is
  queued, committed and called back, and `Aligned` (of the blocks, `AlignedHolds`) that all is in units.

`IrProofs`, for any weights, package, device and graph:

- `HoldsWhatIsNeeded`: `HeldAsNeeded`, from `IrInv`. Most of it is that the compiler is right (`CompiledRight`):
  instructions are right (`CodeOK`) when each that runs a node comes after all that is needed before it, with
  exactly held what it or a later one reads, or the graph is for. By induction over the nodes
  (`EmittedTo`) and over the operands of one (`TakenTo`), a value's count is the reads that are left of
  it (`ReadsOf` of the live ones behind, less those taken), and it is freed at the read that brings that to nothing:
  a value one node names twice at the second. `LiveNeeded` says the one pass from the back finds what
  the closure of what is wanted asks for. A run then holds what the instructions behind it left (`RunsOK`).
- `DrawsEagerly`: `DrawsAsEager`. A draw is never dropped, each is run once, and only an instruction that
  got its memory moves the generator on.
- `WeightsCostNoRun`: `FailsAsStreamed`. Values of one owner are over one storage (`SlotsOK`), which is the owner's
  own or, of a load, the device's copy; so that with no weight kept what a run holds and what it would have
  made without any copies are the same bytes, storage by storage (`StreamedIs`).
- `MostIsKept`: `KeepsTheMost`. Were there more weights in another choice, it would have one past the last that
  fits; what it has beyond the smallest is at least that large each, and what it lacks of them at most, so that
  its sum would be over what the smallest and the next come to (`SmallestAreMost`).

`ReportsProofs`, for any requests, lengths, ratios and time, with stops and failures anywhere:

- A run is a sequence flattened from sequences of sequences, so what is left of it cannot be listed in an
  invariant. It is said by what it does to a count: `Takes` is what one entry does, `Leads` that every entry of
  a run takes the count before it to the one after, from the first to the last. Runs one after another lead on
  (`Joined`), so do any number of parts (`PartsLead`, for the function that `FlattenSeq` folds), and the first
  entry can be taken off (`FirstTakes`). So each operator of `Pipelines` has a lemma, which cites those of
  its parts as the operator calls them.
- `StopsNear` (`StopIsNear`), `WalksAsAsked` (`StepsAsAsked`), `DrewAsSeeded` (`DrawsAsSeeded`): the count is of
  the work since a look, the steps, and of each generator what was drawn since it was seeded. `ReportsInv` says
  that what is left leads from what has been counted to all the steps there are to be (`ScriptLeads` for the
  whole). What gathers without a look is no more than `Unreported`, the empty pieces counted one by one
  (`WhereCounts`, `PiecesCount`); a draw is at `DrawPlace` because that is what its generator has come to, in
  either order of a reading's pieces.
- `BarGoesForwardToFull` (`BarForwardToFull`): `BarInv`, with three more counts. Of a picture and of layers, a
  fraction which no report to come is behind, but for the decode where `WalksMore`. Of a
  reading, the tokens said, and whether the vocoder has begun: `Speaks` ties what the worker is told to it, and
  `SpeakStep` that a report only adds to what the bar shows, the estimate passed or not (`ShareGrows`) and the
  clock read later (`SpokenGrows`). Of a conversion, the steps drawn and the bounds of the windows sounded
  (`Hearing`); what is counted at the end is everything, whence the bar is full (`FullOnceHeard`), but where the
  last window is silence, whose steps no report says are over. Fractions are compared by their products
  (`MulLe`, `CancelLe`, `AtMostAll`).

`DeviceProofs`, of CUDA for any threads, tensors, blocks and sizes:

- `RunsInOrder`: `BlocksInOrder`. Two streams are ordered by waits alone, so the invariant is about who is
  behind whom: `Ordered` says of any two pieces of work on one block that the later is on the stream of the
  earlier or behind a wait for it, `AfterOwned` that the stream a tensor is worked on next (`NextOn`: the
  copy stream, during an upload) is behind all there is on its block, whoever had it, and `AfterFreed` the
  same of a free block and the stream it was freed in. A free in the wrong stream, or an upload
  without its first wait, breaks the second or the third many steps before anything runs out of order.
- `BuffersAreStaging`: the two pinned buffers implement `Staging`. One call has the lock; a buffer has one
  copy or one filler, and the event its next filling waits for comes after its copy (`BufferKept`).
- `CountsHold`: `CudaTypeOK` and `CudaLimitHolds`. Threads count before they look at the limit, and
  are refused afterwards, so what is counted may be over it. `RoomFor` says: of any set of those that have yet
  to look, should all of them be let through, what there is would be within the limit, or within what one of
  them looked at; the one that counted last among them is that one.

of Vulkan for any tensors, memories, sizes, segments and batches:

- `HeldUntilDone`: `VkTypeOK` and `UsedIsHeld`, from `VkInv`. What is in the cache or a tensor's is there, once
  (`Owning`); a call that empties the cache has nothing queued by the time it does (`Emptying`), whatever it
  submitted and waited for on the way.
- `MadeInLimit`: `MadeWithinLimit`. `HasRoom` carries what was compared over the waits to the making; the
  sum of all buffers is what the tensors have and what the cache keeps (`TotalIs`).
- `RingIsStaging`: `VkStaged`. No command reads what is left of the segment in use (`SlotsKept`), and a
  segment's serial is no older than any command that reads it, submitted or not.

and of both devices, the graphs and the requests side by side, as their run has them (`WorkSpec`): `WorkRunsInOrder`
(`BlocksInOrder`), `MemoryHasOneOwner` (`MemoryIsOwned`), `LimitsAreKept` (`LimitsHold`),
`StagingInTurn` (`StagedInTurn`), and `WorkHoldsNeeded`, `WorkDrawsEagerly`, `WorkKeepsMost` and
`WorkFailsAsStreamed` for what `IrProofs` shows, `WorkStopsNear`, `WorkMadeAsAsked` and `WorkBarForward` for what
`ReportsProofs` does.

`Sums` proves what `MapThenSumSet` adds up to, in whatever order it takes the elements: there is a function it
unfolds to (`SumsExist`, `SumIs`), any two agree (`SumsAgree`), and a sum takes, adds, joins and moves one
element, and is the same of an image that keeps its elements apart (`SumOfImage`). Induction is over a set, from
the well-foundedness of the numbers (`Counting`, `Growing`), for an induction theorem with an operator for a
parameter cannot be used.

The assumptions are the named ASSUMEs of the modules (`EngineAssumption`, `FetchAssumption`, `BlockAssumption`,
`StreamAssumption`, `VramAssumption`, `WithinBlocks`, `CudaAssumption`, `VulkanAssumption`,
`WeightsAssumption`, `PipelinesAssumption`, `ReportsAssumption`, `AppAssumption`, `DrawAssumption`,
`ListAssumption`), which TLC evaluates in the runs. `ReportsAssumption` says what may be asked, as the
engine takes it (a strength clamped to what is between none and all, a schedule of its own only of Qwen-Image), and
that a vocoder's measured ratio is clamped to between a twentieth and twenty. `WithinBlocks` says
that a size asked for, rounded up, is one of the `Sizes` of `BlockAllocator`, and that threads, tensors and
chunks have names of their own; `CudaAssumption` and `VulkanAssumption` that there are finitely many threads,
tensors and memories, which is what lets their bytes be added up. Theorems that need more say so: that
completions do not panic, that nobody removes a model, that HTTP has one fetch at a time.

Only model-checked: the liveness half of `IsJobQueue` and every other liveness property (`DropReturns`, `StopEnds`,
`CallsEnd`, `RunsEnd`, `JobsEnd`, `StopsAreTaken`), for fairness is out of the prover's reach. Every other property of
every passing run is proved, under the hypotheses its theorem states. Taken as
an assumption: that a rounded size is a multiple of the alignment.

## What is abstracted, and what is not modelled

The engine's outcomes stand for what a model computes. A load that panics ends as one that fails,
which is what `guarded` makes of it. In `Fetch` a published file has one version, so that a package
published anew between two attempts is not seen; a hazard is listed for it without a property.
Blocks of memory are counted in units of the alignment; bytes are not held. Of the screens, what the
boxes hold, how a pane scrolls and what is drawn where is left out.

Most of the source is outside what a model checker can say something about, which is why the map covers
a small part of it. The networks, their samplers' arithmetic, the tokenizers and normalizers, and the operators
of four backends are functions of their input that numbers decide; tests compare them with reference
tensors. The layout of the screens, the pages of the apps, the exporters and the vendored sources have no
protocol. The WPF app repeats the one of the SwiftUI app over the same C API.

## Plan

What is left, with what each would be for:

1. The handle of a fetch in the model manager's C API: freed from its own callback it joins
   itself (the hazard is listed).
2. config.toml with two programs that write it, and the log's sink replaced while it is used.
3. The file browser and the run without a screen of the terminal program; the WPF app where it
   differs from the SwiftUI one.
4. Versions of a published file in `Fetch`.
