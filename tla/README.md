# MakaiLib in TLA+

Specifications, TLC models and TLAPS proofs of the control logic of MakaiLib, a
C++20 engine for 3D applications on SDL2, SDL_mixer and OpenGL.  Paths are
relative to the repository's root; the compiled library is `src/new` together
with the headers of `src/new/ctl/legacy` that `ctl/ctl.hpp` includes.  (In
`PROJECT.json` the same files appear as `src/src/new/...`.)

Contents: [the system](#1-the-system), [the plan](#2-the-plan),
[modules and code](#3-modules-and-code), [runs](#4-runs-bounds-and-fairness),
[proofs](#5-proofs), [what the code does not keep](#6-what-the-code-does-not-keep),
[limits](#7-what-is-not-modelled).

## 1. The system

One main thread runs everything.  `App::run` polls SDL's events and then runs
two branches whenever their clocks say so: a *cycle* (audio, input, periodic
events, the program's `onLogicFrame`) and a *frame* (`render`).  The program
hooks in by virtual callbacks and by signals (`std::function` members), which
run in the middle of the engine's own loops and may call back into it.  Beside
the main thread there is SDL_mixer's thread, which ends chunks and music at any
time, and whatever threads the program makes with the tools of
`threaddata.hpp` and `asynchronous.hpp`.

| Component | State | Operations | Talks to | What is hard |
|---|---|---|---|---|
| Audio device (`audio/core.cpp`) | `audioOpen` | open, close, restart, stopAll | mixer; opened by App's constructor, closed by `finalize` | closing under loaded sources |
| Playable, Sound, Music (`audio/*.cpp`) | update queue, `created`; `channel`, `delay`, once-per-cycle flag; static `current`, `queued` | three play methods, stop, pause, resume, create, destroy, queue, switch, update | mixer thread, once a cycle `updateAll` | a remembered channel goes stale; play() that blocks; device closed before destroy |
| Atomic (`threaddata.hpp`) | spin-lock flag, value | every operation is capture, operate, release | Mutex, Task | a throw between capture and release |
| Mutex, ScopeLock, Box (`threaddata.hpp`) | owner in an Atomic | capture, wait, tryCapture, release | program threads | check and claim are two steps |
| App (`core/app.cpp`) | `mainApp`, `state`, SDL, buffers | constructor, run, close, finalize, destructor, event polling | all of the above; callbacks | callbacks close, throw, poll; constructor throws half-way |
| SmartPointer (`referential.hpp`) | process-wide table address -> {exists, count} | bind, unbind, copy, destroy, release | heap, Task | addresses outlive objects and are used again |
| PeriodicEvent, Timer (`event.hpp`) | registry vector; counter, delay, loops, flags | process, yield, start, stop, play, pause, setManual, setAutomatic, copy, destroy | main loop; signals | signals change the vector that is walked |
| Tween, TweenChain (`tween.hpp`) | step, stop, target, flags; stages | yield, setInterpolation, setStep, setStage, play, pause, halt, conclude, copy | registry; signals | boundary steps; signals in the middle of yield |
| Notifier, Notification (`event.hpp`) | signals by name | subscribe, unsubscribe, broadcast | program | unsubscribe removes other callers' actions |
| Render loop and layers (`app.cpp`, `graph/gl/renderer`) | layers, `skipLayer`, `pushToFrame`, drawables by layer | render, setRenderLayer, setAuto/Manual, destroy | App, drawables' callbacks | drawables change the layer being iterated |
| Renderable, Shader, Texture2D (`graph/gl`) | vertex buffer and its locks; shared GL instances | bake, extend, clear, lock; make, create, attach, destroy | OpenGL | use after destroy, failed builds |
| File and archive (`file/get.cpp`, `tool/archive`) | attached archive, load state, failure flag | attach, detach, get, pack, unpack | everything that loads | a failure in the middle of attaching |
| Task, Promise, TimeKeeper (`asynchronous.hpp`) | threads, result in a smart pointer | invoke, await, stop | Atomic, Pointer | double join, stop while joinable |
| Input (`core/input/manager.cpp`) | press counters, bindings | refresh, queries | App | counters that saturate |
| Collision and entities | colliders, entity tree | process, attach, detach | program | the pairing loop |
| CTL maths, containers, strings; JSON and SLF; new CTL; old game data; vendored code | - | pure functions and conversions | - | outside this project, see section 7 |

What makes each modelled component correct, in a sentence:

* *Audio* - a channel that sounds can be stopped by the Sound it belongs to and
  by nobody else's Sound; a wait is respected and runs out; `current` tells the
  truth when `onDestroy` asks it; no callback outlives its Music.
* *Atomic* - its operations look like single steps.
* *Mutex* - one holder, a release to come for every capture, nobody waits for
  himself.
* *App* - one App at a time, services open for all of `run`, a close request is
  never lost and always ends the loop.
* *SmartPointer* - deleted exactly when the last strong pointer lets go.
* *Timer* - registered exactly while automatic, yielded once in a cycle, fired
  as often as asked.
* *Tween, TweenChain* - reach their end, complete once, stages in order.
* *Files and archive* - an attached archive was whole when it was opened and is
  the one that is read; a failure of an earlier one is not in the way; what the
  folder has is found.
* *Layers and render loop* - a drawn layer is shown once, a skip is the layer's
  own, what a layer lists takes itself out when it goes.

The full list of what can go wrong and is hard to test, line by line, is
`"hazards"` in `PROJECT.json`; each entry names the properties that would catch
it, or says why none does.

## 2. The plan

Order of work, most important behaviour first:

1. `SdlMixer`, `Playable`, `Sound`, `Music`, composed by `Audio` - **done**,
   safety proved.
2. `Atomic` with the abstract `AtomicCell`; `Mutex` - **done**, safety and
   refinement proved.
3. `App` - **done**, safety proved.
4. `Pointer` - **done**, safety proved.
5. `Timer` with the registry, over `Vector` - **done**, safety proved.
6. `Tween`, `TweenChain` - **done**, safety proved.
7. `Archive`, `File` - **done**, safety proved: the attached archive, reading by
   path, and `pack()` of another process over it.
8. `Layers`, `Frame` - **done**, safety proved: drawables by layer and the flags
   and buffers of the render loop.
9. Left: what the registry's walk does to `Notifier`; unpacking, as reads of
   every entry in turn.  Section 7 says why tasks, shaders, renderables, input
   and collision are not on this list.

Every invariant and safety property that a passing run checks is stated by a
theorem now; what the runs alone show is liveness (section 5).  Proofs still
worth doing: that the registry implements a set of Timers, and the pointer table
a count per object, as refinements of abstract specifications of their own.

Components that meet in the code share a run (Sounds and Musics in one `Audio`,
the archive and its readers, Drawables and the frame that draws them), and every
property of a run says something that no other one does: type invariants and what
a theorem already gives are proved, not run.

## 3. Modules and code

Every definition that stands for code is listed with its lines in
`PROJECT.json` under `"map"`.  A definition named `Mut...` is the definition of
nearly the same name with a plausible mistake in it; none is used by a
specification, they show that the properties notice.

**SdlMixer** (external).  SDL_mixer as the engine uses it: channels with the
chunk they play, the one music stream, fading and pausing.  A chunk is the Sound
that loaded it, a `Mix_Music` the Music that loaded it.  `ChannelEnds` and
`MusicEnds` are the mixer thread.  A start may fail for want of a free channel,
a music start for any reason.

**Playable**.  `updateQueue` (who lives) and `created` (who is loaded).
`Destruct` has a guard where the code dies: `~Playable` of a loaded object calls
the pure virtual `onDestroy` (`playable.cpp:24-29`; `~Music` has its `destroy()`
commented out at `music.cpp:42-44`, and `~Sound` is declared but never defined).

**Sound**.  One action per play method with its early returns (`MayStart`,
`SpendFrame`), `Stop`, `Pause`, `Resume`, `SoundDestroy`, and `UpdateSounds` for
`onUpdate` of all of them.  `channel` is what the object remembers and
`channels` what the mixer does; the two disagree between the end of a chunk and
the next update, and `Active` is the code's defence.

**Music**.  `current`, `queued`, and `waiting` for a `Mix_PlayMusic` that has
not returned since the stream is fading out: the main thread then takes no step
(`MainThreadRuns`), but the mixer thread does.

**Audio** composes them with `core.cpp` and `updateAll`.  All calls come from
the main thread and are one step each; mixer steps lie between any two.

**Threaded**.  The threads, `pc`, the place that each is at, `ThreadsAt`, the
threads that are at some of the places, and `Go`, the move of one thread to the
next place: what `Atomic` and `Mutex` have in common.

**Atomic**, **AtomicCell**.  The spin lock read by read: the inner loop on the
flag, test-and-set, the operation's load and store, clear.  `Throw` is an
operation that throws, which leaves the lock taken (`threaddata.hpp:47-51`).
`AtomicCell` is what users rely on: call, one atomic application, return.
`Atomic` implements it under the mapping at the end of the module, with the
operation taking effect at `Store`.

**Mutex**.  `capture`, `wait`, `tryCapture`, `release` and Box's members step by
step.  Since `Atomic` is shown atomic, each read or write of the owner is one
step here.  ScopeLock is `Capture` and `Release` at the ends of a scope.

**App**.  `place` is the program counter of `run` and `finalize`; at the four
callbacks the program may close the App, ask `closeButtonPressed`, throw or
return.  Between runs it may construct, fail to construct, run, close and
destroy Apps.  `Cycle` and `Frame` are the two branches, `due` their clocks.

**Pointer**.  `ref` per pointer variable, `exists` and `count` of the table, and
the heap.  `Copy`, `BindRaw`, `Unbind`, `Drop` (destructor), `Destroy`,
`Release`.  `BindRaw` is `bind()` of a raw address, of a new object or of one
that is the program's: a strong pointer then has to delete it, a weak one only
watches it, and a strong copy of the weak one takes it over (`owned`).
`DeleteReleased` is the program deleting what is its own.  The
histories `stale`, `misused`, `reused` say when an address has outlived its
object, which the table cannot know, and `unheard` which objects the program has
deleted while the table had them.

**Vector** (external).  A `std::vector` of pointers that is changed under a
range-based loop: its block and size are kept apart, since a `push_back` into a
full block moves to a new one, a walk begun before goes on in the freed one, and
an erasure leaves old entries behind the end: `Compact` moves the entries at a set
of positions to the front, the `n`-th of them to slot `n`.  `Timer` and `Layers`
use it.

**Timer**.  The registry is such a vector.
`StartWalk`, `Turn`, `SignalReturns`, `EndWalk` are `process()`; between `Turn`
and `SignalReturns` the program's signal runs and may make any call.  Touching
freed memory is a choice between harm (`crashed`) and nothing.

**Tweening**, **Tween**, **TweenChain**.  `Tweening` has the step, the flags and
the program's calls of both.  Values are abstracted to where on the way they lie.
`TweenChain` splits `yield` at the stage's `onCompleted` (`inSignal`) and
computes `setStep` in the arithmetic of `usize` (modulo `UsizeMod`).

**Archive**.  The archives on the disk, each a listing from paths to entries, and
`pack()` in another process: `PackBegin` truncates and writes the first header,
`PackFile` is one file of the folder, `PackDirectory` the directory and the second
header, `PackFails` an exception or the end of the process anywhere in between.
An entry is abstracted to what it does to a reader (`EntryKinds`), its address
included, and a directory to its tree or to `NoObject`, JSON that is no object.
`Earlier` is a set of disks to begin with.  `Enter`
is one turn of `getFileEntryLocation`, `Entered` the loop, `Located` what it comes
to: its stack holds the nodes above the current one, so a node is the sequence of
names that leads to it.

**File**.  `state`, `arcfail` and the static `FileArchive` of `get.cpp` with the
stream that it keeps between archives.  `AttachPath` reopens the one static
buffer before anything asks for the state, `AttachBuffer` reads from the
program's own, and both end in `OpenArchive`.  `Read` is a `get...()` or a
`load...FromArchive()`: the kept exception, the lookup, the entry and its effect on
the stream, the folder.  `Outcome` tells the errors that make `get...()` turn to the
folder, which are `FileLoadError`s, from those that pass every handler
(`archive.cpp:666-675`, `get.cpp:297`).  The three versions (text, binary, CSV) do the same to
this state and are one action.  `answer` is what the last call returned;
`attached`, `rewritten` and `spoiled` are histories.

**Layers**.  The map from layers to vectors of render callbacks, and what a
Drawable keeps, which is `manualMode` alone.  One action per member of Drawable;
the constructor lists nothing, because `setAuto()` asks for a `manualMode` that is
still the member's initial false (`drawable.cpp:9-12`).  The copy that the compiler
makes (`CopyDrawable`) is in no layer and keeps the render callback of the
original, which draws that one (`shows`, `drawable.hpp:32`).

**Frame**.  `render()` from callback to callback: `at` is where it is, `rest` and
`layer` its loop, `bound` the buffer that OpenGL draws into and `layerbuffer` the
layers whose pictures the layer buffer holds.  `StartWalk`, `Turn`, `DrawReturns`,
`EndWalk` are `renderLayer()`.  In every callback and in `draw()` the program may
change any Drawable (`ChangesLayers`), skip and push.  The place
"render" of module `App` is one whole frame of this one; of an App it reads and
writes the two flags and the buffers only.

## 4. Runs, bounds and fairness

Twelve runs; every property of a passing run has a mutant of the code that
violates it.

| Run | Question | Instance |
|---|---|---|
| `audio_sounds` | Do Sounds keep to their own channels, and their waits? | 2 Sounds, 2 channels, waits to 2 cycles |
| `audio_music` | Are `current` and `queued` right, and is the queue served? | 2 Musics, 1 Sound, 1 channel |
| `sound_lost` | Can a Sound be silenced for good? (yes) | 1 Sound |
| `atomic_cell` | Is the Atomic atomic, and is its lock taken? | 2 threads, 3 values, increment, read, assign |
| `mutex_owner` | Who owns the Mutex, and does it exclude and come free? | 3 threads |
| `app_life` | Lifecycle, close requests, fairness of the loop | 2 Apps, 2 queued events |
| `pointer_counts` | Are counts exact and deletions single? | 3 strong, 2 weak, 2 addresses |
| `timer_registry` | Registry, walk, firings and progress | 2 Timers, delays 0 and 1, loops -1, 0, 1, 4 calls |
| `tween_way` | Where is the target, how often does it complete? | 0, 1 and 3 steps, 4 calls |
| `chain_order` | Do stages complete in order, and the chain in the end? | 1, 2 and 3 stages, 4 calls |
| `archive_files` | Does an attached archive serve what it should, and the folder the rest? | 3 archives, the third with a directory that is no object or not there, 9 paths |
| `layer_draw` | Is each layer shown once, and is no dead Drawable listed? | 2 Drawables, 2 layers, 7 calls |

*What they show.*  `audio_sounds`: for all the ways a remembered channel goes
stale (`ChannelOwned`, `NoCrossTalk`), the comparison of chunks in `active()` is
enough.  `WaitRespected` counts the cycles from the call, through destruction and
a closed device; `WaitRunsOut` is the half of the promise that does hold while
the chunk sounds, and `sound_lost` refutes the other half.  `audio_music`: the
comparison with `current` in `onDestroy` cannot hit another music, though
`current` is assigned before `Mix_PlayMusic` has played anything; the queue
never names an unloaded Music except after a destroy on a closed device
(`music.cpp:107-117` skips everything then).  `atomic_cell`: no lost update.
`mutex_owner`: the recorded owner always has its release to come; exclusion
holds as long as no `capture()` overlaps another or a `release()`.
`app_life`: all paths through constructor failure, early close, throw and
second run.  `pointer_counts`: exact counting as long as no stale address is
copied or bound anew, and `NoDoubleDelete` even when it is bound anew; a pointer
that says its object exists is right, unless it is a weak one to an object that the
program deleted itself (`ExistsIsAlive`).  `timer_registry`: the registry
invariant survives everything, and memory is only misread in a walk whose signal
meddled.  `chain_order`: order and completeness for every call, also from inside
signals.  `archive_files`: after any number of failed attachments the next one
that succeeds is read as itself (`AttachedIsWhole`, `ArchiveServes`); a path whose
folders exist gives the file it names, through `..` as well (`ServesAskedFile`);
and the folder is out of reach only behind what throws no `FileLoadError`: a
directory that is no JSON object, an address that is not base64, bytes that cannot
be read because their size cannot be allocated or their encryption is unknown
(`FolderBacks`).  `layer_draw`: in whatever order layers are skipped,
pushed and shared, none is shown twice or lost (`ShownOnce`), except what waits
when the program pushes where `app.hpp:143` forbids it, which `forsaken` counts
exactly; and the odd bookkeeping of `manualMode` never leaves a listed Drawable
that would not take itself out (`ListedAreAutomatic`).  Memory is only misread
in a walk whose `draw()` changed the layer, or over a layer that lists a copy of a
Drawable that is gone (`HarmOnlyByDraws`).

*Bounds.*  Two of everything that competes is enough for an object to meet
another's leftovers; three threads let one overtake two that overlap; three
strong pointers let two share while a third copies.  Two addresses allow one to
be used again while the other lives.  `MaxCalls` bounds the program's calls in
`Timer`, `Tween` and `TweenChain`; four are enough to make, switch, destroy and
replace the one under the walk (the mutants and the refuted statements of
section 6 all need at most four).  In `Frame` seven calls are enough for a frame
in which both layers hold a Drawable, one `draw()` lists the other and destroys
itself, and a second frame follows.  Of the three archives of `archive_files` one
has a folder and a corrupt entry, one an entry of each harmful kind, some under names
that the first has too, and the third has a directory that is no object, or does not
exist before it is packed; the paths
lead to a file, a folder, an unknown folder, back through `..`, through a file
that the code takes for a folder, and out of the archive.  `MaxEvents` bounds SDL's queue: two, so that
the quit event can lie before and behind another.  `MaxCycles` bounds the
argument of `playOnceAndWait`.  `UsizeMod` stands for 2^64; 16 is larger than
any step count of the instance, so only the wrap below zero occurs, as in the
code.  The vector of `Timer` starts without capacity and doubles.

*Fairness.*
`Audio`: `updateAll` is reached again and again unless the main thread is
blocked in `play()` (strong, since the blocking comes and goes), a fade-out
that is not paused completes, and a blocked call returns then.
`Atomic`: a thread inside an operation keeps running; the operation need not.
`Mutex`: the same, and a holder releases in the end: the ScopeLock's scope ends
(strong, since the holder may call other members in between).
`App`: `run` goes on, callbacks return and time passes.
`Timer`, `TweenChain`: the main loop keeps calling `process()` and signals
return.  Nothing else is assumed: mixer steps other than a fade's end, events,
throws and all program calls may never happen.

*Deadlock* is checked in `audio_sounds`, `mutex_owner`, `app_life` and
`archive_files`.  It is
off in `audio_music`, because the system does stop there: a music that fades out
while paused never ends, `play()` waits for it inside `Mix_PlayMusic`, and
the only thread that could resume it is the one that waits; in
`atomic_cell`, because a throwing operation leaves the lock taken; in
`layer_draw`, because the program may come to harm; and in the
others because the bound on calls is reached or every object is gone.

## 5. Proofs

| Module | Theorems |
|---|---|
| `AudioProofs` | `TypeCorrect`, `Invariance`, `ChannelsOwned`, `StreamsOwned`, `QueuesValid`, `WaitsRespected`, `NoSoundCrossesAnother`, `DestroyingKeepsOthers` |
| `ThreadedProofs` | of Atomic `AtomicTypeCorrect`, `AtomicInvariance`, `AtomicExclusion`, `AtomicRefinement`; of Mutex `TypeCorrect`, `Invariance`, `OwnersRelease`, `OwnersNeverWait`, `ExcludesWhenSerialised` |
| `AppProofs` | of App `TypeCorrect`, `Invariance`, `OneAppLives`, `RunInService`, `CloseRequestsStick`; of Frame `RenderTypeCorrect`, `RenderInvariance`, `LayersAreShownOnce`, `SkipsArePerLayer`, `LayersListAutomatic`, `HarmComesFromDraws` |
| `PointerProofs` | `TypeCorrect`, `Invariance`, `TableCounts`, `NothingEverLeaks`, `ExistingIsAlive`, `NeverDeletedTwice` |
| `VectorProofs` | lemmas on `Nth`, `Push` and `Erase` |
| `TimerProofs` | `TypeCorrect`, `Invariance`, `RegistryIsExact`, `QuietWalksYieldAll`, `HarmComesFromSignals`, `FiringsAreAsked` |
| `TweenProofs` | of Tween `TypeCorrect`, `Invariance`, `TweenKeepsToTheWay`, `TweenCompletesOnce`; of TweenChain `ChainTypeCorrect`, `ChainInvariance`, `StagesFireInOrder`, `ChainCompletesLast` |
| `FileProofs` | `Invariance`, `AttachedAreWhole`, `OpenIsAlwaysClean`, `FolderAlwaysBacks`, `ListingsAreReadable`, `AskedFileIsServed`, `GoodEntryIsServed` |

They hold for all values of the constants that satisfy the ASSUMEs of the modules:
None is no object (nor, in `Timer` and `Layers`, a Timer's fields or a vector),
sets of objects are disjoint, numbers are naturals, loop counts are naturals or -1,
lists of stages are not empty, paths are finite sequences, and the archives that are
there at the start have listings that a folder tree can have (no file is a folder
of another).  Nothing is assumed about sizes, but that the strong pointers and
the layers are finitely many.  Two components of one proof module have their
definitions apart by name (`RenderSpec`, `AtomicSpec`, `ChainSpec` beside `Spec`);
no theorem is about both at once.

*Audio.*  The invariant `IInv` adds to the properties what they lean on.
`ChannelOwned` alone is not inductive: a Sound destroyed on a closed device does
nothing to the mixer, so one must know that a closed device plays nothing
(`ClosedSilent`).  `StreamOwned` needs that only a playing music fades
(`FadingPlays`) and that the Music a blocked `play()` waits for stays loaded and
current (`WaitingLoaded`), since it will start without looking again.
`WaitRespected` needs `OwedCovered`: a Sound's `delay` is never below what it
owes; it can be above, which is the defect of `sound_lost`.

*Atomic.*  Invariant: a thread between capture and release has the flag set and
is alone, and its copy is the current value from Load on.  With it every
concrete step is a step of `AtomicCell` or a stutter, which gives `Refinement`
(safety; the lock's progress is TLC's).

*Mutex.*  `OwnerReleases` and `OwnerNeverWaits` become inductive with
`ReclaimHolds`: a thread that `tryCapture()` found to be the owner still holds
the mutex when it writes itself again.  For exclusion the invariant `Serialised`
says that, until something overlaps, the thread inside `capture()` is alone,
holders are the recorded owner, a thread about to claim meets no other holder,
and one about to clear is the owner.

*App.*  `MainAppLives` is inductive alone.  `InService` needs that the runner
lives and that an App not yet shut down has its services whether it runs or not.

*Tween.*  `NeverBeyondUnderWay` is inductive, since the only step that moves the
target beyond the end is the one that completes; `CompletesOnce` holds because
what is owed is at any time the one start that is not over (`OneStart`).

*TweenChain.*  `StagesInOrder` is strengthened by `InStep`: how many stages have
fired, in terms of `current` and of whether yield is at its signal; as long as
the chain is not steered, `stage` is `current`.

*Pointer.*  The count of an address is the cardinality of its holders, so each
step needs one holder more or less (`OneMore`, `OneLess`, from the library's
theorems on finite sets).  `CountsExact` is not inductive: a pointer whose object
another one destroyed still has the address.  `HeapOK` says that what any other
pointer refers to is allocated, and owned if it is a strong one; `KnownIsAlive` that
what the table counts is owned, and what it lists is allocated or `unheard`;
`StaleIsDead` that stale pointers refer to no object that another pointer owns or
refers to, until an address is used again.

*Vector.*  `Erase` is `std::erase_if` on the block, so that what it leaves is said
slot by slot: the kept positions are ranked by counting those before them
(`NthPosition`: the rank is a bijection, by the cardinality of finite sets), and
with that `Pushed` and `Erased` give what a vector lists afterwards, that nothing
is listed twice, and that the slots a walk has yet to read are unchanged or moved.

*Timer.*  `RegisteredOnce` counts slots; the invariant `Registered` says the same
with sets, that the registry lists the automatic Timers and none of them twice,
and `RegistryIsExact` goes from the one to the other by cardinality.
`QuietWalkYieldsAll` speaks of the end of a walk; on the way `Yielded` says that as
long as nothing meddled a Timer was visited if, and only if, its slot is one that the walk
has passed, counting the one whose signal is running.  `HarmOnlyByMeddling` needs
that a walk left alone stays within the registry it began with and that the Timer
that fires is alive (`WalkOK`).  `FiresAsAsked` is a bound on a history, which no
step keeps by itself: `OwedOK` ties it to what the Timer's fields still ask for,
less the firing that `yield()` has not counted yet, because it changes `loopCount`
only when the signal has returned (`event.hpp:185-191`).

*File.*  `AttachedIsWhole` needs that archives on the disk are finished or just
begun (`DiskOK`) and that only an attachment reopens the static buffer; that an
open archive has no kept exception and a clean stream (`OpenIsClean`) is what
`FolderBacks` and the reads lean on.  The paths and the folder are any sets.
`ServesAskedFile` compares two ways through a path of any length: what the code's
lookup does, turn by turn (`Entered`), and what the path means (`Normal`, which
resolves `..` by going up).  They agree as long as the folders exist
(`NamedIsLocated`), by induction on the turn.  The library's induction theorems
cannot be used here, because they take an operator; `NumberInduction` is induction for a *set* of
numbers, which rests on `LeastNumber` and that on the library's fact that strict
inclusion of finite sets is well-founded.
`ListingsOK` says that what is looked up in is a tree, and that "no file" is not
in it.

*Frame.*  `ShownOnce` speaks of the end of a frame; on the way there `Pending` is
what was drawn and not shown, and between layers it is either empty, when
`pushToFrame` is set, or just what the bound layer buffer holds
(`PendingIsHeld`).  Within a layer the flag means nothing, and the buffer has
been cleared if it had to be (`PendingIsDrawnOver`).  `SkipIsPerLayer` needs that
the flag is the answer to the question at hand (`SkipFollowed`).
`ListedAreAutomatic` and `HarmOnlyByDraws` are an argument of their own (`WalkInv`),
over the members of Drawable: what a layer lists is a Drawable that is automatic,
each of them ends in one of the lemmas of `VectorProofs` (`LayerSteps`,
`RemovedFacts`), and a walk that no `draw()` disturbs stays in the layer that it
began with.

*Model-checked only.*  The liveness properties, for which the prover has no rules
(ENABLED, fairness): `WaitRunsOut` and `QueuedIsServed` of `Audio`, `LockIsTaken` of
`Atomic`, `FreedForWaiters` of `Mutex`, `CloseEndsRun` and `QuitIsHeard` of `App`,
`RunningFires` of `Timer`, `ActiveEnds` of `TweenChain`.  Proved without a run: the
type invariants, `Atomic!MutualExclusion` and `Mutex!OwnerNeverWaits`, which the
other properties of their components go beyond, and the `IInv`s.  Each new
inductive invariant was an invariant of its run before it was proved.  No module
uses RECURSIVE: `Entered` and `Normal` are recursive functions.

## 6. What the code does not keep

One disagreement has a run that exhibits it: `sound_lost`.  `Sound::onUpdate`
returns before counting `delay` down when the Sound is not active
(`sound.cpp:140`), and every play method refuses while `delay > 0`: a chunk
shorter than its wait leaves the Sound silent for good.  `Issues.txt:12` reports
it.

Four more have a configuration of their own, which TLC refutes at once (section
8 says how to run one):

* `MCTimerPlay.cfg`, `Timer!PlayUnpauses` - `Timer::play()` pauses and `pause()`
  plays (`event.hpp:222-231`; `event.hpp:221` "Unpauses the timer.").
* `MCTweenChainHalt.cfg`, `TweenChain!HaltHalts` - a `halt()` from a stage's
  `onCompleted` is overwritten when the signal returns (`tween.hpp:344-346`;
  `tween.hpp:450` "Halts the tween's execution.").
* `MCFilePack.cfg`, `Archive!PackedIsListed` - `pack()` declares
  `JSONData tree = dir["tree"]`, a copy (`archive.cpp:277`), fills it, and writes
  `dir`, whose tree is null: a packed archive lists no file
  (`tools/new/archive/FILEFORMAT_V1.txt:61` "The "tree" object contains the
  directory tree structure, where the folders are JSON objects, and the files
  contain base64-encoded adresses"; `tools/legacy/archive/arcfun.hpp` has the same
  line with a reference).  This is why the archives that `archive_files` starts
  with come from elsewhere: the old tool writes the same format.
* `Layers!AutomaticIsListed`, in `MCFrame.cfg` - `drawable.hpp:42` says of
  `manualMode` "Whether manually rendering or not.", but a Drawable that is made
  automatic is in no layer (`drawable.cpp:10`, where `setAuto()` asks for a
  `manualMode` not yet set) until it is given one.

The modules state further sentences of the documentation, under the heading
*Statements of the documentation that the code does not keep*.  No run lists
them; add one to the component's configuration and TLC refutes it:

| Statement | Doc | Code |
|---|---|---|
| `App!NullWhenNoApp` | `app.hpp:61` "Returns null if no app is open." | `app.cpp:52`: `mainApp` is assigned before anything opens; a throw leaves it |
| `App!RunningIsRunning` | `app.hpp:70` "Returns whether the application is currently running." | `app.cpp:301`: true for every state but closed, also before `run` and after an exception |
| `App!ToldIsPressed` | `app.hpp:46` "Returns whether the user pressed the close button." | `app.cpp:519`: the answer of `SDL_PollEvent` is not looked at, an unwritten event is read |
| `Timer!YieldsAll` | `event.hpp:57` "Yields all available non-manual periodic events." | `event.hpp:61`: entries move down under the walk and one is skipped |
| `Tween!CompletesAtTarget` | `tween.hpp:90` "The tween's target value." | `tween.hpp:135`: interpolates at `stop + 1` as it completes |
| `Tween!SetStepSets` | `tween.hpp:207` "Sets the current tween step." | `tween.hpp:210`: yields afterwards, one step further |
| `TweenChain!ConcludesAtEnd` | `tween.hpp:457` "sets it to its end value" | `tween.hpp:459`: takes the first stage's |
| `TweenChain!SetStepStays` | `tween.hpp:392` "Sets the current tween step." | `tween.hpp:394`: `setStep(0)` wraps and completes the stage |

Seen while modelling files and rendering, and part of the models, though no
document says otherwise: a name that a folder of an archive does not have is passed
over, so that `data/mods/a` may give the `a` of the top folder
(`archive.cpp:711-718`); an attachment that fails leaves the state at loading, and
no other is accepted until `detachArchive()` (`get.cpp:77`); detaching keeps the
exception, which `load...FromArchive()` goes on throwing (`get.cpp:117`); one entry
beyond the end of the archive sets the failbit, and the folder has to serve
everything until the next attachment (`archive.cpp:682`); an address that is not
base64 or a directory that is no object throws past every handler, so that the folder
is not asked at all (`archive.cpp:724`, `archive.cpp:654`); the copy of a Drawable
draws the original (`drawable.hpp:32`); a weak pointer bound to an object of the
program's never learns that it was deleted (`referential.hpp:59`).  Outside the models:
`unpack()` closes the buffer that it then reads (`archive.cpp:744`),
directories whose names differ after a dot collide (`archive.cpp:207`), and
`DrawableObject` passes its two arguments to `Drawable` in the other order
(`drawable.cpp:59`).

## 7. What is not modelled

Inside the modelled components: volumes, fade lengths and loop counts of
sources; a `run()` called inside a callback; a `process()` or `yield()` called
inside a signal, and `setStep`/`setStage` inside a stage's signal; easings other
than the linear one; what is drawn into a picture, copies of the screen, clearing
the depth buffer alone and the build option `MAKAILIB_DO_NOT_USE_BUFFERS`;
compression, encryption, archives of the old format and of a single file,
a file's address used as the last name of its own path, and `unpack()`; the build option that swaps cycle and frame; a null target
of a Tween and an empty list of stages (undefined at once); a `Timer` moved to
another thread.  The pointer table is used from one thread, since
nothing in the compiled engine uses it from another.  An operation of an Atomic
that uses the same Atomic spins for ever by construction and is left out, as is
the destructor that aborts (the program ends there).

Whole components.  *Tasks, promises, timekeeper*: templates that nothing
instantiates, and that cannot be as they stand (`asynchronous.hpp:235` passes a
weak pointer to an Atomic to a constructor that takes one to a Nullable,
`asynchronous.hpp:143`; `Promise<void>` and `Waiter` keep their operations
private), so that there is no program to be faithful to.  *Notifier*: its loops
over lists of signals have the hazards of the registry's, which `Timer` shows;
what `unsubscribe()` removes hangs on comparing copies of `std::function`.
*Renderable, shaders, textures*: one thread sets and tests plain flags, the shared
instances are smart pointers, and the rest is OpenGL's.  *Input*: one counter per
button with one actor.  *Collision and entities*: geometry on floats decides
everything.  Further: `tasking.hpp` and
`pooling.hpp`, which nothing compiled includes; conversions (JSON, SLF, text);
floating-point geometry, easing and splines; the new CTL, a rewrite used by its
own tests only (its Atomic is the algorithm of module `Atomic`); the old game
data, not compiled; vendored libraries, modelled only from their use.

## 8. Running

`tlc -config MCApp.cfg MCApp` checks a run (module and configuration are named in
`PROJECT.json`), `tlapm AppProofs.tla` a proof module.  The configurations that no
run of `PROJECT.json` names (`MCTimerPlay.cfg`, `MCTweenChainHalt.cfg`,
`MCFilePack.cfg`) end with a counterexample.  The longest runs, `archive_files` and
`layer_draw`, explore about a million states each and take one to two minutes; all
proof modules together take about three.
