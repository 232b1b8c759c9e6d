# TLA+ models of libchiaki (Rust bindings)

This directory holds TLA+ specifications of the `libchiaki` crate in `../src`,
the TLC configurations that check them and the TLAPS proofs about them.

The crate wraps a C library that runs its own threads and calls back into Rust.
Almost every line of it is a forwarded call; what can really go wrong is *who
owns which memory, and when it goes, while C threads run*. That is what is
modelled first: closures behind raw `user` pointers, raw C objects behind Rust
values, strings and handles that change owner at the language border. The one
other place where steps can be cut off in the middle is the installation of the
C library, so that is modelled next.

## The system

| Component | State it keeps | Operations | What makes it correct |
|---|---|---|---|
| `util.rs`: `ErasedCallback` | a heap box `Mutex<F>` behind a thin pointer | `new`, `Drop` | allocated before C gets the pointer, released once, when no C thread is inside |
| `session.rs`: `Session` | the raw `ChiakiSession`, five callback fields, `started`, `joined`, the `ConnectInfo` | `new`, `start`, `stop`, `join`, five `set_*`, 10 forwarded controls, `request_idr`, three `video_receiver_*`, `Drop` | session and closures outlive the C threads; start once; join's answers mean what they say; Drop ends |
| `session.rs`: trampolines | the Mutex of each box | called by C threads at any time | one call of a closure at a time; a panic stays inside and silences nothing |
| `discovery.rs`: `DiscoveryServiceOptions`, `DiscoveryService` | options with a raw `send_host` and its `CString`, the raw service, a closure | builder setters, `new`, `Drop`; a C thread pings and calls back | raw pointer and owner agree; a failure releases everything once; the thread ends before its memory goes |
| `discovery.rs`: `Discovery`, `DiscoveryThread` | raw socket object, raw thread object, a closure | `new`, `send`, `wakeup`, `start`, `stop`, `Drop` | the thread ends before closure and thread object go |
| `regist.rs`: `RegistInfo`, `Regist` | raw info with two strings, raw regist, a closure | setters, `start`, `stop`, `Drop`; C reports one final event | as above; a null host in a success becomes a failure |
| `holepunch.rs`, `connect.rs`: `HolepunchSession`, `ConnectInfo` | a raw handle that Rust or C owns; a struct of raw pointers with their owners | `open`, calls on the handle, `set_holepunch_session`, setters, `Drop` | a handle is released exactly once, and is never used after |
| `log.rs`: `Log`, `LogSniffer` | the raw log and its closure; an unlocked C buffer | `new`, `set_level`, `buffer`, `Drop` | outlives every object that logs; the buffer is not read while it is written |
| `opus.rs`: encoder, decoder | raw codec with pointers to a Log and a Session; a pair of closures | `header`, `frame`, `set_cb`, `sink`, `Drop` | dropped in the order C needs; frame lengths checked |
| `feedback.rs`, `common.rs`, `AudioHeader` | buffers handed to C | `format`, `base64_*`, `load`, `save` | buffers are large enough for every input |
| `controller.rs`, `orientation.rs`, `error.rs`, `sock.rs`, `ffi.rs`, `lib.rs` | plain values | one pure C call each | nothing to interleave |
| `build.rs`, `build-libchiaki.sh` | a source checkout, a build tree, a prefix | clone or checkout, build, collect, verify; the checks of `chiaki_prefix` | a prefix that cargo accepts is whole and of one version |

Interactions: the application calls methods (`&mut self`, one at a time); they
call C; C threads call trampolines with the raw pointers they were given, at any
time between `start` and the end of the threads, `stop` and `join` included;
Rust's drop order releases fields after `Drop::drop`.

Hard behaviour: a callback in progress while its field is replaced or its owner
dropped; `start`/`join`/`Drop` in every order and after failures; a Session that
is joined or dropped by its own callback; an object whose ownership moves to C in
the middle of a constructor; lifetimes that are erased on the way into C; values next to a Session (codec, log
sniffer) whose pointers its threads use; buffers of which C is not told the size. The
`hazards` of `PROJECT.json` name each of them at its line.

## Modules

| Module | Stands for |
|---|---|
| `CallbackOwner`, `CallbackOwnerProofs` | abstract specification: what `ErasedCallback` promises for a box and the C threads that use it |
| `Session`, `MCSession`, `SessionProofs` | `session.rs`: construction, callbacks, start / stop / join / Drop, C threads and trampolines |
| `DiscoveryService`, `MCDiscoveryService`, `DiscoveryServiceProofs` | `discovery.rs` 305-451: options builder, `new`, service thread, Drop |
| `SessionLife` | abstract specification: the life of a Session as other values see it; every owner of a C thread has it |
| `SessionClients`, `MCSessionClients`, `SessionClientsProofs` | `opus.rs`, `log.rs` 104-162, `session.rs` 352-394 and 479-520: encoder, decoder, sniffer and the Session calls that reach into its stream, composed with `SessionLife` |
| `Workers`, `MCWorkers`, `WorkersProofs` | `discovery.rs` 145-157, 246-303 and `regist.rs`: `DiscoveryThread`, `RegistInfo` and `Regist` |
| `Buffers`, `MCBuffers`, `BuffersProofs` | `common.rs` 95-122, `feedback.rs` 46-83, `holepunch.rs` 57-63, `discovery.rs` 85-100, `session.rs` 542-572: the buffers handed to C |
| `HandleLife` | abstract specification: the life of one holepunch handle, with the one way to lose it |
| `HandleOwnership`, `MCHandleOwnership`, `HandleOwnershipProofs` | `holepunch.rs`, `connect.rs`, `log.rs`, `session.rs`: the holepunch handle and the Log it writes to |
| `BuildPrefix`, `MCBuildPrefix`, `BuildPrefixProofs` | `build-libchiaki.sh` and `build.rs`: source tree, install prefix, bindings and crate |

Each `MC` module only instantiates its component for TLC; each `Proofs` module
extends its component with theorems. `Session`, `DiscoveryService` and `Workers`
each contain an instance `Owner` of `CallbackOwner`. `Session` also implements
`SessionLife`, which stands for it in `SessionClients`: what is checked there need not
know the steps of start, join and Drop. The proof modules add four refinements: each
worker and the discovery service implement `SessionLife`, the decoder of
`SessionClients` implements `CallbackOwner`, and each handle of `HandleOwnership`
implements `HandleLife`.

Definitions whose comment says *slip* are not part of a model. Each is a
plausible mistake in the definition that follows it; putting it in that
definition's place must make TLC find the property it is paired with (in
`PROJECT.json`) violated.

### Session

`pc` is the API call in progress (all the methods modelled take `&mut self`, so
there is one at a time) and `caller` the thread that runs it: the application's,
or, for `join` and `Drop`, a C thread whose callback can reach the Session. The
rest of the state is the struct's flags and fields (`started`, `joined`,
`held[s]`), the local `holder` of a `set_*`, what C knows (`mem`, `user[s]`,
`stopReq`), the heap (`box[c]`) and the C threads (`at[t]`, `cb[t]`).

* A `set_*` is two steps, because C threads run between them: box the closure
  and register the pointer (`SetCallback`), then assign the field, which drops
  the old box (`FinishSet`). The five setters differ in the slot only. The header
  and the frame closure of an audio sink share one box and one Mutex, so a sink
  is one slot.
* `Start` may fail in C and may be tried again; `JoinEarly`, `JoinBegin` and
  `JoinEnd` are the two early returns, the call and its result.
* `Drop` is one step per C call, then one per field.
* A trampoline is `Emit` (read `user`, make a reference), `Acquire` (lock),
  `Return` (the closure returned or panicked, under `catch_unwind`).
  Parsing of the arguments has no effect on this state and is left out.

External, from how `session.rs` uses it: `chiaki_session_start` creates the
session thread (267), which creates the others and joins them before it ends;
`chiaki_session_join` waits for the session thread and fails when that thread
calls it. After the first access to released memory the model goes on with the
values it has; properties that speak of later states are only checked where such
an access cannot happen.

Two switches describe the application. `AppSetsLate`: it calls `set_*` after
`start` (the documentation, 255, asks it not to). `CallsFromCallback`: a callback
joins or drops the Session.

### DiscoveryService

`options` are the builder's `raw.send_host` pointer, the `CString` in
`_send_host` and `hosts_max`; `str[h]` is the heap string and `twice` the strings
released a second time. `new` is three steps: box the closure; init, which
succeeds or fails; and, since the C thread already runs by then, the assignment
`options._send_host = None` on its own. The other numeric options change no
behaviour the properties see. The trampoline's Mutex has one thread that locks
it, so locking is no step of its own; containment of panics is the same code as
in `session.rs` and is modelled there. Drop from inside the service's own
callback is not modelled.

### SessionLife and SessionClients

`SessionLife` has the five phases a neighbour can tell apart: no Session yet, made,
running, ended with its last thread, released. In `Session` the phase is a function of
the flags, the memory and the threads (`phase`).

In `SessionClients` the application has one Session, encoder, decoder and sniffer;
`call` is the call it is in and `arg` that call's local. What takes several steps in the
code does so here: the three writes of `set_cb` to the fields C reads
(`SetCbFields`) before the old box goes (`SetCbEnd`), the read, the check and the use
of the video receiver, `frame` and `request_idr` while C works, `buffer` while it
reads. The C thread reads a callback and then its user pointer in two steps
(`Fetch`, `Trampoline`). The Session's controls that only forward (`Forward`) change
nothing on the Rust side.

The contract: the encoder is dropped before the Session it is bound to; the
decoder is changed and dropped, and the sniffer read, only when no C thread runs or
will run (`Still`: no Session, not started, joined, or dropped). The borrow checker
gives the rest: a Session borrows its log (`new_with_raw_log` takes a reference), so the
sniffer it logs through outlives it.

External: the C thread, one for all of them, since several in one sniffer are
undefined upstream (`log.rs` 107-109); the stream, which makes and frees the receiver at
any time and has none left when the threads end; the way from the decoder's sink to the Session, for which there is no method.

### Workers

A worker is a `DiscoveryThread` (a `loop` or a `oneshot`) or a `Regist`. They differ
only in who may end them: `stop(self)` of a `DiscoveryThread` consumes the value,
takes the raw object out of it, joins, and the `Drop` that follows finds nothing
(`has`); `Regist::stop` asks and waits for nothing, its Drop asks again and joins in
`fini`. `pc` follows one call from `start` to the release of the closure's box, `at`
is the C thread. A oneshot and a `Regist` end after their one answer by themselves. Before `start` a
`Regist` is a `RegistInfo`: `onlineId` is its raw `psn_online_id`, `owned` the field
`_online_id`, `str` the heap. From `start` on the C thread may read the pointer.

External: a `DiscoveryThread` sees the stop request between two answers; a `Regist`
that is told to stop still reports one event. A worker that is stopped or dropped by
its own closure, the only way its join can fail, is not modelled.

### HandleOwnership

A handle is unopened, owned by a `HolepunchSession`, owned by C, or released. An
info is a `ConnectInfo`, on its own or inside a Session. The borrow checker is
part of the environment: `LogDrop` needs that no Rust value carries a lifetime
on that log. `Session::new` without memory for the session drops the info just
as the application may (`InfoDrop`). Start, stop and join inside the Session's
Drop are `Session`'s business; here Drop is its effect on the handle.

### Buffers

A call is a buffer of `cap` bytes, a whole result of `need` bytes, what C `touched` and
the `size` it reported; then the reply and the bytes the caller gets. Contents are
left out: no property is about them. `EncodeRoom`, `DecodeRoom`, `HeaderFits`,
`NextSize`, `PastLimit` and `Cut` are the arithmetic of the source, each a definition of
its own. External: a C function that is told the size stays within it, and answers
`BUF_TOO_SMALL` when the result does not fit, or, like snprintf, cuts it and reports
what it would have written; the two functions for audio headers touch 14 bytes whatever
the slice has.

### BuildPrefix

One run of the script is `pc` with the cp it is at (`step`) and the files that cp
has not begun with (`todo`). The disk is the rest: what `$SRC` is (`src`, with the
version checked out, `rev`, and of its submodules, `sub`), the version of the build
tree (`built`), and each file of the prefix with the version it is of (`file`,
`from`). `rm` removes and `cp` opens and finishes one file at a time, in any order
within one command; the commands come in the script's order. `Abort` ends a run at
any point with the disk as it is: `set -e` or a signal. (A power cut is more: nothing
here calls fsync, so the disk may have less than was written. It is not modelled.)
The next run may
ask for another version, and the user may replace the source in between.
`cargo` has the versions of the headers that `bindings.rs` was made from (`bind`) and
those in the crate last compiled (`crate`).

Groups of files that one command handles and nobody tells apart are one file:
`remote/*.h`, the four `pb*.h`. The two headers removed again after the copy
(390) count as headers the version does not have; cut off between cp and that rm,
they are of the version being installed, like the rest.

External: a version is a fixed tree, and a build that succeeds is of the tree and
the submodules it finds. git that is killed leaves its lock, and refuses the tree
(`broken`); git that is interrupted leaves files of two versions under the old HEAD
(`dirty`, after `AbortGit`), and goes on with them when it is asked for that HEAD again
(`SourceStaysDirty`): what such a tree and its submodules hold is taken for one more
version, any of `Versions`. A torn
or missing library does not link. cargo comes only between two runs of the script
(nothing locks the prefix, and nobody promises that it may be used meanwhile), and
runs the build script when it has no output of it: environment variables, the only
other reason, stay the same.

## Runs

| Run | Question | Result |
|---|---|---|
| `session_contract` | does an application that respects the documented order get what the crate promises? All safety properties, `CallbackOwner` and `SessionLife` as refinements, Drop and join end | holds |
| `session_any_caller` | what is left when it does not? | ownership, registered pointers, join's Ok, one start and no silenced callback still hold |
| `session_drop_in_callback` | comment in Drop (525-526): the threads have ended when session and closures go | violated: join's error is ignored |
| `discovery_service` | builder, failures, thread against Drop, refinement, Drop ends | holds |
| `discovery_send_host` | `discovery.rs` 343-345, 430-432: the string is C's after `new` | violated: the assignment drops the string |
| `session_clients` | do codec and sniffer stay clear of what C threads build, use and free, under the contract of their modules? (The calls into the stream do not; see `NoReceiverAfterJoin` under Proofs.) | holds |
| `handle_ownership` | is a handle released exactly once on every path, and can it be lost on any but the documented one? | released once; lost from a `ConnectInfo` only |
| `handle_log` | `log.rs` 39-40: lifetimes make a Log outlive its users | violated: injection erases the lifetime |
| `workers` | do thread object, closure and online id outlive the thread, is it joined once, do stop and Drop end, for every mix of the three kinds? | holds |
| `buffers` | does C, or Rust, go past a buffer; is anything that fits refused; does the loop of `format` end? | within bounds; nothing; it does |
| `build_prefix` | can `build.rs` accept a prefix of two versions after runs that were cut off, and does "done" mean whole? | never mixed; done is whole |
| `build_stale_bindings` | `session.rs` 253: a Session has the size the C library gives it | violated: the build script does not watch the prefix |

Each violation is a `findings` entry with the lines it contradicts.

Disagreements met while modelling that have no run of their own:

* `util.rs` 5-6 (a callback box goes only with its owner, after the threads) against a
  `set_*` after `start`, which releases the old box at once (`session.rs` 410, 426, 445,
  462, 476). Nothing enforces "before `start`"; with `AppSetsLate = TRUE` and
  `BoxesOutliveCalls` TLC shows a C thread in a released closure.
* `build-libchiaki.sh` 19-22 and 76 (an unpacked release archive is used as it is)
  against line 252: without `CHIAKI_SKIP_CLONE=1` the script tries to clone into it.
* `build-libchiaki.sh` 242-243 (a run for another version really switches) against a
  `git checkout` of that version that was interrupted: a run for the old version finds HEAD
  where it should be, builds the files of both, and says done. With `dirty` beside `git` in
  `DoneIsComplete` TLC shows it; what is installed is still that one tree and nothing else.
* `opus.rs` 7-8 asks for codec before Session. For the decoder that is too early as
  long as the Session runs: its thread may be in `settings_trampoline` when the box
  goes. The comment at 138-139 ("read only once written") is not true of `set_cb`
  and Drop.
* `opus.rs` 5, 131 and 169 speak of `Session::set_audio_sink_raw`, which does not exist.
  `OpusEncoder::new(&Log)` and `OpusDecoder::new(&Log)` keep the Log's pointer without
  a lifetime (against `log.rs` 39-40).
* `log.rs` 104-106 gives a Session that logs through a sniffer as the typical use; a
  Session logs from several threads, which 107-109 calls undefined.
* `regist.rs` 104 says the thread has ended after `stop()`; `stop` only asks (139-141).
* `discovery.rs` 257 takes `&'a mut Discovery<'a>`, and `Discovery` has a Drop: such a
  borrow lasts as long as the value, so a Discovery given to a thread can only be leaked.
* `DiscoveryPacket::format` returns a packet of 512 bytes or more cut to 512 with the
  NUL of the cut as its last byte (`discovery.rs` 97).
* Named in comments and not there: `tests/layout.rs` (`discovery.rs` 19),
  `docs/SAFETY_REVIEW.md` (`session.rs` 488), the opaque check in `build.rs` (`lib.rs` 7-8).

Bounds. Session: two slots, because a replacement in one must not disturb
another and nothing relates three; three boxes (contract) or four (any caller),
so that a slot can be replaced twice while another is in use; three threads, so
that two ordinary threads and the session thread contend for one Mutex and the
session thread's wait for the others matters. DiscoveryService: three strings,
enough to set the host, replace it and replace it again. HandleOwnership: three
handles, two infos and two logs, enough to overwrite a handle in one info, use
one in another and have a log of each kind. Workers: two, of every pair of kinds, and two online ids, so that one can replace the
other; workers share nothing. SessionClients: three pairs of closures, so that a `set_cb`
can replace the pair that replaced the first, and two frame lengths besides 0. Buffers:
every length up to 17, which is every remainder modulo 3 and 4 several times over, and
the neighbours of 49, 256, 512, half of 1 MiB and 1 MiB; the proofs are for every length. BuildPrefix: two versions, of which the second lacks a header of
the first (so that a leftover would show), and one library beside `libchiaki.a`,
enough for a prefix with one and without the other. No counter is bounded: boxes, strings,
handles and infos are used once each, so the bound on their number bounds the
behaviours. Deadlock is not checked where the system may really stop: in `session_any_caller` and
`session_drop_in_callback` a callback that joins or drops its own Session may wait for
ever, and in `handle_ownership`, `handle_log` and `session_clients` an application that
has dropped everything has nothing left to do.

Fairness. The code of a call in progress and of a closure keeps running (weak
fairness). A thread's loop looks at the stop request between two callbacks; it may
call back in between, so its exit is strongly fair once stop was asked. A thread
that waits for a Mutex gets it in the end (strong fairness on `Acquire`): std's
Mutex does not queue, but another thread would have to overtake the waiter for
ever; with weak fairness only, TLC shows exactly that and Drop does not end. In `Workers`, too, the exit of a loop is
strongly fair, and a `Regist` that was told to stop does report its one event.
In `Buffers` a call that has begun goes on (weak fairness of its steps), and C answers.
`BuildPrefix` has no fairness: any run may be cut off, for ever. `HandleOwnership` and
`SessionClients` state no liveness.
Nothing makes the application call `stop`, `join` or drop anything: a `join`
without a `stop` may block as long as the console stays, and `&mut self` keeps
anyone else from stopping it.

## Proofs

The theorems hold for any number of slots, boxes, threads, strings, handles,
infos, logs, workers, closures, lengths, versions, headers and libraries, from the named assumptions on the constants alone (distinct
"none" values; the session thread is one of the threads; the switches are
Booleans; every version has the headers `build.rs` looks for, and no two files have
the same name).

* `CallbackOwnerProofs`. From the abstract specification alone: no thread is in a box
  that is not allocated, and a released box stays so. Whoever implements it has both.
* `SessionProofs`. `OwnershipInv` says that a box is live exactly when one field or
  one local owns it, that only a running `set_*` has a local, and that C's
  pointer is the newest of the two while the session exists; `OwnedOnce` and
  `RegisteredLive` follow (neither is inductive: they do not say which pointer C
  has, or that there is one local). `FlagsInv` ties the flags to the threads (never
  started: all off; session thread done: all done; joined: started and done) and
  keeps the Mutexes unpoisoned; it gives `JoinOkMeansQuiet`, `ThreadsStartOnce` and
  `NoCallSwallowed`. `StageInv` adds who runs a call and what it has found
  (`CallerInv`: a callback that joins or drops is still in its closure; a call that
  waits has started the threads, and Drop has told them to stop; past the wait, threads
  run only if the session thread itself drops) and what each stage has of the memory
  (`MemoryInv`). All this holds whatever the application does. From it, by what is
  asked of the application:
  - nothing: only a Drop run by the session thread, in a callback, releases the Session
    under a running thread (`EarlyReleaseBySessionThread`), which is the violation of
    `session_drop_in_callback` and the only one; on any other thread that Drop, or a
    join, never returns (`SelfWaitIsForever`);
  - no join or drop in a callback, `set_*` at any time: `SessionOutlivesThreads`, the
    refinement of `SessionLife`, that a waiting join or Drop always has a thread that
    can go on (`WaitIsServed`: no cycle of Mutexes, threads and the call), and that the
    only box ever released under a thread is that of a `set_*` after start
    (`EarlyReleaseByLateSet`);
  - `set_*` before start as well (`Contract`): `HeldInv`, the closure a thread is in
    is a held one, gives `BoxesOutliveCalls` and the refinement of `CallbackOwner`.
* `SessionClientsProofs`. `ClientsInv` says which thread states each phase of the Session
  allows and that a joined or unstarted one has none (`ThreadsInv`), what the three
  fields hold at each step of `set_cb` (`FieldsInv`: all the owned box, or partly the new
  one, and then no thread is there to read them), which boxes are allocated
  (`BoxInv`), and what the encoder may assume. `SinkReachesLive`
  is not inductive without `FieldsInv`: it does not say what the thread will fetch next.
  The refinement of `CallbackOwner` for the decoder's boxes follows from the same facts.
  A `video_receiver_*` call may hand C a receiver that the stream has just freed; no property
  denies it, because nothing in the code prevents it. `ReceiverInv` bounds it
  (`NoReceiverAfterJoin`): it can only happen to a call made before a join that answered Ok.
* `DiscoveryServiceProofs`. `ServiceInv`: the one string allocated is the one the
  options own, plus what each stage of `new` and Drop has. It gives the safety
  properties of the run and both refinements. `Given` follows C's copy of the pointer:
  the violation of `discovery_send_host` is no rare order of steps, it happens to every
  service that is given a `send_host` and to no other (`SendHostAlwaysFreedTwice`).
* `HandleOwnershipProofs`. `ReleasedOnce` alone is not inductive; with
  `HandleOfOne` (a handle in an info is open, C's, and nowhere else) and the fact that
  only a Session that was built has borrowed a log, it is. The same invariant gives
  the refinement of `HandleLife` for each handle: a handle that nobody can release
  any more was lost, for ever, by a ConnectInfo that was dropped or given another handle before a
  Session was built from it (the doc of `set_holepunch_session` names the first), and
  in no other way (`OnlyInfosLose`). `Borrowers` says what the lifetimes do guarantee; it bounds the
  violation of `handle_log` (`OnlyUnborrowedDangle`: a Session whose handle writes to
  the Session's own log is safe).
* `WorkersProofs`. `WorkersInv` has three parts for each worker: what of its memory each
  stage still has, whether its thread may still run there (after the join: never), and
  how many joins there were. Without the last two `WorkerOutlivesThread` is not
  inductive: the release of the raw object is safe only because a join came before.
  The refinement of `CallbackOwner` follows from the same facts.
  So does that of `SessionLife`, for each worker. With `Asked` (who waits has told the
  thread to stop) no stop and no Drop waits for a thread that goes on for ever.
  `OnlineIdOutlivesThread` needs that the info's pointer and field agree at every stage.
* `BuffersProofs`. `BuffersInv` relates, at each step of a call, `need`, `cap` and what C has
  touched; the rooms for base64 are integer arithmetic left to the solver, and the limit
  of `format` rests on its sizes staying below the limit while they double.
  `Measure`, the steps left with the room still to be doubled into, is a natural number
  that every step of a call lowers: the loop of `format` cannot go on for ever.
* `BuildPrefixProofs`. `PrefixInv` says that `libchiaki.a` is the witness of a prefix:
  it loses its version before any file gets a new one and gets its version in the last
  cp (`LibIsWitness`), which needs what the script knows of its source at each stage
  (`SourceInv`: checkout, submodules and build tree are of the version wanted) and of
  the prefix (`CopyInv`: the groups copied so far are whole, leftovers are gone).
  `AcceptedIsCoherent` follows because every prefix that is accepted has the witness.
  An accepted prefix may lack libraries (that fails when it is linked); it never mixes.
  `CargoInv` carries this into the crate: its bindings are of one version and so are its
  libraries. The violation of `build_stale_bindings` is therefore a change of version
  between the two, and with one version it cannot happen (`OneVersionAgrees`).

Every invariant, action property and refinement of the passing runs is proved, type
correctness included. What the proof modules state beyond the runs (the refinements
named under Modules, what bounds each violation, the waits) was tried on the small
instances of the runs first.

Only model-checked: the liveness properties (`DropTerminates`, `StoppedJoinReturns`,
`CallReturns`) and the violations. Liveness rests on fairness, and so on ENABLED, which
the prover cannot expand. What is proved is the part that is the code's doing: a
wait is only ever for a thread that can go on (`SessionProofs`), or has been told to stop
or is on its way out (`WorkersProofs`, `DiscoveryServiceProofs`), and a call of `Buffers`
comes nearer to its end with each step; the rest is the fairness assumed.

## Plan

Done: the modules above, closures and threads first, because all other owners of a C
thread repeat that pattern. What could still be added:

1. `ConnectInfo` and the numeric options as the input of `Session::new`, when a property
   needs them (today nothing does: C copies them once).
2. The link strategy of `build.rs` (`link_platform_libs`): which libraries are static for
   each value of `LIBCHIAKI_STATIC_LIBS`, as an operator against a reference definition.
3. A worker that is stopped by its own closure, as `Session` has it.

## Not modelled

* `controller.rs`, `orientation.rs`, `error.rs`, `sock.rs`, the pure functions of
  `common.rs` and the string conversions: one call each on a value they own.
* `parse_event`, `parse_registered_host`, `parse_discovery_host`,
  `holepunch_list_devices`: copies field by field.
* The setters of numbers and flags in the builders, and the calls on an open holepunch
  handle: they change no ownership and nothing reads them back.
* The inside of the C library: what `request_idr` locks, what a receiver freed during a
  call does, how many threads write into one sniffer. The model goes as far as the
  Rust code decides it.
* bindgen options and link flags: output without state.
* Time: how often a service pings, how long a join takes.
