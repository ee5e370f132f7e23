# TLA+ specifications of tinyalsa

tinyalsa is a small C library between audio clients and the ALSA kernel
drivers: PCM streams (`src/src/pcm.c`) and mixer controls (`src/src/mixer.c`),
each over a hardware backend or a plugin (`pcm_plugin.c`, `mixer_plugin.c`),
and a handful of command line tools. These modules specify the parts whose
state lives on both sides of a boundary (a ring shared with the hardware, a
counter shared with plugin threads, a kernel that changes state by itself),
and the parts whose failures are hard to provoke (every allocation and call of
a backend may fail). TLC checks them on small instances, TLAPS proves the main
invariants.

## Inventory

| Component | State it keeps | Operations | What it talks to | What is hard | Correct when |
|---|---|---|---|---|---|
| mmapped PCM ring (`pcm.c` 1250-1383) | `hw_ptr`, `appl_ptr` (both modulo `boundary`), the ring | `pcm_mmap_avail`, `pcm_mmap_begin`, `pcm_mmap_commit`, `pcm_mmap_transfer_areas` | the hardware, which moves `hw_ptr` at any time | two wrapping pointers read at different moments; regions split at the end of the mapping; xruns in the middle of a copy | it is a lossless queue of `buffer_size` frames until an xrun; nothing outside the region handed out is touched |
| PCM transfer calls (`pcm.c` 600-628, 1142-1248, 1450-1735) | `fd`, `flags`, status/control copies, `xruns`; the kernel's stream state | `pcm_writei`, `pcm_readi`, `pcm_prepare`, `pcm_start`, `pcm_wait` | kernel ioctls, `poll`, other threads, linked streams | stale status, short counts that drop `errno`, restart after an xrun, waiting without a timeout, signals | a call returns, reports exactly the frames it moved, counts each xrun once and brings a broken stream back |
| PCM lifecycle (`pcm.c` 432-539, 630-760, 977-1134, 1158-1173) | file descriptor or plugin handle, mapped buffer and status, configuration, `snd_node` | `pcm_open`, `pcm_close`, `pcm_set_config`, `pcm_params_get`, `pcm_link`, `pcm_unlink` | `pcm_hw.c`, `pcm_plugin.c`, `mmap` | a failure at every step; a configuration applied twice | everything acquired is released once; a failed call leaves a handle that says so |
| queries of the pointer (`pcm.c` 1405-1449; `pcm_avail_update`, `pcm_get_delay`) | the fetched or mapped status | `pcm_get_htimestamp`, `pcm_mmap_get_hw_ptr` | the hardware, which moves between any two reads | a pointer and a time stamp read one after the other; a loop until two reads agree | pointer and stamp belong together, and the loop ends |
| hardware parameters (`pcm.c` 110-300, 541-598, 697-960; `interval.h`; `pcm_plugin.c` 236-450) | masks and intervals | `param_*`, `pcm_params_*`, the wrapper's refinement and selection, format and byte conversions | none (pure) | empty sets nobody notices, 32-bit products, values that follow from each other | what `pcm_params_get` reports is what `pcm_open` grants, and client and plugin mean the same frames |
| PCM plugin wrapper (`pcm_plugin.c`) | plugin state OPEN..RUNNING, the node's limits | `hw_params`, `sw_params`, `prepare`, `start`, `drop`, `drain`, `sync_ptr`, transfers | the plugin library, the card definition library | a second state machine under calls written for the kernel's; refusals that set no `errno` | nothing reaches a plugin that was not set up; calls end whatever the plugin answers |
| mixer events (`mixer.c` 454-629; `mixer_plugin.c` 140-214, 351-372) | `event_cnt` per group, the plugin's `event_cnt` and `eventfd`, `subscribed` | `mixer_subscribe_events`, `mixer_wait_event`, `mixer_read_event`, `mixer_consume_event`, the notifier callback, close | plugin threads, the control device, `poll` | a counter and a semaphore updated at different times; callbacks after unsubscribe; close against callbacks | poll is unblocked exactly while events are unread; no read or unsubscribe blocks for good |
| mixer control groups (`mixer.c` 124-452, 631-800) | two arrays of controls, `total_count` | `mixer_open`, `mixer_close`, `add_controls`, `mixer_add_new_ctls`, lookups | `mixer_hw.c`, `mixer_plugin.c` | partial failures; controls that appear later; ids over two groups | ids are dense and stable, each names one control |
| mixer control values (`mixer.c` 800-1398) | cached info and enum names; the value itself is the driver's | get/set by index, array, percent, enum | element read/write ioctls | read-modify-write; integer percent; stale caches | a set changes one value and reads back |
| plugin controls (`mixer_plugin.c` 68-138, 216-345) | `num_controls`, the control table | element list, info, read, write, TLV | the plugin | list offset; enum item bounds | list and info agree with the table |
| `tinyplay`, `tinycap` | file and stream positions, `close` flag | play and capture loops | the transfer calls | short writes, failed `fwrite`s, signals at any time | what they say they moved is what the stream moved; the whole file is played; they end |
| `tinymix`, `tinypcminfo`, `tinywavinfo`, `optparse` | none between calls | argument parsing and printing | the library | nothing concurrent or persistent | - |
| card definition glue (`snd_card_plugin.c`) and sample plugins | node handles; the sample mixer plugin's event list | open, getters, close | a `dlopen`ed parser | node lifetimes | every node is closed once |

`PROJECT.json` lists the same components with their status, and under
`hazards` the places in the code where these difficulties bite, with the
properties that guard each of them.

## Modules

    PcmPointers            ring pointer arithmetic, as operators
      PcmRing              ring, application and hardware
        PcmRingProperties  what must hold of it
          MCPcmRing        TLC; refines FrameQueue
          PcmRing_proofs   TLAPS
            PcmRingQueue_proofs TLAPS; extends MCPcmRing too
    FrameQueue             abstract: a bounded queue of frames, broken by xruns
    PcmTransfer            pcm_writei and pcm_readi against a kernel stream
      PcmTransferProperties
        MCPcmTransfer      the streams to check, TLC
        PcmTransfer_proofs TLAPS
      PcmQueries           where the hardware is, and when it was there
        PcmClients         tinyplay, tinycap and any other client on top
          PcmClientsProperties
            MCPcmClients   TLC; extends MCPcmTransfer too
            PcmClients_proofs TLAPS; extends PcmTransfer_proofs too
    HwParams               masks, intervals, refinement, selection: operators
      PcmPlugin            transfer and control calls over the plugin wrapper
        PcmPluginProperties
          MCPcmPlugin      TLC
          PcmPlugin_proofs TLAPS
    PcmLifecycle           open, configure, close, with failures at every step
      PcmLifecycleProperties
        MCPcmLifecycle     TLC
        PcmLifecycle_proofs TLAPS
    MixerEvents            subscribe, wait, read, notify, close
      MixerEventsProperties
        MCMixerEvents      TLC
        MixerEvents_proofs TLAPS
    MixerGroups            a mixer handle over two backends, and the lookups
      MixerValues          two clients that set and read values
        MixerProperties
          MCMixer          TLC
          Mixer_proofs     TLAPS

Definitions carry the C names where there is one. Names ending in a suffix
after an underscore (`BeginFrames_NoAvail`, `CountXrun_Never`, ...) are not
part of any specification: each is a definition as a plausible bug would have
it, to see that the properties notice (`PROJECT.json`, `mutants`).

### PcmRing

State: `hw_ptr` and `appl_ptr` as in `mmap_status` and `mmap_control`, the
kernel's stream `state`, the `ring` (which frame each slot holds), the caller's
buffer, the locals of `pcm_mmap_transfer_areas` and of the region
`pcm_mmap_begin` handed out, and history: how far each side really got
(`hw_total`, `appl_total`), the frames last taken out, and whether an xrun is
unrepaired. Frames are numbered by their position in the stream, so order,
loss, repetition and tearing are visible.

Each line of the C loop that reads the hardware pointer anew is a step of its
own: the loop test, `pcm_mmap_begin`, `pcm_areas_copy`, `pcm_mmap_commit`.
`DirectBegin` and `DirectCommit` are an application that uses the exported
begin and commit itself and commits less than it was given. `Advance(n)` is
the hardware: it plays or records `n` frames whenever the stream runs, and
the kernel stops the stream when `avail` reaches `stop_threshold`.
`direction` is a variable that never changes, so one run covers both.

`FrameQueue` is the promise: frames come out in the order they were put in,
each once, at most `BufferSize` under way. `MCPcmRing!QueueSpec` maps its
`put` and `got` to `appl_total` and `hw_total` (the other way round for
capture). For playback a frame is "put" by the commit and "got" when the
hardware plays it, so a copy into the wrong slot, or a commit before the copy,
shows as a wrong frame played.

### PcmTransfer

The ring is one number here, the kernel's `avail`, since PcmRing shows what
`pcm_mmap_avail` computes; what matters is the control. Locals of
`pcm_mmap_transfer` and `pcm_mmap_transfer_areas` are the record `call`; `pc`
names the place in the code between two points at which the stream can have
changed under the call. `seen` is the copy of status and control that
`pcm_sync_ptr` fetches by ioctl when the kernel's pages cannot be mapped, and
goes stale accordingly. `errno` decides what `pcm_generic_transfer` does, as
in the code: a call that moved some frames returns the count and forgets
`errno`. `mode` (flags, configuration, disturbances) is chosen at the start
and never changes.

The environment: `Advance` (with underrun or overrun), `OtherStop`,
`OtherStart` and `ClientPrepare` (another thread, a linked stream, the client
between calls), `Suspend`, `Disconnect`, and signals during `poll`.
`RwEntry`, `RwCopy`, `RwEnd` follow the kernel's loop behind `WRITEI_FRAMES`
and `READI_FRAMES`, marked external, as are the states in which the ioctls
fail (`StateError`, `PrepareError`).

### PcmQueries and PcmClients

`PcmQueries` adds one record to PcmTransfer, the locals of the query under way;
the calling thread asks between its transfers. A status without a time stamp
fails `pcm_get_htimestamp`, as in the code. Each line that reads the status
is a step, so the hardware may move between any two. The kernel publishes its
pointer together with the time at which it read it (external), so a time stamp
is represented by the position it belongs to, and "they belong together" is
equality. `pcm_get_htimestamp` promises that; `pcm_mmap_get_hw_ptr` reads stamp
and pointer once each and may return a pointer that is newer than its stamp,
which `QueriesAgree` allows, but never an older one.

`PcmClients` puts programs above the library: `PlayRead` to `PlayWait` are
`play_sample` of tinyplay, `CaptureRead` and `CaptureWritten` are
`capture_sample` of tinycap, `AnyClient` is a client that transfers and queries
as it pleases, and `Interrupt` is control-C at any moment, which runs
`stream_close` or `sigint_handler`. A file is a number of
frames; `length` and what its header says (`remaining`) are chosen apart, since
the header may promise more or less than there is, and `Unlimited` is the
SIZE_MAX of standard input. `fwrite` may fail after any number of frames.
`moved` is what the stream really took or gave. `Thread` is what the program's
one thread does, in the library, in a query, or above; `Below(action, disturbs)`
composes the steps of PcmTransfer with it and says whether the step cuts something
short for tinyplay: a step of the library itself never does, one of the hardware
does when it ends in an xrun, one of anybody else always. `PcmClientsProperties`
holds what is promised of the programs.

Two things the programs do are modelled and limit what can be promised of them.
tinyplay reads on after a short write without writing the rest, and
`pcm_close` drops what was not played; so "the whole file" is promised only
when no xrun, failure, signal or other actor came between (`disturbed`). tinycap does
not test the result of `pcm_readi`: a failure adds -1 to its count and passes
it to `fwrite`, where the model stops (`undefined`).

### HwParams and PcmPlugin

`HwParams` is operators only: what `pcm_set_config` asks for, what the wrapper
makes of the plugin's constraints (`pcm_plug_get_params`), refinement, the
selection of one value, and what is read back. A mask is a set, an interval its
two ends; nothing in this code opens an end. An interval may become empty
(`min > max`) and a mask too, which no line of the wrapper looks at, so a
request outside the constraints is granted silently, with whatever the selection
makes of it. Products are taken modulo `UIntMax + 1`, as unsigned ints are.
The times have the bounds zero and the subformat mask is empty, as in the code,
which gives the bit's number where a mask is expected.

`PcmPlugin` is one thread that opens, configures, transfers and closes a stream
on a plugin, and another that may stop it between two steps. `state` is the
wrapper's; `seen` is what the library last fetched of it. `errno` is kept
because the code depends on it: the wrapper returns -EBADFD and leaves errno
alone, and a plugin may do the same (`PluginFails`, `Refuses`), while
`pcm_set_config` returns `-errno` and `pcm_generic_transfer` switches on it.
With errno zero, a failed configuration is returned as success: `silent`
remembers that this happened, and `PluginAgrees` is about the rest. With a stale
EPIPE, a refused transfer prepares the stream again, which restarts one that
another thread stopped, and counts an xrun that never was.
A plugin with a buffer to map appears in PcmLifecycle, not here.

### PcmLifecycle

One handle from `pcm_open` to `pcm_close`, or one `pcm_params_get`, which opens
and closes a device with the same functions but exits of its own; the block of
parameters it allocates is freed on its error path, or returned and freed by
`pcm_params_free`. `held` is
everything acquired and not released (memory, descriptors, libraries, nodes,
mappings); `ptrs` are the handle's pointers that are not null. The code changes
the two in different lines, and the properties compare them. Each call of the
backend, each allocation and each `dlopen` may fail. An opener made of several
steps (`pcm_hw_open`, `snd_utils_open_dev_node`, `pcm_plug_open`,
`pcm_hw_mmap_status`) is a table of what is acquired before each step and what
the `goto` ladder releases when that step fails.

`dev` and `hw` are the device's side: the state of the kernel's stream or of
the plugin wrapper (`AcceptsHwParams`, `MayUnmap`, `Drop` differ between the
two) and what it was set up with, which may have a larger period than asked
for. `Asked` is the `config` pointer of `pcm_set_config`: the argument, or the
handle's own configuration, which the refinement changes under it. `faults`
remembers which failures happened, so that `ClosedClean` can say exactly which
of them leave something behind. `RUNNING` stands for every state behind
PREPARED; what happens in those is PcmTransfer. The rate, the number of
periods, the subdevice and `noirq_frames_per_msec` do not matter here and are
left out; a frame size stands for format and channels.

### MixerEvents

Two client threads, a listener (wait, read) and a controller (subscribe,
close), and plugin threads that are only counted: `called` are about to enter
`mixer_plug_notifier_cb`, `posting` are between its unlock and its
`eventfd_write`. What a mutex protects is one step; `eventfd_read` blocks.
`h_credit` and `v_credit` are the `event_cnt` of the two groups, which
`mixer_wait_event` increments and `mixer_read_event` decrements. The `count`
that unsubscribe and close take is unsigned: a negative `event_cnt` becomes a
huge number (`Wrap` stands for 2^32), and `borrowed` keeps what that added.
`ClosePlugin` is the sample plugin's close, which calls back once more.

`Shared` allows the two threads to be inside the library at the same time;
`Paired` restricts the client to the loop of the tests, one read after each
successful wait; `PluginWaits` is a plugin whose unsubscribe waits for
callbacks under way.

### MixerGroups and MixerValues

State: the handle (`grps`, which group pointers are set, `fd`, `total_count`,
`is_card_info_retrieved`, and per group the array `ctl` of numids by which it
addresses its backend), what the backends have (`driver`), `held` as in
PcmLifecycle, and history. `mixer_grp_open`, `CardInfo`, `OpenControls` and
`ErrCardInfo` are the parts of opening one group that may fail, in order; the
handle survives if one group opens. `add_controls` keeps what it read before an
ELEM_INFO failed and counts it. Backends may gain controls before a group is
opened and while the handle is open; `mixer_add_new_ctls` fetches those.

Some failures leave the handle in a state in which its next use is undefined;
the model names them and stops there. A group that fails after its backend was
opened is freed while `h_grp` or `v_grp` still points to it, and its array of
controls is not freed (`Dangling`, `ErrCardInfo`, `UseDangling`);
`mixer_hw_open` keeps its descriptor when there is no memory for its data; the
sample plugin's open fails into a null pointer (`SampleOpenFails`);
`mixer_plug_close` keeps the card's node and the eventfd. A plugin's element
list ignores the offset, so controls it gains later show as repetitions of its
first ones, and its numids begin at 0, so `mixer_ctl_get_id` of the first one
is UINT_MAX.

`MixerValues` is two clients over one handle. Setting one value is an ELEM_READ
of all values, a change and an ELEM_WRITE of all, two steps. `asked` records for
each value the last accepted request and `raced` the controls that were written
between another client's read and write, which do lose an update. A write
outside of the control's range is refused by the driver as a whole
(`Accepts`). As in the code, a percentage outside of 0 to 100 is written as the
value -EINVAL; a short `mixer_ctl_set_array` and `mixer_ctl_set_enum_by_string`
write 0 into the values they do not name. The clients do not call
`mixer_add_new_ctls` or `mixer_close` during each other's calls: the library
locks nothing and its callers have to.

The conversions of percentages keep the widths of C: a control's limits are
longs (`LONG_MAX`), which is why `(value - min) * 100` is a product of longs,
but `range` and `range * percent` are ints. Where that product overflows, either
the result is wrapped or the program ends (`PercentTraps`): `Android.bp`
builds the library with `integer_overflow` trapped, the other builds do not. The
limits themselves fit into an int, as `mixer_ctl_get_range_min` and
`mixer_ctl_get_range_max` return them (`WidthAssumption`). The one quotient that
does not fit into its type, LONG_MIN / -1, needs longs no wider than ints and a
control that uses every value of an int; it is left out.

## Runs

| Run | Shows | Bounds |
|---|---|---|
| `ring` | type, exact `avail`, region inside the mapping, available and untorn, refinement of FrameQueue, the copying loop ends | ring of 3 frames, boundary at 6, 8 frames of a stream, calls of up to 4, hardware steps of up to 2: each pointer wraps the ring at least twice and the boundary once, requests exceed the ring, and an update can overshoot the threshold |
| `streams` | exact counts, xruns counted once, the view of the stream never ahead of it, calls return unless they may leave the stream stopped, xruns are repaired; pointer and time stamp belong together; what tinyplay and tinycap count is what the stream moved, and they end | buffer of 4, ten streams: mmap playback with calls of up to the whole buffer and half of it as threshold, mmap capture, mmap playback with every disturbance, non-blocking playback with calls larger than the buffer, ioctl playback and capture, tinyplay with mmap (interrupted) and without, tinycap with mmap and without (interrupted); files of up to 5 frames, more than a buffer and not a multiple of a period; captures stop at two buffers, which stands for the default of ten |
| `start_full` | **finding**: a blocking mmap write that fills the ring from below `start_threshold` starts nothing, and it or the next write waits for ever | the two default thresholds: the whole buffer, and half of it |
| `norestart` | **finding**: after EPIPE under `PCM_NORESTART` no second call restarts | one stream |
| `signal` | **finding**: a signal fails a blocking call; the check for it compares `errno` with `-EINTR` after the return | one stream |
| `handles` | what a handle owns, that nothing is released twice or used after its release, what is left behind by which failure, `pcm_params_get` and its parameters included, lengths of unmapping, agreement of the handle's configuration with the device | five sets of flags, three configurations and the null one, periods the device supports, refines and refuses, two later `pcm_set_config` |
| `buffer_size` | **finding**: `buffer_size` is not the device's when the period was refined | the same |
| `plugin_missing` | **finding**: a plugin library that cannot be loaded makes `pcm_open` crash | the same |
| `plugin` | what `pcm_params_get` reports is granted exactly; handle and plugin agree on the configuration; a transfer ends whatever the plugin answers and whatever is in errno | two plugins (the sample plugin's constraints with small numbers; one whose smallest period is less than a frame and whose largest buffer overflows), six configurations inside and outside of them, three sets of flags, unsigned ints of 12 bits, EPIPE and EIO or no errno |
| `mixer` | what the handle owns, what is left behind by which failure, ids dense and one to one over both groups, names and devices lead to the same controls, the lists are the backends', values set are read back, percentages too | three controls in any order over the groups, of four kinds (an integer with two values and a negative minimum, a boolean of the same name on another device, an enumerated one with two values, an integer whose range overflows when multiplied by a percentage), two clients, four percentages (both ends, one that is rounded, one outside), ints of 13 bits and longs of 21, at most `MaxWork` calls and controls together: two clients may interleave on one control with one more call before or after, or one call meet three controls |
| `events` | accounts of `event_cnt` and `eventfd`, poll unblocked while events are unread, both groups agree on the subscription, no spurious wake-up, reads return, no drain blocks for good, every event is read in the end | two unread events or callbacks, two credits; free and paired clients, plugins that wait for their callbacks and plugins that do not |
| `close_callback` | **finding**: closing locks the destroyed mutex | no event needed |

A bound on frames, queued events or credits is a guard of the action that
would exceed it, named as a bound where the constant is declared. Stopping at
`MaxFrames`, or after `mixer_close`, is no deadlock of the program: those
configurations switch deadlock checking off, as do those of PcmLifecycle,
whose handle is closed in the end. So does `plugin`, whose plugin may be
closed, and `mixer`, where no call is left after `MaxWork`. `streams` does too:
a stream left stopped by the writes that `start_full` is about really stops; every
other call that blocks for good violates `CallReturns` or `ClientsEnd`. There, a
program that has ended is the explicit step `Ended`. `signal` keeps it on.

The findings are quoted with their lines in `PROJECT.json`. These disagreements
with a text have no run of their own; the properties leave them out in words, and
the modules show them:

- `mixer.c:589` says of `mixer_read_event` "0, if no pending event". After two
  waits before a read, both of which credited the same event, the second read
  finds a credit and no event, and blocks in the control device, which
  `mixer_hw.c:108` opens for blocking reads. `ReadReturns` and `EventsDelivered`
  are checked for the loop that reads once after each wait.
- `mixer.c:339` says of `mixer_add_new_ctls` "adds any new controls that have
  appeared". For a plugin it adds the first ones again
  (`mixer_plugin.c:316` ignores the offset). `ControlsListed` and `NamesAgree`
  except them.
- `mixer.c:854` says that `mixer_ctl_get_id` returns a value "that can be passed
  to mixer_get_ctl()", and `mixer_test.cc:161` expects it to be the index the
  control was got by. A plugin's numids begin at 0, and its controls come after
  the kernel's, so its first control has the id UINT_MAX and the next ones the
  ids of other controls. `NamesAgree` promises the way back for the kernel's
  controls only.
- `pcm.h:211-214` says that a `start_threshold` of 0 stands for
  `period_count * period_size`. For playback `pcm.c:510` takes half of that, for
  capture 1; only a null configuration gets what is documented (`pcm.c:443`).
- `stop_threshold` of 0 is documented in the next line as the same product; for
  capture `pcm.c:519` takes ten times that.

Behaviour that is surprising but contradicts no text is described in `hazards`:
frames accepted in XRUN by the mmap path, a `pcm_start` that loses a race and
fails the write, hardware events that starve plugin events, an unsubscribe
concurrent with a read, configurations a plugin failed that are returned as
success, percentages of ranges above INT_MAX / 100.

### Fairness

- PcmRing: weak fairness of the application's own steps inside
  `pcm_mmap_transfer_areas`, which is a loop without a wait. Nothing is assumed
  of the hardware.
- PcmTransfer: weak fairness of the calling thread's steps (they are enabled
  whenever the code does not block; `Wait` is enabled when `poll` would return)
  and of the sample clock, which moves a running stream whether anybody
  listens or not. Nobody has to call, start, stop or prepare. `CallReturns`
  excludes streams that overrun for ever: `goto again` then really never ends.
  It also excludes behaviours in which a blocking call may leave the stream
  stopped (`AlwaysStarts`): an mmap write of n frames with
  `n + start_threshold > buffer_size`, which is what `WritesReturn` and
  `start_full` are about, and a read of fewer frames than the threshold, which waits
  for another thread to start the stream (`pcm.c:1523`).
- PcmClients: the same two, with the steps of the program and of the queries
  among the thread's. A query, a play of any length and a capture of limited
  length end, under the same exclusions.
- PcmPlugin: weak fairness of the steps inside a call; configuring, which has
  no loop, needs none. `PluginCallReturns` excludes another thread that stops
  the stream for ever, as each stop may send the call round its loop again.
- MixerEvents: weak fairness of threads that are inside the library or its
  callback. `EventsDelivered` adds that the client keeps calling wait and read
  (strong fairness, since the other thread's calls disable them now and then)
  and is conditional on events ceasing to be raised.

## Proofs

`PcmRing_proofs` proves, for every buffer size, boundary, stop threshold,
bound and either direction: `TypeOK`; `AvailExact`; `NeverOverfull`, if
`StopThreshold <= BufferSize`; `RegionInside` and `RegionAvailable`. None is
inductive by itself. The invariant `IInv` adds to `TypeOK`:

- `PointersMatch`: the pointers differ by what the totals differ, up to one
  boundary in either direction. This is what makes the two corrections in
  `pcm_mmap_playback_avail` right: it needs `avail` to stay below the boundary,
- `AvailBounds`: hence a bound on `avail` in each stream state; a running
  stream is below the threshold or below a full buffer, so one more update
  cannot reach around the boundary (`AdvanceAssumption`),
- `RegionInv`: the region handed out stays within `avail` until the commit,
  since the hardware can only make `avail` grow,
- `CallInv`: the loop's `offset + size` never leaves the caller's buffer.

Assumptions: `boundary` is at least two buffers and a multiple of one (the
kernel chooses it), one hardware update moves at most one buffer, and
`stop_threshold` plus one update fits below the boundary.

`PcmRingQueue_proofs` proves, if `StopThreshold <= BufferSize` (`NoLate`: the
default of a playback stream, and not of a capture stream, whose default lets
the hardware overwrite), that `Spec` implements `FrameQueue` under the mapping
of `QueueSpec`, and `RegionUntorn`. Its invariant `QInv` says what the ring
holds, which `IInv` does not:

- `Contents`: unless the stream is broken, the frames under way lie in the ring
  in order, from the slot of the reader's pointer on,
- `InCall`: between two steps of a call, the caller's buffer (playback) or the
  region read (capture) holds the frames that follow `appl_total`, and the
  region starts at the slot of `appl_ptr`,
- `Unbroken`: a stream that is prepared or running had no xrun.

The lemmas about slots carry the rest: the pointers wrap at a multiple of the
buffer size, so the head of the queue is `Fill` slots after its tail
(`HeadSlot`); fewer than a buffer of slots after a pointer are all different
(`Distinct`), so a region inside `avail` touches no frame that waits
(`RegionFree`). Taking frames from the tail and adding them at the head keep
`Contents` (`Taken`, `Added`); each action is then one step of the queue, or
none.

`MixerEvents_proofs` proves `TypeOK`, `Accounts` and `SubscribeAgrees` for any
interleaving of the threads and any bounds, `PollUnblocked` for one call at a
time, and `NoSpuriousWakeup` if the plugin also waits for its callbacks. Its
invariant adds which reads each thread owes (`Reads`), that a drained count
stays zero once the mutex is destroyed (`Stopped`), which subscription the
half-done call is bringing about (`Agreeing`), that the threads exclude each
other when calls do not overlap (`OneAtATime`), and then that the unread events
match the count (`Matched`).

`PcmLifecycle_proofs` proves `TypeOK`, `HandleOwns`, `ReleasedOnce`,
`ClosedClean` and `UnmappedWhole` for every set of configurations, flags and
periods. Its invariant says line by line what is held: `OpeningInv` until the
device is open, `OwnerInv` from the first line that configures to the last that
uses, `LeftInv` while the handle is taken apart. Two more parts make these
inductive: `DeviceInv` (the device is in SETUP wherever something may have to be
unmapped, and a plugin is set up once, so a second `pcm_set_config` never maps a
second buffer) and `LengthInv` (`buffer_size` frames are the length mapped until
a later `pcm_set_config` fails). `ConfigAgrees` follows from `ConfigInv`: what
the handle shows is what the backend was set up with from the line that reads it
back, and the thresholds are those of `pcm_set_config`. Its part about
thresholds is for buffers of two frames or more: the default of a shorter one is
half of it, zero. The proofs assume nothing of the constants but their types.

`Mixer_proofs` proves `IdsDense` and `ControlsListed` for every set of kinds
and any number of controls, calls and clients. Its invariant: `total_count` is
the sum of both arrays, an array that is not empty belongs to a group that is
pointed to and holds no more than its backend has (`CountsAgree`), the group
being opened has none yet (`Order`), and the n-th control is the backend's n-th
(`Listed`). The heart is a lemma about `add_controls`: whatever it fails at,
what it found is a prefix of the backend's next controls.

It also proves `HandleOwns` and `ClosedClean`. `HeldInv` says that from
`mixer_open` to `mixer_close` each group that did not fail is held whole
(`WholeHeld`), and that nothing is held besides but what a named failure leaves
behind (`NothingElse`). `SetsHold` is proved for any number of clients and all
ranges, `PercentsHold` for ranges of at most INT_MAX / 100, for every width of int
and long: `ValueInv` says that between an
ELEM_READ and its ELEM_WRITE a client still has what the backend stores unless
the control is in `raced`, and that a value last asked for by number or
percentage is stored as its conversion; the rest is a lemma about the two integer
divisions of `percent_to_int` and `int_to_percent`, whose products do not wrap in
such a range. Assumed of the kinds of control is that a boolean's range is 0 to 1,
as ALSA defines it (`KindsAssumption`), and that limits fit into an int, ints into
a long, and EINVAL into an int (`WidthAssumption`).

`NamesAgree` is a statement about the lookups in a bounded mixer, so its proof
is about operators. A control of the name is found under the number of hits
before it (`NthHit`). The places below an id are the first group's and some of
the second's, so counting the hits before an id is counting both groups' hits
(`IdPlaces`, `HitsFacts`); `NameFound` and `NameEnds` follow the index as it is
counted down through one group into the other. The index is an unsigned int:
that a mixer has no more controls than one can count is the assumption
(`MaxControls <= UINT_MAX`). `mixer_ctl_get_id` leads back because a group's
controls are its backend's first ones (`Listed`).

`PcmPlugin_proofs` proves `GrantsWhatIsReported` for every width of an unsigned
int, all constraints of a plugin and all configurations. `Constant` (the
constraints and the request do not change while a call runs), `SetUp` and
`Shown` tie what the handle shows to what the plugin was given. The lemmas are
about refinement: a point that lies in an interval stays in it
(`RefinePoint`), the smallest value of an interval is what is granted
(`RefineLeast`), and together a configuration inside the reported ranges comes
out of the refinement of all dependent parameters as it went in
(`GrantedExact`). The one assumption is that the smallest frame has a byte
(`UInt(bit_width.min * channels.min) > 0`). `PluginAgrees` is proved if
the plugin has only formats whose width the sample plugin knows; with others
it takes another width than the library does.

`PcmTransfer_proofs` proves `ReturnCountsFrames` and `SeenNeverAhead` for every
set of streams, buffer size and request, whatever else happens to the stream.
Its invariant `Accounts` says place by place what the locals of a call say it
moved: nothing before the first round or a restart, `user_offset` plus the
count of the round inside it, `user_offset` when it is over. It holds while the
device is plugged in, and a device that is gone never comes back
(`Unplugged`). `SeenNeverAhead` is inductive with it: only the application
takes frames away, and it fetches the status when it does. `Apart` keeps the
ioctl path and the mmap path from mixing.

`XrunsCountedOnce` is proved by an invariant about the difference between xruns
that happened and xruns counted: none is left in SETUP, PREPARED or RUNNING, one
in XRUN until the restart that counts it, and never fewer than none (`Counted`).
It rests on `Shares` (what each path holds of the request) and on where a call
can be in which state of the stream when nobody else touches it (`Reachable`,
`Room`, `Outcome`). Under `PCM_NORESTART` an application that goes on calling a broken
stream has its xrun counted by every call, so the property promises the lower
bound without that flag only.

Its `TypeCorrect` bounds every counter. `Levels`: a stream that runs has room for
one more update of the hardware below `MaxAvail`, and what the library keeps of
avail was avail once. `Within`: no local of a call, and nothing it moved, exceeds
its request. `Marks`: errno and the count of uncounted xruns keep their ranges.
`MaxAvail` is a maximum over the streams, so their set is finite
(`ModeAssumption`, `MaxOfFinite`).

`PcmClients_proofs` extends `ReturnCountsFrames` and
`SeenNeverAhead` to a stream under tinyplay, tinycap or a
client that asks queries, which refresh the status as well, and proves
`QueriesAgree`: while a query runs its thread transfers nothing, so the
positions it reads only grow (`Ordered`), and what a fetched status shows does
not change between fetches.

`CountsAreTotals` is proved for files and periods of any size: `Programs` says
where in tinyplay or tinycap a client can be and that the call under way is the
one it made, `Tally` that its count is what the stream moved while the device
is plugged in, `Played` that the frames an undisturbed tinyplay has read and not
counted are all in the call under way, and `Quiet` that such a call does not
fail. The assumption is how the two programs open a
stream: tinyplay takes no flag but `PCM_MMAP`, and its period is at least
one frame (`ClientAssumption`). A program whose device was unplugged is
excepted. `XrunsCountedOnce` holds for these clients too; `CountedToTheEnd`
allows `pcm_close` to drop an xrun that was not counted yet.

`ClientTypeCorrect` is `ClientTypeOK` for files, buffers and requests of any size.
`Asks`: what a query holds was avail once. `Portions`: what tinyplay counted or
moved, the frames it has left to read and those in the call under way are never more
than the file had; tinycap calls again only while it has less than it wants, and
then for a buffer, which is why the bounds of the type invariant end a buffer after
the largest file. That tinycap's requests may be a whole buffer is the rest of
`ClientAssumption`.

Only model-checked is liveness (`TransferEnds`, `CallReturns`, `CallRestarts`,
`ClientsEnd`, `PluginCallReturns`, `DrainEnds`, `ReadReturns`,
`EventsDelivered`), which is out of the prover's reach. Every invariant that a
passing run checks is proved, under the assumptions named above.

## Plan

In this order, most important first; done so far: all.

1. `PcmPointers`, `PcmRing`, `FrameQueue` and proofs.
2. `PcmTransfer`.
3. `MixerEvents` and proofs.
4. `PcmLifecycle` and proofs.
5. `MixerGroups` and `MixerValues`, ids dense proved.
6. `HwParams` and `PcmPlugin`.
7. `PcmQueries` and `PcmClients`.
8. Proofs for `PcmPlugin`, `PcmTransfer` and `PcmClients`.
9. `Spec => QueueSpec` for the ring and `RegionUntorn`.
10. More proofs: `XrunsCountedOnce` of PcmTransfer; `CountsAreTotals` of the clients;
    `ConfigAgrees`; `HandleOwns`, `ClosedClean`, `SetsHold`, `PercentsHold` and
    `NamesAgree` of the mixer; the types of PcmTransfer and of the clients.

## Not modelled

Formatting and printing, argument parsing, file headers, the build and the
documentation: `tinymix`, `tinypcminfo`, `tinywavinfo` and `optparse` keep
nothing between calls of the library, and their code is text in and text out.
The kernel and the plugin libraries are modelled only by how the
library sees them, and marked external in the map. Frames are numbers; sample
formats and byte counts appear in HwParams only. The kernel's `silence_*` and
`xfer_align` parameters have no effect the library reads back. Calls with a
null handle, zero frames or the wrong direction return at once and change
nothing.

The byte-counting wrappers (`pcm_write`, `pcm_read`, `pcm_mmap_write`,
`pcm_mmap_read`) return 0 if the transfer moved everything and -EIO otherwise
and keep no state; `pcm_get_delay`, TTSTAMP, TLV access and `pcm_ioctl` are one
ioctl passed on. `mixer_ctl_update` and the cache of enum names, which is not
refreshed by it, copy what the backend says. Byte arrays and IEC958 values are
left out. A percentage of a range above INT_MAX / 100 is modelled as far as the
overflow, wrapped or trapped; what else undefined behaviour may do is not. A
boolean control of a plugin is not supported by `mixer_plug_get_elem_info`, and
the model fails there as the code does. The sample PCM plugin returns 0 frames
for every write and has no drain; a plugin may do more. The selection of
SAMPLE_BITS, FRAME_BITS and PERIOD_BYTES by the wrapper does not depend on the
format chosen, so they may contradict it, as in the code; no property is about
those three.
