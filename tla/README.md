# A TLA+ model of dosfer

dosfer moves files from a DOS machine to a phone through the screen: a DOS
program shows QR codes, an Android app films them. Nothing flows back. What the
camera misses is made up for by redundancy in the stream, by recovery in the
receiver, and in the end by the person between the two screens, who reads the
missing frame numbers on the phone and types them on the PC. This directory
holds the specification of that system, its model-checked instances and its
proofs.

Contents: 1 the system, 2 the modules, 3 the runs, 4 fairness, 5 the proofs,
6 where code and documents disagree, 7 what is left out, 8 the plan.

## 1. The system

| component | source | state it keeps | operations | modelled |
|---|---|---|---|---|
| frame store | `SessionStore.java` | one directory per session: a file per DATA frame, per chain/block equation, per plane symbol; active session; window maps; end index; byte total | `accept`, `storeRaw`, `storeRecovered`, `recoverAvailable`, `reload`, `stats`, `reset` | `SessionStore`, `FrameStore` |
| codec | `Protocol.java` | none | parse, encode, `recoverChain`, `recoverBlock` | inside `SessionStore`, on sets of records |
| camera workers | `CameraScanner.java`, `Rgb3DecoderPolicy.java` | worker pool, `running`, detector (BW / RGB3), map of 512 delivered keys | image to a free worker, decode, detect, `markDelivered`, deliver, `stop`/`start` | `CameraScanner` |
| user interface | `MainActivity.java` | scanner, status text | payload callback, Reset session, `showStats`, reconstruct | parts in `CameraScanner`, `Transfer` |
| legacy sender | `dos_sender_legacy/src/sender.c`, `sender_config.c` | current window, pass, selection, page on screen | `run_transfer`, `transmit`, `transmit_rgb3`, `parse_ranges`, keys | `LegacySender` |
| record producer | `dos_sender_legacy/src/producer.c` | manifest, open file, read ring, record id, CRC, totals | `manifest_add_selection`, `producer_next`, `producer_fill_window` | `Records` |
| reconstruction | `Reconstructor.java` | open file, directory map, counters, documents | one loop over the records, once for each press of the button | `Records` |
| plane sender, 32 bit | `dos_sender32/main.c`, `platform_vga.c` | eight page slots, playback state, deadline | claim, prepare step, `playback_tick`, tail | `PlanePlayback` |
| experimental sender | `dos_sender/src/*.c` | two slots of video memory, a correction each, the shadow raster | `run_plane_stream_transfer`: next record, group, correction, tail | `StreamSender` |
| VGA raster and encoders | `dos_sender_legacy/src/vga.c`, `sender.c` above `run_transfer()` | placement map, shadow rasters, two pages, template, chain cache, parity accumulator | build, delta, direct draw, partial copy, flip, status line; the plan of the direct kernels | `VgaRaster`, `LegacyRaster`, `StripePlan` |
| timers | `timing.c`, `timing32.c` | BIOS tick, PIT phase | `timer_ticks` | `Ticks` |
| pixel paths, camera geometry | `GpuRgbProcessor`, `Rgb3Yuv`, `Camera*.java`, ... | buffers | numeric image processing | no |

How they interact. The sender cuts the record stream into windows of at most 66
frames and keeps only the current one. It shows every frame as DATA, adds
equations (`CHAIN_XOR` of two, `BLOCK_XOR` of n, one per colour channel in
RGB3), then shows `END_WINDOW` and waits: Enter commits the window and recycles
its buffers, R replays, M replays the ranges typed, Esc pauses. Camera images
reach 1..4 decode workers in parallel; each hands new frames to the one store,
which validates them, writes a file, and peels equations until nothing more can
be recovered. The status text shows the newest window the store has heard of
and the ranges missing in it, and that is all the user has to go by.

What is hard here: workers overtaking each other and the UI thread between
three locks; two writes that belong together with a kill between them; a disk
that is full for one write; a frame suppressed as "delivered" that is not there;
equations arriving before, after or instead of the frames they join; parity at
the short end of a window; the last copy of a window thrown away on a key press;
files that change between the scan and the sending; images derived from images
derived from images, on pages that lag behind each other.
`PROJECT.json` lists each hazard at its line.

What makes each part correct:

* store: never a frame that was not sent; never lose or alter one; `complete`
  exactly when no frame is missing; missing ranges agree with the disk, also
  after a restart; recovery leaves nothing solvable unsolved and always ends;
* workers: a repeat is dropped only when the store has no use for it; the decoder
  is locked to one channel only in a window that shows different frames on all
  channels; no worker is ever lost;
* sender: everything shown belongs to the window shown; one lost image can be
  recovered from the rest; a replay shows something;
* raster: the page shown is the image meant, by whatever fast path it was drawn;
  every bit of every codeword is drawn once;
* records: a file that has its final name is whole, VALID means all that was
  selected is there, and only the phone's storage stops a reconstruction;
* plane senders: the screen holds one whole symbol at every moment, every record
  is shown, in order, and the sender stops only for a reason from outside;
* transfer: no window is committed with a frame missing, "complete" is true,
  and the transfer ends.

## 2. The modules

| module | role |
|---|---|
| `FrameStore` | abstract store: retained indices per session, one session at a time, emptied by the user only |
| `SessionStore` | the store in detail: files, equations, plane symbols, statistics, preference, failing writes, kills |
| `MCSessionStore` | the frames of small transfers |
| `SessionStoreProofs` | types, genuine recovery, completeness, retention, exact ranges and totals, settled equations, refinement of `FrameStore` |
| `CameraScanner`, `MCCameraScanner` | workers, detector, delivered keys, Reset, pause |
| `CameraScannerProofs` | types, the detector's lock, no frame suppressed that the store needs |
| `LegacySender` | windows, passes, redundancy, keys |
| `VgaRaster` | operators: what `vga.c` does to rasters, pages, template and status line |
| `LegacyRaster`, `MCLegacyRaster` | extends `LegacySender` and `VgaRaster`: how each image of a pass is encoded and drawn |
| `LegacyProofs` | of sender and transfer: types, the loss of one image is made up for, no window is committed with a frame missing, "complete" is true; of the raster: the page shown is the image meant, and no image is refused |
| `StripePlan` | runs, groups, phase groups, edges and triples of the direct kernels, on the real V40 placement |
| `DisplayProofs` | what the display rests on: the plan leaves out the runs that groups draw, and no others; the clock is at most one period off, no symbol is replaced early |
| `Records`, `MCRecords` | `producer.c` and `Reconstructor.java`: from the files to the documents |
| `RecordsProofs` | what has its final name is whole; only the storage stops a session; VALID means that all is there |
| `Transfer`, `MCTransfer` | composition: sender, camera, store, user |
| `PlanePlayback`, `MCPlanePlayback` | the 32-bit sender: producer, eight pages, playback, tail |
| `PlanePlaybackProofs` | the slots have one owner each, groups keep to their window, the producer fails for a reason only; what is on the screen is one whole symbol; every record is shown, in order; types |
| `Ticks` | the senders' clock and the hold time |
| `StreamSender`, `MCStreamSender` | the experimental 16-bit sender: two slots, corrections, tails |
| `StreamSenderProofs` | a held symbol is whole, every record is shown, in order, and the sender stops for a reason; types |
| `Induction` | induction over the naturals, recursive functions, `FlattenSeq`, quotients: what the proofs share |

### SessionStore

A record is a token; a payload is the set of tokens XORed together, so XOR is
symmetric difference and a payload is a valid record when it is a single token
(CRC and record parsing reject the rest). `frames[s][i]` is the file
`frame_<i>` of session `s`, with the window fields that recovery and `reload()`
read back; `equations[s]` is the set of `xor_*`, `parity_*` and `plane_*` files.
`active`, `windowExpected`, `windowSeen`, `endIndex`, `total` are the Java
fields, `prefActive` the preference on disk.

`accept()` holds the monitor, so it is one action per outcome, except where it
can be cut by a kill: a plane basis is two writes (`Equation`, then
`StoreBasis`), and `recoverAvailable()` is one action per recovered frame
(`RecoverOne`, any order: `listFiles()` promises none) until a pass changes
nothing (`RecoverDone`). `pc` says where the call stands. Each write may fail
(`WriteFails`). `Crash` drops what is in memory, takes `prefActive`, and runs
the constructor's `reload()`. `ResetKilled` is a kill between two deletions of
`reset()`: any part of the directory is left, and the preference still names it.
`FlushPref` is the background write of
`SharedPreferences.apply()`: with `LosesPref` a kill may come before it.

### CameraScanner

A worker's steps are the code's locks: reading the mode, the detector, the
check of `running`, `markDelivered`, `accept`, release. Reset's handler is
three calls under three locks with workers in between (`ResetOrder`). `Stop`
then `Restart` is `stop()`/`start()`: a worker that has not finished after the
wait is forgotten and delivers later (`late`) into the same store. The store is
seen through its answers (`Accept`): the session it admits and the frames it
keeps, with failing writes; it keeps no frame of `/CAL`. A frame stands for its
key. `setting`, chosen once, is what the camera films: one run covers several
screens. Nothing is assumed about which frames a screen shows in all three
channels: a monochrome sender shows each so, and an RGB3 sender the tail of a
window and, with `/ANCHOR`, an anchor that is left over. The decoder on the GPU
path never looks at the mode, so a worker may read RGB although it is BW.

### LegacySender

An item is one QR symbol, an image the set of up to three items visible at once.
`Transmit` computes the images of a pass as `transmit()` and `transmit_rgb3()`
do: `/RE:3` in colour is `Stripes` (three images of DATA, one of parity that
joins frames three apart), other groups and chains are `Parity` after the DATA
in colour and follow their frames in BW (`MonoPass`). `run_transfer()` is a
state machine over `phase`: `first` (the first image waits for a key), `stream`,
`prompt`, `paused`, `done`, `cancelled`. `Fill` is `producer_fill_window()`: a
source file that turns out changed at frame `failAt` yields 0, like the end of
the stream. Keys typed ahead are flushed by the code before each prompt, so keys
act at prompts only.

### VgaRaster, LegacyRaster

A stream of codewords is a set of parts added over GF(2); a raster is a mask and
the stream toggled into it. `VgaRaster` is the state of `vga.c` as a record and
one operator per routine: build from scratch, delta against a shadow, direct
drawing into the template, copy to the hidden page in full or in part, the flip
and the status line with its generation. `LegacyRaster` adds to each step of
`LegacySender` how its image is made: `enc` holds the static variables of
`sender.c` (chain cache, parity accumulator, the frames last drawn), and each
image goes the way the code takes for it (`show_frame`, the combined equation,
the next frame from the cache, the parity of a stripe from the sum of what was
shown). Frames have lengths of their own (`Payloads`), since fast paths are open
to equal lengths only. There may be no memory for the caches or the placement.
`PageShows` compares the page on the CRT with the image encoded from scratch.

### StripePlan

The one module with the code's real numbers: the placement of the 3706 codewords
of a version-40 symbol in 177 by 177 modules, at the bit offsets the screen
gives it. Each iteration of the loops that collect runs and join them to groups,
phase groups (with edges) and triples is a step; `Painted` is what the kernels
draw by the result.

### Records

A file is a sequence of blocks, a checksum the sequence it was computed over.
The scan (`manifest_add_selection`) makes the manifest; each disjunct of `Produce` but `Transmit` and `Change` is a
call of `producer_next()` with the two halves of its read ring; files change,
grow, shrink or go between any two calls (`Change`). When the last record is
sent, each press of Reconstruct starts a reader: a loop that takes one record at
a time into one tree of documents, with a provider that renames on a clash,
storage that fails, a reset of the session and a kill in between.

### Transfer

`LegacySender` and a receiver of three variables: frames on disk, equations on
disk, windows heard of. `See` is `accept()` of whatever subset of the visible
items the camera decodes, followed by recovery. These sets only grow while
symbols are seen again, late or reordered, so delays need no queue. `Relaunch`
is a kill: `reload()` knows the windows of DATA files only. The user presses
Enter when Missing shows `-`, otherwise asks for the ranges shown or a replay;
with `ComparesWindow` the user does so only when "DOS window" on the phone is
the sender's window and something of it was received ("Unique: 0 / 0 in window"
otherwise, with the same `-`). The receiver's disk does not fail here and its
preference is durable: those are `SessionStore`'s and `CameraScanner`'s cases.

### PlanePlayback

`main()` is one thread: a loop of `playback_tick()`, a claim, one step of the
group being prepared, perhaps a tail. `loop.pc` says where it stands. What runs
beside it is the screen, which is read at every moment, and time, which makes
the deadline pass at any moment (`Deadline`); so each write to the VGA and each
selection of a page is an action, in the order of the code: apply the correction
after plane 1 was selected (`NextSymbol`, `ApplyCorrection`), select the next
group and then restore the page of the last one (`Handoff`, `ReleaseGroup`), and
for a tail store, select, restore (`StoreTail`, `ShowTail`, `ReleaseTail`).

An image is the frame it encodes (`Basis`: group, plane, keystream, record;
`Data`: record). A page has an image per plane and the set of corrections XORed
into it, so applying one twice undoes it. The correction of a group is made of
its header and of the records XORed into `parity`, and fits only if those are
the group's. `raster` and `previous` are the drawing and the codewords it is the
drawing of: a delta against anything else is `Garbage`. `history` is the ring of
three records a short window end is widened with. A phase that the code cuts
into chunks is one step here. A file may become unreadable at any DATA record;
in the prefill the error is dropped and the loop tries the same step again.

With `/WINDOW` at least 4 and groups of 3 or 4, only the last window can be too
short for a group, so tails come last: the code for a group after a tail (the
`reserved` page in the claim, the palette in `Show`) is modelled and never runs.

### StreamSender

One thread, two slots: the next group is drawn into the slot off the screen, and
its correction computed, while the group before it is shown with its own
correction applied; the correction is taken out again once the other slot is on
the screen. As in `PlanePlayback` each write to what may be on the screen and
each selection is an action. The module has the 16-bit sender's own stream
(`plane_stream_*`: records counted in advance, windows cut from the count), its
tails on the two pages of the same memory, and every check that ends the
transfer: what comes from outside is in `fault`.

### Ticks

`timer_ticks()` is the same code in the three senders. It joins the phase of the
counter chip (`clock.phase`, exact) with the count of periods in the BIOS data
area (`clock.bios`), which the timer interrupt advances some time after the chip
has begun the next period (`Elapse`, then `Serve`; the interrupt is served before
the next is due). A reading (`FirstReading`, `NextReading`) is of one moment, as
the loop in the code repeats until the two BIOS counts agree. `Show`, `Poll`,
`Flip` and `Stamp` are the path of one symbol of the legacy sender from
`display_encoded()` to `last_visible_tick`. Time passes between any two of them.
The clock must be read once a day, as the BIOS count says nothing of whole days.

Three things the proofs do not hide: a first reading between a period and its
interrupt puts the clock up to a period ahead for good; `last_visible_tick` or a
deadline that happens to be 0 means no hold; and after a pause at a prompt of 8 to
16 hours (half a word of ticks and more) the signed comparison takes the deadline
for one that is still to come, and the next symbol waits until the word wraps.

## 3. The runs

Passing:

| run | question | instance |
|---|---|---|
| `store_transfers` | recovery exact and settled; ranges, total and `complete` agree with the disk | 5 frames in two windows with chain, block and strided block, or two plane groups that overlap (the tail of the 32-bit sender) with a DATA copy; one after the other over a reset; 1 failing write, 1 kill, also in `reset()` |
| `store_sessions` | sessions never mix; frames survive; recovery ends; `FrameStore` is implemented | 2 sessions, one as planes, a conflicting record, 1 failing write, 2 kills, preference lost |
| `scanner` | a suppressed repeat is on disk; a decoder that is locked has seen two frames of its window in all channels; every worker returns | 2 workers; a Reset among two-frame images with a full key map; a tail and a lone anchor of one RGB3 window, the tail of the next and a BW session in any order; `/BW` and `/CAL`; 1 pause |
| `legacy_raster` | one lost image is solvable; the page shown is the image meant; no image is refused | 22 command lines, transfers of 5 and 12 frames in windows of 5, 7 and 11, three patterns of lengths, ranges typed, 1 Esc to the DOS screen, memory or none |
| `stripe_plan` | every bit of every codeword is drawn once | the real V40 placement at three alignments, with and without memory |
| `records` | a final file is whole; VALID means all; only storage stops a reconstruction | 3 directories and 3 files, names that clash, three selections (one twice), 1 change, 2 reconstructions, 1 failing write or kill |
| `plane_playback` | the screen always holds one whole symbol; every record is shown, in order; groups stay in their window; slots have one owner; no self-inflicted abort; playback ends | both widths, windows of 4, 5, 6, transfers of 4 to 9, 21 and 26 records, 8 pages, file unreadable at any record, Esc |
| `stream_sender` | a symbol stays whole while the next group is drawn; every record in order; the sender stops for a reason | both widths, windows of 4 to 6, transfers of 4 to 15 records, directories before, between and after the files, file unreadable at any record, Esc |
| `transfer` | nothing is lost, "complete" is true, every transfer ends | RGB3 `/RE:3` and BW `/RE:C2`, two windows of 4 and 2 frames, any loss, 1 kill of the receiver, 1 failing file, 1 Esc |

Why the bounds are enough. A store property relates frames, equations and the
moment of one failure: five frames give every equation kind an overlap with
another, a second window, and a chain of recoveries three long. Two workers are
all that a race on one key or on the detector needs. Five, seven and eleven
frames end a window within a stripe, with one, two and three channels used in its last
parity image. One kill at every point of a call covers a kill in each gap, two
add a kill during the recovery after a kill. The cache of delivered
keys (`setting.keys`) holds one or two where the code has 512: eviction happens,
at a limit TLC can reach. Payload 2904 and hold times do not enter
these properties; where lengths matter (`LegacyRaster`) a frame is full, short or
shorter. `Word` is 8 in `records`, so that totals do wrap. A buffer of 2 blocks and
records of 3 put a boundary of the ring inside a record and at its end. The three
alignments of `stripe_plan` give three different plans. `plane_playback` has the code's eight pages; 21 and 26 records
make more groups than pages, so that the queue fills up and playback can also
run dry, and the short transfers end in windows of every length, with and
without overlap and with tails of one to three records.

Each of these runs also fails when the code is changed in a small way: the
operators called "mutant" in the modules are such changes, one per property.

Violated on purpose (section 6): `basis_retained`, `valid_partial`,
`stream_tail`.

`CHECK_DEADLOCK FALSE` everywhere: a receiver with all its frames, and a sender
that is done or cancelled, really stop.

## 4. Fairness

* `SessionStore!FairSpec`: `accept()` and the constructor run to their return;
  they wait for nothing. Kills are bounded.
* `CameraScanner!FairSpec`: a posted decode runs on its own thread.
* `PlanePlayback!FairSpec`: the loop runs on and time passes. Encoding needs no
  fairness, it is a bounded number of steps.
* `Transfer!FairTransfer`: the sender's loop runs on; the user presses a key at
  a prompt some time (weak fairness); an item shown again and again is decoded
  some time (strong fairness, per frame and for `END_WINDOW`). The last is an
  assumption about the camera, without which no one-way transfer ends. No
  fairness is assumed of parity, Esc, the kill, or any other loss. A user who
  pauses for ever is excluded by fairness of `Resume`; Cancel ends a transfer.

## 5. The proofs

`SessionStoreProofs`, for every set of sessions, frames an honest sender emits
(the assumptions of `SessionStore` on `Frames`: an equation joins the records of
its own session, window and geometry; `EndToken` is the record of the last
index), every window size, failing write and kill:

* `TypeCorrect`: types; files lie in their own session's directory (`Placed`);
* `RecoveryGenuine`: `RetainedAsSent`. The heart is `ResidueGenuine`: an
  equation with exactly one member absent, all others on disk as sent, leaves
  as its residue the record that was sent;
* `Inductive`: `IInv == TypeOK /\ Placed /\ RetainedAsSent /\ EndKnown`.
  `CompleteMeansAll` alone is not inductive: that a count equals `endIndex + 1`
  says nothing about the next step unless one knows that no frame lies beyond
  the end of its session and that `endIndex` is that end (`EndKnown`), which in
  turn needs frames to be as sent and filed in their own session;
* `CompleteIsGapless`: `complete` means frames `0..endIndex`, by counting;
* `FramesSurvive`: the action property `NeverOverwritten`;
* `MissingIsExact`, `TotalIsExact`: the missing ranges and the size shown agree
  with the disk. `Told` ties `windowSeen` and `total` to the files of the active
  session, and says that no other session has any; it needs `Filed`, that each
  file says where its sender puts the record, for two files of one session could
  otherwise claim one place in a window and be counted there once;
* `NothingLeftToPeel`: `EquationsSettled`. `Settled` holds between the calls of
  every session and, while `pc` is `recover`, of all but the active one; a frame
  or equation that is stored moves to `recover`, the loop ends in `RecoverDone`
  only where no step is left, and whatever returns without it (a duplicate, a
  plane) leaves the absent members of each equation as they were;
* `Refinement`: every step of the store is a step of `FrameStore` or a stutter.

The three before the last have hypotheses. `~LosesPref`: the preference reaches
the disk before a kill does; section 6 says what happens without. `Numbered`: an
honest sender gives a record the same place in its window in every frame and
equation that carries it. `Genuine` (for `NothingLeftToPeel` alone): a DATA frame
carries its own record, a basis plane its own plane. Both are about `Frames`, as
the module's assumptions are, and true of the frames of `store_transfers`, the
run that checks these properties; the conflicting frame of `store_sessions` breaks
`Genuine`.

`CameraScannerProofs`, for any number of workers, any screens the camera may
film, any cache, presses of Reset and pauses of the camera. `ScreenAssumption`
says what a frame and a screen are, and is the only assumption:

* `TypeCorrect`, from `Typed`: the map of delivered keys is a sequence without
  repeats within its limit, through eviction and re-insertion (`Keys`), and a
  worker at `store` has a frame in hand (`Working`);
* `LocksBacked` (`LocksItsWindow`), from `Backed`: while the detector's streak is
  one, the triple it counted is an image of the window it stands in (`Shown`);
  from two on, and when it is locked, there are two of them with different frames
  (`Repeating`). So no mixture of windows, late worker, pause or Reset locks it.
  That the window is a monochrome sender's does not follow, and is false (section 6);
* `RepeatsNotNeeded`, from `Remembers`: a remembered key is of a frame on disk
  or in the hands of a worker, except between the two calls of Reset
  (`ui = 2`). The hypothesis `MaxFailures = 0` is the one the run `scanner` checks
  `DeliveredKept` under; with a failing write it is false (section 6).

`LegacyProofs`, first part, for every command line that `config_validate()` accepts
(`ConfigAssumption`), every length, loss, kill and failing file, and any numbers
typed as ranges (`EntryAssumption`: `parse_ranges()` reads integers;
`FailureAssumption`: a file that does not fail fails at no index):

* `SenderTypes`: `TypeOK` of `LegacySender`, from `SenderTyped`: the images of a
  pass are made of frames of the window that is shown (`ImagesOf`), whatever
  stripe, chain, group or range they come from and however short the window is;
* `LossIsMadeUp`: `OneLossSolvable`. A full pass `Covers` the window with DATA and
  is one that `Guards` itself: each frame of an image of DATA is in an equation
  with no other frame of that image. `LossMadeUp` shows that this is enough
  (`PeeledAll`: then one round of peeling gives every frame), `GroupGuards`,
  `ChainGuards` and `StripesGuard` that the passes have it. A group is closed by
  its last frame or that of the window; the last half chain of a window is in the
  equation before it; the frames of an image are consecutive and those of a
  stripe's channel three apart, so an image takes at most one from each channel;
* `TransferTypes`: `TransferTypeOK`. `Received` says that the receiver's frames
  and equations are of windows that have begun;
* `WindowsWhole`: `NothingLost`, under `ComparesWindow` (section 6). It is not
  inductive: it needs that the receiver's idea of a window (`WindowFrames`, from
  the window number) is the sender's (`base`, `count`), which is `Cut`: windows
  are cut evenly, only the last may be short, so `base = window * size`; `Whole`
  is `Cut /\ NothingLost`;
* `DoneIsWhole`: `DoneMeansAll`, from the same invariant: when the sender is done
  the last window ends where the stream does.

`PlanePlaybackProofs`, for every set of transfers with planes of width 3 or 4, a window of 4 to 128 records and at least
4 records, for any number of slots from 3 up (`PlaybackAssumption`; the code has
8), wherever a read fails, Esc is pressed or the deadline passes:

* `SlotsOwnedHolds` and `GroupsInWindowHolds`, from
  `IInv == Typed /\ Owned /\ HistoryKept /\ Staged /\ GroupsInWindow`. That the
  slot on the screen is never the one being filled needs that the producer can
  only claim a *free* slot after it has waited for one, and that needs the
  drained group: `Drain` keeps its slot playing, and a group claimed after it
  would go unplayed. So `Staged` says a drained group is `Exhausted`, and
  `NoFitIsLast` proves that a claim refused with everything played is refused
  for good: what is left of the window is shorter than a group, and a window
  followed by another is never left so, for its short rest is filled up with
  records repeated from the ring (`HistoryKept`). `DrainedIsLast` states it.
  Then `GivesUpForAReasonHolds`: while a group is prepared
  (`InStep`) `global` is the start of the group plus what has been read, never
  less than the records it repeats, so the header's check (`HeaderFits`) cannot
  fail; and at a tail at most two of the three or more slots are taken
  (`PageForTail`);
* `LegibleHolds`. `Pages` says what each finished plane of
  each slot holds, `Work` that the work memory is the next plane, `Corrected`
  that the patch is in for the parity symbol and out for the first plane, and
  `Screen` which slot, planes and palette are shown at each `pc`.
  Then `AllInOrderHolds`, from `Sorted /\ Ordered`: the groups in the slots are numbered in the order of their records and those waiting cover
  exactly what was taken from the stream and is not shown yet (`Covers`), so the
  slot with the lowest ordinal, which `Playback` takes, begins where the last
  group ended; `Ordered` says how much has been shown at each `pc`, and that
  `Drain` and the tail take up where the groups stop. `TypesHold` adds the sizes
  (`Sized`) to these invariants.

`LegacyProofs`, second part, for every command line, length of the transfer, lengths of
its frames from 1 to `Full` in turn (`RasterAssumption`), mask and polarity,
whatever keys are pressed, and with memory for the template, the placement and
the chain cache or without, afresh at each image: `PageIsMeant` and
`NothingRefused`, from `RasterInv`. `PageShows` says only what is on display;
what the next image is derived from has to be known as well:

* `Paged`: what a page of `vga.c` may lag behind (`Sound`: by at most one status
  line, and never in polarity), and that the shadow raster holds the codewords
  the encoder believes it does, so that toggling the difference gives the next
  (`MonoReady`, `ColourReady`). A cached frame has the codewords of the window,
  frame and mask its key names (`CacheSound`);
* `Leads`: the equation of two frames is derived from `raw_frame`, whose header
  is only right if its left frame was shown just before it. `Chains` says that
  every pass in BW is built so, also behind an anchor, at the end of a window
  and in every repetition, by induction over what `FlattenSeq` joins
  (`FlattenGrows`). The right frame, kept in the cache with its header, is the
  next one shown; a cache that outlives its pass does no harm, for it never holds
  frame 0, with whose equation alone a pass can begin (`FirstFresh`);
* `Accumulated`: within a stripe the accumulator of each channel holds the sum
  of the headers and codewords of the images shown since the stripe began
  (`SumOf`), and between stripes nothing. `InStripes` says that a pass of `/RE:3`
  is one stripe after the other, so the images summed up are those the next image
  of parity joins (`SumsAreParity`). `SumIsEquation` then proves
  `CorrectXor`: sums of one to three frames of one length are the codewords of
  their equation once the headers are exchanged, and for two frames the length,
  which cancels out, is put back as that of a full symbol, hence the condition
  in `Affine`;
* `Waits` and `Shaped`: at a prompt `END_WINDOW` is on the screen and the pass is
  over, so nothing is left in the accumulator when the next begins
  (`LastIsParity`), also when an empty selection leads back to the prompt.

`RecordsProofs`, for every tree (`TreesAssumption`: finitely many nodes,
children that are nodes of the tree and none below a file, a size of each when it
is selected),
selection, size of the buffer, of a record and of a window
(`RecordsAssumption`), names already at the destination, any number of
reconstructions at once, and whatever changes, fails, is reset or killed:
`FinalStaysWhole`, from `RecordsInv == SenderInv /\ ReceiverInv /\ FinalIsWhole`.
The receiver compares what it wrote with a checksum, so it remains to show what
that is a checksum of, and that the document renamed is the one it wrote:

* an entry of the manifest says of its node what it was when it was selected
  (`ManifestType`, an induction over the depth of the scan, `ScanPathType`);
* `InOrder`: of a file that has not changed, what `read_piece()` has read and the
  halves of the ring from the one in use on are its first blocks, one after the
  other (`Pieces`). `RoundInOrder` keeps it through a round of the loop, where a
  half may run out in the middle of a record, and `ReadPieceInOrder` through any
  number of rounds. It is claimed of an unchanged file only; `producer_next()`
  looks again before FILE_END, and then all of it has been read (`WholeIsBlocks`);
* `Truthful`, of every record in the window and sent, and of the frames a
  reconstruction reads: a FILE_BEGIN gives the name of the file with its number,
  a FILE_END the checksum of that file as selected. Numbers are never used twice
  (`FileIdInjective`), so a file that was begun under one name cannot be ended
  with the checksum of another;
* `Owns`: the document a reconstruction writes is its own, is still partial and
  holds what it has written, so that another reconstruction of the same tree
  neither writes to it nor is renamed to its name. `UnusedName` says that a free
  name is found and is a variant of the one asked for: of one name more than
  there are documents, one is not taken (`NotTaken`).

`OnlyStorageStops` (`OnlyStorageFails`) is the converse: no check of the receiver
refuses a complete session of less than `Word` bytes. Its invariant is
`AgreeInv == StreamInv /\ FollowInv`. `Follows(s, v)` says that `v` is how a
reconstruction stands after each of the records `s`, and that it accepts each of
them (`Takes`: number, offset, size, checksum, counts, and the total reduced
modulo `Word`):

* `StreamInv`: while the file being read has not changed there is such a `v` for
  all that has been said, and its last state agrees with the producer (`Agrees`:
  the open file, what was read of it, the counts). The sender counts a file's
  bytes when it begins the file, the receiver as they arrive; both are the sums
  over the manifest (`Totals`, `SumModulo`). A changed file breaks the agreement
  for good, and then nothing that ends a transfer is said (`Altered`);
* `FollowInv`: a reconstruction that runs stands as `v` says of the records it has
  taken and always has one more to take (`Reading`), whatever another one does.

`ValidIsAll` (`ValidMeansAll`) is what a green VALID is worth, for trees of any
depth, directories selected twice or within each other included. Its one
hypothesis is `MaxLost = 0`: with a read of the manifest that fails it is false
(run `valid_partial`). `ValidMeansAll` looks for what it wants by a walk of its
own, level by level from the selected nodes; the proof follows one such way from
the disk to the phone, with `BringInv == ToldInv /\ ArriveInv`:

* each way down the tree has an entry of its own in the manifest, with the names on
  the way as its path (`ScanPathWays` for one call of the scan, `ScanWays` for its
  depth, `ManifestWays` for the selection). That they are different entries
  rests on where `FlattenSeq` puts things (`FlattenPlaces`). Scan and walk go
  equally deep, to as many levels as there are nodes, and no tree is deeper
  (`WantedWays`);
* `ToldInv`: of each entry the producer has done with, the record that completes
  it has been said (`Delivers`), and what ends a transfer is said after all of
  them (`Covers`). This is where a read that fails does harm;
* `ArriveInv`: a reconstruction has a document of its own for each file ended by
  the records it has taken, in its place and whole (`Has`), the file that is open
  is in its place (`Fills`), and a folder it knows is where it is known to be
  (`Finds`). A path is read off the documents (`PathsOf`, `PathsFacts`) and stays
  what it is whatever other reconstructions add and rename, as documents keep
  their parent and their first name (`Extends`, `PathsStay`).

As both maps keep different things apart, there are as many documents in a place
as were selected there (`NoFewer`).

`StreamSenderProofs`, for every set of transfers of width 3 or 4 with a window of
4 to 128 records and any directories and files (`TransfersAssumption`, what
`validate_config()` accepts), wherever a read fails and Esc is pressed:
`TypesHold`, `HeldSymbols`, `RecordsInOrder` and `FailsForAReason`, all from one
invariant, `IInv`:

* `InStream`: the window, index and count of the stream are those of the next
  record in the layout of the whole transfer; `Commit` proves that the two cuts,
  one at the start and one at each end of a window, keep it so. It needs that
  `Counted`, the first pass over the manifest, is the number of records there
  are (`KindsCounted`: an induction over the files, by way of `FlattenLen`);
* `Grouped`: the planes drawn so far of the group under preparation are the
  records from `Start` on, and the corrections are where `Applied` says;
* `Screen`: which slot and planes are shown at each `pc`, and that, while the
  group in preparation or in play is `Behind` the one on the screen, that one is
  `Held`: whole, in the other slot, its own correction applied and pending. This
  is what makes the check of `RestoreHidden` succeed: the correction that is taken
  out is in `patches` of the same slot and was applied to the same plane once;
* `Symbols` says which symbol is next, `Ordered` that what was shown is a prefix
  of the stream (`Reached` is its length), `Reasons` why the sender stopped.

`Induction` is what these proofs share: `Induct`, induction with the hypothesis
as a set of numbers in place of an operator, `Recursion`, that a recursive
function has its value, `Ranked`, that a finite set of numbers can be put in
order, and what `FlattenSeq` returns (`FlattenType`, `FlattenLen`,
`FlattenElements`) and keeps (`FlattenGrows`, `FlattenClosed`: what joining one
more sequence preserves holds of the whole), and that each element of each
sequence has a place of its own in it (`FlattenPlaces`).

`DisplayProofs`, first part, at every alignment, with or without memory:
`PlanFlags` (`FlagsMatch`), from `PlanInv`, which says it of each kind of group by
itself (`Agrees`): the runs flagged with the kind are those its list names, and
they are as many as the groups have lanes. So no run is in two groups
(`LanesDiffer`: the lanes of a group are runs of different slots, none of which
another group has), and when an edge too many makes the code give up all phase
groups (`GivenUp`) their runs are free again and those of the exact groups are
not. It uses no more of the map than that it makes at most `MaxRuns` runs.

`DisplayProofs`, second part, for every length of a period, a day and a word and
for hold times of at most half a word (`TicksAssumption`, a premise of each
theorem; no run instantiates `Ticks`, whose operators are `Clock!...` here):
`FaithfulHolds`, the count is at most one period from the time that has passed,
and `HoldKeptHolds`, no symbol is replaced more than one period before its time.
The heart is `PeriodsCounted`: what the BIOS has counted plus the one period
counted ahead of its interrupt is conserved, and a period is only counted ahead
while its interrupt is late (`pending <= late` in `Counted`). `Stamped` and
`Deadline` carry the distance from the flip to the deadline made of it, and
`ReachedIsLater` shows that the signed difference of two words is right for a
deadline less than half a word ahead.

Model-checked only: liveness (`AcceptReturns`, `WorkersReturn`, `Ends`), which is
out of the prover's reach with `ENABLED`, and `DrawnOnce`. The last is a
computation rather than an argument: which pixels the kernels toggle follows, cell
by cell, from the one placement map the code has, and the run computes just that,
at its alignment (`QR_X0` is 67) and two others. The map is built with
`SelectSeq`, of which the provers know nothing.

## 6. Where code and documents disagree

* `basis_retained`: a kill (or a failing write) between the two files of a plane
  basis leaves the basis without its record; later copies are DUPLICATE and
  recovery never rebuilds a basis that is on disk. `docs/RECOVERY.md` promises
  that every validated frame is retained atomically.
* `valid_partial`: a read of the manifest that fails looks like its end
  (`producer.c:211`, no `ferror()`), and the summary counts what was sent: the
  phone says VALID with the rest of the selection missing. `docs/QUICKSTART.md`
  calls a green VALID the completion signal.
* `stream_tail`: the experimental sender shows the records of a window that do
  not fill a group with the length they have, and refuses any frame that is not
  of full length (`sender.c:496`), beside a comment that says frames are of fixed
  length. Only planes are padded, so a tail with a short record ends the transfer
  as failed; the last record, TRANSFER_END, always is short.

Seen in the same way, without a run of their own:

* A basis whose record is already on disk returns DUPLICATE before recovery runs
  (`SessionStore.java:83`), so a plane group that has just become solvable stays
  unsolved until another frame is stored. `protocol/PLANE_XOR.md` says it is
  reconstructed. `EquationsSettled` leaves plane groups out; `PlanesSettled` is
  about them, and fails in the place of `EquationsSettled` in
  `store_transfers.cfg`, with `MaxCrashes` and `MaxFailures` 0 as well.
* With `/RGB3 /RE:C2 /ANCHOR:4`, the first pass over a window of 66 frames shows
  frame 65 in all three channels, the DATA left over
  (`dos_sender_legacy/src/sender.c:729`), and then anchor 63, the anchor left over
  (`sender.c:754`). Two different triples lock the decoder to BW, if no image of
  the window was read in two different channels before, and it reads one frame in
  three of the rest of that window. A rescue pass of single frames shows the same.
  `docs/BUILD.md` says that two equal triples identify a monochrome window;
  `OnlyMonochromeLocks` fails in the place of `LocksItsWindow` in `scanner.cfg`.
* A key is marked delivered before the write (`CameraScanner.java:683`). If the
  write fails, replays of the frame are dropped until the camera restarts, the
  session is reset or 512 other keys have passed, where `docs/RECOVERY.md` answers
  missing data with replays. `DeliveredKept` fails in `scanner.cfg` with
  `MaxFailures = 1`.
* `dos_sender_legacy/src/sender.c:1030`: an M entry that names no frame of the
  window clears the selection but leaves it in force; R then shows nothing, where
  `docs/QUICKSTART.md` has R replay "the current remembered selection, or the
  whole window".
* `dos_sender_legacy/src/sender.c:1116`: I in `/CAL` inverts the state of the
  program but not `screen_invert`, and `vga_show_prepared_at()` refuses an image
  of the other polarity: the calibration ends. `docs/CALIBRATION.md`: "`I` tests
  inversion. `Esc` exits."
* The experimental sender restores plane 3 of a slot that is still displayed when
  it leaves a group for a tail or for the end, and applies a correction to plane 3
  while plane 3 is displayed; `docs/plane_streaming_design.md` says the display is
  blanked first. What is on the screen is then one symbol turning into another
  plane's; `HeldWhole` is about the time a symbol is held. It holds neither the
  last symbol before a tail nor the tails themselves for the time `/HOLD` asks.
* With `LosesPref = TRUE`, `MissingExact` fails: a kill before the preference is
  written makes the next frame re-activate the session without `reload()`, and
  the missing ranges list frames that are on disk (`docs/RECOVERY.md` promises
  the ranges after a restart). They heal as the frames are seen again.
* With `ComparesWindow = FALSE`, `NothingLost` fails: when nothing of a window
  was decoded, not even its `END_WINDOW`, the phone still shows the previous
  window with Missing `-`, and Enter loses the window. `docs/QUICKSTART.md` says
  to press Enter when it shows `-`.
* `DoneMeansAll` is stated for files that can be read to the end. When one
  cannot, `producer_fill_window()` returns 0 and a transfer of earlier windows
  is reported as complete. The receiver does not say complete.
* The first RGB3 pass goes on at frame 2 behind the image of frames 0..2: frames
  0 and 1 are in no equation of that pass. A full pass (`OneLossSolvable`) is as
  documented.
* `vga32_show_data_qr()` switches to the palette of ordinary DATA before it
  stores the first tail on a hidden page and selects it: until then the parity on
  the screen is shown under the wrong palette. Its raster is intact, as the
  comment in `playback_tick()` says; `Legible` leaves out the palette there.

## 7. What is left out

* The deadline arithmetic of `dos_sender32/main.c` (0.9 of an interval) and the
  hold times of the 16-bit stream sender; that a wait for a deadline ends.
* Byte layout, CRC and whitening as bytes; a symbol that does not encode, for its
  length (the payload limit is validated on the command line) or for want of
  memory for the encoder's tables, which ends the transfer. The placement map of
  `vga.c` can only be missing with those tables: `prepare_placement_map()` takes
  it from the table that encoding the same image has just made
  (`dosferPrepareMatrixCache()`), so the encoder fails first.
* The register writes, fonts and the 640x480 mode of `vga.c`; `/CAL` and `/BENCH`.
* `dos_sender/src/sender.c`: spooled windows, `transmit()` and the keys of the
  older path. `validate_config()` forces a plane width, so they never run. Its
  `vga.c` is modelled as far as the plane stream calls it. Two failing reads: one
  of the manifest (line 374) makes TRANSFER_END early, and the transfer then stops
  for want of a record; a file that shrank within a record goes out short before
  the next read notices.
* The calibration counters and the decode rate of `SessionStore`; `activate()`
  after a `reset()` that could not delete a file.
* `Reconstructor.java:35` skips the high word of the byte total: above 4 GiB,
  beyond the documented limit, a complete transfer fails its check
  (`OnlyStorageFails` is stated below it).
* Camera sessions, pixel conversion, decode attempts and their statistics; the
  locking of the decoder to BW inside `Transfer`; DOS memory set-up.
* Build files, the vendored QR code, test tools, `pipeline.c` (unused).

## 8. The plan

Done, in this order: `FrameStore` and `SessionStore` with proofs and refinement;
`CameraScanner`; `LegacySender`; `Transfer` with `WindowsWhole`;
`PlanePlayback`; `Records`; `VgaRaster`, `LegacyRaster` and `StripePlan`;
`StreamSender`; the kill inside `reset()`; the proofs about `PlanePlayback`;
`Ticks` with its proofs; the proofs about `CameraScanner` and `StreamSender`, the
types of the legacy sender, `LossIsMadeUp` and `DoneIsWhole`, the exactness of
ranges, total and recovery in the store, `PageIsMeant` and `NothingRefused`,
`FinalStaysWhole`, `OnlyStorageStops`, `ValidIsAll` and `PlanFlags`.

What remains worth doing:

1. `DrawnOnce` for other symbol versions, with what a placement map has to satisfy.
2. The deadline of `dos_sender32/main.c` on top of `Ticks`: no symbol shown for
   less than 0.9 of an interval.
3. A second sender under `Transfer`'s user: `StreamSender` shows each window once
   and takes no keys, so what its viewers need is a camera that misses little.
