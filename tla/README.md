# usbipdcpp in TLA+

usbipdcpp is a USB/IP server library: it exports real USB devices (through
libusb) and virtual ones to remote machines.  This directory holds TLA+ models
of its server, sessions, libusb back end and virtual devices, the TLC
configurations that check them on small instances, and proofs for TLAPS.

Paths such as `src/Session.cpp` are relative to the repository.
`PROJECT.json` gives, for every definition that models code, the lines it was
translated from.

## The system

| Part | State | Operations | Talks to |
|---|---|---|---|
| **Server** (`Server.cpp`) | `available_devices`, `using_devices` under `devices_mutex`; the session table (weak pointers) and `active_sessions` under `session_list_mutex`; `running`, acceptor, `io_context` | `start`, `stop`, `accept_loop`, `add_device`, `detach_available_device`, `try_moving_device_to_using`, `release_device`, `remove_session` | creates Sessions; notifies `ServerObserver`s, outside its locks |
| **Session, OP phase** (`Session.cpp: run, parse_op`) | `current_import_device`, `current_handler` | device list, import | Server (lists), device handler (`on_new_connection`) |
| **Session, URB phase** (`transfer_loop, receiver, sender`) | `write_buffer`, `read_buffer`, `has_data`, `should_immediately_stop`, `sender_done`, the socket | `submit_ret_*`, `immediately_stop`, two threads | device handler (`receive_urb`, `handle_unlink_seqnum`, `on_disconnection`) |
| **AbstDeviceHandler** | `responder` under `session_mutex_` | `register_responder`, `trigger_session_stop` | points back at the Session |
| **LibusbServer** | the event thread, the hotplug registration | `bind_host_device`, `unbind_host_device`, `try_remove_dead_device`, hotplug callbacks, `stop` | Server's lists |
| **LibusbDeviceHandler** | `transfers_`, the callback-argument pool, `pending_count_`, `client_disconnection`, `device_removed` | `receive_urb`, `handle_unlink_seqnum`, `transfer_callback`, `on_disconnection` | libusb, Session |
| **TransferScheduler** | a queue, a deadline and a `processing` flag per endpoint, one timer | `submit`, `cancel`, `on_urb_done`, `on_timer` | virtual device handlers |
| **VirtualDeviceHandler** | alternate settings, responder, its interface handlers | dispatch of URBs, unlinks and control requests; descriptors | Session (`responder`), interface handlers |
| **Endpoint channels, PipeDeviceHandler** | pending host requests, data waiting to be sent | blocking and non-blocking reads and writes | device threads and Session |
| **Input devices** (keyboard, pad, digitizer, mice) | current and last state, a sender thread | key, button and motion calls, `send_report` | HID channel, program's threads |
| **Mass storage** | the Bulk-Only state, staging buffer, mapping, splice pipe | SCSI commands, direct and staged transfers | image file, Session's sender |
| **RNDIS, ECM, CDC-ACM** | queued responses and notifications, packet filter, line state, suspended OUT transfers | encapsulated commands, frames, line requests | network back end, program's threads |
| **UVC, UAC** | negotiated format, current frame or chunk, clocks and residues | probe and commit, rate changes, isochronous packets | sources and sinks, scheduler |
| **Protocol, transfer operators** (`protocol.cpp`, `*TransferOperator.cpp`) | the handles of transfers | writing and reading of packets | Session, peer |
| **Containers** | RingBuffer, ObjectPool, SmallVector, ReuseMap | | |

### What is hard here

* A response is enqueued by any thread, but sent by one; the queue is a double
  buffer whose wait predicate reads an atomic flag that is raised *without* the
  mutex of the condition variable.
* A session can be told to stop by the server, by an unplug event, by either
  of its threads, or by its peer, at any point; the read and the write it may be blocked in must
  both be broken off, and its threads must not be joined in a cycle.
* A device changes hands between two lists while the libusb event thread takes
  it out of them, in two critical sections.
* A `Session` is kept alive by a coroutine frame, by its detached thread and by
  `stop()`'s snapshot; `stop()` waits for destructors.
* A USB transfer is completed by the event thread while the client unlinks it,
  disconnects, or the device disappears.
* Inside a virtual device data and requests meet in channels: either may come
  first, writers may block, requests are limited and may be unlinked, and a
  disconnection must free everybody.
* An answer is queued with a pointer into the handler's memory and sent later
  by another thread (mass storage).
* The wire format has no lengths; descriptors refer to each other by number
  and count themselves; packet sizes must add up to a rate.

`PROJECT.json` ("hazards") lists them with the line where each bites.

### What makes each part correct

* Session: responses leave in the order they were enqueued; a stop always ends
  both threads; clean-up happens when nobody else is there.
* Server lists: a busid names one device in one list; a device in use has one
  holder who will release it; every arrival and departure is reported once.
* Server life cycle: `stop()` returns, and leaves neither session nor coroutine.
* LibusbDeviceHandler: every URB is answered once, RET_SUBMIT before
  RET_UNLINK; `on_disconnection` returns, and only when libusb is done with the handler.
* Channels, pipe, scheduler: first in, first out; no lost wake-up; everyone is
  released; an unlinked URB stays silent.
* Input devices: the host's picture becomes the device's state, motion adds up.
* Mass storage: the image is what the host wrote; every command has its status.
* Network, serial, video, audio: nothing lost, repeated or left over from an
  earlier connection; exact rates; whole frames.
* Protocol: writer and reader stay in step.  Descriptors: lengths and
  references are right in every composite device.

## Modules

### SessionTransfer — one Session in its URB phase

Variables carry the names of the members they model; `rx`, `tx`, `prod[p]` and
`stp[s]` are the program counters of the main thread, the sender, the threads
that answer URBs and the callers of `immediately_stop`.  A response is
`<<producer, n>>`.  `enqueued` and `delivered` are history variables.

A critical section of `swap_mutex` is one step where all it touches is written
under that mutex.  The sender's is split into evaluating the predicate
(`SenderLock`), entering the wait (`SenderWait`), swapping (`SenderSwap`) and
lowering the flag (`SenderClearFlag`), because `wakeup_sender` (`WakeupStore`,
`WakeupNotify`) writes and notifies without the mutex.  The timed wait of
`transfer_loop` (`WaitSender`) may end at any time.  A write can complete only
on an open socket and can fail at any time; a read can return a command (also
one buffered before a shutdown) or fail.

`on_disconnection` is external to this module: it waits for submissions that
are under way and there are none afterwards.  `LibusbTransfers` shows this of
the libusb handler (`QuietWhenClosed`).

### DeviceRegistry — who owns a device

The two lists, the Sessions that import and release, and the back end: the
libusb event thread with its queue of hotplug callbacks, and other threads that
call bind, unbind and try_remove_dead_device.  A device object is
`<<busid, n>>`, the n-th made for that port.  Each critical section of
`devices_mutex` is a step; notifications are steps of their own, after it.
`gone` (objects whose device was pulled out) is what is true of the bus;
`removed` is what the handlers know.

**DeviceOwnership** is the abstract specification: a device is on offer, held by
one client, or gone, and a busid names one device at a time.  DeviceRegistry
implements it (`ImplementsOwnership`) under the mapping of its `INSTANCE`: the
offered devices are `available`, a client holds `dev[s]` between
`try_moving_device_to_using` and `release_device`.

### ServerLifecycle — start, stop, accept_loop

The coroutine's place is `co`; it runs on the network thread until it suspends
in `async_accept`, and `stop()` runs what is left of it from `poll()`.
`held[i]` is the set of owners of session `i`; `Destroy` fires when it is empty.
What a session does between start and end is one step here
(`ParseOpEnds`): SessionTransfer shows that it ends once it is told to.

### LibusbTransfers — transfers of one device

`Args` are the objects of the callback-argument pool, `Urb` the sequence
numbers clients use; `transfers` maps one to the other as `transfers_` does.
`trx[a]` is libusb's view of a transfer.  The receiver thread (`rx`) and the
event thread (`ev`) interleave; `out` is the sequence of responses handed to
Session.  Several connections to the same handler follow one another.

### InEndpointChannel, InChannel — the way from device to host

InEndpointChannel holds the channel's operations as operators on a record
(`buffer`, `queue`, `disconnected`, `out`, and `sent`, the data delivered so
far): push, write in parts, request, eviction at the limit, cancel, the two
halves of `on_disconnection`.  They take the channel and return it, so that
InChannel and PipeDevice, and the proofs of both, share them.  InChannel
runs writers (blocking, with time limit, non-blocking) and the receiver on one
channel; each critical section of `channel_mutex` is a step, so a writer that
appended but did not yet answer (`"flush"`) and the gap between clearing data
and clearing requests are states.  It is checked as a message queue and as a
byte stream.

### PipeDevice — PipeDeviceHandler

One stream channel per IN endpoint (the operators of InEndpointChannel again),
one queue per OUT endpoint, readers and writers of the program.  Requests are
numbered in order of arrival; `SeqnumNewer` compares their wrapped numbers, and
`Older` is a round of the loop in which `read()` looks for the oldest front.
A writer that is still in a channel when `in_channels.clear()` destroys it goes
on in freed memory (`PipeWriterInFreed`); nothing is claimed of what it does, and
`Released` does not count it among those that come back.  `control_ins` remembers
which requests were control INs, for `UnlinkTellsTruth`: a control IN is the one
URB of which ECONNRESET may be said after its answer, and `PipeUnlinkIsTrue`,
without that exception, is violated (run `pipe_unlink`).

### TransferScheduler

Queues and deadlines per endpoint, the one timer with its states (set, expired
with the handler queued, aborted with the handler queued, by `cancel()` or by an
`expires_at` on a pending timer: `CancelTimer`), posted functions,
and the handlers that answer and report later.  Time is counted in ticks.

### VirtualDevice — VirtualDeviceHandler and its interfaces

Opening with roll-back, dispatch by endpoint and alternate setting, standard and
class requests, unlinking.  `Interfaces` describes the device; the instance is a
composite one with interfaces that answer unlinks, do not, or have no handler.

### InputDevice

Five devices by `hid`: what the program may enter (`InputsOf`), what a turn of
the sender reports and resets (`ReportsOf`, `AfterReport`), the order of
announcing, resetting and starting in `on_new_connection`, and a host that reads.

### MscBulkOnly

The receiver's state machine, the sender that reads staging, mapping or file
when it sends, and the splice pipe they share, for an image that is read into
staging, mapped, or spliced.  The host keeps to the Bulk-Only protocol, and may go
away and come back at any moment of a command (`MscReconnect`).  `image` is what
the host believes to be on the disk.

Two history variables say where the code departs from that.  `widened`: on Linux
a hole is extended to whole blocks of the file system (`Widened`, blocks of
`HoleUnits`), and it was not what had been asked for.  `leftover`: what clients
that left between file and pipe, or pipe and file, have left in the splice pipe,
which nothing drains; it lies in front of the bytes of every later transfer.
Disk and READ are claimed as long as neither has happened
(`DiskIsWhatHostWrote`, `ReadReturnsDisk`), the rest always.  The pipe is taken to
have room for a URB, and a splice to move all of it.

### NetworkControl, NetworkData, SerialPort

RNDIS and ECM control: commands, responses and their notifications, HALT,
RESET, filter.  RNDIS and ECM data: unwrapping by offsets and lengths as the
code checks them, back end or subclass, suspended transfers; `delivered` keeps,
for each OUT transfer, the frames the device was given.  CDC-ACM: line
coding, control lines over two handlers, notifications, OUT data.

### UvcStreaming, UacStreaming

Negotiation, frame clock and packets of the camera; packet sizes with residue
(kept at the width `AccWidth`), chunks, pacing and mute of the microphone, and
the WAV sink of the speaker, whose file may be looked at between any two writes.
A request that changes the stream may come at any moment, as no lock excludes it;
`disturbed` records that one met a URB under way, which ends the claim of
`RateExact` and `SourceContinuous` until the stream is set again at rest.
`fill_pcm` of one packet is one step.  The chunk of the old stream is kept when a
new one begins, as in the code; `held_frames` counts the frames of the chunks
there were.  A file that cannot be opened (`Opened(w, FALSE)`) leaves the sink
counting, modulo `WavWidth`; `before` is what had been counted when it was opened.

### UsbIpWire — protocol.cpp and the transfer operators

Both directions are streams of fields.  Writers are translated from `to_bytes`,
`to_socket` and the operators, readers from `from_socket`; the client's half is
external.  `heap` is the set of live transfer handles.  Sums of lengths (`SumTo`)
and the reading of a device list (`ReadsDevices`) are recursive functions.
`UsbIpWireAssumption` asks of the constants what their C++ types grant: lengths
are naturals, fewer packets than the `NonIso` mark, interface counts of a byte.

### Containers

RingBuffer, SmallVector, ReuseMap and ObjectPool, each beside the sequence or
function it stands for; of an object, `lent` counts the users that hold it.  The
loops of the ring and of the video packets are recursive functions (`WriteBytes`,
`FillPackets`), not recursive operators, so that they can be proved about.

### Enumeration

A program assembles functions at free interface numbers; the host reads the
header, then the configuration, then the rest.  A descriptor has the length it
is, the length it says, and what it refers to.  `EnumerationAssumption` keeps
strings and lists of sample rates to what `bLength`, one byte, can express: 126
characters and 82 rates.  Beyond, the code's cast wraps (see Observations).

### MC modules

`MCSessionTransfer`, `MCDeviceRegistry`, `MCServerLifecycle` and
`MCLibusbTransfers` add the symmetry sets; the configurations give the
constants.

`MCTransport` and `MCClasses` put modules side by side that share no state and
do not interact except through the channels each of them contains: a variable
`part` (`class`) is chosen in the initial state, the next-state relation of that
module runs, and the others stay in their initial states.  Every behaviour of
every module is a behaviour of the sum, and the invariants of all are checked on
it.  `MCTransport` also gives the composite device of the dispatch.  A module that rests has none of its fair actions enabled, so that the
temporal property is not satisfied by a part that rests.  The properties of the
sums gather the modules' properties by subject.

## Runs

| Run | Instance | Checks |
|---|---|---|
| `session_transfer` | 2 device threads, the receiver as a third submitter, 1 stopper, sends that fail or throw | `TypeOK`, `InOrderDelivery`, `NoResponseUncovered`, `ExclusiveTeardown`, `StopReachesSender`, `StopEndsSession`, `SenderEndEndsSession` |
| `session_transfer_wakeup` | a peer that reads | **violated:** `SubmittedIsSent` |
| `device_registry` | 1 port, 2 clients, event thread and 1 user thread, 2 plugs | `TypeOK`, `ListsAgree`, `NoDanglingResponder`, `ObserversInformed` |
| `device_registry_live` | 2 ports, 2 clients | `ImplementsOwnership`, `UnplugEndsSession` |
| `device_registry_zombie` | 1 port, 1 client, 2 plugs | **violated:** `NoZombie` |
| `server_lifecycle` | 3 sessions, 2 starts, callbacks that throw | `TypeOK`, `StopLeavesNothing`, `SessionEventsPaired`, `StopReachesEverySession`, `StopReturnsUnlessOrphan` |
| `server_lifecycle_throw` | ... with a thread-creation callback that throws | **violated:** `StopReturns` |
| `libusb_transfers` | 2 URB numbers, 2 argument objects, unlinks, unplugging, 2 connections | `TypeOK`, `AnsweredOnce`, `SubmitBeforeUnlink`, `QuietWhenClosed`, `TrackedIsAlive`, `DisconnectionCompletes`, `UnlinkAnswered`, `RemovalEndsConnection` |
| `virtual_transport` | InChannel, PipeDevice, TransferScheduler, VirtualDevice, InputDevice | `TransportTypeOK`, `ChannelKeepsOrder`, `NoLostWakeup`, `ServedInArrivalOrder`, `AnswersTrue`, `HidFaithful`, `Released` |
| `pipe_unlink` | the same instance | **violated:** `PipeUnlinkIsTrue` |
| `storage_holes` | MscBulkOnly with blocks of the file system twice as large as those of the disk | **violated:** `HolesAreExact` |
| `virtual_classes` | MscBulkOnly, NetworkControl, NetworkData, UvcStreaming, UacStreaming, SerialPort, UsbIpWire, Containers, Enumeration | `ClassesTypeOK`, `StorageCorrect`, `NetworkCorrect`, `StreamingCorrect`, `WireInSync`, `ContainersAgree`, `DescriptorsConsistent` |

Each property has in `PROJECT.json` a mutated definition under which TLC finds
it violated.  Many parts of the gathered properties have one of their own, in
their modules, under a comment that begins with "Mutant":

| Part | Broken by |
|---|---|
| `ListsAgree` | `MoveKeepsAvailable`, `AddIgnoresUsing`, `ReleaseKeepsUsing`, `ReleaseAlways` |
| `ObserversInformed` | `SweepReports`, `ReleaseDropsSilently` |
| `StreamIntact`, `AnsweredInOrder`, `RequestsAccounted` | `SendOneTooMuch`, `InRequestOvertakes`, `EvictSilently` |
| `NoMissedMatch`, `NoStall`, `DisconnectReleasesWriters` | `DrainOne`, `NotifyNobody`, `NotifyOne` |
| `ReadInArrivalOrder`, `NoSleepingReader`, `UnlinkTellsTruth`, `DisconnectReleasesReaders` | `NewerPlain`, `ControlInSilent`, `UnlinkInOnly`, `ClearSilently` |
| `UrbsHaveWakeup`, `EveryUrbServed`; `ServedInOrder`; `CancelledStaysSilent` | `DoneWithoutKick`; `IsDueBusy`; `CancelAny` |
| `ControlAnsweredOnce`, `AnswererHasResponder`, `UnlinkIsTrue` | `ControlUnanswered`, `OpenFailsHalfOpen`, `UnlinkKeeps` |
| `HostSeesDevice`, `MotionConserved`; `NoSleepingSender`, `StopCompletes` | `InputUnnoticed`, `AfterReportKeeps`; `StopQuietly` |
| `StagingOutlivesSender` | `InTransferClears` |
| `NoStaleResponse`; `FramesReachDevice`, `OutAnsweredOrWaiting`, `NoZeroLengthPacket`; `PortAgrees`, `OutDataOnce` | `HaltKeepsResponses`; `UnwrapAll`, `DisconnectKeepsOut`, `WrapUnpadded`; `SetLinesSilently`, `AcmDisconnectKeeps` |
| `FramesWhole` | `PacketNoEof`, `CommitKeepsOffset` |
| `InSync`, `HandlesOwned`, `HostGetsDeviceData` | `RepImportInterfaces`, `RefuseLeaks`, `SlotOffsetPacked` |

### What the violated runs show

* `session_transfer_wakeup`: the store and the notification of `wakeup_sender`
  both fall between the sender's test of the predicate and its wait.  The
  response is sent only when another one wakes the sender.  `receiver()` takes
  `swap_mutex` for the stop flag for this very reason.
* `device_registry_zombie`: `handle_device_left` does not find the device in
  the available list, the session gives it back (its handler is not marked
  yet), and the second half no longer finds it in the used list: a device that
  is gone stays on offer.  The README says that this cannot happen.
* `server_lifecycle_throw`: `Session::run` throws from
  `after_thread_create_callback` when its thread already runs.  `accept_loop`
  removes the session from the table, so that `stop()` cannot tell it to stop
  and waits for it.  (`StopReturnsUnlessOrphan` holds: this is the only way.)
* `pipe_unlink`: a control IN waits for its data in `in_channels[0]`, and its
  set-up packet, as a notification for `read()`, in `out_channels[0]`.  It is
  answered by `write()`; a CMD_UNLINK that arrives before `read()` has fetched the
  notification finds its number there and is answered ECONNRESET, "cancelled and
  no RET_SUBMIT", after the RET_SUBMIT.
* `storage_holes`: `RawImageBackend::punch_hole` extends the hole to blocks of
  the file system before it calls `fallocate`, and so zeroes sectors beside it
  that belong to other files of the host.  A block of 4096 bytes and sectors of
  512 are the usual case.  The test of UNMAP (`test_msc_handler.cpp:596`) uses
  another back end.

### Bounds

All bounds are constants: responses per thread (`MaxResp`), commands read
(`MaxCmd`), device objects and plugs per port (`MaxMade`, `MaxPlugs`), user
calls (`MaxCalls`), sessions and starts (`MaxSessions`, `MaxStarts`), submits,
unlinks and connections (`MaxSubmits`, `MaxUnlinks`, `MaxConnections`).  Two
submitting threads besides the receiver and one response each are enough for
every order of an enqueue, a store and a notification against the sender's
steps; a second response per thread adds nothing to the races of the flag, and
order is proved for any number.  Two clients and one port give every
competition for a device; a second object under the same busid gives
replugging.  A channel of two places with writes of one and three
bytes, two writers and two pending requests out of three gives partial writes,
full and empty buffers, eviction and competing writers, over two connections.
The scheduler has an isochronous and a bulk endpoint and three URBs, enough for
a successor to be cancelled or re-armed while another endpoint's timer runs; the
pipe's sequence numbers wrap after the second request (`SeqBase`, `SeqSpace`).
The host of the mass storage device gives two commands over blocks before, at
and beyond the end of the disk, in pieces of any size.  Rates of 3 and 6 frames
in 4 packets have a residue; frames of 2 and 3 units do not fill their packets.
Two functions in a device put each at a first and at a later interface number.
`virtual_transport` has one writer and one reader of the pipe, as `Released` is
temporal and needs somebody to be waiting at each place, not many; its safety
properties are proved for any number.  Blocks of the file system (`HoleUnits`)
are twice those of the disk, so that a hole can take a neighbour along and can
also be exact.  A WAV file of six packets (`WavWidth`) wraps within two URBs.
Three sessions and two starts give a session that is waiting,
running and failed at the same time, across a restart.  Deadlock is not
checked: sessions, servers and connections end, and bounds stop the rest.

### Fairness

* Threads run: weak fairness on each thread's own steps.
* A mutex is granted to a thread that keeps asking: strong fairness where the
  other side may take it again and again (`RxSetStop`, `WaitSender`).
* I/O on a socket that was shut down or closed returns (weak fairness on the
  failing read and write, only then).  Nothing is assumed of the peer; only
  `ReadingPeerSpec`, for `SubmittedIsSent`, adds that it reads.
* libusb delivers queued hotplug callbacks, and ends transfers that were
  cancelled or whose device is gone.  In LibusbTransfers the callback for a
  removed device has strong fairness, as the event thread runs it between
  transfer callbacks.  A transfer that is not cancelled need never end.
* Virtual devices: threads of the program that were woken get the lock, the
  receiver finishes `on_disconnection`, time passes, a timer that is due fires,
  the scheduler's thread runs, handlers report the URBs they were given
  (`UrbProcessCallback` must do so), and the sender thread of an input device
  runs.  Readers of the pipe have strong fairness, as the receiver takes
  `pipe_mutex` in between.  Nothing is assumed of host or user.
* A session that was told to stop leaves its loop: assumed in DeviceRegistry,
  ServerLifecycle and LibusbTransfers, shown by `StopEndsSession`.

## Proofs

`SessionTransferProofs` proves, for any set of threads and any bounds and from
`SessionTransferAssumption` alone (the receiver is not one of the other
producers; the bounds are naturals):

| Theorem | States |
|---|---|
| `TypeCorrect` | `Spec => []TypeOK` |
| `DeliveryInOrder` | `Spec => []InOrderDelivery` |
| `ResponsesCovered` | `Spec => []NoResponseUncovered` |
| `TeardownExclusive` | `Spec => []ExclusiveTeardown` |
| `StopNotLost` | `Spec => []StopReachesSender` |

None of these is inductive alone.  `InOrderDelivery` says nothing of the
responses still on their way: `Conservation` adds that `enqueued` is
`delivered`, then what the sender holds, then `read_buffer`, then
`write_buffer`, element by element.  A swap keeps this only if `read_buffer` is
empty, a pop only if the sender holds nothing: `Places`.  Clearing the buffers
breaks it, which is harmless because the sender has been joined: `Teardown`,
which also carries that the flag was set while the sender was not between test
and wait.  `IInv` is their conjunction with the types.  `TypeStep` and
`FlowStep` have one step per action; only `EnqueueRet`, `SenderSwap`,
`SenderPop` and `SenderSend` move responses and need an argument.

`DeviceRegistryProofs` proves, for any ports, clients, back-end threads and
bounds and from `DeviceRegistryAssumption` alone (`None` is not an object, a
session or a port; the event thread is not one of the users; the bounds are
naturals and the options Booleans):

| Theorem | States |
|---|---|
| `TypeCorrect` | `Spec => []TypeOK` |
| `BusidUnique` | `Spec => []SingleListing` |
| `HolderExclusive` | `Spec => []HolderListed` |
| `NoneLeftInUse` | `Spec => []UsedIsHeld` |
| `ResponderAlive` | `Spec => []NoDanglingResponder` |
| `OfferIsIdle` | `Spec => []AvailableIsIdle` |
| `ListsStayConsistent` | `Spec => []ListsAgree`, the four above that make up ListsAgree |
| `RefinesOwnership` | `Spec => ImplementsOwnership` |

`release_device` works by name: it takes whatever is used under the session's
busid.  That this is the session's own device is `HolderListed`; that it is
listed nowhere else needs `OwnName` (a used device is listed under its own
busid).  `NotYetServed` and `Made` say that a session gets its device once and
that a new object is new, which the refinement needs for `Take` and `Offer`;
`UsedMade` and `NotOpen` carry `AvailableIsIdle` through `add_device` and
`release_device`.  `TypeStep`, `ListingStep`, `HandlingStep` and
`RefinementStep` have one step per action.  In the refinement `AddDevice` is
`Offer`, `Detach` and `Unbind` are `Withdraw`, `TryMovingDeviceToUsing` is
`Take`, `ReleaseDevice` is `GiveBack` or `Discard`, `StopClear` is `Close`, and
the other steps are not seen.

`ObserversKeepCount` (`Spec => []ObserversInformed`) speaks of notifications
that are sent after the lock is given back.  The property counts who is about
to report; the proof has to name them: `Departures` says of every object that
its report is not begun (it is listed, or not made yet), in the hands of exactly
one thread of the back end or one session, or made once; `Attachments` says at
which places of a session the attachment and the release were reported.

`LibusbTransfersProofs`, for any sequence numbers, callback arguments and
connections, from `LibusbTransfersAssumption`:

| Theorem | States |
|---|---|
| `TypeCorrect` | `Spec => []TypeOK`, with `pending_count` a natural number |
| `NoDoubleAnswer` | `Spec => []AnsweredOnce` |
| `UnlinkAnsweredLast` | `Spec => []SubmitBeforeUnlink` |
| `ClosedIsQuiet` | `Spec => []QuietWhenClosed` |
| `NoDanglingArguments` | `Spec => []TrackedIsAlive` |

That `pending_count_` never falls below zero is no matter of types: it follows
from `Counted` (it is the number of callback arguments in use, plus the callback
that has returned its own and not yet counted down).  `QuietWhenClosed` is read
off it.  `Owned` says who holds an argument, so that a callback and an unlink
never work on the same one after it was given back; `Final` bounds the
answers of a number *and* the URB that is still outstanding by the submits of
that number: without the outstanding one the step that answers it would not
preserve `AnsweredOnce`.  `Reported` covers the first use of a number.

`ServerLifecycleProofs`, for any number of sessions and starts, throwing
callbacks included, from `ServerLifecycleAssumption`:

| Theorem | States |
|---|---|
| `TypeCorrect` | `Spec => []TypeOK`, with `active_sessions` a natural number |
| `StopIsComplete` | `Spec => []StopLeavesNothing` |
| `SnapshotIsComplete` | `Spec => []StopReachesEverySession` |
| `EventsPaired` | `Spec => []SessionEventsPaired` |

`stop()` trusts a counter: `Counted` makes it the number of live sessions, and
`Holders` makes a session live exactly as long as coroutine, thread or snapshot
own it.  `Table` says who keeps a session in the table; `Shutdown` says how far
the accept loop can still be at each step of `stop()`, above all that no
coroutine is left when the snapshot is taken.  `Events` pairs the notifications
through the places where the end of a session is still owed (`Owed`).

`TransportPartsProofs` has the channel, the scheduler and the dispatch of virtual
devices.  The scheduler, for any endpoints, delays, URBs and connections, from
`TransferSchedulerAssumption`:

| Theorem | States |
|---|---|
| `SchedTypeCorrect` | `SchedSpec => []SchedTypeOK` |
| `SchedAnswersInOrder` | `SchedSpec => []ServedInOrder` |
| `SchedCancelIsFinal` | `SchedSpec => []CancelledStaysSilent` |
| `SchedNeverForgets` | `SchedSpec => []UrbsHaveWakeup` |

`SchedInv` says that a URB is queued, due, with a processor, answered or
cancelled, and in one of these only (`QueuedOnce`, `OneAtATime`), that these
places follow one another in the order of the endpoint (`InPlace`), and that
`processing` names the URB that is on its way *of this connection* (`OnItsWay`):
handlers may report after a restart, and their report must not be taken for the
present one.  The choice of `schedule_next` needs only that a set of naturals
has a least element.

The dispatch of VirtualDevice, for any list of interfaces, from
`VirtualDeviceAssumption` (there is an interface, and each has alternate
setting 0):

| Theorem | States |
|---|---|
| `VdTypeCorrect` | `VdSpec => []VdTypeOK` |
| `VdAnswersOnce` | `VdSpec => []ControlAnsweredOnce` |
| `VdRespondersLast` | `VdSpec => []AnswererHasResponder` |
| `VdUnlinkHolds` | `VdSpec => []UnlinkIsTrue` |

The answers matter through three sets that do not meet: answered, reported as
cancelled, waiting (`Outcomes`).  `Responders` says which responders are set
while the interfaces are opened or closed one after the other, roll-back
included.

The channel, for any capacity, any limit of requests, any number of writers
and both kinds of channel, from `InChannelAssumption`:

| Theorem | States |
|---|---|
| `ChTypeCorrect` | `ChSpec => []ChTypeOK` |
| `ChStreamIntact` | `ChSpec => []StreamIntact` |
| `ChAnsweredInOrder` | `ChSpec => []AnsweredInOrder` |
| `ChRequestsAccounted` | `ChSpec => []RequestsAccounted` |
| `ChNoMissedMatch` | `ChSpec => []NoMissedMatch` |
| `ChNoStall` | `ChSpec => []NoStall` |

First come lemmas about the operators of InEndpointChannel, for any channel:
`try_send_one` and each round of `try_send_pending_locked` leave two sequences
as they are, all data (delivered, then buffered: `Whole`) and all requests
(answered, then waiting: `Line`).  `DrainServes` carries this over the loop, by
a least round at which it would fail; `RequestJoins`, `PushStream`,
`PushMessage` and `CancelTakesOut` say what the others add or take out.
The invariant `ChInv` then says that `Whole` is what was accepted (`ChData`)
and that `Line` is increasing and complete but for what was cancelled (`ChLine`).
`NoStall` needs `RoomAhead`: when the buffer is empty and a writer waits,
another one is on its way; it is what one `notify_one` per answer has to keep
up, and it is why an answer from pulled data, which notifies nobody, does no
harm.

`TransportProofs` has the rest of the transport.  `InputInductive` proves
`InputTypeOK` and `NoSleepingSender` of the input devices, and `HidInductive`
what their host sees, for any number of inputs and reports.  `HidTold` speaks of
the state *reported* last (`state_last`; the absolute mouse keeps no such copy):
the newest queued report of its identifier, or else what the host shows, tells it
(`Told`), unless nothing was ever pressed.  It needs no assumption about the
sender's turn: between a change and its report `HidFaithful` promises nothing,
and the sender, which cannot be asleep then (`InputInv`), makes the reported state
the present one.  `HidMotion` and `HidIds` say that motions are numbers and that a
queue has reports of the device's own identifiers.  `OneReportSent` is a turn of
the sender for four devices; `KeyboardSent` is the keyboard's, with two reports,
two identifiers and a queue that may drop.  Sums over the queue
are a recursive function (`SumOf`).  The provers cannot instantiate the library's
induction, but they can take the least index at which a claim fails
(`NatLessThanWellFounded`, `WFMin`): `SumsExist` shows so that the function exists,
`SumsAgree` that two of them agree where the sequences do, and `SumOfMore` and
`SumOfFewer` what one report more at the end or less at the front adds or takes.
`PipeInductive`
proves the pipe device's `PipeInv`, for any endpoints, capacity, readers and
writers, from `PipeDeviceAssumption`:

| Theorem | States |
|---|---|
| `PipeTypeCorrect` | `PipeSpec => []PipeTypeOK` |
| `PipeReadsInOrder` | `PipeSpec => []ReadInArrivalOrder` |
| `PipeReadersAwake` | `PipeSpec => []NoSleepingReader` |
| `PipeUnlinkHolds` | `PipeSpec => []UnlinkTellsTruth`, which has an exception for control INs |

`OpenOf` says that a request that waits, in an IN channel or for `read()`,
waits in one place, was not answered and not unlinked; `ClosedOf` says that,
while the connection is up, every other request was one of the two, which is why
a RET_UNLINK that found nothing may say that the answer is out.  `LogOf` is the
same seen from the responses: one answer each, before any unlink, and before an
unlink that reports ECONNRESET only if the request was a control IN (`CaughtInv`:
anything else that an unlink finds waiting was not answered).  `Fits` and
`Turned` carry the channel lemmas over to the pipe's channels.  A control IN is
in both kinds of channel and owed by one of them: hence the `answer` flag in
`Owes`.  For the order of `read()`, `NewerIsLater` shows that the comparison
modulo `SeqSpace` is that of the arrivals wherever numbering starts, as long as
a connection has fewer than `SeqSpace \div 2` (2^31) requests, and
`OldestIsBest` that the loop over the map finds the least front; `PipeTaken`
adds that nothing taken is younger than what waits.

The compositions of `MCTransport` are behaviours of their parts
(`TransportHasChannel`, ...), so that the properties of run `virtual_transport`
hold for all constants:

| Theorem | States |
|---|---|
| `TransportTypeCorrect` | `TransportSpec => []TransportTypeOK` |
| `TransportKeepsOrder` | `TransportSpec => []ChannelKeepsOrder` |
| `TransportLosesNoWakeup` | `TransportSpec => []NoLostWakeup` |
| `TransportServesInOrder` | `TransportSpec => []ServedInArrivalOrder` |
| `TransportAnswersTrue` | `TransportSpec => []AnswersTrue` |
| `TransportHid` | `TransportSpec => []HidFaithful` |

The configurations give `Interfaces` a composite device; it is a constant of the
theorems.

`StorageWireProofs`, for any size of the disk, the blocks and the replies, any widths
of the two counters and any number of commands and connections, from
`MscAssumption` (the numbers are positive; an LBA at the end of the disk plus the
`ZeroCount` blocks that a count of 0 stands for, 256 in the code, is below the
width of an LBA, 2^32; `ZeroCount` is below the width of `write_count_`, 2^16):

| Theorem | States |
|---|---|
| `MscTypeCorrect` | `MscSpec => []MscTypeOK` |
| `DiskCorrect` | `MscSpec => []DiskIsWhatHostWrote` |
| `ReadCorrect` | `MscSpec => []ReadReturnsDisk` |
| `StatusCorrect` | `MscSpec => []StatusForEveryCommand` |
| `StagingCorrect` | `MscSpec => []StagingOutlivesSender` |
| `PipeCorrect` | `MscSpec => []PipeHasOneUser` |

The properties speak of the moment between two commands; `MscInv` has to say how
far a command is in between.  `Phases` relates the host's phase to the state of
the handler and to what may be in the sender's queue (above all: at most one CSW,
and nothing of an answer after it).  `Pieces` says that the queued answers
to an IN command follow one another from the byte the host has up to `offset`,
wherever they point, into staging or into the image, and that those in staging
belong to its present owner.  That is why a staging buffer that
the next CBW clears has no reader, although the lengths alone would not show it.
`DataOutOk` says where the bytes of a data phase are (staging, image, the pipe,
the piece being received), and `DiskOk` what the disk is meanwhile: the old image
with the bytes so far, for a direct transfer; the old image, for a staged one;
and from the status on, the image after the command if it did not fail.
`ReadAt` and `WriteAt` are given position by position, so that these arguments are arithmetic of intervals and need no induction.  `PipeOk`
says what the pipe holds: `leftover` units of earlier clients, and behind them
the data of the receiver while it receives, or of the sender while its piece is
at the head of the queue.  `Exact` (`leftover = 0 /\ ~widened`) is the condition
under which the invariant speaks of the disk, `leftover = 0` that under which it
speaks of what the host was sent; phases, status, staging and the user of the pipe
need neither.  That nothing but a client going away leaves data in the pipe, and
that such a client does so only between the two splices of a piece, follows.

Its second half is about the wire, for any URBs (any number and length of
packets, also such that the server refuses), any list of devices, any limits and
any number of commands, from `UsbIpWireAssumption`:

| Theorem | States |
|---|---|
| `WireInductive` | `WireSpec => []WireInv`, from which `InSync`, `HostGetsDeviceData` and `HandlesOwned` follow |

`InSync` looks at the head of a stream only; that it holds again after a message
was read depends on everything behind it.  `WireInv` therefore divides both streams into
whole messages (`MadeOf`): to the server, the commands it has not read yet, with
consecutive numbers (`CommandsIn`); to the client, answers of commands it has
read (`Replies`), each with the data of its URB if that is no longer
held.  `Held` keeps apart the commands held, answered and unread, and `Received`
is `HostGetsDeviceData`.  The proof has three layers:

* `FramedMore` and `FramedLess`: a stream of messages stays one when a message is
  appended, and when a reader takes the first of them.
* What is written is what is read, message by message, although the two sides are
  separate definitions: `SubmitWritten` and `SubmitRead`, `UnlinkWritten` and
  `UnlinkRead`, `RetWritten` and `RetRead`, `OpWritten` and `OpRead`.
  `RetRead` is the heart of it: `TailWritten` finds the bytes of each packet at
  its slot of the buffer (`BufferFilled`), `PacketsPacked` puts them one after
  the other, and the reader's sums of the actual lengths find them again.
* One step per action (`ClientSubmitsKeeps`, `ServerReadsSubmitKeeps`, ...).

The sums and concatenations are defined recursively.  That they exist and where
each part lies is shown with a least index at which it would fail
(`Upwards`), not with a schema of induction.

`ClassesProofs` has the other device classes and the properties of the sum
`MCClasses`:

| Theorem | States |
|---|---|
| `AcmAgrees`, `AcmDataOnce` | `AcmSpec => []PortAgrees`, `AcmSpec => []OutDataOnce` |
| `NetInductive` | `NetSpec => []NetInv`, with `ResponseAnnounced` and `NoStaleResponse` |
| `DataInductive` | `FramesKnown /\ DataSpec => []DataInv` |
| `UacRateExact` | `UacSpec => []RateExact` |
| `UacSource`, `UacWav` | `UacSpec => []SourceContinuous`, `UacSpec => []WavPlayable` |
| `UvcInductive` | `UvcSpec => []UvcInv` |
| `ContainersInductive` | `ContainerSpec => []ContainersInv` |
| `ClassesStorage` | `ClassesSpec => []StorageCorrect` |
| `ClassesNetwork` | `FramesKnown /\ ClassesSpec => []NetworkCorrect` |
| `ClassesStreaming` | `ClassesSpec => []StreamingCorrect` |
| `ClassesContainers` | `ClassesSpec => []ContainersAgree` |
| `ClassesWire` | `ClassesSpec => []WireInSync` |

* *Serial port.*  `AcmLine` orders what was received and what waits: OUT transfers
  are taken in the order of the host, and each of a connection is taken, waits or
  was given up.
* *Network control.*  The queue holds responses of this epoch only, and unless a
  notification was lost each has one: buffered, or seen by the host and not
  acted upon yet.
* *Network data.*  A suspended transfer has delivered a first part of its frames
  (`Given`); one that is answered has delivered, after such a part, all of them
  (`GivenAll`).  `FramesKnown` is a hypothesis about the constant `OutTransfers`: a
  transfer is a sequence of fields, and its component `frames` is what a correct
  reader finds in it.  It ties the input to its meaning and says nothing
  of the device.  For the transfers of run `virtual_classes` TLC finds the same
  frames delivered, with gaps, several packets and padding; for every sequence
  of fields it would need induction over the field list.
* *Audio.*  `RateInv` is an equation per step of the packet loop:
  `sent_frames * PeriodPackets + residue_acc = sent_packets * sample_rate` at rest,
  with the residue added or the packet under way accounted for in between.  It
  also bounds `residue_acc` so that the subtraction does not wrap at
  `AccWidth`.  All of it is stated of a stream that is not `disturbed`: the code
  shares `sample_rate` and the residue between threads without a lock, and a
  change between comparison and subtraction does wrap (see Observations).
  `SourceInv` counts frames of whole chunks and needs the same condition, since a
  new stream may start at the head of the old chunk.  `WavInv` orders the file's
  three lengths after every single write, for a file that was opened with a count
  of 0 and that 32 bits can describe (`Sound`).
* *Video.*  `UvcStream` says that the packets of the host follow one another, and
  that the last of them ends where `frame_offset` stands, with the FID of the
  frame.  The packets of one URB are filled by a loop; `LoopExists`
  shows that the recursive function that models it exists, and a least packet at
  which it would go wrong gives the invariant of the loop (`UrbFilled`).
  `UvcAssumption` asks that in each URB some packet is longer than the payload
  header, as the negotiated packet size is: otherwise the code takes a frame,
  flips the FID and sends nothing of it.
* *Containers.*  `RingHolds` maps the ring's bytes from `tail` on, modulo the
  capacity, to the sequence; `BytesWritten` is the loop of `write`, byte by byte,
  for any capacity and length, and `resize` is the same loop into a new buffer.
  `VectorHolds` covers inline and heap storage; `MapHolds` says that a
  key has one occupied slot, with its value; `PoolInv` that an object is lent
  once or on the free stack once, so that `free_impl` never overruns the stack.

### Only model-checked

* Everything under fairness (`StopEndsSession`, `Released`, ...): liveness is out
  of the provers' reach.
* `DescriptorsConsistent` is about a descriptor tree of any size, whose lengths are
  sums (`FoldSeq`) over sections found by position.  For any device it holds only
  below the limits of a byte and of the string table (see Observations), which
  depend on the sum of all functions; TLC checks every composition of up to
  `MaxFunctions` functions.
* `ClassesTypeOK` gathers the types of all class modules.  Those of mass storage,
  network, serial port, camera and audio are consequences of the invariants
  proved.  Two are not proved: the types of Enumeration, whose string indexes
  stay below 256 only as long as the table is not full, and those of UsbIpWire, where
  `WireInv` says the name and width of every field and TLC that it is a record.

## Observations

What the models show besides the violated runs, and what they leave open.
`PROJECT.json` lists the hazards that the properties are about.

* `LibusbServer::stop` empties the available devices without the
  `on_device_released` of `Server.h:75-77`.
* `Session.cpp:347`: when `to_socket` throws, the sender ends, and the receiver
  goes on reading until the peer acts.
* `PipeDeviceHandler.cpp:321` destroys channels (`in_channels.clear()`) that a
  writer woken by `on_disconnection` may still be in, on its way back from
  the wait; the comment at 252-254 says that it no longer touches them.  The model
  follows it into freed memory and no property speaks of it, neither that it comes
  back nor that it does not.
* `VirtualDeviceHandler.cpp:638` passes an unlink to every interface handler.
  HID, CDC-ACM, ECM, RNDIS, UAC and UVC handlers each answer it, also with status 0
  for a URB that is not theirs, so that a composite device sends several
  RET_UNLINKs for one CMD_UNLINK; mass storage keeps the empty default of
  `InterfaceHandler.cpp:7` and sends none.  `DeviceHandler.h:129` asks for one,
  and `InterfaceHandler.h:50` that a handler treats its own numbers only.  Each of
  the answers is true, which is what `AnswersTrue` says.
* `LibusbDeviceHandler.cpp:378-381` counts on the session being ended once the
  device is marked removed.  `RemovalEndsConnection` shows this where libusb
  reports unplugging (`Hotplug = TRUE`); without hotplug support only a failing
  submit ends it.
* `TransferScheduler.cpp:203`: the pending timer need not cover the earliest
  URB.  `:165`: a cancelled head while the endpoint is busy lets its successor
  be served at once.
* `VirtualDeviceHandler.cpp:391`: a standard request to an endpoint outside the
  current alternate settings gets no answer; `:471`: GET_STATUS of endpoint 0
  ends the session.
* `Session.cpp:484`: `has_data` raised for a response that an earlier swap took
  stays raised, and the sender polls until the next response.
* `LibusbServer.cpp:627`: a device that is replugged while its session still
  runs is taken for a known one and not bound.
* Mass storage: `lba + count` in 32 bits, unchecked UNMAP ranges and a 16-bit
  UNMAP length; `data_residue_` is not the difference its header comment promises.
* The splice pipe is not drained: not by `send_direct` when the second splice
  fails because the client has left (`RawImageBackend.cpp:261-272`), nor by
  `recv_direct` (205-218), nor by `on_disconnection`
  (`MscBulkOnlyHandler.cpp:71-85`).  The next transfer through it, of any later
  client, begins with those bytes and is shifted from then on.
  After a splice that failed, `StorageTransferOperator.cpp:55-100` takes the
  ordinary way for the whole length again, whatever was moved already.
* RNDIS: 64 responses and 30 notifications, while the headers speak of a limit of
  one notification (`EcmVirtualInterfaceHandler.h:117-118`,
  `CdcAcmVirtualInterfaceHandler.h:235-237`; the code has 30 for these as well); frames taken before a refusal are
  delivered again; line coding, RTS and ECM's filter survive a reconnection.
* UVC: the header's comment says that late frames are dropped, the code never
  drops one; `ColorBarSource` derives its interval limits from the committed one.
* UAC: a request that changes the stream runs beside the scheduler's thread.
  Between comparison and subtraction of the residue it makes the difference wrap;
  within `fill_pcm`, which is one step here, it takes `chunk_data` away.
  Alternate setting 1 resets only `chunk_offset`
  (`UacVirtualInterfaceHandler.cpp:674`), so that a new stream begins with the
  last chunk of the old one once more, although the comment there promises a
  clean start.
* `WavFileSink.cpp:43-52`: when the file cannot be opened (92-98) `data_size`
  goes on counting, and nothing resets it while no file is open.  The file of a
  later open that succeeds announces data that it does not hold, against the
  header's promise that it can be played at any time.  The 32-bit sizes wrap
  beyond 4 GiB.
* Input devices: `wait_for_client` returns before `on_new_connection` resets the
  state, so early input is wiped; at 1024 waiting reports the oldest is dropped.
* Descriptors: strings of more than 126 characters and more than 82 sample
  rates overflow `bLength`, although the comment in
  `UacVirtualInterfaceHandler.cpp:377` allows 255 rates.

## Not modelled

libusb's reading of descriptors, `LibusbServer::start` and its filters; the
values of HID GET/SET_REPORT, of camera and volume controls, of OIDs and of
INQUIRY pages (they answer constants or store a value that nothing else reads);
the signals of audio and video sources and the TUN device (I/O with the host
machine); bindings, examples and tools.  Observers' exceptions and the logging
are left out.  The memory orders of the atomics are those of sequential
consistency: each of the flags is read again under a lock or in a loop.  Two
unsynchronised accesses are steps of their own where the code has them
(`wakeup_sender`, the residue of UacStreaming).

## Plan

1. *Done:* the server and libusb side; the virtual devices from the channels to
   the device classes; the wire format, the containers and the descriptors;
   proofs of the safety properties of all modules of the server and libusb side,
   of the transport inside virtual devices, of the device classes, of the wire
   format and of the containers.
2. An abstract queue that InChannel implements, as DeviceOwnership is for
   DeviceRegistry; the lemmas of
   `TransportPartsProofs` about the channel are its step simulation.
3. LibusbServer's start and its binding of devices that are present already.
