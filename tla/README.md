# rk_usb in TLA+

This directory holds a formal model of `rk_usb`, the host tool that initialises, reads and writes
Rockchip SoCs over USB, together with the model-checking configurations and the machine-checked
proofs about it. Modules are translated from the source under `src/src` (`PROJECT.json`, "map",
names the lines of every definition).

## 1. The system

`rk_usb` is one short-lived, single-threaded process per command line. All of its lasting state
lives on the other side of the cable: in the device's endpoints, in the program the device runs and
in its flash. What makes it hard is that the process forgets everything when it exits while the
device forgets nothing. Below it lies libusb, whose source the repository carries and builds: a
library of threads, reference counts and time-outs between the program and the kernel.

| Component | State | Operations | Interacts with |
|---|---|---|---|
| Command transactions, `rk_usb.cpp` 558-1272 | the caller's buffer, bytes left, `rand()` | `usb_bulk_send`, `usb_bulk_recv`, `make_tag`, one function per command (`chip_ready` ... `flash_write_lba_raw`) | libusb synchronous transfers; the device's endpoints |
| Flash loops, `rk_usb.cpp` 1274-1478 | next sector, sectors left, file length left | `flash_erase_lba` ... `flash_write_lba_from_file_progress` | command transactions, files |
| Memory loops, `rk_usb.cpp` 900-960 | address, bytes left | `read`, `write` and the progress variants | command transactions; `dump`, `read`, `write` of `main.cpp` |
| Serial number, vendor storage, OTP, storage media, `rk_usb.cpp` 962-1155 | - | `sn_*`, `vs_*`, `otp_read`, `storage_*` | command transactions |
| Maskrom upload, `rk_usb.cpp` 169-556 | bytes sent, CRC, `pend` | `maskrom_upload_memory`, `maskrom_upload_file`, `maskrom_write_*`, `maskrom_exec_*`, `maskrom_dump_*` | control transfers to the boot ROM |
| Device discovery, `rk_usb.cpp` 54-160 | `m_context`, `m_handle`, `m_chip`, `m_epin`, `m_epout`, `m_maskrom` | constructor, `init`, destructor | libusb device list, open, claim |
| Command line, `main.cpp` | arguments | the maskrom gate (92-96) and one block per command | all of the above, files |
| Loader images, `rk_bin.cpp` | entry lists, flash image | `load`, `mkidb` | files, RC4, CRC-32 |
| Helpers, `rk_common.cpp` | - | `file_load`, `file_save`, `rk_rc4`, CRC, `progress_t` | files |
| Payloads, `src/payloads` | registers saved in `_maskrom` | copy, execute, hex dump | run by the boot ROM |
| libusb events, `io.c`, `sync.c`, `events_posix.c` | flying transfers and their timer, the event lock and its waiters, event flags, open handles | `libusb_submit_transfer`, `libusb_cancel_transfer`, event handling, time-outs, `libusb_close` | several threads; the kernel's URBs |
| libusb contexts and devices, `core.c`, `hotplug.c`, `linux_udev.c` | default and other contexts, device lists, reference counts, hotplug callbacks and messages | init, exit, enumerate, connect, disconnect, list, open, close, register, deregister | the udev monitor thread; the bus |
| libusb transfers and handles, `linux_usbfs.c` | URBs of a transfer, claims, the active configuration | submit, reap, discard, claim, release, reset, attach, detach | the kernel's usbfs; other programs |
| libusb descriptors, `descriptor.c` | parsed configurations, cached bytes | parse, free, look up, string and BOS requests | bytes from the device |
| libusb on Windows, `windows_common.c`, `windows_winusb.c` | completion port and its thread, automatic claims, buffers of isochronous transfers, session ids | init, exit, submit, cancel, complete | the system's WinUSB |
| Windows driver package, `src/driver` | - | binary | - |

Hard behaviours, and what is to be true of them:

* **Late answers** (command transactions). A transfer gives up after 2000 ms, the device does not.
  The response then waits for whoever reads next, and the code compares a signature only. While no
  command failed, `true` must mean that the data and the response are this command's own; failures
  must never make the two sides drift apart by more than one answer each; a request must never be
  executed twice or overtake a later one.
* **Mutual waiting.** The host may wait to send data while the device waits to hand over an old
  answer. Every command must return nevertheless.
* **A process killed in the middle, a device unplugged in the middle.** The next process starts
  from nothing on top of whatever is left.
* **Interrupted operations** (flash loops). A failing, late or torn chunk must leave a prefix of the
  operation on the flash; `true` must mean all of it.
* **Framing** (maskrom upload). The boot ROM recognises the end of an image by a short transfer; the
  CRC must not be split.
* **Hotplug** (discovery): the device list is fetched anew for every index; whatever shifts, the
  process must own the device it works on, and find one that was there all the time.
* **Threads around one transfer** (libusb events). A completion, a time-out, a cancellation, a close
  and an unplugged device meet in the same transfer. It must complete exactly once with the reason
  that is true, nobody may sleep through the end of his own transfer, and nothing freed be touched.
* **References** (libusb devices). The bus, the list, handles, messages and children share a device.
  Each reference must have an owner and be dropped once; the list must catch up with the bus.
* **Partial submission** (libusb transfers). A transfer is many URBs, any of which may fail, end
  short or be discarded. What is reported must be what happened, and received data not be lost.
* **Shared claims** (libusb handles, Windows). What a handle believes to have claimed must be so
  after resets, failures and other programs.
* **External bytes** (descriptors). Lengths and counts are what a device says.

`PROJECT.json`, "hazards", lists each with its line and the properties that cover it.

## 2. Plan

| # | Module | Contents | Status |
|---|---|---|---|
| 1 | `RkOpcodes` | shape of every command | done |
| 2 | `RkCommand`, `RkCall` | host / device transactions; the abstract remote call they implement | done |
| 3 | `RkCommandProofs` | types, execution order | done |
| 4 | second part of `RkCommandProofs` | the two sides stay in step, answers and data are a command's own | done |
| 5 | `RkFlash` | chunk loops over `RkCall` | done |
| 6 | `RkUpload`, `RkUploadProofs` | maskrom framing, the boot ROM, the command lines made of uploads | done |
| 7 | `RkMain` | gate and command flows of `main.cpp` over `RkCall`, memory loops | done |
| 8 | `RkScan` | `init()` while devices come and go; claims of two processes | done |
| 9 | `RkBin`, `RkCodes` | loader parsing, `mkidb` layout, `file_load`; CRC and RC4 | done |
| 10 | `UsbEvents` | event lock, waiters, time-outs, cancellation, disconnection, close | done |
| 11 | `UsbTransfer`, `UsbUrbs` | the promise of a transfer; a transfer split into URBs implements it | done |
| 12 | `UsbDevices`, `UsbContexts` | references, hotplug; contexts and their monitor | done |
| 13 | `UsbHandles`, `UsbConfig`, `UsbDescriptors`, `UsbReplies` | claims and resets; descriptors from the file or the device to the parsed tree | done |
| 14 | `WinTransfers`, `WinBackend`, `WinIso` | the Windows backends | done in part |
| 15 | `RkFlashProofs`, last part of `RkCommandProofs` | prefixes; the commands implement the remote call | done |
| 16 | `UsbEventsProofs` | wake-ups, lifetimes, completions; timeouts | done |
| 17 | second part of `ClaimsProofs`, `UsbContextsProofs` | claims of processes and the scan; contexts and the monitor they share | done |
| 18 | `UsbUrbsProofs` | nothing outstanding, status, cancellation, isochronous order; a transfer keeps the promise of `UsbTransfer` | done |
| 19 | `UsbDevicesProofs` | references, messages, callbacks, exit; the list and the bus | done |
| 20 | first part of `ClaimsProofs` | claims of handles (`UsbHandles`) | done |

Composition: `RkCommand` implements `RkCall`; `RkFlash` and `RkMain` instantiate `RkCall`, so
that the loops and flows are checked against every behaviour that the packet level can show to them
without carrying packets along. `UsbUrbs` implements `UsbTransfer` the same way. `MCRkTool` and
`MCUsbApi` hold modules that do not share state: a behaviour of theirs is one of one of the parts,
chosen in the initial state (`part`), so that one run covers them without their product.

Proofs that are left: the flows of `RkMain`.

## 3. Modules

### `RkOpcodes`, `RkCommand`: one command

`RkOpcodes` gives every command function its shape: no data phase, data in, or data out, and how
many bytes. `RkCommand` runs them.

| Model | Code |
|---|---|
| `pc` | where the calling thread is: `send_req`, `send_data`, `recv_data`, `recv_res` are the four calls of `usb_bulk_send` / `usb_bulk_recv` in a command function |
| `left` | their `len`; `buf`, `res` are the caller's buffer and the `usb_response_t`, as sets of packets with the offset each was put at |
| `tag` | position in the `rand()` sequence, which starts over with the process (`make_tag`) |
| `gone` | the open handle no longer reaches the device |
| `serial`, `fails`, `log` | history: number of the transaction, failures since the endpoints were last empty, what the device executed |
| `outp`, `inp` | what is on its way in the OUT and the IN endpoint |
| `dphase`, `dreq`, `dleft`, `dbuf` | the device (external) |

`Issue` enters a command function; `SendPacket`, `RecvPacket` are one packet of the loops of
`usb_bulk_send` and `usb_bulk_recv`; `RecvOverflow` and `TransferError` are the error returns of
`libusb_bulk_transfer` (a packet longer than what is left; 2000 ms are over or the device is gone -
in both cases packets that were moved stay moved); `BusReset` is the special path of `reset`;
`NewProcess` is the end of a process, or its being killed, at any point, and the next one's `init`.

The device is not part of the repository. It is modelled from the protocol that the code relies on:
it takes a request, takes or sends the data the request announces by counting bytes, sends the
response, and is arbitrarily slow. Nothing is assumed about its making progress.

### `RkCall`: what a command promises

The abstract remote call: the device executes a call at most once and in the order of the calls,
perhaps after the caller was told that it failed; `true` means executed, as long as no call has
failed since the endpoints were last empty. The refinement mapping is at the end of `RkCommand`: a call is
pending while its request is in the function, on the wire or with the device.

### `RkFlash`: chunk loops

The loops of `flash_erase_lba` ... `flash_write_lba_from_file_progress` with the clipping of
`main.cpp` (`ClipRange`) and of the file variant (`ClipFile`), file reads that come up short, and
chunk commands that are actions of `RkCall` (`Call!Start`, `Call!Succeed`, `Call!Fail`). The device
may execute a chunk late, refuse it, lose it, or lose its power in the middle of it. A sector holds
its old content, 0xFF, or sector `i` of the data with the number of bytes that come from the caller.
The file variant counts sectors in an integer of `Width` values (`uint32_t` in the code).
`FileReads` is the check of `fread`: a full chunk is accepted whatever is left of the length that was taken
at the start, a short one only if it is all that is left. A file that has grown meanwhile is therefore taken (`grown`): its
last sector is filled up with what was appended instead of zeros, `len` goes below zero (it wraps in the code, and is not read
again), and what was appended behind that sector is not written although true is returned.

### `RkUpload`: maskrom mode

`Padded`, `Framed` and `Pend` are the three cases at the beginning of `maskrom_upload_memory`;
`Frame`, `SendBlock`, `SendFails`, `Terminate` are its body, `NoMemory` its other branch; `Maskrom`,
`Download`, `Exec`, `Write` turn a command line into its sequence of uploads (`must`: a failure ends
the command; `file`: a file is loaded first), `GiveUp` is what a command does with `false`. An
image is its length, with its address and offset in the file where it is a piece of one. `Download`
takes the entry lists as the loader parser returns them; the parser is in `RkBin`.

The boot ROM is external. The framing implies the following about it, and the model assumes it: a
transfer shorter than 4096 bytes ends an image; the image runs if the CRC over everything since the
last end is right; zeros behind the CRC keep it right; it tells the host nothing; a 0x471 image
returns to the ROM and a 0x472 image does not. The program of an `exec` payload may not return:
the transfers that follow then fail, which `SendFails` covers.

### `RkMain`: the command lines

`Plan` gives every command of `main.cpp` behind the gate its calls in order, what a failure of each
does (end with a status, warn, go on) and where it needs an answer; `Launch` is the gate. A call is a
remote call of `RkCall`; a loop (`upgrade`, `flash`, `dump`, `read`, `write`) is one call per 128
bytes or sectors (`Issue`, `Advance`, `LoopEnds`). `Failed` is the early return of the functions
that report failure, `CapabilityDone`, `StorageDone` what the code does with an answer. The
device's medium, mode and capabilities are external.

### `RkScan`: `init()`

Processes walk the device list, which is fetched for every index, while devices come and go and
others open and claim. `Claim` is exclusive in the kernel (external).

### `RkBin`, `RkCodes`: loader images, CRC and RC4

`RkBin` holds `file_load`'s buffer that doubles while reading, `load` with both layouts, and the block layout
of `mkidb`. Sizes, places in the layout (`idblen`) and the end of the last entry are integers of `UMAX` values
and wrap, as the `uint32_t` of the code do; the length of the layout is a `uint64_t` and does not. A copy or a
CRC that reaches outside the file or the memory (`InFile`, `InMemory`) may go on or end the process
(`outside`). `RkCodes` has the CRC tables' step and RC4 as the code computes them, against long division and
against their own inverse. It needs `Bitwise`, so that no theorem is stated about it.

### `UsbEvents`: time-outs, cancellation, closing

Threads make synchronous transfers (`Call` to `Result`): one of them handles events
(`TryLock`, `Handler`, `Poll`, `NextFd`, `Reap`, ...), the others sleep as waiters (`Waiter`,
`Wake`, `Broadcast`); closers close a handle that another thread uses (`CloseBegin` ...
`CloseEnd`). Program counters stand where the code holds or waits for a lock; what it does under
`event_waiters_lock` or `event_data_lock`, which it never holds while it waits for
another, is one step. `lock[x]` is the lock of a transfer, `flying` the sorted list, `timer` the
timerfd, `event` and `eventFlags` the eventfd and its reasons. One URB stands for a transfer here;
`UsbUrbs` has the rest. `poll()` sleeping and waking, the clock, the URB's end and the bus are external.
`HandleTimeout` is one turn of the loop
of `handle_timeouts_locked`: `TimeOut` cancels the first transfer whose time is over, `TimeoutsDone` arms the timer.
`CancelAndRetry` is what a synchronous call does when its event handling failed; if its handle was closed meanwhile, it
cancels through a handle that is NULL (`sync.c:60`, `linux_usbfs.c:1876`). What the process does then is undefined; the model
ends it (`Crashes`).
Programs use the library as it asks them to: a closer does not choose a handle that is in a submission or that
another closer closes (`ChooseVictim`).
Failing to arm the timer, interrupted calls and transfers freed in their callback are left out:
synchronous calls do not free there.

### `UsbTransfer`, `UsbUrbs`: one transfer, many URBs

`UsbTransfer` is the promise: data arrives in order and without holes, what the device handed over
is reported, and a transfer ends once, when nothing is outstanding. `UsbUrbs` splits a transfer as
`submit_bulk_transfer` and its siblings do (`UrbLen`, `NumUrbs`, `Continues` by capability),
submits URB by URB while the kernel already works (`SubmitUrb`, `LaterUrbFails`), reaps
(`ReapBulk`, `ReapIso`, `ReapControl`), moves surplus data (`PlaceOf`, `Written`) and discards. The
mapping is in `Transfer`. The kernel is external: it works on one URB at a time, gives them back in
order, refuses to continue a transfer that ended with EREMOTEIO, and an overflow is in the last URB.

### `UsbDevices`, `UsbContexts`: who holds what

`UsbDevices` counts references as the code does and, in `Holders`, says who owns each one: list,
handle, child, copied list, message, function in progress. `hp` is who is inside `linux_hotplug_lock`, and where: the
monitor thread that follows the bus (`Receive`, `StepOf`), the first scan (`ScanMore`), `libusb_get_device_list`
(`PollMore`) or whoever finds a device gone (`OpenNoDevice`, `PollError`). Application threads work off a script (list,
open, close, wrap, register, deregister), the event thread delivers messages (`TakeMessages` to `MessageDone`) and frees
what was deregistered (`StartSweep`, `Sweep`, `Swept`). `libusb_exit` is one step per message (`FreeMessage`) and per
device (`ReleaseListed`): `leaving` is what of the list it has still to visit. Device and callback objects are
used once, and a thread has one list at a time and one handle of a device (`MayAllocate`, `MayRegister`, `OneList`,
`OneHandle`); a hub is parent of a device (two levels). Allocation failures of lists are left out, and
`StableStart` keeps the bus still before `libusb_init_context` has returned (see section 6). A
wrapped device is excepted from `ListCatchesUp`, and a callback returns 1 only when its
registration has returned.
`UsbContexts` has init and exit of the default context and others by several threads, with a
failure anywhere, and the one monitor they share.

### `UsbHandles`, `UsbConfig`, `UsbDescriptors`, `UsbReplies`

`UsbHandles`: claims, resets, alternate settings, kernel drivers and configurations of several
handles and threads beside another program; `loaded` are the interfaces that a driver of the kernel takes when it is asked to
(`Attach`), which a module that is loaded adds to (`KernelBinds`). `UsbConfig`: the descriptors as file or device
give them, walked into configurations, the lookups and copies. `UsbDescriptors`: the recursive
parser as a machine over a sequence of descriptors, with every allocation that may fail and the freeing; `Left` are the bytes
that are left, and `seen` is up to where they were looked at. `UsbReplies`: string, BOS and capability replies of any length, with
what the getters allocate (`block`).

### `WinTransfers`, `WinBackend`, `WinIso`

`WinTransfers`: automatic claims and where a transfer is (list, completion port, freed).
`WinBackend`: `windows_init`, `windows_exit` with their count, the completion thread, and the hash
table of session ids. `WinIso`: an isochronous transfer that is resubmitted from its callback. One
handle and one application thread; a handle is not closed with transfers in flight.

## 4. What is checked

| Run | Instance | Shows |
|---|---|---|
| `command` | five commands, one of each shape, real sizes (31, 13 bytes, 512-byte packets), endpoints of 2 packets, 3 transactions | types; nothing is left behind; own answer, own data; execution at most once and in order; lag; every command returns; `RkCall` is implemented |
| `own_tag` | the same, 2 transactions | a late response of another command is accepted |
| `flash` | 5 sectors of 2 bytes, chunks of 2, seven operations, 3 chunk commands, sector counts modulo 6 | a prefix of the range is done wherever an operation stops; `true` means all, of a file that may grow the part it had at first; operations end |
| `refusal` | the same | `true` although the device refused |
| `upload` | real sizes, seven command lines, 3 processes | CRC in one transfer; `true` from a clean start means all ran, in order; pieces land in place; a broken upload spoils at most one later one |
| `upload_reported` | the same, 1 process | `true` although nothing, or not the terminating zero, arrived |
| `tool` | `RkMain`, `RkScan`, `RkBin`, `RkCodes` | status 0 means that what the command line asks for was done, and that no call failed; only supported media; a process owns its device and finds one that stays; a file is loaded whole; what has an aligned length is copied inside the image and over nothing else; only the sizes, ends and entries that section 6 names lead outside; CRC is polynomial division, RC4 its own inverse |
| `events` | two threads, timeouts 1 and none, one call each, one closer, with and without a timerfd, one disturbance of any kind, or a close and a failed `poll()` together (without a timerfd one of a close, a failed `poll()` and a failed submission), clock 0..2 | no wake-up is lost; the event means its flags; the timer covers the first timeout; a timeout is reported as one; no transfer of a gone device is forgotten; a call completes once; nothing freed or closed is touched |
| `timeout_lost` | two threads with timeout 1, one closer, clock 1..3 | a thread sleeps in `poll()` on a timeout that is over |
| `events_end` | the same as `events`, with a timerfd, disturbance a close or an unplugged device | every close and every call ends, but one without a timeout that nobody answers |
| `devices` | a hub, a device behind it, two threads with three pairs of scripts, two changes of the bus | references have owners; no id is listed twice; the list follows the bus; messages and callbacks are alive when used; all is released |
| `api` | `UsbUrbs`, `UsbContexts`, `UsbHandles`, `UsbConfig`, `UsbDescriptors`, `UsbReplies`, `WinTransfers`, `WinBackend`, `WinIso` | nothing is reported while the kernel has a URB, and the status is the first thing that went wrong; a transfer implements `UsbTransfer` and ends when it is cancelled; contexts do not take the monitor from each other; claims are real; parsers look at nothing behind the bytes they have, but for one byte (section 6); Windows loses no transfer and no claim |

Why the bounds are enough. `command`: three transactions are the fewest that show a late answer reaching a
command that is not the next one, a write whose request is taken for data, and an answer after that; two
packets per endpoint are the fewest that let one transaction's packets wait behind another's, and a
two-sector write with its request, and a two-sector read with its response, are longer than what an endpoint
holds, so that both sides can block on full buffers. `flash`: five sectors with chunks of two give a full
chunk, a partial chunk and a clipped one; two bytes per sector give a partly filled sector; three chunks are
a whole operation plus the beginning of another on top of a failed one. `upload`: lengths of 4093, 4094,
4095 and 8190 bytes are the cases of the framing, a file of one piece and 2742 bytes makes the last piece
end at 4094 modulo 4096; three processes are a broken upload, the one that it spoils, and one that must be
whole again. A count modulo 6 is the wrap of a file of 14 bytes, as 2^32 is of 2 TiB. `tool`: a loop of more
than one piece and a last one that is shorter; two processes and three plugs shift an index between two
looks at it; sizes on both sides of a sector and of a group, and of the last one whose aligned length does
not wrap (119, 120 and 121 of 128), layouts longer than `UMAX`, last entries whose end wraps with and
without the CRC behind them, and entries that begin behind the file's end; files of every length around
three buffers. `events`: `Calls` = 1 and one timeout, as each hazard is about one transfer and one more
thread; a third for closing; `Cost` and `Faults` let, with a timerfd, each disturbance happen by itself, as
the code treats each by itself, and a close and a failed `poll()` together, as only both lead to the retry
of a cancellation on a closed handle; without a timerfd, one of a close, a failed `poll()` and a failed
submission: the rest is checked with the timerfd. The theorems of `UsbEventsProofs` hold for every bound;
the clock goes one past the timeout. `devices`: two changes are an unplugging and a replugging at the same
address, four objects are two generations of both. `api`: up to three URBs are first, middle and last; four
contexts are two generations of two; `Calls` = 3 of `UsbHandles` are a claim, a reset and a release beside
another program; five entries make six ids collide and fill the session table; each part has one or two
failures (three in `WinIso`: registering, starting, retrying).

Fairness. `RkCommand` has weak fairness of the host's step in a command: each transfer has a
timeout of 2000 ms, so libusb returns whatever the device does. Nothing is assumed of the device.
`RkFlash` has weak fairness of the loop's step, which rests on `CommandReturns`. `RkUpload` has
none, and no liveness is stated: its control transfers have no timeout. `UsbEvents` has weak
fairness of each thread in its calls, waits and handlers, of each closer and of the clock, as the
scheduler and the mutexes of the system give it; none of the device.
`UsbDevices` and `UsbUrbs` have weak fairness of the threads' own steps and of the kernel
giving back what was discarded. In `UsbEvents` a waiter may give up after 60 s (`Minute`,
`libusb_handle_events`): only the victim of a close may have to rely on that.

A property of `tool` and `api` is the conjunction of the invariants of one part, each stated and
commented in its module and named in the MC module; a counterexample of TLC says which one fails.

Every property has a mutant: a definition of the model changed the way a bug in that code would
change it (`PROJECT.json`, "mutants"; the definitions marked `Mutant`), under which the same
run finds the property violated.

## 5. What is proved

The assumptions are those named in the modules: `CommandsAssumption` (a command has a direction and a length
that belong together), `MPSAssumption` and `CapAssumption` (an endpoint holds at least one packet; a request
and a response fit into one), `BoundAssumption`, `JobsAssumption` (uploads of the two codes),
`ChunkAssumption`, `TotalAssumption`, `WidthAssumption`, `OperationsAssumption` (sizes are not zero, and the
sectors of the medium can be counted), `EventsAssumption` (finitely many threads, and closers are not among
those that make transfers), `FaultsAssumption` (disturbances have a cost, and the bound is a number),
`ScanAssumption` (finitely many devices), `ContextsAssumption` (finitely many threads and contexts, none of
them the name of something else), `HandlesAssumption` (interfaces have numbers, threads make only calls that
there are, and handles, threads and drivers are told apart), `Finite`, `Distinct` and `Topology` (finitely
many devices and threads; pointers and NULL are told apart; hubs are not behind hubs), `UrbsAssumption` (a
transfer has one of the four types, a direction and a length, which may be zero, and a URB holds at least
one packet). The theorems hold for all commands, packet sizes, endpoint depths, command lines, media, chunk
sizes, numbers of threads, processes, devices and contexts, timeouts, transfers and bounds. Nine have a
hypothesis of their own: in `NoGapIsWritten` the jobs are those `main.cpp` makes (`CommandLinesOnly`); in
`TimerIsArmed` only handles without a timeout are closed under their thread (`ClosedUntimed`), without which
`timeout_lost` refutes it; in `MonitorFollowsContexts` and `MonitorIsAlive` the option of a context in use
is not changed (`~SetsLive`), and in the latter only threads poll whose context looks for devices
(`~PollsAlways`); in the four of `UsbDevicesProofs` nothing is unplugged before `libusb_init_context`
returns (`StableStart`); in `ClaimedIsBound` no reset fails with anything but ENODEV (`ResetErrors` without
EIO). Section 6 says what happens otherwise.

| Theorem | Property | Argument |
|---|---|---|
| `RkCommandProofs!TypeCorrect` | `TypeOK` | `TypeInv` adds which command shape each phase belongs to and that the device is owed at most what its request announced: without it `left` could be taken from a phase that the command does not have |
| `RkCommandProofs!ExecutionOrder` | `ExecutedInOrder` | `OrderInv`: the log, the request the device is serving and the requests in the OUT endpoint have increasing numbers, all at most that of the last request sent. The property alone says nothing of requests not executed yet |
| `RkCommandProofs!NothingLeftBehind` | `QuietBetweenCommands` | `ChannelInv`, below |
| `RkCommandProofs!AnswersAreOwn` | `OwnAnswer` | `ChannelInv` |
| `RkCommandProofs!ExecutesSentData` | `ExecutesWhatWasSent` | `ChannelInv` |
| `RkCommandProofs!CommandsAreCalls` | safety part of `ImplementsCall` | every step maps to a step of `RkCall` or to a stutter; `AnswersInv` (the device answers only what it executed) makes `true` mean executed, `OrderInv` makes an execution the oldest pending call |
| `RkCommandProofs!LagIsBounded` | `LagBounded` | every unanswered request in the OUT endpoint, the one being served and every response in the IN endpoint are counted: a request adds one, a response that is read (`ResponseInv`: it fills its buffer at once) takes one away, and each command sends one and, when it returns true, reads one |
| `RkFlashProofs!TypeCorrect` | `TypeOK` | `LoopInv`: sectors done and sectors left add up to the range, and the length that is left of a file belongs to the sectors that are left |
| `RkFlashProofs!StopsAtAPrefix` | `AlwaysAPrefix` | `ChunkInv`, `DeviceInv`: the one call that may still be executed is the chunk the loop stands at (or stopped at), with its content, and the flash is the prefix up to there or up to the chunk's end |
| `RkFlashProofs!TrueMeansDone` | `DoneMeansAll` | the same, and `ReadInv`: what was read is the range up to the loop's place. A chunk that reads more than `len` is the last one (`LoopInv`), so that only the content of the last sector depends on `grown` (`EarlierSectors`) |
| `RkUploadProofs!TypeCorrect` | `TypeOK` | inductive as it stands: all transfers but the last are full |
| `RkUploadProofs!CrcIsNotSplit` | `CrcInOneTransfer` | `FullTransfers`: what the ROM holds lies at multiples of 4096 of a frame of some length, and no frame has its CRC across a multiple |
| `RkUploadProofs!SpoilsAtMostOne` | `SpoilsOne` | `SpoilInv`: while as many images were rejected as uploads broke off, the ROM holds exactly what was sent of the current upload, and nothing between uploads |
| `RkUploadProofs!AllAreRun` | `AllRan` | `OrderInv`: the uploads run are the first ones of the command line, in order, and what the ROM holds is the one being sent |
| `RkUploadProofs!NoGapIsWritten` | `WrittenInPlace` | `OrderInv`, and by arithmetic each piece of `Write` begins where the one before it ends |
| `UsbEventsProofs!EventsTypes` | `TypeOK` | `EventsInv`, below |
| `UsbEventsProofs!WaitersAreWoken` | `NoLostWakeup` | `FlagInv`, `LockInv` and `WakeInv`: who completes a transfer holds the events lock, and who gives it up broadcasts before anything else |
| `UsbEventsProofs!TransfersAreAlive` | `NoUseAfterFree` | `TransferInv`, `FdInv` |
| `UsbEventsProofs!CallsCompleteOnce` | `CompletesOnce` | `TransferInv` |
| `UsbEventsProofs!GoneIsFound` | `GoneIsNotForgotten` | `GoneInv`, with `TransferInv` for the submission that the walk waits for |
| `UsbEventsProofs!ReasonsAreTrue` | `TimeoutsAreTrue`, second half of `TimeoutsAreKept` | `OverInv`, `FaultInv` |
| `UsbEventsProofs!TimerIsArmed` | `TimeoutsAreKept` | `TimerInv` |
| `ClaimsProofs!ClaimedIsBound` | `ClaimsAreReal` of `UsbHandles` | `BoundInv`, `RealInv`, below |
| `ClaimsProofs!HandlesKnow` | the other parts of the run's `ClaimsAreReal` | `RobInv`: with DISCONNECT_CLAIM only `libusb_detach_kernel_driver` disconnects. `GoneInv`: how far a call can come that began after the device was known to be gone. `DriverInv`, `BackInv`: a release that nobody disturbs finds the device configured and asks for a driver, and finds one if one is loaded that takes the interface. `ConfigInv`: who sets the configuration alone stores the one he has set |
| `ClaimsProofs!ScanFindsAndOwns` | `FindsAndOwns` | `OwnInv`: a process has no handle before it found a device and keeps the one it found until the claim fails, so that nobody else's claim or unplugging can pass for its own. `FindInv`: while nothing is taken away and no open fails, the devices that were there at the start are still on the list, and none of them that the index has passed is one of ours; the list grows at its front, which only moves devices behind the index |
| `UsbContextsProofs!UsersDoNotInterfere` | `UsersAreIndependent` of `UsbContexts` | `UsersInv`, below |
| `UsbContextsProofs!MonitorFollowsContexts` | `MonitorWhileNeeded` | `CountInv`, `MonitorInv` |
| `UsbContextsProofs!MonitorIsAlive` | `MonitorNotFreed` | `PollInv`: a thread that polls has a context that `init_count` counts, so that nobody else's exit is the last |
| `UsbDevicesProofs!CountsAreOwned` | `RefsAreOwned` | `SafeInv`, below |
| `UsbDevicesProofs!NobodyUsesFreed` | `NothingFreedIsUsed` | `ArrivedInv`: who is named by a message without a reference is listed, on its way out, or named by a later message with one; `CbInv`: what the walk has still to visit is on the list |
| `UsbDevicesProofs!NobodyIsListedTwice` | `ListedOnce` (first part of `ListCatchesUp`) | `ListInv`, `SaidInv` |
| `UsbDevicesProofs!ListFollowsBus` | `ListCatchesUp` | `BusInv`, below |
| `UsbUrbsProofs!TypeCorrect` | `TypeOK` of `UsbUrbs` | `UrbsInv` for the list and the count, `Delivered` for what is transferred, `IsoInv` for the descriptors |
| `UsbUrbsProofs!NothingIsOutstanding` | `NothingOutstanding` | `UrbsInv`: URBs that are not retired are in the kernel or on the list, and those that were never submitted count as retired |
| `UsbUrbsProofs!TransfersAreDelivered` | `ImplementsTransfer` | `Delivered`, below |
| `UsbUrbsProofs!StatusIsFirst` | `StatusIsTrue` of `UsbUrbs` | `TroubleInv`, below |
| `UsbUrbsProofs!CancelIsAnswered` | `CancelIsHonest` | `CancelInv`: only a cancellation that returned 0 marks the transfer, and after an error the last URB, on which the answer depends, is not pending |
| `UsbUrbsProofs!IsoStaysInOrder` | `IsoInOrder` | `IsoInv`: until something is discarded the list holds the URBs behind the retired ones in their order, and the next free descriptor is the first of the URB reaped next |

`ChannelInv` sees both directions of a transaction as streams of bytes: on OUT the request lies
before byte 0 and the data from 0 on, on IN the data from 0 on and the response behind it. In every
phase of the device the packets in an endpoint are exactly the bytes between where its reader and
where its writer is (`Chain`), all of the current transaction, and both buffers are filled without a
gap up to the reader. It is conditional on no command having failed: after a failure it is false,
which is what `own_tag` shows.

`EventsInv` has one part per mechanism. `LockInv` tells from the program counters who holds which lock, the
events lock also through `handle_timeouts` when that returns into `handle_events`. `CloseInv` and `FlagInv`:
`device_close` counts the closes under way. `TransferInv` is the heart: `OwnerInv(t)` says what the fields of a
transfer are in each phase of its thread (a listed transfer is alive, not completed, and in flight or being
submitted; its URB is in the kernel only while it is listed), `TouchInv(a, t)` what an actor that works on it may rely
on (not completed, its handle open, its URB back from the kernel, still listed until it takes it off). Neither is
inductive alone: that the owner does not free what a handler touches needs that a handler touches only
what is not completed, and that needs that one actor touches it, which comes from the events lock. `FdInv` says
that no descriptor is closed between `poll()` and the end of the handling, `GoneInv` who ends the transfer of an
unplugged device.

On top of it, `OverInv`: whatever has recorded a timeout (the transfer, a status on its way, the result) had
its time over, and the clock does not go back. `FaultInv`: a URB that was discarded has a reason, a
failure or a timeout, and until the timeout is recorded the thread that discarded it is the reason, which is why
the reason is read under the flying lock (`CancelledUnlocked` is the mutant). `TimerInv`: transfers without a
deadline are behind the others, and a first transfer whose timeout was not handled has the timer armed no later
than its deadline; the others need no timer, as they are looked at when the first one is. The invariants were
model-checked on the instances of their runs before they were proved; `TimerInv` also with two threads that both
have timeouts.

`UsersInv` says who has which context in his hands at each step of `libusb_init_context` and `libusb_exit`.
`LockInv`: at most one thread is between taking and giving back the default context's lock, and it is the one
the lock names. `OwnInv`: a context belongs to one thread or is the default, and it is live, or being
initialised by the thread that holds the lock. `RefInv`: `refcnt` is the number of users of the default, and
only the last of them gets as far as taking it down. `FallbackInv`: the fallback is live and never the
default. `ActiveInv`: no context is on the list that the monitor's thread goes through once its exit or its
failure has freed it. The property alone speaks of the moments when no lock is held, and says nothing of the
steps from one of them to the next. On top of it `CountInv` counts contexts with discovery through the steps
of `op_init` and `op_exit`, and `MonitorInv` follows the monitor through start and stop.

`HandlesInv` begins with what `claimed_interfaces` has to do with what usbfs has bound. Bound means claimed
(`BoundInv`) in every state; claimed means bound (`RealInv`) only if somebody in the middle of a call counts
as about to see to it (`SeenTo`): a reset has everything unbound before it claims again what is left in
`todo`, a release unbinds before it clears its bit. That nobody else comes in between is the handle's lock
(`LockInv`, with `StepInv` for which call a step belongs to), and that neither a reset nor a release finds its
interface bound again is `WorkInv`. `RealInv` is kept apart, as it is the only part that needs the hypothesis
of `ClaimedIsBound`. The six things that can come of an ioctl of a claim are named once (`Answers`), for the
claim, for the reset that claims again and for the detaching alike, and the parts are proved for those.
Interfaces that another program disconnected (`lost`) are left out of both directions, as the library has no
means to know of them.

`SafeInv` of `UsbDevices` is centred on `Refs`: the count of a device is the number of its holders. Each step moves a
reference from one holder to another, takes or drops one, and is shown to do so holder by holder (`Parts`, `PartsNext`).
That a reference is dropped by the one who holds it needs the rest: `HpInv` knows for each step inside
`linux_hotplug_lock` whether the device under way is on the list, `TargetInv` what a thread that opens or registers
aims at, `ListInv` that only the device an id stands for is taken off the list, `SaidInv` that its message is the only
one, and `Families` that the reference a child has on its hub is the one that `libusb_unref_device` gives back with
the child (`UnrefEffect`; `NoGrandparents`, so that it stops there). `PhaseInv` says who may still run while
`libusb_exit` walks the list. None of them is inductive without the others: a device listed twice, or said to have left twice,
would lose a reference that somebody else holds.

`BusInv` says of every moment what `ListCatchesUp` says of the quiet ones: a session id is listed as it is
plugged, unless an event about it is still in the socket or somebody inside `linux_hotplug_lock` is at work on
it. `NoGhosts` and `NoneMissed` are the two directions, `LastTells` says that the last event of an id is true, and
`Begun` that what is under way was told and is corrected by a later event if it is not true any more. The links to the
hubs need the order of the bus: a hub is told to have left after what was plugged into it (`HubsLast`,
`HubGoes`), so that a listed device whose hub is not listed is about to go (`HubIsListed`). `LostGo` and
`HeldWas` are for `libusb_open`, which disconnects a device before the monitor was told: only one that was listed and is
gone from the bus. Each action of the module is one of eight moves seen from there (the bus changes, nothing
that counts changes, an event is taken, the first scan asks, it goes on to an id, the device is made and listed, one is taken
off the list, a device is found gone), and most of the invariant is proved for the moves.

A transfer of `UsbUrbs` is a set of URBs that the kernel hands back in lists, which is how its steps are seen
(`Gives`, `Takes`): `UrbsInv` says that the list of URBs to be reaped names each of them once. `Earlier` is
the order in which URBs will be reaped as far as it is settled; handing back only adds to it. `Delivered` says
with it where each packet is: those up to `transferred` are in the buffer, those behind it in the outstanding
URBs, in their order, and as long as no URB broke the transfer each lies where its URB has its part of the
buffer (`InPlace`). That is why the kernel may put the data there (`PlaceOf`), and why the surplus of a broken
one has to be moved. `TroubleInv` says the same of events: the first URB that tells of something and is not
reaped yet tells of what happened first (`FirstTold`), so that the status that is kept is the first one, also
when a later URB ended otherwise. It was model-checked with three faults and all lengths up to five before it
was proved. An unplugged device is the exception that each part makes: the kernel then gives up whatever is
left, wherever it is.

The lemmas about lists (`RemoveElements`, `RemoveOrder`, `InsertElements`, `MinInSet` in `UsbEventsProofs`)
state what the operators of the community modules do to a list; the frame lemmas there say which actions
change a variable.

Only model-checked: liveness (`CommandReturns`, `OperationReturns`, `EverythingEnds`, `AllReleased`,
`EndsWhenCancelled`, and the liveness part of `ImplementsCall`), as neither fairness nor
ENABLED is in the prover's reach; `RkMain`,
`RkBin` and the other modules of libusb, whose proofs are left. What recursive definitions compute (`RkCodes`)
stays with TLC.

## 6. What was found

Shown by a run:

* Responses are accepted by their signature alone (`rk_usb.cpp:705`), although the struct's comment
  says that the tag is the `Same as original command`: after a timeout a command takes the late
  answer of an earlier one (`own_tag`).
* The status of a response is never read: a command the device refuses returns true (`refusal`).
* `maskrom_upload_memory` returns true when it could not allocate its buffer, and when the
  terminating transfer failed (`upload_reported`).
* `do_close` takes a transfer off the flying list with `list_del` (`core.c:1533`) and does not arm the timer
  for the next one: if its timeout was handled and the cancellation is not reaped yet, the thread that polls
  sleeps past the timeout of the next transfer, where `io.c:655` promises that the timerfd wakes it (`timeout_lost`).

Observations made while reading and modelling, each outside the conditions of the runs above (a
constant, a guard or an exception named in the module excludes it) or without a property of its own:

* In the program: tags are not unique, as `rand()` is never seeded (`rk_usb.cpp:684`). `read` ignores whether
  the file was saved, `storage` returns 0 when `storage_read` failed; `storage 0`, and every number it does
  not know, switches the device to FLASH. A file of 2 TiB and more is written with its length modulo 2^32
  sectors (`rk_usb.cpp:1433`); `AlwaysAPrefix` holds, and `DoneMeansAll` speaks of files whose count fits. An
  old loader without FlashData or FlashBoot is followed through a null pointer. A size above 2^32 - 2048 has
  the aligned length 0 (`rk_bin.cpp:120`), so that the copy of its entry has no room in the layout; `load`
  compares only the last entry with the length of the file, and its end is a 32-bit sum that may wrap (323);
  `ImagesAreWhole` excepts these. A file that grows between `ftell` and the last `fread` makes a last sector
  that is not padded but filled up, and true is returned without what was appended behind it (1456). The usage
  text says that `upgrade` needs loader mode; the gate of `main.cpp:92` lets it run in either. The device list
  of `init` is never freed (`rk_usb.cpp:81`).
* URBs (`linux_usbfs.c`): after a cancellation the results of isochronous packets are stored in the
  order the URBs come back, not in theirs (2525). Without BULK_CONTINUATION the URBs behind a short
  one do receive data (1962), where the comment at 2381 says that this cannot happen. A transfer
  whose URB failed while the rest was being submitted, so that a later one got EREMOTEIO,
  is reported as completed (2077).
* Devices: one unplugged between the first scan and `hotplug_ready` leaves the list without a message, and
  its reference is never dropped (`hotplug.c:270`; `StableStart`). A registration may
  report an arrival after the event thread reported the departure (408), and a callback may be called
  once more after its deregistration (308). A callback that returns 1 to the event thread
  is freed while its registration still uses it (409). A poll error on a wrapped handle takes whatever device
  has that address now off the list (`linux_usbfs.c:2752`).
* Contexts: `libusb_set_option(NULL, LIBUSB_OPTION_NO_DEVICE_DISCOVERY)` changes the default context that
  lives, so that its exit does not give back its share of the monitor (`SetsLive`); with a context
  without discovery, listing devices polls a monitor that may be freed (`PollsAlways`).
* Handles: a reset that fails with anything but ENODEV leaves claims the handle no longer has
  (`ResetErrors`); on kernels without DISCONNECT_CLAIM a claim that detaches the driver first may take the
  interface from another handle. A release with auto-detach ignores what CONNECT answers: where no loaded driver takes the
  interface (`linux_usbfs.c:1797`) it returns 0 with no driver behind, also if the claim had detached one.
* Events: a synchronous call whose event handling failed cancels its transfer (`sync.c:60`). If `libusb_close`
  has taken the handle from it meanwhile, the cancellation goes through NULL (`linux_usbfs.c:1876`), which the
  comment at `core.c:1526` has in mind (`Crashes`; the safety properties hold up to there, and
  `EverythingEnds` excepts it).
* Descriptors: an endpoint count above 0 with no endpoint array after a descriptor that ends early
  (`libusb.h:774` promises an array of that length); the first pass of the association parser goes on while
  one byte is left (`descriptor.c:1368`), compares a length with the whole size and reads the type behind the
  last byte: the exception in `StaysInBuffer`; its index is a `uint8_t`. The block of a SuperSpeedPlus
  capability that ends within its sublinks is not freed (1099; the exception in `NothingLost`).
  `libusb_get_string_descriptor_ascii` with a length of 0 writes one byte (1346; the exception in
  `StringFits`).
* Windows: a cancellation that comes too late aborts the other transfers of the pipe; an automatic release may
  come early: `auto_claim` is called only when no interface was found (3002), so that a transfer that shares
  an automatically claimed interface does not count, and neither does the user's own claim of it; the first
  completion releases it, where the comment at `windows_winusb.c:647` means to prevent that. `NothingIsLost`
  says that automatic claims are released, not that they are not released early; a second `windows_init` that
  fails leaves `init_count` too high; `htab_destroy` misses the last entry; a cancelled isochronous transfer
  is submitted again, and a refused retry is never reported.

## 7. What is not modelled

* Printing, progress, argument syntax and time in `main.cpp` and `rk_common.cpp`.
* The instructions of the payloads: they run on the device; the model takes a payload that arrived
  whole to do its work and return.
* libusb: streams, device memory, reading single sysfs attributes, the interface for programs with
  their own event loop, the copies of single BOS capabilities, `linux_netlink.c` (not used with
  HAVE_LIBUDEV), error texts. On Windows: enumeration through SetupAPI, HID and composite devices, UsbDk,
  and the wrappers of the system's events and locks. In `UsbEvents`: failures to arm the timer,
  interrupted `poll()` and transfers freed in their callback.
* Two parts of libusb at a time, except where a module has both: `UsbEvents` has one URB per
  transfer and `UsbUrbs` one transfer, `UsbHandles` has no transfers.
