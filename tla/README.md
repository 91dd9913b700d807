# mboxfw in TLA+

A verification development for **mboxfw**, the class-compliant replacement
firmware for the Digidesign Mbox (an 8051 in a TI TAS1020B USB chip, written in
C for SDCC), with the host tools and recovery images that surround it. Paths
below are relative to `src/`; `mboxfw/src/usb.c` is written `usb.c` and so on.

The firmware is small, has no operating system and no allocator, and is hard to
test: its bugs show on a bench, with one device, in the window between two
instructions. What it has is *interleaving* (an interrupt handler that runs every
USB request to its end, a main loop with interrupts enabled, a USB engine that
runs beside both), *ordering* (USB transfers that are abandoned, reset,
suspended) and *state kept in several copies* (a variable, the shift register it
was clocked into, the converter that saw the edge). Those are what the models
are about; register numbers, gain tables and waveform timing are not modelled.

## 1. Inventory

| component | source | state it keeps | operations | hard part |
|---|---|---|---|---|
| EP0 control pipe | `usb.c` | reply pointer and remainder, pending OUT request, pending address, the endpoint-0 registers it shares with the chip | SETUP, IN and OUT events, bus reset | the order in which the chip serves vectors; what a transfer leaves armed for the next; abandoned transfers |
| Audio path | `streaming.c`, `usb.c`, `codec.c`, `cs8427.c`, `power.c` | alternate settings, rate, clock mode, codec word, mutes, DMA and endpoint enables, calibration latch | SET_CONFIGURATION, SET_INTERFACE, rate, Selector and Feature Unit, SET_CLOCK, DIAG_MODE, SOF watchdog, deferred bring-up, suspend and resume | any order of legal requests; suspend in the middle; several writers of one word |
| Latch chains | `codec.c`, `mux.c` | a byte or word, and what the shift register and the latch hold | bit-banged publish | an interrupt publishing on the same pins |
| Front panel | `buttons.c`, `codec.c`, `mux.c`, `streaming.c` | the panel byte (sources, two lamps) and the codec's source code | button poll, stream start and stop, Selector | read-modify-write interrupted |
| Main loop, work queue, suspend | `main.c`, `power.c`, `isr.c` | tick flag, one-slot work queue, enter-DFU flag, CONN and EA | boot, poll, dispatch, suspend, halt; the interrupts that post to it | starvation, lost posts, check-then-sleep, attach order |
| Hardware bring-up | `hw_init.c` | registers | one fixed sequence | none of its own |
| ACG feedback and playback watchdog | `streaming.c` | 64-frame window, last ACG count, shadow of the DMA count | once per SOF; the seed of a rate change; stream start | wrap-around arithmetic, torn 16-bit reads |
| Telemetry, vendor requests | `telemetry.c`, `usb.c` | counters | reads; SET_MUX | none for the reads |
| Descriptors | `descriptors.c` | constant data | none | total length only |
| EEPROM driver | `eeprom.c`; copied in `ramflash/`, `sigkill/` | the I2C controller's flags, the part's address counter and program cycle | byte write, sequential read | flags left by an early return, the STOP that has to come in time, the program-cycle hold |
| Serial number, provisioning | `eeprom.c`, `serialno.c`, `usb.c`, `main.c`, `tools/mboxprov.py` | one-slot latch, serial record in EEPROM | PROV_WRITE, deferred write, boot-time load | retry of a queued byte, power loss between bytes |
| Enter-DFU and flashers | `usb.c`, `main.c`, `tools/mboxflash_linux.py`, `mboxflash/` | enter-DFU flag; DFU state of the ROM | DETACH, signature invalidation, download | the reply racing the detach, partial writes |
| safety_net | `safety_net/src/main.c` | a second, smaller EP0 engine; the stage canary | as the control pipe | as the control pipe; a blink code that must not lie |
| ramflash, sigkill | `ramflash/`, `sigkill/` | the EEPROM | one-shot write, halt | power loss, a byte that does not stick, a hold that is not in the build |
| Bench tools, gates | `tools/` | none on the device | observe | – |
| Stock Rev 22 firmware | `firmware_stock/decomp/cand/rev22_*.c` | stage flags, class tag, one event byte, two latch chains | EP0, interrupt handlers that post events, fourteen commands, two of them on the boot EEPROM | the event byte is overwritten and cleared unlooked at; unbounded waits |
| Rest of the reverse-engineering corpus | `firmware_stock/`, `reference/`, `ramloader/DESIGN.md` | – | – | raw decompiler output and notes |

How they interact. The chip raises a vector; `isr.c`'s INT0 handler calls
`usb_service()`, which runs the **whole** request handler, and that calls
straight into the audio path, the latch chains, the panel byte and the work
queue. Timer 0 sets a flag. The main loop looks at the flag (buttons, panel,
codec word), at the work queue (bring-up, suspend) and at the enter-DFU flag.
So each module of the main loop has the interrupt handler as its adversary,
and the control pipe has the chip and the host as its own.

The EEPROM holds one image at a time, and three images of the repository answer
on the same endpoint: mboxfw, safety_net and stock Rev 22. They meet one
chip and one host, so the bus is a module of its own (`ControlBus`). What
replaces one image by another is the chip's boot ROM in DFU mode, driven by a host flasher;
`ramflash` and `sigkill` run from program RAM when the ROM cannot.

What makes each part correct, in one line:

* pipe – a read delivers the bytes of *its* reply, a write is acknowledged only
  when accepted, an address moves only after its status stage, every request
  is answered, a SETUP ends what was before it;
* audio – an open stream has all it needs, a mute is never undone, the clock and
  the lamps follow the source, a calibration that stands is a good one;
* chains – what was published is what is latched;
* panel – no press lost, the lamps tell the truth;
* EEPROM – a call that succeeded is in the part for good, one that failed met a fault,
  a wait ends;
* CS8427 port – a set guard means a chip that listens, its clock source is the clock mode's;
* provisioning – no acknowledged byte lost, what the tool verified is what the
  unit serves, a record in part or off by a byte is refused;
* feedback – the value the host polls settles on the running clock, exactly; a
  playing stream never stays split between sample frames;
* flashing – nothing half-written boots, what is reported flashed is flashed, every
  EEPROM can be recovered;
* stock – a request left to the main loop is answered unless its event was lost,
  capture follows the alternate setting, an open stream is audible;
* safety_net – as the pipe, and a blink code rules out what its table says;
* loop – a suspend is served, the device comes back and is never attached while
  deaf, enter-DFU always gets to its halt.

## 2. Modules

| module | models | extends / uses |
|---|---|---|
| `ControlTransfer` | what endpoint 0 promises a host: the abstract specification | – |
| `ControlBus` | endpoint 0's registers, the chip's buffer manager and a host: what every firmware of the repository finds there | – |
| `ControlPipe` | endpoint 0 of `usb.c` | `ControlBus`; INSTANCEs `ControlTransfer` |
| `MCControlPipe` | the request sets of two of the pipe runs | `ControlPipe` |
| `ControlPipeProofs` | its theorems, the refinement among them | `ControlPipe`, TLAPS |
| `SafetyNet` | endpoint 0 and the stage canary of the recovery image | `ControlBus` |
| `StockPipe` | endpoint 0 of stock Rev 22 | `ControlBus` |
| `MCImages` | the three images, one of which is on the bus | `SafetyNet`, `StockPipe`; INSTANCEs `ControlPipe` and `ControlTransfer` |
| `ImagesProofs` | the theorems of the recovery image | `MCImages`, TLAPS; INSTANCEs `ControlPipeProofs` |
| `StockEvents` | stock Rev 22's event byte, interrupt handlers and main loop | – |
| `StockAudio` | its latch chains and clock outputs, on that main loop | `StockEvents` |
| `StockAudioProofs` | the theorems of both | `StockAudio`, TLAPS |
| `AudioPath` | every request and event that changes mboxfw's audio path | – |
| `AudioPathProofs` | its theorems | `AudioPath`, TLAPS |
| `ControlPort` | the CS8427's bring-up, step by step, and the handlers that use its port | – |
| `MCPort` | the codec's chain bit by bit, or the port that hangs on it | `ShiftChain`; INSTANCEs `ControlPort` |
| `Feedback` | what the SOF interrupt does for playback: measurement and watchdog | – |
| `MCFeedback` | its counts, and a host that sets rates or one that opens streams | `Feedback` |
| `ShiftChain` | one latch chain and an interrupt on the same pins | – |
| `AudioHardwareProofs` | the theorems of the chain, the port and the watchdog | `MCPort`, `MCFeedback`, TLAPS |
| `PanelUpdate` | the panel byte between the poll and the requests | – |
| `MainLoop` | `main()`, `work_dispatch()`, `do_suspend()` and the posting interrupts | – |
| `MCLoop` | the main loop, or the panel poll it runs on a tick | `PanelUpdate`; INSTANCEs `MainLoop` |
| `LoopProofs` | the theorems of the main loop and of its panel poll | `PanelUpdate`, TLAPS; INSTANCEs `MainLoop` |
| `I2cBus` | the I2C controller and the 24C64, external | – |
| `EepromByte` | what the EEPROM routines promise: the abstract specification | – |
| `EepromDriver` | mboxfw's EEPROM routines, wait by wait | `I2cBus` |
| `RamImages` | ramflash and sigkill, byte by byte | `EepromDriver` |
| `StockEeprom` | stock Rev 22's EEPROM self-test and enter-DFU write | `I2cBus` |
| `MCEeprom` | the four images that write the EEPROM, one of which runs | `RamImages`; INSTANCEs `StockEeprom` and `EepromByte` |
| `EepromProofs` | its theorems, the refinement among them | `MCEeprom`, TLAPS |
| `Provisioning` | PROV_WRITE's latch, the main loop's EEPROM write, `mboxprov.py`, the boot-time check of the record | – |
| `MCProvisioning` | the serials of its runs | `Provisioning` |
| `Flashing` | replacing the EEPROM's image: enter-DFU, the two host flashers, ramflash, sigkill | – |
| `HostToolProofs` | the theorems of flashing and of provisioning | `Flashing`, `Provisioning`, TLAPS |

The modules cut the program where the code itself does: `AudioPath` and `Feedback` treat an
interrupt-time handler as one action (nothing preempts INT0's handler), and the
modules about the main loops take their steps apart, because those *are*
preempted. A definition has the C function's name where there is one.

### ControlBus, ControlPipe

`inNak`, `inToggle`, `stall` … are bits of IEPCNF0/IEPDCNTX0/OEPCNF0/OEPDCNTX0,
`vecs` the sources pending behind VECINT, `isr` where the handler is; variables
with `h_` names are the host's, with `g_` names the firmware's. A request is a
class, not eight bytes: its
`kind`, the length `len` of the reply the firmware has for it, `wLen`, and
`good`, the verdict of the code's own tests. A packet is `(request, offset, length)`
so that a property can say *whose* bytes it carries.

`IsrEnter`/`handle_setup`/`SetupAck` are separate because the SETUP case clears
VECINT only when it is done, and until then the chip NAKs everything;
`service_IEP0` and `service_OEP0` clear it first. The writes of zero to
IEPDCNTX0/OEPDCNTX0 are modelled for what they do: they also clear the NAK bit,
i.e. *arm* the endpoint (`EndOfTransfer`, `ArmOut`). The chip and the host are
external, modelled from how the code uses them and from the datasheet sections
its comments cite. Assumptions about them, all visible as guards: the host
sends the kinds in `OnceAddressed` only to an addressed device; a packet with the wrong
toggle is dropped as a repeat; `PromptIsr` (true in every run) – no new SETUP
while an IN or OUT event is still unserved, which is what a host's inter-packet
gap against a handler of some tens of microseconds amounts to; only kinds in
`Abandonable` are given up half-way.

`RefinesTransfer` is the refinement: the host's variables of `ControlBus` are
those of `ControlTransfer`, and every step of the pipe is a step of the abstract
transfer or a stutter. Register, interrupt and reply-pointer steps stutter. It
is checked of all three firmwares.

### SafetyNet

`net` is the image's own state. A write with data is to it an unknown request
among others, which it stalls as it stalls those: `NetRequests` has none apart from the refused
`NO_DATA`, which has a `wLength`. `STAGE` keeps the highest milestone;
the milestones that depend on the request's bytes (which descriptor, which
class request) are a choice among the sets `Named` gives. `spoke` is a history variable:
`DiagnosisSound` says that a reading below a milestone rules that milestone out, as
the table at `main.c:103-121` has it: a device that blinks less than 14, say, was never
spoken to at an assigned address. The panel bit-banging that shows the stage is not modelled.

### StockPipe

The prologue arms both directions before the request is looked at; `f_stage_out`
and `f_stage_in` name the stage, `g_class_tag` what a completion is for. A
descriptor's length is compared with `wLength` byte by byte in the wrong order
(`SwappedLess`): the model has the comparison as it is, over bytes of base
`ByteBase`. It turns out harmless for the clamp, and decides the trailing empty
packet wrongly only where the host no longer asks. Assumptions:

* `OnceAddressed` contains `NO_DATA` and `DEFERRED`: stage flags, tag and pending address
  survive a bus reset, so a tag 5 left by an interrupted SET_ADDRESS would be
  taken for the next completion at address 0. A host asks a device with no address
  for a descriptor or for SET_ADDRESS first. For the same reason a `wLength` with a high byte
  is asked of an addressed device only.
* short replies are not clamped to `wLength`: only requests with enough room are sent.
* `PromptAck`: no packet moves while an IN or OUT event is being served. VECINT is
  acknowledged after the handler, which has armed the endpoint by then: a packet
  moving in between would raise a vector that the acknowledgement takes.
* `PromptLoop`: no SETUP while the main loop still owes the answer to a `DEFERRED` request.

### StockEvents, StockAudio

Interrupt handlers post one byte, `g_event`; the main loop reads it, carries out the
command and clears the byte, whatever it holds by then. `job` is what the
running command has read: flags are sampled at its start. `fresh` says
that the byte was written during the job, and `lost` is the history of deferred
requests nobody will carry out – overwritten, or cleared unserved. The tick goes
first, posts through the same byte and dispatches at once. `StockAudio` gives each
command its effect on the two chains and the clock outputs; no handler
touches a chain, so a command's end is where they are seen. Left out: source and rate values,
the CS8427's registers, lamps other than the recording lamp, the clock forced by the
self-test.

### AudioPath

One action per request and event. `word`/`word_out` and `panel`/`panel_out` are a
variable and the latch it is shifted into; `adc` remembers *when* the converter
last left reset relative to the reference settling, which is what the one-time
calibration depends on. `bench` is the build: it is chosen in `Init`, and the
bench build adds SET_CLOCK and DIAG_MODE. `Init` is the state at the first pass
of the main loop: `codec_init()`, `cs8427_boot_init()` and the first
`streaming_set_rate(48000)` have run. Suspend is two actions around the idle
instruction. `power = "detached"` is a device that has resumed and waits for the
host's bus reset. Abstracted: gains, the synthesiser's dividers, the CS8427's
registers, the MONO latch (it has its own bit and no reader), the register
values of DMA set-up.

### Feedback

`FrameBegins` latches the clock's counter and the buffer's fill level and raises
the interrupt; a frame that begins before the last one was served is a missed SOF. A
rate change in the middle of a frame gives that frame the counts of either clock.
`usb_isr_sof` is the handler: `streaming_acg_sample()`, then the watchdog of
`streaming_sof()`. Subtraction is modulo the counter's width. The frame in which
a rate changes is seen as the code sees it: the window is discarded, and the first capture
after a discard only primes. `Slips` is the DMA losing its place; that it does not
do so again before a whole count has been seen is an *assumption*, because the
watchdog compares the count with its shadow and a slip back to the
shadow's value goes unheard. `unheard` is that history. `NeverSplitsSamples` covers
the first frame of a stream as well.

### ControlPort

`AudioPath` has the bring-up as part of one action; here it is taken apart where the main
loop does it (at boot, with the device already attached, and as `WORK_BRINGUP`), because handlers
preempt it. `done` is the guard bit, `reset_n` the reset line as latched, `mode` what
the chip listens to: reset clears it, and the first select after reset chooses SPI.
Of the ten writes the model keeps the first three (register 4 cleared), the fourth
(register 4, run) and the rest (register 3 stands for them). A frame of a handler's own is whole; one that
falls into the main loop's frame collides: the chip may take anything (`Collides`) and what
is left of the interrupted frame goes nowhere. `disturbed` is history: a handler has
used the port since the bring-up began.
Assumptions: a publish of the latch word is one step (`ShiftChain` is about its bits);
`Init` is the state in which `main()` has attached, zeroed the word and not yet
called the bring-up. `SourceFollows` leaves disturbed bring-ups out, so that its
counterexample is about the suspend alone.

### I2cBus, EepromByte, EepromDriver

`I2cBus` is external: the controller, modelled from `regs.h` and the drivers' comments, and a 24C64.
What a routine writes to I2CADR, I2CDATO or reads from I2CDATI becomes one transfer
(`adr`, `out`); the part answers it (`Transfer`), or the controller reports an
error or nothing at all (`Faulty`, at most `MaxFaults`). A part that is programming answers
nothing; power may go at any moment and then a byte being programmed is the old or the
new one. Offsets are two digits of base `Radix`, so that a high and a low address byte can be
mixed up. An action of `EepromDriver` is what the routine does between two
waits. `CLEAR_ALL` keeps none of the five flags. `wait_bit_fails` is the bound:
a transfer takes much less than 0xFF00 turns of the loop, so it runs out only when nothing is under
way.

`EepromByte` is what the callers go by: a write that answers 1 is in the part for good, a read
that answers 1 is what is there, a 0 means that the byte has been written or
nothing has. `KeepsPromise` is the refinement, and it is what allows
`Provisioning` and `Flashing` to have a write as one step that may fail. It is checked in
`MCEeprom`, of mboxfw and of the two RAM images.

### RamImages, StockEeprom

`RamImages` runs the same routine from ramflash's and sigkill's `main()`. `holds`
is the *build*: the hold of both images is a loop over a local that is not
volatile, and the repository's own finding is that SDCC deletes such a call. The run
has `HoldBuilds = {TRUE}`, the source as written; section 5 says what the other build
does. `lost` is the bytes given up: `Flashing`'s `BytesStick` is `lost = {}`
(`NoByteLost`), which holds with the hold and fewer than two faults; that is proved (`NothingLost`).

`StockEeprom` has the two stock commands on the same bus. The stock routines clear the two STOP flags
and no other, do not look at ERROR and wait for ever: a fault may hang them, and `WaitsEnd` asks of
them only that they end without one. The read-back of the self-test can only differ
from what was written when a cell has worn out (`WearsOut`); a part that does not
acknowledge hangs the command instead of failing it. The repeated START of a read is written while the controller's
flags may still be those of the address byte; the model lets STOP_READ be
set before that byte is over, as the code does.

### Provisioning

Two programs and a chip. The device: `prov_write_byte`'s and `verify`'s guards are
the handler's tests of the latch (`WriteBusy`, `ReadBusy`), because the handler
answers within the request; the main loop's three steps are the test, the I2C
write, the clear. The tool: `t_pc` is where `cmd_write()` is, a refused request
changes nothing and is repeated, so a retry is the action staying enabled; a lost
acknowledgement ends the run with the byte latched (the tool retries on STALL
only). `Restart` is a power failure at any point, also with another image flashed:
a byte in the middle of its program cycle is the old or the new one. While the
main loop uses the I2C bus a read returns anything (`ReadBack`), which is what the
`g_prov_pending` test is there for. `failed` is a history variable: what has failed in
this run of the tool. `Exits` is the end of the tool's process, whose arguments are gone with it.
Abstracted: a byte is a few bits (the exclusive or is computed bit by bit), the magic's four bytes
and the version are one cell, the tool's three overlapping reads one.

`DamageRefused` says what the boot-time checks do ensure, of any content the part can have: a
record that holds bytes of one serial only, the others never written, is that serial's or none
(`PartOf`: it is the character test that sees missing characters), and a record off by one byte is
none (`OneByteOff`: that is the checksum's work, and what `mboxprov.py`'s self-test tries for single
bits). `HalfWrittenRefused` is the comment's claim, which says more: it has no exception for a
record with several bytes of each of two serials. The code does not keep it (section 5).

### Flashing

The EEPROM's header is four facts: the image its bytes are of, the image its
checksum is of, the signature, and the ROM's updating mark; the payload is `Blocks`
cells. The boot ROM is external, from the parts of it the sources cite: it boots a
header that adds up, and is otherwise in DFU. The flasher is `pc`, the tool it
is, the file it sends and the two retry counters; polls, restarts and the final
bus reset follow `cmd_flash`. `invalidate` is mboxfw's enter-DFU after the detach:
two header bytes, each of which may fail. `ramflash` writes payload before
header, `sigkill` two signature bytes. A fault is a power cut, a failed transfer or
a failed byte, `MaxFaults` in all. Assumptions:

* the checksums of the old and the new header differ, and their size and signature
  fields are the same;
* a failed download block was never accepted by the ROM;
* an application image downloaded to the RAM target runs from RAM;
* SDA is not touched while `ramflash` runs;
* `BytesStick` – a byte `ramflash` fails to write is written the second time;
  `Careful` – `ramflash` is used only on an EEPROM that does not boot. Both are
  constants, true in the run; without the first, `ramflash`'s "give up and go on"
  can leave a bad byte under a good header, without the second its first
  payload byte is written under a valid one (section 5).

### ShiftChain, PanelUpdate, MainLoop

`ShiftChain` follows `codec_shift_byte()`/`mux_write()` clock by clock: data pin,
rising edge, latch. `ByteStarts` says at which bit counts the next byte of the
word is read: `{0}` for the panel's chain, `{0, 8}` for the codec's. An interrupt
may publish a whole word between any two steps. Loop variables of the main
loop's instance are assumed to be its own; SDCC's overlay allocation could
share them with the interrupt's, which would add outcomes.

`PanelUpdate` takes a press of one channel's button apart at every place where
the interrupt can see a difference: the read of the panel byte, its write, the
read of the source, the nibble, the S/PDIF test, the lamp, two publishes. Single
bit operations are one 8051 instruction and atomic. The second channel is the
same code on other bits. A suspend also rewrites the byte, in the
main loop between polls: `do_suspend()` writes 0xFF, the resume's `hw_init()` 0xF6. `AudioPath` has
the lamps' bits of both; the source patterns they leave are not modelled.

`MainLoop` has the positions of `main()` and `do_suspend()` as `pc`. An interrupt
is an action enabled while `EA` is set and the processor runs. `tickFree` is the
timer bound: Timer 0's period is at least 6.4 ms and a pass of the loop is much
shorter, so between two ticks some pass finds none. `BusIdle` is the chip seeing
5 ms of idle bus; nothing stops it from coming at any moment after boot.

## 3. Runs

| run | module | expects | what it shows |
|---|---|---|---|
| `pipe_controls` | MCImages | pass | mboxfw, safety_net and stock Rev 22 with a patient host, reads that end short, full, clamped: each implements `ControlTransfer` and ends every transfer, its toggles and the host's agree, the recovery image's blink code is sound |
| `pipe_everything` | MCControlPipe | pass | all requests, rejected writes, transfers given up half-way: replies are never mixed, SETUP supersedes, addresses move only after their status stage |
| `pipe_rejected_write` | MCControlPipe | violation | the first finding of section 5 |
| `audio_path` | AudioPath | pass | both builds, any order of requests, resets and suspends |
| `control_port` | MCPort | pass | the codec's chain: an undisturbed publish latches its word; the CS8427 on it: the bring-up interrupted at every step by rates, stream starts and suspends |
| `loop_and_poll` | MCLoop | pass | the poll: presses are counted, code and panel agree under any interruption, lamps right until one is raced; the main loop: a suspend is served, the device comes back, enter-DFU halts |
| `eeprom` | MCEeprom | pass | mboxfw, ramflash, sigkill and stock on one faulty part: the routines implement `EepromByte` and fail for a reason, the checksum vouches, the stock DFU write is durable, waits end |
| `provisioning` | MCProvisioning | pass | power loss, I2C failures, lost acknowledgements, any number of runs over each other: bytes in place, verified means served, a record in part or off by a byte refused, the retry needs no deadline |
| `provisioning_over_old` | MCProvisioning | violation | the same unit; the second finding of section 5 |
| `flashing` | Flashing | pass | power cuts, failed transfers, failed bytes anywhere in a reflash: nothing partial boots, complete is complete, the unit ends up running the new image |
| `stock_events` | StockAudio | pass | requests, resets, ticks, button edges and suspends against the stock main loop: deferred requests answered unless lost, capture as selected, open streams audible, chains as their variables |
| `feedback` | MCFeedback | pass | missed frames, a wrapping counter, rate changes inside a window, DMA slips: the feedback value settles exactly, no stream stays split |

Four runs hold several systems that never run at once: the image in the EEPROM
(`pipe_controls`, `eeprom`), the view of the chain (`control_port`), the view of the loop
(`loop_and_poll`). `Init` chooses
one, and the variables of the others stand still.

### Bounds, and why they are enough

* **Packets of 2 bytes, replies up to 5.** The code compares a remainder with
  `EP0_MAX_PACKET` (8) and nothing else; with 2, lengths 0..5 give an empty reply,
  a short one, exactly one packet, exactly two, two and a short one, each with
  `wLength` below, at and above it. A longer reply only repeats the middle.
* **Addresses {0, 1, 2}.** Default, and two that can be confused.
* **Traffic.** `MboxRequests` of `pipe_controls` leaves out rejected writes and abandoned
  transfers, because the properties checked there fail with them (section 5), and no request set but
  `everything` has the reads that end on an even number of full packets; `everything` puts all of
  them back, except an abandoned SET_ADDRESS, for the properties that
  survive.
* **ByteBase 4** in `pipe_controls`: 5 has a high byte and 2 does not, so stock's swapped comparison
  goes both ways. For safety_net and stock descriptor reads may be given up half-way.
* **AudioPath, MainLoop, StockAudio, ControlPort have no bound**: they are finite.
* **Radix 2** in `eeprom`: four cells, so that an offset has a high and a low
  byte, a wrong shift shows, and every content of the part is an initial state of mboxfw's and
  stock's. Reads of 2 and 3 bytes: with
  2 the STOP is armed at once, with 3 after a byte. Two faults: a call that meets one
  and a call after it that meets another, or ramflash's byte and its retry.
* **Feedback**: counts of 7 and 9 in a frame, windows of two frames, a counter of
  20: it wraps within a window. `Slack` 15 for the code's 256: the crystal off by
  one count is plausible and a window with a frame missed or of the other rate is
  not, as in the code. Fill levels: empty, whole in steps of eight (48), and two
  that are not whole, of which one has taken a full step (7, 55). Two
  missed frames and two rate changes: a second one can hit the window
  that the first one discarded.
* **Width 4, bytes of 2.** The chain's proof holds for every width and split; the
  run is there to show the property is not vacuous and that its mutant fails.
* **MaxPresses 4.** One more than the cycle of three sources, so that it closes; the
  proofs hold for any number.
* **Provisioning**: records of three header cells and three characters, bytes of three
  bits, two printable characters. The two serials have one length and end in the same two
  characters in another order: the case in which a record half written over the other's
  passes the checksum (section 5), so that what `DamageRefused` claims is checked where the
  wider claim fails. The two first characters of either cancel out in the exclusive or, as two
  erased bytes do. Nothing is counted: runs of the tool, failures and power losses
  are unlimited. The proof is for records of any length and any bytes.
* **Flashing**: three blocks (a first, a middle, a last), three faults, so that a
  retry and its repetition can both fail. The safety proofs hold for any of both.

### Fairness

* Each image of `pipe_controls`: weak fairness of the interrupt handler – a
  pending interrupt is served, the handler ends – and of the host's polling
  while it is owed an answer; for stock also of the main loop's
  arming of a deferred status stage. No fairness on
  resets or on new SETUPs. `TransferEnds` allows a SETUP to cut a transfer off.
* `MainLoop`: `WF(main)` – the processor runs; `WF(wake)` – the bus resumes or
  is reset one day. Nothing obliges an interrupt to come, and none is limited
  except by the timer's period. `CHECK_DEADLOCK FALSE` in its run, because
  after enter-DFU the firmware halts by design.
* `StockAudio`: `WF(AudioLoop)` – the main loop runs on; `SF` of the dispatcher – the
  tick is served first, but ticks are 4 ms apart, and between two of them the loop comes
  round often enough to see an event.
* `Feedback`: frames go on beginning, the SOF interrupt is served. Both bounded
  counters mean that disturbances end one day; `TracksClock` is about what follows.
* `Provisioning`: `WF(main)` – the main loop runs; `WF(Tool)` – the tool asks again.
  Its deadline is *not* fair: `ToolEnds` says that the tool does not live on it.
* `Flashing`: `WF` of the device's and the flasher's code; strong fairness of the
  person, who keeps at it: unplugs and plugs, asks an old unit for DFU, flashes
  what enumerates, and takes to the short and `ramflash` now and then. That is
  the procedure the repository's documents give.
* `MCEeprom`, for mboxfw and stock: the processor runs, a transfer takes its time, a program cycle ends.
  Nothing obliges a caller to call or the part to take a byte.
* `MCPort`: the port's main loop goes on while the processor is awake; no handler is fair, and
  nothing obliges a sleeping device to wake.
* The other modules state no liveness.

Every property of a passing run has a mutant in `PROJECT.json`: a plausible bug in
the code (a dropped guard, a wrong order, a missing reset), under which the run
finds the property violated. Mutated forms stand just before the definition
they replace, marked `Mutant:`.

## 4. Proofs

| theorem | property | along which argument |
|---|---|---|
| **ControlPipeProofs** | | |
| `PipeTyped` | `TypeOK` | inductive by itself; any host, no assumption |
| `NothingLeftOver` | `SetupSupersedes` | `IInv`: which vectors and which handler position go with which state of the host, when a pending address may stand, and what of a read is loaded, sent and received |
| `AddressWaits` | `AddressAfterStatus` | the address only leaves `g_pending_address` on an IN completion, and under `IInv` that is the one of its own status stage |
| `RepliesInOrder` | `ReplyInOrder` | the three read parts of `IInv` chain the packet in the buffer, the packet on its way and the bytes the host has |
| `TogglesAgree` | `ToggleAgrees` | `KInv`: while a read goes on, the host's toggle says whether it has taken an even number of packets, and the armed packet carries it; nothing has left the IN endpoint since the SETUP of a write |
| `PipeImplementsTransfer` | `RefinesTransfer` | `IInv` and `JInv`: only a bad request stalls, each stage of the host has its endpoint state, what the status stage says has been judged |
| **StockAudioProofs** | | |
| `EventsTyped` | `EventsTypeOK` | inductive by itself |
| `CaptureIsAsSelected` | `CaptureFollowsAlt` | `EventsInv` follows a single event through its life: in the byte, begun, done, or counted as lost; while it is on its way, its command will read the flags that count |
| `LatchesFollowWords` | `ChainsAgree` | every command ends with a publish of what it wrote |
| `OpenStreamsAreAudible` | `StreamAudible` | from both: whoever sets up the chips unmutes them, whoever mutes takes the setting-up back |
| `AudioImplementsEvents` | – | `AudioSpec => Spec`: each audio command is its event command with more said |
| **ImagesProofs** | | of the recovery image, whatever the other two do |
| `RecoveryIsAPipe` | – | the recovery image's registers are those of a pipe that has no OUT requests: each of its handlers is the pipe's handler for the requests it knows |
| `RecoveryTogglesAgree`, `RecoveryAddressWaits`, `RecoveryRepliesInOrder` | `ToggleAgrees`, `AddressAfterStatus`, `ReplyInOrder` | the pipe's theorems, of that pipe (`PipeInv`) |
| `RecoveryImplementsTransfer` | `RefinesTransfer` | the same; its writes are legal because it has none |
| `RecoveryTyped` | – | with the canary's bounds |
| `CanaryTells` | `CanarySound` | `Behind`: what the host has seen has its milestone behind it, and `Ahead`: so has what the next packet will show it |
| **EepromProofs** | | any size of the part, any number of faults and power cuts |
| `ZeroJustified` | `ZeroIsJustified` | `CallInv`: until a call meets a fault it is `Live`, each wait with what it asked or with the part's answer; after that it is `Dead`, and can only give up; the next call starts `Live` whatever flags it finds |
| `PromiseKept` | `KeepsPromise` | the same invariant, action by action; for builds with the hold: without it a call may return while the part still programs |
| `ChecksumIsLast` | `ChecksumVouches` | `Ordered`: the bytes before the one being written are `Vouched` for, in the part or counted as lost; with or without the hold |
| `NothingLost` | `NoByteLost`, in no run | `Spent`: a retry has cost a fault, so a byte given up has cost two; for builds with the hold |
| `NextBoot` | `NextBootIsDfu` | `StockCall`: the stock routine clears two flags and looks at one, so its waits have an invariant of their own; what `WearsOut` does to the cell is the exception the property names |
| **HostToolProofs**, flashing | | under `Trusted`: `BytesStick` and `Careful`; any number of blocks and faults |
| `FlashingTyped` | – | inductive by itself |
| `NothingPartialBoots` | `NeverBootsPartial` | a checksum vouches for one image, and a header whose checksum vouches is written last (`SumVouches`), by the ROM when the promised blocks are in (`Storing`), by `ramflash` at its end (`RamImages`) |
| `CompleteIsInPlace` | `CompleteInPlace` | a session's counter is the number of blocks stored (`Counted`), and the ROM's manifest state has seen them all (`Reported`) |
| **AudioPathProofs** | | |
| `TypeCorrect` | – | inductive by itself |
| `LatchesCoherent` | `LatchesAgree` | strengthened with `SleepsAnalog`: a sleeping device's word does not route S/PDIF, else the panel the resume writes would disagree with it |
| `MutedStaysMuted` | `MuteRespected` | inductive by itself; both writers of the pair subtract `g_host_mute` |
| `SpdifKeepsClockSlaved` | `SlavedWhileSpdif` | with `BuildFixed`, and with `word = word_out` from `LatchesAgree`, because the code tests the variable and the property speaks of the latch |
| `CalibrationSound` | `CalibrationStands` | `CalInv`: a latched calibration implies a settled reference, which is what makes the next rising edge "settled", and the ADC is not held while its bit is up |
| `SelectedStreamIsReady` | `StreamReady` | `ReadyInv`: the bring-up guard bit implies released chips, because SET_INTERFACE skips the bring-up when the guard is set; a suspend breaks what is open, and only the bus reset that brings the device back, clearing the selection, makes the property speak again |
| `PairStaysPure` | `PairIsPure`, in no run | inductive with the mute's invariant |
| `ReportedRateHolds` | `ReportedRateRuns`, in no run | `RatesInv`: the internal rate is the reported one unless it is 0, slaved |
| **LoopProofs**, panel | | any number of presses |
| `PanelTyped` | – | inductive by itself |
| `EveryPressCounts` | `PressesCount` | `Counts`: between the read and the write of the panel byte the source field has no other writer |
| `CodeFollowsPanel` | `CodeMatchesPanel` | `Matches`: the nibble in hand is that of the source the panel shows |
| `UndisturbedLamps` | `QuietLamps` | `Lamps`, position by position, as long as no request has raced one |
| **LoopProofs**, main loop | | |
| `LoopTyped` | – | inductive by itself |
| `AttachedDeviceListens` | `NeverDeafOnBus`, in no run | `LoopInv`: at which positions the device is off the bus, and at which it is masked; the latter are among the former |
| **HostToolProofs**, provisioning | | any record length; no assumption but on the constants |
| `AcceptedBytesStay` | `AcceptedInPlace` | `Phases` and `Latched`: while the tool sends, the latch holds a byte of this run's record, because what an earlier run left in it has been programmed before the first is accepted |
| `VerifiedStays` | `VerifiedIsServed` | the same, with `Done`: a verifying read found the latch empty |
| `DamageIsRefused` | `DamageRefused` | `ServedInv`: a serial is served only while the part holds its record and nothing is on its way there. The rest is about records: in `PartIsWhole` the length and each character cannot be erased bytes, in `OffIsRefused` the byte that differs does so in a bit, whose parity then differs |
| **AudioHardwareProofs** | | chain: any width, any split into bytes, any set of bits; watchdog: any fill levels below the counter's reset value |
| `QuietPublishLatches`, `QuietPublishInRun` | `QuietPublish` | `QuietInv`: the bits out so far are the word's first `i`, in order; the second is the same of the run, where the chain shares a state with the port |
| `GuardUsable` | `GuardMeansUsable` | `PortInv`: between the release of the reset line and the select the chip is out of reset, whichever handler came between; a suspend takes guard and reset line together |
| `SplitNeverLasts` | `NeverSplitsSamples` | `SofInv`: the DMA slips only after a count that was whole or reset, so a frame that is off changes the count, and the interrupt looks at it; `RemainderIsRemainder` says that what its subtractions leave is the remainder |

The theorems assume what the code needs and no more:

* `NothingLeftOver`, `AddressWaits`, `RepliesInOrder`, `TogglesAgree` and the theorems of the recovery image:
  `Patient`, that is `PromptIsr` and a SET_ADDRESS that is not abandoned;
  `PipeImplementsTransfer` also that every write is legal. That is where the code's own exceptions
  lie (section 5). It says more than its run: it includes transfers given up half-way, other than SET_ADDRESS.
* `TogglesAgree` and `RecoveryTogglesAgree` also `OddEnds`: no read that is shorter than asked for fills an even number of
  packets, because the code gets the toggle of its empty packet wrong (section 5). Rejected writes and
  abandoned transfers are *not* excluded, as they are in the run.
* `PromiseKept` and `NothingLost`: `HoldBuilds = {TRUE}`, a build that has the program-cycle hold, the
  source as written. mboxfw's build is checked for that; of the RAM images see section 5.
* the flashing theorems: `Trusted`, that is `BytesStick` (which `NothingLost` proves of ramflash for
  fewer than two faults) and `Careful`.
* `DamageIsRefused`: `BitsAssumption`, that every pattern of bits is that of one byte, and of only one. It is
  arithmetic, of bytes of any number of bits, which would need an induction; TLC evaluates it.
* elsewhere the assumptions on the constants alone, which TLC evaluates in the runs: that model
  values such as `None` and `Clock` are not bytes, commands or calls, that fill levels stay below the reset value.

Under them the theorems hold for every packet size, reply length, set of addresses and set of requests, every
size of the EEPROM and number of faults, every record length and so on.

`AudioPath`, `MainLoop` and `StockAudio` have no constants, so their theorems are
about the very systems the runs enumerate; what they add is the *reason* each property
holds, handler by handler. In every proof module the invariant is a conjunction
of named parts, and the preservation proof has one step per action.

`streaming_sof()` divides by subtracting, and `Remainder` is a recursive function. The library's
induction theorems cannot be used with the provers at hand, because they take a predicate; `LeastOf`, the least-number
principle over a *set* of naturals, can, and a least counterexample
is all `RemainderIsRemainder` needs.

Every safety property of the passing runs is stated by a theorem. Only model-checked: what
`pipe_controls` says of stock Rev 22, whose engine is not the pipe's (`RefinesTransfer` and `ToggleAgrees`, with its
stage flags and deferred answers). Out of the
prover's reach: the liveness properties (`TransferEnds`, `SuspendServed`,
`ComesBack`, `EnterDfuHalts`, `ToolEnds`, `DeferredAnswered`, `Recovers`,
`TracksClock`, `WaitsEnd`, `BringupCompletes`), which rest on fairness.

## 5. Where code and text disagree

With a run of its own:

* **A rejected rate can look accepted** (`usb.c:1691`). The end-of-transfer
  cleanup's `IEPDCNTX0 = 0` arms an empty IN packet. It is still there at the
  status stage of the next write, which is acknowledged before `VEC_OEP0` has
  judged its data. The comment at `usb.c:1714-1716` promises "an unambiguous no". Run
  `pipe_rejected_write`, `StatusJustified`.
  The same packet explains why an *abandoned* read followed by
  an accepted write may answer that status stage with stale data.
* **A half-written record can pass its checksum** (`serialno.c:62`).
  `serialno.c:55-57`: "This is guarding against a half-written or truncated record -- a flash
  interrupted partway -- not against an adversary"; `mboxprov.py:423-424`: "This is what the xor
  is for -- a half-written record from an interrupted flash." The record is
  written from its header on, and the checksum is an exclusive or. When a run
  over an older serial of the same length stops between two characters, and the
  rest of the old and of the new have the same exclusive or (`…12` and `…21`), the
  unit serves new beginning and old rest. The tool's readback would notice;
  a power failure is what keeps it from running. Run `provisioning_over_old`,
  `HalfWrittenRefused`: over the serial 1 1 2 the run with 2 2 1 is cut off after its
  first character, and the next boot serves 2 1 2.

Without a run of its own, but shown by adding a line to one:

* **ramflash's hold may not be in the build** (`ramflash/src/main.c:82`, and the same loop at
  `sigkill/src/main.c:80`). `firmware_stock/decomp/FINDING_delay_calls_elided.md:9-10`: SDCC
  "proves that a `static` function whose body is a loop over a NON-VOLATILE local has no
  observable effect, and deletes **the call site**"; `eeprom.c:36-44` is where that happened to this very
  hold, and `tools/verify_reachability.py` looks for it in mboxfw only. Without the hold the
  part is still programming when the next byte comes and does not answer it, nor
  its retry: bytes are given up without any fault, and the checksum is written or not as
  it happens. The comments (`main.c:77-79`, `111-113`) say the wait is "Comfortably longer than
  the datasheet's 5 ms tWR" and a byte is retried so that it does not "silently
  corrupt the image". `BRICK_LOG.md:71-76` records the image's one hardware run: "the
  checksum byte never landed". `eeprom` with `HoldBuilds = {TRUE, FALSE}` and the invariant
  `NoByteLost`, which fails with no fault at all; with `HoldBuilds = {TRUE}` it is `NothingLost` that the proofs establish for one fault.
* **The external clock does not survive a suspend** (`cs8427.c:212`). The suspend resets the
  CS8427 and leaves clock mode 1 in ACGCTL and `g_clock_mode`; the bring-up of the next stream
  writes CLOCKSOURCE 0x40 and nothing writes register 4 again. `streaming.c:448-450`: "Paired with
  CLOCKSOURCE = 0x41 in the tail below; the two writes are meaningless apart." A Selector request
  between the resume and the bring-up is lost in the same way: the chip is still in reset. As an
  invariant of `ControlPort`'s `Spec`, which has no constants: `SourceFollows`.
* **An abandoned SET_ADDRESS stays pending** (`usb.c:1052` against `usb.c:1030-1032`). The
  flush at SETUP resets the reply but not `g_pending_address`. With SET_ADDRESS in
  `Abandonable` (`Traffic = "impatient"`), `SetupSupersedes` fails.
* **No clock after a suspend** (`power.c:68`, `power.c:94`). Nothing on the resume sets the ACG
  bits again; a host that only reopens the stream gets none. As an
  invariant of `audio_path`: `Online => \A d \in Dirs : g_alt[d] = 1 => acg_on`.
* **Lost lamp** (`buttons.c:111` against `streaming.c:690`). The whole-byte write-back
  undoes bit 7. As an invariant of `PanelUpdate`'s `Spec`: `Settled => mux_out.idle = ~running`.
* **OUT is left un-armed** by a transfer that ends in a rejected or abandoned data stage:
  the *next* write's data stage is NAKed until some IN completes (`usb.c:1695`,
  `usb.c:1772`; the comment at `usb.c:1716` says "rather than a broken pipe").
* **ramflash over a valid header** writes its first payload bytes under it
  (`ramflash/src/main.c:30-35` says a failed run leaves the device in DFU): `Careful = FALSE`.

Seen while modelling, mboxfw:

* the empty packet that ends a read of an exact number of packets carries DATA0
  when that number is even (`usb.c:1689`), against `tools/sim_ep0_requests.py:582-588`;
* a publish in the interrupt between two bits of the main loop's shift leaves a
  mixture of two words latched until the next publish (`codec.c:120`), while
  `TELEMETRY.md:233-234` calls the reported bytes "the complete state of both latch
  chains"; `ShiftChain` has the interleaving, `QuietPublish` the undisturbed case;
* `do_suspend()`'s configured test is far from its idle instruction, with interrupts
  enabled between them, so that a bus reset can put an unconfigured device to
  sleep (`power.c:92`, against `power.c:58-59`);
* without `PromptIsr`, an IN completion served late applies the address of the
  next SET_ADDRESS before its status stage (`usb.c:1664`);
* both streaming endpoints are enabled at boot and by every rate change
  (`streaming.c:525-526`, `main.c:352`), against `usb.c:1534`;
* a bus reset leaves `playback_running` and the lamp (`usb.c:1855-1857`) while the
  alternate settings go to zero (`streaming.c:684-685`);
* `do_suspend()` (`power.c:74`) and `streaming_set_rate()` also write the bits that
  `codec.c:151-152` reserves to `codec_apply_mute()`; `PairIsPure` says when that is
  harmless;
* `codec_source_changed()` tests the S/PDIF bit and then writes the lamp
  (`codec.c:104-108`); interrupted in between, the analog lamp is wrong
  (`usb.c:729-730`). `QuietLamps` covers the undisturbed case;
* work posted while its slot's handler runs is cleared with it (`power.c:152`,
  against `power.c:147-151`);
* enter-DFU detaches without waiting for its status packet (`main.c:510`, against
  `usb.c:632-634`);
* the comment at `main.c:402-419` announces a calibration at boot that no statement
  performs;
* `streaming.c:746` and `:808` bring the chips up in the interrupt handler, where
  `usb.c:557-562` says that work is deferred;
* a rate request that interrupts the CS8427 bring-up cuts through its frame: a register may stay
  unwritten, and the guard keeps the bring-up from being done again (`cs8427.c:98`; `disturbed` in
  `ControlPort`);
* while the clock is slaved `fb_nominal` keeps the last internal rate, so an
  S/PDIF input at another rate is outside the 1/256 plausibility window for good and the
  feedback value stays the old one, against `streaming.c:203-206`;
* three consecutive missed SOFs do not make the counter lose a wrap (`streaming.c:92-93`):
  a frame has 12288 counts, so it takes five;
* a codec word published by the main loop (`buttons.c:145`) and interrupted by another
  publish can latch a mixture that drops RESET_N (`disturbed` in `ShiftChain`).

Seen while modelling, the other images and the tools:

* `mboxflash/main.m:317-330` takes an image whose last record is cut short, because it counts whole
  records; the flash then fails at the ROM's end marker;
* `safety_net/src/main.c:118` calls stage 16 "drained", while `main.c:710` sets it on every
  completed IN;
* `rev22_usb_isr_int0_vecdispatch.c:82-84` and `safety_net/src/main.c:661-670` disagree on what
  clearing VECINT after the handler takes with it;
* stock: command 4 applies mode byte 1 again when command 5 left it; command 3 does
  not clear `f_spdif` when it sets the internal clock; command 12 leaves `f_force`; SET_CONFIGURATION
  while capturing leaves the recording lamp lit; a rate or source write is acknowledged at
  once and may be lost with its event; closing capture stops playback as well; the SOF handler enables
  playback DMA whether or not it was running.

## 6. Not modelled

* **Hardware bring-up** (`hw_init.c`): a straight line of register writes; what other
  modules need of it is in their boot and resume actions.
* **Descriptors and telemetry** (`descriptors.c`, `telemetry.h`, the read half of the vendor
  requests): constant tables and copies of counters into a reply. Their lengths
  enter the control pipe; their contents decide nothing.
* **Register values**: gains, synthesiser dividers, panel patterns, the CS8427's registers but for
  its clock source and data flow (`ControlPort`).
* **Bench and gate tools** (`tools/`, but for the flasher and the provisioning tool): they
  observe the firmware and hold no protocol state.
* **Rev 20** (the files of `decomp/cand` without the `rev22_` prefix): with few exceptions – no SOF
  watchdog, helpers inlined differently, the OUT toggle stored where IEP0 is done – the same routines
  as Rev 22's, which `StockPipe`, `StockEvents`, `StockAudio` and `StockEeprom` model. They are not modelled a second time.
* **Raw decompiler output** (`rev20_decompiled.c`, `rev22_decompiled.c`): the same two programs before
  they were recovered by hand. Together with the telemetry header they are some 7000 of
  the repository's 31 000 lines.
* **Instruction-level races**: SDCC's static overlay of locals (`codec.c:118`) and the
  moment at which a VECINT write acts (`usb.c:1890`): neither is settled by the repository.

What could follow: SET_MUX, the second channel and the mono button in
`PanelUpdate`; endpoint 0 and the event byte of the stock image in one module, so
that the deferred status stage of `StockPipe` is the `waiting` of `StockEvents`; a proof that stock's
endpoint 0 implements `ControlTransfer`.

## 7. Running it

Each `.cfg` belongs to the module named in the table of section 3:

    tlc -workers 2 -config pipe_controls.cfg MCImages
    tlc -workers 2 -config eeprom.cfg MCEeprom
    tlc -workers 2 -config stock_events.cfg StockAudio
    tlc -workers 2 -config flashing.cfg Flashing

and each proof module stands for itself:

    tlapm ControlPipeProofs.tla
    tlapm AudioPathProofs.tla

The largest runs are `feedback` (814 099 distinct states), `stock_events` (606 556), `pipe_everything`
(about 347 000), `pipe_controls` (398 000, with the refinement and the liveness property),
`provisioning` (621 510) and `audio_path` (139 000).
