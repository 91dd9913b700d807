------------------------------ MODULE Flashing ------------------------------
(***************************************************************************)
(* Replacing the firmware in the EEPROM: mboxfw's enter-DFU path, the host *)
(* flashers (tools/mboxflash_linux.py and mboxflash/main.m), and the       *)
(* images run from program RAM, ramflash and sigkill.  Power may be cut    *)
(* and transfers may fail at any moment, MaxFaults times in all.           *)
(*                                                                         *)
(* The TAS1020 boot ROM and the person at the bench are external.  The ROM *)
(* boots an image whose header adds up, and is otherwise in DFU: it        *)
(* programs the EEPROM it can read, and loads RAM when SDA is shorted.     *)
(*                                                                         *)
(* The EEPROM's header is abstracted to the image its bytes are of, the    *)
(* image its checksum is of, whether the signature is there and whether    *)
(* the ROM has marked it as being updated; its payload to blocks.          *)
(***************************************************************************)
EXTENDS Integers

CONSTANTS
    Blocks,       \* records of the image
    MaxFaults,    \* faults in all
    BytesStick,   \* a byte that ramflash fails to write is written the second time
    Careful       \* ramflash is used only on an EEPROM that does not boot

ASSUME FlashingAssumption ==
    /\ Blocks \in Nat \ {0} /\ MaxFaults \in Nat
    /\ BytesStick \in BOOLEAN /\ Careful \in BOOLEAN

VARIABLES
    header, payload,   \* the EEPROM
    mode,              \* what the device is doing
    short,             \* SDA is shorted to ground
    at,                \* the next write of the image that runs from RAM
    rom, left, coming, \* DFU state, blocks still promised, the block being stored
    pc, tool, what,    \* the flasher: where it is, which one, which image
    block, attempt, restart,          \* its counters
    faults

eeprom == <<header, payload>>
dfu    == <<rom, left, coming>>
count  == <<block, attempt, restart>>
host   == <<pc, tool, what, count>>
vars   == <<eeprom, mode, short, at, dfu, host, faults>>

Images  == {"old", "new"}
Cells   == 0 .. Blocks - 1
Tools   == {"linux", "mac"}
Files   == {"new", "cut", "ramflash", "sigkill"}
Running == {"send", "poll", "end", "manifest"}

TypeOK ==
    /\ header \in [of : Images, sum : Images \cup {"zero"}, signed : BOOLEAN,
                   updating : BOOLEAN]
    /\ payload \in [Cells -> Images]
    /\ mode \in {"off", "app", "ram_app", "halted", "dfu_eeprom", "dfu_ram", "ramflash",
                 "sigkill", "invalidate"}
    /\ short \in BOOLEAN /\ at \in 0 .. Blocks + 3
    /\ rom \in {"IDLE", "DNBUSY", "DNLOAD_IDLE", "MANIFEST", "ERROR", "HUNG"}
    /\ left \in 0 .. Blocks + 1 /\ coming \in Cells
    /\ pc \in Running \cup {"idle", "complete"}
    /\ tool \in Tools /\ what \in Files
    /\ block \in 0 .. Blocks /\ attempt \in 0 .. 2 /\ restart \in 0 .. 2
    /\ faults \in 0 .. MaxFaults

\* The ROM's check of the header (RomBoot.c, Eeprom.c as the sources cite them).
HeaderValid == header.signed /\ ~header.updating /\ header.sum = header.of
Whole(image) == header.of = image /\ \A c \in Cells : payload[c] = image

Fault == faults < MaxFaults /\ faults' = faults + 1

-----------------------------------------------------------------------------
(* Power and the person at the bench.                                      *)

Stopped == pc \notin Running

\* A flasher returns; its counters are gone.
Clear == block' = 0 /\ attempt' = 0
Returns(verdict) == pc' = verdict /\ Clear /\ restart' = 0

\* What the ROM does at power-up and when a bus reset ends its DFU session.
Boots == mode' = CASE short -> "dfu_ram" [] ~short /\ HeaderValid -> "app"
                   [] OTHER -> "dfu_eeprom"

Plug ==
    /\ mode = "off" /\ Boots
    /\ UNCHANGED <<eeprom, short, at, dfu, host, faults>>

\* A short makes the EEPROM unreadable.
PlugShorted ==
    /\ mode = "off" /\ short' = TRUE /\ mode' = "dfu_ram"
    /\ UNCHANGED <<eeprom, at, dfu, host, faults>>

RemoveShort ==
    /\ short /\ mode \in {"off", "dfu_ram"} /\ short' = FALSE
    /\ UNCHANGED <<eeprom, mode, at, dfu, host, faults>>

\* The RAM's contents are gone, and with the device the flasher's transfer.
PowerOff ==
    /\ mode' = "off" /\ at' = 0 /\ rom' = "IDLE" /\ left' = 0 /\ coming' = 0
    /\ Returns("idle") /\ UNCHANGED <<eeprom, short, tool, what>>

Unplug ==
    /\ mode \in {"app", "halted", "ram_app", "dfu_eeprom", "dfu_ram"} /\ Stopped
    /\ PowerOff /\ UNCHANGED faults

PowerCut == mode # "off" /\ Fault /\ PowerOff

-----------------------------------------------------------------------------
(* The device: enter-DFU and the images that run from RAM.                 *)

\* The vendor request of mboxprov and the flashers; the main loop drops off the
\* bus.  A unit that runs the new image is left alone.
EnterDfu ==
    /\ mode = "app" /\ Whole("old")
    /\ mode' = "invalidate" /\ pc' = "idle"
    /\ UNCHANGED <<eeprom, short, at, dfu, tool, what, count, faults>>

\* eeprom_invalidate_signature, twice; a failed write leaves the checksum.
Invalidates ==
    /\ mode = "invalidate"
    /\ \/ header' = [header EXCEPT !.sum = "zero"] /\ UNCHANGED faults
       \/ Fault /\ UNCHANGED header
    /\ at' = at + 1
    /\ mode' = IF at = 1 THEN "halted" ELSE mode
    /\ UNCHANGED <<payload, short, dfu, host>>

\* Mutants: from the first byte of the image on; the signature forgotten.
HeaderFirst(n) == CASE n = 0 -> "body" [] n = 1 -> "signature" [] n = 2 -> "sum"
                    [] OTHER -> "payload"
NoSignature(n) == CASE n < Blocks -> "payload" [] n = Blocks -> "body"
                    [] n = Blocks + 1 -> "body" [] OTHER -> "sum"

\* The order of ramflash's writes; headerSize is the same in every image.
WriteOrder(n) == CASE n < Blocks -> "payload" [] n = Blocks -> "body"
                   [] n = Blocks + 1 -> "signature" [] OTHER -> "sum"

put(n) ==
    CASE WriteOrder(n) = "payload" ->
           payload' = [payload EXCEPT ![n % Blocks] = "new"] /\ UNCHANGED header
      [] WriteOrder(n) = "body" ->
           header' = [header EXCEPT !.of = "new", !.updating = FALSE] /\ UNCHANGED payload
      [] WriteOrder(n) = "signature" ->
           header' = [header EXCEPT !.signed = TRUE] /\ UNCHANGED payload
      [] OTHER -> header' = [header EXCEPT !.sum = "new"] /\ UNCHANGED payload

\* Nothing is written with SDA shorted; a byte that fails twice is given up.
ramflash ==
    /\ mode = "ramflash"
    /\ \/ ~short /\ put(at)
       \/ (short \/ ~BytesStick) /\ UNCHANGED eeprom
    /\ at' = at + 1
    /\ mode' = IF at = Blocks + 2 THEN "halted" ELSE mode
    /\ UNCHANGED <<short, dfu, host, faults>>

\* Both signature bytes, twice.
sigkill ==
    /\ mode = "sigkill"
    /\ \/ ~short /\ header' = [header EXCEPT !.signed = FALSE] /\ UNCHANGED faults
       \/ short /\ UNCHANGED <<header, faults>>
       \/ Fault /\ UNCHANGED header
    /\ at' = at + 1
    /\ mode' = IF at = 1 THEN "halted" ELSE mode
    /\ UNCHANGED <<payload, short, dfu, host>>

-----------------------------------------------------------------------------
(* The boot ROM's side of DFU.                                             *)

InDfu == mode \in {"dfu_eeprom", "dfu_ram"}
Ready == InDfu /\ rom \in {"IDLE", "DNLOAD_IDLE"}

\* A block is stored, or the ROM reports an error that may pass.  An EEPROM
\* without a signature cannot be programmed: the ROM gives errPROG and hangs.
\* The header is marked while blocks are outstanding, and completed with the
\* last of them.
RomStores ==
    /\ InDfu /\ rom = "DNBUSY"
    /\ \/ mode = "dfu_eeprom" /\ ~header.signed
          /\ rom' = "HUNG" /\ UNCHANGED <<eeprom, left, faults>>
       \/ Fault /\ rom' = "ERROR" /\ UNCHANGED <<eeprom, left>>
       \/ /\ mode = "dfu_eeprom" /\ header.signed
          /\ rom' = "DNLOAD_IDLE" /\ left' = left - 1
          /\ payload' = [payload EXCEPT ![coming] = "new"]
          /\ header' = [header EXCEPT !.of = "new", !.updating = (left # 1),
                                      !.sum = IF left = 1 THEN "new" ELSE "zero"]
          /\ UNCHANGED faults
       \/ /\ mode = "dfu_ram"
          /\ rom' = "DNLOAD_IDLE" /\ left' = left - 1
          /\ UNCHANGED <<eeprom, faults>>
    /\ UNCHANGED <<mode, short, at, coming, host>>

-----------------------------------------------------------------------------
(* cmd_flash of both flashers.                                             *)

\* The entry checks: a state other than dfuIDLE is cleared, but by the Linux
\* tool alone when it is dfuERROR.  Images for RAM go to a shorted device; one
\* with its last record cut short passes the validation of main.m, which counts
\* whole records.
cmd_flash(t, w) ==
    /\ InDfu /\ Stopped
    /\ w \in {"new", "cut"} \/ (mode = "dfu_ram" /\ (w = "ramflash" /\ Careful => ~HeaderValid))
    /\ w = "sigkill" => Whole("old") /\ HeaderValid
    /\ w = "cut" => t = "mac"
    /\ tool' = t /\ what' = w
    /\ \/ /\ rom \in {"IDLE", "DNLOAD_IDLE"} \/ (rom = "ERROR" /\ t = "linux")
          /\ rom' = "IDLE" /\ pc' = "send"
       \/ /\ rom \in {"HUNG", "DNBUSY", "MANIFEST"} \/ (rom = "ERROR" /\ t = "mac")
          /\ UNCHANGED rom /\ pc' = "idle"
    /\ UNCHANGED <<eeprom, mode, short, at, left, coming, count, faults>>

\* A block is sent; from dfuIDLE the ROM starts afresh.  A transfer that fails,
\* or that the ROM refuses, is tried three times.
Sends ==
    /\ pc = "send"
    /\ \/ /\ Ready
          /\ rom' = "DNBUSY" /\ coming' = block
          /\ left' = IF rom = "DNLOAD_IDLE" THEN left
                     ELSE IF what = "cut" THEN Blocks + 1 ELSE Blocks
          /\ pc' = "poll" /\ attempt' = 0 /\ UNCHANGED <<block, restart, faults>>
       \/ /\ (Ready /\ Fault) \/ (~Ready /\ UNCHANGED faults)
          /\ IF attempt = 2 THEN Returns("idle")
             ELSE attempt' = attempt + 1 /\ UNCHANGED <<pc, block, restart>>
          /\ UNCHANGED dfu
    /\ UNCHANGED <<eeprom, mode, short, at, tool, what>>

NextBlock == IF block + 1 = Blocks THEN "end" ELSE "send"

\* Polling a block.  When the polls run out, 100 in the code, it counts as
\* stored; an error that may pass restarts the image from its first block, at
\* most twice.
Polls ==
    /\ pc = "poll"
    /\ \/ /\ \/ rom = "DNLOAD_IDLE" /\ UNCHANGED faults
             \/ rom = "DNBUSY" /\ Fault
          /\ pc' = NextBlock /\ block' = block + 1
          /\ UNCHANGED <<rom, attempt, restart>>
       \/ /\ rom = "ERROR" /\ restart < 2
          /\ rom' = "IDLE" /\ pc' = "send" /\ Clear /\ restart' = restart + 1
          /\ UNCHANGED faults
       \/ /\ \/ rom = "ERROR" /\ restart = 2 /\ UNCHANGED faults
             \/ rom = "HUNG" /\ UNCHANGED faults
             \/ Fault
          /\ Returns("idle") /\ UNCHANGED rom
    /\ UNCHANGED <<eeprom, mode, short, at, left, coming, tool, what>>

\* Mutant: the outcome of the end marker is not looked at.
EndIgnored ==
    /\ pc = "end" /\ pc' = "manifest"
    /\ rom' = IF ~Ready THEN rom ELSE IF left = 0 THEN "MANIFEST" ELSE "ERROR"
    /\ UNCHANGED <<eeprom, mode, short, at, left, coming, tool, what, count, faults>>

\* The zero-length end marker: accepted when every block promised has come.
Ends ==
    /\ pc = "end"
    /\ \/ /\ Ready
          /\ rom' = IF left = 0 THEN "MANIFEST" ELSE "ERROR"
          /\ pc' = "manifest" /\ UNCHANGED <<count, faults>>
       \/ /\ (Ready /\ Fault) \/ (~Ready /\ UNCHANGED faults)
          /\ Returns("idle") /\ UNCHANGED rom
    /\ UNCHANGED <<eeprom, mode, short, at, left, coming, tool, what>>

\* The bus reset that launches what was loaded.
Launches ==
    IF mode = "dfu_eeprom" THEN Boots
    ELSE mode' = IF what \in {"new", "cut"} THEN "ram_app" ELSE what

\* The Linux tool goes on from a manifest state; the other gives up polling and
\* goes on from any state but dfuERROR.
GoesOn == \/ rom = "MANIFEST"
          \/ tool = "mac" /\ rom \in {"IDLE", "DNBUSY", "DNLOAD_IDLE"}

\* The bus reset, which may fail to arrive, ends the ROM's DFU session.
Manifests ==
    /\ pc = "manifest"
    /\ \/ /\ GoesOn /\ Returns("complete")
          /\ \/ /\ Launches /\ rom' = "IDLE" /\ left' = 0 /\ UNCHANGED faults
             \/ Fault /\ UNCHANGED <<mode, rom, left>>
       \/ /\ ~GoesOn /\ Returns("idle")
          /\ UNCHANGED <<mode, rom, left, faults>>
    /\ UNCHANGED <<eeprom, short, at, coming, tool, what>>

-----------------------------------------------------------------------------
Init ==
    /\ header = [of |-> "old", sum |-> "old", signed |-> TRUE, updating |-> FALSE]
    /\ payload = [c \in Cells |-> "old"]
    /\ mode = "app" /\ short = FALSE /\ at = 0
    /\ rom = "IDLE" /\ left = 0 /\ coming = 0
    /\ pc = "idle" /\ tool = "linux" /\ what = "new"
    /\ block = 0 /\ attempt = 0 /\ restart = 0 /\ faults = 0

Device == Invalidates \/ ramflash \/ sigkill \/ RomStores
Flasher == Sends \/ Polls \/ Ends \/ Manifests
Bench == Plug \/ PlugShorted \/ RemoveShort \/ Unplug \/ EnterDfu
         \/ \E t \in Tools, w \in Files : cmd_flash(t, w)

Next == Device \/ Flasher \/ Bench \/ PowerCut

Spec == Init /\ [][Next]_vars

\* Code that runs goes on running.  The person keeps at it: asks an old unit to
\* enter DFU, flashes what enumerates, and takes to the short and ramflash now
\* and then, with the short removed first.
FairSpec ==
    /\ Spec /\ WF_vars(Device) /\ WF_vars(Flasher)
    /\ SF_vars(Unplug) /\ SF_vars(~short /\ Plug) /\ SF_vars(EnterDfu)
    /\ SF_vars(PlugShorted) /\ SF_vars(mode = "dfu_ram" /\ Stopped /\ RemoveShort)
    /\ SF_vars(mode = "dfu_eeprom" /\ cmd_flash("linux", "new"))
    /\ SF_vars(~short /\ cmd_flash("linux", "ramflash"))

-----------------------------------------------------------------------------
(* Properties                                                              *)

\* Whenever the ROM would boot the EEPROM, what it would boot is one image from
\* end to end: no interruption leaves a valid header over a half-written payload
\* (ramflash's order of writes, eeprom_invalidate_signature).
NeverBootsPartial == HeaderValid => \E image \in Images : Whole(image)

\* When a flasher reports a complete flash of a readable EEPROM, the EEPROM
\* holds the new image with a header that boots (cmd_flash of both tools).
CompleteInPlace ==
    pc = "complete" /\ what \in {"new", "cut"} /\ mode \in {"dfu_eeprom", "app"} =>
        HeaderValid /\ Whole("new")

\* However a session goes wrong, the unit ends up running the new image: there
\* is no state of the EEPROM that the tools of the repository cannot leave.
Recovers == []<>(mode = "app" /\ Whole("new"))
=============================================================================
