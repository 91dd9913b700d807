----------------------------- MODULE RamImages ------------------------------
(***************************************************************************)
(* ramflash and sigkill: run from program RAM, they write the EEPROM byte  *)
(* by byte with the routine of EepromDriver and halt, interrupts off and   *)
(* nobody watching.  ramflash tries each byte a second time; sigkill goes  *)
(* over its two bytes twice, whatever came of them.                        *)
(*                                                                         *)
(* The EEPROM is four cells: the header's checksum, its signature, the     *)
(* rest of the header (two signature bytes for sigkill), the payload.      *)
(***************************************************************************)
EXTENDS EepromDriver

CHKSUM_OFF == 0
SIG_LO_A   == 1
SIG_LO_B   == 2
Payload    == 3

VARIABLES image,     \* which of them runs
          at,        \* which of its writes is in hand; 0: unplugged
          again,     \* it is being tried a second time
          lost       \* history: bytes given up

program == <<image, at, again, lost>>
ramVars == <<vars, program>>

\* Mutant: checksum before the payload.
ChecksumFirst == <<CHKSUM_OFF, SIG_LO_A, SIG_LO_B, Payload>>

\* The offsets in the order in which main() writes them.
WriteOrder ==
    IF image = "ramflash" THEN <<Payload, SIG_LO_B, SIG_LO_A, CHKSUM_OFF>>
    ELSE <<SIG_LO_A, SIG_LO_B, SIG_LO_A, SIG_LO_B>>

\* ramflash's payload: every byte of it differs from the part's.
fw_image == [o \in Offsets |-> 1]

\* What the checksum vouches for, itself included.
ImageBytes == {CHKSUM_OFF, SIG_LO_A, SIG_LO_B, Payload}

Value(o) == IF image = "ramflash" THEN fw_image[o] ELSE 0

Finished == at = Len(WriteOrder) + 1
Halted   == at = 0 \/ Finished

\* put() tries a byte once more.
Retries == image = "ramflash" /\ ~again

\* The next call of eeprom_wr.
Writes ==
    /\ pc = "idle" /\ answer = None /\ ~Halted
    /\ eeprom_write_byte(WriteOrder[at], Value(WriteOrder[at]))
    /\ UNCHANGED program

\* Its answer, and the next byte or the same one.
TakesAnswer ==
    /\ pc = "idle" /\ answer # None
    /\ answer' = None
    /\ IF answer = 0 /\ Retries
       THEN again' = TRUE /\ UNCHANGED <<at, lost>>
       ELSE /\ at' = at + 1 /\ again' = FALSE
            /\ lost' = IF answer = 0 THEN lost \cup {WriteOrder[at]} ELSE lost
    /\ UNCHANGED <<wire, pc, call, left, got, holds, image>>

\* Power goes, and with it the image.
Unplugged ==
    /\ PowerCut /\ at' = 0 /\ UNCHANGED <<image, again, lost>>

Main == TakesAnswer \/ Writes

RamInit ==
    /\ image \in {"ramflash", "sigkill"}
    /\ DriverInit /\ at = 1 /\ again = FALSE /\ lost = {}
    /\ cells = [o \in Offsets |-> 1 - Value(o)]

RamNext ==
    \/ (BusOnly(Bus) \/ Routine) /\ UNCHANGED program
    \/ Main
    \/ (at # 0 /\ Unplugged)
    \/ (Halted /\ burning = None /\ UNCHANGED ramVars)

-----------------------------------------------------------------------------
(* Properties                                                              *)

\* One failed byte does not corrupt the image: unless two transfers fail, no
\* byte is given up (put()'s second try, main.c:106-122 of ramflash).  True of
\* a build that has the hold only.
NoByteLost == image = "ramflash" /\ faults < 2 => lost = {}

\* When the checksum is in the part, every byte it vouches for that was not
\* given up is there too, whenever the power goes (the order of main()'s
\* writes, main.c:30-36, and the hold between them).
ChecksumVouches ==
    image = "ramflash" /\ cells[CHKSUM_OFF] = fw_image[CHKSUM_OFF] =>
        \A o \in ImageBytes \ lost : cells[o] = fw_image[o]
=============================================================================
