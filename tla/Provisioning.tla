---------------------------- MODULE Provisioning ----------------------------
(***************************************************************************)
(* A unit's serial number: the host tool mboxprov.py writes it byte by     *)
(* byte through PROV_WRITE, whose handler only latches the byte; the main  *)
(* loop programs it into the EEPROM; the shipping image reads and checks   *)
(* the record when it boots.  Power may go at any moment, the I2C bus may  *)
(* fail a transaction, the tool may be run again.                          *)
(*                                                                         *)
(* The magic's four bytes and the version are one cell, read_record()'s    *)
(* three reads one read.  The EEPROM is external: a byte whose programming *)
(* is cut short is the old or the new one.                                 *)
(***************************************************************************)
EXTENDS Integers, Sequences, FiniteSets

CONSTANTS SERIAL_MAX_CHARS,
          Bits,         \* bit numbers of a byte, 0..k
          Magic,        \* the byte for magic and version
          Printable,    \* the printable bytes
          Erased,       \* an EEPROM byte never written
          Serials       \* the serials an operator may give the unit

Byte == 0 .. 2^Cardinality(Bits) - 1
Bit(x, k) == (x \div 2^k) % 2
NoSerial == <<>>

SERIAL_HDR_LEN == 3     \* magic, nchar, xor
NCHAR == 1
XOR_OFFSET == 2
RecordCells == 0 .. SERIAL_HDR_LEN + SERIAL_MAX_CHARS - 1

ASSUME ProvisioningAssumption ==
    /\ SERIAL_MAX_CHARS \in Nat \ {0} /\ 0 .. SERIAL_MAX_CHARS \subseteq Byte
    /\ Magic \in Byte /\ Erased \in Byte /\ Magic # Erased
    /\ Erased \notin 1 .. SERIAL_MAX_CHARS
    /\ Printable \subseteq Byte /\ Erased \notin Printable
    /\ Serials \subseteq Seq(Printable)
    /\ \A s \in Serials : Len(s) \in 1 .. SERIAL_MAX_CHARS

\* Every pattern of bits is a byte's, and no two bytes have the same.
ASSUME BitsAssumption ==
    /\ \A S \in SUBSET Bits : \E v \in Byte :
           \A k \in Bits : Bit(v, k) = IF k \in S THEN 1 ELSE 0
    /\ \A v, w \in Byte : (\A k \in Bits : Bit(v, k) = 1 <=> Bit(w, k) = 1) => v = w

VARIABLES
    record,          \* the record's cells
    image,           \* which firmware is flashed
    served,          \* g_serial_ok and g_str: the serial the host is told
    g_prov_pending, g_prov_offset, g_prov_value,
    dev_pc,          \* main loop: "loop", in the write, clearing the latch
    t_pc,            \* what cmd_write() is doing
    t_serial, t_force, t_next,   \* its arguments, the byte it sends next
    failed           \* offsets whose programming failed in this run of it

latch    == <<g_prov_pending, g_prov_offset, g_prov_value>>
device   == <<image, served, dev_pc>>
command  == <<t_pc, t_serial, t_force, t_next>>
provVars == <<record, device, latch, command, failed>>

Asking == {"guard", "write", "verify"}

ProvTypeOK ==
    /\ record \in [RecordCells -> Byte]
    /\ image \in {"provision", "shipping"}
    /\ served \in Seq(Printable)
    /\ g_prov_pending \in BOOLEAN /\ g_prov_offset \in RecordCells /\ g_prov_value \in Byte
    /\ dev_pc \in {"loop", "i2c", "clear"}
    /\ t_pc \in Asking \cup {"off", "failed", "refused", "done"}
    /\ t_serial \in Serials /\ t_force \in BOOLEAN
    /\ t_next \in 0 .. SERIAL_HDR_LEN + SERIAL_MAX_CHARS
    /\ failed \subseteq RecordCells

-----------------------------------------------------------------------------
(* The record.                                                             *)

\* The exclusive or of the cells in S.
XorOf(e, S) ==
    CHOOSE v \in Byte :
        \A k \in Bits : Bit(v, k) = Cardinality({c \in S : Bit(e[c], k) = 1}) % 2

build_record(s) ==
    LET Plain == [c \in 0 .. SERIAL_HDR_LEN + Len(s) - 1 |->
                    CASE c = 0 -> Magic [] c = NCHAR -> Len(s) [] c = XOR_OFFSET -> 0
                      [] OTHER -> s[c - SERIAL_HDR_LEN + 1]]
    IN [Plain EXCEPT ![XOR_OFFSET] = XorOf(Plain, DOMAIN Plain \ {XOR_OFFSET})]

Chars(e) == [i \in 1 .. e[NCHAR] |-> e[SERIAL_HDR_LEN + i - 1]]

\* Mutant: the checksum is not compared.
ChecksumIgnored(e) == TRUE

ChecksumHolds(e) ==
    e[XOR_OFFSET] = XorOf(e, 0 .. (SERIAL_HDR_LEN + e[NCHAR] - 1) \ {XOR_OFFSET})

AllPrintable(e) == \A i \in 1 .. e[NCHAR] : e[SERIAL_HDR_LEN + i - 1] \in Printable

\* serialno_load()'s checks, and decode_record()'s.
Valid(e) ==
    /\ e[0] = Magic
    /\ e[NCHAR] \in 1 .. SERIAL_MAX_CHARS
    /\ ChecksumHolds(e)
    /\ AllPrintable(e)

decode_record(e) == IF Valid(e) THEN Chars(e) ELSE NoSerial

-----------------------------------------------------------------------------
(* The device.                                                             *)

\* Boot: only the shipping image serves a serial; a failed read is no serial.
serialno_load(img) ==
    IF img = "shipping" THEN served' \in {decode_record(record'), NoSerial}
    ELSE served' = NoSerial

\* Mutant: the latch is cleared only when the byte went through.
ClearOnSuccess == g_prov_pending' = (g_prov_offset \in failed)

ClearLatch == g_prov_pending' = FALSE

\* The main loop finds a byte in the latch and programs it; the return value
\* is discarded and the latch cleared last, whatever came of it.
prov_write_start ==
    /\ dev_pc = "loop" /\ g_prov_pending
    /\ dev_pc' = IF g_prov_offset \in RecordCells THEN "i2c" ELSE "clear"
    /\ UNCHANGED <<record, image, served, latch, command, failed>>

eeprom_write_byte ==
    /\ dev_pc = "i2c" /\ dev_pc' = "clear"
    /\ \/ /\ record' = [record EXCEPT ![g_prov_offset] = g_prov_value]
          /\ UNCHANGED failed
       \/ UNCHANGED record /\ failed' = failed \cup {g_prov_offset}
    /\ UNCHANGED <<image, served, latch, command>>

prov_clear ==
    /\ dev_pc = "clear" /\ dev_pc' = "loop"
    /\ ClearLatch
    /\ UNCHANGED <<record, image, served, g_prov_offset, g_prov_value, command, failed>>

main == prov_write_start \/ eeprom_write_byte \/ prov_clear

\* The tool's process ends; what it was at is gone with it.
Exits(how) == t_pc' = how /\ t_force' = FALSE /\ t_next' = 0

\* Power fails, or an image is flashed and the unit replugged; a flash does
\* not reach the record.  A running tool loses its device.
Restart ==
    /\ image' \in {"provision", "shipping"}
    /\ \/ dev_pc = "i2c" /\ record' = [record EXCEPT ![g_prov_offset] = g_prov_value]
       \/ UNCHANGED record
    /\ serialno_load(image')
    /\ g_prov_pending' = FALSE /\ g_prov_offset' = 0 /\ g_prov_value' = 0
    /\ dev_pc' = "loop"
    /\ IF t_pc \in Asking THEN Exits("failed") ELSE UNCHANGED <<t_pc, t_force, t_next>>
    /\ failed' = {}
    /\ UNCHANGED t_serial

-----------------------------------------------------------------------------
(* The tool.  A request is served at once by the interrupt handler; while  *)
(* the device refuses it (STALL) the tool asks again until its deadline.   *)

\* Mutant: a byte that finds the latch full replaces it.
LatchOverwritten == FALSE

WriteBusy == g_prov_pending

\* Mutant: a read is served while a byte is being programmed.
ReadAnyTime == FALSE

ReadBusy == g_prov_pending

\* What PROV_READ returns: on a bus the main loop is using, anything.
ReadBack ==
    IF dev_pc = "i2c" THEN Serials \cup {NoSerial} ELSE {decode_record(record)}

\* cmd_write() on a unit that answers PROV_READ.
cmd_write(s, force) ==
    /\ t_pc \notin Asking /\ image = "provision"
    /\ t_pc' = "guard" /\ t_serial' = s /\ t_force' = force /\ t_next' = 0
    /\ failed' = {}
    /\ UNCHANGED <<record, device, latch>>

MayWrite(existing) == existing \in {NoSerial, t_serial} \/ t_force

check_existing ==
    /\ t_pc = "guard" /\ ~ReadBusy
    /\ \E existing \in ReadBack :
           IF MayWrite(existing) THEN t_pc' = "write" /\ UNCHANGED <<t_force, t_next>>
           ELSE Exits("refused")
    /\ UNCHANGED <<record, device, latch, t_serial, failed>>

\* PROV_WRITE: outside the record it is refused, too; the tool never is.  The
\* acknowledgement may be lost, which ends the run with the byte latched.
prov_write_byte ==
    /\ t_pc = "write" /\ ~WriteBusy
    /\ t_next \in RecordCells
    /\ g_prov_pending' = TRUE
    /\ g_prov_offset' = t_next /\ g_prov_value' = build_record(t_serial)[t_next]
    /\ \/ /\ t_next' = t_next + 1
          /\ t_pc' = IF t_next + 1 \in DOMAIN build_record(t_serial) THEN "write" ELSE "verify"
          /\ UNCHANGED t_force
       \/ Exits("failed")
    /\ UNCHANGED <<record, device, t_serial, failed>>

verify ==
    /\ t_pc = "verify" /\ ~ReadBusy
    /\ \E got \in ReadBack : Exits(IF got = t_serial THEN "done" ELSE "failed")
    /\ UNCHANGED <<record, device, latch, t_serial, failed>>

\* WRITE_DEADLINE_S is over and the device still refuses: its latch is full
\* or, on a read, its I2C transactions fail.
GiveUp ==
    /\ t_pc \in Asking
    /\ t_pc = "write" => g_prov_pending
    /\ Exits("failed")
    /\ UNCHANGED <<record, device, latch, t_serial, failed>>

Tool == check_existing \/ prov_write_byte \/ verify

-----------------------------------------------------------------------------
\* A unit from the factory, running either image.
ProvInit ==
    /\ record = [c \in RecordCells |-> Erased]
    /\ image \in {"provision", "shipping"} /\ served = NoSerial
    /\ g_prov_pending = FALSE /\ g_prov_offset = 0 /\ g_prov_value = 0
    /\ dev_pc = "loop"
    /\ t_pc = "off" /\ t_serial \in Serials /\ t_force = FALSE /\ t_next = 0
    /\ failed = {}

ProvNext ==
    \/ main
    \/ Tool
    \/ GiveUp
    \/ \E s \in Serials, force \in BOOLEAN : cmd_write(s, force)
    \/ Restart

\* The main loop runs and the tool keeps asking; nothing else is promised,
\* the deadline least of all.
ProvSpec == ProvInit /\ [][ProvNext]_provVars
ProvFairSpec == ProvSpec /\ WF_provVars(main) /\ WF_provVars(Tool)

-----------------------------------------------------------------------------
\* Every byte the device has acknowledged is in the part or still in the
\* latch, unless its programming failed: the retry neither loses a byte nor
\* lets the next one overtake it (the g_prov_pending test in PROV_WRITE).
AcceptedInPlace ==
    t_pc \in {"write", "verify"} =>
        LET r == build_record(t_serial) IN
        \A c \in 0 .. t_next - 1 :
            \/ record[c] = r[c]
            \/ g_prov_pending /\ g_prov_offset = c /\ g_prov_value = r[c]
            \/ c \in failed

\* When the tool has said "verified" the part holds the serial, and no later
\* boot serves another until the tool runs again (the g_prov_pending test in
\* PROV_READ; cmd_write's readback).
VerifiedIsServed ==
    t_pc = "done" => /\ decode_record(record) = t_serial
                     /\ served \in {t_serial, NoSerial}

\* Up to its length, e holds bytes of the record r and erased ones only.
PartOf(e, r) ==
    \A c \in RecordCells : c < SERIAL_HDR_LEN + e[NCHAR] =>
        e[c] = Erased \/ (c \in DOMAIN r /\ e[c] = r[c])

\* e is the record r but for one byte, which is not its length.
OneByteOff(e, r) ==
    \E d \in DOMAIN r \ {NCHAR} :
        /\ e[d] # r[d]
        /\ \A c \in DOMAIN r \ {d} : e[c] = r[c]

\* A record that holds bytes of one serial only, however many are missing,
\* makes a boot serve that serial or none; one that is off by a byte, whatever
\* is there instead, makes it serve none (serialno_load's checks).  It says
\* nothing of a record with several bytes of each of two serials.
DamageRefused ==
    \A s \in Serials : LET r == build_record(s) IN
        /\ PartOf(record, r) => served \in {s, NoSerial}
        /\ OneByteOff(record, r) => served = NoSerial

\* What serialno.c claims of its exclusive or, without that exception: a record
\* half written is refused, so a boot serves a serial somebody gave the unit, or
\* none.  The code does not keep it: see the run provisioning_over_old.
HalfWrittenRefused == served \in Serials \cup {NoSerial}

\* A run of the tool ends without its deadline's help: the device always
\* comes back to accept the next byte (prov_write_byte's retry, the main
\* loop's unconditional clear).
ToolEnds == t_pc \in Asking ~> t_pc \notin Asking
=============================================================================
