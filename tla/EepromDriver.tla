---------------------------- MODULE EepromDriver ----------------------------
(***************************************************************************)
(* mboxfw's EEPROM routines (mboxfw/src/eeprom.c), wait by wait, on the    *)
(* bus of I2cBus; the byte write of ramflash and sigkill is the same code. *)
(* An action is what the routine does between two waits.                   *)
(*                                                                         *)
(* The program-cycle hold is a busy loop.  SDCC deletes the call of one    *)
(* whose counter is not volatile (eeprom.c:34-44): `holds` says whether    *)
(* the build has it.                                                       *)
(***************************************************************************)
EXTENDS I2cBus, Sequences

CONSTANT HoldBuilds   \* the builds considered: those with the hold, those without

\* What a caller may ask for.
Writing == [op : {"write"}, at : Offsets, value : Byte]
Reading == [op : {"read"}, at : Offsets, len : 2 .. 3]

ASSUME DriverAssumption ==
    /\ HoldBuilds \subseteq BOOLEAN /\ HoldBuilds # {}
    /\ None \notin Writing \cup Reading

VARIABLES pc,        \* the wait the routine is in, "idle" outside it
          call,      \* its arguments
          left, got, \* eeprom_read_seq's counter and the bytes read
          answer,    \* what the last call returned
          holds

routine == <<pc, call, left, got, answer>>
vars    == <<wire, routine, holds>>

TypeOK ==
    /\ WireTypeOK
    /\ pc \in {"idle", "high", "low", "data", "hold", "receive"}
    /\ call \in Writing \cup Reading \cup {None}
    /\ (pc = "idle") = (call = None)
    /\ left \in 0 .. 3 /\ got \in Seq(Byte)
    /\ answer \in {None, 0, 1} /\ holds \in HoldBuilds

-----------------------------------------------------------------------------
\* Mutant: the flags of the last transaction stay.
NothingCleared(flags) == flags

\* Of the flags modelled CLEAR_ALL (0x54) keeps none.
CLEAR_ALL(flags) == {}

\* wait_bit: the error flag is looked at first.
wait_bit(flag) == "ERROR" \notin sta /\ flag \in sta

\* It gives up on an error, or when nothing is under way that could answer.
wait_bit_fails(flag) == "ERROR" \in sta \/ (flag \notin sta /\ out = None)

Return(value) == pc' = "idle" /\ call' = None /\ answer' = value

\* Both routines send the word address first.
Begin(c) ==
    /\ pc = "idle"
    /\ call' = c /\ answer' = None /\ got' = <<>>
    /\ left' = IF c.op = "read" THEN c.len ELSE 0
    /\ Start("write", High(c.at), CLEAR_ALL(sta)) /\ hit' = FALSE
    /\ pc' = "high"
    /\ UNCHANGED <<part, faults, holds>>

eeprom_write_byte(o, v) == Begin([op |-> "write", at |-> o, value |-> v])
eeprom_read_seq(o, n)   == Begin([op |-> "read", at |-> o, len |-> n])

SendsLow ==
    /\ pc = "high" /\ wait_bit("XMIT_DATA_EMPTY")
    /\ Send(Low(call.at), sta) /\ pc' = "low"
    /\ UNCHANGED <<part, faults, hit, call, left, got, answer, holds>>

\* The data byte, with the STOP that follows it.
SendsData ==
    /\ pc = "low" /\ call.op = "write" /\ wait_bit("XMIT_DATA_EMPTY")
    /\ Send(call.value, sta \cup {"STOP_WRITE"}) /\ pc' = "data"
    /\ UNCHANGED <<part, faults, hit, call, left, got, answer, holds>>

\* The hold, where the build has it, outlasts the program cycle.
Written ==
    /\ pc = "data" /\ wait_bit("XMIT_DATA_EMPTY")
    /\ sta' = CLEAR_ALL(sta)
    /\ IF holds THEN pc' = "hold" /\ UNCHANGED <<call, answer>> ELSE Return(1)
    /\ UNCHANGED <<adr, out, dati, part, faults, hit, left, got, holds>>

\* Mutant: the hold is too short.
HoldTooShort == TRUE

HoldOver == burning = None

eeprom_write_hold ==
    /\ pc = "hold" /\ HoldOver /\ Return(1)
    /\ UNCHANGED <<wire, left, got, holds>>

\* The repeated START and the one dummy write that fires the first byte.
TurnsAround ==
    /\ pc = "low" /\ call.op = "read" /\ wait_bit("XMIT_DATA_EMPTY")
    /\ Start("read", Clock, CLEAR_ALL(sta)) /\ pc' = "receive"
    /\ UNCHANGED <<part, faults, hit, call, left, got, answer, holds>>

\* Bytes left when STOP_READ is armed, before I2CDATI is read.
StopRead == 2

Receives ==
    /\ pc = "receive" /\ left > 0 /\ wait_bit("RCV_DATA_FULL")
    /\ Fetch(IF left = StopRead THEN sta \cup {"STOP_READ"} ELSE sta)
    /\ got' = Append(got, dati) /\ left' = left - 1
    /\ UNCHANGED <<part, faults, hit, pc, call, answer, holds>>

Received ==
    /\ pc = "receive" /\ left = 0
    /\ sta' = CLEAR_ALL(sta) /\ Return(1)
    /\ UNCHANGED <<adr, out, dati, part, faults, hit, left, got, holds>>

\* Every early return: nothing is sent, nothing cleared.
GivesUp ==
    /\ \/ pc \in {"high", "low", "data"} /\ wait_bit_fails("XMIT_DATA_EMPTY")
       \/ pc = "receive" /\ left > 0 /\ wait_bit_fails("RCV_DATA_FULL")
    /\ Return(0)
    /\ UNCHANGED <<wire, left, got, holds>>

Routine ==
    \/ SendsLow \/ SendsData \/ Written \/ eeprom_write_hold
    \/ TurnsAround \/ Receives \/ Received \/ GivesUp

PowerCut ==
    /\ WirePowerCut
    /\ pc' = "idle" /\ call' = None /\ left' = 0 /\ got' = <<>> /\ answer' = None
    /\ UNCHANGED holds

-----------------------------------------------------------------------------
\* mboxfw: the deferred write of a byte, the checksum's invalidation, and the
\* reads of the serial record, one at a time (usb.c:1122).
Calls ==
    \/ \E o \in Offsets, v \in Byte : eeprom_write_byte(o, v)
    \/ \E o \in Offsets, n \in 2 .. 3 : o + n <= Cells /\ eeprom_read_seq(o, n)

DriverInit ==
    /\ WireInit
    /\ pc = "idle" /\ call = None /\ left = 0 /\ got = <<>> /\ answer = None
    /\ holds \in HoldBuilds

BusOnly(A) == A /\ UNCHANGED <<routine, holds>>

Next == BusOnly(Bus) \/ Routine \/ Calls \/ PowerCut

Init == DriverInit /\ cells \in [Offsets -> Byte]

Spec == Init /\ [][Next]_vars

-----------------------------------------------------------------------------
(* A property                                                              *)

\* A call fails only for what happened in it: after an early return, which
\* leaves flags set and the bus without a STOP, the next call starts clean
\* (the CLEAR_ALL at the head of both routines).
ZeroIsJustified == answer = 0 => hit

=============================================================================
