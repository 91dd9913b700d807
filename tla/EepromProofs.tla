---------------------------- MODULE EepromProofs ----------------------------
(***************************************************************************)
(* The EEPROM drivers on their bus, for every width of a byte, any number  *)
(* of faults and any mix of builds.                                        *)
(*                                                                         *)
(* The argument of eeprom.c's calls follows one call: until it meets a     *)
(* fault it is Live, each wait with what has been asked of the wire or     *)
(* with the part's reaction to it; from then on it is Dead, nothing is     *)
(* under way and it can only give up.  The next call starts Live whatever  *)
(* the flags (CLEAR_ALL), and with the hold no byte is being programmed    *)
(* outside the call that wrote it.  The stock routines look at one flag    *)
(* only and clear the STOP flags only, so theirs is an invariant of its    *)
(* own (StockCall).                                                        *)
(***************************************************************************)
EXTENDS MCEeprom, TLAPS

Stored ==
    \/ burning = [at |-> call.at, now |-> call.value]
    \/ burning = None /\ cells[call.at] = call.value

NothingOut == out = None /\ adr = None

Asks(byte, direction, flags) == out = byte /\ adr = direction /\ sta = flags
Answered(flags) == NothingOut /\ sta = flags

LowComes  == link = "low" /\ ptr = High(call.at) * Radix
DataComes == link = "data" /\ ptr = call.at

\* What a call waits for, and what it has when the wait is over.
HighLive == pc = "high" =>
    \/ Asks(High(call.at), "write", {})
    \/ Answered({"XMIT_DATA_EMPTY"}) /\ LowComes /\ burning = None

LowLive == pc = "low" =>
    \/ Asks(Low(call.at), None, {}) /\ LowComes
    \/ Answered({"XMIT_DATA_EMPTY"}) /\ DataComes

DataLive == pc = "data" =>
    \/ Asks(call.value, None, {"STOP_WRITE"}) /\ DataComes /\ burning = None
    \/ Answered({"STOP_WRITE", "XMIT_DATA_EMPTY"}) /\ Stored

HoldLive == pc = "hold" => holds /\ Answered({}) /\ Stored

LastOne == IF left = 1 THEN {"STOP_READ"} ELSE {}
Here    == call.at + Len(got)

ReceiveLive == pc = "receive" =>
    \/ /\ left > 0 /\ Asks(Clock, IF got = <<>> THEN "read" ELSE None, LastOne)
       /\ ptr = Here /\ (got # <<>> => link = "read")
    \/ /\ left > 0 /\ Answered(LastOne \cup {"RCV_DATA_FULL"})
       /\ dati = cells[Here] /\ ptr = (Here + 1) % Cells
       /\ link = IF left = 1 THEN "idle" ELSE "read"
    \/ left = 0 /\ NothingOut

Live == HighLive /\ LowLive /\ DataLive /\ HoldLive /\ ReceiveLive

\* A call that has met a fault can only give up.
Dead ==
    /\ pc # "hold" /\ NothingOut
    /\ pc = "receive" => left > 0 /\ ("ERROR" \in sta \/ "RCV_DATA_FULL" \notin sta)
    /\ pc # "receive" => "ERROR" \in sta \/ "XMIT_DATA_EMPTY" \notin sta

Underway == pc # "idle" => IF hit THEN Dead ELSE Live

Quiet == pc = "idle" => NothingOut
Calm  == pc \in {"low", "receive"} => burning = None
Held  == holds /\ burning # None => pc \in {"data", "hold"} /\ ~hit /\ out = None

Asked ==
    /\ pc \in {"high", "low"} =>
          got = <<>> /\ left = IF call.op = "read" THEN call.len ELSE 0
    /\ pc \in {"data", "hold"} => call.op = "write"
    /\ call # None /\ call.op = "read" => call.at + call.len <= Cells

Fetched == pc = "receive" =>
    /\ call.op = "read" /\ Len(got) + left = call.len
    /\ \A i \in 1 .. Len(got) : got[i] = cells[call.at + i - 1]

Call == Underway /\ Quiet /\ Calm /\ Held /\ Asked /\ Fetched /\ ZeroIsJustified

CallInv == TypeOK /\ Call

\* Four cells at least, and the values they start with.
LEMMA CellsNat == Radix \in Nat /\ Radix > 1 /\ Cells \in Nat /\ Cells >= 2 * Radix
                  /\ 0 \in Byte /\ 1 \in Byte /\ 0 \in Offsets
  BY I2cAssumption DEF Cells, Byte, Offsets

\* A word address goes out as two bytes and comes together again.
LEMMA Address ==
    ASSUME NEW o \in Offsets
    PROVE  High(o) \in Byte /\ Low(o) \in Byte /\ High(o) % Radix = High(o)
           /\ High(o) * Radix + Low(o) = o /\ High(o) * Radix \in Offsets
  <1> DEFINE h == o \div Radix  l == o % Radix
  <1>1. Radix \in Nat /\ Radix > 1
    BY CellsNat
  <1>2. o \in Nat /\ o < Radix * Radix
    BY <1>1 DEF Offsets, Cells
  <1>3. h \in Int /\ l \in 0 .. Radix - 1 /\ o = Radix * h + l
    BY <1>1, <1>2, SMT
  <1>4. h >= 0 /\ h < Radix
    <2> HIDE DEF h, l
    <2>1. h >= 0
      <3> SUFFICES ASSUME h < 0 PROVE FALSE
        BY <1>3
      <3>1. Radix * h <= Radix * (-1)
        BY <1>1, <1>3, SMT
      <3> QED BY <3>1, <1>1, <1>2, <1>3, SMT
    <2>2. h < Radix
      <3> SUFFICES ASSUME h >= Radix PROVE FALSE
        BY <1>1, <1>3
      <3>1. Radix * h >= Radix * Radix
        BY <1>1, <1>3, SMT
      <3> QED BY <3>1, <1>1, <1>2, <1>3, SMT
    <2> QED BY <2>1, <2>2
  <1>5. h % Radix = h
    <2> HIDE DEF h, l
    <2> QED BY <1>1, <1>3, <1>4, SMT
  <1>6. h * Radix \in 0 .. Radix * Radix - 1
    <2> HIDE DEF h, l
    <2>1. h * Radix = Radix * h /\ Radix * h >= 0
      BY <1>1, <1>3, <1>4, SMT
    <2>2. Radix * h <= o
      BY <1>1, <1>3, <1>2
    <2> QED BY <2>1, <2>2, <1>2, <1>1, <1>3
  <1> QED BY <1>1, <1>2, <1>3, <1>4, <1>5, <1>6 DEF High, Low, Byte, Offsets, Cells

\* The address counter before the end of the part, and at it.
LEMMA Small == ASSUME NEW n \in Nat, n < Cells PROVE n % Cells = n
  BY CellsNat

LEMMA Wraps == ASSUME NEW n \in Nat PROVE n % Cells \in Offsets
  BY CellsNat DEF Offsets

-----------------------------------------------------------------------------
(* What the bus makes of a byte: the lemmas every driver on it needs.      *)

LEMMA HighTaken ==
    ASSUME WireTypeOK, Transfer, burning = None, NEW o \in Offsets,
           out = High(o), adr = "write", "STOP_WRITE" \notin sta
    PROVE  /\ WireTypeOK' /\ NothingOut' /\ sta' = sta \cup {"XMIT_DATA_EMPTY"}
           /\ link' = "low" /\ ptr' = High(o) * Radix
           /\ UNCHANGED <<dati, cells, burning, faults, hit>>
  <1>1. TakesHigh /\ UNCHANGED <<faults, hit>>
    BY DEF Transfer, TakesHigh, TakesLow, TakesData, GivesByte, Role
  <1>2. ptr' = High(o) * Radix /\ ptr' \in Offsets
    BY <1>1, Address DEF TakesHigh
  <1> QED BY <1>1, <1>2 DEF TakesHigh, Sent, NothingOut, WireTypeOK, Flags

LEMMA LowTaken ==
    ASSUME WireTypeOK, Transfer, burning = None, NEW o \in Offsets,
           out = Low(o), adr = None, link = "low", ptr = High(o) * Radix,
           "STOP_WRITE" \notin sta
    PROVE  /\ WireTypeOK' /\ NothingOut' /\ sta' = sta \cup {"XMIT_DATA_EMPTY"}
           /\ link' = "data" /\ ptr' = o
           /\ UNCHANGED <<dati, cells, burning, faults, hit>>
  <1>1. TakesLow /\ UNCHANGED <<faults, hit>>
    BY I2cAssumption DEF Transfer, TakesHigh, TakesLow, TakesData, GivesByte, Role
  <1>2. ptr' = o
    BY <1>1, Address DEF TakesLow
  <1> QED BY <1>1, <1>2 DEF TakesLow, Sent, NothingOut, WireTypeOK, Flags

LEMMA DataTaken ==
    ASSUME WireTypeOK, Transfer, burning = None, out \in Byte, adr = None, link = "data",
           "STOP_WRITE" \in sta
    PROVE  /\ WireTypeOK' /\ NothingOut' /\ sta' = sta \cup {"XMIT_DATA_EMPTY"}
           /\ burning' = [at |-> ptr, now |-> out]
           /\ UNCHANGED <<dati, ptr, cells, faults, hit>>
  <1>1. TakesData /\ UNCHANGED <<faults, hit>>
    BY I2cAssumption DEF Transfer, TakesHigh, TakesLow, TakesData, GivesByte, Role
  <1> QED BY <1>1 DEF TakesData, Sent, NothingOut, WireTypeOK, Flags

LEMMA ByteGiven ==
    ASSUME WireTypeOK, Transfer, burning = None, Role = "read"
    PROVE  /\ WireTypeOK' /\ NothingOut' /\ sta' = sta \cup {"RCV_DATA_FULL"}
           /\ dati' = cells[ptr] /\ ptr' = (ptr + 1) % Cells
           /\ link' = IF "STOP_READ" \in sta THEN "idle" ELSE "read"
           /\ UNCHANGED <<cells, burning, faults, hit>>
  <1>1. GivesByte /\ UNCHANGED <<faults, hit>>
    BY DEF Transfer, TakesHigh, TakesLow, TakesData, GivesByte
  <1>2. (ptr + 1) % Cells \in Offsets /\ cells[ptr] \in Byte
    BY Wraps, CellsNat DEF WireTypeOK, Offsets
  <1> QED BY <1>1, <1>2 DEF GivesByte, Sent, NothingOut, WireTypeOK, Flags

LEMMA BusyPart ==
    ASSUME WireTypeOK, Transfer, burning # None
    PROVE  WireTypeOK' /\ NothingOut' /\ hit' /\ sta' = sta \cup {"ERROR"}
           /\ UNCHANGED <<dati, part, faults>>
  BY DEF Transfer, NotTaken, Sent, NothingOut, WireTypeOK, Flags, part

LEMMA FaultyByte ==
    ASSUME WireTypeOK, Faulty
    PROVE  WireTypeOK' /\ NothingOut' /\ hit' /\ sta' \in {sta, sta \cup {"ERROR"}}
           /\ UNCHANGED <<dati, ptr, cells, burning>>
  BY I2cAssumption DEF Faulty, NothingOut, WireTypeOK, Flags

LEMMA Programs ==
    ASSUME WireTypeOK, Programmed
    PROVE  WireTypeOK'
  BY DEF Programmed, WireTypeOK, registers

LEMMA Unpowered ==
    ASSUME WireTypeOK, WirePowerCut
    PROVE  WireTypeOK' /\ NothingOut'
  BY CellsNat DEF WirePowerCut, NothingOut, WireTypeOK, Flags

-----------------------------------------------------------------------------
(* A call of eeprom.c: what the bus does to it.                            *)

LEMMA CallTyped ==
    ASSUME TypeOK, pc # "idle"
    PROVE  /\ call \in Writing \cup Reading /\ call # None /\ call.at \in Offsets
           /\ call.op = "write" => call \in Writing /\ call.value \in Byte
           /\ call.op = "read" => call \in Reading /\ call.len \in 2 .. 3
           /\ call.op \in {"write", "read"}
           /\ Len(got) \in Nat
  BY DEF TypeOK, Writing, Reading

LEMMA TransferCall ==
    ASSUME CallInv, Transfer, UNCHANGED <<routine, holds>>
    PROVE  CallInv'
  <1> USE DEF CallInv, Call
  <1>1. out # None /\ pc # "idle" /\ ~hit /\ Live
    BY DEF Transfer, Quiet, Underway, Dead, NothingOut
  <1> DEFINE o == call.at
  <1>2. o \in Offsets /\ High(o) \in Byte /\ Low(o) \in Byte
    BY <1>1, CallTyped, Address
  <1>3. WireTypeOK /\ WireTypeOK' => TypeOK /\ TypeOK'
    BY DEF TypeOK, routine
  <1>4. CASE burning # None
    <2>1. pc = "high" /\ ~holds
      BY <1>1, <1>4 DEF Live, LowLive, DataLive, HoldLive, ReceiveLive, Answered, NothingOut,
                   Held, Calm, TypeOK
    <2>2. WireTypeOK' /\ NothingOut' /\ hit' /\ sta' = sta \cup {"ERROR"} /\ UNCHANGED part
      BY <1>4, BusyPart DEF TypeOK
    <2> QED BY <1>3, <2>1, <2>2 DEF TypeOK, Underway, Dead, Quiet, Calm, Held, Asked, Fetched,
               ZeroIsJustified, routine
  <1>5. CASE burning = None
    <2>1. CASE pc = "high"
      <3>1. out = High(o) /\ adr = "write" /\ sta = {}
        BY <1>1, <2>1 DEF Live, HighLive, Asks, Answered, NothingOut
      <3>2. /\ WireTypeOK' /\ NothingOut' /\ sta' = {"XMIT_DATA_EMPTY"}
            /\ link' = "low" /\ ptr' = High(o) * Radix
            /\ UNCHANGED <<dati, cells, burning, faults, hit>>
        BY <1>2, <1>5, <3>1, HighTaken DEF TypeOK
      <3> QED BY <1>1, <1>3, <1>5, <2>1, <3>2
              DEF TypeOK, Underway, Live, HighLive, LowLive, DataLive, HoldLive, ReceiveLive,
              Answered, LowComes, Quiet, Calm, Held, Asked, Fetched, ZeroIsJustified, routine
    <2>2. CASE pc = "low"
      <3>1. out = Low(o) /\ adr = None /\ sta = {} /\ LowComes
        BY <1>1, <2>2 DEF Live, LowLive, Asks, Answered, NothingOut
      <3>2. /\ WireTypeOK' /\ NothingOut' /\ sta' = {"XMIT_DATA_EMPTY"}
            /\ link' = "data" /\ ptr' = o
            /\ UNCHANGED <<dati, cells, burning, faults, hit>>
        BY <1>2, <1>5, <3>1, LowTaken DEF TypeOK, LowComes
      <3> QED BY <1>1, <1>3, <1>5, <2>2, <3>2
              DEF TypeOK, Underway, Live, HighLive, LowLive, DataLive, HoldLive, ReceiveLive,
              Answered, DataComes, Quiet, Calm, Held, Asked, Fetched, ZeroIsJustified, routine
    <2>3. CASE pc = "data"
      <3>1. out = call.value /\ adr = None /\ sta = {"STOP_WRITE"} /\ DataComes
        BY <1>1, <2>3 DEF Live, DataLive, Asks, Answered, NothingOut
      <3>2. call.op = "write" /\ out \in Byte
        BY <1>1, <2>3, <3>1, CallTyped DEF Asked
      <3>3. /\ WireTypeOK' /\ NothingOut' /\ sta' = {"STOP_WRITE", "XMIT_DATA_EMPTY"}
            /\ burning' = [at |-> o, now |-> call.value]
            /\ UNCHANGED <<dati, ptr, cells, faults, hit>>
        BY <1>5, <3>1, <3>2, DataTaken DEF TypeOK, DataComes
      <3> QED BY <1>1, <1>3, <2>3, <3>3
              DEF TypeOK, Underway, Live, HighLive, LowLive, DataLive, HoldLive, ReceiveLive,
              Answered, Stored, NothingOut, Quiet, Calm, Held, Asked, Fetched, ZeroIsJustified, routine
    <2>4. CASE pc = "receive"
      <3>1. /\ left > 0 /\ out = Clock /\ Role = "read" /\ sta = LastOne /\ ptr = Here
        BY <1>1, <2>4, I2cAssumption DEF Live, ReceiveLive, Asks, Answered, NothingOut, Role
      <3>2. /\ WireTypeOK' /\ NothingOut' /\ sta' = LastOne \cup {"RCV_DATA_FULL"}
            /\ dati' = cells[Here] /\ ptr' = (Here + 1) % Cells
            /\ link' = IF left = 1 THEN "idle" ELSE "read"
            /\ UNCHANGED <<cells, burning, faults, hit>>
        BY <1>5, <3>1, ByteGiven DEF TypeOK, LastOne
      <3>3. ReceiveLive'
        BY <3>1, <3>2 DEF ReceiveLive, Answered, LastOne, Here, routine
      <3> QED BY <1>1, <1>3, <1>5, <2>4, <3>2, <3>3
              DEF TypeOK, Underway, Live, HighLive, LowLive, DataLive, HoldLive,
              Quiet, Calm, Held, Asked, Fetched, ZeroIsJustified, routine
    <2> QED BY <1>1, <2>1, <2>2, <2>3, <2>4 DEF TypeOK, Live, HoldLive, Answered, NothingOut
  <1> QED BY <1>4, <1>5

LEMMA FaultyCall ==
    ASSUME CallInv, Faulty, UNCHANGED <<routine, holds>>
    PROVE  CallInv'
  <1> USE DEF CallInv, Call
  <1>1. out # None /\ pc # "idle" /\ ~hit /\ Live
    BY DEF Faulty, Quiet, Underway, Dead, NothingOut
  <1>2. /\ WireTypeOK' /\ NothingOut' /\ hit' /\ sta' \in {sta, sta \cup {"ERROR"}}
        /\ UNCHANGED <<dati, ptr, cells, burning>>
    BY FaultyByte DEF TypeOK
  <1>3. pc # "hold" /\ (pc = "receive" => left > 0 /\ "RCV_DATA_FULL" \notin sta)
        /\ (pc # "receive" => "XMIT_DATA_EMPTY" \notin sta)
    BY <1>1 DEF Live, HighLive, LowLive, DataLive, HoldLive, ReceiveLive, Asks, Answered,
       NothingOut, LastOne, TypeOK
  <1>4. Dead'
    BY <1>2, <1>3 DEF Dead, routine
  <1>5. holds => burning = None
    BY <1>1 DEF Held
  <1> QED BY <1>1, <1>2, <1>4, <1>5
          DEF TypeOK, Underway, Quiet, Calm, Held, Asked, Fetched, ZeroIsJustified, routine

LEMMA ProgrammedCall ==
    ASSUME CallInv, Programmed, UNCHANGED <<routine, holds>>
    PROVE  CallInv'
  <1> USE DEF CallInv, Call
  <1>1. TypeOK'
    BY Programs DEF TypeOK, routine
  <1>2. pc \notin {"low", "receive"}
    BY DEF Calm, Programmed
  <1>3. pc \in {"data", "hold"} /\ Stored => Stored'
    <2> SUFFICES ASSUME pc \in {"data", "hold"}, Stored PROVE Stored'
      OBVIOUS
    <2>1. burning = [at |-> call.at, now |-> call.value]
      BY DEF Stored, Programmed
    <2>2. call.at \in Offsets /\ cells \in [Offsets -> Byte]
      BY CallTyped DEF TypeOK, WireTypeOK
    <2> QED BY <2>1, <2>2 DEF Programmed, Stored, routine
  <1>4. Underway'
    BY <1>2, <1>3 DEF Underway, Dead, Live, HighLive, LowLive, DataLive, HoldLive, ReceiveLive,
       Asks, Answered, NothingOut, LowComes, DataComes, Programmed, registers, routine
  <1> QED BY <1>1, <1>2, <1>4 DEF Quiet, NothingOut, Calm, Held, Asked, Fetched, ZeroIsJustified,
             Programmed, registers, routine

LEMMA BusCall ==
    ASSUME CallInv, Bus, UNCHANGED <<routine, holds>>
    PROVE  CallInv'
  BY TransferCall, FaultyCall, ProgrammedCall DEF Bus

-----------------------------------------------------------------------------
(* What the routines do to it.                                             *)

LEMMA BeginsCall ==
    ASSUME CallInv, NEW c \in Writing \cup Reading, Begin(c),
           c.op = "read" => c.at + c.len <= Cells
    PROVE  CallInv'
  <1> USE DEF CallInv, Call
  <1>1. /\ c.at \in Offsets /\ c # None /\ c.op \in {"write", "read"}
        /\ c.op = "read" => c.len \in 2 .. 3
    BY DriverAssumption DEF Writing, Reading
  <1>2. High(c.at) \in Byte
    BY <1>1, Address
  <1>3. /\ pc' = "high" /\ call' = c /\ ~hit' /\ sta' = {} /\ adr' = "write" /\ out' = High(c.at)
        /\ got' = <<>> /\ left' = IF c.op = "read" THEN c.len ELSE 0
        /\ answer' = None /\ UNCHANGED <<dati, part, faults, holds>>
    BY DEF Begin, Start, CLEAR_ALL
  <1>4. TypeOK'
    <2>1. WireTypeOK'
      BY <1>2, <1>3 DEF TypeOK, WireTypeOK, part, Begin
    <2> QED BY <1>1, <1>3, <2>1 DEF TypeOK
  <1>5. Held'
    BY <1>3 DEF Held, Begin, part, TypeOK
  <1> QED BY <1>1, <1>3, <1>4, <1>5, CellsNat, I2cAssumption
          DEF Underway, Live, HighLive, LowLive, DataLive, HoldLive, ReceiveLive, Asks,
          Quiet, Calm, Asked, Fetched, ZeroIsJustified, Byte

LEMMA SendsLowCall ==
    ASSUME CallInv, SendsLow
    PROVE  CallInv'
  <1> USE DEF CallInv, Call
  <1>1. pc = "high" /\ ~hit /\ Answered({"XMIT_DATA_EMPTY"}) /\ LowComes /\ burning = None
        /\ UNCHANGED <<part, faults, hit, call, left, got, answer, holds, adr, dati>>
    BY DEF SendsLow, wait_bit, Send, Underway, Dead, Live, HighLive, Asks
  <1>2. call.at \in Offsets /\ Low(call.at) \in Byte
    BY <1>1, CallTyped, Address
  <1>3. pc' = "low" /\ sta' = {} /\ out' = Low(call.at)
    BY <1>1 DEF SendsLow, Send, Answered
  <1>4. TypeOK'
    BY <1>1, <1>2, <1>3 DEF TypeOK, WireTypeOK, part
  <1> QED BY <1>1, <1>3, <1>4
          DEF Underway, Live, HighLive, LowLive, DataLive, HoldLive, ReceiveLive, Asks, Answered,
          NothingOut, LowComes, Quiet, Calm, Held, Asked, Fetched, ZeroIsJustified, part

LEMMA SendsDataCall ==
    ASSUME CallInv, SendsData
    PROVE  CallInv'
  <1> USE DEF CallInv, Call
  <1>1. pc = "low" /\ ~hit /\ Answered({"XMIT_DATA_EMPTY"}) /\ DataComes /\ burning = None
        /\ call.op = "write"
        /\ UNCHANGED <<part, faults, hit, call, left, got, answer, holds, adr, dati>>
    BY DEF SendsData, wait_bit, Send, Underway, Dead, Live, LowLive, Asks, Calm
  <1>2. call.value \in Byte
    BY <1>1, CallTyped
  <1>3. pc' = "data" /\ sta' = {"STOP_WRITE"} /\ out' = call.value
    BY <1>1 DEF SendsData, Send, Answered
  <1>4. TypeOK'
    BY <1>1, <1>2, <1>3 DEF TypeOK, WireTypeOK, Flags, part
  <1> QED BY <1>1, <1>3, <1>4
          DEF Underway, Live, HighLive, LowLive, DataLive, HoldLive, ReceiveLive, Asks, Answered,
          NothingOut, DataComes, Quiet, Calm, Held, Asked, Fetched, ZeroIsJustified, part

LEMMA WrittenCall ==
    ASSUME CallInv, Written
    PROVE  CallInv'
  <1> USE DEF CallInv, Call
  <1>1. pc = "data" /\ ~hit /\ NothingOut /\ Stored /\ call.op = "write"
        /\ sta' = {} /\ UNCHANGED <<adr, out, dati, part, faults, hit, left, got, holds>>
    BY DEF Written, CLEAR_ALL, wait_bit, Underway, Dead, Live, DataLive, Asks, Answered, Asked
  <1>2. TypeOK'
    BY <1>1 DEF Written, Return, TypeOK, WireTypeOK, part
  <1>3. CASE holds
    BY <1>1, <1>2, <1>3
       DEF Written, Underway, Live, HighLive, LowLive, DataLive, HoldLive, ReceiveLive, Answered,
       NothingOut, Stored, Quiet, Calm, Held, Asked, Fetched, ZeroIsJustified, part
  <1>4. CASE ~holds
    BY <1>1, <1>2, <1>4, I2cAssumption, CellsNat
       DEF Written, Return, Underway, NothingOut, Quiet, Calm, Held, Asked, Fetched,
       ZeroIsJustified, part
  <1> QED BY <1>3, <1>4 DEF Written

LEMMA HoldCall ==
    ASSUME CallInv, eeprom_write_hold
    PROVE  CallInv'
  <1> USE DEF CallInv, Call
  <1>1. pc = "hold" /\ ~hit /\ NothingOut /\ burning = None
        /\ UNCHANGED <<wire, left, got, holds>>
    BY DEF eeprom_write_hold, HoldOver, Underway, Dead, Live, HoldLive, Answered
  <1>2. pc' = "idle" /\ call' = None /\ answer' = 1
    BY DEF eeprom_write_hold, Return
  <1>3. TypeOK'
    BY <1>1, <1>2 DEF TypeOK, WireTypeOK, wire, registers, part
  <1> QED BY <1>1, <1>2, <1>3 DEF Underway, NothingOut, Quiet, Calm, Held, Asked, Fetched,
             ZeroIsJustified, wire, registers, part

LEMMA TurnsAroundCall ==
    ASSUME CallInv, TurnsAround
    PROVE  CallInv'
  <1> USE DEF CallInv, Call
  <1>1. pc = "low" /\ ~hit /\ DataComes /\ burning = None /\ call.op = "read"
        /\ UNCHANGED <<part, faults, hit, call, left, got, answer, holds, dati>>
    BY DEF TurnsAround, wait_bit, Start, Underway, Dead, Live, LowLive, Asks, Calm
  <1>2. pc' = "receive" /\ sta' = {} /\ out' = Clock /\ adr' = "read"
    BY <1>1 DEF TurnsAround, Start, CLEAR_ALL
  <1>3. got = <<>> /\ left = call.len /\ call.len \in 2 .. 3
    BY <1>1, CallTyped DEF Asked
  <1>4. TypeOK'
    BY <1>1, <1>2 DEF TypeOK, WireTypeOK, part
  <1>5. ReceiveLive' /\ Fetched'
    BY <1>1, <1>2, <1>3, CallTyped DEF ReceiveLive, Asks, LastOne, Here, DataComes, Fetched, part,
       Offsets
  <1> QED BY <1>1, <1>2, <1>4, <1>5
          DEF Underway, Live, HighLive, LowLive, DataLive, HoldLive, Quiet, Calm, Held, Asked,
          ZeroIsJustified, part

LEMMA ReceivesCall ==
    ASSUME CallInv, Receives
    PROVE  CallInv'
  <1> USE DEF CallInv, Call
  <1>1. /\ pc = "receive" /\ ~hit /\ left > 0 /\ NothingOut /\ sta = LastOne \cup {"RCV_DATA_FULL"}
        /\ dati = cells[Here] /\ ptr = (Here + 1) % Cells
        /\ link = IF left = 1 THEN "idle" ELSE "read"
        /\ UNCHANGED <<part, faults, hit, pc, call, answer, holds, adr, dati>>
    BY DEF Receives, wait_bit, Fetch, Underway, Dead, Live, ReceiveLive, Asks, Answered, LastOne, TypeOK
  <1>2. /\ call.op = "read" /\ call.at \in Offsets /\ call.len \in 2 .. 3 /\ got \in Seq(Byte)
        /\ Len(got) + left = call.len /\ call.at + call.len <= Cells /\ left \in 1 .. 3
    BY <1>1, CallTyped DEF Fetched, Asked, TypeOK
  <1>3. left' = left - 1 /\ got' = Append(got, dati) /\ Len(got') = Len(got) + 1 /\ dati \in Byte
        /\ got' \in Seq(Byte) /\ got' # <<>>
    BY <1>2 DEF Receives, TypeOK, WireTypeOK
  <1>4. sta' = IF left = 2 THEN {"STOP_READ"} ELSE LastOne
    BY <1>1 DEF Receives, Fetch, StopRead, LastOne
  <1>5. out' = IF left = 1 THEN None ELSE Clock
    BY <1>1 DEF Receives, Fetch
  <1>6. TypeOK'
    BY <1>1, <1>2, <1>3, <1>4, <1>5 DEF TypeOK, WireTypeOK, LastOne, Flags, part
  <1>7. Fetched'
    <2>1. \A i \in 1 .. Len(got') : got'[i] = cells[call.at + i - 1]
      BY <1>1, <1>2, <1>3 DEF Fetched, Here
    <2> QED BY <1>1, <1>2, <1>3, <2>1 DEF Fetched, part
  <1>8. ReceiveLive'
    <2>1. CASE left = 1
      BY <1>1, <1>3, <1>5, <2>1 DEF ReceiveLive, NothingOut
    <2>2. CASE left # 1
      <3>1. (Here + 1) % Cells = Here + 1 /\ Here' = Here + 1
        <4>1. Here + 1 \in Nat /\ Here + 1 < Cells
          BY <1>2, <2>2, CellsNat DEF Here, Offsets
        <4>2. Here' = Here + 1
          BY <1>1, <1>2, <1>3, CellsNat DEF Here, Offsets
        <4> QED BY <4>1, <4>2, Small
      <3>2. left' > 0 /\ sta' = LastOne'
        BY <1>2, <1>3, <1>4, <2>2 DEF LastOne
      <3> QED BY <1>1, <1>3, <1>5, <2>2, <3>1, <3>2 DEF ReceiveLive, Asks, NothingOut, part
    <2> QED BY <2>1, <2>2
  <1> QED BY <1>1, <1>6, <1>7, <1>8
          DEF Underway, Live, HighLive, LowLive, DataLive, HoldLive, Quiet, Calm, Held, Asked,
          ZeroIsJustified, part

LEMMA ReceivedCall ==
    ASSUME CallInv, Received
    PROVE  CallInv'
  <1> USE DEF CallInv, Call
  <1>1. pc = "receive" /\ ~hit /\ NothingOut /\ burning = None /\ sta' = {}
        /\ UNCHANGED <<adr, out, dati, part, faults, hit, left, got, holds>>
    BY DEF Received, CLEAR_ALL, Underway, Dead, Live, ReceiveLive, Calm, TypeOK
  <1>2. pc' = "idle" /\ call' = None /\ answer' = 1
    BY DEF Received, Return
  <1>3. TypeOK'
    BY <1>1, <1>2 DEF TypeOK, WireTypeOK, part
  <1> QED BY <1>1, <1>2, <1>3 DEF Underway, NothingOut, Quiet, Calm, Held, Asked, Fetched,
             ZeroIsJustified, part

LEMMA GivesUpCall ==
    ASSUME CallInv, GivesUp
    PROVE  CallInv'
  <1> USE DEF CallInv, Call
  <1>1. pc \notin {"idle", "hold"} /\ UNCHANGED <<wire, left, got, holds>>
        /\ pc' = "idle" /\ call' = None /\ answer' = 0
    BY DEF GivesUp, Return
  <1>2. hit /\ NothingOut
    <2> SUFFICES ASSUME ~hit PROVE FALSE
      BY <1>1 DEF Underway, Dead
    <2>1. Live
      BY <1>1 DEF Underway
    <2>2. CASE pc = "receive"
      BY <2>1, <2>2, I2cAssumption DEF Live, ReceiveLive, Asks, Answered, NothingOut, LastOne, GivesUp,
         wait_bit_fails
    <2>3. CASE pc \in {"high", "low", "data"}
      <3>1. {High(call.at), Low(call.at)} \subseteq Byte /\ (pc = "data" => call.value \in Byte)
        BY <1>1, CallTyped, Address DEF Asked
      <3> QED BY <2>1, <2>3, <3>1, I2cAssumption DEF Live, HighLive, LowLive, DataLive, Asks, Answered,
                 NothingOut, GivesUp, wait_bit_fails
    <2> QED BY <1>1, <2>2, <2>3 DEF TypeOK
  <1>3. TypeOK'
    BY <1>1 DEF TypeOK, WireTypeOK, wire, registers, part
  <1>4. holds => burning = None
    BY <1>2 DEF Held
  <1> QED BY <1>1, <1>2, <1>3, <1>4 DEF Underway, NothingOut, Quiet, Calm, Held, Asked, Fetched,
             ZeroIsJustified, wire, registers, part

LEMMA RoutineCall ==
    ASSUME CallInv, Routine
    PROVE  CallInv'
  BY SendsLowCall, SendsDataCall, WrittenCall, HoldCall, TurnsAroundCall, ReceivesCall,
     ReceivedCall, GivesUpCall DEF Routine

LEMMA PowerCutCall ==
    ASSUME CallInv, PowerCut
    PROVE  CallInv'
  <1>1. WireTypeOK' /\ NothingOut'
    BY Unpowered DEF PowerCut, CallInv, TypeOK
  <1>2. burning' = None
    BY DEF PowerCut, WirePowerCut
  <1>3. TypeOK'
    BY <1>1 DEF PowerCut, CallInv, TypeOK
  <1> QED BY <1>1, <1>2, <1>3, I2cAssumption, CellsNat
          DEF PowerCut, CallInv, Call, Underway, Quiet, Calm, Held, Asked, Fetched, ZeroIsJustified

-----------------------------------------------------------------------------
(* The images that make such calls.                                        *)

Progress == image \in {"ramflash", "sigkill"} =>
    at \in 0 .. 5 /\ (Halted => pc = "idle" /\ answer = None)

Driven == image # "rev22" => CallInv

LEMMA Orders ==
    ASSUME image \in {"ramflash", "sigkill"}
    PROVE  /\ Len(WriteOrder) = 4
           /\ \A i \in 1 .. 4 : WriteOrder[i] \in Offsets /\ WriteOrder[i] \in ImageBytes
           /\ \A o \in Offsets : Value(o) \in {0, 1}
           /\ ImageBytes = 0 .. 3 /\ ImageBytes \subseteq Offsets
  <1>1. 0 .. 3 \subseteq Offsets
    BY CellsNat DEF Offsets
  <1> QED BY <1>1 DEF WriteOrder, Value, fw_image, ImageBytes, CHKSUM_OFF, SIG_LO_A, SIG_LO_B,
             Payload

NextWrite == [op |-> "write", at |-> WriteOrder[at], value |-> Value(WriteOrder[at])]

LEMMA RamWrites ==
    ASSUME image \in {"ramflash", "sigkill"}, Progress, Writes
    PROVE  at \in 1 .. 4 /\ NextWrite \in Writing /\ Begin(NextWrite)
  <1>1. at \in 1 .. 4
    BY Orders DEF Progress, Writes, Halted, Finished
  <1>2. WriteOrder[at] \in Offsets /\ Value(WriteOrder[at]) \in Byte
    BY <1>1, Orders, CellsNat
  <1> QED BY <1>1, <1>2 DEF Writes, eeprom_write_byte, Writing, NextWrite

LEMMA CallsBegin ==
    ASSUME Calls
    PROVE  \E c \in Writing \cup Reading :
              Begin(c) /\ (c.op = "read" => c.at + c.len <= Cells)
  <1>1. ASSUME NEW o \in Offsets, NEW v \in Byte, eeprom_write_byte(o, v)
        PROVE  \E c \in Writing : Begin(c) /\ c.op = "write"
    BY <1>1 DEF eeprom_write_byte, Writing
  <1>2. ASSUME NEW o \in Offsets, NEW n \in 2 .. 3, o + n <= Cells, eeprom_read_seq(o, n)
        PROVE  \E c \in Reading : Begin(c) /\ c.at + c.len <= Cells
    BY <1>2 DEF eeprom_read_seq, Reading
  <1> QED BY <1>1, <1>2 DEF Calls

LEMMA CallStutters ==
    ASSUME CallInv, UNCHANGED vars
    PROVE  CallInv'
  BY DEF CallInv, Call, TypeOK, WireTypeOK, Underway, Dead, Live, HighLive, LowLive, DataLive,
     HoldLive, ReceiveLive, Asks, Answered, NothingOut, Stored, LowComes, DataComes, LastOne, Here,
     Quiet, Calm, Held, Asked, Fetched, ZeroIsJustified, vars, wire, registers, part, routine

LEMMA TakesAnswerCall ==
    ASSUME CallInv, TakesAnswer
    PROVE  CallInv'
  BY I2cAssumption, CellsNat
     DEF TakesAnswer, CallInv, Call, TypeOK, WireTypeOK, Underway, NothingOut,
     Quiet, Calm, Held, Asked, Fetched, ZeroIsJustified, wire, registers, part

LEMMA ProgressStep ==
    ASSUME Progress, [MCNext]_mcVars
    PROVE  Progress'
  <1> USE DEF Progress
  <1>1. CASE RamImage(RamNext)
    <2>1. image \in {"ramflash", "sigkill"} /\ RamNext /\ UNCHANGED WriteOrder /\ image' = image
      BY <1>1 DEF RamImage, RamNext, program, Main, Writes, TakesAnswer, Unplugged, ramVars, WriteOrder
    <2>2. CASE (BusOnly(Bus) \/ Routine) /\ UNCHANGED program
      <3>1. Routine => pc # "idle"
        BY DEF Routine, SendsLow, SendsData, Written, eeprom_write_hold, TurnsAround, Receives,
           Received, GivesUp
      <3> QED BY <2>1, <2>2, <3>1 DEF BusOnly, routine, program, Halted, Finished
    <2>3. CASE TakesAnswer
      <3>1. Len(WriteOrder) = 4 /\ at \in 0 .. 5 /\ at # 0 /\ at # 5
        <4>1. answer # None
          BY <2>3 DEF TakesAnswer
        <4>2. Len(WriteOrder) = 4
          BY <2>1, Orders
        <4>3. at \in 0 .. 5 /\ (Halted => answer = None)
          BY <2>1
        <4> QED BY <4>1, <4>2, <4>3 DEF Halted, Finished
      <3>2. at' \in {at, at + 1} /\ pc' = "idle" /\ answer' = None
        BY <2>3 DEF TakesAnswer
      <3> QED BY <2>1, <3>1, <3>2
    <2>4. CASE Writes
      BY <2>1, <2>4 DEF Writes, program, Halted, Finished
    <2>5. CASE Unplugged
      BY <2>1, <2>5 DEF Unplugged, PowerCut, Halted, Finished
    <2>6. CASE UNCHANGED ramVars
      BY <2>1, <2>6 DEF ramVars, vars, routine, program, Halted, Finished
    <2> QED BY <2>1, <2>2, <2>3, <2>4, <2>5, <2>6 DEF RamNext, Main
  <1>2. CASE UNCHANGED mcVars
    BY <1>2 DEF mcVars, ramVars, vars, routine, program, Halted, Finished, WriteOrder
  <1> QED BY <1>1, <1>2 DEF MCNext, Mboxfw, Stock, program

LEMMA DrivenStep ==
    ASSUME Driven, Progress, [MCNext]_mcVars
    PROVE  Driven'
  <1> USE DEF Driven
  <1>1. CASE Mboxfw(Next)
    <2>1. image = "mboxfw" /\ image' = image /\ CallInv /\ Next
      BY <1>1 DEF Mboxfw, program
    <2>2. CASE BusOnly(Bus)
      BY <2>1, <2>2, BusCall DEF BusOnly
    <2>3. CASE Calls
      BY <2>1, <2>3, CallsBegin, BeginsCall
    <2> QED BY <2>1, <2>2, <2>3, RoutineCall, PowerCutCall DEF Next
  <1>2. CASE RamImage(RamNext)
    <2>1. image \in {"ramflash", "sigkill"} /\ CallInv /\ RamNext
      BY <1>2 DEF RamImage
    <2>2. CASE (BusOnly(Bus) \/ Routine) /\ UNCHANGED program
      BY <2>1, <2>2, BusCall, RoutineCall DEF BusOnly
    <2>3. CASE TakesAnswer
      BY <2>1, <2>3, TakesAnswerCall
    <2>4. CASE Writes
      BY <2>1, <2>4, RamWrites, BeginsCall DEF NextWrite
    <2>5. CASE Unplugged
      BY <2>1, <2>5, PowerCutCall DEF Unplugged
    <2>6. CASE UNCHANGED ramVars
      BY <2>1, <2>6, CallStutters DEF ramVars
    <2> QED BY <2>1, <2>2, <2>3, <2>4, <2>5, <2>6 DEF RamNext, Main
  <1>3. CASE Stock(Rev22!Next)
    BY <1>3 DEF Stock, program
  <1>4. CASE UNCHANGED mcVars
    BY <1>4, CallStutters DEF mcVars, ramVars, program
  <1> QED BY <1>1, <1>2, <1>3, <1>4 DEF MCNext

LEMMA DrivenInit ==
    ASSUME MCInit
    PROVE  Driven /\ Progress
  <1>1. ASSUME DriverInit, cells \in [Offsets -> Byte]
        PROVE  CallInv
    BY <1>1, I2cAssumption, CellsNat
       DEF DriverInit, WireInit, CallInv, Call, TypeOK, WireTypeOK, Underway, NothingOut, Quiet,
       Calm, Held, Asked, Fetched, ZeroIsJustified
  <1>2. CASE RamInit
    <2>1. \A o \in Offsets : 1 - Value(o) \in Byte
      BY <1>2, Orders, CellsNat DEF RamInit
    <2> QED BY <1>1, <1>2, <2>1 DEF RamInit, DriverInit, Driven, Progress
  <1>3. CASE image \notin {"ramflash", "sigkill"}
    BY <1>1, <1>3 DEF MCInit, RamInit, Init, Driven, Progress
  <1> QED BY <1>2, <1>3 DEF MCInit

\* The stock image makes none.
NoCalls == image = "rev22" => call = None /\ answer = None /\ got = <<>>

LEMMA NoCallsStep ==
    /\ MCInit => NoCalls
    /\ NoCalls /\ [MCNext]_mcVars => NoCalls'
  <1>1. MCInit => NoCalls
    BY DEF MCInit, RamInit, DriverInit, NoCalls
  <1>2. ASSUME NoCalls, MCNext PROVE NoCalls'
    <2>1. CASE Mboxfw(Next) \/ RamImage(RamNext)
      BY <2>1 DEF Mboxfw, RamImage, RamNext, Main, Writes, TakesAnswer, Unplugged, program, ramVars,
         NoCalls
    <2>2. CASE Stock(Rev22!Next)
      BY <1>2, <2>2 DEF Stock, callers, program, NoCalls
    <2> QED BY <1>2, <2>1, <2>2 DEF MCNext
  <1>3. NoCalls /\ UNCHANGED mcVars => NoCalls'
    BY DEF NoCalls, mcVars, ramVars, vars, routine, program
  <1> QED BY <1>1, <1>2, <1>3

\* The RAM images only write.
NoReads == image \in {"ramflash", "sigkill"} =>
    got = <<>> /\ pc # "receive" /\ (call # None => call.op = "write")

LEMMA NoReadsStep ==
    /\ MCInit => NoReads
    /\ NoReads /\ Driven /\ Progress /\ [MCNext]_mcVars => NoReads'
  <1>1. MCInit => NoReads
    BY DEF MCInit, RamInit, DriverInit, NoReads
  <1>2. ASSUME NoReads, Driven, Progress, MCNext PROVE NoReads'
    <2>1. CASE RamImage(RamNext)
      <3>1. image \in {"ramflash", "sigkill"} /\ RamNext
        BY <2>1 DEF RamImage
      <3>2. CASE Routine
        <4>1. pc # "idle" /\ call # None
          BY <1>2, <3>1, <3>2 DEF Driven, CallInv, TypeOK, Routine, SendsLow, SendsData, Written,
             eeprom_write_hold, TurnsAround, Receives, Received, GivesUp
        <4> QED BY <1>2, <3>1, <3>2, <4>1 DEF Routine, SendsLow, SendsData, Written,
                eeprom_write_hold, TurnsAround, Receives, Received, GivesUp, Return, NoReads
      <3>3. CASE Writes
        <4>1. Begin(NextWrite)
          BY <1>2, <3>1, <3>3, RamWrites
        <4>2. got' = <<>> /\ pc' = "high" /\ call' = NextWrite
          BY <4>1 DEF Begin
        <4> QED BY <4>2 DEF NextWrite, NoReads
      <3>4. CASE BusOnly(Bus) \/ TakesAnswer \/ Unplugged \/ UNCHANGED ramVars
        BY <1>2, <3>1, <3>4 DEF BusOnly, TakesAnswer, Unplugged, PowerCut, ramVars, vars, routine,
           program, NoReads, RamNext
      <3> QED BY <3>1, <3>2, <3>3, <3>4 DEF RamNext, Main
    <2>2. CASE Mboxfw(Next) \/ Stock(Rev22!Next)
      BY <1>2, <2>2 DEF Mboxfw, Stock, program, NoReads
    <2> QED BY <1>2, <2>1, <2>2 DEF MCNext
  <1>3. NoReads /\ UNCHANGED mcVars => NoReads'
    BY DEF NoReads, mcVars, ramVars, vars, routine, program
  <1> QED BY <1>1, <1>2, <1>3

LEMMA CallsKept == MCSpec => [](Driven /\ Progress /\ NoCalls /\ NoReads)
  BY DrivenInit, DrivenStep, ProgressStep, NoCallsStep, NoReadsStep, PTL DEF MCSpec

\* A call of eeprom.c answers 0 only when something went wrong in that very
\* call: the flags an earlier early return left behind are gone.
THEOREM ZeroJustified == MCSpec => []ZeroIsJustified
  <1>1. Driven /\ NoCalls => ZeroIsJustified
    BY I2cAssumption, CellsNat DEF Driven, NoCalls, CallInv, Call, ZeroIsJustified
  <1> QED BY <1>1, CallsKept, PTL

-----------------------------------------------------------------------------
(* The promise, for a build that has the hold.                             *)

OneStep ==
    \/ Promise!Asks \/ Promise!Stores \/ Promise!ReadsOn \/ Promise!Succeeds
    \/ Promise!Fails \/ Promise!PowerFails

AllBut(i) == image # i /\ image' # i

LEMMA BusPromise ==
    ASSUME HoldBuilds = {TRUE}, CallInv, AllBut("rev22"), Bus, UNCHANGED <<routine, holds>>
    PROVE  [OneStep]_Promise!abstract
  <1>1. CASE Transfer \/ Faulty
    <2>1. UNCHANGED cells
      BY <1>1 DEF Transfer, NotTaken, TakesHigh, TakesLow, TakesData, GivesByte, Faulty, part
    <2> QED BY <2>1 DEF AllBut, Promise!abstract, routine
  <1>2. CASE Programmed
    <2>1. pc \in {"data", "hold"} /\ ~hit /\ out = None /\ holds
      BY <1>2 DEF CallInv, Call, Held, Programmed, TypeOK
    <2>2. call.op = "write" /\ burning = [at |-> call.at, now |-> call.value] /\ call # None
      BY <1>2, <2>1, CallTyped, I2cAssumption
         DEF CallInv, Call, Asked, Underway, Live, DataLive, HoldLive, Asks, Stored, Programmed
    <2>3. Promise!Stores
      BY <1>2, <2>2 DEF Promise!Stores, Promise!Written, Programmed, AllBut, routine
    <2> QED BY <2>3 DEF OneStep
  <1> QED BY <1>1, <1>2 DEF Bus

LEMMA BeginPromise ==
    ASSUME AllBut("rev22"), CallInv, NEW c \in Writing \cup Reading, Begin(c)
    PROVE  [OneStep]_Promise!abstract
  <1>1. call = None /\ c \in Promise!Calls /\ UNCHANGED cells
    BY DEF Begin, CallInv, TypeOK, Writing, Reading, Promise!Calls, part
  <1>2. Promise!Asks
    BY <1>1 DEF Promise!Asks, Begin, AllBut
  <1> QED BY <1>2 DEF OneStep

LEMMA RoutinePromise ==
    ASSUME HoldBuilds = {TRUE}, CallInv, AllBut("rev22"), Routine
    PROVE  [OneStep]_Promise!abstract
  <1> USE DEF AllBut, OneStep
  <1>1. UNCHANGED cells
    BY DEF Routine, SendsLow, SendsData, Written, eeprom_write_hold, TurnsAround, Receives,
       Received, GivesUp, part, wire
  <1>2. CASE SendsLow \/ SendsData \/ TurnsAround
    BY <1>1, <1>2 DEF SendsLow, SendsData, TurnsAround, Promise!abstract
  <1>3. CASE Written
    BY <1>1, <1>3 DEF Written, CallInv, TypeOK, Promise!abstract
  <1>4. CASE eeprom_write_hold
    <2>1. ~hit /\ Stored /\ burning = None /\ call.op = "write" /\ pc # "idle"
      BY <1>4 DEF eeprom_write_hold, HoldOver, CallInv, Call, Asked, Underway, Dead, Live, HoldLive
    <2>2. call # None /\ cells = [cells EXCEPT ![call.at] = call.value]
      BY <2>1, CallTyped, I2cAssumption DEF Stored, CallInv, TypeOK, WireTypeOK
    <2>3. Promise!Succeeds
      BY <1>1, <1>4, <2>1, <2>2 DEF eeprom_write_hold, Return, Promise!Succeeds, Promise!Written
    <2> QED BY <2>3
  <1>5. CASE Receives
    <2>1. pc = "receive" /\ ~hit /\ left > 0 /\ dati = cells[Here] /\ got' = Append(got, dati)
          /\ UNCHANGED <<call, answer>>
      BY <1>5 DEF Receives, wait_bit, CallInv, Call, Underway, Dead, Live, ReceiveLive, Asks,
         Answered, LastOne, TypeOK
    <2>2. call # None /\ call.op = "read" /\ Len(got) < call.len
      BY <2>1, CallTyped DEF CallInv, Call, Fetched, TypeOK
    <2>3. Promise!ReadsOn
      BY <1>1, <2>1, <2>2 DEF Promise!ReadsOn, Here
    <2> QED BY <2>3
  <1>6. CASE Received
    <2>1. pc = "receive" /\ left = 0 /\ UNCHANGED got /\ call' = None /\ answer' = 1
      BY <1>6 DEF Received, Return
    <2>2. call # None /\ call.op = "read" /\ Len(got) = call.len /\ got \in Seq(Byte)
      BY <2>1, CallTyped DEF CallInv, Call, Fetched, TypeOK
    <2>3. got = [i \in 1 .. call.len |-> cells[call.at + i - 1]]
      BY <2>1, <2>2 DEF CallInv, Call, Fetched
    <2>4. Promise!Succeeds
      BY <1>1, <2>1, <2>2, <2>3 DEF Promise!Succeeds
    <2> QED BY <2>4
  <1>7. CASE GivesUp
    <2>1. call # None
      BY <1>7, CallTyped DEF GivesUp, CallInv
    <2>2. Promise!Fails
      BY <1>1, <1>7, <2>1 DEF GivesUp, Return, Promise!Fails
    <2> QED BY <2>2
  <1> QED BY <1>2, <1>3, <1>4, <1>5, <1>6, <1>7 DEF Routine

LEMMA PowerPromise ==
    ASSUME HoldBuilds = {TRUE}, CallInv, AllBut("rev22"), PowerCut
    PROVE  [OneStep]_Promise!abstract
  <1>1. CASE burning = None
    <2>1. UNCHANGED cells
      BY <1>1 DEF PowerCut, WirePowerCut
    <2>2. Promise!PowerFails
      BY <2>1 DEF PowerCut, Promise!PowerFails, AllBut
    <2> QED BY <2>2 DEF OneStep
  <1>2. CASE burning # None
    <2>1. pc \in {"data", "hold"} /\ ~hit /\ out = None
      BY <1>2 DEF CallInv, Call, Held, TypeOK
    <2>2. call.op = "write" /\ burning = [at |-> call.at, now |-> call.value] /\ call # None
      BY <1>2, <2>1, CallTyped, I2cAssumption
         DEF CallInv, Call, Asked, Underway, Live, DataLive, HoldLive, Asks, Stored
    <2>3. UNCHANGED cells \/ cells' = [cells EXCEPT ![call.at] = call.value]
      BY <2>2 DEF PowerCut, WirePowerCut
    <2>4. Promise!PowerFails
      BY <2>2, <2>3 DEF PowerCut, Promise!PowerFails, Promise!Written, AllBut
    <2> QED BY <2>4 DEF OneStep
  <1> QED BY <1>1, <1>2

LEMMA PromiseStep ==
    ASSUME HoldBuilds = {TRUE}, Driven, Progress, NoReads, [MCNext]_mcVars
    PROVE  [OneStep]_Promise!abstract
  <1>1. CASE Mboxfw(Next)
    <2>1. AllBut("rev22") /\ CallInv /\ Next
      BY <1>1 DEF Mboxfw, program, Driven, AllBut
    <2>2. CASE Calls
      BY <2>1, <2>2, CallsBegin, BeginPromise
    <2> QED BY <2>1, <2>2, BusPromise, RoutinePromise, PowerPromise DEF Next, BusOnly
  <1>2. CASE RamImage(RamNext)
    <2>1. image \in {"ramflash", "sigkill"} /\ AllBut("rev22") /\ CallInv /\ RamNext
      BY <1>2 DEF RamImage, Driven, AllBut, RamNext, program, Main, Writes, TakesAnswer, Unplugged,
         ramVars
    <2>2. CASE (BusOnly(Bus) \/ Routine) /\ UNCHANGED program
      BY <2>1, <2>2, BusPromise, RoutinePromise DEF BusOnly
    <2>3. CASE TakesAnswer
      <3>1. got = <<>> /\ call = None
        BY <2>1, <2>3 DEF TakesAnswer, CallInv, TypeOK, NoReads
      <3>2. Promise!PowerFails
        BY <2>1, <2>3, <3>1 DEF TakesAnswer, Promise!PowerFails, AllBut, wire, part
      <3> QED BY <3>2 DEF OneStep
    <2>4. CASE Writes
      BY <2>1, <2>4, RamWrites, BeginPromise DEF NextWrite
    <2>5. CASE Unplugged
      BY <2>1, <2>5, PowerPromise DEF Unplugged
    <2>6. CASE UNCHANGED ramVars
      BY <2>1, <2>6 DEF ramVars, vars, wire, part, routine, program, AllBut, Promise!abstract
    <2> QED BY <2>1, <2>2, <2>3, <2>4, <2>5, <2>6 DEF RamNext, Main
  <1>3. CASE Stock(Rev22!Next)
    BY <1>3 DEF Stock, program, callers, Promise!abstract
  <1>4. CASE UNCHANGED mcVars
    BY <1>4 DEF mcVars, ramVars, vars, wire, part, routine, program, Promise!abstract
  <1> QED BY <1>1, <1>2, <1>3, <1>4 DEF MCNext

LEMMA Rev22Same ==
    Rev22!Cells = Cells /\ Rev22!Offsets = Offsets /\ Rev22!Byte = Byte
  BY DEF Rev22!Cells, Rev22!Offsets, Rev22!Byte, Cells, Offsets, Byte

LEMMA PromiseInit == MCInit => Promise!AbstractInit
  <1> SUFFICES ASSUME MCInit PROVE Promise!AbstractInit
    OBVIOUS
  <1>1. cells \in [Offsets -> Byte]
    <2>1. CASE RamInit
      BY <2>1, Orders, CellsNat, DrivenInit DEF RamInit, Driven, CallInv, TypeOK, WireTypeOK
    <2>2. CASE ~RamInit
      BY <2>2, Rev22Same DEF MCInit, Init, Rev22!Init
    <2> QED BY <2>1, <2>2
  <1>2. call = None /\ answer = None /\ got = <<>>
    BY DEF MCInit, RamInit, DriverInit, Init
  <1> QED BY <1>1, <1>2, CellsNat DEF Promise!AbstractInit

\* With the program-cycle hold in the build, the routines of eeprom.c and of
\* the RAM images implement EepromByte, whatever fails and whenever the power
\* goes: a write that answered 1 is in the part, a read that answered 1 got
\* what the part holds.
THEOREM PromiseKept ==
    ASSUME HoldBuilds = {TRUE}
    PROVE  MCSpec => KeepsPromise
  <1>1. MCSpec => [](Driven /\ Progress /\ NoReads)
    BY CallsKept, PTL
  <1>2. Driven /\ Progress /\ NoReads /\ [MCNext]_mcVars => [OneStep]_Promise!abstract
    BY PromiseStep
  <1> QED BY <1>1, <1>2, PromiseInit, PTL DEF MCSpec, KeepsPromise, Promise!AbstractSpec, OneStep

-----------------------------------------------------------------------------
(* ramflash writes the checksum last.                                      *)

Vouched(o) == o \in lost \/ cells[o] = 1 \/ burning = [at |-> o, now |-> 1]

WritingNext == pc # "idle" => at \in 1 .. 4 /\ call = NextWrite
InPlace ==
    /\ burning # None => burning.now = 1
    /\ \A j \in 1 .. 4 : j < at => Vouched(WriteOrder[j])
    /\ answer = 1 => at \in 1 .. 4 /\ Vouched(WriteOrder[at])
ChecksumLast ==
    cells[CHKSUM_OFF] = 1 \/ (burning # None /\ burning.at = CHKSUM_OFF) =>
        \A o \in ImageBytes \ {CHKSUM_OFF} : o \in lost \/ cells[o] = 1

Ordered == image = "ramflash" => WritingNext /\ InPlace /\ ChecksumLast

LEMMA Flashed ==
    ASSUME image = "ramflash"
    PROVE  /\ WriteOrder = <<3, 2, 1, 0>> /\ ImageBytes = 0 .. 3 /\ CHKSUM_OFF = 0
           /\ 0 .. 3 \subseteq Offsets
           /\ \A o \in Offsets : Value(o) = 1
           /\ \A i \in 1 .. 4 : NextWrite.value = 1 \/ at # i
  <1>1. 0 .. 3 \subseteq Offsets
    BY CellsNat DEF Offsets
  <1>2. \A o \in Offsets : Value(o) = 1
    BY DEF Value, fw_image
  <1>3. WriteOrder = <<3, 2, 1, 0>>
    BY DEF WriteOrder, Payload, SIG_LO_B, SIG_LO_A, CHKSUM_OFF
  <1>4. ASSUME NEW i \in 1 .. 4, at = i PROVE NextWrite.value = 1
    <2>1. WriteOrder[i] \in Offsets
      BY <1>1, <1>3
    <2> QED BY <1>2, <1>4, <2>1 DEF NextWrite
  <1> QED BY <1>1, <1>2, <1>3, <1>4 DEF ImageBytes, Payload, SIG_LO_B, SIG_LO_A, CHKSUM_OFF

\* What a byte on the wire does to the part's contents.
LEMMA TransferCells ==
    ASSUME CallInv, Transfer \/ Faulty
    PROVE  /\ UNCHANGED cells
           /\ \/ UNCHANGED burning
              \/ /\ burning = None /\ pc = "data" /\ call.op = "write"
                 /\ burning' = [at |-> call.at, now |-> call.value]
  <1>1. out # None /\ pc # "idle" /\ ~hit /\ Live
    BY DEF Transfer, Faulty, CallInv, Call, Quiet, Underway, Dead, NothingOut
  <1>2. CASE TakesData /\ "STOP_WRITE" \in sta /\ burning = None
    <2>1. pc = "data" /\ Asks(call.value, None, {"STOP_WRITE"}) /\ DataComes /\ call.op = "write"
      BY <1>1, <1>2 DEF Live, HighLive, LowLive, DataLive, HoldLive, ReceiveLive, Asks, Answered,
         NothingOut, LastOne, CallInv, TypeOK, Call, Asked
    <2> QED BY <1>2, <2>1 DEF TakesData, Asks, DataComes
  <1>3. CASE ~(TakesData /\ "STOP_WRITE" \in sta /\ burning = None)
    BY <1>3 DEF Transfer, Faulty, NotTaken, TakesHigh, TakesLow, TakesData, GivesByte, part
  <1> QED BY <1>2, <1>3

LEMMA OrderedBus ==
    ASSUME image = "ramflash", image' = image, CallInv, Ordered, Progress, Bus,
           UNCHANGED <<routine, at, again, lost>>
    PROVE  Ordered'
  <1>1. UNCHANGED <<WriteOrder, NextWrite>>
    BY DEF WriteOrder, NextWrite, Value
  <1>2. CASE Transfer \/ Faulty
    <2>1. CASE UNCHANGED <<cells, burning>>
      BY <1>1, <2>1 DEF Ordered, WritingNext, InPlace, ChecksumLast, Vouched, routine, ImageBytes
    <2>2. CASE ~UNCHANGED burning
      <3>1. /\ UNCHANGED cells /\ burning = None /\ at \in 1 .. 4
            /\ burning' = [at |-> WriteOrder[at], now |-> 1]
        BY <1>2, <2>2, TransferCells, Flashed DEF Ordered, WritingNext, NextWrite
      <3>2. WritingNext'
        BY <1>1 DEF Ordered, WritingNext, routine
      <3>3. \A j \in 1 .. 4 : Vouched(WriteOrder[j]) =>
               WriteOrder[j] \in lost \/ cells[WriteOrder[j]] = 1
        <4>1. \A j \in 1 .. 4 : [at |-> WriteOrder[j], now |-> 1] \in [at : Offsets, now : Byte]
          BY Flashed, CellsNat
        <4> QED BY <3>1, <4>1, I2cAssumption DEF Vouched
      <3>4. InPlace'
        <4>1. \A j \in 1 .. 4 : Vouched(WriteOrder[j]) => Vouched(WriteOrder[j])'
          BY <1>1, <3>1, <3>3 DEF Vouched
        <4>2. at' = at /\ answer' = answer
          BY DEF routine
        <4> QED BY <3>1, <4>1, <4>2 DEF Ordered, InPlace
      <3>5. ChecksumLast'
        <4>1. WriteOrder[at] = CHKSUM_OFF => at = 4
          BY <3>1, Flashed
        <4>2. ASSUME at = 4, NEW o \in ImageBytes \ {CHKSUM_OFF}
              PROVE  o \in lost \/ cells[o] = 1
          <5>1. \E j \in 1 .. 4 : j < at /\ o = WriteOrder[j]
            BY <4>2, Flashed
          <5> QED BY <3>3, <5>1 DEF Ordered, InPlace
        <4>3. ImageBytes' = ImageBytes
          BY DEF ImageBytes
        <4> QED BY <3>1, <4>1, <4>2, <4>3 DEF Ordered, ChecksumLast
      <3> QED BY <3>2, <3>4, <3>5 DEF Ordered
    <2> QED BY <1>2, <2>1, <2>2, TransferCells
  <1>3. CASE Programmed
    <2>1. /\ burning # None /\ burning.at \in Offsets /\ burning.now = 1
          /\ cells' = [cells EXCEPT ![burning.at] = 1] /\ cells \in [Offsets -> Byte]
          /\ burning' = None
      BY <1>3 DEF Programmed, CallInv, TypeOK, WireTypeOK, Ordered, InPlace
    <2>2. ASSUME NEW o, Vouched(o), o \in Offsets PROVE Vouched(o)'
      BY <2>1, <2>2 DEF Vouched
    <2>3. \A i \in 1 .. 4 : WriteOrder[i] \in Offsets
      BY Flashed
    <2>4. InPlace'
      <3>1. \A j \in 1 .. 4 : Vouched(WriteOrder[j]) => Vouched(WriteOrder[j])'
        BY <1>1, <2>2, <2>3 DEF Vouched
      <3>2. at' = at /\ answer' = answer
        BY DEF routine
      <3> QED BY <2>1, <3>1, <3>2 DEF Ordered, InPlace
    <2>5. ChecksumLast'
      <3>1. CHKSUM_OFF = 0 /\ ImageBytes = 0 .. 3 /\ 0 .. 3 \subseteq Offsets /\ ImageBytes' = ImageBytes
        BY Flashed DEF ImageBytes
      <3>2. cells'[0] = 1 => cells[0] = 1 \/ burning.at = 0
        BY <2>1, <3>1
      <3>3. \A o \in ImageBytes : cells[o] = 1 => cells'[o] = 1
        BY <2>1, <3>1
      <3> QED BY <2>1, <3>1, <3>2, <3>3 DEF Ordered, ChecksumLast
    <2>6. WritingNext'
      BY <1>1 DEF Ordered, WritingNext, routine
    <2> QED BY <2>4, <2>5, <2>6 DEF Ordered
  <1> QED BY <1>2, <1>3 DEF Bus

LEMMA OrderedRoutine ==
    ASSUME image = "ramflash", CallInv, Ordered, Routine, UNCHANGED program
    PROVE  Ordered'
  <1>1. UNCHANGED <<WriteOrder, NextWrite, cells, burning, lost, at>>
    BY DEF WriteOrder, NextWrite, Value, program, Routine, SendsLow, SendsData, Written,
       eeprom_write_hold, TurnsAround, Receives, Received, GivesUp, part, wire
  <1>2. pc # "idle" /\ at \in 1 .. 4 /\ call = NextWrite /\ call.op = "write"
    BY DEF Routine, SendsLow, SendsData, Written, eeprom_write_hold, TurnsAround, Receives, Received,
       GivesUp, Ordered, WritingNext, NextWrite
  <1>3. WritingNext'
    BY <1>1, <1>2 DEF WritingNext, Routine, SendsLow, SendsData, Written, eeprom_write_hold,
       TurnsAround, Receives, Received, GivesUp, Return
  <1>4. ChecksumLast'
    BY <1>1 DEF Ordered, ChecksumLast, ImageBytes
  <1>5. answer' = 1 => answer = 1 \/ Vouched(WriteOrder[at])
    <2>1. CASE Written \/ eeprom_write_hold
      <3>1. Stored
        BY <2>1 DEF Written, eeprom_write_hold, wait_bit, CallInv, Call, Underway, Dead, Live,
           DataLive, HoldLive, Asks
      <3> QED BY <1>2, <3>1, Flashed DEF Stored, Vouched, NextWrite
    <2>2. CASE SendsLow \/ SendsData \/ TurnsAround \/ Receives \/ GivesUp
      BY <2>2 DEF SendsLow, SendsData, TurnsAround, Receives, GivesUp, Return
    <2>3. CASE Received
      BY <1>2, <2>3 DEF Received, CallInv, Call, Fetched
    <2> QED BY <2>1, <2>2, <2>3 DEF Routine
  <1>6. InPlace'
    BY <1>1, <1>2, <1>5 DEF Ordered, InPlace, Vouched
  <1> QED BY <1>3, <1>4, <1>6 DEF Ordered

LEMMA OrderedMain ==
    ASSUME image = "ramflash", image' = image, CallInv, Ordered, Progress, Main
    PROVE  Ordered'
  <1>1. UNCHANGED <<WriteOrder, cells, burning>>
    BY DEF WriteOrder, Main, Writes, TakesAnswer, eeprom_write_byte, Begin, part, wire
  <1>2. CASE Writes
    <2>1. UNCHANGED <<at, lost>> /\ at \in 1 .. 4 /\ Begin(NextWrite)
      BY <1>2, RamWrites DEF Writes, program
    <2>2. call' = NextWrite /\ answer' = None
      BY <2>1 DEF Begin
    <2>3. UNCHANGED NextWrite
      BY <1>1, <2>1 DEF NextWrite, Value
    <2> QED BY <1>1, <2>1, <2>2, <2>3, I2cAssumption, CellsNat
            DEF Ordered, WritingNext, InPlace, ChecksumLast, Vouched, ImageBytes
  <1>3. CASE TakesAnswer
    <2>1. pc' = "idle" /\ answer' = None /\ lost \subseteq lost' /\ at \in 0 .. 5 /\ at \notin {0, 5}
      <3>1. Len(WriteOrder) = 4
        BY Flashed
      <3>2. ~Halted /\ at \in 0 .. 5
        BY <1>3 DEF TakesAnswer, Progress
      <3> QED BY <1>3, <3>1, <3>2 DEF TakesAnswer, Halted, Finished
    <2>2. \A j \in 1 .. 4 : j < at' => Vouched(WriteOrder[j])'
      <3>1. \A j \in 1 .. 4 : Vouched(WriteOrder[j]) => Vouched(WriteOrder[j])'
        BY <1>1, <2>1 DEF Vouched
      <3>2. CASE at' = at
        BY <1>1, <3>1, <3>2 DEF Ordered, InPlace
      <3>3. CASE at' # at
        <4>1. at' = at + 1 /\ (answer = 0 => WriteOrder[at] \in lost') /\ answer \in {0, 1}
          BY <1>3, <3>3 DEF TakesAnswer, CallInv, TypeOK
        <4>2. ASSUME NEW j \in 1 .. 4, j = at PROVE Vouched(WriteOrder[j])'
          <5>1. answer = 1 => Vouched(WriteOrder[j])
            BY <4>2 DEF Ordered, InPlace
          <5>2. answer = 0 => Vouched(WriteOrder[j])'
            BY <1>1, <4>1, <4>2 DEF Vouched
          <5> QED BY <3>1, <4>1, <5>1, <5>2
        <4>3. \A j \in 1 .. 4 : j < at' => j < at \/ j = at
          BY <2>1, <4>1
        <4> QED BY <3>1, <4>2, <4>3 DEF Ordered, InPlace
      <3> QED BY <3>2, <3>3
    <2> QED BY <1>1, <2>1, <2>2, I2cAssumption, CellsNat
            DEF Ordered, WritingNext, InPlace, ChecksumLast, ImageBytes
  <1> QED BY <1>2, <1>3 DEF Main

LEMMA OrderedCut ==
    ASSUME image = "ramflash", CallInv, Ordered, Unplugged
    PROVE  Ordered'
  <1>1. /\ at' = 0 /\ pc' = "idle" /\ answer' = None /\ burning' = None /\ lost' = lost
        /\ \/ UNCHANGED cells
           \/ burning # None /\ cells' = [cells EXCEPT ![burning.at] = 1]
    BY DEF Unplugged, PowerCut, WirePowerCut, Ordered, InPlace
  <1>2. cells \in [Offsets -> Byte] /\ (burning # None => burning.at \in Offsets)
    BY DEF CallInv, TypeOK, WireTypeOK
  <1>3. ChecksumLast'
    BY <1>1, <1>2, Flashed DEF Ordered, ChecksumLast, ImageBytes
  <1> QED BY <1>1, <1>3, I2cAssumption, CellsNat DEF Ordered, WritingNext, InPlace

LEMMA OrderedStep ==
    ASSUME Driven, Progress, Ordered, [MCNext]_mcVars
    PROVE  Ordered'
  <1>1. CASE image # "ramflash"
    BY <1>1 DEF MCNext, Mboxfw, RamImage, RamNext, Stock, Main, Writes, TakesAnswer, Unplugged,
       program, ramVars, mcVars, Ordered
  <1>2. CASE image = "ramflash" /\ RamNext
    <2>1. CallInv
      BY <1>2 DEF Driven
    <2>2. CASE BusOnly(Bus) /\ UNCHANGED program
      BY <1>2, <2>1, <2>2, OrderedBus DEF BusOnly, program
    <2>3. CASE Routine /\ UNCHANGED program
      BY <1>2, <2>1, <2>3, OrderedRoutine
    <2>4. CASE Main
      BY <1>2, <2>1, <2>4, OrderedMain DEF Main, Writes, TakesAnswer, program
    <2>5. CASE Unplugged
      BY <1>2, <2>1, <2>5, OrderedCut
    <2>6. CASE UNCHANGED ramVars
      BY <2>6 DEF ramVars, vars, wire, part, routine, program, Ordered, WritingNext, InPlace,
         ChecksumLast, Vouched, NextWrite, WriteOrder, Value, ImageBytes
    <2> QED BY <1>2, <2>2, <2>3, <2>4, <2>5, <2>6 DEF RamNext
  <1>3. CASE UNCHANGED mcVars
    BY <1>3 DEF mcVars, ramVars, vars, wire, part, routine, program, Ordered, WritingNext, InPlace,
       ChecksumLast, Vouched, NextWrite, WriteOrder, Value, ImageBytes
  <1> QED BY <1>1, <1>2, <1>3 DEF MCNext, Mboxfw, RamImage, Stock

LEMMA OrderedInit == MCInit => Ordered
  <1> SUFFICES ASSUME MCInit, image = "ramflash" PROVE Ordered
    BY DEF Ordered
  <1>1. RamInit
    BY DEF MCInit
  <1>2. cells[CHKSUM_OFF] = 0
    BY <1>1, Flashed DEF RamInit
  <1> QED BY <1>1, <1>2, I2cAssumption, CellsNat
          DEF RamInit, DriverInit, WireInit, Ordered, WritingNext, InPlace, ChecksumLast

\* ramflash leaves no image whose checksum is right while a byte it took for
\* written is not, at whatever point it is unplugged; with or without the hold.
THEOREM ChecksumIsLast == MCSpec => []ChecksumVouches
  <1>1. Ordered => ChecksumVouches
    <2> SUFFICES ASSUME Ordered, image = "ramflash", cells[0] = 1 PROVE \A o \in ImageBytes \ lost : cells[o] = 1
      BY CellsNat, Flashed DEF ChecksumVouches, fw_image
    <2> QED BY Flashed DEF Ordered, ChecksumLast
  <1> QED BY <1>1, CallsKept, OrderedInit, OrderedStep, PTL DEF MCSpec

-----------------------------------------------------------------------------
(* ramflash gives up no byte for a single fault.                           *)

\* What the failures so far have cost.
Tries == IF again THEN 2 ELSE 1

Spent == image = "ramflash" =>
    /\ again \in BOOLEAN
    /\ (hit /\ pc # "idle") \/ answer = 0 => faults >= Tries
    /\ again => faults >= 1
    /\ lost # {} => faults >= 2

LEMMA SpentStep ==
    ASSUME HoldBuilds = {TRUE}, Driven, Spent, [MCNext]_mcVars
    PROVE  Spent'
  <1> USE DEF Spent
  <1>1. CASE image # "ramflash"
    BY <1>1 DEF MCNext, Mboxfw, RamImage, RamNext, Stock, Main, Writes, TakesAnswer, Unplugged,
       program, ramVars, mcVars
  <1>2. CASE image = "ramflash" /\ RamNext
    <2>1. CallInv /\ faults \in Nat /\ holds /\ hit \in BOOLEAN
      BY <1>2, I2cAssumption DEF Driven, CallInv, TypeOK, WireTypeOK
    <2>2. CASE BusOnly(Bus) /\ UNCHANGED program
      <3>1. UNCHANGED <<image, again, lost, pc, answer, Tries>>
        BY <2>2 DEF BusOnly, program, routine, Tries
      <3>2. CASE Transfer
        <4>1. out # None
          BY <3>2 DEF Transfer
        <4>2. burning = None
          BY <2>1, <4>1 DEF CallInv, Call, Held
        <4>3. UNCHANGED <<faults, hit>>
          BY <2>1, <3>2, <4>2 DEF Transfer, NotTaken
        <4> QED BY <3>1, <4>3
      <3>3. CASE Faulty
        <4>1. faults' = faults + 1
          BY <3>3 DEF Faulty
        <4> QED BY <1>2, <2>1, <3>1, <4>1 DEF Tries
      <3>4. CASE Programmed
        BY <3>1, <3>4 DEF Programmed
      <3> QED BY <2>2, <3>2, <3>3, <3>4 DEF BusOnly, Bus
    <2>3. CASE Routine /\ UNCHANGED program
      <3>1. UNCHANGED <<image, again, lost, faults, hit, Tries>> /\ pc # "idle"
        BY <2>3 DEF program, Tries, Routine, SendsLow, SendsData, Written, eeprom_write_hold,
           TurnsAround, Receives, Received, GivesUp, wire
      <3>2. ZeroIsJustified'
        BY <2>1, <2>3, RoutineCall DEF CallInv, Call
      <3> QED BY <3>1, <3>2 DEF ZeroIsJustified
    <2>4. CASE Writes
      <3>1. UNCHANGED <<image, again, lost, faults, Tries>> /\ hit' = FALSE /\ answer' = None
        BY <2>4 DEF Writes, eeprom_write_byte, Begin, program, Tries
      <3> QED BY <3>1, I2cAssumption, CellsNat
    <2>5. CASE TakesAnswer
      <3>1. pc' = "idle" /\ answer' = None /\ faults' = faults /\ image' = image
        BY <2>5 DEF TakesAnswer, wire
      <3>2. CASE answer = 0 /\ ~again
        <4>1. again' = TRUE /\ lost' = lost /\ faults >= 1
          BY <1>2, <2>5, <3>2 DEF TakesAnswer, Retries, Tries
        <4> QED BY <3>1, <4>1, I2cAssumption, CellsNat
      <3>3. CASE answer = 0 /\ again
        <4>1. again' = FALSE /\ faults >= 2
          BY <1>2, <2>5, <3>3 DEF TakesAnswer, Retries, Tries
        <4> QED BY <3>1, <4>1, I2cAssumption, CellsNat
      <3>4. CASE answer # 0
        <4>1. again' = FALSE /\ lost' = lost
          BY <2>5, <3>4 DEF TakesAnswer
        <4> QED BY <3>1, <4>1, I2cAssumption, CellsNat
      <3> QED BY <1>2, <3>2, <3>3, <3>4
    <2>6. CASE Unplugged
      BY <2>6, I2cAssumption, CellsNat DEF Unplugged, PowerCut, WirePowerCut, Tries
    <2>7. CASE UNCHANGED ramVars
      BY <2>7 DEF ramVars, vars, wire, routine, program, Tries
    <2> QED BY <1>2, <2>2, <2>3, <2>4, <2>5, <2>6, <2>7 DEF RamNext, Main
  <1>3. CASE UNCHANGED mcVars
    BY <1>3 DEF mcVars, ramVars, vars, wire, routine, program, Tries
  <1> QED BY <1>1, <1>2, <1>3 DEF MCNext, Mboxfw, RamImage, Stock

\* With the hold in the build, put()'s second try saves every byte from a
\* single faulty transfer.
THEOREM NothingLost ==
    ASSUME HoldBuilds = {TRUE}
    PROVE  MCSpec => []NoByteLost
  <1>1. MCInit => Spent
    BY I2cAssumption, CellsNat DEF MCInit, RamInit, DriverInit, Spent
  <1>2. Driven /\ Progress /\ Spent => NoByteLost
    <2> SUFFICES ASSUME Driven, Spent, image = "ramflash", faults < 2, lost # {} PROVE FALSE
      BY DEF NoByteLost
    <2>1. faults \in Nat
      BY I2cAssumption DEF Driven, CallInv, TypeOK, WireTypeOK
    <2> QED BY <2>1 DEF Spent
  <1>3. MCSpec => [](Driven /\ Progress)
    BY CallsKept, PTL
  <1> QED BY <1>1, <1>2, <1>3, SpentStep, PTL DEF MCSpec

-----------------------------------------------------------------------------
(* The stock firmware's enter-DFU write.                                   *)

Order == Rev22!Address

\* What a routine that looks at one flag only can find behind it.
StockHigh == pc = "high" =>
    \/ /\ out = High(Order) /\ adr = "write"
       /\ {"XMIT_DATA_EMPTY", "STOP_WRITE"} \cap sta = {}
    \/ NothingOut /\ ("XMIT_DATA_EMPTY" \in sta =>
           "STOP_WRITE" \notin sta /\ link = "low" /\ ptr = High(Order) * Radix)

StockLow == pc = "low" =>
    \/ /\ out = Low(Order) /\ adr = None /\ link = "low" /\ ptr = High(Order) * Radix
       /\ {"XMIT_DATA_EMPTY", "STOP_WRITE"} \cap sta = {}
    \/ NothingOut /\ ("XMIT_DATA_EMPTY" \in sta => link = "data" /\ ptr = Order)

\* The header's first byte is zero, or is being zeroed, or has worn out.
Zeroed  == cells[0] = 0 \/ worn
Zeroing == cmd = "invalidate" =>
    burning = [at |-> 0, now |-> 0] \/ (burning = None /\ Zeroed)

StockData == pc = "data" =>
    \/ /\ out = Rev22!Value /\ adr = None /\ link = "data" /\ ptr = Order /\ burning = None
       /\ "STOP_WRITE" \in sta /\ "XMIT_DATA_EMPTY" \notin sta
    \/ NothingOut /\ ("XMIT_DATA_EMPTY" \in sta => Zeroing)

StockHold == pc = "hold" => NothingOut /\ Zeroing

StockReceive == pc = "receive" =>
    /\ cmd = "selftest"
    /\ \/ out = Clock /\ adr = "read" /\ "STOP_READ" \in sta /\ "RCV_DATA_FULL" \notin sta
       \/ NothingOut /\ ("RCV_DATA_FULL" \in sta => link = "idle")

StockRest ==
    /\ pc # "receive" => "RCV_DATA_FULL" \notin sta
    /\ pc = "idle" => NothingOut
    /\ pc \notin {"data", "hold"} => burning = None
    /\ pc # "idle" => cmd # None /\ step <= Len(Rev22!Steps(cmd))
    /\ pc = "idle" /\ cmd = "invalidate" /\ step = 2 => Zeroed
    /\ zapped => cmd = None /\ running /\ Zeroed
    /\ ~running => cmd = None

StockCall ==
    StockHigh /\ StockLow /\ StockData /\ StockHold /\ StockReceive /\ StockRest

StockInv == image = "rev22" => Rev22!TypeOK /\ StockCall

\* The same bus, under the other image's names.
LEMMA Rev22Bus ==
    /\ Rev22!Transfer <=> Transfer
    /\ Rev22!Faulty <=> Faulty
    /\ Rev22!Programmed <=> Programmed
    /\ Rev22!WirePowerCut <=> WirePowerCut
    /\ (Rev22!WireTypeOK <=> WireTypeOK) /\ (Rev22!WireTypeOK' <=> WireTypeOK')
    /\ Rev22!WireInit <=> WireInit
    /\ \A o : Rev22!High(o) = High(o) /\ Rev22!Low(o) = Low(o)
    /\ Rev22!part = part /\ Rev22!wire = wire /\ Rev22!registers = registers
  <1>1. Rev22!registers = registers /\ Rev22!part = part /\ Rev22!wire = wire
    BY DEF Rev22!part, Rev22!wire, Rev22!registers, part, wire, registers
  <1>2. Rev22!Transfer <=> Transfer
    BY DEF Rev22!Transfer, Rev22!NotTaken, Rev22!TakesHigh, Rev22!TakesLow, Rev22!TakesData,
       Rev22!GivesByte, Rev22!Sent, Rev22!Role, Rev22!Cells, Rev22!part,
       Transfer, NotTaken, TakesHigh, TakesLow, TakesData, GivesByte, Sent, Role, Cells, part
  <1>3. Rev22!Faulty <=> Faulty
    BY DEF Rev22!Faulty, Faulty
  <1>4. Rev22!Programmed <=> Programmed
    BY DEF Rev22!Programmed, Programmed, Rev22!registers, registers
  <1>5. Rev22!WirePowerCut <=> WirePowerCut
    BY DEF Rev22!WirePowerCut, WirePowerCut
  <1>6. (Rev22!WireTypeOK <=> WireTypeOK) /\ (Rev22!WireTypeOK' <=> WireTypeOK')
    BY DEF Rev22!WireTypeOK, Rev22!Flags, Rev22!Offsets, Rev22!Cells, Rev22!Byte, WireTypeOK, Flags,
       Offsets, Cells, Byte
  <1>7. Rev22!WireInit <=> WireInit
    BY DEF Rev22!WireInit, WireInit
  <1>8. \A o : Rev22!High(o) = High(o) /\ Rev22!Low(o) = Low(o)
    BY DEF Rev22!High, Rev22!Low, High, Low
  <1> QED BY <1>1, <1>2, <1>3, <1>4, <1>5, <1>6, <1>7, <1>8

LEMMA StepsOf ==
    /\ Rev22!Steps("selftest") = <<"read", "write", "read">>
    /\ Rev22!Steps("invalidate") = <<"write">>
  BY DEF Rev22!Steps

StockTyped == Rev22!TypeOK /\ StockCall

LEMMA Orders22 ==
    ASSUME Rev22!TypeOK
    PROVE  /\ Order \in Offsets /\ Rev22!Value \in Byte /\ WireTypeOK
           /\ High(Order) \in Byte /\ Low(Order) \in Byte
           /\ cmd = "invalidate" => Order = 0 /\ Rev22!Value = 0
           /\ cmd # None => cmd \in {"selftest", "invalidate"}
           /\ cmd = "invalidate" => Len(Rev22!Steps(cmd)) = 1
           /\ cmd = "selftest" => Len(Rev22!Steps(cmd)) = 3
  <1>1. Order \in Offsets
    BY CellsNat DEF Order, Rev22!Address, Rev22!Last, Rev22!HeaderByte, Rev22!Cells, Cells, Offsets
  <1>2. Rev22!Value \in Byte
    BY CellsNat, Rev22Same DEF Rev22!Value, Rev22!TypeOK
  <1> QED BY <1>1, <1>2, Address, Rev22Bus, StepsOf
          DEF Rev22!TypeOK, Order, Rev22!Address, Rev22!HeaderByte, Rev22!Value

LEMMA StepCount ==
    ASSUME Rev22!TypeOK, cmd # None
    PROVE  /\ Len(Rev22!Steps(cmd)) \in {1, 3} /\ step \in 1 .. Len(Rev22!Steps(cmd)) + 1
           /\ cmd = "invalidate" /\ step <= Len(Rev22!Steps(cmd)) => step = 1
           /\ cmd = "invalidate" /\ step > Len(Rev22!Steps(cmd)) => step = 2
           /\ step <= Len(Rev22!Steps(cmd)) =>
                  step + 1 \in 1 .. 4 /\ step + 1 <= Len(Rev22!Steps(cmd)) + 1
  <1> DEFINE n == Len(Rev22!Steps(cmd))
  <1>1. cmd \in {"selftest", "invalidate"} /\ step \in 1 .. 4 /\ step <= n + 1
    BY DEF Rev22!TypeOK
  <1>2. cmd = "selftest" => n = 3
    BY StepsOf
  <1>3. cmd = "invalidate" => n = 1
    BY StepsOf
  <1> HIDE DEF n
  <1>4. /\ n \in {1, 3} /\ step \in 1 .. n + 1
        /\ cmd = "invalidate" /\ step <= n => step = 1
        /\ cmd = "invalidate" /\ step > n => step = 2
        /\ step <= n => step + 1 \in 1 .. 4 /\ step + 1 <= n + 1
    BY <1>1, <1>2, <1>3
  <1> QED BY <1>4 DEF n

LEMMA StockTransfer ==
    ASSUME StockTyped, Transfer, UNCHANGED <<Rev22!commands, worn>>
    PROVE  StockTyped'
  <1> USE DEF StockTyped, StockCall
  <1>1. out # None /\ pc \in {"high", "low", "data", "receive"} /\ WireTypeOK
    BY Orders22 DEF Transfer, StockRest, StockHold, NothingOut, Rev22!TypeOK
  <1>2. UNCHANGED <<cmd, step, pc, byte2C, passed, zapped, running, worn, Order, Rev22!Value>>
    BY DEF Rev22!commands, Order, Rev22!Address, Rev22!Value, Rev22!Last, Rev22!HeaderByte, Rev22!Cells
  <1>3. WireTypeOK' => Rev22!TypeOK'
    BY <1>2, Rev22Bus DEF Rev22!TypeOK
  <1>4. /\ pc # "receive" => "XMIT_DATA_EMPTY" \notin sta /\ "RCV_DATA_FULL" \notin sta
        /\ pc = "receive" => "RCV_DATA_FULL" \notin sta
        /\ burning = None
    BY <1>1 DEF StockHigh, StockLow, StockData, StockReceive, StockRest, NothingOut
  <1>5. CASE NotTaken
    <2>1. WireTypeOK' /\ NothingOut' /\ sta' = sta \cup {"ERROR"} /\ UNCHANGED part
      BY <1>1, <1>5 DEF NotTaken, Sent, NothingOut, WireTypeOK, Flags, part
    <2> QED BY <1>1, <1>2, <1>3, <1>4, <2>1
            DEF StockHigh, StockLow, StockData, StockHold, StockReceive, StockRest, part
  <1>6. CASE pc = "high" /\ ~NotTaken
    <2>1. out = High(Order) /\ adr = "write" /\ "STOP_WRITE" \notin sta
      BY <1>1, <1>6 DEF StockHigh, NothingOut
    <2>2. /\ WireTypeOK' /\ NothingOut' /\ sta' = sta \cup {"XMIT_DATA_EMPTY"}
          /\ link' = "low" /\ ptr' = High(Order) * Radix
          /\ UNCHANGED <<dati, cells, burning, faults, hit>>
      BY <1>1, <1>4, <2>1, HighTaken, Orders22
    <2> QED BY <1>2, <1>3, <1>4, <1>6, <2>1, <2>2
            DEF StockHigh, StockLow, StockData, StockHold, StockReceive, StockRest, Zeroed
  <1>7. CASE pc = "low" /\ ~NotTaken
    <2>1. out = Low(Order) /\ adr = None /\ "STOP_WRITE" \notin sta /\ link = "low"
          /\ ptr = High(Order) * Radix
      BY <1>1, <1>7 DEF StockLow, NothingOut
    <2>2. /\ WireTypeOK' /\ NothingOut' /\ sta' = sta \cup {"XMIT_DATA_EMPTY"}
          /\ link' = "data" /\ ptr' = Order
          /\ UNCHANGED <<dati, cells, burning, faults, hit>>
      BY <1>1, <1>4, <2>1, LowTaken, Orders22
    <2> QED BY <1>2, <1>3, <1>4, <1>7, <2>1, <2>2
            DEF StockHigh, StockLow, StockData, StockHold, StockReceive, StockRest, Zeroed
  <1>8. CASE pc = "data" /\ ~NotTaken
    <2>1. out = Rev22!Value /\ adr = None /\ link = "data" /\ ptr = Order /\ "STOP_WRITE" \in sta
      BY <1>1, <1>8 DEF StockData, NothingOut
    <2>2. /\ WireTypeOK' /\ NothingOut' /\ sta' = sta \cup {"XMIT_DATA_EMPTY"}
          /\ burning' = [at |-> Order, now |-> Rev22!Value]
          /\ UNCHANGED <<dati, ptr, cells, faults, hit>>
      BY <1>1, <1>4, <2>1, DataTaken, Orders22
    <2>3. cmd = "invalidate" => burning' = [at |-> 0, now |-> 0]
      BY <2>2, Orders22
    <2> QED BY <1>2, <1>3, <1>4, <1>8, <2>2, <2>3
            DEF StockHigh, StockLow, StockData, StockHold, StockReceive, StockRest, Zeroing, Zeroed
  <1>9. CASE pc = "receive" /\ ~NotTaken
    <2>1. out = Clock /\ adr = "read" /\ "STOP_READ" \in sta
      BY <1>1, <1>9 DEF StockReceive, NothingOut
    <2>2. Role = "read"
      BY <2>1, I2cAssumption DEF Role
    <2>3. /\ WireTypeOK' /\ NothingOut' /\ link' = "idle"
          /\ UNCHANGED <<cells, burning, faults, hit>>
      BY <1>1, <1>4, <2>1, <2>2, ByteGiven
    <2> QED BY <1>2, <1>3, <1>4, <1>9, <2>3
            DEF StockHigh, StockLow, StockData, StockHold, StockReceive, StockRest, Zeroed
  <1> QED BY <1>1, <1>5, <1>6, <1>7, <1>8, <1>9

LEMMA StockFaulty ==
    ASSUME StockTyped, Faulty, UNCHANGED <<Rev22!commands, worn>>
    PROVE  StockTyped'
  <1> USE DEF StockTyped, StockCall
  <1>1. out # None /\ pc \in {"high", "low", "data", "receive"} /\ WireTypeOK
    BY Orders22 DEF Faulty, StockRest, StockHold, NothingOut, Rev22!TypeOK
  <1>2. UNCHANGED <<cmd, step, pc, byte2C, passed, zapped, running, worn>>
    BY DEF Rev22!commands
  <1>3. /\ WireTypeOK' /\ NothingOut' /\ sta' \in {sta, sta \cup {"ERROR"}}
        /\ UNCHANGED <<dati, ptr, cells, burning>>
    BY <1>1, FaultyByte
  <1>4. Rev22!TypeOK'
    BY <1>2, <1>3, Rev22Bus DEF Rev22!TypeOK
  <1>5. /\ pc # "receive" => "XMIT_DATA_EMPTY" \notin sta /\ "RCV_DATA_FULL" \notin sta
        /\ pc = "receive" => "RCV_DATA_FULL" \notin sta
    BY <1>1 DEF StockHigh, StockLow, StockData, StockReceive, StockRest, NothingOut
  <1> QED BY <1>1, <1>2, <1>3, <1>4, <1>5
          DEF StockHigh, StockLow, StockData, StockHold, StockReceive, StockRest, Zeroed

LEMMA StockProgrammed ==
    ASSUME StockTyped, burning # None, burning' = None, UNCHANGED <<registers, link, ptr, faults, hit, Rev22!commands>>,
           \/ cells' = [cells EXCEPT ![burning.at] = burning.now] /\ worn' = worn
           \/ cells' = cells /\ worn' = TRUE
    PROVE  StockTyped'
  <1> USE DEF StockTyped, StockCall
  <1>1. pc \in {"data", "hold"}
    BY DEF StockRest
  <1>2. UNCHANGED <<sta, adr, out, dati, link, ptr, cmd, step, pc, byte2C, passed, zapped, running,
                    Order, Rev22!Value>>
    BY DEF Rev22!commands, registers, Order, Rev22!Address, Rev22!Value, Rev22!Last, Rev22!HeaderByte,
       Rev22!Cells
  <1>3. Zeroing => Zeroing'
    <2>1. cells \in [Offsets -> Byte] /\ 0 \in Offsets
      BY Orders22, CellsNat DEF WireTypeOK
    <2> QED BY <1>2, <2>1 DEF Zeroing, Zeroed
  <1>4. WireTypeOK'
    <2>1. /\ cells' \in [Offsets -> Byte] /\ UNCHANGED <<faults, hit>>
      BY Orders22 DEF WireTypeOK
    <2> QED BY <1>2, <2>1, Orders22 DEF WireTypeOK
  <1>5. Rev22!TypeOK'
    <2>1. worn' \in BOOLEAN
      BY DEF Rev22!TypeOK
    <2> QED BY <1>2, <1>4, <2>1, Rev22Bus DEF Rev22!TypeOK
  <1> QED BY <1>1, <1>2, <1>3, <1>5
          DEF StockHigh, StockLow, StockData, StockHold, StockReceive, StockRest, NothingOut

LEMMA StockBegins ==
    ASSUME StockTyped, Rev22!i2c_begin, UNCHANGED worn
    PROVE  StockTyped'
  <1> USE DEF StockTyped, StockCall
  <1>1. /\ pc = "idle" /\ cmd # None /\ step <= Len(Rev22!Steps(cmd)) /\ NothingOut /\ burning = None
        /\ "RCV_DATA_FULL" \notin sta
    BY DEF Rev22!i2c_begin, StockRest
  <1>2. /\ pc' = "high" /\ out' = High(Order) /\ adr' = "write" /\ sta' \subseteq sta
        /\ {"XMIT_DATA_EMPTY", "STOP_WRITE"} \cap sta' = {}
        /\ UNCHANGED <<dati, part, faults, hit, cmd, step, byte2C, passed, zapped, running, worn>>
    BY Rev22Bus DEF Rev22!i2c_begin, Rev22!Start, Rev22!ClearStop, Order, Rev22!part, part
  <1>3. UNCHANGED <<Order, link, ptr, cells, burning>>
    BY <1>2 DEF Order, Rev22!Address, Rev22!Last, Rev22!HeaderByte, Rev22!Cells, part
  <1>4. Rev22!TypeOK'
    <2>1. WireTypeOK'
      BY <1>2, <1>3, Orders22 DEF WireTypeOK
    <2> QED BY <1>1, <1>2, <2>1, Rev22Bus DEF Rev22!TypeOK
  <1> QED BY <1>1, <1>2, <1>3, <1>4
          DEF StockHigh, StockLow, StockData, StockHold, StockReceive, StockRest, Zeroed

LEMMA StockSendsLow ==
    ASSUME StockTyped, Rev22!SendsLow, UNCHANGED worn
    PROVE  StockTyped'
  <1> USE DEF StockTyped, StockCall
  <1>1. /\ pc = "high" /\ NothingOut /\ link = "low" /\ ptr = High(Order) * Radix
        /\ "STOP_WRITE" \notin sta /\ "RCV_DATA_FULL" \notin sta /\ burning = None
    BY DEF Rev22!SendsLow, StockHigh, StockRest
  <1>2. /\ pc' = "low" /\ out' = Low(Order) /\ adr' = None /\ sta' = sta \ {"XMIT_DATA_EMPTY"}
        /\ UNCHANGED <<dati, part, faults, hit, cmd, step, byte2C, passed, zapped, running, worn>>
    BY <1>1, Rev22Bus DEF Rev22!SendsLow, Rev22!Send, Order, NothingOut, Rev22!part, part
  <1>3. UNCHANGED <<Order, link, ptr, cells, burning>>
    BY <1>2 DEF Order, Rev22!Address, Rev22!Last, Rev22!HeaderByte, Rev22!Cells, part
  <1>4. Rev22!TypeOK'
    <2>1. WireTypeOK'
      BY <1>2, <1>3, Orders22 DEF WireTypeOK
    <2> QED BY <1>1, <1>2, <2>1, Rev22Bus DEF Rev22!TypeOK, StockRest
  <1> QED BY <1>1, <1>2, <1>3, <1>4
          DEF StockHigh, StockLow, StockData, StockHold, StockReceive, StockRest, Zeroed

LEMMA StockSendsData ==
    ASSUME StockTyped, Rev22!i2c_eeprom_write3, UNCHANGED worn
    PROVE  StockTyped'
  <1> USE DEF StockTyped, StockCall
  <1>1. /\ pc = "low" /\ NothingOut /\ link = "data" /\ ptr = Order
        /\ "RCV_DATA_FULL" \notin sta /\ burning = None
    BY DEF Rev22!i2c_eeprom_write3, StockLow, StockRest
  <1>2. /\ pc' = "data" /\ out' = Rev22!Value /\ adr' = None
        /\ sta' = (sta \cup {"STOP_WRITE"}) \ {"XMIT_DATA_EMPTY"}
        /\ UNCHANGED <<dati, part, faults, hit, cmd, step, byte2C, passed, zapped, running, worn>>
    BY <1>1 DEF Rev22!i2c_eeprom_write3, Rev22!Send, NothingOut, Rev22!part, part
  <1>3. UNCHANGED <<Order, Rev22!Value, link, ptr, cells, burning>>
    BY <1>2 DEF Order, Rev22!Address, Rev22!Value, Rev22!Last, Rev22!HeaderByte, Rev22!Cells, part
  <1>4. Rev22!TypeOK'
    <2>1. WireTypeOK'
      BY <1>2, <1>3, Orders22 DEF WireTypeOK, Flags
    <2> QED BY <1>1, <1>2, <2>1, Rev22Bus DEF Rev22!TypeOK, StockRest
  <1> QED BY <1>1, <1>2, <1>3, <1>4
          DEF StockHigh, StockLow, StockData, StockHold, StockReceive, StockRest, Zeroed

LEMMA StockHolds ==
    ASSUME StockTyped, Rev22!HoldBegins \/ Rev22!HoldEnds, UNCHANGED worn
    PROVE  StockTyped'
  <1> USE DEF StockTyped, StockCall
  <1>1. UNCHANGED <<sta, adr, out, dati, link, ptr, cells, burning, faults, hit, cmd, byte2C,
                    passed, zapped, running, worn>>
    BY DEF Rev22!HoldBegins, Rev22!HoldEnds, Rev22!wire, Rev22!registers, Rev22!part
  <1>2. WireTypeOK'
    BY <1>1, Orders22 DEF WireTypeOK
  <1>3. NothingOut /\ Zeroing /\ cmd # None /\ step <= Len(Rev22!Steps(cmd)) /\ "RCV_DATA_FULL" \notin sta
    BY DEF Rev22!HoldBegins, Rev22!HoldEnds, StockData, StockHold, StockRest
  <1>4. CASE Rev22!HoldBegins
    <2>1. pc' = "hold" /\ step' = step
      BY <1>4 DEF Rev22!HoldBegins
    <2>2. Rev22!TypeOK'
      BY <1>1, <1>2, <1>3, <2>1, Rev22Bus DEF Rev22!TypeOK
    <2> QED BY <1>1, <1>3, <2>1, <2>2 DEF StockHigh, StockLow, StockData, StockHold, StockReceive, StockRest,
               Zeroing, Zeroed, NothingOut
  <1>5. CASE Rev22!HoldEnds
    <2>1. pc' = "idle" /\ step' = step + 1 /\ burning = None
      BY <1>5 DEF Rev22!HoldEnds, Rev22!HoldOver
    <2>2. step' \in 1 .. 4 /\ step' <= Len(Rev22!Steps(cmd)) + 1
      BY <1>3, <2>1, StepCount
    <2>3. Rev22!TypeOK'
      BY <1>1, <1>2, <1>3, <2>1, <2>2, Rev22Bus DEF Rev22!TypeOK
    <2>4. cmd = "invalidate" => Zeroed
      <3>1. None # [at |-> 0, now |-> 0]
        BY I2cAssumption, CellsNat
      <3> QED BY <1>3, <2>1, <3>1 DEF Zeroing
    <2> QED BY <1>1, <1>3, <2>1, <2>3, <2>4
            DEF StockHigh, StockLow, StockData, StockHold, StockReceive, StockRest, Zeroed, NothingOut
  <1> QED BY <1>4, <1>5

LEMMA StockReads ==
    ASSUME StockTyped, Rev22!i2c_eeprom_read_byte, UNCHANGED worn
    PROVE  StockTyped'
  <1> USE DEF StockTyped, StockCall
  <1>1. /\ pc = "low" /\ NothingOut /\ "RCV_DATA_FULL" \notin sta /\ burning = None
        /\ cmd # None /\ step <= Len(Rev22!Steps(cmd))
    BY DEF Rev22!i2c_eeprom_read_byte, StockLow, StockRest
  <1>2. /\ pc' = "receive" /\ out' = Clock /\ adr' = "read"
        /\ sta' = (sta \cup {"STOP_READ"}) \ {"XMIT_DATA_EMPTY"}
        /\ UNCHANGED <<dati, part, faults, hit, cmd, step, byte2C, passed, zapped, running, worn>>
    BY <1>1 DEF Rev22!i2c_eeprom_read_byte, Rev22!Start, Rev22!part, part
  <1>3. UNCHANGED <<link, ptr, cells, burning>>
    BY <1>2 DEF part
  <1>4. Rev22!TypeOK'
    <2>1. WireTypeOK'
      BY <1>2, <1>3, Orders22 DEF WireTypeOK, Flags
    <2> QED BY <1>1, <1>2, <2>1, Rev22Bus DEF Rev22!TypeOK
  <1>5. cmd = "selftest"
    <2> SUFFICES ASSUME cmd = "invalidate" PROVE FALSE
      BY <1>1, Orders22
    <2>1. step = 1
      BY <1>1, StepCount
    <2> QED BY <2>1, StepsOf DEF Rev22!i2c_eeprom_read_byte, Rev22!Op
  <1> QED BY <1>1, <1>2, <1>3, <1>4, <1>5
          DEF StockHigh, StockLow, StockData, StockHold, StockReceive, StockRest, Zeroed

LEMMA StockReceives ==
    ASSUME StockTyped, Rev22!Receives, UNCHANGED worn
    PROVE  StockTyped'
  <1> USE DEF StockTyped, StockCall
  <1>1. /\ pc = "receive" /\ cmd = "selftest" /\ NothingOut /\ link = "idle" /\ burning = None
        /\ step <= 3
    BY Orders22 DEF Rev22!Receives, StockReceive, StockRest
  <1>2. /\ pc' = "idle" /\ step' = step + 1 /\ out' = None /\ adr' = None
        /\ sta' = sta \ {"RCV_DATA_FULL"}
        /\ UNCHANGED <<dati, part, faults, hit, cmd, zapped, running, worn>>
    BY <1>1 DEF Rev22!Receives, Rev22!Fetch, NothingOut, Rev22!part, part
  <1>3. UNCHANGED <<link, ptr, cells, burning>>
    BY <1>2 DEF part
  <1>4. byte2C' \in Byte /\ passed' \in BOOLEAN
    BY Orders22, CellsNat, Rev22Same DEF Rev22!Receives, Rev22!Complement, Rev22!TypeOK, WireTypeOK, Byte
  <1>5. Rev22!TypeOK'
    <2>1. WireTypeOK'
      BY <1>2, <1>3, Orders22 DEF WireTypeOK
    <2> QED BY <1>1, <1>2, <1>4, <2>1, Rev22Bus, Rev22Same, Orders22 DEF Rev22!TypeOK
  <1> QED BY <1>1, <1>2, <1>3, <1>5
          DEF StockHigh, StockLow, StockData, StockHold, StockReceive, StockRest, Zeroed, NothingOut

LEMMA StockCommands ==
    ASSUME StockTyped, Rev22!Requests \/ (Rev22!evt_dispatch_epilogue /\ UNCHANGED worn)
    PROVE  StockTyped'
  <1> USE DEF StockTyped, StockCall
  <1>1. UNCHANGED <<sta, adr, out, dati, link, ptr, cells, burning, faults, hit, pc, byte2C,
                    running, worn>>
    BY DEF Rev22!Requests, Rev22!cmd11_eeprom_selftest, Rev22!cmd13_invalidate_boot_eeprom,
       Rev22!TakesUp, Rev22!evt_dispatch_epilogue, Rev22!wire, Rev22!registers, Rev22!part
  <1>2. WireTypeOK'
    BY <1>1, Orders22 DEF WireTypeOK
  <1>3. CASE Rev22!Requests
    <2>1. /\ cmd = None /\ running /\ cmd' \in {"selftest", "invalidate"} /\ step' = 1 /\ ~zapped' /\ ~passed'
      BY <1>3 DEF Rev22!Requests, Rev22!cmd11_eeprom_selftest, Rev22!cmd13_invalidate_boot_eeprom,
         Rev22!TakesUp
    <2>2. pc = "idle"
      BY <2>1 DEF StockRest, Rev22!TypeOK
    <2>3. passed' \in BOOLEAN /\ zapped' \in BOOLEAN
      BY <1>3 DEF Rev22!Requests, Rev22!cmd11_eeprom_selftest, Rev22!cmd13_invalidate_boot_eeprom,
         Rev22!TakesUp
    <2>4. 1 <= Len(Rev22!Steps(cmd')) + 1
      BY <2>1, StepsOf
    <2>5. Rev22!TypeOK'
      BY <1>1, <1>2, <2>1, <2>2, <2>3, <2>4, Rev22Bus DEF Rev22!TypeOK
    <2> QED BY <1>1, <2>1, <2>2, <2>5
            DEF StockHigh, StockLow, StockData, StockHold, StockReceive, StockRest, Zeroed, NothingOut
  <1>4. CASE Rev22!evt_dispatch_epilogue
    <2>1. /\ cmd # None /\ step > Len(Rev22!Steps(cmd)) /\ cmd' = None /\ step' = 1 /\ passed' = passed
          /\ zapped' = (cmd = "invalidate")
      BY <1>4 DEF Rev22!evt_dispatch_epilogue
    <2>2. pc = "idle" /\ running
      BY <2>1, Orders22 DEF StockRest, Rev22!TypeOK
    <2>3. zapped' => Zeroed
      <3>1. cmd = "invalidate" => step = 2
        BY <2>1, StepCount
      <3> QED BY <2>1, <2>2, <3>1 DEF StockRest
    <2>4. Rev22!TypeOK'
      BY <1>1, <1>2, <2>1, <2>2, Rev22Bus DEF Rev22!TypeOK
    <2> QED BY <1>1, <2>1, <2>2, <2>3, <2>4
            DEF StockHigh, StockLow, StockData, StockHold, StockReceive, StockRest, Zeroed, NothingOut
  <1> QED BY <1>3, <1>4

LEMMA StockPower ==
    ASSUME StockTyped, Rev22!PowerCycle
    PROVE  StockTyped'
  <1>1. WireTypeOK' /\ NothingOut' /\ burning' = None /\ sta' = {}
    BY Rev22Bus, Unpowered, Orders22 DEF Rev22!PowerCycle, StockTyped, WirePowerCut
  <1>2. /\ cmd' = None /\ step' = 1 /\ pc' = "idle" /\ byte2C' = 0 /\ passed' = FALSE /\ zapped' = FALSE
        /\ worn' = worn /\ running' \in BOOLEAN
    BY DEF Rev22!PowerCycle
  <1>3. Rev22!TypeOK'
    <2>1. byte2C' \in Rev22!Byte /\ worn' \in BOOLEAN /\ step' \in 1 .. 4
      BY <1>2, Rev22Same, CellsNat DEF StockTyped, Rev22!TypeOK
    <2> QED BY <1>1, <1>2, <2>1, Rev22Bus DEF Rev22!TypeOK
  <1> QED BY <1>1, <1>2, <1>3, I2cAssumption
          DEF StockTyped, StockCall, StockHigh, StockLow, StockData, StockHold, StockReceive, StockRest

LEMMA StockReflashed ==
    ASSUME StockTyped, Rev22!Reflashed
    PROVE  StockTyped'
  <1> USE DEF StockTyped, StockCall
  <1>1. /\ ~running /\ running' = TRUE /\ cells' = [cells EXCEPT ![0] = 1]
        /\ UNCHANGED <<sta, adr, out, dati, link, ptr, burning, faults, hit, worn, cmd, step, pc, byte2C,
                       passed, zapped>>
    BY DEF Rev22!Reflashed, Rev22!registers, Rev22!HeaderByte
  <1>2. pc = "idle" /\ ~zapped
    BY <1>1 DEF StockRest, Rev22!TypeOK
  <1>3. WireTypeOK'
    BY <1>1, Orders22, CellsNat DEF WireTypeOK
  <1>4. Rev22!TypeOK'
    BY <1>1, <1>3, Rev22Bus DEF Rev22!TypeOK
  <1> QED BY <1>1, <1>2, <1>4, CommandAssumption DEF StockHigh, StockLow, StockData, StockHold, StockReceive,
             StockRest, NothingOut

LEMMA StockStep ==
    ASSUME StockInv, [MCNext]_mcVars
    PROVE  StockInv'
  <1>1. CASE image = "rev22" /\ Stock(Rev22!Next)
    <2>1. StockTyped /\ image' = image
      BY <1>1 DEF Stock, program, StockInv, StockTyped
    <2>2. CASE Rev22!MainLoop
      BY <2>1, <2>2, StockBegins, StockSendsLow, StockSendsData, StockHolds, StockReads, StockReceives,
         StockCommands DEF Rev22!MainLoop, StockInv, StockTyped
    <2>3. CASE Rev22!Requests
      BY <2>1, <2>3, StockCommands DEF StockInv, StockTyped
    <2>4. CASE Rev22!OnTheBus(Rev22!Bus)
      <3>1. UNCHANGED <<Rev22!commands, worn>>
        BY <2>4 DEF Rev22!OnTheBus
      <3>2. Transfer \/ Faulty \/ Programmed
        BY <2>4, Rev22Bus DEF Rev22!OnTheBus, Rev22!Bus
      <3>3. Programmed => StockTyped'
        BY <2>1, <3>1, StockProgrammed DEF Programmed
      <3> QED BY <2>1, <3>1, <3>2, <3>3, StockTransfer, StockFaulty DEF StockInv, StockTyped
    <2>5. CASE Rev22!WearsOut
      <3>1. StockTyped'
        BY <2>1, <2>5, StockProgrammed DEF Rev22!WearsOut, Rev22!registers, registers
      <3> QED BY <3>1 DEF StockInv, StockTyped
    <2>6. CASE Rev22!PowerCycle \/ Rev22!Reflashed
      BY <2>1, <2>6, StockPower, StockReflashed DEF StockInv, StockTyped
    <2> QED BY <1>1, <2>2, <2>3, <2>4, <2>5, <2>6 DEF Stock, Rev22!Next
  <1>2. CASE Mboxfw(Next) \/ RamImage(RamNext)
    BY <1>2 DEF Mboxfw, RamImage, RamNext, Main, Writes, TakesAnswer, Unplugged, program, ramVars,
       StockInv
  <1>3. CASE UNCHANGED mcVars
    <2>1. UNCHANGED <<image, stock, pc, wire>>
      BY <1>3 DEF mcVars, ramVars, vars, routine, program
    <2>2. Rev22!TypeOK => Rev22!TypeOK'
      BY <2>1, Rev22Bus DEF Rev22!TypeOK, WireTypeOK, wire, registers, part, stock
    <2>3. StockCall => StockCall'
      BY <2>1 DEF StockCall, StockHigh, StockLow, StockData, StockHold, StockReceive, StockRest, NothingOut,
         Zeroing, Zeroed, Order, Rev22!Address, Rev22!Value, Rev22!Last, Rev22!HeaderByte, Rev22!Cells,
         wire, registers, part, stock
    <2> QED BY <2>1, <2>2, <2>3 DEF StockInv
  <1> QED BY <1>1, <1>2, <1>3 DEF MCNext, Stock

LEMMA StockInit == MCInit => StockInv
  <1> SUFFICES ASSUME MCInit, image = "rev22" PROVE Rev22!TypeOK /\ StockCall
    BY DEF StockInv
  <1>1. Rev22!Init
    BY DEF MCInit, RamInit
  <1>2. WireTypeOK
    <2>1. cells \in [Offsets -> Byte]
      BY <1>1, Rev22Same DEF Rev22!Init
    <2>2. WireInit
      BY <1>1, Rev22Bus DEF Rev22!Init
    <2>3. 0 \in 0 .. MaxFaults
      BY I2cAssumption
    <2> QED BY <2>1, <2>2, <2>3, CellsNat DEF WireInit, WireTypeOK
  <1>3. /\ cmd = None /\ step = 1 /\ pc = "idle" /\ byte2C = 0 /\ NothingOut /\ sta = {} /\ burning = None
        /\ passed = FALSE /\ zapped = FALSE /\ worn = FALSE /\ running = TRUE
    BY <1>1, Rev22Bus DEF Rev22!Init, WireInit, NothingOut
  <1>4. Rev22!TypeOK
    <2>1. byte2C \in Rev22!Byte /\ step \in 1 .. 4
      BY <1>3, Rev22Same, CellsNat
    <2> QED BY <1>2, <1>3, <2>1, Rev22Bus DEF Rev22!TypeOK
  <1> QED BY <1>3, <1>4, CommandAssumption DEF StockCall, StockHigh, StockLow, StockData, StockHold,
             StockReceive, StockRest

\* The stock image's own variables rest while another image runs.
OthersRest == image # "rev22" => ~zapped

LEMMA OthersRestStep ==
    /\ MCInit => OthersRest
    /\ OthersRest /\ [MCNext]_mcVars => OthersRest'
  <1>1. MCInit => OthersRest
    BY DEF MCInit, StockIdle, OthersRest
  <1>2. ASSUME OthersRest, MCNext PROVE OthersRest'
    BY <1>2 DEF MCNext, Mboxfw, RamImage, Stock, program, stock, RamNext, Main, Writes, TakesAnswer,
       Unplugged, ramVars, OthersRest
  <1>3. OthersRest /\ UNCHANGED mcVars => OthersRest'
    BY DEF OthersRest, mcVars, ramVars, program, stock
  <1> QED BY <1>1, <1>2, <1>3

\* Once event 13 of Rev 22 has come back the boot ROM finds the header's first
\* byte zero at every later power-up, unless that cell has worn out.
THEOREM NextBoot == MCSpec => []NextBootIsDfu
  <1>1. StockInv /\ OthersRest => NextBootIsDfu
    BY DEF StockInv, OthersRest, StockCall, StockRest, Zeroed, NextBootIsDfu, Rev22!NextBootIsDfu
  <1> QED BY <1>1, StockInit, StockStep, OthersRestStep, PTL DEF MCSpec
=============================================================================
