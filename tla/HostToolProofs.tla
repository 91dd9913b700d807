---------------------------- MODULE HostToolProofs ----------------------------
(***************************************************************************)
(* What the host tools put into the EEPROM: an image and a serial number.  *)
(*                                                                         *)
(* Of the image: nothing half-written boots, and a flash reported complete *)
(* is complete, for images of any number of records and any number of      *)
(* faults.  The checksum is what both rest on: it is written last by       *)
(* ramflash and set by the ROM with the last block promised, so the        *)
(* invariant follows how much of the image is in place at every step of    *)
(* either.                                                                 *)
(***************************************************************************)
EXTENDS Flashing, Provisioning, FiniteSetTheorems, TLAPS

-----------------------------------------------------------------------------
(* The image.                                                              *)

\* Both bytes stick and nobody runs ramflash on an EEPROM that boots.
Trusted == BytesStick /\ Careful

Idle == mode \notin {"invalidate", "halted", "ramflash", "sigkill"}

\* The counter of an image that runs from RAM starts at power-up.
Counted ==
    /\ Idle => at = 0
    /\ mode \in {"invalidate", "sigkill"} => at <= 1
    /\ mode = "ramflash" => at <= Blocks + 2
    /\ mode = "off" => rom = "IDLE" /\ pc = "idle"

\* A flasher at work has a device in DFU, with nothing of a session before.
Session ==
    /\ pc \in Running => InDfu
    /\ Stopped => block = 0 /\ attempt = 0 /\ restart = 0
    /\ pc \in {"send", "poll"} => block < Blocks
    /\ pc = "send" /\ rom = "IDLE" => block = 0
    /\ pc \in {"poll", "end"} => rom # "IDLE"
    /\ pc = "manifest" => rom \in {"MANIFEST", "ERROR"}
    /\ pc \in Running /\ what \notin {"new", "cut"} => mode = "dfu_ram"

\* The blocks before n are in the EEPROM, which is the one being programmed.
Programmed(n) == mode = "dfu_eeprom" => \A c \in Cells : c < n => payload[c] = "new"

\* The ROM's count of blocks: it ends with the last cell, or never.
Promised(n) == left + n \in {Blocks, Blocks + 1} /\ Programmed(n)

Storing ==
    InDfu =>
        /\ rom = "DNBUSY" => Promised(coming)
        /\ rom = "DNBUSY" /\ pc = "poll" => coming = block
        /\ rom = "DNBUSY" /\ pc \in {"send", "end"} => coming + 1 = block
        /\ rom = "DNLOAD_IDLE" /\ pc \in {"send", "end"} => Promised(block)
        /\ rom = "DNLOAD_IDLE" /\ pc = "poll" => Promised(block + 1)
        /\ rom = "DNLOAD_IDLE" /\ left = 0 /\ mode = "dfu_eeprom" => header.sum = "new"
        /\ rom = "MANIFEST" /\ mode = "dfu_eeprom" => header.sum = "new"

\* A checksum of the new image vouches for all of it.
SumVouches == header.sum = "new" => header.of = "new" /\ header.signed
                                    /\ ~header.updating /\ Whole("new")
OldStands == HeaderValid /\ header.of = "old" => Whole("old")

RamImages ==
    /\ pc \in Running /\ what = "ramflash" => ~HeaderValid
    /\ pc \in Running /\ what = "sigkill" => header.of = "old" /\ header.sum = "old"
    /\ mode = "sigkill" => header.of = "old" /\ header.sum = "old"
    /\ mode = "ramflash" /\ ~short =>
          /\ header.sum # "new" /\ ~HeaderValid
          /\ \A c \in Cells : c < at => payload[c] = "new"
          /\ at > Blocks => header.of = "new" /\ ~header.updating
          /\ at > Blocks + 1 => header.signed

Reported == CompleteInPlace /\ (pc = "complete" => rom # "DNBUSY")

IInv == TypeOK /\ Counted /\ Session /\ Storing /\ SumVouches /\ OldStands /\ RamImages /\ Reported

-----------------------------------------------------------------------------
(* What one write of ramflash does.                                        *)

HeaderType(h) == h \in [of : Images, sum : Images \cup {"zero"}, signed : BOOLEAN,
                        updating : BOOLEAN]

LEMMA PutEffect ==
    ASSUME NEW n \in 0 .. Blocks + 2, put(n)
    PROVE  \/ n < Blocks /\ payload' = [payload EXCEPT ![n] = "new"] /\ UNCHANGED header
           \/ /\ n = Blocks /\ UNCHANGED payload
              /\ header' = [header EXCEPT !.of = "new", !.updating = FALSE]
           \/ /\ n = Blocks + 1 /\ UNCHANGED payload
              /\ header' = [header EXCEPT !.signed = TRUE]
           \/ /\ n = Blocks + 2 /\ UNCHANGED payload
              /\ header' = [header EXCEPT !.sum = "new"]
  <1> USE FlashingAssumption DEF put, WriteOrder
  <1>1. CASE n < Blocks
    <2>1. n % Blocks = n
      BY <1>1
    <2> QED
      BY <1>1, <2>1
  <1>2. CASE n = Blocks
    BY <1>2
  <1>3. CASE n = Blocks + 1
    BY <1>3
  <1>4. CASE n = Blocks + 2
    BY <1>4
  <1> QED
    BY <1>1, <1>2, <1>3, <1>4

LEMMA PutTypes ==
    ASSUME TypeOK, NEW n \in 0 .. Blocks + 2, put(n)
    PROVE  HeaderType(header') /\ payload' \in [Cells -> Images]
  <1> USE FlashingAssumption DEF TypeOK, HeaderType, Images, Cells
  <1>1. CASE n < Blocks
    <2>1. payload' = [payload EXCEPT ![n] = "new"] /\ UNCHANGED header
      BY <1>1, PutEffect
    <2> QED
      BY <2>1
  <1>2. CASE n >= Blocks
    <2>1. UNCHANGED payload
      BY <1>2, PutEffect
    <2>2. \/ header' = [header EXCEPT !.of = "new", !.updating = FALSE]
          \/ header' = [header EXCEPT !.signed = TRUE]
          \/ header' = [header EXCEPT !.sum = "new"]
      BY <1>2, PutEffect
    <2>3. HeaderType(header)
      OBVIOUS
    <2>4. ASSUME header' = [header EXCEPT !.of = "new", !.updating = FALSE]
          PROVE  HeaderType(header')
      BY <2>3, <2>4
    <2>5. ASSUME header' = [header EXCEPT !.signed = TRUE]
          PROVE  HeaderType(header')
      BY <2>3, <2>5
    <2>6. ASSUME header' = [header EXCEPT !.sum = "new"]
          PROVE  HeaderType(header')
      BY <2>3, <2>6
    <2>7. payload' \in [Cells -> Images]
      BY <2>1
    <2> QED
      BY <2>2, <2>4, <2>5, <2>6, <2>7
  <1> QED
    BY <1>1, <1>2

LEMMA PlugKeeps ==
    ASSUME IInv, Trusted, Plug
    PROVE  IInv'
  <1> USE FlashingAssumption DEF IInv, Trusted, Plug, Boots, eeprom, dfu, host, count,
        vars, Images, Cells, Tools, Files, Running, Stopped, InDfu, Idle, HeaderValid,
        Whole, Programmed, Promised
  <1>1. TypeOK'
    BY DEF TypeOK, Counted, Session, Storing
  <1>2. Counted'
    BY DEF TypeOK, Counted
  <1>3. Session'
    BY DEF TypeOK, Counted, Session
  <1>4. Storing'
    BY DEF TypeOK, Counted, Session, Storing, SumVouches
  <1>5. SumVouches'
    BY DEF TypeOK, Counted, Session, Storing, SumVouches, RamImages
  <1>6. OldStands'
    BY DEF TypeOK, Counted, Session, SumVouches, RamImages, OldStands
  <1>7. RamImages'
    BY DEF TypeOK, Counted, Session, SumVouches, RamImages, OldStands
  <1>8. Reported'
    BY DEF TypeOK, Counted, Session, Storing, SumVouches, Reported, CompleteInPlace
  <1> QED
    BY <1>1, <1>2, <1>3, <1>4, <1>5, <1>6, <1>7, <1>8 DEF IInv

LEMMA PlugShortedKeeps ==
    ASSUME IInv, Trusted, PlugShorted
    PROVE  IInv'
  <1> USE FlashingAssumption DEF IInv, Trusted, PlugShorted, eeprom, dfu, host, count,
        vars, Images, Cells, Tools, Files, Running, Stopped, InDfu, Idle, HeaderValid,
        Whole, Programmed, Promised
  <1>1. TypeOK'
    BY DEF TypeOK, Counted, Session, Storing
  <1>2. Counted'
    BY DEF TypeOK, Counted
  <1>3. Session'
    BY DEF TypeOK, Counted, Session
  <1>4. Storing'
    BY DEF TypeOK, Counted, Session, Storing, SumVouches
  <1>5. SumVouches'
    BY DEF TypeOK, Counted, Session, Storing, SumVouches, RamImages
  <1>6. OldStands'
    BY DEF TypeOK, Counted, Session, SumVouches, RamImages, OldStands
  <1>7. RamImages'
    BY DEF TypeOK, Counted, Session, SumVouches, RamImages, OldStands
  <1>8. Reported'
    BY DEF TypeOK, Counted, Session, Storing, SumVouches, Reported, CompleteInPlace
  <1> QED
    BY <1>1, <1>2, <1>3, <1>4, <1>5, <1>6, <1>7, <1>8 DEF IInv

LEMMA RemoveShortKeeps ==
    ASSUME IInv, Trusted, RemoveShort
    PROVE  IInv'
  <1> USE FlashingAssumption DEF IInv, Trusted, RemoveShort, eeprom, dfu, host, count,
        vars, Images, Cells, Tools, Files, Running, Stopped, InDfu, Idle, HeaderValid,
        Whole, Programmed, Promised
  <1>1. TypeOK'
    <2>1. short' \in BOOLEAN
      BY Zenon
    <2> QED
      BY <2>1 DEF TypeOK
  <1>2. Counted'
    BY DEF TypeOK, Counted
  <1>3. Session'
    BY DEF TypeOK, Counted, Session
  <1>4. Storing'
    BY DEF TypeOK, Counted, Session, Storing, SumVouches
  <1>5. SumVouches'
    BY DEF TypeOK, Counted, Session, Storing, SumVouches, RamImages
  <1>6. OldStands'
    BY DEF TypeOK, Counted, Session, SumVouches, RamImages, OldStands
  <1>7. RamImages'
    BY DEF TypeOK, Counted, Session, SumVouches, RamImages, OldStands
  <1>8. Reported'
    BY DEF TypeOK, Counted, Session, Storing, SumVouches, Reported, CompleteInPlace
  <1> QED
    BY <1>1, <1>2, <1>3, <1>4, <1>5, <1>6, <1>7, <1>8 DEF IInv

LEMMA UnplugKeeps ==
    ASSUME IInv, Trusted, Unplug
    PROVE  IInv'
  <1> USE FlashingAssumption DEF IInv, Trusted, Unplug, PowerOff, Returns, Clear, eeprom,
        dfu, host, count, vars, Images, Cells, Tools, Files, Running, Stopped, InDfu,
        Idle, HeaderValid, Whole, Programmed, Promised
  <1>1. TypeOK'
    BY DEF TypeOK, Counted, Session, Storing
  <1>2. Counted'
    BY DEF TypeOK, Counted
  <1>3. Session'
    BY DEF TypeOK, Counted, Session
  <1>4. Storing'
    BY DEF TypeOK, Counted, Session, Storing, SumVouches
  <1>5. SumVouches'
    BY DEF TypeOK, Counted, Session, Storing, SumVouches, RamImages
  <1>6. OldStands'
    BY DEF TypeOK, Counted, Session, SumVouches, RamImages, OldStands
  <1>7. RamImages'
    BY DEF TypeOK, Counted, Session, SumVouches, RamImages, OldStands
  <1>8. Reported'
    BY DEF TypeOK, Counted, Session, Storing, SumVouches, Reported, CompleteInPlace
  <1> QED
    BY <1>1, <1>2, <1>3, <1>4, <1>5, <1>6, <1>7, <1>8 DEF IInv

LEMMA PowerCutKeeps ==
    ASSUME IInv, Trusted, PowerCut
    PROVE  IInv'
  <1> USE FlashingAssumption DEF IInv, Trusted, PowerCut, PowerOff, Returns, Clear, Fault,
        eeprom, dfu, host, count, vars, Images, Cells, Tools, Files, Running, Stopped,
        InDfu, Idle, HeaderValid, Whole, Programmed, Promised
  <1>1. TypeOK'
    BY DEF TypeOK, Counted, Session, Storing
  <1>2. Counted'
    BY DEF TypeOK, Counted
  <1>3. Session'
    BY DEF TypeOK, Counted, Session
  <1>4. Storing'
    BY DEF TypeOK, Counted, Session, Storing, SumVouches
  <1>5. SumVouches'
    BY DEF TypeOK, Counted, Session, Storing, SumVouches, RamImages
  <1>6. OldStands'
    BY DEF TypeOK, Counted, Session, SumVouches, RamImages, OldStands
  <1>7. RamImages'
    BY DEF TypeOK, Counted, Session, SumVouches, RamImages, OldStands
  <1>8. Reported'
    BY DEF TypeOK, Counted, Session, Storing, SumVouches, Reported, CompleteInPlace
  <1> QED
    BY <1>1, <1>2, <1>3, <1>4, <1>5, <1>6, <1>7, <1>8 DEF IInv

LEMMA EnterDfuKeeps ==
    ASSUME IInv, Trusted, EnterDfu
    PROVE  IInv'
  <1> USE FlashingAssumption DEF IInv, Trusted, EnterDfu, eeprom, dfu, host, count, vars,
        Images, Cells, Tools, Files, Running, Stopped, InDfu, Idle, HeaderValid, Whole,
        Programmed, Promised
  <1>1. TypeOK'
    BY DEF TypeOK, Counted, Session, Storing
  <1>2. Counted'
    BY DEF TypeOK, Counted
  <1>3. Session'
    BY DEF TypeOK, Counted, Session
  <1>4. Storing'
    BY DEF TypeOK, Counted, Session, Storing, SumVouches
  <1>5. SumVouches'
    BY DEF TypeOK, Counted, Session, Storing, SumVouches, RamImages
  <1>6. OldStands'
    BY DEF TypeOK, Counted, Session, SumVouches, RamImages, OldStands
  <1>7. RamImages'
    BY DEF TypeOK, Counted, Session, SumVouches, RamImages, OldStands
  <1>8. Reported'
    BY DEF TypeOK, Counted, Session, Storing, SumVouches, Reported, CompleteInPlace
  <1> QED
    BY <1>1, <1>2, <1>3, <1>4, <1>5, <1>6, <1>7, <1>8 DEF IInv

LEMMA InvalidatesKeeps ==
    ASSUME IInv, Trusted, Invalidates
    PROVE  IInv'
  <1> USE FlashingAssumption DEF IInv, Trusted, Invalidates, Fault, eeprom, dfu, host,
        count, vars, Images, Cells, Tools, Files, Running, Stopped, InDfu, Idle,
        HeaderValid, Whole, Programmed, Promised
  <1>1. TypeOK'
    BY DEF TypeOK, Counted, Session, Storing
  <1>2. Counted'
    BY DEF TypeOK, Counted
  <1>3. Session'
    BY DEF TypeOK, Counted, Session
  <1>4. Storing'
    BY DEF TypeOK, Counted, Session, Storing, SumVouches
  <1>5. SumVouches'
    BY DEF TypeOK, Counted, Session, Storing, SumVouches, RamImages
  <1>6. OldStands'
    BY DEF TypeOK, Counted, Session, SumVouches, RamImages, OldStands
  <1>7. RamImages'
    BY DEF TypeOK, Counted, Session, SumVouches, RamImages, OldStands
  <1>8. Reported'
    BY DEF TypeOK, Counted, Session, Storing, SumVouches, Reported, CompleteInPlace
  <1> QED
    BY <1>1, <1>2, <1>3, <1>4, <1>5, <1>6, <1>7, <1>8 DEF IInv

LEMMA RamflashKeeps ==
    ASSUME IInv, Trusted, ramflash
    PROVE  IInv'
  <1> USE FlashingAssumption DEF IInv, Trusted, ramflash, eeprom, dfu, host, count, vars,
        Images, Cells, Tools, Files, Running, Stopped, InDfu, Idle, HeaderValid, Whole,
        Programmed, Promised
  <1>0. at \in 0 .. Blocks + 2 /\ at' = at + 1 /\ UNCHANGED short
    BY DEF TypeOK, Counted
  <1>p. \/ ~short /\ put(at)
        \/ short /\ UNCHANGED eeprom
    OBVIOUS
  <1>h. header \in [of : Images, sum : Images \cup {"zero"}, signed : BOOLEAN,
                    updating : BOOLEAN] /\ payload \in [Cells -> Images]
    BY DEF TypeOK
  <1>r. ~short => /\ header.sum # "new" /\ ~HeaderValid
                  /\ \A c \in Cells : c < at => payload[c] = "new"
                  /\ at > Blocks => header.of = "new" /\ ~header.updating
                  /\ at > Blocks + 1 => header.signed
    BY DEF RamImages
  <1>1. TypeOK'
    <2>1. HeaderType(header') /\ payload' \in [Cells -> Images]
      BY <1>0, <1>p, PutTypes DEF TypeOK, HeaderType
    <2>2. at' \in 0 .. Blocks + 3 /\ mode' \in {"ramflash", "halted"}
      BY <1>0
    <2> QED
      BY <2>1, <2>2 DEF TypeOK, HeaderType
  <1>2. Counted'
    BY DEF TypeOK, Counted
  <1>3. Session'
    BY DEF TypeOK, Counted, Session
  <1>4. Storing'
    BY DEF TypeOK, Counted, Session, Storing, SumVouches
  <1>5. SumVouches' /\ OldStands' /\ RamImages'
    <2>1. CASE short
      BY <1>0, <1>p, <2>1 DEF SumVouches, OldStands, RamImages, Session
    <2>2. CASE ~short /\ at < Blocks
      <3>1. payload' = [payload EXCEPT ![at] = "new"] /\ UNCHANGED header
        BY <1>0, <1>p, <2>2, PutEffect
      <3> QED
        BY <1>0, <1>h, <1>r, <2>2, <3>1 DEF SumVouches, OldStands, RamImages, Session
    <2>3. CASE ~short /\ at = Blocks
      <3>1. header' = [header EXCEPT !.of = "new", !.updating = FALSE] /\ UNCHANGED payload
        BY <1>0, <1>p, <2>3, PutEffect
      <3> QED
        BY <1>0, <1>h, <1>r, <2>3, <3>1 DEF SumVouches, OldStands, RamImages, Session
    <2>4. CASE ~short /\ at = Blocks + 1
      <3>1. header' = [header EXCEPT !.signed = TRUE] /\ UNCHANGED payload
        BY <1>0, <1>p, <2>4, PutEffect
      <3> QED
        BY <1>0, <1>h, <1>r, <2>4, <3>1 DEF SumVouches, OldStands, RamImages, Session
    <2>5. CASE ~short /\ at = Blocks + 2
      <3>1. header' = [header EXCEPT !.sum = "new"] /\ UNCHANGED payload
        BY <1>0, <1>p, <2>5, PutEffect
      <3> QED
        BY <1>0, <1>h, <1>r, <2>5, <3>1 DEF SumVouches, OldStands, RamImages, Session
    <2> QED
      BY <1>0, <2>1, <2>2, <2>3, <2>4, <2>5
  <1>8. Reported'
    BY DEF TypeOK, Counted, Session, Storing, SumVouches, Reported, CompleteInPlace
  <1> QED
    BY <1>1, <1>2, <1>3, <1>4, <1>5, <1>8 DEF IInv

LEMMA SigkillKeeps ==
    ASSUME IInv, Trusted, sigkill
    PROVE  IInv'
  <1> USE FlashingAssumption DEF IInv, Trusted, sigkill, Fault, eeprom, dfu, host, count,
        vars, Images, Cells, Tools, Files, Running, Stopped, InDfu, Idle, HeaderValid,
        Whole, Programmed, Promised
  <1>1. TypeOK'
    <2>1. HeaderType(header')
      BY DEF TypeOK, HeaderType
    <2>2. at' \in 0 .. Blocks + 3 /\ faults' \in 0 .. MaxFaults
      BY DEF TypeOK, Counted
    <2> QED
      BY <2>1, <2>2 DEF TypeOK, HeaderType
  <1>2. Counted'
    BY DEF TypeOK, Counted
  <1>3. Session'
    BY DEF TypeOK, Counted, Session
  <1>4. Storing'
    BY DEF TypeOK, Counted, Session, Storing, SumVouches
  <1>5. SumVouches'
    BY DEF TypeOK, Counted, Session, Storing, SumVouches, RamImages
  <1>6. OldStands'
    BY DEF TypeOK, Counted, Session, SumVouches, RamImages, OldStands
  <1>7. RamImages'
    BY DEF TypeOK, Counted, Session, SumVouches, RamImages, OldStands
  <1>8. Reported'
    BY DEF TypeOK, Counted, Session, Storing, SumVouches, Reported, CompleteInPlace
  <1> QED
    BY <1>1, <1>2, <1>3, <1>4, <1>5, <1>6, <1>7, <1>8 DEF IInv

LEMMA RomStoresKeeps ==
    ASSUME IInv, Trusted, RomStores
    PROVE  IInv'
  <1> USE FlashingAssumption DEF IInv, Trusted, RomStores, Fault, eeprom, dfu, host,
        count, vars, Images, Cells, Tools, Files, Running, Stopped, InDfu, Idle,
        HeaderValid, Whole, Programmed, Promised
  <1>0. left \in Nat \ {0} /\ coming \in Cells /\ (left = 1 => coming = Blocks - 1)
    BY DEF TypeOK, Storing
  <1>1. TypeOK'
    <2>1. HeaderType(header')
      BY DEF TypeOK, HeaderType
    <2>2. payload' \in [Cells -> Images]
      BY DEF TypeOK
    <2>3. left' \in 0 .. Blocks + 1 /\ faults' \in 0 .. MaxFaults
      BY <1>0 DEF TypeOK
    <2> QED
      BY <2>1, <2>2, <2>3 DEF TypeOK, HeaderType
  <1>2. Counted'
    BY DEF TypeOK, Counted
  <1>3. Session'
    BY DEF TypeOK, Counted, Session
  <1>d. Promised(coming) /\ (pc = "poll" => coming = block)
        /\ (pc \in {"send", "end"} => coming + 1 = block)
    BY DEF Storing
  <1>4. Storing'
    <2>u. UNCHANGED <<mode, coming, pc, block>>
      OBVIOUS
    <2>1. CASE rom' \in {"HUNG", "ERROR"}
      BY <2>1 DEF Storing
    <2>2. CASE rom' = "DNLOAD_IDLE" /\ left' = left - 1
      <3>1. mode = "dfu_eeprom" => /\ payload' = [payload EXCEPT ![coming] = "new"]
                                   /\ header'.sum = IF left = 1 THEN "new" ELSE "zero"
        BY <2>2 DEF TypeOK
      <3>2. mode = "dfu_eeprom" => \A c \in Cells : c < coming + 1 => payload'[c] = "new"
        <4>1. payload \in [Cells -> Images] /\ Promised(coming)
          BY <1>d DEF TypeOK
        <4>2. ASSUME mode = "dfu_eeprom", NEW c \in Cells, c < coming + 1
              PROVE  payload'[c] = "new"
          <5>1. CASE c = coming
            BY <4>1, <4>2, <5>1, <3>1
          <5>2. CASE c # coming
            BY <4>1, <4>2, <5>2, <3>1, <1>0
          <5> QED
            BY <5>1, <5>2
        <4> QED
          BY <4>2
      <3>3. left' + (coming + 1) \in {Blocks, Blocks + 1}
        BY <1>0, <1>d, <2>2
      <3>4. left' = 0 /\ mode = "dfu_eeprom" => header'.sum = "new"
        BY <1>0, <2>2, <3>1
      <3>5. pc = "poll" => coming + 1 = block + 1
        BY <1>d
      <3>6. pc \in {"send", "end"} => coming + 1 = block
        BY <1>d
      <3>7. pc' = "poll" => Promised(block + 1)'
        BY <2>u, <3>2, <3>3, <3>5
      <3>8. pc' \in {"send", "end"} => Promised(block)'
        BY <2>u, <3>2, <3>3, <3>6
      <3> HIDE DEF Promised
      <3> QED
        BY <2>u, <2>2, <3>4, <3>7, <3>8 DEF Storing
    <2> QED
      BY <2>1, <2>2
  <1>5. SumVouches'
    <2>1. CASE UNCHANGED eeprom
      BY <2>1 DEF SumVouches
    <2>2. CASE /\ mode = "dfu_eeprom" /\ header.signed
               /\ payload' = [payload EXCEPT ![coming] = "new"]
               /\ header' = [header EXCEPT !.of = "new", !.updating = (left # 1),
                                           !.sum = IF left = 1 THEN "new" ELSE "zero"]
      <3>1. left = 1 => \A c \in Cells : payload'[c] = "new"
        BY <1>0, <1>d, <2>2 DEF TypeOK
      <3> QED
        BY <2>2, <3>1 DEF TypeOK, SumVouches
    <2> QED
      BY <2>1, <2>2
  <1>6. OldStands'
    BY DEF TypeOK, Counted, Session, SumVouches, RamImages, OldStands
  <1>7. RamImages'
    BY DEF TypeOK, Counted, Session, SumVouches, RamImages, OldStands
  <1>8. Reported'
    BY DEF TypeOK, Counted, Session, Storing, SumVouches, Reported, CompleteInPlace
  <1> QED
    BY <1>1, <1>2, <1>3, <1>4, <1>5, <1>6, <1>7, <1>8 DEF IInv

LEMMA FlashKeeps ==
    ASSUME IInv, Trusted, NEW t \in Tools, NEW w \in Files, cmd_flash(t, w)
    PROVE  IInv'
  <1> USE FlashingAssumption DEF IInv, Trusted, cmd_flash, eeprom, dfu, host, count, vars,
        Images, Cells, Tools, Files, Running, Stopped, InDfu, Idle, HeaderValid, Whole,
        Programmed, Promised
  <1>1. TypeOK'
    BY DEF TypeOK, Counted, Session, Storing
  <1>2. Counted'
    BY DEF TypeOK, Counted
  <1>3. Session'
    BY DEF TypeOK, Counted, Session
  <1>4. Storing'
    BY DEF TypeOK, Counted, Session, Storing, SumVouches
  <1>5. SumVouches'
    BY DEF TypeOK, Counted, Session, Storing, SumVouches, RamImages
  <1>6. OldStands'
    BY DEF TypeOK, Counted, Session, SumVouches, RamImages, OldStands
  <1>7. RamImages'
    BY DEF TypeOK, Counted, Session, SumVouches, RamImages, OldStands
  <1>8. Reported'
    BY DEF TypeOK, Counted, Session, Storing, SumVouches, Reported, CompleteInPlace
  <1> QED
    BY <1>1, <1>2, <1>3, <1>4, <1>5, <1>6, <1>7, <1>8 DEF IInv

LEMMA SendsKeeps ==
    ASSUME IInv, Trusted, Sends
    PROVE  IInv'
  <1> USE FlashingAssumption DEF IInv, Trusted, Sends, Returns, Clear, Fault, Ready,
        eeprom, dfu, host, count, vars, Images, Cells, Tools, Files, Running, Stopped,
        InDfu, Idle, HeaderValid, Whole, Programmed, Promised
  <1>1. TypeOK'
    <2>1. coming' \in Cells /\ left' \in 0 .. Blocks + 1
      BY DEF TypeOK, Session
    <2>2. block' \in 0 .. Blocks /\ attempt' \in 0 .. 2 /\ restart' \in 0 .. 2
      BY DEF TypeOK
    <2> QED
      BY <2>1, <2>2 DEF TypeOK
  <1>2. Counted'
    BY DEF TypeOK, Counted
  <1>3. Session'
    BY DEF TypeOK, Counted, Session
  <1>4. Storing'
    BY DEF TypeOK, Counted, Session, Storing, SumVouches
  <1>5. SumVouches'
    BY DEF TypeOK, Counted, Session, Storing, SumVouches, RamImages
  <1>6. OldStands'
    BY DEF TypeOK, Counted, Session, SumVouches, RamImages, OldStands
  <1>7. RamImages'
    BY DEF TypeOK, Counted, Session, SumVouches, RamImages, OldStands
  <1>8. Reported'
    BY DEF TypeOK, Counted, Session, Storing, SumVouches, Reported, CompleteInPlace
  <1> QED
    BY <1>1, <1>2, <1>3, <1>4, <1>5, <1>6, <1>7, <1>8 DEF IInv

LEMMA PollsKeeps ==
    ASSUME IInv, Trusted, Polls
    PROVE  IInv'
  <1> USE FlashingAssumption DEF IInv, Trusted, Polls, Returns, Clear, Fault, NextBlock,
        eeprom, dfu, host, count, vars, Images, Cells, Tools, Files, Running, Stopped,
        InDfu, Idle, HeaderValid, Whole, Programmed, Promised
  <1>1. TypeOK'
    BY DEF TypeOK, Counted, Session, Storing
  <1>2. Counted'
    BY DEF TypeOK, Counted
  <1>3. Session'
    BY DEF TypeOK, Counted, Session
  <1>4. Storing'
    BY DEF TypeOK, Counted, Session, Storing, SumVouches
  <1>5. SumVouches'
    BY DEF TypeOK, Counted, Session, Storing, SumVouches, RamImages
  <1>6. OldStands'
    BY DEF TypeOK, Counted, Session, SumVouches, RamImages, OldStands
  <1>7. RamImages'
    BY DEF TypeOK, Counted, Session, SumVouches, RamImages, OldStands
  <1>8. Reported'
    BY DEF TypeOK, Counted, Session, Storing, SumVouches, Reported, CompleteInPlace
  <1> QED
    BY <1>1, <1>2, <1>3, <1>4, <1>5, <1>6, <1>7, <1>8 DEF IInv

LEMMA EndsKeeps ==
    ASSUME IInv, Trusted, Ends
    PROVE  IInv'
  <1> USE FlashingAssumption DEF IInv, Trusted, Ends, Returns, Clear, Fault, Ready,
        eeprom, dfu, host, count, vars, Images, Cells, Tools, Files, Running, Stopped,
        InDfu, Idle, HeaderValid, Whole, Programmed, Promised
  <1>1. TypeOK'
    BY DEF TypeOK, Counted, Session, Storing
  <1>2. Counted'
    BY DEF TypeOK, Counted
  <1>3. Session'
    BY DEF TypeOK, Counted, Session
  <1>4. Storing'
    BY DEF TypeOK, Counted, Session, Storing, SumVouches
  <1>5. SumVouches'
    BY DEF TypeOK, Counted, Session, Storing, SumVouches, RamImages
  <1>6. OldStands'
    BY DEF TypeOK, Counted, Session, SumVouches, RamImages, OldStands
  <1>7. RamImages'
    BY DEF TypeOK, Counted, Session, SumVouches, RamImages, OldStands
  <1>8. Reported'
    BY DEF TypeOK, Counted, Session, Storing, SumVouches, Reported, CompleteInPlace
  <1> QED
    BY <1>1, <1>2, <1>3, <1>4, <1>5, <1>6, <1>7, <1>8 DEF IInv

LEMMA ManifestsKeeps ==
    ASSUME IInv, Trusted, Manifests
    PROVE  IInv'
  <1> USE FlashingAssumption DEF IInv, Trusted, Manifests, Returns, Clear, Fault,
        Launches, Boots, GoesOn, eeprom, dfu, host, count, vars, Images, Cells, Tools,
        Files, Running, Stopped, InDfu, Idle, HeaderValid, Whole, Programmed, Promised
  <1>1. TypeOK'
    BY DEF TypeOK, Counted, Session, Storing
  <1>2. Counted'
    BY DEF TypeOK, Counted, Session
  <1>3. Session'
    BY DEF TypeOK, Counted, Session
  <1>4. Storing'
    BY DEF TypeOK, Counted, Session, Storing, SumVouches
  <1>5. SumVouches'
    BY DEF TypeOK, Counted, Session, Storing, SumVouches, RamImages
  <1>6. OldStands'
    BY DEF TypeOK, Counted, Session, SumVouches, RamImages, OldStands
  <1>7. RamImages'
    BY DEF TypeOK, Counted, Session, SumVouches, RamImages, OldStands
  <1>8. Reported'
    BY DEF TypeOK, Counted, Session, Storing, SumVouches, Reported, CompleteInPlace
  <1> QED
    BY <1>1, <1>2, <1>3, <1>4, <1>5, <1>6, <1>7, <1>8 DEF IInv

-----------------------------------------------------------------------------
(* The invariant, and what follows from it.                                *)

LEMMA Starts == Init => IInv
  <1> SUFFICES ASSUME Init PROVE IInv
    OBVIOUS
  <1> USE FlashingAssumption DEF Init, IInv, Images, Cells, Tools, Files, Running,
        Stopped, InDfu, Idle, HeaderValid, Whole
  <1>1. TypeOK
    <2>1. HeaderType(header)
      BY DEF HeaderType
    <2>2. payload \in [Cells -> Images] /\ coming \in Cells
      OBVIOUS
    <2>3. at \in 0 .. Blocks + 3 /\ left \in 0 .. Blocks + 1 /\ block \in 0 .. Blocks
          /\ attempt \in 0 .. 2 /\ restart \in 0 .. 2 /\ faults \in 0 .. MaxFaults
      OBVIOUS
    <2> QED
      BY <2>1, <2>2, <2>3 DEF TypeOK, HeaderType
  <1>2. Counted /\ Session /\ Storing
    BY DEF Counted, Session, Storing
  <1>3. SumVouches /\ OldStands /\ RamImages /\ Reported
    BY DEF SumVouches, OldStands, RamImages, Reported, CompleteInPlace
  <1> QED
    BY <1>1, <1>2, <1>3

LEMMA Keeps ==
    ASSUME Trusted, IInv, [Next]_vars
    PROVE  IInv'
  <1>1. CASE Device
    BY <1>1, InvalidatesKeeps, RamflashKeeps, SigkillKeeps, RomStoresKeeps DEF Device
  <1>2. CASE Flasher
    BY <1>2, SendsKeeps, PollsKeeps, EndsKeeps, ManifestsKeeps DEF Flasher
  <1>3. CASE Bench
    BY <1>3, PlugKeeps, PlugShortedKeeps, RemoveShortKeeps, UnplugKeeps, EnterDfuKeeps,
       FlashKeeps DEF Bench
  <1>4. CASE PowerCut
    BY <1>4, PowerCutKeeps
  <1>5. CASE UNCHANGED vars
    BY <1>5 DEF vars, eeprom, dfu, host, count, IInv, TypeOK, Counted, Session, Storing,
       SumVouches, OldStands, RamImages, Reported, CompleteInPlace, Idle, InDfu, Stopped,
       HeaderValid, Whole, Programmed, Promised
  <1> QED
    BY <1>1, <1>2, <1>3, <1>4, <1>5 DEF Next

LEMMA Invariant == ASSUME Trusted PROVE Spec => []IInv
  <1>1. IInv /\ [Next]_vars => IInv'
    BY Keeps
  <1> QED
    BY <1>1, Starts, PTL DEF Spec

\* A unit is only ever booted from an EEPROM that holds one image from end to
\* end, whatever the number of records and of faults (ramflash's order of
\* writes, the ROM's checksum, eeprom_invalidate_signature).
THEOREM NothingPartialBoots == ASSUME Trusted PROVE Spec => []NeverBootsPartial
  <1>1. IInv => NeverBootsPartial
    <2> SUFFICES ASSUME IInv, HeaderValid PROVE \E img \in Images : Whole(img)
      BY DEF NeverBootsPartial
    <2>1. header.of \in Images /\ header.sum = header.of
      BY DEF IInv, TypeOK, HeaderValid
    <2>2. header.of = "old" => Whole("old")
      BY DEF IInv, OldStands
    <2>3. header.of = "new" => Whole("new")
      BY <2>1 DEF IInv, SumVouches
    <2> QED
      BY <2>1, <2>2, <2>3 DEF Images
  <1> QED
    BY <1>1, Invariant, PTL

\* A flash that either tool reports complete left the new image, bootable, in
\* an EEPROM that could be read (cmd_flash and the ROM's end marker).
THEOREM CompleteIsInPlace == ASSUME Trusted PROVE Spec => []CompleteInPlace
  <1>1. IInv => CompleteInPlace
    BY DEF IInv, Reported
  <1> QED
    BY <1>1, Invariant, PTL

\* Every counter of the flashers, of the ROM and of the images that run from
\* RAM stays within its bound (cmd_flash's retries and restarts).
THEOREM FlashingTyped == ASSUME Trusted PROVE Spec => []TypeOK
  <1>1. IInv => TypeOK
    BY DEF IInv
  <1> QED
    BY <1>1, Invariant, PTL

-----------------------------------------------------------------------------
(* The serial number, for records of every length and contents.  Nothing   *)
(* is assumed of the checksum: the retry and the readback carry the two    *)
(* properties, and both rest on one test, that of g_prov_pending in        *)
(* PROV_WRITE and PROV_READ.                                               *)

Sending == t_pc \in {"write", "verify"}

RecordByte(c) == build_record(t_serial)[c]

\* The EEPROM is a function on the cells, and so is the latch's offset.
Addressed == DOMAIN record = RecordCells /\ g_prov_offset \in RecordCells

\* The main loop is inside a write only while the latch is full; the tool runs
\* only against the provisioning image, which serves no serial.
Phases ==
    /\ dev_pc \in {"loop", "i2c", "clear"}
    /\ dev_pc # "loop" => g_prov_pending
    /\ t_pc \in Asking => image = "provision"
    /\ image = "provision" => served = NoSerial
    /\ t_pc = "guard" => t_next = 0

\* While the tool sends, the latch holds a byte of this run's record -- a byte
\* an earlier run left there has been programmed before the first is sent --
\* and when the write is over it is in the part or has failed.
Latched ==
    Sending /\ g_prov_pending =>
        /\ g_prov_value = RecordByte(g_prov_offset)
        /\ dev_pc = "clear" => \/ record[g_prov_offset] = g_prov_value
                               \/ g_prov_offset \in failed

\* Once the tool has said "verified" nothing is on its way to the part.
Done ==
    t_pc = "done" => /\ ~g_prov_pending
                     /\ decode_record(record) = t_serial
                     /\ served \in {t_serial, NoSerial}

ProvInv == Addressed /\ Phases /\ Latched /\ Done /\ AcceptedInPlace

-----------------------------------------------------------------------------
LEMMA ProvInvInit == ProvInit => ProvInv
<1> SUFFICES ASSUME ProvInit PROVE ProvInv
  OBVIOUS
<1>1. 0 \in RecordCells
  BY ProvisioningAssumption, SMT DEF RecordCells, SERIAL_HDR_LEN
<1> QED
  BY <1>1
  DEF ProvInit, ProvInv, Addressed, Phases, Latched, Done, AcceptedInPlace, Sending,
      Asking

\* The device's three steps.
LEMMA MainKeeps == ASSUME ProvInv, main PROVE ProvInv'
<1> USE DEF ProvInv
<1>1. CASE prov_write_start
  BY <1>1
  DEF prov_write_start, latch, command, Addressed, Phases, Latched, Done,
      AcceptedInPlace,
      Sending, RecordByte
<1>2. CASE eeprom_write_byte
  <2>1. /\ dev_pc = "i2c" /\ dev_pc' = "clear" /\ g_prov_pending
        /\ UNCHANGED <<image, served, latch, command>>
    BY <1>2 DEF eeprom_write_byte, Phases
  <2>2. Addressed' /\ Phases' /\ Done'
    BY <1>2, <2>1 DEF eeprom_write_byte, Addressed, Phases, Done, latch, command
  <2>3. CASE UNCHANGED record /\ failed' = failed \cup {g_prov_offset}
    BY <2>1, <2>2, <2>3 DEF Latched, AcceptedInPlace, latch, command, Sending,
                            RecordByte
  <2>4. CASE record' = [record EXCEPT ![g_prov_offset] = g_prov_value] /\ UNCHANGED failed
    <3>1. record'[g_prov_offset] = g_prov_value
      BY <2>4 DEF Addressed
    <3>2. ASSUME NEW c, c # g_prov_offset, c \in RecordCells PROVE record'[c] = record[c]
      BY <2>4, <3>2 DEF Addressed
    <3>3. Latched'
      BY <2>1, <3>1 DEF Latched, latch, command, Sending, RecordByte
    <3>4. AcceptedInPlace'
      <4> SUFFICES ASSUME Sending, NEW c \in 0 .. t_next - 1
                   PROVE  \/ record'[c] = RecordByte(c)
                          \/ /\ g_prov_pending /\ g_prov_offset = c
                             /\ g_prov_value = RecordByte(c)
                          \/ c \in failed
        BY <2>1, <2>4 DEF AcceptedInPlace, Sending, RecordByte, latch, command
      <4>1. CASE c = g_prov_offset
        BY <2>1, <3>1, <4>1 DEF Latched
      <4>2. CASE c # g_prov_offset
        <5>1. record'[c] = record[c]
          BY <2>4, <4>2 DEF Addressed
        <5> QED
          BY <4>2, <5>1 DEF AcceptedInPlace, Sending, RecordByte
      <4> QED
        BY <4>1, <4>2
    <3> QED
      BY <2>2, <3>3, <3>4
  <2> QED
    BY <1>2, <2>3, <2>4 DEF eeprom_write_byte
<1>3. CASE prov_clear
  <2>1. /\ dev_pc = "clear" /\ dev_pc' = "loop" /\ g_prov_pending' = FALSE
        /\ UNCHANGED <<record, image, served, g_prov_offset, g_prov_value, command, failed>>
    BY <1>3 DEF prov_clear, ClearLatch
  <2>2. ~g_prov_pending'
    BY <2>1, Zenon
  <2>3. Addressed' /\ Phases' /\ Latched' /\ Done'
    BY <2>1, <2>2 DEF Addressed, Phases, Latched, Done, command
  <2>4. AcceptedInPlace'
    <3> SUFFICES ASSUME Sending, NEW c \in 0 .. t_next - 1
                 PROVE  record[c] = RecordByte(c) \/ c \in failed
      BY <2>1 DEF AcceptedInPlace, Sending, RecordByte, command
    <3>1. \/ record[c] = RecordByte(c) \/ c \in failed
          \/ g_prov_pending /\ g_prov_offset = c /\ g_prov_value = RecordByte(c)
      BY DEF AcceptedInPlace, Sending, RecordByte
    <3> QED
      BY <2>1, <3>1 DEF Latched
  <2> QED
    BY <2>3, <2>4
<1> QED
  BY <1>1, <1>2, <1>3 DEF main

\* The tool's steps.
LEMMA ToolKeeps ==
  ASSUME ProvInv,
         \/ Tool \/ GiveUp
         \/ \E s \in Serials, force \in BOOLEAN : cmd_write(s, force)
  PROVE  ProvInv'
<1> USE DEF ProvInv
<1>1. CASE \E s \in Serials, force \in BOOLEAN : cmd_write(s, force)
  BY <1>1
  DEF cmd_write, latch, device, Addressed, Phases, Latched, Done,
      AcceptedInPlace, Sending, Asking
<1>2. CASE check_existing
  <2>1. /\ t_pc = "guard" /\ ~g_prov_pending /\ t_pc' \in {"write", "refused"}
        /\ t_next' \in {t_next, 0}
        /\ UNCHANGED <<record, device, latch, t_serial, failed>>
    BY <1>2 DEF check_existing, ReadBusy, Exits
  <2>2. Addressed' /\ Phases' /\ Latched' /\ Done'
    BY <2>1 DEF Addressed, Phases, Latched, Done, Sending, Asking, latch, device
  <2>3. AcceptedInPlace'
    <3>1. t_next' = 0
      BY <2>1 DEF Phases
    <3> QED
      BY <3>1, SMT DEF AcceptedInPlace
  <2> QED
    BY <2>2, <2>3
<1>3. CASE prov_write_byte
  <2>1. /\ t_pc = "write" /\ ~g_prov_pending /\ dev_pc = "loop" /\ t_next \in RecordCells
        /\ g_prov_pending' = TRUE
        /\ g_prov_offset' = t_next /\ g_prov_value' = RecordByte(t_next)
        /\ UNCHANGED <<record, device, t_serial, failed>>
        /\ \/ t_next' = t_next + 1 /\ t_pc' \in {"write", "verify"}
           \/ t_pc' = "failed"
    BY <1>3 DEF prov_write_byte, WriteBusy, Phases, RecordByte, Exits
  <2>2. Addressed' /\ Phases' /\ Done' /\ Latched'
    BY <2>1 DEF Addressed, Phases, Done, Latched, Sending, Asking, device, RecordByte
  <2>3. AcceptedInPlace'
    <3> SUFFICES ASSUME Sending', NEW c \in 0 .. t_next' - 1
                 PROVE  \/ record[c] = RecordByte(c) \/ c \in failed
                        \/ /\ g_prov_pending' /\ g_prov_offset' = c
                           /\ g_prov_value' = RecordByte(c)
      BY <2>1 DEF AcceptedInPlace, Sending, RecordByte
    <3>1. g_prov_pending'
      BY <2>1, Zenon
    <3>2. t_next \in Int /\ t_next' = t_next + 1
      BY <2>1, ProvisioningAssumption DEF RecordCells, SERIAL_HDR_LEN, Sending
    <3>3. c = t_next \/ c \in 0 .. t_next - 1
      BY <3>2, SMT
    <3> QED
      BY <2>1, <3>1, <3>3 DEF AcceptedInPlace, Sending, RecordByte
  <2> QED
    BY <2>2, <2>3
<1>4. CASE verify
  <2>1. /\ t_pc = "verify" /\ ~g_prov_pending /\ dev_pc = "loop"
        /\ t_pc' = "done" => decode_record(record) = t_serial
        /\ t_pc' \in {"done", "failed"}
        /\ UNCHANGED <<record, device, latch, t_serial, failed>>
    BY <1>4 DEF verify, ReadBusy, ReadBack, Phases, Exits
  <2>2. Done'
    BY <2>1 DEF Done, Phases, Asking, latch, device, decode_record,
                Valid, Chars,
                ChecksumHolds, AllPrintable
  <2>3. Addressed' /\ Phases' /\ Latched' /\ AcceptedInPlace'
    BY <2>1 DEF Addressed, Phases, Latched, AcceptedInPlace, Sending, Asking,
                latch, device
  <2> QED
    BY <2>2, <2>3
<1>5. CASE GiveUp
  BY <1>5
  DEF GiveUp, Exits, latch, device, Addressed, Phases, Latched, Done,
      AcceptedInPlace, Sending, Asking
<1> QED
  BY <1>1, <1>2, <1>3, <1>4, <1>5 DEF Tool

LEMMA RestartKeeps ==
  ASSUME ProvInv, Restart
  PROVE  ProvInv'
<1> USE DEF ProvInv
<1>1. 0 \in RecordCells
  BY ProvisioningAssumption, SMT DEF RecordCells, SERIAL_HDR_LEN
<1>2. /\ g_prov_pending' = FALSE /\ g_prov_offset' = 0 /\ dev_pc' = "loop"
      /\ t_pc' \notin {"guard", "write", "verify"}
      /\ t_pc' = "done" => t_pc = "done"
      /\ DOMAIN record' = DOMAIN record
      /\ UNCHANGED t_serial
      /\ serialno_load(image')
  BY DEF Restart, Asking, Exits
<1>3. ~g_prov_pending'
  BY <1>2, Zenon
<1>4. image' = "provision" => served' = NoSerial
  BY <1>2 DEF serialno_load
<1>5. Done'
  <2> SUFFICES ASSUME t_pc' = "done" PROVE Done'
    BY DEF Done
  <2>1. t_pc = "done" /\ dev_pc = "loop"
    BY <1>2 DEF Phases, Done
  <2>2. UNCHANGED record
    BY <2>1 DEF Restart
  <2>3. decode_record(record') = t_serial
    BY <2>1, <2>2 DEF Done
  <2>4. served' \in {t_serial, NoSerial}
    BY <1>2, <2>3 DEF serialno_load
  <2> QED
    BY <1>2, <1>3, <2>3, <2>4 DEF Done
<1> QED
  BY <1>1, <1>2, <1>3, <1>4, <1>5
  DEF Addressed, Phases, Latched, AcceptedInPlace, Sending, Asking

LEMMA ProvStep == ProvInv /\ [ProvNext]_provVars => ProvInv'
<1> SUFFICES ASSUME ProvInv, [ProvNext]_provVars PROVE ProvInv'
  OBVIOUS
<1>1. CASE UNCHANGED provVars
  BY <1>1
  DEF provVars, device, latch, command, ProvInv, Addressed, Phases, Latched,
      Done, AcceptedInPlace, Sending, RecordByte
<1> QED
  BY <1>1, MainKeeps, ToolKeeps, RestartKeeps DEF ProvNext

\* Every byte the device has acknowledged is in the part or still in the latch,
\* unless its programming failed: neither the retry nor a run that follows a
\* failed one lets a byte be overtaken (the g_prov_pending test in PROV_WRITE).
THEOREM AcceptedBytesStay == ProvSpec => []AcceptedInPlace
<1>1. ProvInv => AcceptedInPlace
  BY DEF ProvInv
<1> QED
  BY <1>1, ProvInvInit, ProvStep, PTL DEF ProvSpec

\* When the tool has said "verified" the part holds the serial, and no later
\* boot serves another until the tool runs again (the g_prov_pending test in
\* PROV_READ; cmd_write's readback).
THEOREM VerifiedStays == ProvSpec => []VerifiedIsServed
<1>1. ProvInv => VerifiedIsServed
  BY DEF ProvInv, Done, VerifiedIsServed
<1> QED
  BY <1>1, ProvInvInit, ProvStep, PTL DEF ProvSpec

-----------------------------------------------------------------------------
(* A damaged record.  A record of one serial in part is refused for what   *)
(* its missing characters are, one that is off by a byte for its checksum: *)
(* the byte differs in some bit, which changes that bit's parity.          *)

\* The cells a record of n characters has its checksum over.
Summed(n) == 0 .. (SERIAL_HDR_LEN + n - 1) \ {XOR_OFFSET}

\* Bit k of the exclusive or of S.
Parity(e, S, k) == Cardinality({c \in S : Bit(e[c], k) = 1}) % 2

LEMMA SummedFinite ==
  ASSUME NEW n \in Nat, NEW T \in SUBSET Summed(n)
  PROVE  IsFiniteSet(T) /\ Cardinality(T) \in Nat
<1>1. IsFiniteSet(0 .. (SERIAL_HDR_LEN + n - 1))
  BY FS_Interval DEF SERIAL_HDR_LEN
<1>2. T \subseteq 0 .. (SERIAL_HDR_LEN + n - 1)
  BY DEF Summed
<1> QED
  BY <1>1, <1>2, FS_Subset, FS_CardinalityType

\* The exclusive or is a byte, with the parity of each bit.
LEMMA XorBits ==
  ASSUME NEW e, NEW n \in Nat
  PROVE  /\ XorOf(e, Summed(n)) \in Byte
         /\ \A k \in Bits : Bit(XorOf(e, Summed(n)), k) = Parity(e, Summed(n), k)
<1> DEFINE Odd == {k \in Bits : Parity(e, Summed(n), k) = 1}
<1>1. \A k \in Bits : Parity(e, Summed(n), k) \in {0, 1}
  <2> TAKE k \in Bits
  <2>1. Cardinality({c \in Summed(n) : Bit(e[c], k) = 1}) \in Nat
    <3>1. {c \in Summed(n) : Bit(e[c], k) = 1} \in SUBSET Summed(n)
      OBVIOUS
    <3> QED
      BY <3>1, SummedFinite
  <2> QED
    BY <2>1 DEF Parity
<1>2. PICK v \in Byte : \A k \in Bits : Bit(v, k) = IF k \in Odd THEN 1 ELSE 0
  <2>1. Odd \in SUBSET Bits
    OBVIOUS
  <2> QED
    BY <2>1, BitsAssumption
<1>3. \A k \in Bits : Bit(v, k) = Parity(e, Summed(n), k)
  BY <1>1, <1>2
<1> QED
  BY <1>3 DEF XorOf, Parity

\* What build_record makes: the magic, the length, the characters, and a
\* checksum with the parity of all of them.
LEMMA Built ==
  ASSUME NEW s \in Serials, NEW r, r = build_record(s)
  PROVE  /\ Len(s) \in 1 .. SERIAL_MAX_CHARS
         /\ DOMAIN r = 0 .. SERIAL_HDR_LEN + Len(s) - 1
         /\ DOMAIN r \subseteq RecordCells
         /\ r[0] = Magic /\ r[NCHAR] = Len(s)
         /\ \A c \in DOMAIN r : c >= SERIAL_HDR_LEN => r[c] = s[c - SERIAL_HDR_LEN + 1]
         /\ \A k \in Bits : Bit(r[XOR_OFFSET], k) = Parity(r, Summed(Len(s)), k)
         /\ \A c \in DOMAIN r : r[c] \in Byte
<1> DEFINE D == 0 .. SERIAL_HDR_LEN + Len(s) - 1
           Value(c) == CASE c = 0 -> Magic [] c = NCHAR -> Len(s) [] c = XOR_OFFSET -> 0
                         [] OTHER -> s[c - SERIAL_HDR_LEN + 1]
           Plain == [c \in D |-> Value(c)]
           sum == XorOf(Plain, D \ {XOR_OFFSET})
<1>1. Len(s) \in 1 .. SERIAL_MAX_CHARS /\ Len(s) \in Nat /\ s \in Seq(Printable)
      /\ SERIAL_MAX_CHARS \in Nat
  BY ProvisioningAssumption
<1>2. r = [Plain EXCEPT ![XOR_OFFSET] = sum]
  BY DEF build_record
<1>3. Value(0) = Magic
  BY DEF NCHAR, XOR_OFFSET
<1>4. Value(NCHAR) = Len(s)
  BY DEF NCHAR, XOR_OFFSET
<1>5. \A c \in D : c >= SERIAL_HDR_LEN => Value(c) = s[c - SERIAL_HDR_LEN + 1]
  BY <1>1 DEF NCHAR, XOR_OFFSET, SERIAL_HDR_LEN
<1> HIDE DEF Value
<1>6. D = DOMAIN r /\ D \ {XOR_OFFSET} = Summed(Len(s))
  BY <1>2 DEF Summed
<1>7. 0 \in D /\ NCHAR \in D /\ XOR_OFFSET \in D /\ 0 # XOR_OFFSET /\ NCHAR # XOR_OFFSET
  BY <1>1 DEF SERIAL_HDR_LEN, NCHAR, XOR_OFFSET
<1>8. /\ r[XOR_OFFSET] = sum
      /\ \A c \in D \ {XOR_OFFSET} : r[c] = Value(c) /\ Plain[c] = Value(c)
  BY <1>2, <1>7
<1>9. \A k \in Bits : Bit(sum, k) = Parity(r, Summed(Len(s)), k)
  <2> TAKE k \in Bits
  <2>1. Bit(sum, k) = Parity(Plain, Summed(Len(s)), k)
    BY <1>1, <1>6, XorBits
  <2>2. {c \in Summed(Len(s)) : Bit(Plain[c], k) = 1} = {c \in Summed(Len(s)) : Bit(r[c], k) = 1}
    BY <1>6, <1>8
  <2> QED
    BY <2>1, <2>2 DEF Parity
<1>10. \A c \in D : c >= SERIAL_HDR_LEN => r[c] = s[c - SERIAL_HDR_LEN + 1]
  <2> TAKE c \in D
  <2>1. c >= SERIAL_HDR_LEN => c \in D \ {XOR_OFFSET}
    BY <1>1 DEF SERIAL_HDR_LEN, XOR_OFFSET
  <2> QED
    BY <2>1, <1>5, <1>8
<1>11. DOMAIN r \subseteq RecordCells
  BY <1>1, <1>6 DEF RecordCells, SERIAL_HDR_LEN
<1>12. sum \in Byte
  BY <1>1, <1>6, XorBits
<1>13. \A c \in D : r[c] \in Byte
  <2> TAKE c \in D
  <2>1. CASE c = 0
    BY <2>1, <1>3, <1>7, <1>8, ProvisioningAssumption
  <2>2. CASE c = NCHAR
    <3>1. Len(s) \in Byte
      BY <1>1, ProvisioningAssumption
    <3> QED
      BY <2>2, <3>1, <1>4, <1>7, <1>8
  <2>3. CASE c = XOR_OFFSET
    BY <2>3, <1>8, <1>12
  <2>4. CASE c >= SERIAL_HDR_LEN
    <3>1. c - SERIAL_HDR_LEN + 1 \in 1 .. Len(s)
      BY <1>1, <2>4 DEF SERIAL_HDR_LEN
    <3>2. s[c - SERIAL_HDR_LEN + 1] \in Printable
      BY <1>1, <3>1
    <3> QED
      BY <2>4, <3>2, <1>10, ProvisioningAssumption
  <2> QED
    BY <1>1, <2>1, <2>2, <2>3, <2>4 DEF SERIAL_HDR_LEN, NCHAR, XOR_OFFSET
<1> QED
  BY <1>1, <1>3, <1>4, <1>6, <1>7, <1>8, <1>9, <1>10, <1>11, <1>13

\* What passes for a record and is of one serial in part is all of it.
LEMMA PartIsWhole ==
  ASSUME NEW e, NEW s \in Serials, Valid(e), PartOf(e, build_record(s))
  PROVE  Chars(e) = s
<1> DEFINE r == build_record(s)
<1>1. /\ Len(s) \in 1 .. SERIAL_MAX_CHARS
      /\ DOMAIN r = 0 .. SERIAL_HDR_LEN + Len(s) - 1
      /\ r[NCHAR] = Len(s)
      /\ \A c \in DOMAIN r : c >= SERIAL_HDR_LEN => r[c] = s[c - SERIAL_HDR_LEN + 1]
  BY Built
<1>2. e[NCHAR] \in 1 .. SERIAL_MAX_CHARS /\ AllPrintable(e)
  BY DEF Valid
<1>3. \A c \in RecordCells : c < SERIAL_HDR_LEN + e[NCHAR] =>
         e[c] = Erased \/ (c \in DOMAIN r /\ e[c] = r[c])
  BY DEF PartOf
<1> HIDE DEF r
<1>4. SERIAL_MAX_CHARS \in Nat
  BY ProvisioningAssumption
<1>5. e[NCHAR] = Len(s)
  <2>1. NCHAR \in RecordCells /\ NCHAR < SERIAL_HDR_LEN + e[NCHAR]
    BY <1>2, <1>4 DEF NCHAR, RecordCells, SERIAL_HDR_LEN
  <2>2. e[NCHAR] # Erased
    BY <1>2, ProvisioningAssumption
  <2> QED
    BY <1>1, <1>3, <2>1, <2>2
<1>6. ASSUME NEW i \in 1 .. Len(s) PROVE e[SERIAL_HDR_LEN + i - 1] = s[i]
  <2> DEFINE c == SERIAL_HDR_LEN + i - 1
  <2>1. /\ c \in RecordCells /\ c < SERIAL_HDR_LEN + e[NCHAR]
        /\ c >= SERIAL_HDR_LEN /\ c - SERIAL_HDR_LEN + 1 = i
    BY <1>1, <1>4, <1>5 DEF RecordCells, SERIAL_HDR_LEN
  <2>2. e[c] # Erased
    BY <1>2, <1>5, ProvisioningAssumption DEF AllPrintable
  <2>3. c \in DOMAIN r /\ e[c] = r[c]
    BY <1>3, <2>1, <2>2
  <2> QED
    BY <1>1, <2>1, <2>3
<1>7. s \in Seq(Printable)
  BY ProvisioningAssumption
<1>8. s = [i \in 1 .. Len(s) |-> s[i]]
  BY <1>7
<1> QED
  BY <1>5, <1>6, <1>8 DEF Chars

\* Of two sets of which one has one more element, one is even.
LEMMA OneMore ==
  ASSUME NEW S, NEW T, NEW d, IsFiniteSet(S), d \notin S, T = S \cup {d}
  PROVE  Cardinality(S) % 2 # Cardinality(T) % 2
<1>1. Cardinality(S) \in Nat /\ Cardinality(T) = Cardinality(S) + 1
  BY FS_AddElement, FS_CardinalityType
<1> QED
  BY <1>1

\* A record off by one byte has a checksum that does not hold.
LEMMA OffIsRefused ==
  ASSUME NEW e \in [RecordCells -> Byte], NEW s \in Serials, OneByteOff(e, build_record(s))
  PROVE  ~ChecksumHolds(e)
<1> SUFFICES ASSUME ChecksumHolds(e) PROVE FALSE
  OBVIOUS
<1> DEFINE r == build_record(s)
           S == Summed(Len(s))
           Ones(f, k) == {c \in S : Bit(f[c], k) = 1}
<1>1. /\ Len(s) \in Nat
      /\ DOMAIN r = 0 .. SERIAL_HDR_LEN + Len(s) - 1
      /\ DOMAIN r \subseteq RecordCells
      /\ r[NCHAR] = Len(s)
      /\ \A k \in Bits : Bit(r[XOR_OFFSET], k) = Parity(r, S, k)
      /\ \A c \in DOMAIN r : r[c] \in Byte
  BY Built, ProvisioningAssumption
<1>2. PICK d \in DOMAIN r \ {NCHAR} :
         /\ e[d] # r[d]
         /\ \A c \in DOMAIN r \ {d} : e[c] = r[c]
  BY DEF OneByteOff
<1> HIDE DEF r
<1>3. NCHAR \in DOMAIN r /\ XOR_OFFSET \in DOMAIN r /\ S = DOMAIN r \ {XOR_OFFSET}
  BY <1>1 DEF NCHAR, XOR_OFFSET, SERIAL_HDR_LEN, Summed
<1>4. e[NCHAR] = Len(s)
  BY <1>1, <1>2, <1>3
<1>5. \A k \in Bits : Bit(e[XOR_OFFSET], k) = Parity(e, S, k)
  BY <1>1, <1>4, XorBits DEF ChecksumHolds, Summed
<1>6. PICK k \in Bits : ~(Bit(e[d], k) = 1 <=> Bit(r[d], k) = 1)
  <2>1. e[d] \in Byte /\ r[d] \in Byte
    BY <1>1, <1>2
  <2> QED
    BY <1>2, <2>1, BitsAssumption
<1>7. Bit(e[XOR_OFFSET], k) = Cardinality(Ones(e, k)) % 2
      /\ Bit(r[XOR_OFFSET], k) = Cardinality(Ones(r, k)) % 2
  BY <1>1, <1>5 DEF Parity
<1>8. IsFiniteSet(Ones(e, k)) /\ IsFiniteSet(Ones(r, k))
  <2>1. Ones(e, k) \in SUBSET Summed(Len(s)) /\ Ones(r, k) \in SUBSET Summed(Len(s))
    OBVIOUS
  <2> QED
    BY <1>1, <2>1, SummedFinite
<1>9. CASE d = XOR_OFFSET
  <2>1. Ones(e, k) = Ones(r, k)
    BY <1>2, <1>3, <1>9
  <2> QED
    BY <1>6, <1>7, <1>9, <2>1
<1>10. CASE d # XOR_OFFSET
  <2>1. d \in S /\ \A c \in S \ {d} : e[c] = r[c]
    BY <1>2, <1>3, <1>10
  <2>2. e[XOR_OFFSET] = r[XOR_OFFSET]
    BY <1>2, <1>3, <1>10
  <2> HIDE DEF S
  <2>3. CASE Bit(e[d], k) = 1
    <3>1. d \notin Ones(r, k) /\ Ones(e, k) = Ones(r, k) \cup {d}
      BY <1>6, <2>1, <2>3
    <3> QED
      BY <1>7, <1>8, <2>2, <3>1, OneMore
  <2>4. CASE Bit(r[d], k) = 1
    <3>1. d \notin Ones(e, k) /\ Ones(r, k) = Ones(e, k) \cup {d}
      BY <1>6, <2>1, <2>4
    <3> QED
      BY <1>7, <1>8, <2>2, <3>1, OneMore
  <2> QED
    BY <1>6, <2>3, <2>4
<1> QED
  BY <1>9, <1>10

-----------------------------------------------------------------------------
\* A serial is served only while the part holds its record and nothing is on
\* its way there; what is written are bytes of a serial's record.
ServedInv ==
    /\ record \in [RecordCells -> Byte] /\ g_prov_value \in Byte
    /\ t_serial \in Serials
    /\ t_pc = "write" => t_next \in DOMAIN build_record(t_serial)
    /\ served # NoSerial => ~g_prov_pending /\ decode_record(record) = served

LEMMA ServedInit == ProvInit => ServedInv
<1> SUFFICES ASSUME ProvInit PROVE ServedInv
  OBVIOUS
<1>1. Erased \in Byte /\ 0 \in Byte
  BY ProvisioningAssumption
<1> QED
  BY <1>1 DEF ProvInit, ServedInv

LEMMA ServedStep ==
  ASSUME ProvInv, ServedInv, [ProvNext]_provVars
  PROVE  ServedInv'
<1> USE DEF ServedInv, ProvInv
<1>1. CASE prov_write_start
  BY <1>1 DEF prov_write_start, latch, command, decode_record, Valid, Chars,
              ChecksumHolds, AllPrintable
<1>2. CASE eeprom_write_byte
  BY <1>2 DEF eeprom_write_byte, latch, command, Phases
<1>3. CASE prov_clear
  BY <1>3 DEF prov_clear, ClearLatch, command, Phases
<1>4. CASE \E s \in Serials, force \in BOOLEAN : cmd_write(s, force)
  BY <1>4 DEF cmd_write, device, latch
<1>5. CASE check_existing
  <2>1. t_next = 0 /\ 0 \in DOMAIN build_record(t_serial)
    BY <1>5, Built, ProvisioningAssumption DEF check_existing, Phases, SERIAL_HDR_LEN
  <2> QED
    BY <1>5, <2>1 DEF check_existing, device, latch, Exits
<1>6. CASE prov_write_byte
  <2>1. /\ t_pc = "write" /\ UNCHANGED <<record, device, t_serial>>
        /\ g_prov_value' = build_record(t_serial)[t_next]
        /\ t_pc' = "write" => t_next' \in DOMAIN build_record(t_serial)
    BY <1>6 DEF prov_write_byte, Exits
  <2>2. served = NoSerial
    BY <2>1 DEF Phases, Asking
  <2>3. g_prov_value' \in Byte
    BY <2>1, Built
  <2> QED
    BY <2>1, <2>2, <2>3 DEF device
<1>7. CASE verify \/ GiveUp
  BY <1>7 DEF verify, GiveUp, device, latch, Exits
<1>8. CASE Restart
  <2>1. record' \in [RecordCells -> Byte]
    BY <1>8 DEF Restart
  <2>2. 0 \in Byte
    BY ProvisioningAssumption
  <2>3. served' # NoSerial => decode_record(record') = served'
    BY <1>8 DEF Restart, serialno_load
  <2>4. ~g_prov_pending' /\ g_prov_value' = 0 /\ UNCHANGED t_serial /\ t_pc' # "write"
    BY <1>8 DEF Restart, Asking, Exits
  <2> QED
    BY <2>1, <2>2, <2>3, <2>4
<1>9. CASE UNCHANGED provVars
  BY <1>9 DEF provVars, device, latch, command
<1> QED
  BY <1>1, <1>2, <1>3, <1>4, <1>5, <1>6, <1>7, <1>8, <1>9 DEF ProvNext, main, Tool

\* A record of one serial from which any bytes are missing makes a boot serve
\* that serial or none, and one that is off by a byte makes it serve none,
\* whatever failed, was cut short or was written before (serialno_load's checks).
THEOREM DamageIsRefused == ProvSpec => []DamageRefused
<1>1. ServedInv => DamageRefused
  <2> SUFFICES ASSUME ServedInv, NEW s \in Serials
               PROVE  /\ PartOf(record, build_record(s)) => served \in {s, NoSerial}
                      /\ OneByteOff(record, build_record(s)) => served = NoSerial
    BY DEF DamageRefused
  <2>1. served # NoSerial => Valid(record) /\ served = Chars(record)
    BY DEF ServedInv, decode_record
  <2>2. PartOf(record, build_record(s)) => served \in {s, NoSerial}
    BY <2>1, PartIsWhole
  <2>3. OneByteOff(record, build_record(s)) => served = NoSerial
    BY <2>1, OffIsRefused DEF ServedInv, Valid
  <2> QED
    BY <2>2, <2>3
<1>2. ProvInv /\ ServedInv /\ [ProvNext]_provVars => ServedInv'
  BY ServedStep
<1> QED
  BY <1>1, <1>2, ServedInit, ProvInvInit, ProvStep, PTL DEF ProvSpec
=============================================================================
