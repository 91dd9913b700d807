------------------------------- MODULE MCEeprom -------------------------------
(* The images that write the boot EEPROM, on one bus; the EEPROM holds, or    *)
(* the loader has put into RAM, one of them: mboxfw calling its routines, the *)
(* two RAM images carrying out their lists, and the stock firmware.  Bytes    *)
(* are bits and an address is two of them: four cells.                        *)
EXTENDS RamImages

VARIABLES cmd, step, byte2C, passed, zapped, worn, running   \* rev22's

stock   == <<cmd, step, byte2C, passed, zapped, worn, running>>
callers == <<call, left, got, answer, holds>>
mcVars  == <<ramVars, stock>>

Rev22 == INSTANCE StockEeprom

ASSUME CommandAssumption == None \notin {"selftest", "invalidate"}

\* The routines with calls and answers: those of mboxfw and the RAM images.
Mboxfw(A)   == image = "mboxfw" /\ A /\ UNCHANGED <<program, stock>>
RamImage(A) == image \in {"ramflash", "sigkill"} /\ A /\ UNCHANGED stock
Stock(A)    == image = "rev22" /\ A /\ UNCHANGED <<callers, program>>

StockIdle ==
    /\ cmd = None /\ step = 1 /\ byte2C = 0 /\ running = TRUE
    /\ passed = FALSE /\ zapped = FALSE /\ worn = FALSE

MCInit ==
    \/ RamInit /\ StockIdle
    \/ /\ image = "mboxfw" /\ Init /\ StockIdle
       /\ at = 0 /\ again = FALSE /\ lost = {}
    \/ /\ image = "rev22" /\ DriverInit /\ Rev22!Init
       /\ at = 0 /\ again = FALSE /\ lost = {}

MCNext == Mboxfw(Next) \/ RamImage(RamNext) \/ Stock(Rev22!Next)

\* The processor runs, a transfer takes its time, a program cycle ends.
MCSpec ==
    /\ MCInit /\ [][MCNext]_mcVars
    /\ WF_mcVars(Mboxfw(Routine)) /\ WF_mcVars(Stock(Rev22!MainLoop))
    /\ WF_mcVars(Mboxfw(BusOnly(Transfer))) /\ WF_mcVars(Stock(Rev22!OnTheBus(Transfer)))
    /\ WF_mcVars(Mboxfw(BusOnly(Programmed)))
    /\ WF_mcVars(Stock(Rev22!OnTheBus(Programmed) \/ Rev22!WearsOut))

-----------------------------------------------------------------------------
\* The routines keep their promise to their callers (eeprom.h:9-11): what a
\* write that answered 1 wrote survives a power cut from then on, and a read
\* that answered 1 got what the part holds.
Promise ==
    INSTANCE EepromByte WITH Nothing <- None,
        cells <- IF image = "rev22" THEN [o \in Offsets |-> 0] ELSE cells
KeepsPromise == Promise!AbstractSpec

\* After event 13 the next power-up is the boot ROM's (StockEeprom).
NextBootIsDfu == Rev22!NextBootIsDfu

\* A wait ends: in mboxfw whatever the part does, by wait_bit's bound; in the
\* stock routines, which have none and begin a call with the flags the last
\* one left, only as long as every transfer is sound (anl 0xfc, write3's hold).
WaitsEnd ==
    \/ image \notin {"mboxfw", "rev22"}
    \/ image = "rev22" /\ <>(faults > 0)
    \/ pc # "idle" ~> pc = "idle"
===============================================================================
