----------------------------- MODULE EepromByte -----------------------------
(***************************************************************************)
(* What the callers of the EEPROM routines go by (main.c's deferred write, *)
(* serialno_load(), PROV_READ, eeprom_invalidate_signature(); Provisioning *)
(* and Flashing take it for granted): a write that answers 1 is in the     *)
(* part for good, a read that answers 1 is what the part holds, and one    *)
(* that answers 0, or is cut off by a power failure, has either written    *)
(* its byte or done nothing.                                               *)
(***************************************************************************)
EXTENDS Integers, Sequences

CONSTANTS Byte, Offsets, Nothing   \* Nothing: no call, no answer

VARIABLES cells, call, answer, got

abstract == <<cells, call, answer, got>>

Calls == [op : {"write"}, at : Offsets, value : Byte]
           \cup [op : {"read"}, at : Offsets, len : 2 .. 3]

Written == [cells EXCEPT ![call.at] = call.value]

Asks ==
    /\ call = Nothing /\ call' \in Calls /\ answer' = Nothing /\ got' = <<>>
    /\ UNCHANGED cells

Stores ==
    /\ call # Nothing /\ call.op = "write"
    /\ cells' = Written /\ UNCHANGED <<call, answer, got>>

ReadsOn ==
    /\ call # Nothing /\ call.op = "read" /\ Len(got) < call.len
    /\ got' = Append(got, cells[call.at + Len(got)])
    /\ UNCHANGED <<cells, call, answer>>

Succeeds ==
    /\ call # Nothing /\ answer' = 1 /\ call' = Nothing
    /\ IF call.op = "write" THEN cells = Written /\ UNCHANGED got
       ELSE got' = [i \in 1 .. call.len |-> cells[call.at + i - 1]]
    /\ UNCHANGED cells

Fails ==
    /\ call # Nothing /\ answer' = 0 /\ call' = Nothing
    /\ UNCHANGED <<cells, got>>

PowerFails ==
    /\ call' = Nothing /\ answer' = Nothing /\ got' = <<>>
    /\ \/ UNCHANGED cells
       \/ call # Nothing /\ call.op = "write" /\ cells' = Written

AbstractInit ==
    cells \in [Offsets -> Byte] /\ call = Nothing /\ answer = Nothing /\ got = <<>>

AbstractSpec ==
    AbstractInit /\ [][Asks \/ Stores \/ ReadsOn \/ Succeeds \/ Fails \/ PowerFails]_abstract
=============================================================================
