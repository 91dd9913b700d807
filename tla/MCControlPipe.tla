---------------------------- MODULE MCControlPipe ----------------------------
(* Small instances of the control pipe: packets of two bytes, so that a     *)
(* reply of 2 or 4 bytes fills its packets exactly.                         *)
EXTENDS ControlPipe

CONSTANT Traffic   \* which of the request sets below the run uses

Req(k, n, w, ok, a) == [kind |-> k, len |-> n, wLen |-> w, good |-> ok, addr |-> a]

\* Enumeration: chunked and clamped reads, short replies, no-data writes.
Reads == { Req("GET_DESCRIPTOR", 3, 5, TRUE, 0),   \* two packets, short end
           Req("GET_DESCRIPTOR", 5, 3, TRUE, 0),   \* clamped to wLength
           Req("GET_DESCRIPTOR", 5, 4, TRUE, 0),   \* clamped, ending on a full packet
           Req("GET_DESCRIPTOR", 2, 5, TRUE, 0),   \* one full packet and a ZLP
           Req("GET_DESCRIPTOR", 0, 5, FALSE, 0),  \* unknown descriptor
           Req("IMMEDIATE", 1, 2, TRUE, 0) }
NoData == { Req("SET_ADDRESS", 0, 0, TRUE, 1), Req("SET_ADDRESS", 0, 0, TRUE, 2),
            Req("NO_DATA", 0, 0, TRUE, 0), Req("NO_DATA", 0, 0, FALSE, 0),
            Req("NO_DATA", 0, 1, FALSE, 0) }
GoodWrites == { Req("SET_SAMPLE_FREQ", 0, 3, TRUE, 0), Req("SET_MUTE", 0, 1, TRUE, 0) }
BadWrites  == { Req("SET_SAMPLE_FREQ", 0, 3, FALSE, 0), Req("SET_SOURCE", 0, 1, FALSE, 0) }
EvenReads  == { Req("GET_DESCRIPTOR", 4, 5, TRUE, 0) }   \* two full packets and a ZLP

MCRequests ==
    CASE Traffic = "impatient"  -> Reads \cup NoData
      [] Traffic = "bad_writes" -> NoData \cup GoodWrites \cup BadWrites
      [] Traffic = "everything" -> Reads \cup EvenReads \cup NoData \cup GoodWrites
                                   \cup BadWrites

MCAbandonable ==
    CASE Traffic = "everything" -> {"GET_DESCRIPTOR", "IMMEDIATE", "NO_DATA"}
      [] Traffic = "impatient"  -> {"SET_ADDRESS"}
      [] OTHER -> {}

\* mboxfw is asked for class requests only once it has an address.
MCOnceAddressed == OutKinds
==============================================================================
