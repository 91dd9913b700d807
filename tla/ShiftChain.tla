----------------------------- MODULE ShiftChain -----------------------------
(***************************************************************************)
(* One of the two serial latch chains on port 1 (mux.c, codec.c): the main *)
(* loop shifts a word out bit by bit while interrupts are enabled, and a   *)
(* control request served in between shifts a word of its own out on the   *)
(* same pins.  Width is 8 for the panel chain and 16 for the codec chain;  *)
(* the codec word's second byte is read when its first has gone out.       *)
(*                                                                         *)
(* The latch is the chips' (external): a pulse copies the chain to it.     *)
(***************************************************************************)
EXTENDS Integers

CONSTANTS Width,      \* bits in the chain
          ByteStarts, \* bits already out when the next byte is read
          Bit         \* 0..1

ASSUME ChainAssumption ==
    /\ Width \in Nat \ {0}
    /\ ByteStarts \subseteq 0..(Width - 1) /\ 0 \in ByteStarts

VARIABLES word,       \* the state variable: g_mux_state or g_codec_state_*
          v,          \* the bits the shift loop works on
          i,          \* bits clocked out so far
          pc,         \* the main loop: "idle", "data", "clock", "latch"
          pin,        \* level of the data pin
          chain, latch,
          disturbed   \* an interrupt published since the main loop began

vars == <<word, v, i, pc, pin, chain, latch, disturbed>>

Word == [1..Width -> Bit]

TypeOK ==
    /\ word \in Word /\ v \in Word /\ chain \in Word /\ latch \in Word
    /\ i \in 0..Width /\ pin \in Bit
    /\ pc \in {"idle", "data", "clock", "latch"}
    /\ disturbed \in BOOLEAN

\* The chain after one rising clock edge.
Shifted(c, b) == [k \in 1..Width |-> IF k < Width THEN c[k + 1] ELSE b]

\* The word is changed and publishing it begins.
publish(w) ==
    /\ pc = "idle" /\ pc' = "data"
    /\ word' = w /\ i' = 0 /\ disturbed' = FALSE
    /\ UNCHANGED <<v, pin, chain, latch>>

\* The loop's local copy: what is left of the word is read at a byte's start.
LocalCopy(k) ==
    IF k \in ByteStarts THEN [j \in 1..Width |-> IF j > k THEN word[j] ELSE v[j]] ELSE v

set_data ==
    /\ pc = "data" /\ pc' = "clock"
    /\ v' = LocalCopy(i)
    /\ pin' = v'[i + 1]
    /\ UNCHANGED <<word, i, chain, latch, disturbed>>

\* Mutant: the loop runs one bit short.
OneShort(n) == n >= Width - 1

LoopEnds(n) == n = Width

pulse_clock ==
    /\ pc = "clock"
    /\ chain' = Shifted(chain, pin)
    /\ i' = i + 1
    /\ pc' = IF LoopEnds(i + 1) THEN "latch" ELSE "data"
    /\ UNCHANGED <<word, v, pin, latch, disturbed>>

pulse_latch ==
    /\ pc = "latch" /\ pc' = "idle"
    /\ latch' = chain
    /\ UNCHANGED <<word, v, i, pin, chain, disturbed>>

\* A request handler changes the word and publishes it from start to end.
isr_publish(w) ==
    /\ word' = w /\ chain' = w /\ latch' = w /\ pin' = w[Width]
    /\ disturbed' = (pc # "idle")
    /\ UNCHANGED <<v, i, pc>>

Init ==
    /\ word \in Word /\ v = word /\ chain = word /\ latch = word
    /\ i = 0 /\ pc = "idle" /\ pin = word[Width] /\ disturbed = FALSE

Next ==
    \/ \E w \in Word : publish(w)
    \/ set_data
    \/ pulse_clock
    \/ pulse_latch
    \/ \E w \in Word : isr_publish(w)

Spec == Init /\ [][Next]_vars

-----------------------------------------------------------------------------
\* A publish no interrupt came between latches exactly the word it published
\* (codec_write_word, mux_write), for every width and byte split.
QuietPublish == pc = "idle" /\ ~disturbed => latch = word

\* The inductive form: so far undisturbed, the bits clocked out are the
\* word's first i bits, in order, and the pin holds the next one.
QuietInv ==
    ~disturbed =>
        /\ pc \in {"data", "clock"} => i < Width
        /\ pc \in {"data", "clock"} =>
              \A k \in 1..Width : k <= i => chain[Width - i + k] = word[k]
        /\ pc = "data" /\ i > 0 => v = word
        /\ pc = "clock" => v = word /\ pin = word[i + 1]
        /\ pc = "latch" => chain = word
        /\ pc = "idle" => latch = word
=============================================================================
