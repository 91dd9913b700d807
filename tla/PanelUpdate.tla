----------------------------- MODULE PanelUpdate -----------------------------
(***************************************************************************)
(* The front panel's byte between its two writers: buttons_poll() in the   *)
(* main loop, which reads, computes and writes with interrupts enabled,    *)
(* and the control requests that interrupt it (stream start and stop, and  *)
(* the Selector Unit).  A read-modify-write of single bits is one          *)
(* instruction of the 8051 and atomic; cycle_source() on the whole byte    *)
(* and the test in codec_source_changed() are not.                         *)
(*                                                                         *)
(* One of the two like channels is modelled.  A publish is one action      *)
(* here; how an interrupt can tear it is in module ShiftChain.             *)
(***************************************************************************)
EXTENDS Integers

CONSTANT MaxPresses   \* bound on the presses counted

ASSUME PanelAssumption == MaxPresses \in Nat

VARIABLES g_mux_state,    \* channel-1 pattern, bit 6 and bit 7
          g_codec_state,  \* 0x25: source code of channel 1 and the Selector bit
          running,        \* a stream is running
          mux_out, codec_out,   \* what the latches hold
          pc, cur, s1,    \* buttons_poll: position and locals
          presses,        \* presses acted on
          raced           \* a request has interrupted a poll

vars == <<g_mux_state, g_codec_state, running, mux_out, codec_out, pc, cur, s1, presses,
          raced>>
local == <<pc, cur, s1, presses>>

Patterns == {"MIC", "LINE", "INST"}
Mux   == [src : Patterns, analog : BOOLEAN, idle : BOOLEAN]
Codec == [code : 0..3, spdif : BOOLEAN]

TypeOK ==
    /\ g_mux_state \in Mux /\ mux_out \in Mux /\ cur \in Mux
    /\ g_codec_state \in Codec /\ codec_out \in Codec
    /\ running \in BOOLEAN /\ s1 \in 0..3 /\ presses \in 0..MaxPresses /\ raced \in BOOLEAN
    /\ pc \in {"wait", "cycle", "write", "source", "nibble", "test", "lamp_on",
               "lamp_off", "mux", "codec"}

\* Mutant: INST is skipped.
TwoSources == [MIC |-> "LINE", LINE |-> "MIC", INST |-> "MIC"]

\* cycle_source: MIC -> LINE -> INST -> MIC.
NextSource == [MIC |-> "LINE", LINE |-> "INST", INST |-> "MIC"]

src_state == [MIC |-> 0, LINE |-> 3, INST |-> 1]

-----------------------------------------------------------------------------
(* buttons_poll() on a press of channel 1's button.                        *)

press ==
    /\ pc = "wait" /\ pc' = "cycle" /\ presses < MaxPresses
    /\ UNCHANGED <<g_mux_state, g_codec_state, running, mux_out, codec_out, cur, s1, presses, raced>>

read_mux ==
    /\ pc = "cycle" /\ pc' = "write"
    /\ cur' = g_mux_state
    /\ UNCHANGED <<g_mux_state, g_codec_state, running, mux_out, codec_out, s1, presses, raced>>

write_mux ==
    /\ pc = "write" /\ pc' = "source"
    /\ g_mux_state' = [cur EXCEPT !.src = NextSource[cur.src]]
    /\ presses' = presses + 1
    /\ UNCHANGED <<g_codec_state, running, mux_out, codec_out, cur, s1, raced>>

read_source ==
    /\ pc = "source" /\ pc' = "nibble"
    /\ s1' = src_state[g_mux_state.src]
    /\ UNCHANGED <<g_mux_state, g_codec_state, running, mux_out, codec_out, cur, presses, raced>>

write_nibble ==
    /\ pc = "nibble" /\ pc' = "test"
    /\ g_codec_state' = [g_codec_state EXCEPT !.code = s1]
    /\ UNCHANGED <<g_mux_state, running, mux_out, codec_out, cur, s1, presses, raced>>

test_spdif ==
    /\ pc = "test" /\ pc' = IF g_codec_state.spdif THEN "lamp_off" ELSE "lamp_on"
    /\ UNCHANGED <<g_mux_state, g_codec_state, running, mux_out, codec_out, cur, s1, presses, raced>>

set_lamp ==
    /\ pc \in {"lamp_on", "lamp_off"} /\ pc' = "mux"
    /\ g_mux_state' = [g_mux_state EXCEPT !.analog = (pc = "lamp_on")]
    /\ UNCHANGED <<g_codec_state, running, mux_out, codec_out, cur, s1, presses, raced>>

publish_mux ==
    /\ pc = "mux" /\ pc' = "codec"
    /\ mux_out' = g_mux_state
    /\ UNCHANGED <<g_mux_state, g_codec_state, running, codec_out, cur, s1, presses, raced>>

publish_codec ==
    /\ pc = "codec" /\ pc' = "wait"
    /\ codec_out' = g_codec_state
    /\ UNCHANGED <<g_mux_state, g_codec_state, running, mux_out, cur, s1, presses, raced>>

buttons_poll ==
    \/ press \/ read_mux \/ write_mux \/ read_source \/ write_nibble
    \/ test_spdif \/ set_lamp \/ publish_mux \/ publish_codec

-----------------------------------------------------------------------------
(* The requests that interrupt it.                                         *)

\* Mutant: the lamp follows the stream, and the other way round.
IdleWhile(on) == on

\* Panel bit 7 is asserted low.
IdleBit(on) == ~on

\* panel_update_streaming(): bit 7 high while nothing runs, shifted out on a
\* change.
panel_update_streaming(on) ==
    /\ running' = on
    /\ g_mux_state' = [g_mux_state EXCEPT !.idle = IdleBit(on)]
    /\ mux_out' = IF g_mux_state' # g_mux_state THEN g_mux_state' ELSE mux_out
    /\ raced' = (raced \/ pc # "wait")
    /\ UNCHANGED <<g_codec_state, codec_out, local>>

\* Mutant: the Selector restores the analog source's default code.
DefaultCode(src) == 0

\* The source code the Selector's codec_source_changed() recomputes.
CodeFor(src) == src_state[src]

selector_set_source(spdif) ==
    /\ g_codec_state' = [code |-> CodeFor(g_mux_state.src), spdif |-> spdif]
    /\ g_mux_state' = [g_mux_state EXCEPT !.analog = ~spdif]
    /\ codec_out' = g_codec_state' /\ mux_out' = g_mux_state'
    /\ raced' = (raced \/ pc # "wait")
    /\ UNCHANGED <<running, local>>

isr == (\E on \in BOOLEAN : panel_update_streaming(on))
       \/ (\E spdif \in BOOLEAN : selector_set_source(spdif))

Init ==
    /\ g_mux_state = [src |-> "MIC", analog |-> TRUE, idle |-> TRUE]
    /\ g_codec_state = [code |-> 0, spdif |-> FALSE]
    /\ running = FALSE
    /\ mux_out = g_mux_state /\ codec_out = g_codec_state
    /\ pc = "wait" /\ cur = g_mux_state /\ s1 = 0 /\ presses = 0 /\ raced = FALSE

Next == buttons_poll \/ isr

Spec == Init /\ [][Next]_vars

-----------------------------------------------------------------------------
Settled == pc = "wait"

\* No press is lost or counted twice, whatever interrupts the poll: the
\* panel shows the source that many presses select (buttons_poll).
SourceAfter == [n \in 0..2 |-> CASE n = 0 -> "MIC" [] n = 1 -> "LINE" [] OTHER -> "INST"]
PressesCount == Settled => mux_out.src = SourceAfter[presses % 3]

\* The preamplifiers' code and the panel's pattern name the same source once
\* the poll is over, whatever the Selector did meanwhile (codec_source_changed).
CodeMatchesPanel == Settled => codec_out.code = src_state[mux_out.src]

\* As long as no request has interrupted a poll both lamps are right between
\* polls: the poll carries them along, and the requests find them as they
\* left them (panel_update_streaming, codec_source_changed, cycle_source).
QuietLamps ==
    Settled /\ ~raced => mux_out.idle = ~running /\ mux_out.analog = ~codec_out.spdif
=============================================================================
