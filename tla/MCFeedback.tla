----------------------------- MODULE MCFeedback -----------------------------
(* The measurement and the watchdog share the interrupt and no state, so the *)
(* host either sets rates or opens and closes streams whose DMA slips.       *)
(* Windows of two frames; the two rates differ by two counts in a frame.     *)
EXTENDS Feedback

CONSTANT Scenes

VARIABLE scene

MCCount   == [r \in Rates |-> IF r = 48000 THEN 9 ELSE 7]
\* The crystal is off by one count in a window.
MCNominal == [r \in Rates |-> IF r = 48000 THEN 19 ELSE 15]

SofInit == scene \in Scenes /\ FeedbackInit

Hardware == FrameBegins /\ UNCHANGED scene
Isr      == usb_isr_sof /\ UNCHANGED scene
Sets     == /\ scene = "rates" /\ UNCHANGED scene
            /\ \E hz \in Rates \cup {0} : streaming_set_rate(hz)
Opens    == /\ scene = "rates" => ~playback_running
            /\ streaming_playback_enable(~playback_running) /\ UNCHANGED scene
SlipsNow == scene = "streams" /\ Slips /\ UNCHANGED scene

SofNext == Hardware \/ Isr \/ Sets \/ Opens \/ SlipsNow

\* Frames go on beginning, and the interrupt is served.
SofSpec == /\ SofInit /\ [][SofNext]_<<feedbackVars, scene>>
           /\ WF_feedbackVars(Hardware) /\ WF_feedbackVars(Isr)
=============================================================================
