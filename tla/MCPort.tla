-------------------------------- MODULE MCPort --------------------------------
(* The CS8427's control lines hang on the codec's latch chain.  A behaviour   *)
(* shows either the chain, bit by bit, or the port on top of it, where        *)
(* publishing a latch word is one step and its bytes are frames.              *)
EXTENDS ShiftChain

VARIABLES
    shown,   \* "chain" or "port"
    done, reset_n, mode, regs, slaved, work, k, booting, clash,   \* the port's,
    port_pc, port_disturbed                                       \* and its main loop

Port == INSTANCE ControlPort WITH pc <- port_pc, disturbed <- port_disturbed

portVars == <<done, reset_n, mode, regs, slaved, work, k, booting, clash, port_pc, port_disturbed>>
mcVars   == <<shown, vars, portVars>>

Chain(A)    == shown = "chain" /\ A /\ UNCHANGED <<shown, portVars>>
CtlPort(A)  == shown = "port" /\ A /\ UNCHANGED <<shown, vars>>

\* The chain that is not shown is at rest with one word.
MCInit ==
    /\ Init /\ Port!Init /\ shown \in {"chain", "port"}
    /\ shown = "port" => word = [b \in 1 .. Width |-> 0]

MCNext == Chain(Next) \/ CtlPort(Port!Next)

MCSpec ==
    MCInit /\ [][MCNext]_mcVars /\ WF_mcVars(CtlPort(port_pc # "asleep" /\ Port!Main))

\* The port's properties; the chain's is QuietPublish.
GuardMeansUsable == Port!GuardMeansUsable
BringupCompletes == Port!BringupCompletes
===============================================================================
