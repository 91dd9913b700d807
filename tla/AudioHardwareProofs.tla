--------------------------- MODULE AudioHardwareProofs ---------------------------
(***************************************************************************)
(* The audio hardware around the chip.  The publish of a latch chain, for  *)
(* a chain of any width, split into bytes anywhere: the run checks one     *)
(* width, the hardware has two.  The bring-up of the CS8427, whoever does  *)
(* it and whatever comes between.  And the watchdog of the playback DMA,   *)
(* whose remainder by subtraction is shown to be the remainder.            *)
(***************************************************************************)
EXTENDS MCPort, MCFeedback, WellFoundedInduction, TLAPS

LEMMA ShiftedWord ==
    ASSUME NEW c \in Word, NEW b \in Bit
    PROVE  Shifted(c, b) \in Word
  <1>1. ASSUME NEW n \in 1..Width
        PROVE  (IF n < Width THEN c[n + 1] ELSE b) \in Bit
    BY <1>1, ChainAssumption DEF Word
  <1> QED
    BY <1>1 DEF Shifted, Word

LEMMA LocalCopyWord ==
    ASSUME TypeOK, NEW n \in 0..Width
    PROVE  LocalCopy(n) \in Word
  BY DEF LocalCopy, TypeOK, Word

\* The local copy of an undisturbed publish is the word.
LEMMA LocalCopyQuiet ==
    ASSUME TypeOK, i > 0 => v = word
    PROVE  LocalCopy(i) = word
  <1>1. CASE i = 0
    <2>1. 0 \in ByteStarts
      BY ChainAssumption
    <2>2. LocalCopy(i) = [j \in 1..Width |-> word[j]]
      BY <1>1, <2>1, ChainAssumption DEF LocalCopy
    <2> QED
      BY <2>2 DEF TypeOK, Word
  <1>2. CASE i > 0
    <2>1. [j \in 1..Width |-> IF j > i THEN word[j] ELSE word[j]] = word
      BY DEF TypeOK, Word
    <2> QED
      BY <1>2, <2>1 DEF LocalCopy
  <1> QED
    BY <1>1, <1>2, ChainAssumption DEF TypeOK

\* Every variable keeps its type (codec_shift_byte, mux_write).
THEOREM ChainTypes == Spec => [](TypeOK /\ (pc \in {"data", "clock"} => i < Width))
  <1> DEFINE Inv == TypeOK /\ (pc \in {"data", "clock"} => i < Width)
  <1>1. Init => Inv
    <2> SUFFICES ASSUME Init
                 PROVE  Inv
      OBVIOUS
    <2>1. word \in Word /\ v \in Word /\ chain \in Word /\ latch \in Word
      BY DEF Init
    <2>2. pin \in Bit
      BY <2>1, ChainAssumption DEF Init, Word
    <2>3. i \in 0..Width /\ i < Width
      BY ChainAssumption DEF Init
    <2>4. pc = "idle" /\ disturbed \in BOOLEAN
      BY DEF Init
    <2> QED
      BY <2>1, <2>2, <2>3, <2>4 DEF TypeOK
  <1>2. Inv /\ [Next]_vars => Inv'
    <2> SUFFICES ASSUME Inv, [Next]_vars
                 PROVE  Inv'
      OBVIOUS
    <2>1. ASSUME NEW w \in Word, publish(w)
          PROVE  Inv'
      <3>1. i' \in 0..Width /\ i' < Width
        BY <2>1, ChainAssumption DEF publish
      <3>2. pc' = "data" /\ disturbed' \in BOOLEAN /\ word' \in Word
        BY <2>1 DEF publish
      <3> QED
        BY <2>1, <3>1, <3>2 DEF publish, TypeOK
    <2>2. CASE set_data
      <3>1. v' \in Word /\ i < Width
        BY <2>2, LocalCopyWord DEF set_data, TypeOK
      <3>2. pin' \in Bit
        BY <2>2, <3>1, ChainAssumption DEF set_data, TypeOK, Word
      <3> QED
        BY <2>2, <3>1, <3>2 DEF set_data, TypeOK
    <2>3. CASE pulse_clock
      <3>1. chain' \in Word
        BY <2>3, ShiftedWord DEF pulse_clock, TypeOK
      <3>2. i' \in 0..Width /\ (pc' = "data" => i' < Width)
        BY <2>3, ChainAssumption DEF pulse_clock, LoopEnds, TypeOK
      <3>3. pc' \in {"data", "latch"}
        BY <2>3 DEF pulse_clock
      <3> QED
        BY <2>3, <3>1, <3>2, <3>3 DEF pulse_clock, TypeOK
    <2>4. CASE pulse_latch
      BY <2>4 DEF pulse_latch, TypeOK
    <2>5. ASSUME NEW w \in Word, isr_publish(w)
          PROVE  Inv'
      <3>1. w[Width] \in Bit
        BY ChainAssumption DEF Word
      <3> QED
        BY <2>5, <3>1 DEF isr_publish, TypeOK
    <2>6. CASE UNCHANGED vars
      BY <2>6 DEF vars, TypeOK
    <2> QED
      BY <2>1, <2>2, <2>3, <2>4, <2>5, <2>6 DEF Next
  <1> QED
    BY <1>1, <1>2, PTL DEF Spec

-----------------------------------------------------------------------------
\* A publish no interrupt disturbed leaves exactly its word in the latches,
\* whatever the chain held and whatever published before (codec_write_word,
\* mux_write).
THEOREM QuietPublishLatches == Spec => []QuietPublish
  <1>1. Init => QuietInv
    BY DEF Init, QuietInv
  <1>2. TypeOK /\ QuietInv /\ [Next]_vars => QuietInv'
    <2> SUFFICES ASSUME TypeOK, QuietInv, [Next]_vars
                 PROVE  QuietInv'
      OBVIOUS
    <2>1. ASSUME NEW w \in Word, publish(w)
          PROVE  QuietInv'
      BY <2>1, ChainAssumption DEF publish, QuietInv, TypeOK
    <2>2. CASE set_data
      <3> SUFFICES ASSUME ~disturbed
                   PROVE  QuietInv'
        BY <2>2 DEF set_data, QuietInv
      <3>1. i < Width /\ (i > 0 => v = word)
        BY <2>2 DEF set_data, QuietInv
      <3>2. v' = word /\ pin' = word[i + 1]
        BY <2>2, <3>1, LocalCopyQuiet DEF set_data
      <3> QED
        BY <2>2, <3>1, <3>2 DEF set_data, QuietInv
    <2>3. CASE pulse_clock
      <3> SUFFICES ASSUME ~disturbed
                   PROVE  QuietInv'
        BY <2>3 DEF pulse_clock, QuietInv
      <3>1. /\ i \in Nat /\ i < Width /\ v = word /\ pin = word[i + 1]
            /\ \A n \in 1..Width : n <= i => chain[Width - i + n] = word[n]
            /\ word' = word /\ v' = v /\ i' = i + 1
        BY <2>3 DEF pulse_clock, QuietInv, TypeOK
      <3>2. ASSUME NEW n \in 1..Width, n <= i + 1
            PROVE  chain'[Width - (i + 1) + n] = word[n]
        <4>1. Width - (i + 1) + n \in 1..Width
          BY <3>1, <3>2, ChainAssumption
        <4>2. chain'[Width - (i + 1) + n]
                = IF Width - (i + 1) + n < Width
                    THEN chain[Width - (i + 1) + n + 1] ELSE pin
          BY <2>3, <4>1 DEF pulse_clock, Shifted
        <4>3. CASE n = i + 1
          BY <3>1, <4>2, <4>3, ChainAssumption
        <4>4. CASE n <= i
          <5>1. Width - (i + 1) + n + 1 = Width - i + n
            BY <3>1, ChainAssumption
          <5>2. Width - (i + 1) + n < Width
            BY <3>1, <4>4, ChainAssumption
          <5> QED
            BY <3>1, <4>2, <4>4, <5>1, <5>2
        <4> QED
          BY <3>1, <3>2, <4>3, <4>4
      <3>3. CASE i + 1 = Width
        <4>1. pc' = "latch"
          BY <2>3, <3>3 DEF pulse_clock, LoopEnds
        <4>2. chain' \in Word
          BY <2>3, ShiftedWord DEF pulse_clock, TypeOK
        <4>3. ASSUME NEW n \in 1..Width
              PROVE  chain'[n] = word[n]
          <5>1. chain'[Width - (i + 1) + n] = word[n]
            BY <3>2, <3>3, <4>3
          <5>2. Width - (i + 1) + n = n
            BY <3>1, <3>3, ChainAssumption
          <5> QED
            BY <5>1, <5>2
        <4>4. chain' = word
          <5>1. /\ chain' = [n \in 1..Width |-> chain'[n]]
                /\ word = [n \in 1..Width |-> word[n]]
            BY <4>2 DEF TypeOK, Word
          <5>2. [n \in 1..Width |-> chain'[n]] = [n \in 1..Width |-> word[n]]
            BY <4>3
          <5> QED
            BY <5>1, <5>2
        <4> QED
          BY <3>1, <4>1, <4>4 DEF QuietInv
      <3>4. CASE i + 1 # Width
        <4>1. pc' = "data" /\ i + 1 < Width
          BY <2>3, <3>1, <3>4, ChainAssumption DEF pulse_clock, LoopEnds
        <4> QED
          BY <3>1, <3>2, <4>1 DEF QuietInv
      <3> QED
        BY <3>3, <3>4
    <2>4. CASE pulse_latch
      BY <2>4 DEF pulse_latch, QuietInv
    <2>5. ASSUME NEW w \in Word, isr_publish(w)
          PROVE  QuietInv'
      BY <2>5 DEF isr_publish, QuietInv
    <2>6. CASE UNCHANGED vars
      BY <2>6 DEF vars, QuietInv
    <2> QED
      BY <2>1, <2>2, <2>3, <2>4, <2>5, <2>6 DEF Next
  <1>3. QuietInv => QuietPublish
    BY DEF QuietInv, QuietPublish
  <1> QED
    BY <1>1, <1>2, <1>3, ChainTypes, PTL DEF Spec

\* Of a behaviour of the two, one is the chain's.
LEMMA ChainOfBoth == MCSpec => Spec
  <1>1. MCInit => Init
    BY DEF MCInit
  <1>2. [MCNext]_mcVars => [Next]_vars
    BY DEF MCNext, mcVars, Chain, CtlPort
  <1> QED BY <1>1, <1>2, PTL DEF MCSpec, Spec

\* The same of the run's specification.
THEOREM QuietPublishInRun == MCSpec => []QuietPublish
  BY ChainOfBoth, QuietPublishLatches, PTL

-----------------------------------------------------------------------------
\* The guard is claimed before the chip is out of reset, and cleared with it.
PortInv ==
    /\ Port!GuardMeansUsable
    /\ port_pc = "released" => mode # "reset"

\* A guard that is set means a chip out of reset and listening, but for the
\* steps in which the main loop is releasing it (cs8427_boot_init()).
THEOREM GuardUsable == MCSpec => []GuardMeansUsable
  <1> USE DEF PortInv, Port!GuardMeansUsable
  <1>1. MCInit => PortInv
    BY DEF MCInit, Port!Init
  <1>2. PortInv /\ [MCNext]_mcVars => PortInv'
    <2> SUFFICES ASSUME PortInv, [MCNext]_mcVars
                 PROVE  PortInv'
      OBVIOUS
    <2>1. CASE UNCHANGED portVars
      BY <2>1 DEF portVars
    <2>2. CASE Port!Skips \/ Port!Ends
      BY <2>2 DEF Port!Skips, Port!Ends, Port!Returned, Port!port, Port!BringupDone,
         Port!BringupCalled
    <2>3. CASE Port!Claims \/ Port!Releases
      BY <2>3 DEF Port!Claims, Port!Releases
    <2>4. CASE Port!Pulses \/ Port!Selects
      BY <2>4 DEF Port!Pulses, Port!Selects, Port!cs8427_select
    <2>5. CASE Port!Shifts \/ Port!BootRate
      BY <2>5 DEF Port!Shifts, Port!BootRate
    <2>6. CASE Port!Suspends
      BY <2>6 DEF Port!Suspends, Port!GuardAfterSuspend
    <2>7. CASE Port!SuspendIgnored \/ Port!Sleeps \/ Port!Resumes
      BY <2>7 DEF Port!SuspendIgnored, Port!Sleeps, Port!Resumes, Port!port, Port!mainloop
    <2>8. ASSUME NEW slave \in BOOLEAN, Port!streaming_set_rate(slave)
          PROVE  PortInv'
      BY <2>8 DEF Port!streaming_set_rate, Port!Collides, Port!cs8427_write, Port!cs8427_select,
         Port!mainloop
    <2>9. CASE Port!streaming_enable \/ Port!SuspendIrq
      BY <2>9 DEF Port!streaming_enable, Port!SuspendIrq, Port!port, Port!mainloop
    <2> QED BY <2>1, <2>2, <2>3, <2>4, <2>5, <2>6, <2>7, <2>8, <2>9
            DEF MCNext, Chain, CtlPort, mcVars, Port!Next, Port!Main, Port!Handlers
  <1>3. PortInv => GuardMeansUsable
    BY DEF GuardMeansUsable
  <1> QED BY <1>1, <1>2, <1>3, PTL DEF MCSpec

-----------------------------------------------------------------------------
(* The watchdog in the start-of-frame interrupt.                           *)

\* Every set of naturals has a least member: induction without a predicate.
LEMMA LeastOf ==
  ASSUME NEW T, T \subseteq Nat, T # {}
  PROVE  \E x \in T : \A y \in T : x <= y
<1> DEFINE Below == OpToRel(<, Nat)
<1>1. IsWellFoundedOn(Below, Nat)
  BY NatLessThanWellFounded
<1>2. \E x \in T : \A y \in T : ~ (<<y, x>> \in Below)
  <2> HIDE DEF Below
  <2> QED
    BY <1>1, WFMin
<1>3. \E x \in T : \A y \in T : ~ (y < x)
  BY <1>2 DEF OpToRel
<1> QED
  BY <1>3

\* Eight sample frames at a time and then one: what is left is the remainder.
LEMMA RemainderIsRemainder ==
  ASSUME NEW c \in Nat
  PROVE  Remainder(c) = c % SAMPLE_FRAME
<1> USE DEF SAMPLE_FRAME
<1> DEFINE Body(f, n) == IF n >= 8 * SAMPLE_FRAME THEN f[n - 8 * SAMPLE_FRAME]
                         ELSE IF n >= SAMPLE_FRAME THEN f[n - SAMPLE_FRAME]
                         ELSE n
           rem == CHOOSE f : f = [n \in 0..c |-> Body(f, n)]
<1>1. Remainder(c) = rem[c]
  BY DEF Remainder
<1>2. rem = [n \in 0..c |-> Body(rem, n)]
  <2> DEFINE g == [n \in 0..c |-> n % SAMPLE_FRAME]
  <2>1. ASSUME NEW n \in 0..c PROVE g[n] = Body(g, n)
    OBVIOUS
  <2>2. g = [n \in 0..c |-> Body(g, n)]
    BY <2>1
  <2>3. \E f : f = [n \in 0..c |-> Body(f, n)]
    BY <2>2
  <2> QED
    BY <2>3
<1> HIDE DEF rem
<1>3. ASSUME NEW n \in 0..c PROVE rem[n] = Body(rem, n)
  BY <1>2
<1>4. \A n \in 0..c : rem[n] = n % SAMPLE_FRAME
  <2> DEFINE Wrong == {n \in 0..c : rem[n] # n % SAMPLE_FRAME}
  <2>1. SUFFICES ASSUME Wrong # {} PROVE FALSE
    OBVIOUS
  <2>2. PICK x \in Wrong : \A y \in Wrong : x <= y
    <3>1. Wrong \subseteq Nat
      OBVIOUS
    <3> HIDE DEF Wrong
    <3> QED
      BY <2>1, <3>1, LeastOf
  <2>3. ASSUME NEW y \in 0..c, y < x PROVE rem[y] = y % SAMPLE_FRAME
    BY <2>2, <2>3
  <2>4. x \in 0..c /\ rem[x] # x % SAMPLE_FRAME
    OBVIOUS
  <2>5. CASE x >= 8 * SAMPLE_FRAME
    BY <1>3, <2>3, <2>4, <2>5
  <2>6. CASE x < 8 * SAMPLE_FRAME /\ x >= SAMPLE_FRAME
    BY <1>3, <2>3, <2>4, <2>6
  <2>7. CASE x < SAMPLE_FRAME
    BY <1>3, <2>3, <2>4, <2>7
  <2> QED
    BY <2>4, <2>5, <2>6, <2>7
<1> QED
  BY <1>1, <1>4

Off(c) == c % SAMPLE_FRAME # 0

\* A count that asks for no restart: the shadow as it was reset, or whole.
Quiet(c) == c = NoCount \/ ~Off(c)

\* The DMA slips only after a quiet count, and a frame that began in a stream
\* and was off has left the shadow at one, so that the interrupt takes the new
\* count for a change and looks at it.
SofInv ==
    /\ content \in Nat /\ content # NoCount
    /\ slipped => Quiet(sof_bcnt)
    /\ unheard => Off(content)
    /\ playback_running /\ unheard => Quiet(sof_bcnt)
    /\ NeverSplitsSamples

\* The reset value is no fill level.
CountsBelowReset == \A c \in Contents : c \in Nat /\ c # NoCount

LEMMA ResetIsNoCount == 0 # NoCount /\ CountsBelowReset
<1>1. 0 # NoCount
  BY SMT DEF NoCount
<1>2. CountsBelowReset
  BY FeedbackAssumption, SMT DEF NoCount, CountsBelowReset
<1> QED
  BY <1>1, <1>2

LEMMA SofInvInit == SofInit => SofInv
<1> SUFFICES ASSUME SofInit PROVE SofInv
  OBVIOUS
<1>1. content = 0 /\ ~slipped /\ ~unheard
  BY Zenon DEF SofInit, FeedbackInit
<1> QED
  BY <1>1, ResetIsNoCount DEF SofInv, Quiet, NeverSplitsSamples

LEMMA SofInvStep ==
  ASSUME CountsBelowReset, SofInv, [SofNext]_<<feedbackVars, scene>>
  PROVE  SofInv'
<1> USE DEF SofInv, NeverSplitsSamples
<1>1. CASE FrameBegins
  <2>1. pending' /\ UNCHANGED <<playback_running, slipped, sof_bcnt, seen>>
    BY <1>1, Zenon DEF FrameBegins
  <2>2. content' \in Nat /\ content' # NoCount
    <3>1. content' = content \/ content' \in Contents
      BY <1>1 DEF FrameBegins
    <3> QED
      BY <3>1 DEF CountsBelowReset
  <2>3. unheard' => Off(content')
    BY <1>1, Zenon DEF FrameBegins, Off
  <2>4. playback_running /\ Off(content') => slipped
    BY <1>1, Zenon DEF FrameBegins, Off
  <2> QED
    BY <2>1, <2>2, <2>3, <2>4, Zenon DEF Quiet
<1>2. CASE Slips
  <2>1. /\ sof_bcnt = NoCount \/ sof_bcnt % SAMPLE_FRAME = 0
        /\ UNCHANGED <<content, sof_bcnt, unheard, playback_running, seen, pending>>
    BY <1>2, Zenon DEF Slips
  <2> QED
    BY <2>1, Zenon DEF Quiet, Off
<1>3. CASE \E hz \in Rates \cup {0} : streaming_set_rate(hz)
  <2>1. UNCHANGED <<pending, playback_running, content, slipped, sof_bcnt, unheard, seen>>
    BY <1>3, Zenon DEF streaming_set_rate, watchdog
  <2> QED
    BY <2>1, Zenon DEF Quiet, Off
<1>4. CASE streaming_playback_enable(~playback_running)
  <2>1. /\ ~seen' /\ UNCHANGED <<content, slipped, unheard, pending>>
        /\ playback_running' => sof_bcnt' = NoCount
        /\ sof_bcnt' = sof_bcnt \/ sof_bcnt' = NoCount
    BY <1>4, Zenon DEF streaming_playback_enable, ResetShadow
  <2> QED
    BY <2>1, Zenon DEF Quiet, Off
<1>5. CASE usb_isr_sof
  <2>1. UNCHANGED <<playback_running, content>>
    BY <1>5, Zenon DEF usb_isr_sof, streaming_sof
  <2>2. CASE ~playback_running \/ content = sof_bcnt
    <3>1. UNCHANGED <<sof_bcnt, slipped, unheard>>
      BY <1>5, <2>2, Zenon DEF usb_isr_sof, streaming_sof
    <3>2. playback_running => ~unheard
      BY <2>2, Zenon DEF Quiet
    <3> QED
      BY <2>1, <3>1, <3>2, Zenon DEF Quiet, Off
  <2>3. CASE playback_running /\ content # sof_bcnt
    <3>1. sof_bcnt' = content
      BY <1>5, <2>3, Zenon DEF usb_isr_sof, streaming_sof
    <3>2. CASE Remainder(content) = 0
      <4>1. UNCHANGED <<slipped, unheard>>
        BY <1>5, <2>3, <3>2, Zenon DEF usb_isr_sof, streaming_sof
      <4>2. ~Off(content)
        BY <3>2, RemainderIsRemainder DEF Off
      <4> QED
        BY <2>1, <3>1, <4>1, <4>2, Zenon DEF Quiet, Off
    <3>3. CASE Remainder(content) # 0
      <4>1. ~slipped' /\ ~unheard'
        BY <1>5, <2>3, <3>3, Zenon DEF usb_isr_sof, streaming_sof
      <4> QED
        BY <2>1, <3>1, <4>1, Zenon
    <3> QED
      BY <3>2, <3>3
  <2> QED
    BY <2>2, <2>3
<1>6. CASE UNCHANGED <<feedbackVars, scene>>
  <2>1. UNCHANGED <<pending, playback_running, content, slipped, sof_bcnt, unheard, seen>>
    BY <1>6, Zenon DEF feedbackVars, watchdog
  <2> QED
    BY <2>1, Zenon DEF Quiet, Off
<1> QED
  BY <1>1, <1>2, <1>3, <1>4, <1>5, <1>6, Zenon
  DEF SofNext, Hardware, Isr, Sets, Opens, SlipsNow

\* A stream is never left playing split samples, for fill levels of any kind up
\* to the counter's, for any number of slips, missed frames and reopened streams
\* (streaming_sof's comparison with the shadow and its remainder by subtraction).
THEOREM SplitNeverLasts == SofSpec => []NeverSplitsSamples
<1>1. SofInv => NeverSplitsSamples
  BY DEF SofInv
<1>2. CountsBelowReset
  BY ResetIsNoCount
<1>3. SofInv /\ [SofNext]_<<feedbackVars, scene>> => SofInv'
  BY <1>2, SofInvStep
<1> QED
  BY <1>1, <1>3, SofInvInit, PTL DEF SofSpec
===============================================================================
