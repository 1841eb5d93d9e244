--------------------------- MODULE CartRailProofs ---------------------------
(***************************************************************************)
(* What holds of the cartridge's supply for every settle time, start-up    *)
(* time and clock width, whether or not the clock wraps.                   *)
(***************************************************************************)
EXTENDS CartRail, TLAPS

(* The typing of the flags, apart from that of the other variables.        *)
Switches ==
  /\ voltage_five \in BOOLEAN /\ audio_out \in BOOLEAN
  /\ vcc \in BOOLEAN /\ vsel \in BOOLEAN

(* The power-up in fw_cart_power() and its ACK time.                       *)
PoweringUp == pc \in {"on_settle", "ack"}

(* The rail is up for as long as a power-up runs, and a power-down drops   *)
(* it with every line released.                                            *)
RailOfPlace ==
  /\ PoweringUp => vcc
  /\ pc = "released" => driven = {}

(* During a power-up, the time the cartridge has had and the time still to *)
(* be waited cover the wait; after it, either the cartridge has started or *)
(* its time and the time to g_cart_ready_at cover the start-up time.       *)
StartIsCharged ==
  /\ pc = "on_settle" => age + left >= SettleMs
  /\ pc = "ack" => age + left >= AckMs
  /\ vcc /\ ~PoweringUp =>
       age = PowerOnMs \/ (since < 0 /\ age - since >= PowerOnMs)

IInv ==
  TypeOK /\ RailOfPlace /\ StartIsCharged /\ GuardedAccessIsWarm
    /\ FiveVoltsAsAsked

(* The initial state of fw_cart_init() has the invariant.                  *)
LEMMA InitInv == Init => IInv
<1> SUFFICES ASSUME Init PROVE IInv
  OBVIOUS
<1> USE RailAssumption DEF Init
<1>1. TypeOK
  <2>1. voltage_five \in BOOLEAN /\ audio_out \in BOOLEAN
    OBVIOUS
  <2>2. vcc \in BOOLEAN /\ vsel \in BOOLEAN
    OBVIOUS
  <2>3. work \in Works /\ pc \in Places /\ driven \subseteq Lines
    BY DEF Works, Places, Settling, Lines
  <2>4. /\ mode \in {"NONE", "DMG", "AGB"} /\ age \in 0 .. PowerOnMs
        /\ since \in -Half .. Half - 1 /\ left \in 0 .. SettleMs + AckMs
        /\ waited \in 0 .. HostAckMs + 1
    OBVIOUS
  <2> QED
    BY <2>1, <2>2, <2>3, <2>4 DEF TypeOK
<1>2. RailOfPlace /\ StartIsCharged /\ GuardedAccessIsWarm
  BY DEF RailOfPlace, StartIsCharged, PoweringUp, GuardedAccessIsWarm
<1>3. FiveVoltsAsAsked
  BY DEF FiveVoltsAsAsked
<1> QED
  BY <1>1, <1>2, <1>3 DEF IInv

(* Parsing a command asks for work and touches neither rail nor clock.     *)
LEMMA ParsingKeepsInv ==
  ASSUME IInv,
         \/ SetModeAgb \/ SetModeDmg \/ SetAddrAsInputs \/ SetPullups
         \/ \E on \in BOOLEAN :
              SetVoltage(on) \/ CartPwr(on) \/ SetAudio(on) \/ SetWePin(on)
         \/ \E bit0, high \in BOOLEAN : SetPin(bit0, high)
         \/ \E kind \in {"waits", "bare"} : Access(kind)
  PROVE  IInv'
<1> USE RailAssumption
    DEF IInv, TypeOK, RailOfPlace, StartIsCharged, PoweringUp,
        GuardedAccessIsWarm, FiveVoltsAsAsked, Works, Places, Settling, Lines,
        rail, asks, Parse
<1>1. CASE SetModeAgb
  <2>1. Switches'
    BY <1>1 DEF SetModeAgb, Switches
  <2> QED
    BY <1>1, <2>1 DEF SetModeAgb, Switches
<1>2. CASE SetModeDmg
  BY <1>2 DEF SetModeDmg
<1>3. CASE SetAddrAsInputs \/ SetPullups
  <2>1. Parse("tristate") /\ UNCHANGED asks
    BY <1>3 DEF SetAddrAsInputs, SetPullups
  <2> QED
    BY <2>1
<1>4. ASSUME NEW on \in BOOLEAN, SetVoltage(on) \/ CartPwr(on)
      PROVE  IInv'
  <2>1. CASE SetVoltage(on)
    BY <2>1 DEF SetVoltage
  <2>2. CASE CartPwr(on)
    BY <2>2 DEF CartPwr
  <2> QED
    BY <1>4, <2>1, <2>2
<1>5. ASSUME NEW on \in BOOLEAN, SetAudio(on) \/ SetWePin(on)
      PROVE  IInv'
  <2>1. CASE SetAudio(on)
    BY <2>1 DEF SetAudio
  <2>2. CASE SetWePin(on)
    BY <2>2 DEF SetWePin
  <2> QED
    BY <1>5, <2>1, <2>2
<1>6. ASSUME NEW bit0 \in BOOLEAN, NEW high \in BOOLEAN, SetPin(bit0, high)
      PROVE  IInv'
  BY <1>6 DEF SetPin
<1>7. ASSUME NEW kind \in {"waits", "bare"}, Access(kind)
      PROVE  IInv'
  BY <1>7 DEF Access
<1> QED
  BY <1>1, <1>2, <1>3, <1>4, <1>5, <1>6, <1>7

(* Deferred work that neither powers nor accesses the cartridge.           *)
LEMMA PlainWorkKeepsInv ==
  ASSUME IInv,
         Nothing \/ DriveAudio \/ ApplyVoltage \/ Tristate \/ Settled \/ Reply
  PROVE  IInv'
<1> USE RailAssumption
    DEF IInv, TypeOK, RailOfPlace, StartIsCharged, PoweringUp,
        GuardedAccessIsWarm, FiveVoltsAsAsked, Works, Places, Settling, Lines,
        rail, asks, Then, Elapsed
<1>1. CASE Nothing
  BY <1>1 DEF Nothing
<1>2. CASE DriveAudio
  BY <1>2 DEF DriveAudio
<1>3. CASE ApplyVoltage
  <2>1. vsel' = FiveGranted
    BY <1>3 DEF ApplyVoltage
  <2>2. FiveGranted \in BOOLEAN
    BY DEF FiveGranted
  <2>3. FiveVoltsAsAsked'
    BY <1>3, <2>1 DEF ApplyVoltage, FiveGranted
  <2> QED
    BY <1>3, <2>1, <2>2, <2>3 DEF ApplyVoltage
<1>4. CASE Tristate
  BY <1>4 DEF Tristate
<1>5. CASE Settled
  BY <1>5 DEF Settled
<1>6. CASE Reply
  BY <1>6 DEF Reply
<1> QED
  BY <1>1, <1>2, <1>3, <1>4, <1>5, <1>6

(* The steps of fw_cart_power() and of the code behind it in the main loop. *)
LEMMA PowerKeepsInv ==
  ASSUME IInv,
         PowerOn \/ DriveControl \/ ChargeRest \/ ReleaseLines \/ DropRail
  PROVE  IInv'
<1> USE RailAssumption
    DEF IInv, TypeOK, RailOfPlace, StartIsCharged, PoweringUp,
        GuardedAccessIsWarm, FiveVoltsAsAsked, Works, Places, Settling, Lines,
        rail, asks, Then, Elapsed
<1>1. CASE PowerOn
  BY <1>1 DEF PowerOn
<1>2. CASE DriveControl
  BY <1>2 DEF DriveControl
<1>3. CASE ChargeRest
  BY <1>3 DEF ChargeRest
<1>4. CASE ReleaseLines
  BY <1>4 DEF ReleaseLines, CartFacing
<1>5. CASE DropRail
  <2>1. Switches' /\ ~vsel' /\ ~vcc'
    BY <1>5 DEF DropRail, Switches
  <2> QED
    BY <1>5, <2>1 DEF DropRail, Switches
<1> QED
  BY <1>1, <1>2, <1>3, <1>4, <1>5

(* cart_wait_ready() lets an access through only when the charge is paid.  *)
LEMMA AccessKeepsInv ==
  ASSUME IInv, StartAccess \/ EndAccess
  PROVE  IInv'
<1> USE RailAssumption
    DEF IInv, TypeOK, RailOfPlace, StartIsCharged, PoweringUp,
        GuardedAccessIsWarm, FiveVoltsAsAsked, Works, Places, Settling, Lines,
        rail, asks, Then
<1>1. CASE StartAccess
  BY <1>1 DEF StartAccess, NotReady
<1>2. CASE EndAccess
  BY <1>2 DEF EndAccess
<1> QED
  BY <1>1, <1>2

(* A tick brings the cartridge as far as it brings g_cart_ready_at.        *)
LEMMA TickKeepsInv ==
  ASSUME IInv, Tick
  PROVE  IInv'
<1> USE RailAssumption DEF IInv, TypeOK
<1>1. TypeOK'
  BY DEF Tick, Later, Waiting, asks, Works, Places, Settling
<1>2. RailOfPlace' /\ FiveVoltsAsAsked'
  BY DEF Tick, asks, RailOfPlace, FiveVoltsAsAsked, PoweringUp
<1>3. StartIsCharged'
  BY DEF Tick, Later, asks, StartIsCharged, RailOfPlace, PoweringUp
<1>4. GuardedAccessIsWarm'
  BY DEF Tick, asks, GuardedAccessIsWarm
<1> QED
  BY <1>1, <1>2, <1>3, <1>4

(* Every step, and every stutter, keeps the invariant.                     *)
LEMMA StepKeepsInv == IInv /\ [Next]_vars => IInv'
<1> SUFFICES ASSUME IInv, [Next]_vars PROVE IInv'
  OBVIOUS
<1>1. CASE UNCHANGED vars
  BY <1>1 DEF vars, IInv, TypeOK, RailOfPlace, StartIsCharged, PoweringUp,
              GuardedAccessIsWarm, FiveVoltsAsAsked
<1>2. CASE Next
  BY <1>2, ParsingKeepsInv, PlainWorkKeepsInv, PowerKeepsInv,
     AccessKeepsInv, TickKeepsInv DEF Next
<1> QED
  BY <1>1, <1>2

LEMMA AlwaysInv == Spec => []IInv
BY InitInv, StepKeepsInv, PTL DEF Spec

(* Every reachable state is well typed; the difference to g_cart_ready_at  *)
(* stays a 32-bit one.                                                     *)
THEOREM TypeCorrect == Spec => []TypeOK
<1>1. IInv => TypeOK
  BY DEF IInv
<1> QED
  BY AlwaysInv, <1>1, PTL

(* The rail is at 5 V only for a DMG cartridge and on a standing request.  *)
THEOREM FiveVoltsOnlyAsAsked == Spec => []FiveVoltsAsAsked
<1>1. IInv => FiveVoltsAsAsked
  BY DEF IInv
<1> QED
  BY AlwaysInv, <1>1, PTL

(* An access behind cart_wait_ready() meets a started cartridge.           *)
THEOREM GuardedAccessesAreWarm == Spec => []GuardedAccessIsWarm
<1>1. IInv => GuardedAccessIsWarm
  BY DEF IInv
<1> QED
  BY AlwaysInv, <1>1, PTL

(* The rail drops under released lines only, and the control lines are     *)
(* driven on a settled rail only.                                          *)
THEOREM LinesWaitForRail == Spec => LinesFollowRail
<1> DEFINE A == /\ vcc /\ ~vcc' => driven = {}
                /\ "ctrl" \in driven' \ driven => vcc /\ age >= SettleMs
<1>1. IInv /\ [Next]_vars => [A]_vars
  <2> SUFFICES ASSUME IInv, Next PROVE A
    OBVIOUS
  <2>1. CASE DropRail
    BY <2>1 DEF IInv, RailOfPlace, DropRail
  <2>2. CASE DriveControl
    BY <2>2, RailAssumption
       DEF IInv, TypeOK, RailOfPlace, StartIsCharged, PoweringUp,
           DriveControl, Elapsed
  <2>3. CASE ~DropRail /\ ~DriveControl
    BY <2>3
       DEF Next, SetModeAgb, SetModeDmg, SetAddrAsInputs, SetPullups,
           SetVoltage, CartPwr, SetAudio, SetWePin, SetPin, Access, Parse,
           Nothing, DriveAudio, ApplyVoltage, Tristate, PowerOn, ChargeRest,
           ReleaseLines, StartAccess, EndAccess, Settled, Reply, Tick, rail,
           IInv, TypeOK
  <2> QED
    BY <2>1, <2>2, <2>3
<1> QED
  BY AlwaysInv, <1>1, PTL DEF Spec, LinesFollowRail

-----------------------------------------------------------------------------
(* The time a command takes.  PowerOnMs - AckMs is the charge the first    *)
(* access after a power-on may have to pay, and two settle times with the  *)
(* ACK time the longest power command.  They are 200 ms and 120 ms against *)
(* the 1 s the host waits for an ACK (cart.h:41-49).  Patience also leaves *)
(* out a power-on 2^31 ms behind, which reads as one still ahead.          *)
Charge == PowerOnMs - AckMs
LongestPower == 2 * SettleMs + AckMs

Patience == /\ ClockWraps = FALSE
            /\ Charge <= HostAckMs /\ LongestPower <= HostAckMs

(* A loop that waits holds at most its own time and what went before it in *)
(* the same command; an access waits as long as the clock is behind        *)
(* g_cart_ready_at, which no power-on puts further ahead than the charge.  *)
TimeIsBounded ==
  /\ since >= -Charge
  /\ pc \notin Settling => left = 0
  /\ pc = "turn" =>
       CASE work = "waits" ->
              waited <= Charge + (IF since < 0 THEN since ELSE 0)
         [] work = "voltage" -> waited <= SettleMs + AckMs
         [] OTHER -> waited = 0
  /\ pc = "released" => waited = 0
  /\ pc = "on_settle" => waited + left <= SettleMs
  /\ pc = "ack" => waited + left <= SettleMs + AckMs
  /\ pc = "settle" => waited + left <= LongestPower
  /\ waited <= HostAckMs

(* A command starts its own count.                                         *)
LEMMA ParsingKeepsTime ==
  ASSUME IInv, TimeIsBounded, Patience, NEW w \in Works, Parse(w)
  PROVE  TimeIsBounded'
<1>1. /\ pc' = "turn" /\ waited' = 0 /\ left' = 0 /\ since' = since
  BY DEF Parse, rail, TimeIsBounded, Settling
<1>2. Charge + (IF since < 0 THEN since ELSE 0) >= 0
  BY RailAssumption DEF Charge, TimeIsBounded, IInv, TypeOK
<1> QED
  BY <1>1, <1>2, RailAssumption
     DEF TimeIsBounded, Charge, LongestPower, Settling, IInv, TypeOK

(* The work done for it adds no time but what it is about to wait.         *)
LEMMA WorkKeepsTime ==
  ASSUME IInv, TimeIsBounded, Patience,
         \/ Nothing \/ DriveAudio \/ ApplyVoltage \/ Tristate
         \/ PowerOn \/ DriveControl \/ ChargeRest \/ ReleaseLines \/ DropRail
         \/ StartAccess \/ EndAccess \/ Settled \/ Reply
  PROVE  TimeIsBounded'
<1> USE RailAssumption
    DEF IInv, TypeOK, TimeIsBounded, Patience, Charge, LongestPower, Settling,
        Then, Elapsed, rail
<1>1. CASE Nothing \/ DriveAudio \/ Tristate
  BY <1>1 DEF Nothing, DriveAudio, Tristate
<1>2. CASE ApplyVoltage
  BY <1>2 DEF ApplyVoltage
<1>3. CASE PowerOn
  BY <1>3 DEF PowerOn
<1>4. CASE DriveControl
  BY <1>4 DEF DriveControl
<1>5. CASE ChargeRest
  BY <1>5 DEF ChargeRest
<1>6. CASE ReleaseLines
  BY <1>6 DEF ReleaseLines
<1>7. CASE DropRail
  BY <1>7 DEF DropRail
<1>8. CASE StartAccess \/ EndAccess \/ Settled \/ Reply
  BY <1>8 DEF StartAccess, EndAccess, Settled, Reply
<1> QED
  BY <1>1, <1>2, <1>3, <1>4, <1>5, <1>6, <1>7, <1>8

(* A tick takes from what is left what it adds to what was waited.         *)
LEMMA TickKeepsTime ==
  ASSUME IInv, TimeIsBounded, Patience, Tick
  PROVE  TimeIsBounded'
<1> USE RailAssumption DEF IInv, TypeOK, TimeIsBounded, Patience, Charge
<1>1. since' >= since /\ (since < 0 => since' = since + 1)
  BY DEF Tick, Later
<1>2. pc' = pc /\ work' = work
  BY DEF Tick
<1>s. since' >= -(PowerOnMs - AckMs)
  BY <1>1 DEF Tick, Later
<1>3. CASE pc \in Settling
  <2>1. left > 0 /\ left' = left - 1
    BY <1>3 DEF Tick, Waiting, Settling
  <2>2. waited' = waited + 1
    BY <2>1 DEF Tick, Waiting
  <2>3. pc \in {"on_settle", "ack", "settle"}
    BY <1>3 DEF Settling
  <2>4. waited' + left' = waited + left
    BY <2>1, <2>2
  <2>5. waited + left <= HostAckMs
    BY <2>3, <1>2 DEF LongestPower
  <2>6. waited' <= HostAckMs
    BY <2>1, <2>2, <2>5
  <2> QED
    BY <1>2, <1>s, <2>3, <2>4, <2>6 DEF Settling, LongestPower
<1>4. CASE pc = "turn"
  <2>1. work = "waits" /\ since < 0 /\ left' = 0 /\ waited' = waited + 1
    BY <1>4 DEF Tick, Waiting, NotReady, Settling
  <2> QED
    BY <1>1, <1>2, <1>4, <2>1 DEF Settling
<1>5. CASE pc \notin Settling /\ pc # "turn"
  <2>1. left' = 0 /\ waited' = waited
    BY <1>5 DEF Tick, Waiting
  <2>2. pc \notin {"on_settle", "ack", "settle", "turn"}
    BY <1>5 DEF Settling
  <2> QED
    BY <1>2, <1>s, <2>1, <2>2 DEF Settling
<1> QED
  BY <1>3, <1>4, <1>5

(* No wait, neither the one before the answer to PWR_ON nor the rest       *)
(* charged to an access, outlasts the host's patience, as long as no       *)
(* power-on lies 2^31 ms behind: an older one reads as ahead of the clock. *)
THEOREM AnswersAreInTime ==
  ASSUME Patience PROVE Spec => []AnsweredInTime
<1>1. Init => TimeIsBounded
  BY RailAssumption, Patience
     DEF Init, TimeIsBounded, Charge, LongestPower, Settling, Patience
<1>2. IInv /\ TimeIsBounded /\ [Next]_vars => TimeIsBounded'
  <2> SUFFICES ASSUME IInv, TimeIsBounded, [Next]_vars PROVE TimeIsBounded'
    OBVIOUS
  <2>1. CASE UNCHANGED vars
    BY <2>1 DEF vars, TimeIsBounded
  <2>2. CASE Tick
    BY <2>2, TickKeepsTime
  <2>3. ASSUME NEW w \in Works, Parse(w) PROVE TimeIsBounded'
    BY <2>3, ParsingKeepsTime
  <2>4. CASE \/ Nothing \/ DriveAudio \/ ApplyVoltage \/ Tristate
             \/ PowerOn \/ DriveControl \/ ChargeRest \/ ReleaseLines
             \/ DropRail \/ StartAccess \/ EndAccess \/ Settled \/ Reply
    BY <2>4, WorkKeepsTime
  <2>5. CASE \/ SetModeAgb \/ SetModeDmg \/ SetAddrAsInputs \/ SetPullups
             \/ \E on \in BOOLEAN :
                  SetVoltage(on) \/ CartPwr(on) \/ SetAudio(on) \/ SetWePin(on)
             \/ \E bit0, high \in BOOLEAN : SetPin(bit0, high)
             \/ \E kind \in {"waits", "bare"} : Access(kind)
    <3>1. \E w \in Works : Parse(w)
      BY <2>5
         DEF SetModeAgb, SetModeDmg, SetAddrAsInputs, SetPullups, SetVoltage,
             CartPwr, SetAudio, SetWePin, SetPin, Access, Works
    <3> QED
      BY <2>3, <3>1
  <2> QED
    BY <2>1, <2>2, <2>4, <2>5 DEF Next
<1>3. TimeIsBounded => AnsweredInTime
  BY DEF TimeIsBounded, AnsweredInTime
<1> QED
  BY <1>1, <1>2, <1>3, AlwaysInv, StepKeepsInv, PTL DEF Spec
=============================================================================
