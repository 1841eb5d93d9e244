------------------------------ MODULE CartRail ------------------------------
(***************************************************************************)
(* The cartridge's supply: CART_PWR_ON/OFF and SET_PIN, the mode and       *)
(* voltage commands, the lines that face the cartridge, and the power-on   *)
(* settle time, part of which is spent before the answer to PWR_ON and the *)
(* rest charged to the next access that calls cart_wait_ready().           *)
(*                                                                         *)
(* A command is parsed, which leaves at most one kind of deferred work,    *)
(* and the main loop does that work before it takes the next byte; one     *)
(* action is one step of the two.  A command routed to LK waits and        *)
(* accesses in the same order (fw_lk_dispatch) and is a command of the     *)
(* waiting kind here.                                                      *)
(*                                                                         *)
(* Time: one tick stands for some milliseconds.  The clock and             *)
(* g_cart_ready_at matter only through their signed difference, which is   *)
(* kept, wrapping, as "since".  Other deadlines are short and set just     *)
(* before their loop, so they count down.                                  *)
(*                                                                         *)
(* cart_powered and voltage_is_five are left out: no code acts on either.  *)
(***************************************************************************)
EXTENDS Integers

CONSTANTS
  Half,        \* 2^31 ms: a difference as large as this reads as negative
  SettleMs,    \* FW_CART_SETTLE_MS
  AckMs,       \* FW_CART_POWERON_ACK_MS
  PowerOnMs,   \* FW_CART_POWERON_MS, the cartridge's own start-up time
  HostAckMs,   \* the host's patience with an answer (LK_Device.py:132)
  ClockWraps   \* whether a power-on may lie Half or more behind: it may

ASSUME RailAssumption ==
  /\ Half \in Nat /\ SettleMs \in Nat /\ AckMs \in Nat
  /\ PowerOnMs \in Nat /\ HostAckMs \in Nat
  /\ AckMs <= PowerOnMs /\ SettleMs <= PowerOnMs
  /\ PowerOnMs < Half
  /\ ClockWraps \in BOOLEAN

VARIABLES
  mode,           \* st->mode: what the last SET_MODE selected
  voltage_five,   \* st->voltage_five: the standing voltage request
  audio_out,      \* g_audio_out: the host asked for PB20 to be driven
  work,           \* the *_requested flag the command has set, if any
  vcc,            \* PB_VCC_EN
  vsel,           \* PB_VSEL: the rail is at 5 V
  driven,         \* the groups of cartridge-facing lines that are outputs
  age,            \* how long the cartridge has had its supply, up to PowerOnMs
  since,          \* (int32_t)(bl_time_ms() - g_cart_ready_at)
  pc,             \* where the main loop is
  left,           \* what is left of the settle or ACK time it is waiting out
  waited          \* time the present command has taken, up to HostAckMs + 1

vars == <<mode, voltage_five, audio_out, work, vcc, vsel, driven, age, since,
          pc, left, waited>>
rail == <<vcc, vsel, driven, age, since>>
asks == <<mode, voltage_five, audio_out>>

(* /WR /RD /CS /CS2; PB20; AD0..AD15 and PB0..PB7.  CLK is an output from  *)
(* boot to reset and is in none of these groups, as in PB_CART_FACING.     *)
Lines == {"ctrl", "audio", "bus"}
Works == {"none", "voltage", "tristate", "audio", "on", "off",
          "waits", "bare"}
Settling == {"on_settle", "ack", "settle"}
Places == {"idle", "turn", "released", "access", "reply"} \cup Settling

(* fw_cart_init(): power off, 3.3 V, the buses inputs, and the control     *)
(* lines outputs already.                                                  *)
Init ==
  /\ mode = "NONE" /\ voltage_five = FALSE /\ audio_out = FALSE
  /\ work = "none" /\ pc = "idle" /\ left = 0 /\ waited = 0
  /\ vcc = FALSE /\ vsel = FALSE /\ driven = {"ctrl"}
  /\ age = 0 /\ since = 0

-----------------------------------------------------------------------------
(* The parser: what each command asks for.                                 *)
Parse(w) ==
  /\ pc = "idle" /\ pc' = "turn"
  /\ work' = w
  /\ waited' = 0
  /\ UNCHANGED <<rail, left>>

(* AGB takes the rail down with the mode; DMG does not raise it.           *)
SetModeAgb ==
  /\ Parse("voltage")
  /\ mode' = "AGB" /\ voltage_five' = FALSE
  /\ UNCHANGED audio_out

SetModeDmg ==
  /\ Parse("none")
  /\ mode' = "DMG"
  /\ UNCHANGED <<voltage_five, audio_out>>

SetVoltage(five) ==
  /\ Parse("voltage")
  /\ voltage_five' = five
  /\ UNCHANGED <<mode, audio_out>>

SetAddrAsInputs == Parse("tristate") /\ UNCHANGED asks

(* As built (FW_CART_PULLUPS_FULL), both pull-up commands float the buses. *)
SetPullups == Parse("tristate") /\ UNCHANGED asks

CartPwr(on) == Parse(IF on THEN "on" ELSE "off") /\ UNCHANGED asks

(* Only bit 0 of the mask, the cartridge's power, is honoured.             *)
SetPin(bit0, high) ==
  /\ Parse(IF ~bit0 THEN "none" ELSE IF high THEN "on" ELSE "off")
  /\ UNCHANGED asks

(* SET_VARIABLE AGB_IRQ_ENABLED or DMG_AUDIO_ENABLED, in its own mode.     *)
SetAudio(on) ==
  /\ mode # "NONE"
  /\ Parse("audio")
  /\ audio_out' = on
  /\ UNCHANGED <<mode, voltage_five>>

(* SET_VARIABLE FLASH_WE_PIN, SET_FLASH_CMD and a restored state select the *)
(* flash's /WE: PB20 becomes it, or is released.                           *)
SetWePin(is_audio) ==
  /\ Parse("audio")
  /\ audio_out' = is_audio
  /\ UNCHANGED <<mode, voltage_five>>

(* Reads, writes, CRC, boot-up and RTC wait for the cartridge; the MBC     *)
(* reset outside DMG mode and FLASH_PROGRAM do not.                        *)
Access(kind) ==
  /\ kind \in {"waits", "bare"}
  /\ Parse(kind)
  /\ UNCHANGED asks

-----------------------------------------------------------------------------
(* The deferred work.                                                      *)
Then(place, time) ==
  /\ pc' = place /\ left' = time
  /\ UNCHANGED <<asks, waited>>

Elapsed(place) == pc = place /\ left = 0

Nothing ==
  /\ pc = "turn" /\ work = "none"
  /\ Then("reply", 0)
  /\ UNCHANGED <<rail, work>>

DriveAudio ==
  /\ pc = "turn" /\ work = "audio"
  /\ driven' = IF audio_out THEN driven \cup {"audio"} ELSE driven \ {"audio"}
  /\ Then("reply", 0)
  /\ UNCHANGED <<vcc, vsel, age, since, work>>

(* The guard of fw_cart_voltage().                                         *)
FiveGrantedAlways == voltage_five
FiveGranted == voltage_five /\ mode = "DMG"

ApplyVoltage ==
  /\ pc = "turn" /\ work = "voltage"
  /\ vsel' = FiveGranted
  /\ Then("settle", SettleMs)
  /\ UNCHANGED <<vcc, driven, age, since, work>>

Tristate ==
  /\ pc = "turn" /\ work = "tristate"
  /\ driven' = driven \ {"bus"}
  /\ Then("reply", 0)
  /\ UNCHANGED <<vcc, vsel, age, since, work>>

(* fw_cart_power(1): the rail, its settle time, then the control lines.    *)
PowerOn ==
  /\ pc = "turn" /\ work = "on"
  /\ vcc' = TRUE
  /\ Then("on_settle", SettleMs)
  /\ UNCHANGED <<vsel, driven, age, since, work>>

DriveControl ==
  /\ Elapsed("on_settle")
  /\ driven' = driven \cup {"ctrl"} \cup (IF audio_out THEN {"audio"} ELSE {})
  /\ Then("ack", AckMs)
  /\ UNCHANGED <<vcc, vsel, age, since, work>>

(* What is not spent before the answer is charged to g_cart_ready_at; then *)
(* the standing voltage is applied again.                                  *)
ChargeRest ==
  /\ Elapsed("ack")
  /\ since' = -(PowerOnMs - AckMs)
  /\ work' = "voltage"
  /\ Then("turn", 0)
  /\ UNCHANGED <<vcc, vsel, driven, age>>

(* fw_cart_power(0): every line released, then the rail dropped.           *)
CartFacingPB == {"ctrl", "audio"}
CartFacing == {"ctrl", "audio", "bus"}

ReleaseLines ==
  /\ pc = "turn" /\ work = "off"
  /\ driven' = driven \ CartFacing
  /\ Then("released", 0)
  /\ UNCHANGED <<vcc, vsel, age, since, work>>

DropRail ==
  /\ pc = "released"
  /\ vcc' = FALSE /\ vsel' = FALSE /\ age' = 0
  /\ Then("settle", SettleMs)
  /\ UNCHANGED <<driven, since, work>>

(* cart_wait_ready() and the access behind it, which leaves the buses      *)
(* driven or released.                                                     *)
NotReadyUnsigned == since % (2 * Half) < 0
NotReadySwapped == since > 0
NotReady == since < 0

StartAccess ==
  /\ pc = "turn"
  /\ work = "bare" \/ (work = "waits" /\ ~NotReady)
  /\ Then("access", 0)
  /\ UNCHANGED <<rail, work>>

EndAccess ==
  /\ pc = "access"
  /\ driven' \in {driven \cup {"bus"}, driven \ {"bus"}}
  /\ Then("reply", 0)
  /\ UNCHANGED <<vcc, vsel, age, since, work>>

Settled ==
  /\ Elapsed("settle")
  /\ Then("reply", 0)
  /\ UNCHANGED <<rail, work>>

Reply ==
  /\ pc = "reply"
  /\ work' = "none"
  /\ Then("idle", 0)
  /\ UNCHANGED rail

-----------------------------------------------------------------------------
(* The clock.  It runs while the device is idle and while a loop waits for *)
(* it; the loops read it many times a tick.                                *)
LaterUnbounded(s) == s + 1
Later(s) ==
  IF s < Half - 1 THEN s + 1 ELSE IF ClockWraps THEN -Half ELSE s

Waiting == left > 0 \/ (pc = "turn" /\ work = "waits" /\ NotReady)

Tick ==
  /\ pc = "idle" \/ Waiting
  /\ since' = Later(since)
  /\ age' = IF vcc /\ age < PowerOnMs THEN age + 1 ELSE age
  /\ left' = IF left > 0 THEN left - 1 ELSE 0
  /\ waited' = IF Waiting /\ waited <= HostAckMs THEN waited + 1 ELSE waited
  /\ UNCHANGED <<asks, work, vcc, vsel, driven, pc>>

Next ==
  \/ SetModeAgb \/ SetModeDmg \/ SetAddrAsInputs \/ SetPullups
  \/ \E on \in BOOLEAN :
       SetVoltage(on) \/ CartPwr(on) \/ SetAudio(on) \/ SetWePin(on)
  \/ \E bit0, high \in BOOLEAN : SetPin(bit0, high)
  \/ \E kind \in {"waits", "bare"} : Access(kind)
  \/ Nothing \/ DriveAudio \/ ApplyVoltage \/ Tristate
  \/ PowerOn \/ DriveControl \/ ChargeRest \/ ReleaseLines \/ DropRail
  \/ StartAccess \/ EndAccess \/ Settled \/ Reply
  \/ Tick

Spec == Init /\ [][Next]_vars

-----------------------------------------------------------------------------
(* Every variable has a value of its kind; since is a 32-bit difference.   *)
TypeOK ==
  /\ mode \in {"NONE", "DMG", "AGB"}
  /\ voltage_five \in BOOLEAN /\ audio_out \in BOOLEAN
  /\ vcc \in BOOLEAN /\ vsel \in BOOLEAN
  /\ work \in Works /\ pc \in Places
  /\ driven \subseteq Lines
  /\ age \in 0 .. PowerOnMs
  /\ since \in -Half .. Half - 1
  /\ left \in 0 .. SettleMs + AckMs
  /\ waited \in 0 .. HostAckMs + 1

(* The rail is at 5 V only for a DMG cartridge and on a standing request   *)
(* for 5 V, in whatever order mode, voltage and power commands came: a     *)
(* command that takes either away takes the rail down before anything      *)
(* touches the cartridge (cart.h: 5 V at an AGB cartridge is irreversible). *)
FiveVoltsAsAsked ==
  vsel => \/ voltage_five /\ mode = "DMG"
          \/ pc = "turn" /\ work = "voltage"

(* An access that calls cart_wait_ready() meets a cartridge that has had   *)
(* its whole start-up time: what PWR_ON did not spend is really charged to *)
(* the first access, across any power cycles in between.                   *)
GuardedAccessIsWarm ==
  pc = "access" /\ work = "waits" /\ vcc => age = PowerOnMs

(* The rail is never dropped under a driven line, and the control lines    *)
(* become outputs only on a rail that is up and settled (cart.h:51).       *)
LinesFollowRail ==
  [][/\ vcc /\ ~vcc' => driven = {}
     /\ "ctrl" \in driven' \ driven => vcc /\ age >= SettleMs]_vars

(* Neither the settle time spent before the answer to PWR_ON nor the rest, *)
(* charged to an access, outlasts the host's patience (cart.h:47).         *)
AnsweredInTime == waited <= HostAckMs
=============================================================================
