----------------------------- MODULE UsbService -----------------------------
(***************************************************************************)
(* Who serves the USB peripheral, and when.  usb_service() is run either   *)
(* by the interrupt handler or, polled, by the thread through              *)
(* bl_usb_poll(); usb_irq_on says which.  The thread arms the interrupt    *)
(* once the device is configured (bl_usb_irq_arm), a watchdog in the main  *)
(* loop and two counters in the handler take it away again, for good.      *)
(* Modelled with them: the main loop as far as it reaches the bus, and     *)
(* every store to endpoint 2's control register (Ep2Ctrl).                 *)
(*                                                                         *)
(* Which response a store asks for, and what is sent, is UsbTx's and       *)
(* UsbRx's business: here any may be asked for.                            *)
(***************************************************************************)
EXTENDS Ep2Ctrl

CONSTANTS
  IdleLimit,          (* USB_IRQ_IDLE_LIMIT                                 *)
  BurstLimit,         (* USB_IRQ_BURST_LIMIT                                *)
  MaxWrites,          (* bound: control register stores per usb_service()   *)
  DemotedWhileArming  (* may the handler's limits be reached during arming? *)

ASSUME UsbServiceAssumption ==
  /\ {IdleLimit, BurstLimit, MaxWrites} \subseteq Nat \ {0}
  /\ DemotedWhileArming \in BOOLEAN

VARIABLES
  (* the main loop, and interrupts masked by PRIMASK (USB_LOCK_BEGIN) *)
  pc, masked,
  (* usb_service(), per context *)
  svc,
  (* NVIC: IRQ6 enabled, pended by software *)
  nvic_on, pended,
  (* the bus reset flag; what the interrupt line does *)
  bus_rst, line,
  (* the interrupt transport; fault: usb_irq_fault is not NONE *)
  usb_irq_on, fault, idle_entries, burst,
  (* entries or events counted since the watchdog last looked *)
  entered, happened,
  (* bl_usb_configured() *)
  configured

threadVars == <<pc, masked>>
nvicVars   == <<nvic_on, pended>>
driverVars == <<usb_irq_on, fault, idle_entries, burst, entered, happened>>
envVars    == <<bus_rst, line>>

vars == <<regVars, threadVars, svc, nvicVars, driverVars, configured, envVars>>

Idle == [kind |-> "out", cleared |-> FALSE, writes |-> 0]

Init ==
  /\ RegInit
  /\ pc = "poll"
  /\ masked = FALSE
  /\ svc = [c \in Contexts |-> Idle]
  /\ nvic_on = FALSE
  /\ pended = FALSE
  /\ bus_rst = FALSE
  /\ line = "follows"
  /\ usb_irq_on = FALSE
  /\ fault = FALSE
  /\ idle_entries = 0
  /\ burst = 0
  /\ entered = FALSE
  /\ happened = FALSE
  /\ configured = FALSE

Serving(c) == svc[c].kind # "out"

(* The handler has preempted the thread. *)
InHandler == Serving("handler")

------------------------------------------------------------------------------
(* usb_service(), in either context.                                        *)

(* bl_usb_tx_pending(), as the main loop finds it: tx_armed. *)
TxPending == asked.T_RES = "ACK"

(* Which branch: R8_USB_INT_FG is read once, and with the transfer flag     *)
(* R8_USB_INT_ST, latched as long as the flag is.                           *)
EnterService(c) ==
  /\ svc' = [svc EXCEPT ![c] =
       [Idle EXCEPT !.kind = IF flag THEN latched
                             ELSE IF bus_rst THEN "bus" ELSE "other"]]
  /\ unserved' = (unserved /\ ~flag)

(* The bus reset is served before the pumps run. *)
ServeReset(c) ==
  /\ svc[c].kind = "bus"
  /\ RegReset
  /\ bus_rst' = FALSE
  /\ configured' = FALSE
  /\ happened' = TRUE
  /\ svc' = [svc EXCEPT ![c].kind = "other"]
  /\ UNCHANGED <<latched, rmw, unserved, threadVars, nvicVars, usb_irq_on,
                 fault, idle_entries, burst, entered, line>>

(* The pipelined IN completion releases the bus before it refills. *)
Release(c) ==
  /\ svc[c].kind = "IN"
  /\ rmw[c].at = "out"
  /\ ~svc[c].cleared
  /\ svc[c].writes = 0
  /\ latched' = "NONE"
  /\ svc' = [svc EXCEPT ![c].cleared = TRUE]
  /\ UNCHANGED <<ctrl, rmw, seq, asked, unserved, threadVars, nvicVars,
                 driverVars, configured, envVars>>

(* tx_pump(), rx_credit_update(), the OUT branch: one store each. *)
ServiceWrites(c) ==
  /\ svc[c].kind \in Tokens \cup {"other"}
  /\ svc[c].writes < MaxWrites
  /\ \E field \in Fields, response \in Responses : Call(c, field, response)
  /\ svc' = [svc EXCEPT ![c].writes = @ + 1]
  /\ UNCHANGED <<threadVars, nvicVars, driverVars, configured, envVars>>

(* Variant: the flag is cleared at the end whoever cleared it before. *)
ClearsAlways(c) == "NONE"

(* pipe_cleared: clearing the flag twice swallows a latched event. *)
LatchedAfter(c) == IF svc[c].cleared THEN latched ELSE "NONE"

(* The end of usb_service(), after whatever it sent or set up.  A served    *)
(* EP0 token may have been SET_CONFIGURATION.                               *)
EndService(c) ==
  /\ svc[c].kind \in Tokens \cup {"other"}
  /\ rmw[c].at = "out"
  /\ IF svc[c].kind \in Tokens
       THEN /\ latched' = LatchedAfter(c)
            /\ happened' = TRUE
       ELSE UNCHANGED <<latched, happened>>
  /\ \/ svc[c].kind = "EP0" /\ configured' = TRUE
     \/ UNCHANGED configured
  /\ svc' = [svc EXCEPT ![c] = Idle]
  /\ IF c = "thread" THEN pc' = "tick" ELSE UNCHANGED pc
  /\ UNCHANGED <<ctrl, rmw, seq, asked, unserved, masked, nvicVars,
                 usb_irq_on, fault, idle_entries, burst, entered, envVars>>

Service(c) ==
  \/ ServeReset(c)
  \/ Release(c)
  \/ ServiceWrites(c)
  \/ EndService(c)

------------------------------------------------------------------------------
(* fw_usb_irq_handler().                                                    *)

(* The line follows the flags, is held by a source that usb_service() does  *)
(* not clear, or no longer reaches the core.                                *)
Lines == {"follows", "held", "dead"}

Raised == pended \/ line = "held" \/ (line = "follows" /\ (flag \/ bus_rst))

(* Variant: the handler masks IRQ6 and leaves the flag to the watchdog. *)
GiveUpQuietly ==
  /\ nvic_on' = FALSE
  /\ fault' = TRUE
  /\ idle_entries' = 0
  /\ burst' = 0
  /\ UNCHANGED usb_irq_on

(* The handler masks IRQ6 and clears the flag: polling from here on.  The   *)
(* counters have no reader after that and are put back to zero, here and in *)
(* Disarm, only to keep states apart that differ in something.              *)
GiveUp ==
  /\ nvic_on' = FALSE
  /\ usb_irq_on' = FALSE
  /\ fault' = TRUE
  /\ idle_entries' = 0
  /\ burst' = 0

StaysArmed == UNCHANGED <<nvic_on, usb_irq_on, fault>>

(* Variant: entries are not counted while the source is a real one. *)
CountsIdleOnly == IF flag \/ bus_rst THEN burst ELSE burst + 1

BurstAfter == burst + 1

(* Variant: one entry more than the limit. *)
TooManyLate == BurstAfter > BurstLimit

TooMany == BurstAfter >= BurstLimit

(* An entry: too many since the thread last polled, nothing to clear, or    *)
(* an event to serve.                                                       *)
Enter ==
  /\ nvic_on
  /\ Raised
  /\ ~masked
  /\ ~InHandler
  /\ pended' = FALSE
  /\ entered' = TRUE
  /\ \/ /\ TooMany
        /\ GiveUp
        /\ UNCHANGED <<svc, unserved>>
     \/ /\ ~TooMany
        /\ ~flag /\ ~bus_rst
        /\ IF idle_entries + 1 >= IdleLimit
             THEN GiveUp
             ELSE /\ idle_entries' = idle_entries + 1
                  /\ burst' = BurstAfter
                  /\ StaysArmed
        /\ UNCHANGED <<svc, unserved>>
     \/ /\ ~TooMany
        /\ flag \/ bus_rst
        /\ idle_entries' = 0
        /\ burst' = BurstAfter
        /\ StaysArmed
        /\ EnterService("handler")
  /\ UNCHANGED <<ctrl, latched, rmw, seq, asked, threadVars, happened, configured, envVars>>

HandlerRmw ==
  /\ Rmw("handler")
  /\ UNCHANGED <<threadVars, svc, nvicVars, driverVars, configured, envVars>>

Handler == Enter \/ Service("handler") \/ HandlerRmw

------------------------------------------------------------------------------
(* The main loop: bl_usb_poll(), fw_usb_irq_tick(), then a command's work.  *)

(* Variant: the poll serves the bus whether or not the interrupt does. *)
PollsAlways == TRUE

PollServes == ~usb_irq_on

Poll ==
  /\ pc = "poll"
  /\ IF PollServes
       THEN /\ EnterService("thread")
            /\ pc' = "serve"
            /\ UNCHANGED burst
       ELSE /\ burst' = 0
            /\ pc' = "tick"
            /\ UNCHANGED <<svc, unserved>>
  /\ UNCHANGED <<ctrl, latched, rmw, seq, asked, masked, nvicVars, usb_irq_on,
                 fault, idle_entries, entered, happened, configured, envVars>>

(* fw_usb_irq_tick(): the transmitter owes bytes and no event came for      *)
(* FW_USB_IRQ_DEAD_MS: disarm, and start the peripheral over.               *)
TickDead ==
  /\ pc = "tick"
  /\ TxPending
  /\ ~happened
  /\ pc' = "work"
  /\ RegReset
  /\ latched' = "NONE"
  /\ unserved' = FALSE
  /\ bus_rst' = FALSE
  /\ nvic_on' = FALSE
  /\ pended' = FALSE
  /\ usb_irq_on' = FALSE
  /\ fault' = (fault \/ usb_irq_on)
  /\ idle_entries' = 0
  /\ burst' = 0
  /\ configured' = FALSE
  /\ UNCHANGED <<rmw, masked, svc, entered, happened, line>>

(* What every other tick does first: it takes note of the events. *)
Tick ==
  /\ pc = "tick"
  /\ happened' = FALSE
  /\ UNCHANGED <<regVars, masked, svc, configured, envVars>>

(* bl_usb_irq_arm(): enable, and pend IRQ6 to see the handler entered. *)
TickArm ==
  /\ Tick
  /\ ~usb_irq_on
  /\ configured
  /\ ~fault
  /\ pc' = "arm_spin"
  /\ nvic_on' = TRUE
  /\ pended' = TRUE
  /\ entered' = FALSE
  /\ UNCHANGED <<usb_irq_on, fault, idle_entries, burst>>

(* Polling, and not to be armed. *)
TickPolled ==
  /\ Tick
  /\ ~usb_irq_on
  /\ ~configured \/ fault
  /\ pc' = "work"
  /\ UNCHANGED <<nvic_on, pended, usb_irq_on, fault, idle_entries, burst, entered>>

(* Armed, and no reason or not yet time to doubt the interrupt. *)
TickArmed ==
  /\ Tick
  /\ usb_irq_on
  /\ pc' = "work"
  /\ entered' = FALSE
  /\ UNCHANGED <<nvic_on, pended, usb_irq_on, fault, idle_entries, burst>>

(* bl_usb_irq_disarm(): one locked section. *)
Disarm ==
  /\ nvic_on' = FALSE
  /\ pended' = FALSE
  /\ usb_irq_on' = FALSE
  /\ fault' = (fault \/ usb_irq_on)
  /\ idle_entries' = 0
  /\ burst' = 0

(* Variant: the gate on a pending transmission the wrong way round. *)
WedgedWhenIdle == ~TxPending /\ ~entered

(* Bytes owed, and no entry since the last look. *)
Wedged == TxPending /\ ~entered

(* ... for FW_USB_IRQ_WEDGE_MS. *)
TickWedge ==
  /\ Tick
  /\ usb_irq_on
  /\ Wedged
  /\ Disarm
  /\ pc' = "work"
  /\ UNCHANGED entered

(* The handler ran: the path is proved.  Its counters start over ... *)
ArmSeen ==
  /\ pc = "arm_spin"
  /\ entered
  /\ idle_entries' = 0
  /\ burst' = 0
  /\ pc' = "arm_set"
  /\ UNCHANGED <<regVars, masked, svc, nvicVars, usb_irq_on, fault, entered,
                 happened, configured, envVars>>

(* ... and the interrupt is taken to be the one who serves the bus. *)
ArmSet ==
  /\ pc = "arm_set"
  /\ usb_irq_on' = TRUE
  /\ entered' = FALSE
  /\ pc' = "work"
  /\ UNCHANGED <<regVars, masked, svc, nvicVars, fault, idle_entries, burst,
                 happened, configured, envVars>>

(* 256 turns and no entry: this path does not work. *)
ArmFails ==
  /\ pc = "arm_spin"
  /\ ~entered
  /\ nvic_on' = FALSE
  /\ pended' = FALSE
  /\ fault' = TRUE
  /\ pc' = "work"
  /\ UNCHANGED <<regVars, masked, svc, usb_irq_on, idle_entries, burst,
                 entered, happened, configured, envVars>>

(* A command's work.  None that reaches the bus: *)
WorkElsewhere ==
  /\ pc = "work"
  /\ pc' = "poll"
  /\ UNCHANGED <<regVars, masked, svc, nvicVars, driverVars, configured, envVars>>

(* A locked section that ends in a store: bl_usb_rx() granting credit, or   *)
(* a kick of the transmitter, which then owes the host bytes.               *)
WorkLocked ==
  /\ pc = "work"
  /\ masked' = TRUE
  /\ pc' = "locked"
  /\ \/ \E response \in Responses : Call("thread", "R_RES", response)
     \/ configured /\ Call("thread", "T_RES", "ACK")
  /\ UNCHANGED <<svc, nvicVars, driverVars, configured, envVars>>

Unlock ==
  /\ pc = "locked"
  /\ rmw["thread"].at = "out"
  /\ masked' = FALSE
  /\ pc' = "poll"
  /\ UNCHANGED <<regVars, svc, nvicVars, driverVars, configured, envVars>>

(* pump(): the host takes nothing for FW_TX_STALL_MS. *)
WorkStalls ==
  /\ pc = "work"
  /\ usb_irq_on
  /\ TxPending
  /\ Disarm
  /\ pc' = "poll"
  /\ UNCHANGED <<regVars, masked, svc, entered, happened, configured,
                 envVars>>

ThreadRmw ==
  /\ Rmw("thread")
  /\ UNCHANGED <<threadVars, svc, nvicVars, driverVars, configured, envVars>>

Thread ==
  /\ ~InHandler
  /\ \/ Poll \/ Service("thread") \/ ThreadRmw
     \/ TickDead \/ TickArm \/ TickPolled \/ TickArmed \/ TickWedge
     \/ ArmSeen \/ ArmSet \/ ArmFails
     \/ WorkElsewhere \/ WorkLocked \/ Unlock \/ WorkStalls

------------------------------------------------------------------------------
(* The SIE, the host, and what may go wrong with the interrupt line.        *)

Arming == pc \in {"arm_spin", "arm_set"}

One(condition) == IF condition THEN 1 ELSE 0

(* The handler's limits are out of reach while the thread is arming: 20000  *)
(* entries do not fit between two of its instructions.                      *)
MayRaise ==
  \/ DemotedWhileArming
  \/ ~Arming
  \/ burst + One(pended) + One(flag) + One(bus_rst) + 2 < BurstLimit

Transaction ==
  /\ MayRaise
  /\ \/ configured /\ ~bus_rst /\ (SieIn \/ SieOut \/ SieOutAgain)
     \/ SieEp0
  /\ UNCHANGED <<threadVars, svc, nvicVars, driverVars, configured, envVars>>

HostResets ==
  /\ MayRaise
  /\ ~bus_rst
  /\ bus_rst' = TRUE
  /\ UNCHANGED <<regVars, threadVars, svc, nvicVars, driverVars, configured, line>>

SourceSticks ==
  /\ DemotedWhileArming \/ usb_irq_on
  /\ line = "follows"
  /\ line' = "held"
  /\ UNCHANGED <<regVars, threadVars, svc, nvicVars, driverVars, configured, bus_rst>>

LineDies ==
  /\ line = "follows"
  /\ line' = "dead"
  /\ UNCHANGED <<regVars, threadVars, svc, nvicVars, driverVars, configured, bus_rst>>

Environment == Transaction \/ HostResets \/ SourceSticks \/ LineDies

Next == Thread \/ Handler \/ Environment

Spec == Init /\ [][Next]_vars

(* The thread goes on whenever it is not preempted; an interrupt that is    *)
(* raised when the mask is lifted is taken there; what the thread finds     *)
(* overdue at every look it gives up at one of them.                        *)
Fairness ==
  /\ WF_vars(Thread)
  /\ SF_vars(Handler)
  /\ SF_vars(~InHandler /\ TickWedge)

FairSpec == Spec /\ Fairness

------------------------------------------------------------------------------
Places == {"poll", "serve", "tick", "arm_spin", "arm_set", "work", "locked"}

(* Every variable stays within the values the code's types and limits give  *)
(* it; the handler's counters in particular never pass their limits.        *)
TypeOK ==
  /\ ctrl \in Registers
  /\ {unserved, masked, nvic_on, pended, bus_rst,
      usb_irq_on, fault, entered, happened, configured} \subseteq BOOLEAN
  /\ latched \in Tokens \cup {"NONE"}
  /\ rmw \in [Contexts -> [at : {"out", "check", "read", "recheck", "store", "verify"},
                            field : Fields, to : Responses, pass : 0..1,
                            val : Registers]]
  /\ seq \in [R_TOG : 0..1, T_TOG : 0..1]
  /\ asked \in [Fields -> Responses]
  /\ pc \in Places
  /\ line \in Lines
  /\ svc \in [Contexts -> [kind : Tokens \cup {"out", "bus", "other"},
                            cleared : BOOLEAN, writes : 0..MaxWrites]]
  /\ idle_entries \in 0..(IdleLimit - 1)
  /\ burst \in 0..(BurstLimit - 1)

(* Whenever the SIE may run, the toggles in the register are those the two  *)
(* ends of the bus agree on: no store of uep2_ctrl_rmw(), from either       *)
(* context and across any transaction, leaves an old toggle behind.         *)
TogglesInStep ==
  ~flag => ctrl.R_TOG = seq.R_TOG /\ ctrl.T_TOG = seq.T_TOG

(* No store is lost: when nothing is being written in a direction, the      *)
(* register holds the response last asked for it.  The fall-through the     *)
(* comment at the end of uep2_ctrl_rmw() calls unreachable is so, and the   *)
(* two contexts never overwrite each other's field.                         *)
ResponsesAsAsked ==
  \A field \in Fields :
    (\A c \in Contexts : rmw[c].at = "out" \/ rmw[c].field # field)
      => ctrl[field] = asked[field]

(* usb_service() is never in progress in the thread and in the handler at   *)
(* once: "not a race a lock can paper over" (bl_usb_poll).                  *)
OneServer == ~(Serving("thread") /\ Serving("handler"))

(* A transaction the SIE has latched keeps its flag until usb_service() has *)
(* looked at it: no path clears the flag a second time.                     *)
NoEventSwallowed == unserved => flag

(* usb_irq_on says that IRQ6 owns the SIE: it is enabled, and it has not    *)
(* been found faulty.  Otherwise neither the handler nor bl_usb_poll()      *)
(* serves the bus.                                                          *)
IrqOwnsTheSie == usb_irq_on => nvic_on /\ ~fault

(* The transport is sound: the counters stay below their limits, one        *)
(* context serves at a time, and the one usb_irq_on names can.              *)
TransportSound == TypeOK /\ OneServer /\ IrqOwnsTheSie

(* Every latched transaction is served in the end, through every change of  *)
(* transport, unless the interrupt line is dead while nothing is being      *)
(* sent: the one case the watchdog does not look at.                        *)
EventsServed == unserved ~> (~unserved \/ (line = "dead" /\ ~TxPending))

(* No flood of interrupts, and no source that is never cleared, starves the *)
(* main loop for ever.                                                      *)
MainLoopRuns == []<>(pc = "poll") /\ []<>(pc = "work")
=============================================================================
