--------------------------- MODULE CartBusProofs ---------------------------
(* Theorems about CartBus, for every cartridge, address, transfer and payload. *)
(*                                                                             *)
(* A command is a sequence of stores it builds before it makes the first, so   *)
(* whether a store is in order depends on the ones before it.  The proof says  *)
(* in a Mode what is known of the bus between two stores (the phase of its     *)
(* power, the lines that are low, the direction of each port, how far an       *)
(* EEPROM's frame has come, the poll in hand), in Ok which store is in order   *)
(* in which mode and what mode it leaves, and in GoodRun that a sequence is in *)
(* order from a mode to another.  It has three parts:                          *)
(*   - each routine of BusCycles and each command of CartBus is a GoodRun, by  *)
(*     putting runs one after the other (Then) and by induction over the       *)
(*     length of the ones that are built by a fold;                            *)
(*   - a store in order takes pins and cartridge that fit its mode to ones     *)
(*     that fit the mode it leaves;                                            *)
(*   - IInv, that the bus fits a mode from which what is left of the command   *)
(*     is a GoodRun to the mode the command ends in, holds in every state, and *)
(*     every mode of a GoodRun is Calm, which is what the properties say.      *)
(*                                                                             *)
(* AsAsked, which compares what the cartridge saw with what the host meant,    *)
(* value by value, is left to TLC.                                             *)
EXTENDS CartBus, TLAPS, FiniteSetTheorems, WellFoundedInduction, NaturalsInduction

(* The lines a live bus drives throughout, and the cartridges of either side. *)
Four == {"cs", "cs2", "rd", "wr"}
AgbKinds == {"agb_sram", "agb_flash", "agb_eep", "agb_3d", "agb_rtc"}
DmgKinds == {"dmg", "dmg_audio"}

(* What is known of the bus between two stores.                                *)
(*   bus  "live": powered, its four lines driven; "bare": the rail is on and   *)
(*        the lines are not; "high": their levels are set; "rel": released;    *)
(*        "off": no rail; "boot" and "dead": before and after the first        *)
(*        levels of start-up, the rail off                                     *)
(*   on   the lines of Four that are low (/RD perhaps is)                      *)
(*   au   AUDIO released, driven high, or either or low                        *)
(*   pa   PA released, driven, driven but for AD0, or any of these             *)
(*   hi   the low byte of PB released, driven, or either; hv its value         *)
(*   eep  no frame; an unread one begun by a ROM cycle; selected, n bits in;   *)
(*        a whole read command in; its answer on AD0                           *)
(*   n    the write strobes since /CS fell                                     *)
(*   q    no poll, a poll's first sample, or a later one                       *)
Phases == {"live", "bare", "high", "rel", "off", "dead", "boot"}
Levels == {"in", "high"}
Frames == {"rest", "rom", "sel", "ready", "answer"}
Polled == {"no", "first", "more"}
Mode == [bus : Phases, on : SUBSET Four, au : Levels \cup {"any"},
         pa : {"in", "out", "ad0in", "any"}, hi : {"in", "out", "any"},
         hv : {"zero", "top", "any"}, eep : Frames, n : Nat, q : Polled]

(* The stores, and the sequences of them. *)
Regs == {"PA_OUT", "PA_AD0", "PA_DIR", "AD0_DIR", "HI_CLR", "HI_OUT", "HI_DIR", "PB_CLR",
         "PB_OUT", "PB_DIR", "VCC_EN", "PA_PIN", "PB_PIN", "AD0_PIN"} \cup Polls \cup Checks
StoreRec == [reg : Regs, n : Nat, ls : SUBSET Lines]
Prog == Seq(StoreRec)

(* A write strobe may be low: /WR, or AUDIO where it is the flash's /WE. *)
Strobe(g, m) ==
  IF g \in AgbKinds THEN "wr" \in m.on /\ ("cs" \in m.on \/ "cs2" \in m.on)
  ELSE "wr" \in m.on \/ (g = "dmg_audio" /\ m.au = "any")

(* What a mode of a live bus has to say so that no line has two drivers and    *)
(* nothing moves under a write strobe.  PA is released, or held by an EEPROM   *)
(* cycle, wherever the cartridge drives it; so is the byte of PB, but for the  *)
(* first sample of a save chip's poll, whose read lowers /RD before it turns   *)
(* the port.                                                                   *)
Calm(g, m) ==
  m.bus = "live" =>
    /\ g \in AgbKinds /\ "cs" \in m.on /\ "rd" \in m.on =>
         m.pa = "in" \/ (g = "agb_eep" /\ m.eep \in {"sel", "answer"})
    /\ m.eep = "answer" => m.pa \in {"in", "ad0in"}
    /\ g \in AgbKinds /\ "cs2" \in m.on /\ "rd" \in m.on =>
         m.hi = "in" \/ (m.q = "first" /\ "cs" \notin m.on)
    /\ g \in DmgKinds /\ "rd" \in m.on => m.hi = "in"
    /\ Strobe(g, m) => m.pa \in {"out", "ad0in"} /\ m.hi = "out" /\ "rd" \notin m.on

(* The mode m says at least what n says. *)
Le(m, n) ==
  /\ n.bus = m.bus /\ n.eep = m.eep /\ n.n = m.n /\ n.q = m.q
  /\ n.on = m.on \/ n.on = m.on \cup {"rd"}
  /\ n.au \in {m.au, "any"} /\ n.pa \in {m.pa, "any"}
  /\ n.hi \in {m.hi, "any"} /\ n.hv \in {m.hv, "any"}

(* The modes the routines and the commands begin and end in, by name. *)
At(bus, on, au, pa, hi, hv, eep, n, q) ==
  [bus |-> bus, on |-> on, au |-> au, pa |-> pa, hi |-> hi, hv |-> hv, eep |-> eep,
   n |-> n, q |-> q]

Live(on, au, pa, hi, hv, eep, n, q) ==
  [bus |-> "live", on |-> on, au |-> au, pa |-> pa, hi |-> hi, hv |-> hv, eep |-> eep,
   n |-> n, q |-> q]

Rest(g, au, q) ==
  Live({}, au, "any", IF g \in DmgKinds THEN "in" ELSE "any", "any", "rest", 0, q)
Page(au, q) == Live({"cs"}, au, "in", "any", "any", "rom", 0, q)
Held(au, q) == Live({}, au, "out", "out", "any", "rest", 0, q)
Aimed(au, h, q) == Live({}, au, "out", h, "any", "rest", 0, q)
Loose(au, q) == Live({}, au, "any", "any", "any", "rest", 0, q)
Reading(au, q) == Live({"rd"}, au, "out", "in", "any", "rest", 0, q)
Picked(au, on, n, q) ==
  Live(on, au, "out", "out", "any", IF "cs" \in on THEN "rom" ELSE "rest", n, q)
EepHeld(au) == Live({}, au, "out", "out", "top", "rest", 0, "no")
Frame(au, n) == Live({"cs"}, au, "out", "out", "top", "sel", n, "no")
Answer(au) == Live({"cs"}, au, "ad0in", "out", "top", "answer", 0, "no")
RestOff == At("off", {}, "in", "in", "in", "any", "rest", 0, "no")
RestDead == At("dead", {}, "in", "in", "in", "any", "rest", 0, "no")
Booting == At("boot", {}, "in", "in", "in", "any", "rest", 0, "no")

(* What /CS falling can make of the frame: the answer to a whole read command  *)
(* where the address is the EEPROM's, else a new frame or a ROM cycle.         *)
LatchesTo(m) ==
  IF m.eep = "ready"
  THEN IF m.hv = "top" /\ m.hi = "out" /\ m.pa \in {"out", "ad0in"} THEN {"answer"} ELSE {}
  ELSE IF m.eep # "rest" THEN {}
  ELSE {"rom"} \cup (IF m.hv = "top" /\ m.hi = "out" /\ m.pa \in {"out", "ad0in"}
                     THEN {"sel"} ELSE {})

(* Lines go low: one at a time, on a live bus; AUDIO may be released. *)
Lowered(g, m, ls, n) ==
  \/ ls = {"clk"} /\ Le(m, n)
  \/ ls = {"audio"} /\ m.bus = "live"
       /\ Le([m EXCEPT !.au = IF @ = "in" THEN @ ELSE "any"], n)
  \/ \E l \in {"cs2", "rd", "wr"} :
       ls = {l} /\ m.bus = "live" /\ Le([m EXCEPT !.on = @ \cup {l}], n)
  \/ /\ ls = {"cs"} /\ m.bus = "live" /\ "cs" \notin m.on
     /\ \E x \in LatchesTo(m) : Le([m EXCEPT !.on = @ \cup {"cs"}, !.eep = x, !.n = 0], n)

(* /CS rises: the frame is over, unless it is a whole read command's; and /WR  *)
(* rises, a bit further into the frame.                                        *)
CsRaised(m) ==
  IF m.eep = "sel" /\ m.n = EepAddrBits + 3
  THEN [m EXCEPT !.on = @ \ {"cs"}, !.eep = "ready", !.n = 0]
  ELSE [m EXCEPT !.on = @ \ {"cs"}, !.eep = "rest", !.n = 0]

WrRaised(m) ==
  IF "wr" \in m.on /\ "cs" \in m.on THEN [m EXCEPT !.on = @ \ {"wr"}, !.n = @ + 1]
  ELSE [m EXCEPT !.on = @ \ {"wr"}]

(* Lines go high.  /CS does only after /WR, and ends a ROM cycle of at most    *)
(* one write, or it would be a frame to an EEPROM; all of them do at rest.     *)
Raised(g, m, ls, n) ==
  \/ ls = {"clk"} /\ Le(m, n)
  \/ \E x \in {"high", m.au} :
       ls = {"audio"} /\ m.bus = "live" /\ (x = "high" \/ m.au = "in") /\ Le([m EXCEPT !.au = x], n)
  \/ \E l \in {"cs2", "rd"} :
       ls = {l} /\ m.bus = "live" /\ Le([m EXCEPT !.on = @ \ {l}], n)
  \/ /\ ls = {"wr"} /\ m.bus = "live"
     /\ "cs" \in m.on => m.eep \in {"rom", "sel"}
     /\ g = "agb_eep" /\ "cs" \in m.on => "cs2" \notin m.on
     /\ Le(WrRaised(m), n)
  \/ /\ ls = {"cs"} /\ m.bus = "live" /\ "cs" \in m.on /\ m.eep \in {"rom", "sel", "answer"}
     /\ "wr" \notin m.on /\ (m.eep = "rom" => m.n <= 1)
     /\ Le(CsRaised(m), n)
  \/ /\ ls = Idle /\ m.on = {} /\ m.eep = "rest" /\ m.au \in {"in", "high"}
     /\ \/ m.bus = "live" /\ Le(m, n)
        \/ m.bus = "bare" /\ \E x \in {"high", m.au} :
             (x = "high" \/ m.au = "in") /\ Le([m EXCEPT !.bus = "high", !.au = x], n)
        \/ m.bus = "boot" /\ Le([m EXCEPT !.bus = "dead"], n)

(* Lines are driven: AUDIO, or all four once their levels are high. *)
Driven(g, m, ls, n) ==
  \/ ls = {"audio"} /\ m.bus = "live" /\ Le([m EXCEPT !.au = IF @ = "high" THEN @ ELSE "any"], n)
  \/ ls = Four /\ m.bus = "high" /\ m.on = {} /\ m.eep = "rest" /\ Le([m EXCEPT !.bus = "live"], n)
  \/ ls = Four \cup {"clk"} /\ m.bus = "boot" /\ Le(m, n)

(* Lines are released: AUDIO, or all of them, at rest, before the rail goes. *)
Released(g, m, ls, n) ==
  \/ ls = {"audio"} /\ m.bus \in {"live", "boot"} /\ Le([m EXCEPT !.au = "in"], n)
  \/ /\ ls = Idle /\ m.bus = "live" /\ m.on = {} /\ m.eep = "rest"
     /\ Le([m EXCEPT !.bus = "rel", !.au = "in"], n)

(* The rail goes on at rest, and off with every line and port released. *)
Switched(g, m, on, n) ==
  \/ /\ on = 1 /\ m.bus \in {"live", "off", "dead"} /\ m.on = {} /\ m.eep = "rest"
     /\ m.au \in {"in", "high"} /\ Le([m EXCEPT !.bus = "bare"], n)
  \/ on = 0 /\ m.bus = "rel" /\ m.pa = "in" /\ m.hi = "in" /\ Le([m EXCEPT !.bus = "off"], n)
  \/ on = 0 /\ m.bus = "dead" /\ Le(m, n)

(* A port takes a value its width holds. *)
Valued(m, s, n) ==
  /\ m.bus = "live"
  /\ \/ s.reg = "PA_OUT" /\ s.n \in 0 .. LoSize - 1 /\ Le(m, n)
     \/ s.reg = "PA_AD0" /\ s.n \in {0, 1} /\ Le(m, n)
     \/ s.reg = "HI_CLR" /\ Le([m EXCEPT !.hv = "zero"], n)
     \/ /\ s.reg = "HI_OUT" /\ s.n \in 0 .. HiSize - 1
        /\ Le([m EXCEPT !.hv = IF @ = "zero" /\ s.n = HiSize - 1 THEN "top" ELSE "any"], n)

(* A port is turned; AD0 alone only while the rest of PA drives. *)
Turned(m, s, n) ==
  \/ s.reg = "PA_DIR" /\ s.n = 1 /\ m.bus = "live" /\ Le([m EXCEPT !.pa = "out"], n)
  \/ s.reg = "PA_DIR" /\ s.n = 0 /\ m.bus \in {"live", "rel", "dead"}
       /\ Le([m EXCEPT !.pa = "in"], n)
  \/ s.reg = "AD0_DIR" /\ s.n = 1 /\ m.bus = "live" /\ m.pa \in {"out", "ad0in"}
       /\ Le([m EXCEPT !.pa = "out"], n)
  \/ s.reg = "AD0_DIR" /\ s.n = 0 /\ m.bus = "live" /\ m.pa \in {"out", "ad0in"}
       /\ Le([m EXCEPT !.pa = "ad0in"], n)
  \/ s.reg = "HI_DIR" /\ s.n = 1 /\ m.bus = "live" /\ Le([m EXCEPT !.hi = "out"], n)
  \/ s.reg = "HI_DIR" /\ s.n = 0 /\ m.bus \in {"live", "dead"} /\ Le([m EXCEPT !.hi = "in"], n)

(* A poll decides: another sample may be due, in the mode it leaves the bus    *)
(* in, or the command's tail, at rest.                                         *)
Awaited(g, T, m, s, n) ==
  /\ m.bus = "live" /\ m.on = {} /\ m.eep = "rest" /\ m.n = 0 /\ m.au \in Levels
  /\ \/ /\ s.reg = "POLL_SAVE" /\ g = "agb_flash" /\ m.pa = "out"
        /\ m.q = "no" \/ (m.hi = "in" /\ m.q \in {"first", "more"})
        /\ Le([m EXCEPT !.hi = "any", !.hv = "any", !.q = "no"], n)
     \/ /\ \/ s.reg = "POLL_ROM" /\ g = "agb_flash" /\ m.q \in {"no", "first"}
           \/ s.reg = "POLL_DMG" /\ g \in DmgKinds /\ m.q = "no"
           \/ s.reg = "POLL_DMG" /\ g \in DmgKinds /\ m.pa = "out" /\ m.hi = "in" /\ m.q = "first"
        /\ Rest(g, m.au, "no") \in T /\ Le(Rest(g, m.au, "no"), n)

(* The store s is in order in mode m and leaves mode n.  T is where the     *)
(* command's tail may start.                                               *)
Ok(g, T, m, s, n) ==
  /\ Strobe(g, m) => s.reg \in {"PB_CLR", "PB_OUT"}
  /\ \/ Valued(m, s, n)
     \/ Turned(m, s, n)
     \/ s.reg = "PB_CLR" /\ Lowered(g, m, s.ls, n)
     \/ s.reg = "PB_OUT" /\ Raised(g, m, s.ls, n)
     \/ s.reg = "PB_DIR" /\ s.n = 1 /\ Driven(g, m, s.ls, n)
     \/ s.reg = "PB_DIR" /\ s.n = 0 /\ Released(g, m, s.ls, n)
     \/ s.reg = "VCC_EN" /\ Switched(g, m, s.n, n)
     \/ s.reg \in {"PA_PIN", "PB_PIN", "AD0_PIN", "PAGE_WAIT"} /\ Le(m, n)
     \/ s.reg \in Checks /\ (g \in DmgKinds => m.q = "first") /\ Le(m, n)
     \/ Awaited(g, T, m, s, n)

(* The sequence p is in order from mode m to mode e: there is a mode between   *)
(* every two stores in which the next is in order, and all of them are calm.   *)
GoodRun(g, T, m, p, e) ==
  /\ p \in Prog
  /\ \E tr \in [0 .. Len(p) -> Mode] :
       /\ Le(m, tr[0]) /\ Le(tr[Len(p)], e)
       /\ \A k \in 0 .. Len(p) : Calm(g, tr[k])
       /\ \A k \in 1 .. Len(p) : Ok(g, T, tr[k - 1], p[k], tr[k])

-----------------------------------------------------------------------------
(* A mode says as much as itself. *)
LEMMA LeRefl == ASSUME NEW m PROVE Le(m, m)
  BY DEF Le

(* Saying no less is transitive. *)
LEMMA LeTrans == ASSUME NEW a, NEW b, NEW c, Le(a, b), Le(b, c) PROVE Le(a, c)
  BY DEF Le

(* A store in order is in order for a mode that says less of what it leaves. *)
LEMMA OkLe ==
  ASSUME NEW g, NEW T, NEW m, NEW s, NEW n, NEW e, Ok(g, T, m, s, n), Le(n, e)
  PROVE  Ok(g, T, m, s, e)
<1>1. \A x : Le(x, n) => Le(x, e)
  BY LeTrans
<1>2. ASSUME NEW ls, Lowered(g, m, ls, n) PROVE Lowered(g, m, ls, e)
  BY <1>1, <1>2 DEF Lowered
<1>3. ASSUME NEW ls, Raised(g, m, ls, n) PROVE Raised(g, m, ls, e)
  BY <1>1, <1>3 DEF Raised
<1>4. ASSUME NEW ls, Driven(g, m, ls, n) PROVE Driven(g, m, ls, e)
  BY <1>1, <1>4 DEF Driven
<1>5. ASSUME NEW ls, Released(g, m, ls, n) PROVE Released(g, m, ls, e)
  BY <1>1, <1>5 DEF Released
<1>6. ASSUME NEW on, Switched(g, m, on, n) PROVE Switched(g, m, on, e)
  BY <1>1, <1>6 DEF Switched
<1>7. Valued(m, s, n) => Valued(m, s, e)
  BY <1>1 DEF Valued
<1>8. Turned(m, s, n) => Turned(m, s, e)
  BY <1>1 DEF Turned
<1>9. Awaited(g, T, m, s, n) => Awaited(g, T, m, s, e)
  BY <1>1 DEF Awaited
<1> QED
  BY <1>1, <1>2, <1>3, <1>4, <1>5, <1>6, <1>7, <1>8, <1>9 DEF Ok

(* The empty program leaves the bus where it is. *)
LEMMA Skip == ASSUME NEW g, NEW T, NEW m \in Mode, NEW e, Le(m, e), Calm(g, m)
              PROVE  GoodRun(g, T, m, << >>, e)
<1> DEFINE tr == [k \in 0 .. 0 |-> m]
<1>1. tr \in [0 .. Len(<< >>) -> Mode] /\ tr[0] = m /\ Len(<< >>) = 0
  OBVIOUS
<1>2. << >> \in Prog
  BY DEF Prog
<1>3. \A k \in 0 .. Len(<< >>) : Calm(g, tr[k])
  BY <1>1
<1> HIDE DEF tr
<1>4. Le(m, tr[0]) /\ Le(tr[Len(<< >>)], e)
  BY <1>1, LeRefl
<1>5. \A k \in 1 .. Len(<< >>) : Ok(g, T, tr[k - 1], << >>[k], tr[k])
  BY <1>1
<1> QED
  BY <1>1, <1>2, <1>3, <1>4, <1>5 DEF GoodRun

(* A program of one store. *)
LEMMA One ==
  ASSUME NEW g, NEW T, NEW m \in Mode, NEW s \in StoreRec, NEW e \in Mode,
         Calm(g, m), Calm(g, e), Ok(g, T, m, s, e)
  PROVE  GoodRun(g, T, m, <<s>>, e)
<1> DEFINE tr == [k \in 0 .. 1 |-> IF k = 0 THEN m ELSE e]
<1>1. tr \in [0 .. Len(<<s>>) -> Mode] /\ tr[0] = m /\ tr[1] = e /\ Len(<<s>>) = 1
  OBVIOUS
<1>2. <<s>> \in Prog
  BY DEF Prog
<1> HIDE DEF tr
<1>3. \A k \in 0 .. Len(<<s>>) : Calm(g, tr[k])
  BY <1>1
<1>4. Le(m, tr[0]) /\ Le(tr[Len(<<s>>)], e)
  BY <1>1, LeRefl
<1>5. \A k \in 1 .. Len(<<s>>) : Ok(g, T, tr[k - 1], <<s>>[k], tr[k])
  BY <1>1
<1> QED
  BY <1>1, <1>2, <1>3, <1>4, <1>5 DEF GoodRun

(* A program may begin with more said and end with less. *)
LEMMA WeakenRun ==
  ASSUME NEW g, NEW T, NEW m, NEW p, NEW e, NEW m2, NEW e2,
         GoodRun(g, T, m, p, e), Le(m2, m), Le(e, e2)
  PROVE  GoodRun(g, T, m2, p, e2)
  BY LeTrans DEF GoodRun

(* A program after another. *)
LEMMA Then ==
  ASSUME NEW g, NEW T, NEW m, NEW p, NEW x, NEW r, NEW e,
         GoodRun(g, T, m, p, x), GoodRun(g, T, x, r, e)
  PROVE  GoodRun(g, T, m, p \o r, e)
<1>1. p \in Prog /\ r \in Prog /\ p \o r \in Prog /\ Len(p) \in Nat /\ Len(r) \in Nat
      /\ Len(p \o r) = Len(p) + Len(r)
  BY DEF GoodRun, Prog
<1>2. PICK t \in [0 .. Len(p) -> Mode] :
        /\ Le(m, t[0]) /\ Le(t[Len(p)], x)
        /\ \A k \in 0 .. Len(p) : Calm(g, t[k])
        /\ \A k \in 1 .. Len(p) : Ok(g, T, t[k - 1], p[k], t[k])
  BY DEF GoodRun
<1>3. PICK u \in [0 .. Len(r) -> Mode] :
        /\ Le(x, u[0]) /\ Le(u[Len(r)], e)
        /\ \A k \in 0 .. Len(r) : Calm(g, u[k])
        /\ \A k \in 1 .. Len(r) : Ok(g, T, u[k - 1], r[k], u[k])
  BY DEF GoodRun
<1> DEFINE tr == [k \in 0 .. Len(p) + Len(r) |-> IF k < Len(p) THEN t[k] ELSE u[k - Len(p)]]
<1>4. tr \in [0 .. Len(p) + Len(r) -> Mode]
  BY <1>1
<1>5. Le(m, tr[0])
  <2>1. CASE Len(p) = 0
    <3>1. tr[0] = u[0]
      BY <2>1, <1>1
    <3>2. Le(m, t[0]) /\ Le(t[0], x) /\ Le(x, u[0])
      BY <2>1, <1>2, <1>3
    <3> QED
      BY <3>1, <3>2, LeTrans
  <2>2. CASE Len(p) # 0
    BY <2>2, <1>1, <1>2
  <2> QED
    BY <2>1, <2>2
<1>6. Le(tr[Len(p) + Len(r)], e)
  BY <1>1, <1>3
<1>7. \A k \in 0 .. Len(p) + Len(r) : Calm(g, tr[k])
  BY <1>1, <1>2, <1>3
<1>8. ASSUME NEW k \in 1 .. Len(p) + Len(r)
      PROVE  Ok(g, T, tr[k - 1], (p \o r)[k], tr[k])
  <2>1. CASE k < Len(p)
    <3>1. tr[k - 1] = t[k - 1] /\ tr[k] = t[k] /\ (p \o r)[k] = p[k] /\ k \in 1 .. Len(p)
      BY <2>1, <1>1 DEF Prog
    <3> QED
      BY <3>1, <1>2
  <2>2. CASE k = Len(p)
    <3>1. tr[k - 1] = t[k - 1] /\ tr[k] = u[0] /\ (p \o r)[k] = p[k] /\ k \in 1 .. Len(p)
      BY <2>2, <1>1 DEF Prog
    <3>2. Ok(g, T, t[k - 1], p[k], t[k]) /\ Le(t[k], x) /\ Le(x, u[0])
      BY <3>1, <2>2, <1>2, <1>3
    <3>3. Le(t[k], u[0])
      BY <3>2, LeTrans
    <3>4. Ok(g, T, t[k - 1], p[k], u[0])
      BY <3>2, <3>3, OkLe
    <3> QED
      BY <3>1, <3>4
  <2>3. CASE k > Len(p)
    <3>1. tr[k - 1] = u[(k - Len(p)) - 1] /\ tr[k] = u[k - Len(p)] /\ (p \o r)[k] = r[k - Len(p)]
          /\ k - Len(p) \in 1 .. Len(r)
      BY <2>3, <1>1 DEF Prog
    <3> QED
      BY <3>1, <1>3
  <2> QED
    BY <2>1, <2>2, <2>3, <1>1
<1> HIDE DEF tr
<1> QED
  BY <1>1, <1>4, <1>5, <1>6, <1>7, <1>8 DEF GoodRun

(* What is left of a program after its first store. *)
LEMMA FirstStore ==
  ASSUME NEW g, NEW T, NEW m, NEW p, NEW e, GoodRun(g, T, m, p, e), p # << >>
  PROVE  \E x \in Mode, n \in Mode :
           Le(m, x) /\ Calm(g, x) /\ Ok(g, T, x, Head(p), n) /\ Calm(g, n)
           /\ GoodRun(g, T, n, Tail(p), e)
<1>1. PICK t \in [0 .. Len(p) -> Mode] :
        /\ Le(m, t[0]) /\ Le(t[Len(p)], e)
        /\ \A k \in 0 .. Len(p) : Calm(g, t[k])
        /\ \A k \in 1 .. Len(p) : Ok(g, T, t[k - 1], p[k], t[k])
  BY DEF GoodRun
<1>2. p \in Prog /\ Len(p) \in Nat \ {0} /\ Head(p) = p[1] /\ Tail(p) \in Prog
      /\ Len(Tail(p)) = Len(p) - 1 /\ \A k \in 1 .. Len(p) - 1 : Tail(p)[k] = p[k + 1]
  BY DEF GoodRun, Prog
<1> DEFINE u == [k \in 0 .. Len(Tail(p)) |-> t[k + 1]]
<1>3. u \in [0 .. Len(Tail(p)) -> Mode] /\ u[0] = t[1] /\ u[Len(Tail(p))] = t[Len(p)]
  BY <1>2
<1>4. \A k \in 0 .. Len(Tail(p)) : Calm(g, u[k])
  BY <1>1, <1>2
<1>5. ASSUME NEW k \in 1 .. Len(Tail(p))
      PROVE  Ok(g, T, u[k - 1], Tail(p)[k], u[k])
  <2>1. u[k - 1] = t[(k + 1) - 1] /\ u[k] = t[k + 1] /\ Tail(p)[k] = p[k + 1]
        /\ k + 1 \in 1 .. Len(p)
    BY <1>2
  <2> QED
    BY <2>1, <1>1
<1> HIDE DEF u
<1>6. GoodRun(g, T, t[1], Tail(p), e)
  BY <1>1, <1>2, <1>3, <1>4, <1>5, LeRefl DEF GoodRun
<1>7. Ok(g, T, t[1 - 1], p[1], t[1]) /\ t[0] \in Mode /\ t[1] \in Mode /\ Calm(g, t[0])
      /\ Calm(g, t[1])
  BY <1>1, <1>2
<1> QED
  BY <1>1, <1>2, <1>6, <1>7

(* A program written out: the modes between its stores. *)
LEMMA Straight ==
  ASSUME NEW g, NEW T, NEW p \in Prog, NEW tr, NEW e,
         tr \in Seq(Mode), Len(tr) = Len(p) + 1,
         \A k \in 1 .. Len(tr) : Calm(g, tr[k]),
         \A k \in 1 .. Len(p) : Ok(g, T, tr[k], p[k], tr[k + 1]),
         Le(tr[Len(tr)], e)
  PROVE  GoodRun(g, T, tr[1], p, e)
<1> DEFINE u == [k \in 0 .. Len(p) |-> tr[k + 1]]
<1>1. Len(p) \in Nat
  BY DEF Prog
<1>2. u \in [0 .. Len(p) -> Mode] /\ u[0] = tr[1] /\ u[Len(p)] = tr[Len(tr)]
  BY <1>1
<1>3. \A k \in 0 .. Len(p) : Calm(g, u[k])
  BY <1>1
<1>4. \A k \in 1 .. Len(p) : u[k - 1] = tr[k] /\ u[k] = tr[k + 1]
  BY <1>1
<1> HIDE DEF u
<1> QED
  BY <1>2, <1>3, <1>4, LeRefl DEF GoodRun
-----------------------------------------------------------------------------
(* Induction over the numbers of a set. *)
LEMMA SetInduction ==
  ASSUME NEW S \in SUBSET Nat, 0 \in S, \A n \in S : n + 1 \in S
  PROVE  S = Nat
<1> DEFINE U == Nat \ S
<1>1. SUFFICES ASSUME U # {} PROVE FALSE
  OBVIOUS
<1>2. U \subseteq Nat
  OBVIOUS
<1> HIDE DEF U
<1>3. PICK x \in U : \A y \in U : ~ (<<y, x>> \in OpToRel(<, Nat))
  BY <1>1, <1>2, NatLessThanWellFounded, WFMin
<1>4. x \in Nat /\ x # 0
  BY <1>2 DEF U
<1>5. x - 1 \in Nat /\ x - 1 + 1 = x
  BY <1>4
<1>6. x - 1 \in S
  <2>1. SUFFICES ASSUME x - 1 \notin S PROVE FALSE
    OBVIOUS
  <2>2. x - 1 \in U
    BY <1>5, <2>1 DEF U
  <2>3. <<x - 1, x>> \in OpToRel(<, Nat)
    BY <1>4, <1>5 DEF OpToRel
  <2> QED
    BY <2>2, <2>3, <1>3
<1> QED
  BY <1>5, <1>6 DEF U

(* FlattenSeq is defined by a recursive function: there is one. *)
LEMMA FlattenIs ==
  ASSUME NEW ss, NEW n \in Nat \ {0}, Len(ss) = n
  PROVE  \E f : /\ FlattenSeq(ss) = f[n]
                /\ f[1] = ss[1]
                /\ \A i \in 2 .. n : f[i] = f[i - 1] \o ss[i]
<1> DEFINE Eq(f, k) == /\ f = [i \in 1 .. n |-> f[i]] /\ f[1] = ss[1]
                       /\ \A i \in 2 .. n : i <= k => f[i] = f[i - 1] \o ss[i]
           S == {k \in Nat : \E f : Eq(f, k)}
<1>1. 0 \in S
  <2> DEFINE f0 == [i \in 1 .. n |-> ss[1]]
  <2>1. f0 = [i \in 1 .. n |-> f0[i]] /\ f0[1] = ss[1]
    OBVIOUS
  <2>2. \A i \in 2 .. n : ~ (i <= 0)
    OBVIOUS
  <2> HIDE DEF f0
  <2>3. Eq(f0, 0)
    BY <2>1, <2>2
  <2> HIDE DEF Eq
  <2> QED
    BY <2>3
<1>2. ASSUME NEW k \in S PROVE k + 1 \in S
  <2>1. PICK f : Eq(f, k)
    OBVIOUS
  <2>2. k \in Nat
    OBVIOUS
  <2> DEFINE h == [i \in 1 .. n |-> IF i = k + 1 /\ i > 1 THEN f[k] \o ss[i] ELSE f[i]]
  <2>3. Eq(h, k + 1)
    <3>1. h[1] = ss[1]
      BY <2>1, <2>2
    <3>2. ASSUME NEW i \in 2 .. n, i <= k + 1 PROVE h[i] = h[i - 1] \o ss[i]
      <4>1. CASE i = k + 1
        <5>1. i \in 1 .. n /\ i > 1 /\ i - 1 \in 1 .. n /\ i - 1 # k + 1 /\ i - 1 = k
          BY <4>1, <2>2
        <5>2. h[i] = f[k] \o ss[i]
          BY <4>1, <5>1
        <5>3. h[i - 1] = f[i - 1]
          BY <5>1
        <5> QED
          BY <5>1, <5>2, <5>3
      <4>2. CASE i <= k
        <5>1. i \in 1 .. n /\ i - 1 \in 1 .. n /\ i - 1 # k + 1 /\ i # k + 1
          BY <4>2, <2>2
        <5>2. h[i] = f[i] /\ h[i - 1] = f[i - 1]
          BY <5>1
        <5>3. f[i] = f[i - 1] \o ss[i]
          BY <4>2, <2>1
        <5> QED
          BY <5>2, <5>3
      <4>3. i = k + 1 \/ i <= k
        BY <3>2, <2>2
      <4> HIDE DEF h
      <4> QED
        BY <4>1, <4>2, <4>3
    <3>3. h = [i \in 1 .. n |-> h[i]]
      OBVIOUS
    <3> HIDE DEF h
    <3> QED
      BY <3>1, <3>2, <3>3
  <2> HIDE DEF Eq, h
  <2>4. \E x : Eq(x, k + 1)
    BY <2>3
  <2> QED
    BY <2>4, <2>2
<1>3. n \in S
  <2>1. S \subseteq Nat
    OBVIOUS
  <2> HIDE DEF S
  <2> QED
    BY <1>1, <1>2, <2>1, SetInduction
<1>4. PICK f : Eq(f, n)
  BY <1>3
<1>5. f = [i \in 1 .. n |-> IF i = 1 THEN ss[i] ELSE f[i - 1] \o ss[i]]
  <2>1. ASSUME NEW i \in 1 .. n PROVE f[i] = IF i = 1 THEN ss[i] ELSE f[i - 1] \o ss[i]
    <3>1. CASE i = 1
      BY <3>1, <1>4
    <3>2. CASE i # 1
      <4>1. i \in 2 .. n /\ i <= n
        BY <3>2
      <4> QED
        BY <4>1, <3>2, <1>4
    <3> QED
      BY <3>1, <3>2
  <2>2. f = [i \in 1 .. n |-> f[i]]
    BY <1>4
  <2> QED
    BY <2>1, <2>2
<1> DEFINE Fl == CHOOSE fl : fl = [i \in 1 .. n |-> IF i = 1 THEN ss[i] ELSE fl[i - 1] \o ss[i]]
<1>6. Fl = [i \in 1 .. n |-> IF i = 1 THEN ss[i] ELSE Fl[i - 1] \o ss[i]]
  BY <1>5
<1>7. FlattenSeq(ss) = Fl[n]
  BY DEF FlattenSeq
<1> HIDE DEF Fl
<1>8. Fl[1] = ss[1]
  BY <1>6
<1>9. ASSUME NEW i \in 2 .. n PROVE Fl[i] = Fl[i - 1] \o ss[i]
  <2>1. i \in 1 .. n /\ i # 1
    OBVIOUS
  <2> QED
    BY <1>6, <2>1
<1> QED
  BY <1>7, <1>8, <1>9

(* A loop whose turns lead from one mode to the next. *)
LEMMA FlattenRun ==
  ASSUME NEW g, NEW T, NEW ss, NEW n \in Nat \ {0}, Len(ss) = n, NEW M,
         \A i \in 1 .. n : GoodRun(g, T, M[i - 1], ss[i], M[i])
  PROVE  GoodRun(g, T, M[0], FlattenSeq(ss), M[n])
<1>1. PICK f : /\ FlattenSeq(ss) = f[n]
               /\ f[1] = ss[1]
               /\ \A i \in 2 .. n : f[i] = f[i - 1] \o ss[i]
  BY FlattenIs
<1> DEFINE S == {k \in Nat : k + 1 <= n => GoodRun(g, T, M[0], f[k + 1], M[k + 1])}
<1>2. 0 \in S
  <2>1. 1 - 1 = 0 /\ 0 + 1 = 1 /\ 1 \in 1 .. n
    OBVIOUS
  <2>2. GoodRun(g, T, M[1 - 1], ss[1], M[1])
    BY <2>1
  <2>3. GoodRun(g, T, M[0], f[1], M[1])
    BY <2>1, <2>2, <1>1
  <2>4. GoodRun(g, T, M[0], f[0 + 1], M[0 + 1])
    BY <2>3, <2>1
  <2> QED
    BY <2>4
<1>3. ASSUME NEW k \in S PROVE k + 1 \in S
  <2>1. SUFFICES ASSUME k + 2 <= n PROVE GoodRun(g, T, M[0], f[k + 2], M[k + 2])
    BY DEF S
  <2>2. GoodRun(g, T, M[0], f[k + 1], M[k + 1])
    BY <2>1
  <2>3. GoodRun(g, T, M[(k + 2) - 1], ss[k + 2], M[k + 2])
    BY <2>1
  <2>4. (k + 2) - 1 = k + 1 /\ k + 2 \in 2 .. n /\ (k + 1) + 1 = k + 2
    BY <2>1
  <2>5. f[k + 2] = f[(k + 2) - 1] \o ss[k + 2]
    BY <1>1, <2>4
  <2>6. GoodRun(g, T, M[0], f[k + 1] \o ss[k + 2], M[k + 2])
    BY <2>2, <2>3, <2>4, Then
  <2> QED
    BY <2>4, <2>5, <2>6
<1>4. n - 1 \in S
  <2>1. S \subseteq Nat
    OBVIOUS
  <2> HIDE DEF S
  <2>2. S = Nat
    BY <1>2, <1>3, <2>1, SetInduction
  <2> QED
    BY <2>2
<1>5. GoodRun(g, T, M[0], f[n], M[n])
  <2>1. (n - 1) + 1 = n
    OBVIOUS
  <2>2. (n - 1) + 1 <= n => GoodRun(g, T, M[0], f[(n - 1) + 1], M[(n - 1) + 1])
    BY <1>4
  <2> QED
    BY <2>1, <2>2
<1> QED
  BY <1>1, <1>5

(* A loop each turn of which ends as it began. *)
LEMMA LoopRun ==
  ASSUME NEW g, NEW T, NEW n \in Int, NEW ss, ss = [i \in 1 .. n |-> ss[i]],
         NEW m \in Mode, Calm(g, m),
         \A i \in 1 .. n : GoodRun(g, T, m, ss[i], m)
  PROVE  GoodRun(g, T, m, FlattenSeq(ss), m)
<1>1. CASE n <= 0
  <2>1. ss = << >>
    <3>1. 1 .. n = 1 .. 0
      BY <1>1
    <3>2. ss = [i \in 1 .. 0 |-> ss[i]]
      BY <3>1
    <3>3. [i \in 1 .. 0 |-> ss[i]] = << >>
      OBVIOUS
    <3> QED
      BY <3>2, <3>3
  <2>2. FlattenSeq(ss) = << >>
    BY <2>1 DEF FlattenSeq
  <2> QED
    BY <2>2, LeRefl, Skip
<1>2. CASE n > 0
  <2>1. Len(ss) = n /\ n \in Nat \ {0}
    BY <1>2
  <2> DEFINE M == [i \in 0 .. n |-> m]
  <2>2. \A i \in 1 .. n : M[i - 1] = m /\ M[i] = m
    OBVIOUS
  <2>3. M[0] = m /\ M[n] = m
    BY <2>1
  <2> HIDE DEF M
  <2>4. \A i \in 1 .. n : GoodRun(g, T, M[i - 1], ss[i], M[i])
    BY <2>2
  <2>5. GoodRun(g, T, M[0], FlattenSeq(ss), M[n])
    BY <2>1, <2>4, FlattenRun
  <2> QED
    BY <2>3, <2>5
<1> QED
  BY <1>1, <1>2
-----------------------------------------------------------------------------
(* The registers at their width. *)
PinsType ==
  [pa : 0 .. LoSize - 1, paOut : BOOLEAN, ad0Out : BOOLEAN, hi : 0 .. HiSize - 1,
   hiOut : BOOLEAN, low : SUBSET Lines, out : SUBSET Lines, rail : BOOLEAN]

(* The part of the cartridge an EEPROM's frame is read from. *)
IsCart(c) ==
  {"at", "bits", "eepOut"} \subseteq DOMAIN c /\ c.bits \in Seq(Nat) /\ c.eepOut \in BOOLEAN

(* The registers, the cartridge's frame and the polls are as mode m says. *)
PinsFit(m, p) ==
  /\ p \in PinsType
  /\ p.rail <=> m.bus \in {"live", "bare", "high", "rel"}
  /\ m.bus = "live" => /\ Four \subseteq p.out
                       /\ \A l \in {"cs", "cs2", "wr"} : l \in p.low <=> l \in m.on
                       /\ "rd" \in p.low => "rd" \in m.on
  /\ m.bus = "bare" => \A l \in Idle : ~ (l \in p.out /\ l \in p.low)
  /\ m.bus \in {"high", "dead"} => \A l \in Idle : l \notin p.low
  /\ m.bus \in {"rel", "off"} => \A l \in Idle : l \notin p.out
  /\ m.bus = "off" => ~p.paOut /\ ~p.ad0Out /\ ~p.hiOut
  /\ m.au = "high" => "audio" \notin p.low
  /\ m.au = "in" => "audio" \notin p.out
  /\ m.pa = "in" => ~p.paOut /\ ~p.ad0Out
  /\ m.pa = "out" => p.paOut /\ p.ad0Out
  /\ m.pa = "ad0in" => p.paOut /\ ~p.ad0Out
  /\ m.hi = "in" => ~p.hiOut
  /\ m.hi = "out" => p.hiOut
  /\ m.hv = "zero" => p.hi = 0
  /\ m.hv = "top" => p.hi = HiSize - 1

(* An EEPROM holds no more bits than strobes came, and answers only a whole    *)
(* read command; no other cartridge answers on AD0.                            *)
FrameFit(m, c) ==
  /\ IsCart(c)
  /\ m.bus # "live" => m.eep = "rest"
  /\ kind # "agb_eep" => c.bits = << >> /\ ~c.eepOut
  /\ kind = "agb_eep" =>
       /\ m.eep # "answer" => ~c.eepOut
       /\ m.eep = "rest" => ~EepReading(c)
       /\ m.eep = "rom" => Len(c.bits) <= m.n
       /\ m.eep = "sel" => EepSelected(c) /\ Len(c.bits) = m.n
       /\ m.eep = "answer" => EepSelected(c) /\ (c.eepOut \/ c.bits = << >>)

(* The polls made are the ones the mode counts. *)
PollFit(m, polls, got) ==
  /\ polls \in 0 .. PollCap /\ got \in BOOLEAN
  /\ m.q = "no" => polls = 0 /\ (kind \in DmgKinds => ~got)
  /\ m.q = "first" => polls = 1
  /\ m.q = "more" => polls >= 2

(* The bus is in mode m. *)
Fits(m) ==
  /\ PinsFit(m, pins) /\ FrameFit(m, cart) /\ PollFit(m, cmd.polls, cmd.got)
  /\ m.bus \in {"boot", "dead"} => ~host.been

(* Registers that fit a mode fit every mode that says less. *)
LEMMA PinsFitLe == ASSUME NEW m, NEW n, NEW p, PinsFit(m, p), Le(m, n) PROVE PinsFit(n, p)
<1>1. m.bus = "live" => (/\ \A l \in {"cs", "cs2", "wr"} : l \in p.low <=> l \in n.on
                        /\ "rd" \in p.low => "rd" \in n.on)
  BY DEF PinsFit, Le
<1> QED
  BY <1>1 DEF PinsFit, Le

(* So does a cartridge. *)
LEMMA FrameFitLe == ASSUME NEW m, NEW n, NEW c, FrameFit(m, c), Le(m, n) PROVE FrameFit(n, c)
  BY DEF FrameFit, Le

(* So do the polls made. *)
LEMMA PollFitLe ==
  ASSUME NEW m, NEW n, NEW x, NEW y, PollFit(m, x, y), Le(m, n)
  PROVE  PollFit(n, x, y)
  BY DEF PollFit, Le

(* So does the bus as a whole. *)
LEMMA FitsLe == ASSUME NEW m, NEW n, Fits(m), Le(m, n) PROVE Fits(n)
<1>1. n.bus = m.bus
  BY DEF Le
<1> QED
  BY <1>1, PinsFitLe, FrameFitLe, PollFitLe DEF Fits

(* Nothing moves in the cartridge where no line does. *)
LEMMA Still ==
  ASSUME NEW p, NEW r, NEW c, r.low = p.low, r.out = p.out, r.rail = p.rail
  PROVE  CartAfter(p, r, c).c = c
<1>1. \A l : ~Fell(p, r, l) /\ ~Rose(p, r, l)
  BY DEF Fell, Rose, On
<1> QED
  BY <1>1 DEF CartAfter, AgbAfter, DmgAfter, Quiet

(* The high half of an address. *)
LEMMA HighPart ==
  ASSUME NEW a \in 0 .. LoSize - 1, NEW h \in Nat
  PROVE  (a + LoSize * h) \div LoSize = h
  BY BusAssumption

(* /CS falls. Only an EEPROM at its address with a whole read command answers. *)
LEMMA LatchedIs ==
  ASSUME NEW r \in PinsType, NEW c, IsCart(c)
  PROVE  /\ IsCart(Latched(r, c).c)
         /\ kind # "agb_eep" => ~Latched(r, c).c.eepOut
         /\ Latched(r, c).c.bits \in {c.bits, << >>}
         /\ ~EepReading(c) => Latched(r, c).c.bits = << >> /\ ~Latched(r, c).c.eepOut
         /\ kind = "agb_eep" /\ r.paOut /\ r.hiOut /\ r.hi = HiSize - 1 =>
               /\ EepSelected(Latched(r, c).c)
               /\ Latched(r, c).c.eepOut \/ Latched(r, c).c.bits = << >>
<1> DEFINE at == IF r.paOut /\ r.hiOut THEN r.pa + LoSize * r.hi ELSE NoAt
           d == [c EXCEPT !.at = at, !.n = 0]
           e == Latched(r, c).c
<1>1. e = [d EXCEPT !.eepOut = EepSelected(d) /\ EepReading(d),
                    !.bits = IF EepReading(d) THEN @ ELSE << >>]
  BY DEF Latched, Quiet
<1> HIDE DEF at
<1>2. /\ d.at = at /\ d.bits = c.bits /\ {"at", "bits", "eepOut"} \subseteq DOMAIN d
  BY DEF IsCart
<1> HIDE DEF d, e
<1>3. EepReading(d) <=> EepReading(c)
  BY <1>2 DEF EepReading
<1>4. /\ e.at = at /\ e.bits = (IF EepReading(c) THEN c.bits ELSE << >>)
      /\ e.eepOut = (EepSelected(d) /\ EepReading(c)) /\ {"at", "bits", "eepOut"} \subseteq DOMAIN e
  BY <1>1, <1>2, <1>3
<1>5. IsCart(e)
  BY <1>4 DEF IsCart
<1>6. kind # "agb_eep" => ~EepSelected(d)
  BY DEF EepSelected
<1>7. EepSelected(e) <=> EepSelected(d)
  BY <1>2, <1>4 DEF EepSelected
<1>8. ASSUME kind = "agb_eep", r.paOut, r.hiOut, r.hi = HiSize - 1
      PROVE  EepSelected(d)
  <2>1. r.pa \in 0 .. LoSize - 1 /\ LoSize \in Nat \ {0} /\ HiSize \in Nat \ {0}
    BY BusAssumption DEF PinsType
  <2>2. at = r.pa + LoSize * (HiSize - 1)
    BY <1>8 DEF at
  <2>3. at \div LoSize = HiSize - 1
    <3>1. HiSize - 1 \in Nat
      BY <2>1
    <3>2. (r.pa + LoSize * (HiSize - 1)) \div LoSize = HiSize - 1
      BY <2>1, <3>1, HighPart
    <3> QED
      BY <2>2, <3>2
  <2>4. LoSize * (HiSize - 1) = LoSize * HiSize - LoSize /\ LoSize * HiSize \in Nat
    BY <2>1
  <2>5. at # NoAt
    <3>1. 2 * LoSize * HiSize = LoSize * HiSize + LoSize * HiSize
      BY <2>1
    <3> QED
      BY <2>1, <2>2, <2>4, <3>1 DEF NoAt
  <2> QED
    BY <1>8, <1>2, <2>3, <2>5 DEF EepSelected
<1>9. e.eepOut <=> EepSelected(d) /\ EepReading(c)
  BY <1>4
<1>10. e.bits = IF EepReading(c) THEN c.bits ELSE << >>
  BY <1>4
<1>11. kind # "agb_eep" => ~e.eepOut
  BY <1>9, <1>6
<1>12. kind = "agb_eep" /\ r.paOut /\ r.hiOut /\ r.hi = HiSize - 1 =>
         EepSelected(e) /\ (e.eepOut \/ e.bits = << >>)
  BY <1>7, <1>8, <1>9, <1>10
<1> QED
  BY <1>5, <1>9, <1>10, <1>11, <1>12 DEF e

(* /CS rises.  A frame is forgotten once taken or answered. *)
LEMMA DeselectedIs ==
  ASSUME NEW c, IsCart(c)
  PROVE  /\ IsCart(Deselected(c).c) /\ ~Deselected(c).c.eepOut
         /\ Deselected(c).c.bits \in {c.bits, << >>}
         /\ c.eepOut => Deselected(c).c.bits = << >>
<1> DEFINE whole == /\ EepSelected(c) /\ SubSeq(c.bits, 1, 2) = <<1, 0>>
                    /\ Len(c.bits) = 3 + EepAddrBits + EepBits
           e == Deselected(c).c
<1> HIDE DEF whole
<1>1. e = [c EXCEPT !.bits = IF whole \/ c.eepOut THEN << >> ELSE @, !.eepOut = FALSE]
  BY DEF Deselected, whole
<1>2. e.bits \in {c.bits, << >>} /\ (c.eepOut => e.bits = << >>) /\ e.eepOut = FALSE
      /\ {"at", "bits", "eepOut"} \subseteq DOMAIN e
  <2>1. CASE whole \/ c.eepOut
    <3>1. e = [c EXCEPT !.bits = << >>, !.eepOut = FALSE]
      BY <1>1, <2>1
    <3> QED
      BY <3>1, <2>1 DEF IsCart
  <2>2. CASE ~(whole \/ c.eepOut)
    <3>1. e = [c EXCEPT !.bits = @, !.eepOut = FALSE]
      BY <1>1, <2>2
    <3> QED
      BY <3>1, <2>2 DEF IsCart
  <2> QED
    BY <2>1, <2>2
<1> HIDE DEF e
<1>3. IsCart(e)
  <2>1. e.bits \in Seq(Nat)
    <3>1. c.bits \in Seq(Nat) /\ << >> \in Seq(Nat)
      BY DEF IsCart
    <3>2. e.bits = c.bits \/ e.bits = << >>
      BY <1>2
    <3> QED
      BY <3>1, <3>2
  <2>2. e.eepOut \in BOOLEAN
    BY <1>2
  <2> QED
    BY <1>2, <2>1, <2>2 DEF IsCart
<1> QED
  BY <1>2, <1>3 DEF e

(* The clock's registers are no frame. *)
LEMMA GpioIs ==
  ASSUME NEW c, IsCart(c), NEW a, NEW v
  PROVE  LET e == Gpio(c, a, v).c IN
         IsCart(e) /\ e.at = c.at /\ e.bits = c.bits /\ e.eepOut = c.eepOut
  BY DEF Gpio, Quiet, IsCart

(* /WR rises in a ROM cycle: a bit for a selected EEPROM. *)
LEMMA RomWrittenIs ==
  ASSUME NEW r \in PinsType, NEW c, IsCart(c)
  PROVE  LET e == RomWritten(r, c).c IN
         /\ IsCart(e) /\ e.at = c.at /\ e.eepOut = c.eepOut
         /\ kind # "agb_eep" => e.bits = c.bits
         /\ e.bits = c.bits \/ Len(e.bits) = Len(c.bits) + 1
         /\ EepSelected(c) /\ ~c.eepOut => Len(e.bits) = Len(c.bits) + 1
<1> DEFINE e == RomWritten(r, c).c
           b == IF r.ad0Out THEN r.pa % 2 ELSE 2
<1>1. CASE EepSelected(c)
  <2>1. kind = "agb_eep"
    BY <1>1 DEF EepSelected
  <2>2. e = IF c.eepOut THEN c ELSE [c EXCEPT !.bits = Append(@, b)]
    BY <1>1 DEF RomWritten, Quiet
  <2>3. b \in Nat
    BY BusAssumption DEF PinsType
  <2> HIDE DEF b
  <2>4. CASE c.eepOut
    BY <2>1, <2>2, <2>4
  <2>5. CASE ~c.eepOut
    <3>1. e.bits = Append(c.bits, b) /\ e.at = c.at /\ e.eepOut = c.eepOut
          /\ {"at", "bits", "eepOut"} \subseteq DOMAIN e
      BY <2>2, <2>5 DEF IsCart
    <3>2. Append(c.bits, b) \in Seq(Nat) /\ Len(Append(c.bits, b)) = Len(c.bits) + 1
      BY <2>3 DEF IsCart
    <3> HIDE DEF e
    <3>3. IsCart(e)
      BY <3>1, <3>2 DEF IsCart
    <3> QED
      BY <2>1, <3>1, <3>2, <3>3 DEF e
  <2> QED
    BY <2>4, <2>5
<1>2. CASE ~EepSelected(c)
  <2>1. \/ \E x : e = [c EXCEPT !.regs = x]
        \/ \E a : e = Gpio(c, a, OnPa(r)).c
        \/ e = c
        \/ \E x : e = [c EXCEPT !.chip = x]
    BY <1>2 DEF RomWritten, Quiet, Taken
  <2> HIDE DEF e
  <2> DEFINE Same(x) == IsCart(x) /\ x.at = c.at /\ x.bits = c.bits /\ x.eepOut = c.eepOut
  <2>2. Same(e)
    <3>1. \A x : Same([c EXCEPT !.regs = x]) /\ Same([c EXCEPT !.chip = x]) /\ Same(c)
      BY DEF IsCart
    <3>2. \A a : Same(Gpio(c, a, OnPa(r)).c)
      BY GpioIs
    <3> HIDE DEF Same
    <3> QED
      BY <2>1, <3>1, <3>2
  <2> QED
    BY <1>2, <2>2 DEF e
<1> QED
  BY <1>1, <1>2

(* What one change of the pins does to the frame the cartridge is in. *)
LEMMA CartKept ==
  ASSUME NEW p \in PinsType, NEW r \in PinsType, NEW c, IsCart(c), kind \in AgbKinds \cup DmgKinds,
         Agb => ~Fell(p, r, "cs") /\ ~Rose(p, r, "cs")
                /\ ~(Rose(p, r, "wr") /\ On(r, "cs"))
  PROVE  /\ IsCart(CartAfter(p, r, c).c) /\ CartAfter(p, r, c).c.at = c.at
         /\ CartAfter(p, r, c).c.bits = c.bits /\ CartAfter(p, r, c).c.eepOut = c.eepOut
<1> DEFINE e == CartAfter(p, r, c).c
           Same(x) == IsCart(x) /\ x.at = c.at /\ x.bits = c.bits /\ x.eepOut = c.eepOut
<1>1. \/ e = c
      \/ e = [c EXCEPT !.n = @ + 1]
      \/ \E x : e = [c EXCEPT !.chip = x]
  <2>1. CASE Agb
    <3>1. e = AgbAfter(p, r, c).c
      BY <2>1 DEF CartAfter
    <3>2. CASE Rose(p, r, "rd") /\ On(r, "cs")
      BY <2>1, <3>1, <3>2 DEF AgbAfter, Quiet
    <3>3. CASE ~(Rose(p, r, "rd") /\ On(r, "cs"))
      BY <2>1, <3>1, <3>3 DEF AgbAfter, Quiet, Taken
    <3> QED
      BY <3>2, <3>3
  <2>2. CASE ~Agb
    <3>1. e = DmgAfter(p, r, c).c
      BY <2>2 DEF CartAfter
    <3> QED
      BY <3>1 DEF DmgAfter, Quiet, Taken
  <2> QED
    BY <2>1, <2>2
<1>2. \A x : Same([c EXCEPT !.chip = x]) /\ Same(c) /\ Same([c EXCEPT !.n = @ + 1])
  BY DEF IsCart
<1> HIDE DEF Same, e
<1>3. Same(e)
  BY <1>1, <1>2
<1> QED
  BY <1>3 DEF Same, e

(* What the cartridge does when /CS falls. *)
LEMMA CartFell ==
  ASSUME NEW p, NEW r, NEW c, Agb, Fell(p, r, "cs"), \A l \in Lines : ~Rose(p, r, l)
  PROVE  CartAfter(p, r, c).c = Latched(r, c).c
<1>1. CartAfter(p, r, c) = AgbAfter(p, r, c)
  BY DEF CartAfter
<1>2. AgbAfter(p, r, c) = Latched(r, c)
  BY DEF AgbAfter, Lines
<1> QED
  BY <1>1, <1>2

(* What it does when /CS rises. *)
LEMMA CartRose ==
  ASSUME NEW p, NEW r, NEW c, Agb, Rose(p, r, "cs"), ~Rose(p, r, "rd"), ~Rose(p, r, "wr")
  PROVE  CartAfter(p, r, c).c = Deselected(c).c
<1>1. CartAfter(p, r, c) = AgbAfter(p, r, c)
  BY DEF CartAfter
<1>2. ~Fell(p, r, "cs")
  BY DEF Fell, Rose
<1>3. AgbAfter(p, r, c) = Deselected(c)
  BY <1>2 DEF AgbAfter
<1> QED
  BY <1>1, <1>3

(* What it does when /WR rises under /CS. *)
LEMMA CartWritten ==
  ASSUME NEW p, NEW r, NEW c, Agb, Rose(p, r, "wr"), On(r, "cs"), On(p, "cs"), ~On(r, "cs2"),
         ~Rose(p, r, "rd")
  PROVE  CartAfter(p, r, c).c = RomWritten(r, c).c
<1>1. CartAfter(p, r, c) = AgbAfter(p, r, c)
  BY DEF CartAfter
<1>2. ~Fell(p, r, "cs") /\ ~Rose(p, r, "cs")
  BY DEF Fell, Rose
<1>3. AgbAfter(p, r, c) = RomWritten(r, c)
  BY <1>2 DEF AgbAfter
<1> QED
  BY <1>1, <1>3

(* The cartridge after the pins went from p to r: a fresh one without power. *)
CartThen(p, r, c) == IF r.rail THEN CartAfter(p, r, c).c ELSE FreshCart

(* A cartridge that is not an EEPROM takes no frame. *)
LEMMA NoFrame ==
  ASSUME NEW p \in PinsType, NEW r \in PinsType, NEW c, IsCart(c), kind # "agb_eep",
         kind \in AgbKinds \cup DmgKinds, c.bits = << >>, ~c.eepOut
  PROVE  LET e == CartAfter(p, r, c).c IN IsCart(e) /\ e.bits = << >> /\ ~e.eepOut
<1> DEFINE e == CartAfter(p, r, c).c
           Fine(x) == IsCart(x) /\ x.bits = << >> /\ ~x.eepOut
<1>1. \/ e = c
      \/ e = [c EXCEPT !.n = @ + 1]
      \/ e = Latched(r, c).c
      \/ e = Deselected(c).c
      \/ e = RomWritten(r, c).c
      \/ \E x : e = [c EXCEPT !.chip = x]
  <2>1. CASE Agb
    <3>1. e = AgbAfter(p, r, c).c
      BY <2>1 DEF CartAfter
    <3> QED
      BY <3>1 DEF AgbAfter, Quiet, Taken
  <2>2. CASE ~Agb
    <3>1. e = DmgAfter(p, r, c).c
      BY <2>2 DEF CartAfter
    <3> QED
      BY <3>1 DEF DmgAfter, Quiet, Taken
  <2> QED
    BY <2>1, <2>2
<1>2. \A x : Fine([c EXCEPT !.chip = x]) /\ Fine(c) /\ Fine([c EXCEPT !.n = @ + 1])
  BY DEF IsCart
<1>3. Fine(Latched(r, c).c)
  <2>1. IsCart(Latched(r, c).c) /\ ~Latched(r, c).c.eepOut
        /\ Latched(r, c).c.bits \in {c.bits, << >>}
    BY LatchedIs
  <2> QED
    BY <2>1
<1>4. Fine(Deselected(c).c)
  <2>1. IsCart(Deselected(c).c) /\ ~Deselected(c).c.eepOut
        /\ Deselected(c).c.bits \in {c.bits, << >>}
    BY DeselectedIs
  <2> QED
    BY <2>1
<1>5. Fine(RomWritten(r, c).c)
  BY RomWrittenIs
<1> HIDE DEF Fine, e
<1>6. Fine(e)
  BY <1>1, <1>2, <1>3, <1>4, <1>5
<1> QED
  BY <1>6 DEF Fine, e

(* A cartridge without power keeps no frame. *)
LEMMA FreshFits == ASSUME NEW m, m.eep = "rest" PROVE FrameFit(m, FreshCart)
<1>1. IsCart(FreshCart) /\ FreshCart.bits = << >> /\ FreshCart.eepOut = FALSE
  BY DEF IsCart, FreshCart
<1>2. ~EepReading(FreshCart)
  BY <1>1, BusAssumption DEF EepReading
<1> QED
  BY <1>1, <1>2 DEF FrameFit

(* The stores that move no line. *)
LEMMA StillFits ==
  ASSUME NEW m, NEW x, NEW p, NEW c, NEW r, PinsFit(m, p), FrameFit(m, c),
         r.low = p.low, r.out = p.out, r.rail = p.rail,
         x.eep = m.eep, x.n = m.n, x.bus = m.bus
  PROVE  FrameFit(x, CartThen(p, r, c))
<1>1. CASE p.rail
  <2>1. CartThen(p, r, c) = c
    BY <1>1, Still DEF CartThen
  <2> QED
    BY <2>1 DEF FrameFit
<1>2. CASE ~p.rail
  <2>1. CartThen(p, r, c) = FreshCart /\ m.eep = "rest"
    BY <1>2 DEF CartThen, PinsFit, FrameFit
  <2> QED
    BY <2>1, FreshFits
<1> QED
  BY <1>1, <1>2

(* A number stored to a port leaves the bus as the next mode says. *)
LEMMA ValuedFits ==
  ASSUME NEW m \in Mode, NEW n, NEW s \in StoreRec, NEW p, NEW c, PinsFit(m, p), FrameFit(m, c),
         Valued(m, s, n)
  PROVE  PinsFit(n, Put(p, s)) /\ FrameFit(n, CartThen(p, Put(p, s), c))
<1> DEFINE r == Put(p, s)
<1>1. p \in PinsType
  BY DEF PinsFit
<1>2. CASE s.reg = "PA_OUT" /\ s.n \in 0 .. LoSize - 1 /\ Le(m, n)
  <2>1. r = [p EXCEPT !.pa = s.n]
    BY <1>2 DEF Put
  <2>2. PinsFit(m, r)
    BY <1>1, <1>2, <2>1 DEF PinsFit, PinsType
  <2>3. FrameFit(m, CartThen(p, r, c))
    <3>1. r.low = p.low /\ r.out = p.out /\ r.rail = p.rail
      BY <1>1, <2>1 DEF PinsType
    <3> HIDE DEF r
    <3> QED
      BY <3>1, StillFits
  <2> QED
    BY <1>2, <2>2, <2>3, PinsFitLe, FrameFitLe
<1>3. CASE s.reg = "PA_AD0" /\ s.n \in {0, 1} /\ Le(m, n)
  <2>1. r = [p EXCEPT !.pa = (@ \div 2) * 2 + s.n]
    BY <1>3 DEF Put
  <2>2. (p.pa \div 2) * 2 + s.n \in 0 .. LoSize - 1
    BY <1>1, <1>3, BusAssumption DEF PinsType
  <2>3. PinsFit(m, r)
    BY <1>1, <1>3, <2>1, <2>2 DEF PinsFit, PinsType
  <2>4. FrameFit(m, CartThen(p, r, c))
    <3>1. r.low = p.low /\ r.out = p.out /\ r.rail = p.rail
      BY <1>1, <2>1 DEF PinsType
    <3> HIDE DEF r
    <3> QED
      BY <3>1, StillFits
  <2> QED
    BY <1>3, <2>3, <2>4, PinsFitLe, FrameFitLe
<1>4. CASE s.reg = "HI_CLR" /\ Le([m EXCEPT !.hv = "zero"], n)
  <2> DEFINE x == [m EXCEPT !.hv = "zero"]
  <2>1. r = [p EXCEPT !.hi = 0]
    BY <1>4 DEF Put
  <2>2. PinsFit(x, r)
    BY <1>1, <1>4, <2>1, BusAssumption DEF PinsFit, PinsType, Mode
  <2>3. FrameFit(x, CartThen(p, r, c))
    <3>1. r.low = p.low /\ r.out = p.out /\ r.rail = p.rail
      BY <1>1, <2>1 DEF PinsType
    <3>2. x.eep = m.eep /\ x.n = m.n /\ x.bus = m.bus
      BY DEF Mode
    <3> HIDE DEF r, x
    <3> QED
      BY <3>1, <3>2, StillFits
  <2> QED
    BY <1>4, <2>2, <2>3, PinsFitLe, FrameFitLe
<1>5. CASE /\ s.reg = "HI_OUT" /\ s.n \in 0 .. HiSize - 1
           /\ Le([m EXCEPT !.hv = IF @ = "zero" /\ s.n = HiSize - 1 THEN "top" ELSE "any"], n)
  <2> DEFINE x == [m EXCEPT !.hv = IF @ = "zero" /\ s.n = HiSize - 1 THEN "top" ELSE "any"]
  <2>1. r = [p EXCEPT !.hi = OrHi(@, s.n)]
    BY <1>5 DEF Put
  <2>2. OrHi(p.hi, s.n) \in 0 .. HiSize - 1 /\ (p.hi = 0 => OrHi(p.hi, s.n) = s.n)
    BY <1>1, <1>5, OrAssumption, BusAssumption DEF PinsType
  <2>3. PinsFit(x, r)
    BY <1>1, <1>5, <2>1, <2>2 DEF PinsFit, PinsType, Mode
  <2>4. FrameFit(x, CartThen(p, r, c))
    <3>1. r.low = p.low /\ r.out = p.out /\ r.rail = p.rail
      BY <1>1, <2>1 DEF PinsType
    <3>2. x.eep = m.eep /\ x.n = m.n /\ x.bus = m.bus
      BY DEF Mode
    <3> HIDE DEF r, x
    <3> QED
      BY <3>1, <3>2, StillFits
  <2> QED
    BY <1>5, <2>3, <2>4, PinsFitLe, FrameFitLe
<1> QED
  BY <1>2, <1>3, <1>4, <1>5 DEF Valued

(* The frame is as it was where neither /CS nor a write to the ROM moves. *)
LEMMA KeptFits ==
  ASSUME NEW m, NEW x, NEW p, NEW r \in PinsType, NEW c, PinsFit(m, p), FrameFit(m, c),
         kind \in AgbKinds \cup DmgKinds,
         r.rail => /\ On(p, "cs") <=> On(r, "cs")
                   /\ ~(On(p, "wr") /\ ~On(r, "wr") /\ On(r, "cs")),
         x.eep = m.eep, x.n = m.n,
         (x.bus = "live" /\ m.bus = "live" /\ r.rail) \/ m.eep = "rest"
  PROVE  FrameFit(x, CartThen(p, r, c))
<1> DEFINE e == CartThen(p, r, c)
<1>1. p \in PinsType /\ IsCart(c)
  BY DEF PinsFit, FrameFit
<1>2. CASE r.rail
  <2>1. e = CartAfter(p, r, c).c
    BY <1>2 DEF CartThen
  <2>2. IsCart(e) /\ e.at = c.at /\ e.bits = c.bits /\ e.eepOut = c.eepOut
    BY <1>1, <1>2, <2>1, CartKept DEF Fell, Rose
  <2> HIDE DEF e
  <2>3. EepSelected(e) <=> EepSelected(c)
    BY <2>2 DEF EepSelected
  <2>4. EepReading(e) <=> EepReading(c)
    BY <2>2 DEF EepReading
  <2> QED
    BY <2>2, <2>3, <2>4 DEF FrameFit, e
<1>3. CASE ~r.rail
  <2>1. CartThen(p, r, c) = FreshCart
    BY <1>3 DEF CartThen
  <2> QED
    BY <1>3, <2>1, FreshFits
<1> QED
  BY <1>2, <1>3

(* So does a direction. *)
LEMMA TurnedFits ==
  ASSUME NEW m \in Mode, NEW n, NEW s \in StoreRec, NEW p, NEW c, PinsFit(m, p), FrameFit(m, c),
         Turned(m, s, n)
  PROVE  PinsFit(n, Put(p, s)) /\ FrameFit(n, CartThen(p, Put(p, s), c))
<1> DEFINE r == Put(p, s)
<1>1. p \in PinsType
  BY DEF PinsFit
<1>2. ASSUME NEW x, PinsFit(x, r), x.eep = m.eep, x.n = m.n, x.bus = m.bus, Le(x, n),
             r.low = p.low, r.out = p.out, r.rail = p.rail
      PROVE  PinsFit(n, r) /\ FrameFit(n, CartThen(p, r, c))
  <2> HIDE DEF r
  <2>1. FrameFit(x, CartThen(p, r, c))
    BY <1>2, StillFits
  <2> QED
    BY <1>2, <2>1, PinsFitLe, FrameFitLe
<1>3. CASE s.reg = "PA_DIR" /\ s.n = 1 /\ m.bus = "live" /\ Le([m EXCEPT !.pa = "out"], n)
  <2>1. r = [p EXCEPT !.paOut = TRUE, !.ad0Out = TRUE]
    BY <1>3 DEF Put
  <2>2. PinsFit([m EXCEPT !.pa = "out"], r)
    BY <1>1, <1>3, <2>1 DEF PinsFit, PinsType, Mode
  <2>3. r.low = p.low /\ r.out = p.out /\ r.rail = p.rail
    BY <1>1, <2>1 DEF PinsType
  <2> QED
    BY <1>2, <1>3, <2>2, <2>3 DEF Mode
<1>4. CASE s.reg = "PA_DIR" /\ s.n = 0 /\ m.bus \in {"live", "rel", "dead"}
           /\ Le([m EXCEPT !.pa = "in"], n)
  <2>1. (s.n = 1) = FALSE
    BY <1>4
  <2>2. r = [p EXCEPT !.paOut = FALSE, !.ad0Out = FALSE]
    BY <1>4, <2>1 DEF Put
  <2>3. PinsFit([m EXCEPT !.pa = "in"], r)
    BY <1>1, <1>4, <2>2 DEF PinsFit, PinsType, Mode
  <2>4. r.low = p.low /\ r.out = p.out /\ r.rail = p.rail
    BY <1>1, <2>2 DEF PinsType
  <2> QED
    BY <1>2, <1>4, <2>3, <2>4 DEF Mode
<1>5. CASE s.reg = "AD0_DIR" /\ s.n = 1 /\ m.bus = "live" /\ m.pa \in {"out", "ad0in"}
           /\ Le([m EXCEPT !.pa = "out"], n)
  <2>1. r = [p EXCEPT !.ad0Out = TRUE]
    BY <1>5 DEF Put
  <2>2. PinsFit([m EXCEPT !.pa = "out"], r)
    BY <1>1, <1>5, <2>1 DEF PinsFit, PinsType, Mode
  <2>3. r.low = p.low /\ r.out = p.out /\ r.rail = p.rail
    BY <1>1, <2>1 DEF PinsType
  <2> QED
    BY <1>2, <1>5, <2>2, <2>3 DEF Mode
<1>6. CASE s.reg = "AD0_DIR" /\ s.n = 0 /\ m.bus = "live" /\ m.pa \in {"out", "ad0in"}
           /\ Le([m EXCEPT !.pa = "ad0in"], n)
  <2>1. (s.n = 1) = FALSE
    BY <1>6
  <2>2. r = [p EXCEPT !.ad0Out = FALSE]
    BY <1>6, <2>1 DEF Put
  <2>3. PinsFit([m EXCEPT !.pa = "ad0in"], r)
    BY <1>1, <1>6, <2>2 DEF PinsFit, PinsType, Mode
  <2>4. r.low = p.low /\ r.out = p.out /\ r.rail = p.rail
    BY <1>1, <2>2 DEF PinsType
  <2> QED
    BY <1>2, <1>6, <2>3, <2>4 DEF Mode
<1>7. CASE s.reg = "HI_DIR" /\ s.n = 1 /\ m.bus = "live" /\ Le([m EXCEPT !.hi = "out"], n)
  <2>1. r = [p EXCEPT !.hiOut = TRUE]
    BY <1>7 DEF Put
  <2>2. PinsFit([m EXCEPT !.hi = "out"], r)
    BY <1>1, <1>7, <2>1 DEF PinsFit, PinsType, Mode
  <2>3. r.low = p.low /\ r.out = p.out /\ r.rail = p.rail
    BY <1>1, <2>1 DEF PinsType
  <2> QED
    BY <1>2, <1>7, <2>2, <2>3 DEF Mode
<1>8. CASE s.reg = "HI_DIR" /\ s.n = 0 /\ m.bus \in {"live", "dead"}
           /\ Le([m EXCEPT !.hi = "in"], n)
  <2>1. (s.n = 1) = FALSE
    BY <1>8
  <2>2. r = [p EXCEPT !.hiOut = FALSE]
    BY <1>8, <2>1 DEF Put
  <2>3. PinsFit([m EXCEPT !.hi = "in"], r)
    BY <1>1, <1>8, <2>2 DEF PinsFit, PinsType, Mode
  <2>4. r.low = p.low /\ r.out = p.out /\ r.rail = p.rail
    BY <1>1, <2>2 DEF PinsType
  <2> QED
    BY <1>2, <1>8, <2>3, <2>4 DEF Mode
<1> QED
  BY <1>3, <1>4, <1>5, <1>6, <1>7, <1>8 DEF Turned

(* A line falls. *)
LEMMA LoweredFits ==
  ASSUME NEW m \in Mode, NEW n, NEW ls, NEW p, NEW c, PinsFit(m, p), FrameFit(m, c),
         kind \in AgbKinds \cup DmgKinds, Lowered(kind, m, ls, n),
         NEW r, r = [p EXCEPT !.low = @ \cup ls]
  PROVE  PinsFit(n, r) /\ FrameFit(n, CartThen(p, r, c))
<1>1. p \in PinsType
  BY DEF PinsFit
<1>2. ls \subseteq Lines
  BY DEF Lowered, Lines
<1>3. r \in PinsType /\ r.low = p.low \cup ls /\ r.out = p.out /\ r.rail = p.rail
      /\ r.pa = p.pa /\ r.hi = p.hi /\ r.paOut = p.paOut /\ r.hiOut = p.hiOut /\ r.ad0Out = p.ad0Out
  BY <1>1, <1>2 DEF PinsType
<1>4. ASSUME NEW x, PinsFit(x, r), x.eep = m.eep, x.n = m.n, x.bus = m.bus, Le(x, n), "cs" \notin ls
      PROVE  PinsFit(n, r) /\ FrameFit(n, CartThen(p, r, c))
  <2>1. On(p, "cs") <=> On(r, "cs")
    BY <1>3, <1>4 DEF On
  <2>2. ~(On(p, "wr") /\ ~On(r, "wr"))
    BY <1>3 DEF On
  <2>3. (x.bus = "live" /\ m.bus = "live" /\ r.rail) \/ m.eep = "rest"
    BY <1>3, <1>4 DEF PinsFit, FrameFit
  <2>4. FrameFit(x, CartThen(p, r, c))
    BY <1>3, <1>4, <2>1, <2>2, <2>3, KeptFits
  <2> QED
    BY <1>4, <2>4, PinsFitLe, FrameFitLe
<1>5. CASE ls = {"clk"} /\ Le(m, n)
  <2>1. PinsFit(m, r)
    BY <1>3, <1>5 DEF PinsFit, Idle
  <2> QED
    BY <1>4, <1>5, <2>1
<1>6. CASE ls = {"audio"} /\ m.bus = "live"
           /\ Le([m EXCEPT !.au = IF @ = "in" THEN @ ELSE "any"], n)
  <2>1. PinsFit([m EXCEPT !.au = IF @ = "in" THEN @ ELSE "any"], r)
    BY <1>3, <1>6 DEF PinsFit, Mode
  <2> QED
    BY <1>4, <1>6, <2>1 DEF Mode
<1>7. ASSUME NEW l \in {"cs2", "rd", "wr"}, ls = {l}, m.bus = "live",
             Le([m EXCEPT !.on = @ \cup {l}], n)
      PROVE  PinsFit(n, r) /\ FrameFit(n, CartThen(p, r, c))
  <2>1. PinsFit([m EXCEPT !.on = @ \cup {l}], r)
    BY <1>3, <1>7 DEF PinsFit, Mode
  <2> QED
    BY <1>4, <1>7, <2>1 DEF Mode
<1>8. CASE /\ ls = {"cs"} /\ m.bus = "live" /\ "cs" \notin m.on
           /\ \E x \in LatchesTo(m) : Le([m EXCEPT !.on = @ \cup {"cs"}, !.eep = x, !.n = 0], n)
  <2>1. PICK y \in LatchesTo(m) : Le([m EXCEPT !.on = @ \cup {"cs"}, !.eep = y, !.n = 0], n)
    BY <1>8
  <2> DEFINE x == [m EXCEPT !.on = @ \cup {"cs"}, !.eep = y, !.n = 0]
             e == CartThen(p, r, c)
  <2>2. PinsFit(x, r)
    BY <1>3, <1>8 DEF PinsFit, Mode
  <2>3. x.bus = "live" /\ x.eep = y /\ x.n = 0
    BY <1>8 DEF Mode
  <2>4. r.rail /\ e = CartAfter(p, r, c).c /\ IsCart(c)
    BY <1>3, <1>8 DEF CartThen, PinsFit, FrameFit
  <2> HIDE DEF x, e
  <2>5. FrameFit(x, e)
    <3>1. CASE kind # "agb_eep"
      <4>1. IsCart(e) /\ e.bits = << >> /\ ~e.eepOut
        BY <3>1, <2>4, <1>1, <1>3, NoFrame DEF FrameFit
      <4> QED
        BY <3>1, <4>1, <2>3 DEF FrameFit
    <3>2. CASE kind = "agb_eep"
      <4>1. Agb
        BY <3>2 DEF Agb
      <4>2. Fell(p, r, "cs")
        BY <1>3, <1>8 DEF Fell, On, PinsFit, Four
      <4>3. \A l \in Lines : ~Rose(p, r, l)
        BY <1>3 DEF Rose, On
      <4>4. e = Latched(r, c).c
        BY <4>1, <4>2, <4>3, <2>4, CartFell
      <4>5. /\ IsCart(Latched(r, c).c)
            /\ ~EepReading(c) => Latched(r, c).c.bits = << >> /\ ~Latched(r, c).c.eepOut
            /\ kind = "agb_eep" /\ r.paOut /\ r.hiOut /\ r.hi = HiSize - 1 =>
                 /\ EepSelected(Latched(r, c).c)
                 /\ Latched(r, c).c.eepOut \/ Latched(r, c).c.bits = << >>
        BY <1>3, <2>4, LatchedIs
      <4>6. /\ IsCart(e)
            /\ ~EepReading(c) => e.bits = << >> /\ ~e.eepOut
            /\ r.paOut /\ r.hiOut /\ r.hi = HiSize - 1 =>
                 EepSelected(e) /\ (e.eepOut \/ e.bits = << >>)
        BY <3>2, <4>4, <4>5
      <4>7. m.hv = "top" /\ m.hi = "out" /\ m.pa \in {"out", "ad0in"} =>
              r.paOut /\ r.hiOut /\ r.hi = HiSize - 1
        BY <1>3 DEF PinsFit
      <4>8. CASE y = "answer"
        BY <3>2, <4>6, <4>7, <4>8, <2>3 DEF FrameFit, LatchesTo
      <4>9. CASE y \in {"rom", "sel"}
        <5>1. m.eep = "rest"
              /\ (y = "sel" => m.hv = "top" /\ m.hi = "out" /\ m.pa \in {"out", "ad0in"})
          BY <4>9 DEF LatchesTo
        <5>2. e.bits = << >> /\ ~e.eepOut /\ (y = "sel" => EepSelected(e))
          BY <3>2, <5>1, <4>6, <4>7 DEF FrameFit
        <5>3. Len(e.bits) = 0
          BY <5>2
        <5> QED
          BY <3>2, <4>6, <4>9, <5>2, <5>3, <2>3 DEF FrameFit
      <4> QED
        BY <4>8, <4>9 DEF LatchesTo
    <3> QED
      BY <3>1, <3>2
  <2>6. Le(x, n)
    BY <2>1 DEF x
  <2> QED
    BY <2>2, <2>5, <2>6, PinsFitLe, FrameFitLe DEF e
<1> QED
  BY <1>5, <1>6, <1>7, <1>8 DEF Lowered

(* /CS rises on a frame. *)
LEMMA CsRaisedFits ==
  ASSUME NEW m \in Mode, NEW p, NEW r \in PinsType, NEW c, PinsFit(m, p), FrameFit(m, c),
         kind \in AgbKinds \cup DmgKinds, m.bus = "live", "cs" \in m.on, "wr" \notin m.on,
         m.eep \in {"rom", "sel", "answer"}, m.eep = "rom" => m.n <= 1,
         r.low = p.low \ {"cs"}, r.out = p.out, r.rail = p.rail
  PROVE  FrameFit(CsRaised(m), CartThen(p, r, c))
<1> DEFINE e == CartThen(p, r, c)
           x == CsRaised(m)
<1>1. p \in PinsType /\ IsCart(c) /\ r.rail /\ Four \subseteq p.out /\ "cs" \in p.low
  BY DEF PinsFit, FrameFit
<1>2. e = CartAfter(p, r, c).c
  BY <1>1 DEF CartThen
<1>3. x.bus = "live" /\ x.n = 0
      /\ x.eep = IF m.eep = "sel" /\ m.n = EepAddrBits + 3 THEN "ready" ELSE "rest"
  BY DEF CsRaised, Mode
<1> HIDE DEF e, x
<1>4. CASE kind # "agb_eep"
  <2>1. IsCart(e) /\ e.bits = << >> /\ ~e.eepOut
    BY <1>4, <1>1, <1>2, NoFrame DEF FrameFit
  <2> QED
    BY <1>4, <2>1, <1>3 DEF FrameFit, e, x
<1>5. CASE kind = "agb_eep"
  <2>1. Agb
    BY <1>5 DEF Agb
  <2>2. Rose(p, r, "cs") /\ ~Rose(p, r, "rd") /\ ~Rose(p, r, "wr")
    BY <1>1 DEF Rose, On, Four
  <2>3. e = Deselected(c).c
    BY <1>2, <2>1, <2>2, CartRose
  <2>4. IsCart(Deselected(c).c) /\ ~Deselected(c).c.eepOut
        /\ Deselected(c).c.bits \in {c.bits, << >>}
        /\ (c.eepOut => Deselected(c).c.bits = << >>)
    BY <1>1, DeselectedIs
  <2>5. IsCart(e) /\ ~e.eepOut /\ (e.bits = c.bits \/ e.bits = << >>)
        /\ (c.eepOut => e.bits = << >>)
    BY <2>3, <2>4
  <2>6. Len(c.bits) \in Nat /\ Len(<< >>) = 0 /\ EepAddrBits \in Nat /\ m.n \in Nat
    BY <1>1, BusAssumption DEF IsCart, Mode
  <2>7. ASSUME x.eep = "rest" PROVE ~EepReading(e)
    <3>1. CASE e.bits = << >>
      BY <3>1, <2>6 DEF EepReading
    <3>2. CASE e.bits = c.bits /\ e.bits # << >>
      <4>1. m.eep # "answer"
        BY <3>2, <2>5, <1>5 DEF FrameFit
      <4>2. CASE m.eep = "rom"
        <5>1. Len(c.bits) <= 1
          BY <4>2, <1>5, <2>6 DEF FrameFit
        <5> QED
          BY <5>1, <3>2, <2>6 DEF EepReading
      <4>3. CASE m.eep = "sel"
        <5>1. Len(c.bits) = m.n /\ m.n # EepAddrBits + 3
          BY <4>3, <1>5, <1>3, <2>7 DEF FrameFit
        <5> QED
          BY <5>1, <3>2, <2>6 DEF EepReading
      <4> QED
        BY <4>1, <4>2, <4>3
    <3> QED
      BY <3>1, <3>2, <2>5
  <2> QED
    BY <1>3, <1>5, <2>5, <2>7 DEF FrameFit, e, x
<1> QED
  BY <1>4, <1>5

(* /WR rises in a ROM cycle. *)
LEMMA WrRaisedFits ==
  ASSUME NEW m \in Mode, NEW p, NEW r \in PinsType, NEW c, PinsFit(m, p), FrameFit(m, c),
         kind \in AgbKinds \cup DmgKinds, m.bus = "live", "cs" \in m.on => m.eep \in {"rom", "sel"},
         kind = "agb_eep" /\ "cs" \in m.on => "cs2" \notin m.on,
         r.low = p.low \ {"wr"}, r.out = p.out, r.rail = p.rail
  PROVE  FrameFit(WrRaised(m), CartThen(p, r, c))
<1> DEFINE e == CartThen(p, r, c)
           x == WrRaised(m)
<1>1. p \in PinsType /\ IsCart(c) /\ r.rail /\ Four \subseteq p.out
      /\ \A l \in {"cs", "cs2", "wr"} : l \in p.low <=> l \in m.on
  BY DEF PinsFit, FrameFit
<1>2. e = CartAfter(p, r, c).c
  BY <1>1 DEF CartThen
<1>3. x.bus = "live" /\ x.eep = m.eep
      /\ x.n = IF "wr" \in m.on /\ "cs" \in m.on THEN m.n + 1 ELSE m.n
  BY DEF WrRaised, Mode
<1> HIDE DEF e, x
<1>4. CASE kind # "agb_eep"
  <2>1. IsCart(e) /\ e.bits = << >> /\ ~e.eepOut
    BY <1>4, <1>1, <1>2, NoFrame DEF FrameFit
  <2> QED
    BY <1>4, <2>1, <1>3 DEF FrameFit, e, x
<1>5. CASE kind = "agb_eep" /\ "wr" \in m.on /\ "cs" \in m.on
  <2>1. Agb
    BY <1>5 DEF Agb
  <2>2. Rose(p, r, "wr") /\ ~Rose(p, r, "rd") /\ On(r, "cs") /\ On(p, "cs") /\ ~On(r, "cs2")
    BY <1>1, <1>5 DEF Rose, On, Four
  <2>3. e = RomWritten(r, c).c
    BY <1>2, <2>1, <2>2, CartWritten
  <2>4. LET f == RomWritten(r, c).c IN
         /\ IsCart(f) /\ f.at = c.at /\ f.eepOut = c.eepOut
         /\ f.bits = c.bits \/ Len(f.bits) = Len(c.bits) + 1
         /\ EepSelected(c) /\ ~c.eepOut => Len(f.bits) = Len(c.bits) + 1
    BY <1>1, RomWrittenIs
  <2>5. /\ IsCart(e) /\ e.at = c.at /\ e.eepOut = c.eepOut
        /\ e.bits = c.bits \/ Len(e.bits) = Len(c.bits) + 1
        /\ EepSelected(c) /\ ~c.eepOut => Len(e.bits) = Len(c.bits) + 1
    BY <2>3, <2>4
  <2>6. EepSelected(e) <=> EepSelected(c)
    BY <2>5 DEF EepSelected
  <2>7. x.n = m.n + 1 /\ m.n \in Nat /\ Len(c.bits) \in Nat
    BY <1>1, <1>3, <1>5 DEF Mode, IsCart
  <2>8. CASE m.eep = "rom"
    <3>1. Len(c.bits) <= m.n /\ ~c.eepOut
      BY <1>5, <2>8 DEF FrameFit
    <3>2. Len(e.bits) <= m.n + 1
      <4>1. CASE e.bits = c.bits
        BY <4>1, <3>1, <2>7
      <4>2. CASE Len(e.bits) = Len(c.bits) + 1
        BY <4>2, <3>1, <2>7
      <4> QED
        BY <4>1, <4>2, <2>5
    <3> QED
      BY <1>3, <1>5, <2>5, <2>7, <2>8, <3>1, <3>2 DEF FrameFit, e, x
  <2>9. CASE m.eep = "sel"
    <3>1. EepSelected(c) /\ Len(c.bits) = m.n /\ ~c.eepOut
      BY <1>5, <2>9 DEF FrameFit
    <3>2. Len(e.bits) = m.n + 1
      BY <3>1, <2>5, <2>7
    <3> QED
      BY <1>3, <1>5, <2>5, <2>6, <2>7, <2>9, <3>1, <3>2 DEF FrameFit, e, x
  <2> QED
    BY <1>5, <2>8, <2>9
<1>6. CASE "wr" \notin m.on \/ "cs" \notin m.on
  <2>1. On(p, "cs") <=> On(r, "cs")
    BY <1>1 DEF On
  <2>2. ~(On(p, "wr") /\ ~On(r, "wr") /\ On(r, "cs"))
    BY <1>1, <1>6 DEF On
  <2>3. x.n = m.n
    BY <1>3, <1>6
  <2>4. FrameFit(x, e)
    BY <1>1, <1>3, <2>1, <2>2, <2>3, KeptFits DEF e
  <2> QED
    BY <2>4 DEF e, x
<1> QED
  BY <1>4, <1>5, <1>6

(* A line rises. *)
LEMMA RaisedFits ==
  ASSUME NEW m \in Mode, NEW n, NEW ls, NEW p, NEW c, PinsFit(m, p), FrameFit(m, c),
         kind \in AgbKinds \cup DmgKinds, Raised(kind, m, ls, n),
         NEW r, r = [p EXCEPT !.low = @ \ ls]
  PROVE  PinsFit(n, r) /\ FrameFit(n, CartThen(p, r, c))
<1>1. p \in PinsType
  BY DEF PinsFit
<1>2. r \in PinsType /\ r.low = p.low \ ls /\ r.out = p.out /\ r.rail = p.rail
      /\ r.pa = p.pa /\ r.hi = p.hi /\ r.paOut = p.paOut /\ r.hiOut = p.hiOut /\ r.ad0Out = p.ad0Out
  BY <1>1 DEF PinsType
<1>3. ASSUME NEW x, PinsFit(x, r), x.eep = m.eep, x.n = m.n, x.bus = m.bus \/ m.eep = "rest",
             Le(x, n), On(p, "cs") <=> On(r, "cs"), On(p, "wr") <=> On(r, "wr")
      PROVE  PinsFit(n, r) /\ FrameFit(n, CartThen(p, r, c))
  <2>1. (x.bus = "live" /\ m.bus = "live" /\ r.rail) \/ m.eep = "rest"
    BY <1>2, <1>3 DEF PinsFit, FrameFit
  <2>2. FrameFit(x, CartThen(p, r, c))
    BY <1>2, <1>3, <2>1, KeptFits
  <2> QED
    BY <1>3, <2>2, PinsFitLe, FrameFitLe
<1>4. CASE ls = {"clk"} /\ Le(m, n)
  <2>1. PinsFit(m, r)
    BY <1>2, <1>4 DEF PinsFit, Idle
  <2> QED
    BY <1>2, <1>3, <1>4, <2>1 DEF On
<1>5. ASSUME NEW y \in {"high", m.au}, ls = {"audio"}, m.bus = "live", y = "high" \/ m.au = "in",
             Le([m EXCEPT !.au = y], n)
      PROVE  PinsFit(n, r) /\ FrameFit(n, CartThen(p, r, c))
  <2>1. PinsFit([m EXCEPT !.au = y], r)
    BY <1>2, <1>5 DEF PinsFit, Mode
  <2> QED
    BY <1>2, <1>3, <1>5, <2>1 DEF Mode, On
<1>6. ASSUME NEW l \in {"cs2", "rd"}, ls = {l}, m.bus = "live",
             Le([m EXCEPT !.on = @ \ {l}], n)
      PROVE  PinsFit(n, r) /\ FrameFit(n, CartThen(p, r, c))
  <2>1. PinsFit([m EXCEPT !.on = @ \ {l}], r)
    BY <1>2, <1>6 DEF PinsFit, Mode
  <2> QED
    BY <1>2, <1>3, <1>6, <2>1 DEF Mode, On
<1>7. CASE /\ ls = {"wr"} /\ m.bus = "live"
           /\ "cs" \in m.on => m.eep \in {"rom", "sel"}
           /\ kind = "agb_eep" /\ "cs" \in m.on => "cs2" \notin m.on
           /\ Le(WrRaised(m), n)
  <2>1. PinsFit(WrRaised(m), r)
    BY <1>2, <1>7 DEF PinsFit, Mode, WrRaised
  <2>2. FrameFit(WrRaised(m), CartThen(p, r, c))
    BY <1>2, <1>7, WrRaisedFits
  <2> QED
    BY <1>7, <2>1, <2>2, PinsFitLe, FrameFitLe
<1>8. CASE /\ ls = {"cs"} /\ m.bus = "live" /\ "cs" \in m.on /\ m.eep \in {"rom", "sel", "answer"}
           /\ "wr" \notin m.on /\ (m.eep = "rom" => m.n <= 1)
           /\ Le(CsRaised(m), n)
  <2>1. PinsFit(CsRaised(m), r)
    BY <1>2, <1>8 DEF PinsFit, Mode, CsRaised
  <2>2. FrameFit(CsRaised(m), CartThen(p, r, c))
    BY <1>2, <1>8, CsRaisedFits
  <2> QED
    BY <1>8, <2>1, <2>2, PinsFitLe, FrameFitLe
<1>9. CASE ls = Idle /\ m.on = {} /\ m.eep = "rest" /\ m.au \in {"in", "high"}
           /\ m.bus = "live" /\ Le(m, n)
  <2>1. PinsFit(m, r)
    BY <1>2, <1>9 DEF PinsFit, Idle
  <2>2. \A l \in {"cs", "wr"} : ~On(p, l) /\ ~On(r, l)
    BY <1>2, <1>9 DEF On, PinsFit, Idle
  <2> QED
    BY <1>3, <1>9, <2>1, <2>2
<1>10. ASSUME NEW y \in {"high", m.au}, ls = Idle, m.on = {}, m.eep = "rest",
              m.au \in {"in", "high"},
              m.bus = "bare", y = "high" \/ m.au = "in", Le([m EXCEPT !.bus = "high", !.au = y], n)
       PROVE  PinsFit(n, r) /\ FrameFit(n, CartThen(p, r, c))
  <2>1. PinsFit([m EXCEPT !.bus = "high", !.au = y], r)
    BY <1>2, <1>10 DEF PinsFit, Idle, Mode
  <2>2. \A l \in {"cs", "wr"} : ~On(p, l) /\ ~On(r, l)
    BY <1>2, <1>10 DEF On, PinsFit, Idle
  <2> QED
    BY <1>3, <1>10, <2>1, <2>2 DEF Mode
<1>11. CASE ls = Idle /\ m.on = {} /\ m.eep = "rest" /\ m.au \in {"in", "high"}
            /\ m.bus = "boot" /\ Le([m EXCEPT !.bus = "dead"], n)
  <2>1. PinsFit([m EXCEPT !.bus = "dead"], r)
    BY <1>2, <1>11 DEF PinsFit, Idle, Mode
  <2>2. \A l \in {"cs", "wr"} : ~On(p, l) /\ ~On(r, l)
    BY <1>2, <1>11 DEF On, PinsFit, Idle
  <2> QED
    BY <1>3, <1>11, <2>1, <2>2 DEF Mode
<1> QED
  BY <1>4, <1>5, <1>6, <1>7, <1>8, <1>9, <1>10, <1>11 DEF Raised

(* The control lines turn to outputs or back. *)
LEMMA DirectedFits ==
  ASSUME NEW m \in Mode, NEW n, NEW s \in StoreRec, NEW p, NEW c, PinsFit(m, p), FrameFit(m, c),
         kind \in AgbKinds \cup DmgKinds, s.reg = "PB_DIR",
         (s.n = 1 /\ Driven(kind, m, s.ls, n)) \/ (s.n = 0 /\ Released(kind, m, s.ls, n))
  PROVE  PinsFit(n, Put(p, s)) /\ FrameFit(n, CartThen(p, Put(p, s), c))
<1> DEFINE r == Put(p, s)
<1>1. p \in PinsType /\ s.ls \subseteq Lines
  BY DEF PinsFit, StoreRec
<1>2. r = [p EXCEPT !.out = IF s.n = 1 THEN @ \cup s.ls ELSE @ \ s.ls]
  BY DEF Put
<1>3. r \in PinsType /\ r.low = p.low /\ r.rail = p.rail
      /\ r.out = (IF s.n = 1 THEN p.out \cup s.ls ELSE p.out \ s.ls)
      /\ r.pa = p.pa /\ r.hi = p.hi /\ r.paOut = p.paOut /\ r.hiOut = p.hiOut /\ r.ad0Out = p.ad0Out
  BY <1>1, <1>2 DEF PinsType
<1> HIDE DEF r
<1>4. ASSUME NEW x, PinsFit(x, r), x.eep = m.eep, x.n = m.n, x.bus = m.bus \/ m.eep = "rest",
             Le(x, n), On(p, "cs") <=> On(r, "cs"), On(p, "wr") <=> On(r, "wr")
      PROVE  PinsFit(n, r) /\ FrameFit(n, CartThen(p, r, c))
  <2>1. (x.bus = "live" /\ m.bus = "live" /\ r.rail) \/ m.eep = "rest"
    BY <1>3, <1>4 DEF PinsFit, FrameFit
  <2>2. FrameFit(x, CartThen(p, r, c))
    BY <1>3, <1>4, <2>1, KeptFits
  <2> QED
    BY <1>4, <2>2, PinsFitLe, FrameFitLe
<1>5. CASE s.n = 1 /\ Driven(kind, m, s.ls, n)
  <2>1. r.out = p.out \cup s.ls
    BY <1>3, <1>5
  <2>2. CASE s.ls = {"audio"} /\ m.bus = "live"
             /\ Le([m EXCEPT !.au = IF @ = "high" THEN @ ELSE "any"], n)
    <3>1. PinsFit([m EXCEPT !.au = IF @ = "high" THEN @ ELSE "any"], r)
      BY <1>3, <2>1, <2>2 DEF PinsFit, Mode
    <3> QED
      BY <1>3, <1>4, <2>1, <2>2, <3>1 DEF r, Mode, On
  <2>3. CASE s.ls = Four /\ m.bus = "high" /\ m.on = {} /\ m.eep = "rest"
             /\ Le([m EXCEPT !.bus = "live"], n)
    <3>1. PinsFit([m EXCEPT !.bus = "live"], r)
      BY <1>3, <2>1, <2>3 DEF PinsFit, Mode, Four, Idle
    <3>2. \A l \in {"cs", "wr"} : ~On(p, l) /\ ~On(r, l)
      BY <1>3, <2>3 DEF On, PinsFit, Idle
    <3> QED
      BY <1>3, <1>4, <2>3, <3>1, <3>2 DEF r, Mode
  <2>4. CASE s.ls = Four \cup {"clk"} /\ m.bus = "boot" /\ Le(m, n)
    <3>1. PinsFit(m, r)
      BY <1>3, <2>1, <2>4 DEF PinsFit, Mode, Four
    <3>2. \A l \in {"cs", "wr"} : ~On(p, l) /\ ~On(r, l)
      BY <1>3, <2>4 DEF On, PinsFit
    <3>3. m.eep = "rest"
      BY <2>4 DEF FrameFit
    <3> QED
      BY <1>3, <1>4, <2>4, <3>1, <3>2, <3>3 DEF r, Mode
  <2> QED
    BY <1>5, <2>2, <2>3, <2>4 DEF Driven, r
<1>6. CASE s.n = 0 /\ Released(kind, m, s.ls, n)
  <2>1. r.out = p.out \ s.ls
    BY <1>3, <1>6
  <2>2. CASE s.ls = {"audio"} /\ m.bus \in {"live", "boot"} /\ Le([m EXCEPT !.au = "in"], n)
    <3>1. PinsFit([m EXCEPT !.au = "in"], r)
      BY <1>3, <2>1, <2>2 DEF PinsFit, Mode, Four
    <3> QED
      BY <1>3, <1>4, <2>1, <2>2, <3>1 DEF r, Mode, On
  <2>3. CASE s.ls = Idle /\ m.bus = "live" /\ m.on = {} /\ m.eep = "rest"
             /\ Le([m EXCEPT !.bus = "rel", !.au = "in"], n)
    <3>1. PinsFit([m EXCEPT !.bus = "rel", !.au = "in"], r)
      BY <1>3, <2>1, <2>3 DEF PinsFit, Mode, Idle
    <3>2. \A l \in {"cs", "wr"} : ~On(p, l) /\ ~On(r, l)
      BY <1>3, <2>3 DEF On, PinsFit, Idle
    <3> QED
      BY <1>3, <1>4, <2>3, <3>1, <3>2 DEF r, Mode
  <2> QED
    BY <1>6, <2>2, <2>3 DEF Released, r
<1> QED
  BY <1>5, <1>6

(* The rail. *)
LEMMA SwitchedFits ==
  ASSUME NEW m \in Mode, NEW n, NEW s \in StoreRec, NEW p, NEW c, PinsFit(m, p), FrameFit(m, c),
         kind \in AgbKinds \cup DmgKinds, s.reg = "VCC_EN", Switched(kind, m, s.n, n)
  PROVE  PinsFit(n, Put(p, s)) /\ FrameFit(n, CartThen(p, Put(p, s), c))
<1> DEFINE r == Put(p, s)
<1>1. p \in PinsType
  BY DEF PinsFit
<1>2. r = [p EXCEPT !.rail = (s.n = 1)]
  BY DEF Put
<1>3. r \in PinsType /\ r.low = p.low /\ r.out = p.out /\ r.rail = (s.n = 1)
      /\ r.pa = p.pa /\ r.hi = p.hi /\ r.paOut = p.paOut /\ r.hiOut = p.hiOut /\ r.ad0Out = p.ad0Out
  BY <1>1, <1>2 DEF PinsType
<1> HIDE DEF r
<1>4. ASSUME NEW x, PinsFit(x, r), x.eep = m.eep, x.n = m.n, m.eep = "rest", Le(x, n),
             r.rail => \A l \in {"cs", "wr"} : ~On(p, l) /\ ~On(r, l)
      PROVE  PinsFit(n, r) /\ FrameFit(n, CartThen(p, r, c))
  <2>1. FrameFit(x, CartThen(p, r, c))
    BY <1>3, <1>4, KeptFits
  <2> QED
    BY <1>4, <2>1, PinsFitLe, FrameFitLe
<1>5. CASE /\ s.n = 1 /\ m.bus \in {"live", "off", "dead"} /\ m.on = {} /\ m.eep = "rest"
           /\ m.au \in {"in", "high"} /\ Le([m EXCEPT !.bus = "bare"], n)
  <2>1. PinsFit([m EXCEPT !.bus = "bare"], r)
    BY <1>3, <1>5 DEF PinsFit, Mode, Idle
  <2>2. \A l \in {"cs", "wr"} : ~On(p, l) /\ ~On(r, l)
    BY <1>3, <1>5 DEF On, PinsFit, Idle
  <2> QED
    BY <1>4, <1>5, <2>1, <2>2 DEF r, Mode
<1>6. CASE s.n = 0 /\ m.bus = "rel" /\ m.pa = "in" /\ m.hi = "in" /\ Le([m EXCEPT !.bus = "off"], n)
  <2>1. (s.n = 1) = FALSE
    BY <1>6
  <2>2. r.rail = FALSE
    BY <1>3, <2>1
  <2>3. PinsFit([m EXCEPT !.bus = "off"], r)
    BY <1>3, <1>6, <2>2 DEF PinsFit, Mode
  <2>4. m.eep = "rest" /\ ~r.rail
    BY <1>3, <1>6, <2>2 DEF FrameFit
  <2> QED
    BY <1>4, <1>6, <2>2, <2>3, <2>4 DEF r, Mode
<1>7. CASE s.n = 0 /\ m.bus = "dead" /\ Le(m, n)
  <2>1. (s.n = 1) = FALSE
    BY <1>7
  <2>2. r.rail = FALSE
    BY <1>3, <2>1
  <2>3. PinsFit(m, r)
    BY <1>3, <1>7, <2>2 DEF PinsFit, Mode
  <2>4. m.eep = "rest" /\ ~r.rail
    BY <1>3, <1>7, <2>2 DEF FrameFit
  <2> QED
    BY <1>4, <1>7, <2>2, <2>3, <2>4 DEF r, Mode
<1> QED
  BY <1>5, <1>6, <1>7 DEF Switched, r

(* A store in order leaves the pins and the frame as the next mode says. *)
LEMMA StoreFits ==
  ASSUME NEW T, NEW m \in Mode, NEW n, NEW s \in StoreRec, NEW p, NEW c,
         PinsFit(m, p), FrameFit(m, c), kind \in AgbKinds \cup DmgKinds,
         Ok(kind, T, m, s, n), s.reg \notin Polls
  PROVE  PinsFit(n, Put(p, s)) /\ FrameFit(n, CartThen(p, Put(p, s), c))
<1>1. CASE Valued(m, s, n)
  BY <1>1, ValuedFits
<1>2. CASE Turned(m, s, n)
  BY <1>2, TurnedFits
<1>3. CASE s.reg = "PB_CLR" /\ Lowered(kind, m, s.ls, n)
  <2>1. Put(p, s) = [p EXCEPT !.low = @ \cup s.ls]
    BY <1>3 DEF Put
  <2> QED
    BY <1>3, <2>1, LoweredFits
<1>4. CASE s.reg = "PB_OUT" /\ Raised(kind, m, s.ls, n)
  <2>1. Put(p, s) = [p EXCEPT !.low = @ \ s.ls]
    BY <1>4 DEF Put
  <2> QED
    BY <1>4, <2>1, RaisedFits
<1>5. CASE s.reg = "PB_DIR"
           /\ ((s.n = 1 /\ Driven(kind, m, s.ls, n)) \/ (s.n = 0 /\ Released(kind, m, s.ls, n)))
  BY <1>5, DirectedFits
<1>6. CASE s.reg = "VCC_EN" /\ Switched(kind, m, s.n, n)
  BY <1>6, SwitchedFits
<1>7. CASE s.reg \in {"PA_PIN", "PB_PIN", "AD0_PIN", "PAGE_WAIT"} \cup Checks /\ Le(m, n)
  <2>1. Put(p, s) = p
    BY <1>7 DEF Put, Checks
  <2>2. FrameFit(m, CartThen(p, p, c))
    BY StillFits
  <2> QED
    BY <1>7, <2>1, <2>2, PinsFitLe, FrameFitLe
<1>8. ~Awaited(kind, T, m, s, n)
  BY DEF Awaited, Polls
<1>9. \/ Valued(m, s, n)
      \/ Turned(m, s, n)
      \/ s.reg = "PB_CLR" /\ Lowered(kind, m, s.ls, n)
      \/ s.reg = "PB_OUT" /\ Raised(kind, m, s.ls, n)
      \/ s.reg = "PB_DIR" /\ s.n = 1 /\ Driven(kind, m, s.ls, n)
      \/ s.reg = "PB_DIR" /\ s.n = 0 /\ Released(kind, m, s.ls, n)
      \/ s.reg = "VCC_EN" /\ Switched(kind, m, s.n, n)
      \/ s.reg \in {"PA_PIN", "PB_PIN", "AD0_PIN", "PAGE_WAIT"} \cup Checks /\ Le(m, n)
  BY <1>8 DEF Ok
<1> QED
  BY <1>1, <1>2, <1>3, <1>4, <1>5, <1>6, <1>7, <1>9

(* Every routine of cart.c stores to registers there are. *)
LEMMA Stores ==
  /\ \A v \in Nat : PaOut(v) \in StoreRec /\ HiOr(v) \in StoreRec
  /\ \A v : PaAd0(v) \in StoreRec
  /\ \A v \in {0, 1} : Rail(v) \in StoreRec
  /\ \A ls \in SUBSET Lines : Low(ls) \in StoreRec /\ High(ls) \in StoreRec
                              /\ Drive(ls) \in StoreRec /\ Release(ls) \in StoreRec
  /\ PaDrive \in StoreRec /\ PaRelease \in StoreRec /\ Ad0Drive \in StoreRec
  /\ Ad0Release \in StoreRec
  /\ HiClear \in StoreRec /\ HiDrive \in StoreRec /\ HiRelease \in StoreRec
  /\ SampleAd \in StoreRec /\ SampleHi \in StoreRec /\ SampleAd0 \in StoreRec
  /\ CheckAd \in StoreRec /\ CheckHi \in StoreRec
  /\ \A v \in Nat, k \in Polls : PollOf(k, v) \in StoreRec
<1>1. \A v \in Nat : PaOut(v) \in StoreRec /\ HiOr(v) \in StoreRec
  BY DEF StoreRec, Regs, Store, PaOut, HiOr
<1>2. (\A v : PaAd0(v) \in StoreRec) /\ \A v \in {0, 1} : Rail(v) \in StoreRec
  BY DEF StoreRec, Regs, Store, PaAd0, Rail
<1>3. \A ls \in SUBSET Lines : Low(ls) \in StoreRec /\ High(ls) \in StoreRec
                              /\ Drive(ls) \in StoreRec /\ Release(ls) \in StoreRec
  BY DEF StoreRec, Regs, Store, Low, High, Drive, Release
<1>4. PaDrive \in StoreRec /\ PaRelease \in StoreRec /\ Ad0Drive \in StoreRec
      /\ Ad0Release \in StoreRec
  BY DEF StoreRec, Regs, Store, PaDrive, PaRelease, Ad0Drive, Ad0Release
<1>5. HiClear \in StoreRec /\ HiDrive \in StoreRec /\ HiRelease \in StoreRec
  BY DEF StoreRec, Regs, Store, HiClear, HiDrive, HiRelease
<1>6. SampleAd \in StoreRec /\ SampleHi \in StoreRec /\ SampleAd0 \in StoreRec
      /\ CheckAd \in StoreRec /\ CheckHi \in StoreRec
  BY DEF StoreRec, Regs, Store, SampleAd, SampleHi, SampleAd0, CheckAd, CheckHi, Checks
<1>7. \A v \in Nat, k \in Polls : PollOf(k, v) \in StoreRec
  BY DEF StoreRec, Regs, Store, PollOf
<1> QED
  BY <1>1, <1>2, <1>3, <1>4, <1>5, <1>6, <1>7

(* The halves of an address fit their ports. *)
LEMMA Halves == \A a \in Nat : Lo(a) \in 0 .. LoSize - 1 /\ Hi(a) \in 0 .. HiSize - 1
  BY BusAssumption DEF Lo, Hi

(* So does an address above A15. *)
LEMMA UpperHalf == \A a \in Nat : (a % A15) + A15 \in 0 .. LoSize - 1
  BY BusAssumption DEF A15

(* An address is latched: /CS stays low. *)
LEMMA AgbOpenRun ==
  ASSUME NEW g \in AgbKinds, NEW T, NEW au \in Levels, NEW q \in Polled, NEW a \in Nat
  PROVE  GoodRun(g, T, Rest(g, au, q), AgbOpen(a),
                 Page(au, q))
<1> DEFINE R == Rest(g, au, q)
           D == Live({}, au, "out", "any", "any", "rest", 0, q)
           C == Held(au, q)
           L == Live({"cs"}, au, "out", "out", "any", "rom", 0, q)
           P == Page(au, q)
           tr == <<R, R, R, D, C, C, C, C, L, L, P>>
           p == << PaOut(0), HiClear, PaDrive, HiDrive, PaOut(Lo(a)), HiClear, HiOr(Hi(a)),
                  Low({"cs"}), PaOut(0), PaRelease >>
<1>1. R \in Mode /\ D \in Mode /\ C \in Mode /\ L \in Mode /\ P \in Mode
  BY DEF Mode, Phases, Four, Frames, Polled, Levels, Live, Rest, Page, Held, Aimed
<1>2. Calm(g, R) /\ Calm(g, D) /\ Calm(g, C) /\ Calm(g, L) /\ Calm(g, P)
  BY DEF Calm, Strobe, AgbKinds, DmgKinds, Levels, Polled, Live, Rest, Page, Held, Aimed
<1>3. p \in Prog
  BY Stores, BusAssumption, Halves DEF Prog, Lines, Idle, Four
<1>4. Ok(g, T, R, PaOut(0), R) /\ Ok(g, T, R, HiClear, R) /\ Ok(g, T, C, PaOut(Lo(a)), C)
      /\ Ok(g, T, C, HiClear, C) /\ Ok(g, T, C, HiOr(Hi(a)), C) /\ Ok(g, T, L, PaOut(0), L)
  BY BusAssumption, Halves DEF Ok, Valued, Store, PaOut, HiClear, HiOr, Le, Strobe,
       AgbKinds, DmgKinds, Levels, Polled, Live, Rest, Page, Held, Aimed
<1>5. Ok(g, T, R, PaDrive, D) /\ Ok(g, T, D, HiDrive, C) /\ Ok(g, T, L, PaRelease, P)
  BY BusAssumption, Halves DEF Ok, Turned, Store, PaDrive, HiDrive, PaRelease, Le, Strobe,
       AgbKinds, DmgKinds, Levels, Polled, Live, Rest, Page, Held, Aimed
<1>6. Ok(g, T, C, Low({"cs"}), L)
  BY BusAssumption, Halves DEF Ok, Lowered, LatchesTo, Store, Low, Le, Strobe, AgbKinds,
       DmgKinds, Levels, Polled, Live, Rest, Page, Held, Aimed
<1>7. AgbOpen(a) = p
  BY DEF AgbOpen
<1>8. Le(P, P)
  BY LeRefl
<1> HIDE DEF R, D, C, L, P
<1>9. tr \in Seq(Mode) /\ Len(tr) = Len(p) + 1
  BY <1>1
<1>10. \A k \in 1 .. Len(tr) : Calm(g, tr[k])
  BY <1>2
<1>11. \A k \in 1 .. Len(p) : Ok(g, T, tr[k], p[k], tr[k + 1])
  BY <1>4, <1>5, <1>6
<1>12. tr[1] = R /\ tr[Len(tr)] = P
  OBVIOUS
<1> HIDE DEF tr, p
<1>13. GoodRun(g, T, tr[1], p, P)
  BY <1>3, <1>8, <1>9, <1>10, <1>11, <1>12, Straight
<1> QED
  BY <1>7, <1>12, <1>13 DEF P, R

(* One read of a burst. *)
LEMMA BurstTurn ==
  ASSUME NEW g \in AgbKinds, NEW T, NEW au \in Levels, NEW q \in Polled,
         NEW sample \in {SampleAd, CheckAd}
  PROVE  GoodRun(g, T, Page(au, q), << Low({"rd"}), sample, High({"rd"}) >>,
                 Page(au, q))
<1> DEFINE P == Page(au, q)
           B == Live({"cs", "rd"}, au, "in", "any", "any", "rom", 0, q)
           tr == <<P, B, B, P>>
           p == << Low({"rd"}), sample, High({"rd"}) >>
<1>1. P \in Mode /\ B \in Mode
  BY DEF Mode, Phases, Four, Frames, Polled, Levels, Live, Rest, Page, Held, Aimed
<1>2. Calm(g, P) /\ Calm(g, B)
  BY DEF Calm, Strobe, AgbKinds, DmgKinds, Levels, Polled, Live, Rest, Page, Held, Aimed
<1>3. p \in Prog
  BY Stores, BusAssumption DEF Prog, Lines, Idle, Four
<1>4. Ok(g, T, P, Low({"rd"}), B)
  BY BusAssumption DEF Ok, Lowered, LatchesTo, Store, Low, Le, Strobe, AgbKinds, DmgKinds,
       Levels, Polled, Live, Rest, Page, Held, Aimed
<1>5. Ok(g, T, B, sample, B)
  BY BusAssumption DEF Ok, Checks, SampleAd, CheckAd, SampleHi, CheckHi, Store, Le, Strobe,
       AgbKinds, DmgKinds, Levels, Polled, Live, Rest, Page, Held, Aimed
<1>6. Ok(g, T, B, High({"rd"}), P)
  BY BusAssumption DEF Ok, Raised, CsRaised, WrRaised, Idle, Store, High, Le, Strobe,
       AgbKinds, DmgKinds, Levels, Polled, Live, Rest, Page, Held, Aimed
<1>7. << Low({"rd"}), sample, High({"rd"}) >> = p
  BY DEF Low
<1>8. Le(P, P)
  BY LeRefl
<1> HIDE DEF P, B
<1>9. tr \in Seq(Mode) /\ Len(tr) = Len(p) + 1
  BY <1>1
<1>10. \A k \in 1 .. Len(tr) : Calm(g, tr[k])
  BY <1>2
<1>11. \A k \in 1 .. Len(p) : Ok(g, T, tr[k], p[k], tr[k + 1])
  BY <1>4, <1>5, <1>6
<1>12. tr[1] = P /\ tr[Len(tr)] = P
  OBVIOUS
<1> HIDE DEF tr, p
<1>13. GoodRun(g, T, tr[1], p, P)
  BY <1>3, <1>8, <1>9, <1>10, <1>11, <1>12, Straight
<1> QED
  BY <1>7, <1>12, <1>13 DEF P

(* The address is let go. *)
LEMMA AgbCloseRun ==
  ASSUME NEW g \in AgbKinds, NEW T, NEW au \in Levels, NEW q \in Polled
  PROVE  GoodRun(g, T, Page(au, q), AgbClose,
                 Rest(g, au, q))
<1> DEFINE P == Page(au, q)
           R == Rest(g, au, q)
           tr == <<P, R>>
           p == << High({"cs"}) >>
<1>1. P \in Mode /\ R \in Mode
  BY DEF Mode, Phases, Four, Frames, Polled, Levels, Live, Rest, Page, Held, Aimed
<1>2. Calm(g, P) /\ Calm(g, R)
  BY DEF Calm, Strobe, AgbKinds, DmgKinds, Levels, Polled, Live, Rest, Page, Held, Aimed
<1>3. p \in Prog
  BY Stores, BusAssumption DEF Prog, Lines, Idle, Four
<1>4. Ok(g, T, P, High({"cs"}), R)
  BY BusAssumption DEF Ok, Raised, CsRaised, WrRaised, Idle, Store, High, Le, Strobe,
       AgbKinds, DmgKinds, Levels, Polled, Live, Rest, Page, Held, Aimed
<1>5. AgbClose = p
  BY DEF AgbClose
<1>6. Le(R, R)
  BY LeRefl
<1> HIDE DEF P, R
<1>7. tr \in Seq(Mode) /\ Len(tr) = Len(p) + 1
  BY <1>1
<1>8. \A k \in 1 .. Len(tr) : Calm(g, tr[k])
  BY <1>2
<1>9. \A k \in 1 .. Len(p) : Ok(g, T, tr[k], p[k], tr[k + 1])
  BY <1>4
<1>10. tr[1] = P /\ tr[Len(tr)] = R
  OBVIOUS
<1> HIDE DEF tr, p
<1>11. GoodRun(g, T, tr[1], p, R)
  BY <1>3, <1>6, <1>7, <1>8, <1>9, <1>10, Straight
<1> QED
  BY <1>5, <1>10, <1>11 DEF P, R

(* An address of a write burst, the bus armed. *)
LEMMA AddressRun ==
  ASSUME NEW g \in AgbKinds, NEW T, NEW au \in Levels, NEW q \in Polled, NEW a \in Nat
  PROVE  GoodRun(g, T, Held(au, q), << PaOut(Lo(a)), HiClear, HiOr(Hi(a)), Low({"cs"}) >>,
                 Live({"cs"}, au, "out", "out", "any", "rom", 0, q))
<1> DEFINE C == Held(au, q)
           L == Live({"cs"}, au, "out", "out", "any", "rom", 0, q)
           tr == <<C, C, C, C, L>>
           p == << PaOut(Lo(a)), HiClear, HiOr(Hi(a)), Low({"cs"}) >>
<1>1. C \in Mode /\ L \in Mode
  BY DEF Mode, Phases, Four, Frames, Polled, Levels, Live, Rest, Page, Held, Aimed
<1>2. Calm(g, C) /\ Calm(g, L)
  BY DEF Calm, Strobe, AgbKinds, DmgKinds, Levels, Polled, Live, Rest, Page, Held, Aimed
<1>3. p \in Prog
  BY Stores, BusAssumption, Halves DEF Prog, Lines, Idle, Four
<1>4. Ok(g, T, C, PaOut(Lo(a)), C) /\ Ok(g, T, C, HiClear, C)
      /\ Ok(g, T, C, HiOr(Hi(a)), C)
  BY BusAssumption, Halves DEF Ok, Valued, Store, PaOut, HiClear, HiOr, Le, Strobe,
       AgbKinds, DmgKinds, Levels, Polled, Live, Rest, Page, Held, Aimed
<1>5. Ok(g, T, C, Low({"cs"}), L)
  BY BusAssumption, Halves DEF Ok, Lowered, LatchesTo, Store, Low, Le, Strobe, AgbKinds,
       DmgKinds, Levels, Polled, Live, Rest, Page, Held, Aimed
<1>6. << PaOut(Lo(a)), HiClear, HiOr(Hi(a)), Low({"cs"}) >> = p
  BY DEF PaOut
<1>7. Le(L, L)
  BY LeRefl
<1> HIDE DEF C, L
<1>8. tr \in Seq(Mode) /\ Len(tr) = Len(p) + 1
  BY <1>1
<1>9. \A k \in 1 .. Len(tr) : Calm(g, tr[k])
  BY <1>2
<1>10. \A k \in 1 .. Len(p) : Ok(g, T, tr[k], p[k], tr[k + 1])
  BY <1>4, <1>5
<1>11. tr[1] = C /\ tr[Len(tr)] = L
  OBVIOUS
<1> HIDE DEF tr, p
<1>12. GoodRun(g, T, tr[1], p, L)
  BY <1>3, <1>7, <1>8, <1>9, <1>10, <1>11, Straight
<1> QED
  BY <1>6, <1>11, <1>12 DEF C, L

(* Its data. *)
LEMMA WriteDataRun ==
  ASSUME NEW g \in AgbKinds, NEW T, NEW au \in Levels, NEW q \in Polled, NEW v \in 0 .. LoSize - 1
  PROVE  GoodRun(g, T, Live({"cs"}, au, "out", "out", "any", "rom", 0, q), WriteData(v, "cs"),
                 Held(au, q))
<1> DEFINE L == Live({"cs"}, au, "out", "out", "any", "rom", 0, q)
           W == Live({"cs", "wr"}, au, "out", "out", "any", "rom", 0, q)
           X == Live({"cs"}, au, "out", "out", "any", "rom", 1, q)
           C == Held(au, q)
           tr == <<L, L, W, X, C>>
           p == << PaOut(v), Low({"wr"}), High({"wr"}), High({"cs"}) >>
<1>1. L \in Mode /\ W \in Mode /\ X \in Mode /\ C \in Mode
  BY DEF Mode, Phases, Four, Frames, Polled, Levels, Live, Rest, Page, Held, Aimed
<1>2. Calm(g, L) /\ Calm(g, W) /\ Calm(g, X) /\ Calm(g, C)
  BY DEF Calm, Strobe, AgbKinds, DmgKinds, Levels, Polled, Live, Rest, Page, Held, Aimed
<1>3. p \in Prog
  BY Stores, BusAssumption DEF Prog, Lines, Idle, Four
<1>4. Ok(g, T, L, PaOut(v), L)
  BY BusAssumption DEF Ok, Valued, Store, PaOut, Le, Strobe, AgbKinds, DmgKinds, Levels,
       Polled, Live, Rest, Page, Held, Aimed
<1>5. Ok(g, T, L, Low({"wr"}), W)
  BY BusAssumption DEF Ok, Lowered, LatchesTo, Store, Low, Le, Strobe, AgbKinds, DmgKinds,
       Levels, Polled, Live, Rest, Page, Held, Aimed
<1>6. Ok(g, T, W, High({"wr"}), X) /\ Ok(g, T, X, High({"cs"}), C)
  BY BusAssumption DEF Ok, Raised, CsRaised, WrRaised, Idle, Store, High, Le, Strobe,
       AgbKinds, DmgKinds, Levels, Polled, Live, Rest, Page, Held, Aimed
<1>7. WriteData(v, "cs") = p
  BY DEF WriteData
<1>8. Le(C, C)
  BY LeRefl
<1> HIDE DEF L, W, X, C
<1>9. tr \in Seq(Mode) /\ Len(tr) = Len(p) + 1
  BY <1>1
<1>10. \A k \in 1 .. Len(tr) : Calm(g, tr[k])
  BY <1>2
<1>11. \A k \in 1 .. Len(p) : Ok(g, T, tr[k], p[k], tr[k + 1])
  BY <1>4, <1>5, <1>6
<1>12. tr[1] = L /\ tr[Len(tr)] = C
  OBVIOUS
<1> HIDE DEF tr, p
<1>13. GoodRun(g, T, tr[1], p, C)
  BY <1>3, <1>8, <1>9, <1>10, <1>11, <1>12, Straight
<1> QED
  BY <1>7, <1>12, <1>13 DEF C, L

(* The bus is armed for a write burst. *)
LEMMA AgbArmRun ==
  ASSUME NEW g \in AgbKinds, NEW T, NEW au \in Levels, NEW q \in Polled
  PROVE  GoodRun(g, T, Rest(g, au, q), << PaOut(0), HiClear, PaDrive, HiDrive >>,
                 Held(au, q))
<1> DEFINE R == Rest(g, au, q)
           D == Live({}, au, "out", "any", "any", "rest", 0, q)
           C == Held(au, q)
           tr == <<R, R, R, D, C>>
           p == << PaOut(0), HiClear, PaDrive, HiDrive >>
<1>1. R \in Mode /\ D \in Mode /\ C \in Mode
  BY DEF Mode, Phases, Four, Frames, Polled, Levels, Live, Rest, Page, Held, Aimed
<1>2. Calm(g, R) /\ Calm(g, D) /\ Calm(g, C)
  BY DEF Calm, Strobe, AgbKinds, DmgKinds, Levels, Polled, Live, Rest, Page, Held, Aimed
<1>3. p \in Prog
  BY Stores, BusAssumption DEF Prog, Lines, Idle, Four
<1>4. Ok(g, T, R, PaOut(0), R) /\ Ok(g, T, R, HiClear, R)
  BY BusAssumption DEF Ok, Valued, Store, PaOut, HiClear, Le, Strobe, AgbKinds, DmgKinds,
       Levels, Polled, Live, Rest, Page, Held, Aimed
<1>5. Ok(g, T, R, PaDrive, D) /\ Ok(g, T, D, HiDrive, C)
  BY BusAssumption DEF Ok, Turned, Store, PaDrive, HiDrive, Le, Strobe, AgbKinds, DmgKinds,
       Levels, Polled, Live, Rest, Page, Held, Aimed
<1>6. << PaOut(0), HiClear, PaDrive, HiDrive >> = p
  BY DEF PaOut
<1>7. Le(C, C)
  BY LeRefl
<1> HIDE DEF R, D, C
<1>8. tr \in Seq(Mode) /\ Len(tr) = Len(p) + 1
  BY <1>1
<1>9. \A k \in 1 .. Len(tr) : Calm(g, tr[k])
  BY <1>2
<1>10. \A k \in 1 .. Len(p) : Ok(g, T, tr[k], p[k], tr[k + 1])
  BY <1>4, <1>5
<1>11. tr[1] = R /\ tr[Len(tr)] = C
  OBVIOUS
<1> HIDE DEF tr, p
<1>12. GoodRun(g, T, tr[1], p, C)
  BY <1>3, <1>7, <1>8, <1>9, <1>10, <1>11, Straight
<1> QED
  BY <1>6, <1>11, <1>12 DEF C, R

(* The address of a single write. *)
LEMMA AgbSelectRun ==
  ASSUME NEW g \in AgbKinds, NEW T, NEW au \in Levels, NEW q \in Polled, NEW a \in Nat
  PROVE  GoodRun(g, T, Rest(g, au, q), << PaOut(0), HiClear, PaDrive, HiDrive, PaOut(Lo(a)),
                                          HiClear, HiOr(Hi(a)), Low({"cs"}) >>,
                 Live({"cs"}, au, "out", "out", "any", "rom", 0, q))
<1> DEFINE R == Rest(g, au, q)
           D == Live({}, au, "out", "any", "any", "rest", 0, q)
           C == Held(au, q)
           L == Live({"cs"}, au, "out", "out", "any", "rom", 0, q)
           tr == <<R, R, R, D, C, C, C, C, L>>
           p == << PaOut(0), HiClear, PaDrive, HiDrive, PaOut(Lo(a)), HiClear, HiOr(Hi(a)),
                  Low({"cs"}) >>
<1>1. R \in Mode /\ D \in Mode /\ C \in Mode /\ L \in Mode
  BY DEF Mode, Phases, Four, Frames, Polled, Levels, Live, Rest, Page, Held, Aimed
<1>2. Calm(g, R) /\ Calm(g, D) /\ Calm(g, C) /\ Calm(g, L)
  BY DEF Calm, Strobe, AgbKinds, DmgKinds, Levels, Polled, Live, Rest, Page, Held, Aimed
<1>3. p \in Prog
  BY Stores, BusAssumption, Halves DEF Prog, Lines, Idle, Four
<1>4. Ok(g, T, R, PaOut(0), R) /\ Ok(g, T, R, HiClear, R) /\ Ok(g, T, C, PaOut(Lo(a)), C)
      /\ Ok(g, T, C, HiClear, C) /\ Ok(g, T, C, HiOr(Hi(a)), C)
  BY BusAssumption, Halves DEF Ok, Valued, Store, PaOut, HiClear, HiOr, Le, Strobe,
       AgbKinds, DmgKinds, Levels, Polled, Live, Rest, Page, Held, Aimed
<1>5. Ok(g, T, R, PaDrive, D) /\ Ok(g, T, D, HiDrive, C)
  BY BusAssumption, Halves DEF Ok, Turned, Store, PaDrive, HiDrive, Le, Strobe, AgbKinds,
       DmgKinds, Levels, Polled, Live, Rest, Page, Held, Aimed
<1>6. Ok(g, T, C, Low({"cs"}), L)
  BY BusAssumption, Halves DEF Ok, Lowered, LatchesTo, Store, Low, Le, Strobe, AgbKinds,
       DmgKinds, Levels, Polled, Live, Rest, Page, Held, Aimed
<1>7. << PaOut(0), HiClear, PaDrive, HiDrive, PaOut(Lo(a)), HiClear, HiOr(Hi(a)), Low({"cs"}) >> = p
  BY DEF PaOut
<1>8. Le(L, L)
  BY LeRefl
<1> HIDE DEF R, D, C, L
<1>9. tr \in Seq(Mode) /\ Len(tr) = Len(p) + 1
  BY <1>1
<1>10. \A k \in 1 .. Len(tr) : Calm(g, tr[k])
  BY <1>2
<1>11. \A k \in 1 .. Len(p) : Ok(g, T, tr[k], p[k], tr[k + 1])
  BY <1>4, <1>5, <1>6
<1>12. tr[1] = R /\ tr[Len(tr)] = L
  OBVIOUS
<1> HIDE DEF tr, p
<1>13. GoodRun(g, T, tr[1], p, L)
  BY <1>3, <1>8, <1>9, <1>10, <1>11, <1>12, Straight
<1> QED
  BY <1>7, <1>12, <1>13 DEF L, R

(* The strobes pulsed with no cartridge selected, as the bootup does. *)
LEMMA StrobesRun ==
  ASSUME NEW g \in AgbKinds, NEW T, NEW au \in Levels, NEW q \in Polled
  PROVE  GoodRun(g, T, Rest(g, au, q), << Low({"wr"}), Low({"rd"}), High({"rd"}), High({"wr"}) >>,
                 Rest(g, au, q))
<1> DEFINE R == Rest(g, au, q)
           W == Live({"wr"}, au, "any", "any", "any", "rest", 0, q)
           B == Live({"rd", "wr"}, au, "any", "any", "any", "rest", 0, q)
           tr == <<R, W, B, W, R>>
           p == << Low({"wr"}), Low({"rd"}), High({"rd"}), High({"wr"}) >>
<1>1. R \in Mode /\ W \in Mode /\ B \in Mode
  BY DEF Mode, Phases, Four, Frames, Polled, Levels, Live, Rest, Page, Held, Aimed
<1>2. Calm(g, R) /\ Calm(g, W) /\ Calm(g, B)
  BY DEF Calm, Strobe, AgbKinds, DmgKinds, Levels, Polled, Live, Rest, Page, Held, Aimed
<1>3. p \in Prog
  BY Stores, BusAssumption DEF Prog, Lines, Idle, Four
<1>4. Ok(g, T, R, Low({"wr"}), W) /\ Ok(g, T, W, Low({"rd"}), B)
  BY BusAssumption DEF Ok, Lowered, LatchesTo, Store, Low, Le, Strobe, AgbKinds, DmgKinds,
       Levels, Polled, Live, Rest, Page, Held, Aimed
<1>5. Ok(g, T, B, High({"rd"}), W) /\ Ok(g, T, W, High({"wr"}), R)
  BY BusAssumption DEF Ok, Raised, CsRaised, WrRaised, Idle, Store, High, Le, Strobe,
       AgbKinds, DmgKinds, Levels, Polled, Live, Rest, Page, Held, Aimed
<1>6. << Low({"wr"}), Low({"rd"}), High({"rd"}), High({"wr"}) >> = p
  BY DEF Low
<1>7. Le(R, R)
  BY LeRefl
<1> HIDE DEF R, W, B
<1>8. tr \in Seq(Mode) /\ Len(tr) = Len(p) + 1
  BY <1>1
<1>9. \A k \in 1 .. Len(tr) : Calm(g, tr[k])
  BY <1>2
<1>10. \A k \in 1 .. Len(p) : Ok(g, T, tr[k], p[k], tr[k + 1])
  BY <1>4, <1>5
<1>11. tr[1] = R /\ tr[Len(tr)] = R
  OBVIOUS
<1> HIDE DEF tr, p
<1>12. GoodRun(g, T, tr[1], p, R)
  BY <1>3, <1>7, <1>8, <1>9, <1>10, <1>11, Straight
<1> QED
  BY <1>6, <1>11, <1>12 DEF R

(* The save chip: the data lines are the chip's. *)
LEMMA SramOpenRun ==
  ASSUME NEW g \in AgbKinds, NEW T, NEW au \in Levels, NEW q \in Polled
  PROVE  GoodRun(g, T, Rest(g, au, q), SramOpen,
                 Aimed(au, "in", q))
<1> DEFINE R == Rest(g, au, q)
           I == Live({}, au, "any", "in", "any", "rest", 0, q)
           S == Aimed(au, "in", q)
           tr == <<R, R, I, S>>
           p == << HiClear, HiRelease, PaDrive >>
<1>1. R \in Mode /\ I \in Mode /\ S \in Mode
  BY DEF Mode, Phases, Four, Frames, Polled, Levels, Live, Rest, Page, Held, Aimed
<1>2. Calm(g, R) /\ Calm(g, I) /\ Calm(g, S)
  BY DEF Calm, Strobe, AgbKinds, DmgKinds, Levels, Polled, Live, Rest, Page, Held, Aimed
<1>3. p \in Prog
  BY Stores, BusAssumption DEF Prog, Lines, Idle, Four
<1>4. Ok(g, T, R, HiClear, R)
  BY BusAssumption DEF Ok, Valued, Store, HiClear, Le, Strobe, AgbKinds, DmgKinds, Levels,
       Polled, Live, Rest, Page, Held, Aimed
<1>5. Ok(g, T, R, HiRelease, I) /\ Ok(g, T, I, PaDrive, S)
  BY BusAssumption DEF Ok, Turned, Store, HiRelease, PaDrive, Le, Strobe, AgbKinds,
       DmgKinds, Levels, Polled, Live, Rest, Page, Held, Aimed
<1>6. SramOpen = p
  BY DEF SramOpen
<1>7. Le(S, S)
  BY LeRefl
<1> HIDE DEF R, I, S
<1>8. tr \in Seq(Mode) /\ Len(tr) = Len(p) + 1
  BY <1>1
<1>9. \A k \in 1 .. Len(tr) : Calm(g, tr[k])
  BY <1>2
<1>10. \A k \in 1 .. Len(p) : Ok(g, T, tr[k], p[k], tr[k + 1])
  BY <1>4, <1>5
<1>11. tr[1] = R /\ tr[Len(tr)] = S
  OBVIOUS
<1> HIDE DEF tr, p
<1>12. GoodRun(g, T, tr[1], p, S)
  BY <1>3, <1>7, <1>8, <1>9, <1>10, <1>11, Straight
<1> QED
  BY <1>6, <1>11, <1>12 DEF R, S

(* The save chip is let go. *)
LEMMA SramCloseRun ==
  ASSUME NEW g \in AgbKinds, NEW T, NEW au \in Levels, NEW q \in Polled
  PROVE  GoodRun(g, T, Aimed(au, "any", q), SramClose,
                 Rest(g, au, q))
<1> DEFINE S == Aimed(au, "any", q)
           R == Rest(g, au, q)
           tr == <<S, S, S, S, R>>
           p == << PaOut(0), HiClear, PaDrive, HiDrive >>
<1>1. S \in Mode /\ R \in Mode
  BY DEF Mode, Phases, Four, Frames, Polled, Levels, Live, Rest, Page, Held, Aimed
<1>2. Calm(g, S) /\ Calm(g, R)
  BY DEF Calm, Strobe, AgbKinds, DmgKinds, Levels, Polled, Live, Rest, Page, Held, Aimed
<1>3. p \in Prog
  BY Stores, BusAssumption DEF Prog, Lines, Idle, Four
<1>4. Ok(g, T, S, PaOut(0), S) /\ Ok(g, T, S, HiClear, S)
  BY BusAssumption DEF Ok, Valued, Store, PaOut, HiClear, Le, Strobe, AgbKinds, DmgKinds,
       Levels, Polled, Live, Rest, Page, Held, Aimed
<1>5. Ok(g, T, S, PaDrive, S) /\ Ok(g, T, S, HiDrive, R)
  BY BusAssumption DEF Ok, Turned, Store, PaDrive, HiDrive, Le, Strobe, AgbKinds, DmgKinds,
       Levels, Polled, Live, Rest, Page, Held, Aimed
<1>6. SramClose = p
  BY DEF SramClose
<1>7. Le(R, R)
  BY LeRefl
<1> HIDE DEF S, R
<1>8. tr \in Seq(Mode) /\ Len(tr) = Len(p) + 1
  BY <1>1
<1>9. \A k \in 1 .. Len(tr) : Calm(g, tr[k])
  BY <1>2
<1>10. \A k \in 1 .. Len(p) : Ok(g, T, tr[k], p[k], tr[k + 1])
  BY <1>4, <1>5
<1>11. tr[1] = S /\ tr[Len(tr)] = R
  OBVIOUS
<1> HIDE DEF tr, p
<1>12. GoodRun(g, T, tr[1], p, R)
  BY <1>3, <1>7, <1>8, <1>9, <1>10, <1>11, Straight
<1> QED
  BY <1>6, <1>11, <1>12 DEF R, S

(* One read of it.  The first readback of a program poll finds D0..D7 still driven. *)
LEMMA SramCycleRun ==
  ASSUME NEW g \in AgbKinds, NEW T, NEW au \in Levels, NEW q \in Polled,
         NEW h \in {"in", "any"}, h = "in" \/ q = "first", NEW a \in Nat,
         NEW sample \in {SampleHi, CheckHi}
  PROVE  GoodRun(g, T, Aimed(au, h, q), SramCycle(a, sample),
                 Aimed(au, "in", q))
<1> DEFINE S == Aimed(au, h, q)
           U == Live({"cs2"}, au, "out", h, "any", "rest", 0, q)
           V == Live({"cs2", "rd"}, au, "out", h, "any", "rest", 0, q)
           W == Live({"cs2", "rd"}, au, "out", "in", "any", "rest", 0, q)
           X == Live({"cs2"}, au, "out", "in", "any", "rest", 0, q)
           I == Aimed(au, "in", q)
           tr == <<S, S, U, V, W, W, X, I>>
           p == << PaOut(Lo(a)), Low({"cs2"}), Low({"rd"}), HiRelease, sample,
                  High({"rd"}), High({"cs2"}) >>
<1>1. S \in Mode /\ U \in Mode /\ V \in Mode /\ W \in Mode /\ X \in Mode /\ I \in Mode
  BY DEF Mode, Phases, Four, Frames, Polled, Levels, Live, Rest, Page, Held, Aimed
<1>2. Calm(g, S) /\ Calm(g, U) /\ Calm(g, V) /\ Calm(g, W) /\ Calm(g, X) /\ Calm(g, I)
  BY DEF Calm, Strobe, AgbKinds, DmgKinds, Levels, Polled, Live, Rest, Page, Held, Aimed
<1>3. p \in Prog
  BY Stores, BusAssumption, Halves DEF Prog, Lines, Idle, Four
<1>4. Ok(g, T, S, PaOut(Lo(a)), S)
  BY BusAssumption, Halves DEF Ok, Valued, Store, PaOut, Le, Strobe, AgbKinds, DmgKinds,
       Levels, Polled, Live, Rest, Page, Held, Aimed
<1>5. Ok(g, T, S, Low({"cs2"}), U) /\ Ok(g, T, U, Low({"rd"}), V)
  BY BusAssumption, Halves DEF Ok, Lowered, LatchesTo, Store, Low, Le, Strobe, AgbKinds,
       DmgKinds, Levels, Polled, Live, Rest, Page, Held, Aimed
<1>6. Ok(g, T, V, HiRelease, W)
  BY BusAssumption, Halves DEF Ok, Turned, Store, HiRelease, Le, Strobe, AgbKinds,
       DmgKinds, Levels, Polled, Live, Rest, Page, Held, Aimed
<1>7. Ok(g, T, W, sample, W)
  BY BusAssumption, Halves DEF Ok, Checks, SampleAd, CheckAd, SampleHi, CheckHi, Store, Le,
       Strobe, AgbKinds, DmgKinds, Levels, Polled, Live, Rest, Page, Held, Aimed
<1>8. Ok(g, T, W, High({"rd"}), X) /\ Ok(g, T, X, High({"cs2"}), I)
  BY BusAssumption, Halves DEF Ok, Raised, CsRaised, WrRaised, Idle, Store, High, Le,
       Strobe, AgbKinds, DmgKinds, Levels, Polled, Live, Rest, Page, Held, Aimed
<1>9. SramCycle(a, sample) = p
  BY DEF SramCycle
<1>10. Le(I, I)
  BY LeRefl
<1> HIDE DEF S, U, V, W, X, I
<1>11. tr \in Seq(Mode) /\ Len(tr) = Len(p) + 1
  BY <1>1
<1>12. \A k \in 1 .. Len(tr) : Calm(g, tr[k])
  BY <1>2
<1>13. \A k \in 1 .. Len(p) : Ok(g, T, tr[k], p[k], tr[k + 1])
  BY <1>4, <1>5, <1>6, <1>7, <1>8
<1>14. tr[1] = S /\ tr[Len(tr)] = I
  OBVIOUS
<1> HIDE DEF tr, p
<1>15. GoodRun(g, T, tr[1], p, I)
  BY <1>3, <1>10, <1>11, <1>12, <1>13, <1>14, Straight
<1> QED
  BY <1>9, <1>14, <1>15 DEF I, S

(* Writes to it. *)
LEMMA SramArmRun ==
  ASSUME NEW g \in AgbKinds, NEW T, NEW au \in Levels, NEW q \in Polled
  PROVE  GoodRun(g, T, Aimed(au, "any", q), << High({"rd"}), HiDrive, PaDrive >>,
                 Held(au, q))
<1> DEFINE S == Aimed(au, "any", q)
           C == Held(au, q)
           tr == <<S, S, C, C>>
           p == << High({"rd"}), HiDrive, PaDrive >>
<1>1. S \in Mode /\ C \in Mode
  BY DEF Mode, Phases, Four, Frames, Polled, Levels, Live, Rest, Page, Held, Aimed
<1>2. Calm(g, S) /\ Calm(g, C)
  BY DEF Calm, Strobe, AgbKinds, DmgKinds, Levels, Polled, Live, Rest, Page, Held, Aimed
<1>3. p \in Prog
  BY Stores, BusAssumption DEF Prog, Lines, Idle, Four
<1>4. Ok(g, T, S, High({"rd"}), S)
  BY BusAssumption DEF Ok, Raised, CsRaised, WrRaised, Idle, Store, High, Le, Strobe,
       AgbKinds, DmgKinds, Levels, Polled, Live, Rest, Page, Held, Aimed
<1>5. Ok(g, T, S, HiDrive, C) /\ Ok(g, T, C, PaDrive, C)
  BY BusAssumption DEF Ok, Turned, Store, HiDrive, PaDrive, Le, Strobe, AgbKinds, DmgKinds,
       Levels, Polled, Live, Rest, Page, Held, Aimed
<1>6. << High({"rd"}), HiDrive, PaDrive >> = p
  BY DEF High
<1>7. Le(C, C)
  BY LeRefl
<1> HIDE DEF S, C
<1>8. tr \in Seq(Mode) /\ Len(tr) = Len(p) + 1
  BY <1>1
<1>9. \A k \in 1 .. Len(tr) : Calm(g, tr[k])
  BY <1>2
<1>10. \A k \in 1 .. Len(p) : Ok(g, T, tr[k], p[k], tr[k + 1])
  BY <1>4, <1>5
<1>11. tr[1] = S /\ tr[Len(tr)] = C
  OBVIOUS
<1> HIDE DEF tr, p
<1>12. GoodRun(g, T, tr[1], p, C)
  BY <1>3, <1>7, <1>8, <1>9, <1>10, <1>11, Straight
<1> QED
  BY <1>6, <1>11, <1>12 DEF C, S

(* A command byte to the save chip. *)
LEMMA SramCmdRun ==
  ASSUME NEW g \in AgbKinds, NEW T, NEW au \in Levels, NEW q \in Polled, NEW a \in Nat,
         NEW v \in 0 .. HiSize - 1
  PROVE  GoodRun(g, T, Held(au, q), SramCmd(a, v),
                 Held(au, q))
<1> DEFINE C == Held(au, q)
           U == Live({"cs2"}, au, "out", "out", "any", "rest", 0, q)
           W == Live({"cs2", "wr"}, au, "out", "out", "any", "rest", 0, q)
           tr == <<C, C, C, C, U, W, U, C>>
           p == << PaOut(Lo(a)), HiClear, HiOr(v), Low({"cs2"}), Low({"wr"}), High({"wr"}),
                  High({"cs2"}) >>
<1>1. C \in Mode /\ U \in Mode /\ W \in Mode
  BY DEF Mode, Phases, Four, Frames, Polled, Levels, Live, Rest, Page, Held, Aimed
<1>2. Calm(g, C) /\ Calm(g, U) /\ Calm(g, W)
  BY DEF Calm, Strobe, AgbKinds, DmgKinds, Levels, Polled, Live, Rest, Page, Held, Aimed
<1>3. p \in Prog
  BY Stores, BusAssumption, Halves DEF Prog, Lines, Idle, Four
<1>4. Ok(g, T, C, PaOut(Lo(a)), C) /\ Ok(g, T, C, HiClear, C) /\ Ok(g, T, C, HiOr(v), C)
  BY BusAssumption, Halves DEF Ok, Valued, Store, PaOut, HiClear, HiOr, Le, Strobe,
       AgbKinds, DmgKinds, Levels, Polled, Live, Rest, Page, Held, Aimed
<1>5. Ok(g, T, C, Low({"cs2"}), U) /\ Ok(g, T, U, Low({"wr"}), W)
  BY BusAssumption, Halves DEF Ok, Lowered, LatchesTo, Store, Low, Le, Strobe, AgbKinds,
       DmgKinds, Levels, Polled, Live, Rest, Page, Held, Aimed
<1>6. Ok(g, T, W, High({"wr"}), U) /\ Ok(g, T, U, High({"cs2"}), C)
  BY BusAssumption, Halves DEF Ok, Raised, CsRaised, WrRaised, Idle, Store, High, Le,
       Strobe, AgbKinds, DmgKinds, Levels, Polled, Live, Rest, Page, Held, Aimed
<1>7. SramCmd(a, v) = p
  BY DEF SramCmd
<1>8. Le(C, C)
  BY LeRefl
<1> HIDE DEF C, U, W
<1>9. tr \in Seq(Mode) /\ Len(tr) = Len(p) + 1
  BY <1>1
<1>10. \A k \in 1 .. Len(tr) : Calm(g, tr[k])
  BY <1>2
<1>11. \A k \in 1 .. Len(p) : Ok(g, T, tr[k], p[k], tr[k + 1])
  BY <1>4, <1>5, <1>6
<1>12. tr[1] = C /\ tr[Len(tr)] = C
  OBVIOUS
<1> HIDE DEF tr, p
<1>13. GoodRun(g, T, tr[1], p, C)
  BY <1>3, <1>8, <1>9, <1>10, <1>11, <1>12, Straight
<1> QED
  BY <1>7, <1>12, <1>13 DEF C

(* The address lines driven, /RD high. *)
LEMMA SramReadyRun ==
  ASSUME NEW g \in AgbKinds, NEW T, NEW au \in Levels, NEW q \in Polled, NEW h \in {"in", "any"}
  PROVE  GoodRun(g, T, Aimed(au, h, q), << High({"rd"}), PaDrive >>,
                 Aimed(au, h, q))
<1> DEFINE S == Aimed(au, h, q)
           tr == <<S, S, S>>
           p == << High({"rd"}), PaDrive >>
<1>1. S \in Mode
  BY DEF Mode, Phases, Four, Frames, Polled, Levels, Live, Rest, Page, Held, Aimed
<1>2. Calm(g, S)
  BY DEF Calm, Strobe, AgbKinds, DmgKinds, Levels, Polled, Live, Rest, Page, Held, Aimed
<1>3. p \in Prog
  BY Stores, BusAssumption DEF Prog, Lines, Idle, Four
<1>4. Ok(g, T, S, High({"rd"}), S)
  BY BusAssumption DEF Ok, Raised, CsRaised, WrRaised, Idle, Store, High, Le, Strobe,
       AgbKinds, DmgKinds, Levels, Polled, Live, Rest, Page, Held, Aimed
<1>5. Ok(g, T, S, PaDrive, S)
  BY BusAssumption DEF Ok, Turned, Store, PaDrive, Le, Strobe, AgbKinds, DmgKinds, Levels,
       Polled, Live, Rest, Page, Held, Aimed
<1>6. << High({"rd"}), PaDrive >> = p
  BY DEF High
<1>7. Le(S, S)
  BY LeRefl
<1> HIDE DEF S
<1>8. tr \in Seq(Mode) /\ Len(tr) = Len(p) + 1
  BY <1>1
<1>9. \A k \in 1 .. Len(tr) : Calm(g, tr[k])
  BY <1>2
<1>10. \A k \in 1 .. Len(p) : Ok(g, T, tr[k], p[k], tr[k + 1])
  BY <1>4, <1>5
<1>11. tr[1] = S /\ tr[Len(tr)] = S
  OBVIOUS
<1> HIDE DEF tr, p
<1>12. GoodRun(g, T, tr[1], p, S)
  BY <1>3, <1>7, <1>8, <1>9, <1>10, <1>11, Straight
<1> QED
  BY <1>6, <1>11, <1>12 DEF S

(* /RD is raised again. *)
LEMMA SramRdHighRun ==
  ASSUME NEW g \in AgbKinds, NEW T, NEW au \in Levels, NEW q \in Polled, NEW h \in {"in", "any"}
  PROVE  GoodRun(g, T, Aimed(au, h, q), << High({"rd"}) >>,
                 Aimed(au, h, q))
<1> DEFINE S == Aimed(au, h, q)
           tr == <<S, S>>
           p == << High({"rd"}) >>
<1>1. S \in Mode
  BY DEF Mode, Phases, Four, Frames, Polled, Levels, Live, Rest, Page, Held, Aimed
<1>2. Calm(g, S)
  BY DEF Calm, Strobe, AgbKinds, DmgKinds, Levels, Polled, Live, Rest, Page, Held, Aimed
<1>3. p \in Prog
  BY Stores, BusAssumption DEF Prog, Lines, Idle, Four
<1>4. Ok(g, T, S, High({"rd"}), S)
  BY BusAssumption DEF Ok, Raised, CsRaised, WrRaised, Idle, Store, High, Le, Strobe,
       AgbKinds, DmgKinds, Levels, Polled, Live, Rest, Page, Held, Aimed
<1>5. << High({"rd"}) >> = p
  BY DEF High
<1>6. Le(S, S)
  BY LeRefl
<1> HIDE DEF S
<1>7. tr \in Seq(Mode) /\ Len(tr) = Len(p) + 1
  BY <1>1
<1>8. \A k \in 1 .. Len(tr) : Calm(g, tr[k])
  BY <1>2
<1>9. \A k \in 1 .. Len(p) : Ok(g, T, tr[k], p[k], tr[k + 1])
  BY <1>4
<1>10. tr[1] = S /\ tr[Len(tr)] = S
  OBVIOUS
<1> HIDE DEF tr, p
<1>11. GoodRun(g, T, tr[1], p, S)
  BY <1>3, <1>6, <1>7, <1>8, <1>9, <1>10, Straight
<1> QED
  BY <1>5, <1>10, <1>11 DEF S

(* The wait for a page, and the poll of a byte. *)
LEMMA PageWaitRun ==
  ASSUME NEW g \in AgbKinds, NEW T, NEW au \in Levels, NEW q \in Polled
  PROVE  GoodRun(g, T, Aimed(au, "any", q), << PollOf("PAGE_WAIT", 0) >>,
                 Aimed(au, "any", q))
<1> DEFINE S == Aimed(au, "any", q)
           tr == <<S, S>>
           p == << PollOf("PAGE_WAIT", 0) >>
<1>1. S \in Mode
  BY DEF Mode, Phases, Four, Frames, Polled, Levels, Live, Rest, Page, Held, Aimed
<1>2. Calm(g, S)
  BY DEF Calm, Strobe, AgbKinds, DmgKinds, Levels, Polled, Live, Rest, Page, Held, Aimed
<1>3. p \in Prog
  BY Stores, BusAssumption DEF Prog, Lines, Idle, Four, Polls
<1>4. Ok(g, T, S, PollOf("PAGE_WAIT", 0), S)
  BY BusAssumption DEF Ok, Checks, Polls, Awaited, Store, PollOf, Le, Strobe, AgbKinds,
       DmgKinds, Levels, Polled, Live, Rest, Page, Held, Aimed
<1>5. << PollOf("PAGE_WAIT", 0) >> = p
  BY DEF High
<1>6. Le(S, S)
  BY LeRefl
<1> HIDE DEF S
<1>7. tr \in Seq(Mode) /\ Len(tr) = Len(p) + 1
  BY <1>1
<1>8. \A k \in 1 .. Len(tr) : Calm(g, tr[k])
  BY <1>2
<1>9. \A k \in 1 .. Len(p) : Ok(g, T, tr[k], p[k], tr[k + 1])
  BY <1>4
<1>10. tr[1] = S /\ tr[Len(tr)] = S
  OBVIOUS
<1> HIDE DEF tr, p
<1>11. GoodRun(g, T, tr[1], p, S)
  BY <1>3, <1>6, <1>7, <1>8, <1>9, <1>10, Straight
<1> QED
  BY <1>5, <1>10, <1>11 DEF S

(* The poll of a save chip after a byte, where the bus is still held. *)
LEMMA PollSaveRun ==
  ASSUME NEW g, g = "agb_flash", NEW T, NEW au \in Levels, NEW a \in Nat
  PROVE  GoodRun(g, T, Held(au, "no"), << PollOf("POLL_SAVE", a) >>,
                 Aimed(au, "any", "no"))
<1> DEFINE C == Held(au, "no")
           S == Aimed(au, "any", "no")
           tr == <<C, S>>
           p == << PollOf("POLL_SAVE", a) >>
<1>1. C \in Mode /\ S \in Mode
  BY DEF Mode, Phases, Four, Frames, Polled, Levels, Live, Rest, Page, Held, Aimed
<1>2. Calm(g, C) /\ Calm(g, S)
  BY DEF Calm, Strobe, AgbKinds, DmgKinds, Levels, Polled, Live, Rest, Page, Held, Aimed
<1>3. p \in Prog
  BY Stores, BusAssumption DEF Prog, Lines, Idle, Four, Polls
<1>4. Ok(g, T, C, PollOf("POLL_SAVE", a), S)
  BY BusAssumption DEF Ok, Checks, Polls, Awaited, Store, PollOf, Le, Strobe, AgbKinds,
       DmgKinds, Levels, Polled, Live, Rest, Page, Held, Aimed
<1>5. << PollOf("POLL_SAVE", a) >> = p
  BY DEF High
<1>6. Le(S, S)
  BY LeRefl
<1> HIDE DEF C, S
<1>7. tr \in Seq(Mode) /\ Len(tr) = Len(p) + 1
  BY <1>1
<1>8. \A k \in 1 .. Len(tr) : Calm(g, tr[k])
  BY <1>2
<1>9. \A k \in 1 .. Len(p) : Ok(g, T, tr[k], p[k], tr[k + 1])
  BY <1>4
<1>10. tr[1] = C /\ tr[Len(tr)] = S
  OBVIOUS
<1> HIDE DEF tr, p
<1>11. GoodRun(g, T, tr[1], p, S)
  BY <1>3, <1>6, <1>7, <1>8, <1>9, <1>10, Straight
<1> QED
  BY <1>5, <1>10, <1>11 DEF C, S

(* The status poll of a ROM flash chip, where the command may give up. *)
LEMMA PollRomRun ==
  ASSUME NEW g, g = "agb_flash", NEW T, NEW au \in Levels, NEW a \in Nat,
         Rest(g, au, "no") \in T
  PROVE  GoodRun(g, T, Rest(g, au, "no"), << PollOf("POLL_ROM", a) >>,
                 Rest(g, au, "no"))
<1> DEFINE C == Rest(g, au, "no")
           tr == <<C, C>>
           p == << PollOf("POLL_ROM", a) >>
<1>1. C \in Mode
  BY DEF Mode, Phases, Four, Frames, Polled, Levels, Live, Rest, Page, Held, Aimed
<1>2. Calm(g, C)
  BY DEF Calm, Strobe, AgbKinds, DmgKinds, Levels, Polled, Live, Rest, Page, Held, Aimed
<1>3. p \in Prog
  BY Stores, BusAssumption DEF Prog, Lines, Idle, Four, Polls
<1>4. Ok(g, T, C, PollOf("POLL_ROM", a), C)
  BY BusAssumption DEF Ok, Checks, Polls, Awaited, Store, PollOf, Le, Strobe, AgbKinds,
       DmgKinds, Levels, Polled, Live, Rest, Page, Held, Aimed
<1>5. << PollOf("POLL_ROM", a) >> = p
  BY DEF High
<1>6. Le(C, C)
  BY LeRefl
<1> HIDE DEF C
<1>7. tr \in Seq(Mode) /\ Len(tr) = Len(p) + 1
  BY <1>1
<1>8. \A k \in 1 .. Len(tr) : Calm(g, tr[k])
  BY <1>2
<1>9. \A k \in 1 .. Len(p) : Ok(g, T, tr[k], p[k], tr[k + 1])
  BY <1>4
<1>10. tr[1] = C /\ tr[Len(tr)] = C
  OBVIOUS
<1> HIDE DEF tr, p
<1>11. GoodRun(g, T, tr[1], p, C)
  BY <1>3, <1>6, <1>7, <1>8, <1>9, <1>10, Straight
<1> QED
  BY <1>5, <1>10, <1>11 DEF C

(* The bus as the EEPROM routines park it. *)
LEMMA EepromBusRun ==
  ASSUME NEW g, g = "agb_eep", NEW T, NEW au \in Levels
  PROVE  GoodRun(g, T, Rest(g, au, "no"), EepromBus,
                 EepHeld(au))
<1> DEFINE R == Rest(g, au, "no")
           D == Live({}, au, "out", "any", "any", "rest", 0, "no")
           C == Live({}, au, "out", "out", "any", "rest", 0, "no")
           Z == Live({}, au, "out", "out", "zero", "rest", 0, "no")
           E == EepHeld(au)
           tr == <<R, D, C, C, Z, E>>
           p == << PaDrive, HiDrive, PaOut(EepAt), HiClear, HiOr(HiSize - 1) >>
<1>1. R \in Mode /\ D \in Mode /\ C \in Mode /\ Z \in Mode /\ E \in Mode
  BY DEF Mode, Phases, Four, Frames, Polled, Levels, Live, Rest, EepHeld, Frame, Answer
<1>2. Calm(g, R) /\ Calm(g, D) /\ Calm(g, C) /\ Calm(g, Z) /\ Calm(g, E)
  BY DEF Calm, Strobe, AgbKinds, DmgKinds, Levels, Polled, Live, Rest, EepHeld, Frame, Answer
<1>3. p \in Prog
  BY Stores, BusAssumption DEF Prog, Lines, Idle, Four
<1>4. Ok(g, T, R, PaDrive, D) /\ Ok(g, T, D, HiDrive, C)
  BY BusAssumption DEF Ok, Turned, Store, PaDrive, HiDrive, Le, Strobe, AgbKinds, DmgKinds,
       Levels, Polled, Live, Rest, EepHeld, Frame, Answer
<1>5. Ok(g, T, C, PaOut(EepAt), C) /\ Ok(g, T, C, HiClear, Z)
      /\ Ok(g, T, Z, HiOr(HiSize - 1), E)
  BY BusAssumption DEF Ok, Valued, Store, PaOut, HiClear, HiOr, Le, Strobe, AgbKinds,
       DmgKinds, Levels, Polled, Live, Rest, EepHeld, Frame, Answer
<1>6. EepromBus = p
  BY DEF EepromBus
<1>7. Le(E, E)
  BY LeRefl
<1> HIDE DEF R, D, C, Z, E
<1>8. tr \in Seq(Mode) /\ Len(tr) = Len(p) + 1
  BY <1>1
<1>9. \A k \in 1 .. Len(tr) : Calm(g, tr[k])
  BY <1>2
<1>10. \A k \in 1 .. Len(p) : Ok(g, T, tr[k], p[k], tr[k + 1])
  BY <1>4, <1>5
<1>11. tr[1] = R /\ tr[Len(tr)] = E
  OBVIOUS
<1> HIDE DEF tr, p
<1>12. GoodRun(g, T, tr[1], p, E)
  BY <1>3, <1>7, <1>8, <1>9, <1>10, <1>11, Straight
<1> QED
  BY <1>6, <1>11, <1>12 DEF E, R

(* It is selected. *)
LEMMA EepromBeginRun ==
  ASSUME NEW g, g = "agb_eep", NEW T, NEW au \in Levels
  PROVE  GoodRun(g, T, EepHeld(au), EepromBegin,
                 Frame(au, 0))
<1> DEFINE E == EepHeld(au)
           F == Frame(au, 0)
           tr == <<E, F, F, F, F>>
           p == << Low({"cs"}), High({"clk"}), Low({"clk"}), Ad0Drive >>
<1>1. E \in Mode /\ F \in Mode
  BY DEF Mode, Phases, Four, Frames, Polled, Levels, Live, Rest, EepHeld, Frame, Answer
<1>2. Calm(g, E) /\ Calm(g, F)
  BY DEF Calm, Strobe, AgbKinds, DmgKinds, Levels, Polled, Live, Rest, EepHeld, Frame, Answer
<1>3. p \in Prog
  BY Stores, BusAssumption DEF Prog, Lines, Idle, Four
<1>4. Ok(g, T, E, Low({"cs"}), F) /\ Ok(g, T, F, Low({"clk"}), F)
  BY BusAssumption DEF Ok, Lowered, LatchesTo, Store, Low, Le, Strobe, AgbKinds, DmgKinds,
       Levels, Polled, Live, Rest, EepHeld, Frame, Answer
<1>5. Ok(g, T, F, High({"clk"}), F)
  BY BusAssumption DEF Ok, Raised, CsRaised, WrRaised, Idle, Store, High, Le, Strobe,
       AgbKinds, DmgKinds, Levels, Polled, Live, Rest, EepHeld, Frame, Answer
<1>6. Ok(g, T, F, Ad0Drive, F)
  BY BusAssumption DEF Ok, Turned, Store, Ad0Drive, Le, Strobe, AgbKinds, DmgKinds, Levels,
       Polled, Live, Rest, EepHeld, Frame, Answer
<1>7. EepromBegin = p
  BY DEF EepromBegin
<1>8. Le(F, F)
  BY LeRefl
<1> HIDE DEF E, F
<1>9. tr \in Seq(Mode) /\ Len(tr) = Len(p) + 1
  BY <1>1
<1>10. \A k \in 1 .. Len(tr) : Calm(g, tr[k])
  BY <1>2
<1>11. \A k \in 1 .. Len(p) : Ok(g, T, tr[k], p[k], tr[k + 1])
  BY <1>4, <1>5, <1>6
<1>12. tr[1] = E /\ tr[Len(tr)] = F
  OBVIOUS
<1> HIDE DEF tr, p
<1>13. GoodRun(g, T, tr[1], p, F)
  BY <1>3, <1>8, <1>9, <1>10, <1>11, <1>12, Straight
<1> QED
  BY <1>7, <1>12, <1>13 DEF E, F

(* A bit is clocked out. *)
LEMMA SendTurn ==
  ASSUME NEW g, g = "agb_eep", NEW T, NEW au \in Levels, NEW n \in Nat, NEW b
  PROVE  GoodRun(g, T, Frame(au, n), << PaAd0(b), Low({"wr"}), High({"wr"}) >>,
                 Frame(au, n + 1))
<1> DEFINE F == Frame(au, n)
           W == Live({"cs", "wr"}, au, "out", "out", "top", "sel", n, "no")
           N == Frame(au, n + 1)
           tr == <<F, F, W, N>>
           p == << PaAd0(b), Low({"wr"}), High({"wr"}) >>
<1>1. F \in Mode /\ W \in Mode /\ N \in Mode
  BY DEF Mode, Phases, Four, Frames, Polled, Levels, Live, Rest, EepHeld, Frame, Answer
<1>2. Calm(g, F) /\ Calm(g, W) /\ Calm(g, N)
  BY DEF Calm, Strobe, AgbKinds, DmgKinds, Levels, Polled, Live, Rest, EepHeld, Frame, Answer
<1>3. p \in Prog
  BY Stores, BusAssumption DEF Prog, Lines, Idle, Four
<1>4. Ok(g, T, F, PaAd0(b), F)
  BY BusAssumption DEF Ok, Valued, Store, PaAd0, Le, Strobe, AgbKinds, DmgKinds, Levels,
       Polled, Live, Rest, EepHeld, Frame, Answer
<1>5. Ok(g, T, F, Low({"wr"}), W)
  BY BusAssumption DEF Ok, Lowered, LatchesTo, Store, Low, Le, Strobe, AgbKinds, DmgKinds,
       Levels, Polled, Live, Rest, EepHeld, Frame, Answer
<1>6. Ok(g, T, W, High({"wr"}), N)
  BY BusAssumption DEF Ok, Raised, CsRaised, WrRaised, Idle, Store, High, Le, Strobe,
       AgbKinds, DmgKinds, Levels, Polled, Live, Rest, EepHeld, Frame, Answer
<1>7. << PaAd0(b), Low({"wr"}), High({"wr"}) >> = p
  BY DEF Low
<1>8. Le(N, N)
  BY LeRefl
<1> HIDE DEF F, W, N
<1>9. tr \in Seq(Mode) /\ Len(tr) = Len(p) + 1
  BY <1>1
<1>10. \A k \in 1 .. Len(tr) : Calm(g, tr[k])
  BY <1>2
<1>11. \A k \in 1 .. Len(p) : Ok(g, T, tr[k], p[k], tr[k + 1])
  BY <1>4, <1>5, <1>6
<1>12. tr[1] = F /\ tr[Len(tr)] = N
  OBVIOUS
<1> HIDE DEF tr, p
<1>13. GoodRun(g, T, tr[1], p, N)
  BY <1>3, <1>8, <1>9, <1>10, <1>11, <1>12, Straight
<1> QED
  BY <1>7, <1>12, <1>13 DEF F, N

(* The end of a read command, and AD0 turned round. *)
LEMMA EepromAskRun ==
  ASSUME NEW g, g = "agb_eep", NEW T, NEW au \in Levels
  PROVE  GoodRun(g, T, Frame(au, EepAddrBits + 2),
                 << PaAd0(0), Low({"wr"}), High({"wr"}), High({"cs"}), Ad0Release,
          Low({"cs"}) >>,
                 Answer(au))
<1> DEFINE F == Frame(au, EepAddrBits + 2)
           W == Live({"cs", "wr"}, au, "out", "out", "top", "sel", EepAddrBits + 2, "no")
           N == Frame(au, EepAddrBits + 3)
           Y == Live({}, au, "out", "out", "top", "ready", 0, "no")
           Z == Live({}, au, "ad0in", "out", "top", "ready", 0, "no")
           K == Answer(au)
           tr == <<F, F, W, N, Y, Z, K>>
           p == << PaAd0(0), Low({"wr"}), High({"wr"}), High({"cs"}), Ad0Release,
                  Low({"cs"}) >>
<1>1. F \in Mode /\ W \in Mode /\ N \in Mode /\ Y \in Mode /\ Z \in Mode /\ K \in Mode
  BY BusAssumption DEF Mode, Phases, Four, Frames, Polled, Levels, Live, Rest, EepHeld, Frame,
       Answer
<1>2. Calm(g, F) /\ Calm(g, W) /\ Calm(g, N) /\ Calm(g, Y) /\ Calm(g, Z) /\ Calm(g, K)
  BY DEF Calm, Strobe, AgbKinds, DmgKinds, Levels, Polled, Live, Rest, EepHeld, Frame, Answer
<1>3. p \in Prog
  BY Stores, BusAssumption DEF Prog, Lines, Idle, Four
<1>4. Ok(g, T, F, PaAd0(0), F)
  BY BusAssumption DEF Ok, Valued, Store, PaAd0, Le, Strobe, AgbKinds, DmgKinds, Levels,
       Polled, Live, Rest, EepHeld, Frame, Answer
<1>5. Ok(g, T, F, Low({"wr"}), W) /\ Ok(g, T, Z, Low({"cs"}), K)
  BY BusAssumption DEF Ok, Lowered, LatchesTo, Store, Low, Le, Strobe, AgbKinds, DmgKinds,
       Levels, Polled, Live, Rest, EepHeld, Frame, Answer
<1>6. Ok(g, T, W, High({"wr"}), N) /\ Ok(g, T, N, High({"cs"}), Y)
  BY BusAssumption DEF Ok, Raised, CsRaised, WrRaised, Idle, Store, High, Le, Strobe,
       AgbKinds, DmgKinds, Levels, Polled, Live, Rest, EepHeld, Frame, Answer
<1>7. Ok(g, T, Y, Ad0Release, Z)
  BY BusAssumption DEF Ok, Turned, Store, Ad0Release, Le, Strobe, AgbKinds, DmgKinds,
       Levels, Polled, Live, Rest, EepHeld, Frame, Answer
<1>8. << PaAd0(0), Low({"wr"}), High({"wr"}), High({"cs"}), Ad0Release,
          Low({"cs"}) >> = p
  BY DEF Low
<1>9. Le(K, K)
  BY LeRefl
<1> HIDE DEF F, W, N, Y, Z, K
<1>10. tr \in Seq(Mode) /\ Len(tr) = Len(p) + 1
  BY <1>1
<1>11. \A k \in 1 .. Len(tr) : Calm(g, tr[k])
  BY <1>2
<1>12. \A k \in 1 .. Len(p) : Ok(g, T, tr[k], p[k], tr[k + 1])
  BY <1>4, <1>5, <1>6, <1>7
<1>13. tr[1] = F /\ tr[Len(tr)] = K
  OBVIOUS
<1> HIDE DEF tr, p
<1>14. GoodRun(g, T, tr[1], p, K)
  BY <1>3, <1>9, <1>10, <1>11, <1>12, <1>13, Straight
<1> QED
  BY <1>8, <1>13, <1>14 DEF F, K

(* A bit of the answer, passed over or taken. *)
LEMMA DummyTurn ==
  ASSUME NEW g, g = "agb_eep", NEW T, NEW au \in Levels
  PROVE  GoodRun(g, T, Answer(au), << Low({"rd"}), High({"rd"}) >>,
                 Answer(au))
<1> DEFINE K == Answer(au)
           V == Live({"cs", "rd"}, au, "ad0in", "out", "top", "answer", 0, "no")
           tr == <<K, V, K>>
           p == << Low({"rd"}), High({"rd"}) >>
<1>1. K \in Mode /\ V \in Mode
  BY DEF Mode, Phases, Four, Frames, Polled, Levels, Live, Rest, EepHeld, Frame, Answer
<1>2. Calm(g, K) /\ Calm(g, V)
  BY DEF Calm, Strobe, AgbKinds, DmgKinds, Levels, Polled, Live, Rest, EepHeld, Frame, Answer
<1>3. p \in Prog
  BY Stores, BusAssumption DEF Prog, Lines, Idle, Four
<1>4. Ok(g, T, K, Low({"rd"}), V)
  BY BusAssumption DEF Ok, Lowered, LatchesTo, Store, Low, Le, Strobe, AgbKinds, DmgKinds,
       Levels, Polled, Live, Rest, EepHeld, Frame, Answer
<1>5. Ok(g, T, V, High({"rd"}), K)
  BY BusAssumption DEF Ok, Raised, CsRaised, WrRaised, Idle, Store, High, Le, Strobe,
       AgbKinds, DmgKinds, Levels, Polled, Live, Rest, EepHeld, Frame, Answer
<1>6. << Low({"rd"}), High({"rd"}) >> = p
  BY DEF Low
<1>7. Le(K, K)
  BY LeRefl
<1> HIDE DEF K, V
<1>8. tr \in Seq(Mode) /\ Len(tr) = Len(p) + 1
  BY <1>1
<1>9. \A k \in 1 .. Len(tr) : Calm(g, tr[k])
  BY <1>2
<1>10. \A k \in 1 .. Len(p) : Ok(g, T, tr[k], p[k], tr[k + 1])
  BY <1>4, <1>5
<1>11. tr[1] = K /\ tr[Len(tr)] = K
  OBVIOUS
<1> HIDE DEF tr, p
<1>12. GoodRun(g, T, tr[1], p, K)
  BY <1>3, <1>7, <1>8, <1>9, <1>10, <1>11, Straight
<1> QED
  BY <1>6, <1>11, <1>12 DEF K

(* A bit of the EEPROM's answer. *)
LEMMA BitTurn ==
  ASSUME NEW g, g = "agb_eep", NEW T, NEW au \in Levels
  PROVE  GoodRun(g, T, Answer(au), << Low({"rd"}), High({"rd"}), SampleAd0 >>,
                 Answer(au))
<1> DEFINE K == Answer(au)
           V == Live({"cs", "rd"}, au, "ad0in", "out", "top", "answer", 0, "no")
           tr == <<K, V, K, K>>
           p == << Low({"rd"}), High({"rd"}), SampleAd0 >>
<1>1. K \in Mode /\ V \in Mode
  BY DEF Mode, Phases, Four, Frames, Polled, Levels, Live, Rest, EepHeld, Frame, Answer
<1>2. Calm(g, K) /\ Calm(g, V)
  BY DEF Calm, Strobe, AgbKinds, DmgKinds, Levels, Polled, Live, Rest, EepHeld, Frame, Answer
<1>3. p \in Prog
  BY Stores, BusAssumption DEF Prog, Lines, Idle, Four
<1>4. Ok(g, T, K, Low({"rd"}), V)
  BY BusAssumption DEF Ok, Lowered, LatchesTo, Store, Low, Le, Strobe, AgbKinds, DmgKinds,
       Levels, Polled, Live, Rest, EepHeld, Frame, Answer
<1>5. Ok(g, T, V, High({"rd"}), K)
  BY BusAssumption DEF Ok, Raised, CsRaised, WrRaised, Idle, Store, High, Le, Strobe,
       AgbKinds, DmgKinds, Levels, Polled, Live, Rest, EepHeld, Frame, Answer
<1>6. Ok(g, T, K, SampleAd0, K)
  BY BusAssumption DEF Ok, Store, SampleAd0, Le, Strobe, AgbKinds, DmgKinds, Levels,
       Polled, Live, Rest, EepHeld, Frame, Answer
<1>7. << Low({"rd"}), High({"rd"}), SampleAd0 >> = p
  BY DEF Low
<1>8. Le(K, K)
  BY LeRefl
<1> HIDE DEF K, V
<1>9. tr \in Seq(Mode) /\ Len(tr) = Len(p) + 1
  BY <1>1
<1>10. \A k \in 1 .. Len(tr) : Calm(g, tr[k])
  BY <1>2
<1>11. \A k \in 1 .. Len(p) : Ok(g, T, tr[k], p[k], tr[k + 1])
  BY <1>4, <1>5, <1>6
<1>12. tr[1] = K /\ tr[Len(tr)] = K
  OBVIOUS
<1> HIDE DEF tr, p
<1>13. GoodRun(g, T, tr[1], p, K)
  BY <1>3, <1>8, <1>9, <1>10, <1>11, <1>12, Straight
<1> QED
  BY <1>7, <1>12, <1>13 DEF K

(* AD0 is turned back. *)
LEMMA EepromEndRun ==
  ASSUME NEW g, g = "agb_eep", NEW T, NEW au \in Levels
  PROVE  GoodRun(g, T, Answer(au), << High({"cs"}), Ad0Drive >>,
                 EepHeld(au))
<1> DEFINE K == Answer(au)
           Z == Live({}, au, "ad0in", "out", "top", "rest", 0, "no")
           E == EepHeld(au)
           tr == <<K, Z, E>>
           p == << High({"cs"}), Ad0Drive >>
<1>1. K \in Mode /\ Z \in Mode /\ E \in Mode
  BY DEF Mode, Phases, Four, Frames, Polled, Levels, Live, Rest, EepHeld, Frame, Answer
<1>2. Calm(g, K) /\ Calm(g, Z) /\ Calm(g, E)
  BY DEF Calm, Strobe, AgbKinds, DmgKinds, Levels, Polled, Live, Rest, EepHeld, Frame, Answer
<1>3. p \in Prog
  BY Stores, BusAssumption DEF Prog, Lines, Idle, Four
<1>4. Ok(g, T, K, High({"cs"}), Z)
  BY BusAssumption DEF Ok, Raised, CsRaised, WrRaised, Idle, Store, High, Le, Strobe,
       AgbKinds, DmgKinds, Levels, Polled, Live, Rest, EepHeld, Frame, Answer
<1>5. Ok(g, T, Z, Ad0Drive, E)
  BY BusAssumption DEF Ok, Turned, Store, Ad0Drive, Le, Strobe, AgbKinds, DmgKinds, Levels,
       Polled, Live, Rest, EepHeld, Frame, Answer
<1>6. << High({"cs"}), Ad0Drive >> = p
  BY DEF High
<1>7. Le(E, E)
  BY LeRefl
<1> HIDE DEF K, Z, E
<1>8. tr \in Seq(Mode) /\ Len(tr) = Len(p) + 1
  BY <1>1
<1>9. \A k \in 1 .. Len(tr) : Calm(g, tr[k])
  BY <1>2
<1>10. \A k \in 1 .. Len(p) : Ok(g, T, tr[k], p[k], tr[k + 1])
  BY <1>4, <1>5
<1>11. tr[1] = K /\ tr[Len(tr)] = E
  OBVIOUS
<1> HIDE DEF tr, p
<1>12. GoodRun(g, T, tr[1], p, E)
  BY <1>3, <1>7, <1>8, <1>9, <1>10, <1>11, Straight
<1> QED
  BY <1>6, <1>11, <1>12 DEF E, K

(* The end of a write command. *)
LEMMA EepromStoreRun ==
  ASSUME NEW g, g = "agb_eep", NEW T, NEW au \in Levels
  PROVE  GoodRun(g, T, Frame(au, EepAddrBits + EepBits + 2),
                 << PaAd0(0), Low({"wr"}), High({"wr"}), High({"cs"}), High({"clk"}),
          Low({"clk"}) >>,
                 EepHeld(au))
<1> DEFINE F == Frame(au, EepAddrBits + EepBits + 2)
           W == Live({"cs", "wr"}, au, "out", "out", "top", "sel", EepAddrBits + EepBits + 2, "no")
           N == Frame(au, EepAddrBits + EepBits + 3)
           E == EepHeld(au)
           tr == <<F, F, W, N, E, E, E>>
           p == << PaAd0(0), Low({"wr"}), High({"wr"}), High({"cs"}), High({"clk"}),
                  Low({"clk"}) >>
<1>1. F \in Mode /\ W \in Mode /\ N \in Mode /\ E \in Mode
  BY BusAssumption DEF Mode, Phases, Four, Frames, Polled, Levels, Live, Rest, EepHeld, Frame,
       Answer
<1>2. Calm(g, F) /\ Calm(g, W) /\ Calm(g, N) /\ Calm(g, E)
  BY DEF Calm, Strobe, AgbKinds, DmgKinds, Levels, Polled, Live, Rest, EepHeld, Frame, Answer
<1>3. p \in Prog
  BY Stores, BusAssumption DEF Prog, Lines, Idle, Four
<1>4. Ok(g, T, F, PaAd0(0), F)
  BY BusAssumption DEF Ok, Valued, Store, PaAd0, Le, Strobe, AgbKinds, DmgKinds, Levels,
       Polled, Live, Rest, EepHeld, Frame, Answer
<1>5. Ok(g, T, F, Low({"wr"}), W) /\ Ok(g, T, E, Low({"clk"}), E)
  BY BusAssumption DEF Ok, Lowered, LatchesTo, Store, Low, Le, Strobe, AgbKinds, DmgKinds,
       Levels, Polled, Live, Rest, EepHeld, Frame, Answer
<1>6. Ok(g, T, W, High({"wr"}), N) /\ Ok(g, T, N, High({"cs"}), E)
      /\ Ok(g, T, E, High({"clk"}), E)
  BY BusAssumption DEF Ok, Raised, CsRaised, WrRaised, Idle, Store, High, Le, Strobe,
       AgbKinds, DmgKinds, Levels, Polled, Live, Rest, EepHeld, Frame, Answer
<1>7. << PaAd0(0), Low({"wr"}), High({"wr"}), High({"cs"}), High({"clk"}),
          Low({"clk"}) >> = p
  BY DEF Low
<1>8. Le(E, E)
  BY LeRefl
<1> HIDE DEF F, W, N, E
<1>9. tr \in Seq(Mode) /\ Len(tr) = Len(p) + 1
  BY <1>1
<1>10. \A k \in 1 .. Len(tr) : Calm(g, tr[k])
  BY <1>2
<1>11. \A k \in 1 .. Len(p) : Ok(g, T, tr[k], p[k], tr[k + 1])
  BY <1>4, <1>5, <1>6
<1>12. tr[1] = F /\ tr[Len(tr)] = E
  OBVIOUS
<1> HIDE DEF tr, p
<1>13. GoodRun(g, T, tr[1], p, E)
  BY <1>3, <1>8, <1>9, <1>10, <1>11, <1>12, Straight
<1> QED
  BY <1>7, <1>12, <1>13 DEF E, F

(* The 3D window is latched: /CS stays low. *)
LEMMA M3dWindowRun ==
  ASSUME NEW g \in AgbKinds, NEW T, NEW au \in Levels, NEW q \in Polled
  PROVE  GoodRun(g, T, Rest(g, au, q), << PaDrive, HiDrive, PaOut(WinAt), HiClear, Low({"cs"}),
                                          PaOut(0),
          HiClear, PaRelease >>,
                 Page(au, q))
<1> DEFINE R == Rest(g, au, q)
           D == Live({}, au, "out", "any", "any", "rest", 0, q)
           C == Held(au, q)
           L == Live({"cs"}, au, "out", "out", "any", "rom", 0, q)
           P == Page(au, q)
           tr == <<R, D, C, C, C, L, L, L, P>>
           p == << PaDrive, HiDrive, PaOut(WinAt), HiClear, Low({"cs"}), PaOut(0), HiClear,
                  PaRelease >>
<1>1. R \in Mode /\ D \in Mode /\ C \in Mode /\ L \in Mode /\ P \in Mode
  BY DEF Mode, Phases, Four, Frames, Polled, Levels, Live, Rest, Page, Held, Aimed
<1>2. Calm(g, R) /\ Calm(g, D) /\ Calm(g, C) /\ Calm(g, L) /\ Calm(g, P)
  BY DEF Calm, Strobe, AgbKinds, DmgKinds, Levels, Polled, Live, Rest, Page, Held, Aimed
<1>3. p \in Prog
  BY Stores, BusAssumption DEF Prog, Lines, Idle, Four
<1>4. Ok(g, T, R, PaDrive, D) /\ Ok(g, T, D, HiDrive, C) /\ Ok(g, T, L, PaRelease, P)
  BY BusAssumption DEF Ok, Turned, Store, PaDrive, HiDrive, PaRelease, Le, Strobe,
       AgbKinds, DmgKinds, Levels, Polled, Live, Rest, Page, Held, Aimed
<1>5. Ok(g, T, C, PaOut(WinAt), C) /\ Ok(g, T, C, HiClear, C) /\ Ok(g, T, L, PaOut(0), L)
      /\ Ok(g, T, L, HiClear, L)
  BY BusAssumption DEF Ok, Valued, Store, PaOut, HiClear, Le, Strobe, AgbKinds, DmgKinds,
       Levels, Polled, Live, Rest, Page, Held, Aimed
<1>6. Ok(g, T, C, Low({"cs"}), L)
  BY BusAssumption DEF Ok, Lowered, LatchesTo, Store, Low, Le, Strobe, AgbKinds, DmgKinds,
       Levels, Polled, Live, Rest, Page, Held, Aimed
<1>7. << PaDrive, HiDrive, PaOut(WinAt), HiClear, Low({"cs"}), PaOut(0),
          HiClear, PaRelease >> = p
  BY DEF PaOut
<1>8. Le(P, P)
  BY LeRefl
<1> HIDE DEF R, D, C, L, P
<1>9. tr \in Seq(Mode) /\ Len(tr) = Len(p) + 1
  BY <1>1
<1>10. \A k \in 1 .. Len(tr) : Calm(g, tr[k])
  BY <1>2
<1>11. \A k \in 1 .. Len(p) : Ok(g, T, tr[k], p[k], tr[k + 1])
  BY <1>4, <1>5, <1>6
<1>12. tr[1] = R /\ tr[Len(tr)] = P
  OBVIOUS
<1> HIDE DEF tr, p
<1>13. GoodRun(g, T, tr[1], p, P)
  BY <1>3, <1>8, <1>9, <1>10, <1>11, <1>12, Straight
<1> QED
  BY <1>7, <1>12, <1>13 DEF P, R

(* DMG reads. *)
LEMMA DmgSetupRun ==
  ASSUME NEW g \in DmgKinds, NEW T, NEW au \in Levels, NEW q \in Polled
  PROVE  GoodRun(g, T, Rest(g, au, q), DmgSetup,
                 Rest(g, au, q))
<1> DEFINE R == Rest(g, au, q)
           S == Aimed(au, "in", q)
           tr == <<R, S, S, R>>
           p == << PaDrive, HiRelease, High(Idle) >>
<1>1. R \in Mode /\ S \in Mode
  BY DEF Mode, Phases, Four, Frames, Polled, Levels, Live, Rest, Held, Aimed, Reading, Loose, Picked
<1>2. Calm(g, R) /\ Calm(g, S)
  BY DEF Calm, Strobe, AgbKinds, DmgKinds, Levels, Polled, Live, Rest, Held, Aimed, Reading, Loose,
       Picked
<1>3. p \in Prog
  BY Stores, BusAssumption DEF Prog, Lines, Idle, Four
<1>4. Ok(g, T, R, PaDrive, S) /\ Ok(g, T, S, HiRelease, S)
  BY BusAssumption DEF Ok, Turned, Store, PaDrive, HiRelease, Le, Strobe, AgbKinds,
       DmgKinds, Levels, Polled, Live, Rest, Held, Aimed, Reading, Loose, Picked
<1>5. Ok(g, T, S, High(Idle), R)
  BY BusAssumption DEF Ok, Raised, CsRaised, WrRaised, Idle, Store, High, Le, Strobe,
       AgbKinds, DmgKinds, Levels, Polled, Live, Rest, Held, Aimed, Reading, Loose, Picked
<1>6. DmgSetup = p
  BY DEF DmgSetup
<1>7. Le(R, R)
  BY LeRefl
<1> HIDE DEF R, S
<1>8. tr \in Seq(Mode) /\ Len(tr) = Len(p) + 1
  BY <1>1
<1>9. \A k \in 1 .. Len(tr) : Calm(g, tr[k])
  BY <1>2
<1>10. \A k \in 1 .. Len(p) : Ok(g, T, tr[k], p[k], tr[k + 1])
  BY <1>4, <1>5
<1>11. tr[1] = R /\ tr[Len(tr)] = R
  OBVIOUS
<1> HIDE DEF tr, p
<1>12. GoodRun(g, T, tr[1], p, R)
  BY <1>3, <1>7, <1>8, <1>9, <1>10, <1>11, Straight
<1> QED
  BY <1>6, <1>11, <1>12 DEF R

(* A DMG read begins: D0..D7 are released before /RD goes low. *)
LEMMA DmgReadArmRun ==
  ASSUME NEW g \in DmgKinds, NEW T, NEW au \in Levels, NEW q \in Polled
  PROVE  GoodRun(g, T, Rest(g, au, q), << PaDrive, HiRelease, Low({"rd"}), Low({"clk"}) >>,
                 Reading(au, q))
<1> DEFINE R == Rest(g, au, q)
           S == Aimed(au, "in", q)
           D == Reading(au, q)
           tr == <<R, S, S, D, D>>
           p == << PaDrive, HiRelease, Low({"rd"}), Low({"clk"}) >>
<1>1. R \in Mode /\ S \in Mode /\ D \in Mode
  BY DEF Mode, Phases, Four, Frames, Polled, Levels, Live, Rest, Held, Aimed, Reading, Loose, Picked
<1>2. Calm(g, R) /\ Calm(g, S) /\ Calm(g, D)
  BY DEF Calm, Strobe, AgbKinds, DmgKinds, Levels, Polled, Live, Rest, Held, Aimed, Reading, Loose,
       Picked
<1>3. p \in Prog
  BY Stores, BusAssumption DEF Prog, Lines, Idle, Four
<1>4. Ok(g, T, R, PaDrive, S) /\ Ok(g, T, S, HiRelease, S)
  BY BusAssumption DEF Ok, Turned, Store, PaDrive, HiRelease, Le, Strobe, AgbKinds,
       DmgKinds, Levels, Polled, Live, Rest, Held, Aimed, Reading, Loose, Picked
<1>5. Ok(g, T, S, Low({"rd"}), D) /\ Ok(g, T, D, Low({"clk"}), D)
  BY BusAssumption DEF Ok, Lowered, LatchesTo, Store, Low, Le, Strobe, AgbKinds, DmgKinds,
       Levels, Polled, Live, Rest, Held, Aimed, Reading, Loose, Picked
<1>6. << PaDrive, HiRelease, Low({"rd"}), Low({"clk"}) >> = p
  BY DEF Low
<1>7. Le(D, D)
  BY LeRefl
<1> HIDE DEF R, S, D
<1>8. tr \in Seq(Mode) /\ Len(tr) = Len(p) + 1
  BY <1>1
<1>9. \A k \in 1 .. Len(tr) : Calm(g, tr[k])
  BY <1>2
<1>10. \A k \in 1 .. Len(p) : Ok(g, T, tr[k], p[k], tr[k + 1])
  BY <1>4, <1>5
<1>11. tr[1] = R /\ tr[Len(tr)] = D
  OBVIOUS
<1> HIDE DEF tr, p
<1>12. GoodRun(g, T, tr[1], p, D)
  BY <1>3, <1>7, <1>8, <1>9, <1>10, <1>11, Straight
<1> QED
  BY <1>6, <1>11, <1>12 DEF D, R

(* Its cycle, with /CS pulsed. *)
LEMMA DmgCsCycleRun ==
  ASSUME NEW g \in DmgKinds, NEW T, NEW au \in Levels, NEW q \in Polled, NEW a \in 0 .. LoSize - 1
  PROVE  GoodRun(g, T, Reading(au, q), DmgCsCycle(a),
                 Reading(au, q))
<1> DEFINE D == Reading(au, q)
           X == Live({"cs", "rd"}, au, "out", "in", "any", "rom", 0, q)
           Y == Live({"cs"}, au, "out", "in", "any", "rom", 0, q)
           tr == <<D, D, D, X, X, X, X, X, Y, D>>
           p == << PaOut(a), High({"clk"}), Low({"cs"}), Low({"rd"}), Low({"clk"}),
                  SampleHi, High({"clk"}), High({"rd"}), High({"cs"}) >>
<1>1. D \in Mode /\ X \in Mode /\ Y \in Mode
  BY DEF Mode, Phases, Four, Frames, Polled, Levels, Live, Rest, Held, Aimed, Reading, Loose, Picked
<1>2. Calm(g, D) /\ Calm(g, X) /\ Calm(g, Y)
  BY DEF Calm, Strobe, AgbKinds, DmgKinds, Levels, Polled, Live, Rest, Held, Aimed, Reading, Loose,
       Picked
<1>3. p \in Prog
  BY Stores, BusAssumption DEF Prog, Lines, Idle, Four
<1>4. Ok(g, T, D, PaOut(a), D)
  BY BusAssumption DEF Ok, Valued, Store, PaOut, Le, Strobe, AgbKinds, DmgKinds, Levels,
       Polled, Live, Rest, Held, Aimed, Reading, Loose, Picked
<1>5. Ok(g, T, D, High({"clk"}), D) /\ Ok(g, T, X, High({"clk"}), X)
      /\ Ok(g, T, X, High({"rd"}), Y) /\ Ok(g, T, Y, High({"cs"}), D)
  BY BusAssumption DEF Ok, Raised, CsRaised, WrRaised, Idle, Store, High, Le, Strobe,
       AgbKinds, DmgKinds, Levels, Polled, Live, Rest, Held, Aimed, Reading, Loose, Picked
<1>6. Ok(g, T, D, Low({"cs"}), X) /\ Ok(g, T, X, Low({"rd"}), X)
      /\ Ok(g, T, X, Low({"clk"}), X)
  BY BusAssumption DEF Ok, Lowered, LatchesTo, Store, Low, Le, Strobe, AgbKinds, DmgKinds,
       Levels, Polled, Live, Rest, Held, Aimed, Reading, Loose, Picked
<1>7. Ok(g, T, X, SampleHi, X)
  BY BusAssumption DEF Ok, Store, SampleHi, Le, Strobe, AgbKinds, DmgKinds, Levels, Polled,
       Live, Rest, Held, Aimed, Reading, Loose, Picked
<1>8. DmgCsCycle(a) = p
  BY DEF DmgCsCycle
<1>9. Le(D, D)
  BY LeRefl
<1> HIDE DEF D, X, Y
<1>10. tr \in Seq(Mode) /\ Len(tr) = Len(p) + 1
  BY <1>1
<1>11. \A k \in 1 .. Len(tr) : Calm(g, tr[k])
  BY <1>2
<1>12. \A k \in 1 .. Len(p) : Ok(g, T, tr[k], p[k], tr[k + 1])
  BY <1>4, <1>5, <1>6, <1>7
<1>13. tr[1] = D /\ tr[Len(tr)] = D
  OBVIOUS
<1> HIDE DEF tr, p
<1>14. GoodRun(g, T, tr[1], p, D)
  BY <1>3, <1>9, <1>10, <1>11, <1>12, <1>13, Straight
<1> QED
  BY <1>8, <1>13, <1>14 DEF D

(* Its cycle, with A15 pulsed. *)
LEMMA DmgA15CycleRun ==
  ASSUME NEW g \in DmgKinds, NEW T, NEW au \in Levels, NEW q \in Polled, NEW a \in 0 .. LoSize - 1
  PROVE  GoodRun(g, T, Reading(au, q), DmgA15Cycle(a),
                 Reading(au, q))
<1> DEFINE D == Reading(au, q)
           tr == <<D, D, D, D>>
           p == << PaOut(a), SampleHi, PaOut((a % A15) + A15) >>
<1>1. D \in Mode
  BY DEF Mode, Phases, Four, Frames, Polled, Levels, Live, Rest, Held, Aimed, Reading, Loose, Picked
<1>2. Calm(g, D)
  BY DEF Calm, Strobe, AgbKinds, DmgKinds, Levels, Polled, Live, Rest, Held, Aimed, Reading, Loose,
       Picked
<1>3. p \in Prog
  BY Stores, BusAssumption, UpperHalf DEF Prog, Lines, Idle, Four
<1>4. Ok(g, T, D, PaOut(a), D) /\ Ok(g, T, D, PaOut((a % A15) + A15), D)
  BY BusAssumption, UpperHalf DEF Ok, Valued, Store, PaOut, Le, Strobe, AgbKinds, DmgKinds,
       Levels, Polled, Live, Rest, Held, Aimed, Reading, Loose, Picked
<1>5. Ok(g, T, D, SampleHi, D)
  BY BusAssumption, UpperHalf DEF Ok, Store, SampleHi, Le, Strobe, AgbKinds, DmgKinds,
       Levels, Polled, Live, Rest, Held, Aimed, Reading, Loose, Picked
<1>6. DmgA15Cycle(a) = p
  BY DEF DmgA15Cycle
<1>7. Le(D, D)
  BY LeRefl
<1> HIDE DEF D
<1>8. tr \in Seq(Mode) /\ Len(tr) = Len(p) + 1
  BY <1>1
<1>9. \A k \in 1 .. Len(tr) : Calm(g, tr[k])
  BY <1>2
<1>10. \A k \in 1 .. Len(p) : Ok(g, T, tr[k], p[k], tr[k + 1])
  BY <1>4, <1>5
<1>11. tr[1] = D /\ tr[Len(tr)] = D
  OBVIOUS
<1> HIDE DEF tr, p
<1>12. GoodRun(g, T, tr[1], p, D)
  BY <1>3, <1>7, <1>8, <1>9, <1>10, <1>11, Straight
<1> QED
  BY <1>6, <1>11, <1>12 DEF D

(* Its cycle, with /RD pulsed. *)
LEMMA DmgRdCycleRun ==
  ASSUME NEW g \in DmgKinds, NEW T, NEW au \in Levels, NEW q \in Polled, NEW a \in 0 .. LoSize - 1
  PROVE  GoodRun(g, T, Reading(au, q), DmgRdCycle(a, SampleHi),
                 Reading(au, q))
<1> DEFINE D == Reading(au, q)
           tr == <<D, D, D, D, D>>
           p == << PaOut(a), Low({"rd"}), SampleHi, High({"rd"}) >>
<1>1. D \in Mode
  BY DEF Mode, Phases, Four, Frames, Polled, Levels, Live, Rest, Held, Aimed, Reading, Loose, Picked
<1>2. Calm(g, D)
  BY DEF Calm, Strobe, AgbKinds, DmgKinds, Levels, Polled, Live, Rest, Held, Aimed, Reading, Loose,
       Picked
<1>3. p \in Prog
  BY Stores, BusAssumption DEF Prog, Lines, Idle, Four
<1>4. Ok(g, T, D, PaOut(a), D)
  BY BusAssumption DEF Ok, Valued, Store, PaOut, Le, Strobe, AgbKinds, DmgKinds, Levels,
       Polled, Live, Rest, Held, Aimed, Reading, Loose, Picked
<1>5. Ok(g, T, D, Low({"rd"}), D)
  BY BusAssumption DEF Ok, Lowered, LatchesTo, Store, Low, Le, Strobe, AgbKinds, DmgKinds,
       Levels, Polled, Live, Rest, Held, Aimed, Reading, Loose, Picked
<1>6. Ok(g, T, D, SampleHi, D)
  BY BusAssumption DEF Ok, Store, SampleHi, Le, Strobe, AgbKinds, DmgKinds, Levels, Polled,
       Live, Rest, Held, Aimed, Reading, Loose, Picked
<1>7. Ok(g, T, D, High({"rd"}), D)
  BY BusAssumption DEF Ok, Raised, CsRaised, WrRaised, Idle, Store, High, Le, Strobe,
       AgbKinds, DmgKinds, Levels, Polled, Live, Rest, Held, Aimed, Reading, Loose, Picked
<1>8. DmgRdCycle(a, SampleHi) = p
  BY DEF DmgRdCycle
<1>9. Le(D, D)
  BY LeRefl
<1> HIDE DEF D
<1>10. tr \in Seq(Mode) /\ Len(tr) = Len(p) + 1
  BY <1>1
<1>11. \A k \in 1 .. Len(tr) : Calm(g, tr[k])
  BY <1>2
<1>12. \A k \in 1 .. Len(p) : Ok(g, T, tr[k], p[k], tr[k + 1])
  BY <1>4, <1>5, <1>6, <1>7
<1>13. tr[1] = D /\ tr[Len(tr)] = D
  OBVIOUS
<1> HIDE DEF tr, p
<1>14. GoodRun(g, T, tr[1], p, D)
  BY <1>3, <1>9, <1>10, <1>11, <1>12, <1>13, Straight
<1> QED
  BY <1>8, <1>13, <1>14 DEF D

(* /RD is raised. *)
LEMMA RdHighRun ==
  ASSUME NEW g \in DmgKinds, NEW T, NEW au \in Levels, NEW q \in Polled
  PROVE  GoodRun(g, T, Reading(au, q), << High({"rd"}) >>,
                 Rest(g, au, q))
<1> DEFINE D == Reading(au, q)
           R == Rest(g, au, q)
           tr == <<D, R>>
           p == << High({"rd"}) >>
<1>1. D \in Mode /\ R \in Mode
  BY DEF Mode, Phases, Four, Frames, Polled, Levels, Live, Rest, Held, Aimed, Reading, Loose, Picked
<1>2. Calm(g, D) /\ Calm(g, R)
  BY DEF Calm, Strobe, AgbKinds, DmgKinds, Levels, Polled, Live, Rest, Held, Aimed, Reading, Loose,
       Picked
<1>3. p \in Prog
  BY Stores, BusAssumption DEF Prog, Lines, Idle, Four
<1>4. Ok(g, T, D, High({"rd"}), R)
  BY BusAssumption DEF Ok, Raised, CsRaised, WrRaised, Idle, Store, High, Le, Strobe,
       AgbKinds, DmgKinds, Levels, Polled, Live, Rest, Held, Aimed, Reading, Loose, Picked
<1>5. << High({"rd"}) >> = p
  BY DEF High
<1>6. Le(R, R)
  BY LeRefl
<1> HIDE DEF D, R
<1>7. tr \in Seq(Mode) /\ Len(tr) = Len(p) + 1
  BY <1>1
<1>8. \A k \in 1 .. Len(tr) : Calm(g, tr[k])
  BY <1>2
<1>9. \A k \in 1 .. Len(p) : Ok(g, T, tr[k], p[k], tr[k + 1])
  BY <1>4
<1>10. tr[1] = D /\ tr[Len(tr)] = R
  OBVIOUS
<1> HIDE DEF tr, p
<1>11. GoodRun(g, T, tr[1], p, R)
  BY <1>3, <1>6, <1>7, <1>8, <1>9, <1>10, Straight
<1> QED
  BY <1>5, <1>10, <1>11 DEF D, R

(* /RD is high at the end of it. *)
LEMMA RestRdHighRun ==
  ASSUME NEW g \in DmgKinds, NEW T, NEW au \in Levels, NEW q \in Polled
  PROVE  GoodRun(g, T, Rest(g, au, q), << High({"rd"}) >>,
                 Rest(g, au, q))
<1> DEFINE R == Rest(g, au, q)
           tr == <<R, R>>
           p == << High({"rd"}) >>
<1>1. R \in Mode
  BY DEF Mode, Phases, Four, Frames, Polled, Levels, Live, Rest, Held, Aimed, Reading, Loose, Picked
<1>2. Calm(g, R)
  BY DEF Calm, Strobe, AgbKinds, DmgKinds, Levels, Polled, Live, Rest, Held, Aimed, Reading, Loose,
       Picked
<1>3. p \in Prog
  BY Stores, BusAssumption DEF Prog, Lines, Idle, Four
<1>4. Ok(g, T, R, High({"rd"}), R)
  BY BusAssumption DEF Ok, Raised, CsRaised, WrRaised, Idle, Store, High, Le, Strobe,
       AgbKinds, DmgKinds, Levels, Polled, Live, Rest, Held, Aimed, Reading, Loose, Picked
<1>5. << High({"rd"}) >> = p
  BY DEF High
<1>6. Le(R, R)
  BY LeRefl
<1> HIDE DEF R
<1>7. tr \in Seq(Mode) /\ Len(tr) = Len(p) + 1
  BY <1>1
<1>8. \A k \in 1 .. Len(tr) : Calm(g, tr[k])
  BY <1>2
<1>9. \A k \in 1 .. Len(p) : Ok(g, T, tr[k], p[k], tr[k + 1])
  BY <1>4
<1>10. tr[1] = R /\ tr[Len(tr)] = R
  OBVIOUS
<1> HIDE DEF tr, p
<1>11. GoodRun(g, T, tr[1], p, R)
  BY <1>3, <1>6, <1>7, <1>8, <1>9, <1>10, Straight
<1> QED
  BY <1>5, <1>10, <1>11 DEF R

(* A DMG write: the bus driven, the selects lowered, a strobe, and all let go. *)
LEMMA DmgWriteArmRun ==
  ASSUME NEW g \in DmgKinds, NEW T, NEW au \in Levels, NEW q \in Polled, NEW v \in 0 .. HiSize - 1,
         NEW a \in Nat
  PROVE  GoodRun(g, T, Rest(g, au, q), << High({"rd"}), High({"clk"}), PaOut(0), PaDrive,
                                          PaOut(Lo(a)), HiDrive,
     HiClear, HiOr(v) >>,
                 Picked(au, {}, 0, q))
<1> DEFINE R == Rest(g, au, q)
           S == Aimed(au, "in", q)
           C == Picked(au, {}, 0, q)
           tr == <<R, R, R, R, S, S, C, C, C>>
           p == << High({"rd"}), High({"clk"}), PaOut(0), PaDrive, PaOut(Lo(a)), HiDrive,
                  HiClear, HiOr(v) >>
<1>1. R \in Mode /\ S \in Mode /\ C \in Mode
  BY DEF Mode, Phases, Four, Frames, Polled, Levels, Live, Rest, Held, Aimed, Reading, Loose, Picked
<1>2. Calm(g, R) /\ Calm(g, S) /\ Calm(g, C)
  BY DEF Calm, Strobe, AgbKinds, DmgKinds, Levels, Polled, Live, Rest, Held, Aimed, Reading, Loose,
       Picked
<1>3. p \in Prog
  BY Stores, BusAssumption, Halves DEF Prog, Lines, Idle, Four
<1>4. Ok(g, T, R, High({"rd"}), R) /\ Ok(g, T, R, High({"clk"}), R)
  BY BusAssumption, Halves DEF Ok, Raised, CsRaised, WrRaised, Idle, Store, High, Le,
       Strobe, AgbKinds, DmgKinds, Levels, Polled, Live,
       Rest, Held, Aimed, Reading, Loose, Picked
<1>5. Ok(g, T, R, PaOut(0), R) /\ Ok(g, T, S, PaOut(Lo(a)), S) /\ Ok(g, T, C, HiClear, C)
      /\ Ok(g, T, C, HiOr(v), C)
  BY BusAssumption, Halves DEF Ok, Valued, Store, PaOut, HiClear, HiOr, Le, Strobe,
       AgbKinds, DmgKinds, Levels, Polled, Live, Rest, Held, Aimed, Reading, Loose, Picked
<1>6. Ok(g, T, R, PaDrive, S) /\ Ok(g, T, S, HiDrive, C)
  BY BusAssumption, Halves DEF Ok, Turned, Store, PaDrive, HiDrive, Le, Strobe, AgbKinds,
       DmgKinds, Levels, Polled, Live, Rest, Held, Aimed, Reading, Loose, Picked
<1>7. << High({"rd"}), High({"clk"}), PaOut(0), PaDrive, PaOut(Lo(a)), HiDrive,
     HiClear, HiOr(v) >> = p
  BY DEF PaOut
<1>8. Le(C, C)
  BY LeRefl
<1> HIDE DEF R, S, C
<1>9. tr \in Seq(Mode) /\ Len(tr) = Len(p) + 1
  BY <1>1
<1>10. \A k \in 1 .. Len(tr) : Calm(g, tr[k])
  BY <1>2
<1>11. \A k \in 1 .. Len(p) : Ok(g, T, tr[k], p[k], tr[k + 1])
  BY <1>4, <1>5, <1>6
<1>12. tr[1] = R /\ tr[Len(tr)] = C
  OBVIOUS
<1> HIDE DEF tr, p
<1>13. GoodRun(g, T, tr[1], p, C)
  BY <1>3, <1>8, <1>9, <1>10, <1>11, <1>12, Straight
<1> QED
  BY <1>7, <1>12, <1>13 DEF C, R

(* The lines of a DMG write, one at a time: /CS low. *)
LEMMA CsLowRun ==
  ASSUME NEW g \in DmgKinds, NEW T, NEW au \in Levels, NEW q \in Polled
  PROVE  GoodRun(g, T, Picked(au, {}, 0, q), << Low({"cs"}) >>,
                 Picked(au, {"cs"}, 0, q))
<1> DEFINE C == Picked(au, {}, 0, q)
           X == Picked(au, {"cs"}, 0, q)
           tr == <<C, X>>
           p == << Low({"cs"}) >>
<1>1. C \in Mode /\ X \in Mode
  BY DEF Mode, Phases, Four, Frames, Polled, Levels, Live, Rest, Held, Aimed, Reading, Loose, Picked
<1>2. Calm(g, C) /\ Calm(g, X)
  BY DEF Calm, Strobe, AgbKinds, DmgKinds, Levels, Polled, Live, Rest, Held, Aimed, Reading, Loose,
       Picked
<1>3. p \in Prog
  BY Stores, BusAssumption DEF Prog, Lines, Idle, Four
<1>4. Ok(g, T, C, Low({"cs"}), X)
  BY BusAssumption DEF Ok, Lowered, LatchesTo, Store, Low, Le, Strobe, AgbKinds, DmgKinds,
       Levels, Polled, Live, Rest, Held, Aimed, Reading, Loose, Picked
<1>5. << Low({"cs"}) >> = p
  BY DEF Low
<1>6. Le(X, X)
  BY LeRefl
<1> HIDE DEF C, X
<1>7. tr \in Seq(Mode) /\ Len(tr) = Len(p) + 1
  BY <1>1
<1>8. \A k \in 1 .. Len(tr) : Calm(g, tr[k])
  BY <1>2
<1>9. \A k \in 1 .. Len(p) : Ok(g, T, tr[k], p[k], tr[k + 1])
  BY <1>4
<1>10. tr[1] = C /\ tr[Len(tr)] = X
  OBVIOUS
<1> HIDE DEF tr, p
<1>11. GoodRun(g, T, tr[1], p, X)
  BY <1>3, <1>6, <1>7, <1>8, <1>9, <1>10, Straight
<1> QED
  BY <1>5, <1>10, <1>11 DEF C, X

(* /CS2 low. *)
LEMMA Cs2LowRun ==
  ASSUME NEW g \in DmgKinds, NEW T, NEW au \in Levels, NEW q \in Polled, NEW on \in {{}, {"cs"}},
         NEW n \in {0, 1}
  PROVE  GoodRun(g, T, Picked(au, on, n, q), << Low({"cs2"}) >>,
                 Picked(au, on \cup {"cs2"}, n, q))
<1> DEFINE X == Picked(au, on, n, q)
           Y == Picked(au, on \cup {"cs2"}, n, q)
           tr == <<X, Y>>
           p == << Low({"cs2"}) >>
<1>1. X \in Mode /\ Y \in Mode
  BY DEF Mode, Phases, Four, Frames, Polled, Levels, Live, Rest, Held, Aimed, Reading, Loose, Picked
<1>2. Calm(g, X) /\ Calm(g, Y)
  BY DEF Calm, Strobe, AgbKinds, DmgKinds, Levels, Polled, Live, Rest, Held, Aimed, Reading, Loose,
       Picked
<1>3. p \in Prog
  BY Stores, BusAssumption DEF Prog, Lines, Idle, Four
<1>4. Ok(g, T, X, Low({"cs2"}), Y)
  BY BusAssumption DEF Ok, Lowered, LatchesTo, Store, Low, Le, Strobe, AgbKinds, DmgKinds,
       Levels, Polled, Live, Rest, Held, Aimed, Reading, Loose, Picked
<1>5. << Low({"cs2"}) >> = p
  BY DEF Low
<1>6. Le(Y, Y)
  BY LeRefl
<1> HIDE DEF X, Y
<1>7. tr \in Seq(Mode) /\ Len(tr) = Len(p) + 1
  BY <1>1
<1>8. \A k \in 1 .. Len(tr) : Calm(g, tr[k])
  BY <1>2
<1>9. \A k \in 1 .. Len(p) : Ok(g, T, tr[k], p[k], tr[k + 1])
  BY <1>4
<1>10. tr[1] = X /\ tr[Len(tr)] = Y
  OBVIOUS
<1> HIDE DEF tr, p
<1>11. GoodRun(g, T, tr[1], p, Y)
  BY <1>3, <1>6, <1>7, <1>8, <1>9, <1>10, Straight
<1> QED
  BY <1>5, <1>10, <1>11 DEF X, Y

(* /CS2 high. *)
LEMMA Cs2HighRun ==
  ASSUME NEW g \in DmgKinds, NEW T, NEW au \in Levels, NEW q \in Polled, NEW on \in {{}, {"cs"}},
         NEW n \in {0, 1}
  PROVE  GoodRun(g, T, Picked(au, on \cup {"cs2"}, n, q), << High({"cs2"}) >>,
                 Picked(au, on, n, q))
<1> DEFINE Y == Picked(au, on \cup {"cs2"}, n, q)
           X == Picked(au, on, n, q)
           tr == <<Y, X>>
           p == << High({"cs2"}) >>
<1>1. Y \in Mode /\ X \in Mode
  BY DEF Mode, Phases, Four, Frames, Polled, Levels, Live, Rest, Held, Aimed, Reading, Loose, Picked
<1>2. Calm(g, Y) /\ Calm(g, X)
  BY DEF Calm, Strobe, AgbKinds, DmgKinds, Levels, Polled, Live, Rest, Held, Aimed, Reading, Loose,
       Picked
<1>3. p \in Prog
  BY Stores, BusAssumption DEF Prog, Lines, Idle, Four
<1>4. Ok(g, T, Y, High({"cs2"}), X)
  BY BusAssumption DEF Ok, Raised, CsRaised, WrRaised, Idle, Store, High, Le, Strobe,
       AgbKinds, DmgKinds, Levels, Polled, Live, Rest, Held, Aimed, Reading, Loose, Picked
<1>5. << High({"cs2"}) >> = p
  BY DEF High
<1>6. Le(X, X)
  BY LeRefl
<1> HIDE DEF Y, X
<1>7. tr \in Seq(Mode) /\ Len(tr) = Len(p) + 1
  BY <1>1
<1>8. \A k \in 1 .. Len(tr) : Calm(g, tr[k])
  BY <1>2
<1>9. \A k \in 1 .. Len(p) : Ok(g, T, tr[k], p[k], tr[k + 1])
  BY <1>4
<1>10. tr[1] = Y /\ tr[Len(tr)] = X
  OBVIOUS
<1> HIDE DEF tr, p
<1>11. GoodRun(g, T, tr[1], p, X)
  BY <1>3, <1>6, <1>7, <1>8, <1>9, <1>10, Straight
<1> QED
  BY <1>5, <1>10, <1>11 DEF X, Y

(* /CS high. *)
LEMMA CsHighRun ==
  ASSUME NEW g \in DmgKinds, NEW T, NEW au \in Levels, NEW q \in Polled, NEW n \in {0, 1}
  PROVE  GoodRun(g, T, Picked(au, {"cs"}, n, q), << High({"cs"}) >>,
                 Picked(au, {}, 0, q))
<1> DEFINE X == Picked(au, {"cs"}, n, q)
           C == Picked(au, {}, 0, q)
           tr == <<X, C>>
           p == << High({"cs"}) >>
<1>1. X \in Mode /\ C \in Mode
  BY DEF Mode, Phases, Four, Frames, Polled, Levels, Live, Rest, Held, Aimed, Reading, Loose, Picked
<1>2. Calm(g, X) /\ Calm(g, C)
  BY DEF Calm, Strobe, AgbKinds, DmgKinds, Levels, Polled, Live, Rest, Held, Aimed, Reading, Loose,
       Picked
<1>3. p \in Prog
  BY Stores, BusAssumption DEF Prog, Lines, Idle, Four
<1>4. Ok(g, T, X, High({"cs"}), C)
  BY BusAssumption DEF Ok, Raised, CsRaised, WrRaised, Idle, Store, High, Le, Strobe,
       AgbKinds, DmgKinds, Levels, Polled, Live, Rest, Held, Aimed, Reading, Loose, Picked
<1>5. << High({"cs"}) >> = p
  BY DEF High
<1>6. Le(C, C)
  BY LeRefl
<1> HIDE DEF X, C
<1>7. tr \in Seq(Mode) /\ Len(tr) = Len(p) + 1
  BY <1>1
<1>8. \A k \in 1 .. Len(tr) : Calm(g, tr[k])
  BY <1>2
<1>9. \A k \in 1 .. Len(p) : Ok(g, T, tr[k], p[k], tr[k + 1])
  BY <1>4
<1>10. tr[1] = X /\ tr[Len(tr)] = C
  OBVIOUS
<1> HIDE DEF tr, p
<1>11. GoodRun(g, T, tr[1], p, C)
  BY <1>3, <1>6, <1>7, <1>8, <1>9, <1>10, Straight
<1> QED
  BY <1>5, <1>10, <1>11 DEF C, X

(* The strobe of /WR, with CLK in it. *)
LEMMA WrStrobeRun ==
  ASSUME NEW g \in DmgKinds, NEW T, NEW au \in Levels, NEW q \in Polled,
         NEW on \in {{}, {"cs"}, {"cs2"}, {"cs", "cs2"}}
  PROVE  GoodRun(g, T, Picked(au, on, 0, q), << Low({"wr"}), Low({"clk"}), High({"clk"}),
                                                High({"wr"}) >>,
                 Picked(au, on, IF "cs" \in on THEN 1 ELSE 0, q))
<1> DEFINE X == Picked(au, on, 0, q)
           W == Picked(au, on \cup {"wr"}, 0, q)
           Y == Picked(au, on, IF "cs" \in on THEN 1 ELSE 0, q)
           tr == <<X, W, W, W, Y>>
           p == << Low({"wr"}), Low({"clk"}), High({"clk"}), High({"wr"}) >>
<1>1. X \in Mode /\ W \in Mode /\ Y \in Mode
  BY DEF Mode, Phases, Four, Frames, Polled, Levels, Live, Rest, Held, Aimed, Reading, Loose, Picked
<1>2. Calm(g, X) /\ Calm(g, W) /\ Calm(g, Y)
  BY DEF Calm, Strobe, AgbKinds, DmgKinds, Levels, Polled, Live, Rest, Held, Aimed, Reading, Loose,
       Picked
<1>3. p \in Prog
  BY Stores, BusAssumption DEF Prog, Lines, Idle, Four
<1>4. Ok(g, T, X, Low({"wr"}), W) /\ Ok(g, T, W, Low({"clk"}), W)
  BY BusAssumption DEF Ok, Lowered, LatchesTo, Store, Low, Le, Strobe, AgbKinds, DmgKinds,
       Levels, Polled, Live, Rest, Held, Aimed, Reading, Loose, Picked
<1>5. Ok(g, T, W, High({"clk"}), W) /\ Ok(g, T, W, High({"wr"}), Y)
  BY BusAssumption DEF Ok, Raised, CsRaised, WrRaised, Idle, Store, High, Le, Strobe,
       AgbKinds, DmgKinds, Levels, Polled, Live, Rest, Held, Aimed, Reading, Loose, Picked
<1>6. << Low({"wr"}), Low({"clk"}), High({"clk"}), High({"wr"}) >> = p
  BY DEF Low
<1>7. Le(Y, Y)
  BY LeRefl
<1> HIDE DEF X, W, Y
<1>8. tr \in Seq(Mode) /\ Len(tr) = Len(p) + 1
  BY <1>1
<1>9. \A k \in 1 .. Len(tr) : Calm(g, tr[k])
  BY <1>2
<1>10. \A k \in 1 .. Len(p) : Ok(g, T, tr[k], p[k], tr[k + 1])
  BY <1>4, <1>5
<1>11. tr[1] = X /\ tr[Len(tr)] = Y
  OBVIOUS
<1> HIDE DEF tr, p
<1>12. GoodRun(g, T, tr[1], p, Y)
  BY <1>3, <1>7, <1>8, <1>9, <1>10, <1>11, Straight
<1> QED
  BY <1>6, <1>11, <1>12 DEF X, Y

(* The strobe of AUDIO, where the flash has its /WE. *)
LEMMA AudioStrobeRun ==
  ASSUME NEW g \in DmgKinds, NEW T, NEW au, au = "high", NEW q \in Polled,
         NEW on \in {{}, {"cs"}, {"cs2"}, {"cs", "cs2"}}
  PROVE  GoodRun(g, T, Picked(au, on, 0, q), << Low({"audio"}), Low({"clk"}), High({"clk"}),
                                                High({"audio"}) >>,
                 Picked(au, on, 0, q))
<1> DEFINE X == Picked(au, on, 0, q)
           W == Picked("any", on, 0, q)
           tr == <<X, W, W, W, X>>
           p == << Low({"audio"}), Low({"clk"}), High({"clk"}), High({"audio"}) >>
<1>1. X \in Mode /\ W \in Mode
  BY DEF Mode, Phases, Four, Frames, Polled, Levels, Live, Rest, Held, Aimed, Reading, Loose, Picked
<1>2. Calm(g, X) /\ Calm(g, W)
  BY DEF Calm, Strobe, AgbKinds, DmgKinds, Levels, Polled, Live, Rest, Held, Aimed, Reading, Loose,
       Picked
<1>3. p \in Prog
  BY Stores, BusAssumption DEF Prog, Lines, Idle, Four
<1>4. Ok(g, T, X, Low({"audio"}), W) /\ Ok(g, T, W, Low({"clk"}), W)
  BY BusAssumption DEF Ok, Lowered, LatchesTo, Store, Low, Le, Strobe, AgbKinds, DmgKinds,
       Levels, Polled, Live, Rest, Held, Aimed, Reading, Loose, Picked
<1>5. Ok(g, T, W, High({"clk"}), W) /\ Ok(g, T, W, High({"audio"}), X)
  BY BusAssumption DEF Ok, Raised, CsRaised, WrRaised, Idle, Store, High, Le, Strobe,
       AgbKinds, DmgKinds, Levels, Polled, Live, Rest, Held, Aimed, Reading, Loose, Picked
<1>6. << Low({"audio"}), Low({"clk"}), High({"clk"}), High({"audio"}) >> = p
  BY DEF Low
<1>7. Le(X, X)
  BY LeRefl
<1> HIDE DEF X, W
<1>8. tr \in Seq(Mode) /\ Len(tr) = Len(p) + 1
  BY <1>1
<1>9. \A k \in 1 .. Len(tr) : Calm(g, tr[k])
  BY <1>2
<1>10. \A k \in 1 .. Len(p) : Ok(g, T, tr[k], p[k], tr[k + 1])
  BY <1>4, <1>5
<1>11. tr[1] = X /\ tr[Len(tr)] = X
  OBVIOUS
<1> HIDE DEF tr, p
<1>12. GoodRun(g, T, tr[1], p, X)
  BY <1>3, <1>7, <1>8, <1>9, <1>10, <1>11, Straight
<1> QED
  BY <1>6, <1>11, <1>12 DEF X

(* The data lines are released. *)
LEMMA LetGoRun ==
  ASSUME NEW g \in DmgKinds, NEW T, NEW au \in Levels, NEW q \in Polled
  PROVE  GoodRun(g, T, Loose(au, q), << HiClear, HiRelease >>,
                 Rest(g, au, q))
<1> DEFINE X == Loose(au, q)
           R == Rest(g, au, q)
           tr == <<X, X, R>>
           p == << HiClear, HiRelease >>
<1>1. X \in Mode /\ R \in Mode
  BY DEF Mode, Phases, Four, Frames, Polled, Levels, Live, Rest, Held, Aimed, Reading, Loose, Picked
<1>2. Calm(g, X) /\ Calm(g, R)
  BY DEF Calm, Strobe, AgbKinds, DmgKinds, Levels, Polled, Live, Rest, Held, Aimed, Reading, Loose,
       Picked
<1>3. p \in Prog
  BY Stores, BusAssumption DEF Prog, Lines, Idle, Four
<1>4. Ok(g, T, X, HiClear, X)
  BY BusAssumption DEF Ok, Valued, Store, HiClear, Le, Strobe, AgbKinds, DmgKinds, Levels,
       Polled, Live, Rest, Held, Aimed, Reading, Loose, Picked
<1>5. Ok(g, T, X, HiRelease, R)
  BY BusAssumption DEF Ok, Turned, Store, HiRelease, Le, Strobe, AgbKinds, DmgKinds,
       Levels, Polled, Live, Rest, Held, Aimed, Reading, Loose, Picked
<1>6. << HiClear, HiRelease >> = p
  BY DEF HiClear
<1>7. Le(R, R)
  BY LeRefl
<1> HIDE DEF X, R
<1>8. tr \in Seq(Mode) /\ Len(tr) = Len(p) + 1
  BY <1>1
<1>9. \A k \in 1 .. Len(tr) : Calm(g, tr[k])
  BY <1>2
<1>10. \A k \in 1 .. Len(p) : Ok(g, T, tr[k], p[k], tr[k + 1])
  BY <1>4, <1>5
<1>11. tr[1] = X /\ tr[Len(tr)] = R
  OBVIOUS
<1> HIDE DEF tr, p
<1>12. GoodRun(g, T, tr[1], p, R)
  BY <1>3, <1>7, <1>8, <1>9, <1>10, <1>11, Straight
<1> QED
  BY <1>6, <1>11, <1>12 DEF R, X

(* A write of a burst: D0..D7 stay driven. *)
LEMMA StockRun ==
  ASSUME NEW g \in DmgKinds, NEW T, NEW au \in Levels, NEW q \in Polled, NEW v \in 0 .. HiSize - 1,
         NEW a \in Nat
  PROVE  GoodRun(g, T, Loose(au, q), DmgWriteStockFlash(a, v),
                 Loose(au, q))
<1> DEFINE X == Loose(au, q)
           S == Aimed(au, "any", q)
           C == Held(au, q)
           W == Live({"wr"}, au, "out", "out", "any", "rest", 0, q)
           tr == <<X, X, X, S, S, C, C, C, W, X>>
           p == << High({"wr"}), Low({"clk"}), PaDrive, PaOut(Lo(a)), HiDrive, HiClear,
                  HiOr(v), Low({"wr"}), High({"wr"}) >>
<1>1. X \in Mode /\ S \in Mode /\ C \in Mode /\ W \in Mode
  BY DEF Mode, Phases, Four, Frames, Polled, Levels, Live, Rest, Held, Aimed, Reading, Loose, Picked
<1>2. Calm(g, X) /\ Calm(g, S) /\ Calm(g, C) /\ Calm(g, W)
  BY DEF Calm, Strobe, AgbKinds, DmgKinds, Levels, Polled, Live, Rest, Held, Aimed, Reading, Loose,
       Picked
<1>3. p \in Prog
  BY Stores, BusAssumption, Halves DEF Prog, Lines, Idle, Four
<1>4. Ok(g, T, X, High({"wr"}), X) /\ Ok(g, T, W, High({"wr"}), X)
  BY BusAssumption, Halves DEF Ok, Raised, CsRaised, WrRaised, Idle, Store, High, Le,
       Strobe, AgbKinds, DmgKinds, Levels, Polled, Live,
       Rest, Held, Aimed, Reading, Loose, Picked
<1>5. Ok(g, T, X, Low({"clk"}), X) /\ Ok(g, T, C, Low({"wr"}), W)
  BY BusAssumption, Halves DEF Ok, Lowered, LatchesTo, Store, Low, Le, Strobe, AgbKinds,
       DmgKinds, Levels, Polled, Live, Rest, Held, Aimed, Reading, Loose, Picked
<1>6. Ok(g, T, X, PaDrive, S) /\ Ok(g, T, S, HiDrive, C)
  BY BusAssumption, Halves DEF Ok, Turned, Store, PaDrive, HiDrive, Le, Strobe, AgbKinds,
       DmgKinds, Levels, Polled, Live, Rest, Held, Aimed, Reading, Loose, Picked
<1>7. Ok(g, T, S, PaOut(Lo(a)), S) /\ Ok(g, T, C, HiClear, C) /\ Ok(g, T, C, HiOr(v), C)
  BY BusAssumption, Halves DEF Ok, Valued, Store, PaOut, HiClear, HiOr, Le, Strobe,
       AgbKinds, DmgKinds, Levels, Polled, Live, Rest, Held, Aimed, Reading, Loose, Picked
<1>8. DmgWriteStockFlash(a, v) = p
  BY DEF DmgWriteStockFlash
<1>9. Le(X, X)
  BY LeRefl
<1> HIDE DEF X, S, C, W
<1>10. tr \in Seq(Mode) /\ Len(tr) = Len(p) + 1
  BY <1>1
<1>11. \A k \in 1 .. Len(tr) : Calm(g, tr[k])
  BY <1>2
<1>12. \A k \in 1 .. Len(p) : Ok(g, T, tr[k], p[k], tr[k + 1])
  BY <1>4, <1>5, <1>6, <1>7
<1>13. tr[1] = X /\ tr[Len(tr)] = X
  OBVIOUS
<1> HIDE DEF tr, p
<1>14. GoodRun(g, T, tr[1], p, X)
  BY <1>3, <1>9, <1>10, <1>11, <1>12, <1>13, Straight
<1> QED
  BY <1>8, <1>13, <1>14 DEF X

(* /RD is high before a poll of the chip. *)
LEMMA LooseRdHighRun ==
  ASSUME NEW g \in DmgKinds, NEW T, NEW au \in Levels, NEW q \in Polled
  PROVE  GoodRun(g, T, Loose(au, q), << High({"rd"}) >>,
                 Loose(au, q))
<1> DEFINE X == Loose(au, q)
           tr == <<X, X>>
           p == << High({"rd"}) >>
<1>1. X \in Mode
  BY DEF Mode, Phases, Four, Frames, Polled, Levels, Live, Rest, Held, Aimed, Reading, Loose, Picked
<1>2. Calm(g, X)
  BY DEF Calm, Strobe, AgbKinds, DmgKinds, Levels, Polled, Live, Rest, Held, Aimed, Reading, Loose,
       Picked
<1>3. p \in Prog
  BY Stores, BusAssumption DEF Prog, Lines, Idle, Four
<1>4. Ok(g, T, X, High({"rd"}), X)
  BY BusAssumption DEF Ok, Raised, CsRaised, WrRaised, Idle, Store, High, Le, Strobe,
       AgbKinds, DmgKinds, Levels, Polled, Live, Rest, Held, Aimed, Reading, Loose, Picked
<1>5. << High({"rd"}) >> = p
  BY DEF High
<1>6. Le(X, X)
  BY LeRefl
<1> HIDE DEF X
<1>7. tr \in Seq(Mode) /\ Len(tr) = Len(p) + 1
  BY <1>1
<1>8. \A k \in 1 .. Len(tr) : Calm(g, tr[k])
  BY <1>2
<1>9. \A k \in 1 .. Len(p) : Ok(g, T, tr[k], p[k], tr[k + 1])
  BY <1>4
<1>10. tr[1] = X /\ tr[Len(tr)] = X
  OBVIOUS
<1> HIDE DEF tr, p
<1>11. GoodRun(g, T, tr[1], p, X)
  BY <1>3, <1>6, <1>7, <1>8, <1>9, <1>10, Straight
<1> QED
  BY <1>5, <1>10, <1>11 DEF X

(* A status poll turns the data lines round first. *)
LEMMA PollOpenRun ==
  ASSUME NEW g \in DmgKinds, NEW T, NEW au \in Levels, NEW q \in Polled
  PROVE  GoodRun(g, T, Loose(au, q), DmgPollOpen,
                 Reading(au, q))
<1> DEFINE X == Loose(au, q)
           S == Aimed(au, "any", q)
           I == Aimed(au, "in", q)
           D == Reading(au, q)
           tr == <<X, S, I, D, D>>
           p == << PaDrive, HiRelease, Low({"rd"}), Low({"clk"}) >>
<1>1. X \in Mode /\ S \in Mode /\ I \in Mode /\ D \in Mode
  BY DEF Mode, Phases, Four, Frames, Polled, Levels, Live, Rest, Held, Aimed, Reading, Loose, Picked
<1>2. Calm(g, X) /\ Calm(g, S) /\ Calm(g, I) /\ Calm(g, D)
  BY DEF Calm, Strobe, AgbKinds, DmgKinds, Levels, Polled, Live, Rest, Held, Aimed, Reading, Loose,
       Picked
<1>3. p \in Prog
  BY Stores, BusAssumption DEF Prog, Lines, Idle, Four
<1>4. Ok(g, T, X, PaDrive, S) /\ Ok(g, T, S, HiRelease, I)
  BY BusAssumption DEF Ok, Turned, Store, PaDrive, HiRelease, Le, Strobe, AgbKinds,
       DmgKinds, Levels, Polled, Live, Rest, Held, Aimed, Reading, Loose, Picked
<1>5. Ok(g, T, I, Low({"rd"}), D) /\ Ok(g, T, D, Low({"clk"}), D)
  BY BusAssumption DEF Ok, Lowered, LatchesTo, Store, Low, Le, Strobe, AgbKinds, DmgKinds,
       Levels, Polled, Live, Rest, Held, Aimed, Reading, Loose, Picked
<1>6. DmgPollOpen = p
  BY DEF DmgPollOpen
<1>7. Le(D, D)
  BY LeRefl
<1> HIDE DEF X, S, I, D
<1>8. tr \in Seq(Mode) /\ Len(tr) = Len(p) + 1
  BY <1>1
<1>9. \A k \in 1 .. Len(tr) : Calm(g, tr[k])
  BY <1>2
<1>10. \A k \in 1 .. Len(p) : Ok(g, T, tr[k], p[k], tr[k + 1])
  BY <1>4, <1>5
<1>11. tr[1] = X /\ tr[Len(tr)] = D
  OBVIOUS
<1> HIDE DEF tr, p
<1>12. GoodRun(g, T, tr[1], p, D)
  BY <1>3, <1>7, <1>8, <1>9, <1>10, <1>11, Straight
<1> QED
  BY <1>6, <1>11, <1>12 DEF D, X

(* One read of that poll. *)
LEMMA PollReadRun ==
  ASSUME NEW g \in DmgKinds, NEW T, NEW au \in Levels, NEW q, q = "first", NEW a \in Nat
  PROVE  GoodRun(g, T, Reading(au, q), DmgPollRead(a),
                 Aimed(au, "in", q))
<1> DEFINE D == Reading(au, q)
           I == Aimed(au, "in", q)
           tr == <<D, D, D, D, I>>
           p == << PaOut(Lo(a)), Low({"rd"}), CheckHi, High({"rd"}) >>
<1>1. D \in Mode /\ I \in Mode
  BY DEF Mode, Phases, Four, Frames, Polled, Levels, Live, Rest, Held, Aimed, Reading, Loose, Picked
<1>2. Calm(g, D) /\ Calm(g, I)
  BY DEF Calm, Strobe, AgbKinds, DmgKinds, Levels, Polled, Live, Rest, Held, Aimed, Reading, Loose,
       Picked
<1>3. p \in Prog
  BY Stores, BusAssumption, Halves DEF Prog, Lines, Idle, Four
<1>4. Ok(g, T, D, PaOut(Lo(a)), D)
  BY BusAssumption, Halves DEF Ok, Valued, Store, PaOut, Le, Strobe, AgbKinds, DmgKinds,
       Levels, Polled, Live, Rest, Held, Aimed, Reading, Loose, Picked
<1>5. Ok(g, T, D, Low({"rd"}), D)
  BY BusAssumption, Halves DEF Ok, Lowered, LatchesTo, Store, Low, Le, Strobe, AgbKinds,
       DmgKinds, Levels, Polled, Live, Rest, Held, Aimed, Reading, Loose, Picked
<1>6. Ok(g, T, D, CheckHi, D)
  BY BusAssumption, Halves DEF Ok, Checks, Store, CheckHi, Le, Strobe, AgbKinds, DmgKinds,
       Levels, Polled, Live, Rest, Held, Aimed, Reading, Loose, Picked
<1>7. Ok(g, T, D, High({"rd"}), I)
  BY BusAssumption, Halves DEF Ok, Raised, CsRaised, WrRaised, Idle, Store, High, Le,
       Strobe, AgbKinds, DmgKinds, Levels, Polled, Live,
       Rest, Held, Aimed, Reading, Loose, Picked
<1>8. DmgPollRead(a) = p
  BY DEF DmgPollRead
<1>9. Le(I, I)
  BY LeRefl
<1> HIDE DEF D, I
<1>10. tr \in Seq(Mode) /\ Len(tr) = Len(p) + 1
  BY <1>1
<1>11. \A k \in 1 .. Len(tr) : Calm(g, tr[k])
  BY <1>2
<1>12. \A k \in 1 .. Len(p) : Ok(g, T, tr[k], p[k], tr[k + 1])
  BY <1>4, <1>5, <1>6, <1>7
<1>13. tr[1] = D /\ tr[Len(tr)] = I
  OBVIOUS
<1> HIDE DEF tr, p
<1>14. GoodRun(g, T, tr[1], p, I)
  BY <1>3, <1>9, <1>10, <1>11, <1>12, <1>13, Straight
<1> QED
  BY <1>8, <1>13, <1>14 DEF D, I

(* The poll of a DMG chip, where the burst leaves the bus. *)
LEMMA PollDmgRun ==
  ASSUME NEW g \in DmgKinds, NEW T, NEW au \in Levels, NEW a \in Nat, Rest(g, au, "no") \in T
  PROVE  GoodRun(g, T, Loose(au, "no"), << PollOf("POLL_DMG", a) >>,
                 Rest(g, au, "no"))
<1> DEFINE X == Loose(au, "no")
           R == Rest(g, au, "no")
           tr == <<X, R>>
           p == << PollOf("POLL_DMG", a) >>
<1>1. X \in Mode /\ R \in Mode
  BY DEF Mode, Phases, Four, Frames, Polled, Levels, Live, Rest, Held, Aimed, Reading, Loose, Picked
<1>2. Calm(g, X) /\ Calm(g, R)
  BY DEF Calm, Strobe, AgbKinds, DmgKinds, Levels, Polled, Live, Rest, Held, Aimed, Reading, Loose,
       Picked
<1>3. p \in Prog
  BY Stores, BusAssumption DEF Prog, Lines, Idle, Four, Polls
<1>4. Ok(g, T, X, PollOf("POLL_DMG", a), R)
  BY BusAssumption DEF Ok, Checks, Polls, Awaited, Store, PollOf, Le, Strobe, AgbKinds,
       DmgKinds, Levels, Polled, Live, Rest, Held, Aimed, Reading, Loose, Picked
<1>5. << PollOf("POLL_DMG", a) >> = p
  BY DEF PollOf
<1>6. Le(R, R)
  BY LeRefl
<1> HIDE DEF X, R
<1>7. tr \in Seq(Mode) /\ Len(tr) = Len(p) + 1
  BY <1>1
<1>8. \A k \in 1 .. Len(tr) : Calm(g, tr[k])
  BY <1>2
<1>9. \A k \in 1 .. Len(p) : Ok(g, T, tr[k], p[k], tr[k + 1])
  BY <1>4
<1>10. tr[1] = X /\ tr[Len(tr)] = R
  OBVIOUS
<1> HIDE DEF tr, p
<1>11. GoodRun(g, T, tr[1], p, R)
  BY <1>3, <1>6, <1>7, <1>8, <1>9, <1>10, Straight
<1> QED
  BY <1>5, <1>10, <1>11 DEF R, X

(* The reset pulse, and CLK pulses. *)
LEMMA ResetRun ==
  ASSUME NEW g \in DmgKinds, NEW T, NEW au \in Levels, NEW q \in Polled
  PROVE  GoodRun(g, T, Rest(g, au, q), << Low({"cs2"}), High({"cs2"}) >>,
                 Rest(g, au, q))
<1> DEFINE R == Rest(g, au, q)
           X == Live({"cs2"}, au, "any", "in", "any", "rest", 0, q)
           tr == <<R, X, R>>
           p == << Low({"cs2"}), High({"cs2"}) >>
<1>1. R \in Mode /\ X \in Mode
  BY DEF Mode, Phases, Four, Frames, Polled, Levels, Live, Rest, Held, Aimed, Reading, Loose, Picked
<1>2. Calm(g, R) /\ Calm(g, X)
  BY DEF Calm, Strobe, AgbKinds, DmgKinds, Levels, Polled, Live, Rest, Held, Aimed, Reading, Loose,
       Picked
<1>3. p \in Prog
  BY Stores, BusAssumption DEF Prog, Lines, Idle, Four
<1>4. Ok(g, T, R, Low({"cs2"}), X)
  BY BusAssumption DEF Ok, Lowered, LatchesTo, Store, Low, Le, Strobe, AgbKinds, DmgKinds,
       Levels, Polled, Live, Rest, Held, Aimed, Reading, Loose, Picked
<1>5. Ok(g, T, X, High({"cs2"}), R)
  BY BusAssumption DEF Ok, Raised, CsRaised, WrRaised, Idle, Store, High, Le, Strobe,
       AgbKinds, DmgKinds, Levels, Polled, Live, Rest, Held, Aimed, Reading, Loose, Picked
<1>6. << Low({"cs2"}), High({"cs2"}) >> = p
  BY DEF Low
<1>7. Le(R, R)
  BY LeRefl
<1> HIDE DEF R, X
<1>8. tr \in Seq(Mode) /\ Len(tr) = Len(p) + 1
  BY <1>1
<1>9. \A k \in 1 .. Len(tr) : Calm(g, tr[k])
  BY <1>2
<1>10. \A k \in 1 .. Len(p) : Ok(g, T, tr[k], p[k], tr[k + 1])
  BY <1>4, <1>5
<1>11. tr[1] = R /\ tr[Len(tr)] = R
  OBVIOUS
<1> HIDE DEF tr, p
<1>12. GoodRun(g, T, tr[1], p, R)
  BY <1>3, <1>7, <1>8, <1>9, <1>10, <1>11, Straight
<1> QED
  BY <1>6, <1>11, <1>12 DEF R

(* A pulse of CLK. *)
LEMMA ClkTurn ==
  ASSUME NEW g \in DmgKinds, NEW T, NEW au \in Levels, NEW q \in Polled
  PROVE  GoodRun(g, T, Rest(g, au, q), << Low({"clk"}), High({"clk"}) >>,
                 Rest(g, au, q))
<1> DEFINE R == Rest(g, au, q)
           tr == <<R, R, R>>
           p == << Low({"clk"}), High({"clk"}) >>
<1>1. R \in Mode
  BY DEF Mode, Phases, Four, Frames, Polled, Levels, Live, Rest, Held, Aimed, Reading, Loose, Picked
<1>2. Calm(g, R)
  BY DEF Calm, Strobe, AgbKinds, DmgKinds, Levels, Polled, Live, Rest, Held, Aimed, Reading, Loose,
       Picked
<1>3. p \in Prog
  BY Stores, BusAssumption DEF Prog, Lines, Idle, Four
<1>4. Ok(g, T, R, Low({"clk"}), R)
  BY BusAssumption DEF Ok, Lowered, LatchesTo, Store, Low, Le, Strobe, AgbKinds, DmgKinds,
       Levels, Polled, Live, Rest, Held, Aimed, Reading, Loose, Picked
<1>5. Ok(g, T, R, High({"clk"}), R)
  BY BusAssumption DEF Ok, Raised, CsRaised, WrRaised, Idle, Store, High, Le, Strobe,
       AgbKinds, DmgKinds, Levels, Polled, Live, Rest, Held, Aimed, Reading, Loose, Picked
<1>6. << Low({"clk"}), High({"clk"}) >> = p
  BY DEF Low
<1>7. Le(R, R)
  BY LeRefl
<1> HIDE DEF R
<1>8. tr \in Seq(Mode) /\ Len(tr) = Len(p) + 1
  BY <1>1
<1>9. \A k \in 1 .. Len(tr) : Calm(g, tr[k])
  BY <1>2
<1>10. \A k \in 1 .. Len(p) : Ok(g, T, tr[k], p[k], tr[k + 1])
  BY <1>4, <1>5
<1>11. tr[1] = R /\ tr[Len(tr)] = R
  OBVIOUS
<1> HIDE DEF tr, p
<1>12. GoodRun(g, T, tr[1], p, R)
  BY <1>3, <1>7, <1>8, <1>9, <1>10, <1>11, Straight
<1> QED
  BY <1>6, <1>11, <1>12 DEF R

(* The bus floated. *)
LEMMA FloatRun ==
  ASSUME NEW g \in AgbKinds \cup DmgKinds, NEW T, NEW au \in Levels, NEW q \in Polled
  PROVE  GoodRun(g, T, Rest(g, au, q), << PaRelease, HiRelease >>,
                 Rest(g, au, q))
<1> DEFINE R == Rest(g, au, q)
           tr == <<R, R, R>>
           p == << PaRelease, HiRelease >>
<1>1. R \in Mode
  BY DEF Mode, Phases, Four, Frames, Polled, Levels, Live, Rest, Page, Held, Aimed
<1>2. Calm(g, R)
  BY DEF Calm, Strobe, AgbKinds, DmgKinds, Levels, Polled, Live, Rest, Page, Held, Aimed
<1>3. p \in Prog
  BY Stores, BusAssumption DEF Prog, Lines, Idle, Four
<1>4. Ok(g, T, R, PaRelease, R) /\ Ok(g, T, R, HiRelease, R)
  BY BusAssumption DEF Ok, Turned, Store, PaRelease, HiRelease, Le, Strobe, AgbKinds,
       DmgKinds, Levels, Polled, Live, Rest, Page, Held, Aimed
<1>5. << PaRelease, HiRelease >> = p
  BY DEF PaRelease
<1>6. Le(R, R)
  BY LeRefl
<1> HIDE DEF R
<1>7. tr \in Seq(Mode) /\ Len(tr) = Len(p) + 1
  BY <1>1
<1>8. \A k \in 1 .. Len(tr) : Calm(g, tr[k])
  BY <1>2
<1>9. \A k \in 1 .. Len(p) : Ok(g, T, tr[k], p[k], tr[k + 1])
  BY <1>4
<1>10. tr[1] = R /\ tr[Len(tr)] = R
  OBVIOUS
<1> HIDE DEF tr, p
<1>11. GoodRun(g, T, tr[1], p, R)
  BY <1>3, <1>6, <1>7, <1>8, <1>9, <1>10, Straight
<1> QED
  BY <1>5, <1>10, <1>11 DEF R

(* AUDIO as a level and as a direction. *)
LEMMA AudioHighRun ==
  ASSUME NEW g \in AgbKinds \cup DmgKinds, NEW T, NEW au \in Levels, NEW q \in Polled,
         g # "dmg_audio"
  PROVE  GoodRun(g, T, Rest(g, au, q), << Drive({"audio"}), High({"audio"}) >>,
                 Rest(g, "high", q))
<1> DEFINE R == Rest(g, au, q)
           V == Rest(g, "any", q)
           H == Rest(g, "high", q)
           tr == <<R, V, H>>
           p == << Drive({"audio"}), High({"audio"}) >>
<1>1. R \in Mode /\ V \in Mode /\ H \in Mode
  BY DEF Mode, Phases, Four, Frames, Polled, Levels, Live, Rest, Page, Held, Aimed
<1>2. Calm(g, R) /\ Calm(g, V) /\ Calm(g, H)
  BY DEF Calm, Strobe, AgbKinds, DmgKinds, Levels, Polled, Live, Rest, Page, Held, Aimed
<1>3. p \in Prog
  BY Stores, BusAssumption DEF Prog, Lines, Idle, Four
<1>4. Ok(g, T, R, Drive({"audio"}), V)
  BY BusAssumption DEF Ok, Driven, Four, Store, Drive, Le, Strobe, AgbKinds, DmgKinds,
       Levels, Polled, Live, Rest, Page, Held, Aimed
<1>5. Ok(g, T, V, High({"audio"}), H)
  BY BusAssumption DEF Ok, Raised, CsRaised, WrRaised, Idle, Store, High, Le, Strobe,
       AgbKinds, DmgKinds, Levels, Polled, Live, Rest, Page, Held, Aimed
<1>6. << Drive({"audio"}), High({"audio"}) >> = p
  BY DEF High
<1>7. Le(H, H)
  BY LeRefl
<1> HIDE DEF R, V, H
<1>8. tr \in Seq(Mode) /\ Len(tr) = Len(p) + 1
  BY <1>1
<1>9. \A k \in 1 .. Len(tr) : Calm(g, tr[k])
  BY <1>2
<1>10. \A k \in 1 .. Len(p) : Ok(g, T, tr[k], p[k], tr[k + 1])
  BY <1>4, <1>5
<1>11. tr[1] = R /\ tr[Len(tr)] = H
  OBVIOUS
<1> HIDE DEF tr, p
<1>12. GoodRun(g, T, tr[1], p, H)
  BY <1>3, <1>7, <1>8, <1>9, <1>10, <1>11, Straight
<1> QED
  BY <1>6, <1>11, <1>12 DEF H, R

(* AUDIO goes low and is released, which no flash's /WE may be when driven. *)
LEMMA AudioLowRun ==
  ASSUME NEW g \in AgbKinds \cup DmgKinds, NEW T, NEW au \in Levels, NEW q \in Polled,
         g = "dmg_audio" => au = "in"
  PROVE  GoodRun(g, T, Rest(g, au, q), << Low({"audio"}), Release({"audio"}) >>,
                 Rest(g, "in", q))
<1> DEFINE R == Rest(g, au, q)
           V == Rest(g, IF au = "in" THEN "in" ELSE "any", q)
           I == Rest(g, "in", q)
           tr == <<R, V, I>>
           p == << Low({"audio"}), Release({"audio"}) >>
<1>1. R \in Mode /\ V \in Mode /\ I \in Mode
  BY DEF Mode, Phases, Four, Frames, Polled, Levels, Live, Rest, Page, Held, Aimed
<1>2. Calm(g, R) /\ Calm(g, V) /\ Calm(g, I)
  BY DEF Calm, Strobe, AgbKinds, DmgKinds, Levels, Polled, Live, Rest, Page, Held, Aimed
<1>3. p \in Prog
  BY Stores, BusAssumption DEF Prog, Lines, Idle, Four
<1>4. Ok(g, T, R, Low({"audio"}), V)
  BY BusAssumption DEF Ok, Lowered, LatchesTo, Store, Low, Le, Strobe, AgbKinds, DmgKinds,
       Levels, Polled, Live, Rest, Page, Held, Aimed
<1>5. Ok(g, T, V, Release({"audio"}), I)
  BY BusAssumption DEF Ok, Released, Idle, Store, Release, Le, Strobe, AgbKinds, DmgKinds,
       Levels, Polled, Live, Rest, Page, Held, Aimed
<1>6. << Low({"audio"}), Release({"audio"}) >> = p
  BY DEF Low
<1>7. Le(I, I)
  BY LeRefl
<1> HIDE DEF R, V, I
<1>8. tr \in Seq(Mode) /\ Len(tr) = Len(p) + 1
  BY <1>1
<1>9. \A k \in 1 .. Len(tr) : Calm(g, tr[k])
  BY <1>2
<1>10. \A k \in 1 .. Len(p) : Ok(g, T, tr[k], p[k], tr[k + 1])
  BY <1>4, <1>5
<1>11. tr[1] = R /\ tr[Len(tr)] = I
  OBVIOUS
<1> HIDE DEF tr, p
<1>12. GoodRun(g, T, tr[1], p, I)
  BY <1>3, <1>7, <1>8, <1>9, <1>10, <1>11, Straight
<1> QED
  BY <1>6, <1>11, <1>12 DEF I, R

(* AUDIO's level goes high. *)
LEMMA AudioUpRun ==
  ASSUME NEW g \in AgbKinds \cup DmgKinds, NEW T, NEW au \in Levels, NEW q \in Polled
  PROVE  GoodRun(g, T, Rest(g, au, q), << High({"audio"}) >>,
                 Rest(g, "high", q))
<1> DEFINE R == Rest(g, au, q)
           H == Rest(g, "high", q)
           tr == <<R, H>>
           p == << High({"audio"}) >>
<1>1. R \in Mode /\ H \in Mode
  BY DEF Mode, Phases, Four, Frames, Polled, Levels, Live, Rest, Page, Held, Aimed
<1>2. Calm(g, R) /\ Calm(g, H)
  BY DEF Calm, Strobe, AgbKinds, DmgKinds, Levels, Polled, Live, Rest, Page, Held, Aimed
<1>3. p \in Prog
  BY Stores, BusAssumption DEF Prog, Lines, Idle, Four
<1>4. Ok(g, T, R, High({"audio"}), H)
  BY BusAssumption DEF Ok, Raised, CsRaised, WrRaised, Idle, Store, High, Le, Strobe,
       AgbKinds, DmgKinds, Levels, Polled, Live, Rest, Page, Held, Aimed
<1>5. << High({"audio"}) >> = p
  BY DEF High
<1>6. Le(H, H)
  BY LeRefl
<1> HIDE DEF R, H
<1>7. tr \in Seq(Mode) /\ Len(tr) = Len(p) + 1
  BY <1>1
<1>8. \A k \in 1 .. Len(tr) : Calm(g, tr[k])
  BY <1>2
<1>9. \A k \in 1 .. Len(p) : Ok(g, T, tr[k], p[k], tr[k + 1])
  BY <1>4
<1>10. tr[1] = R /\ tr[Len(tr)] = H
  OBVIOUS
<1> HIDE DEF tr, p
<1>11. GoodRun(g, T, tr[1], p, H)
  BY <1>3, <1>6, <1>7, <1>8, <1>9, <1>10, Straight
<1> QED
  BY <1>5, <1>10, <1>11 DEF H, R

(* AUDIO becomes an output. *)
LEMMA AudioOutRun ==
  ASSUME NEW g \in AgbKinds \cup DmgKinds, NEW T, NEW au, au = "high", NEW q \in Polled
  PROVE  GoodRun(g, T, Rest(g, au, q), << Drive({"audio"}) >>,
                 Rest(g, au, q))
<1> DEFINE R == Rest(g, au, q)
           tr == <<R, R>>
           p == << Drive({"audio"}) >>
<1>1. R \in Mode
  BY DEF Mode, Phases, Four, Frames, Polled, Levels, Live, Rest, Page, Held, Aimed
<1>2. Calm(g, R)
  BY DEF Calm, Strobe, AgbKinds, DmgKinds, Levels, Polled, Live, Rest, Page, Held, Aimed
<1>3. p \in Prog
  BY Stores, BusAssumption DEF Prog, Lines, Idle, Four
<1>4. Ok(g, T, R, Drive({"audio"}), R)
  BY BusAssumption DEF Ok, Driven, Four, Store, Drive, Le, Strobe, AgbKinds, DmgKinds,
       Levels, Polled, Live, Rest, Page, Held, Aimed
<1>5. << Drive({"audio"}) >> = p
  BY DEF Drive
<1>6. Le(R, R)
  BY LeRefl
<1> HIDE DEF R
<1>7. tr \in Seq(Mode) /\ Len(tr) = Len(p) + 1
  BY <1>1
<1>8. \A k \in 1 .. Len(tr) : Calm(g, tr[k])
  BY <1>2
<1>9. \A k \in 1 .. Len(p) : Ok(g, T, tr[k], p[k], tr[k + 1])
  BY <1>4
<1>10. tr[1] = R /\ tr[Len(tr)] = R
  OBVIOUS
<1> HIDE DEF tr, p
<1>11. GoodRun(g, T, tr[1], p, R)
  BY <1>3, <1>6, <1>7, <1>8, <1>9, <1>10, Straight
<1> QED
  BY <1>5, <1>10, <1>11 DEF R

(* AUDIO becomes an input. *)
LEMMA AudioInRun ==
  ASSUME NEW g \in AgbKinds \cup DmgKinds, NEW T, NEW au \in Levels, NEW q \in Polled
  PROVE  GoodRun(g, T, Rest(g, au, q), << Release({"audio"}) >>,
                 Rest(g, "in", q))
<1> DEFINE R == Rest(g, au, q)
           I == Rest(g, "in", q)
           tr == <<R, I>>
           p == << Release({"audio"}) >>
<1>1. R \in Mode /\ I \in Mode
  BY DEF Mode, Phases, Four, Frames, Polled, Levels, Live, Rest, Page, Held, Aimed
<1>2. Calm(g, R) /\ Calm(g, I)
  BY DEF Calm, Strobe, AgbKinds, DmgKinds, Levels, Polled, Live, Rest, Page, Held, Aimed
<1>3. p \in Prog
  BY Stores, BusAssumption DEF Prog, Lines, Idle, Four
<1>4. Ok(g, T, R, Release({"audio"}), I)
  BY BusAssumption DEF Ok, Released, Idle, Store, Release, Le, Strobe, AgbKinds, DmgKinds,
       Levels, Polled, Live, Rest, Page, Held, Aimed
<1>5. << Release({"audio"}) >> = p
  BY DEF Release
<1>6. Le(I, I)
  BY LeRefl
<1> HIDE DEF R, I
<1>7. tr \in Seq(Mode) /\ Len(tr) = Len(p) + 1
  BY <1>1
<1>8. \A k \in 1 .. Len(tr) : Calm(g, tr[k])
  BY <1>2
<1>9. \A k \in 1 .. Len(p) : Ok(g, T, tr[k], p[k], tr[k + 1])
  BY <1>4
<1>10. tr[1] = R /\ tr[Len(tr)] = I
  OBVIOUS
<1> HIDE DEF tr, p
<1>11. GoodRun(g, T, tr[1], p, I)
  BY <1>3, <1>6, <1>7, <1>8, <1>9, <1>10, Straight
<1> QED
  BY <1>5, <1>10, <1>11 DEF I, R

(* Power. *)
LEMMA RailOnRun ==
  ASSUME NEW g \in AgbKinds \cup DmgKinds, NEW T, NEW au \in Levels, NEW to \in {"high", au},
         to = "high" \/ au = "in",
         NEW bus \in {"live", "off", "dead"}
  PROVE  GoodRun(g, T, At(bus, {}, au, "any", IF g \in DmgKinds THEN "in" ELSE "any", "any", "rest",
                          0, "no"), << Rail(1), High(Idle), Drive({"wr", "rd", "cs", "cs2"}) >>,
                 Rest(g, to, "no"))
<1> DEFINE X == At(bus, {}, au, "any", IF g \in DmgKinds THEN "in" ELSE "any", "any", "rest", 0,
                   "no")
           Y == At("bare", {}, au, "any", IF g \in DmgKinds THEN "in" ELSE "any", "any", "rest", 0,
                   "no")
           Z == At("high", {}, to, "any", IF g \in DmgKinds THEN "in" ELSE "any", "any", "rest", 0,
                   "no")
           R == Rest(g, to, "no")
           tr == <<X, Y, Z, R>>
           p == << Rail(1), High(Idle), Drive({"wr", "rd", "cs", "cs2"}) >>
<1>1. X \in Mode /\ Y \in Mode /\ Z \in Mode /\ R \in Mode
  BY DEF Mode, Phases, Four, Frames, Polled, Levels, Live, Rest, At, RestOff, RestDead
<1>2. Calm(g, X) /\ Calm(g, Y) /\ Calm(g, Z) /\ Calm(g, R)
  BY DEF Calm, Strobe, AgbKinds, DmgKinds, Levels, Polled, Live, Rest, At, RestOff, RestDead
<1>3. p \in Prog
  BY Stores, BusAssumption DEF Prog, Lines, Idle, Four
<1>4. Ok(g, T, X, Rail(1), Y)
  BY BusAssumption DEF Ok, Switched, Store, Rail, Le, Strobe, AgbKinds, DmgKinds, Levels,
       Polled, Live, Rest, At, RestOff, RestDead
<1>5. Ok(g, T, Y, High(Idle), Z)
  BY BusAssumption DEF Ok, Raised, CsRaised, WrRaised, Idle, Store, High, Le, Strobe,
       AgbKinds, DmgKinds, Levels, Polled, Live, Rest, At, RestOff, RestDead
<1>6. Ok(g, T, Z, Drive({"wr", "rd", "cs", "cs2"}), R)
  BY BusAssumption DEF Ok, Driven, Four, Store, Drive, Le, Strobe, AgbKinds, DmgKinds,
       Levels, Polled, Live, Rest, At, RestOff, RestDead
<1>7. << Rail(1), High(Idle), Drive({"wr", "rd", "cs", "cs2"}) >> = p
  BY DEF Drive
<1>8. Le(R, R)
  BY LeRefl
<1> HIDE DEF X, Y, Z, R
<1>9. tr \in Seq(Mode) /\ Len(tr) = Len(p) + 1
  BY <1>1
<1>10. \A k \in 1 .. Len(tr) : Calm(g, tr[k])
  BY <1>2
<1>11. \A k \in 1 .. Len(p) : Ok(g, T, tr[k], p[k], tr[k + 1])
  BY <1>4, <1>5, <1>6
<1>12. tr[1] = X /\ tr[Len(tr)] = R
  OBVIOUS
<1> HIDE DEF tr, p
<1>13. GoodRun(g, T, tr[1], p, R)
  BY <1>3, <1>8, <1>9, <1>10, <1>11, <1>12, Straight
<1> QED
  BY <1>7, <1>12, <1>13 DEF R, X

(* The rail goes off behind lines that are all released. *)
LEMMA RailOffRun ==
  ASSUME NEW g \in AgbKinds \cup DmgKinds, NEW T, NEW au \in Levels
  PROVE  GoodRun(g, T, Rest(g, au, "no"), PowerOffStores,
                 RestOff)
<1> DEFINE R == Rest(g, au, "no")
           I == Live({}, au, "any", "in", "any", "rest", 0, "no")
           X == At("rel", {}, "in", "any", "in", "any", "rest", 0, "no")
           Y == At("rel", {}, "in", "in", "in", "any", "rest", 0, "no")
           O == RestOff
           tr == <<R, I, X, Y, O>>
           p == << HiRelease, Release({"wr", "rd", "cs", "cs2", "audio"}), PaRelease,
                  Rail(0) >>
<1>1. R \in Mode /\ I \in Mode /\ X \in Mode /\ Y \in Mode /\ O \in Mode
  BY DEF Mode, Phases, Four, Frames, Polled, Levels, Live, Rest, At, RestOff, RestDead
<1>2. Calm(g, R) /\ Calm(g, I) /\ Calm(g, X) /\ Calm(g, Y) /\ Calm(g, O)
  BY DEF Calm, Strobe, AgbKinds, DmgKinds, Levels, Polled, Live, Rest, At, RestOff, RestDead
<1>3. p \in Prog
  BY Stores, BusAssumption DEF Prog, Lines, Idle, Four
<1>4. Ok(g, T, R, HiRelease, I) /\ Ok(g, T, X, PaRelease, Y)
  BY BusAssumption DEF Ok, Turned, Store, HiRelease, PaRelease, Le, Strobe, AgbKinds,
       DmgKinds, Levels, Polled, Live, Rest, At, RestOff, RestDead
<1>5. Ok(g, T, I, Release({"wr", "rd", "cs", "cs2", "audio"}), X)
  BY BusAssumption DEF Ok, Released, Idle, Store, Release, Le, Strobe, AgbKinds, DmgKinds,
       Levels, Polled, Live, Rest, At, RestOff, RestDead
<1>6. Ok(g, T, Y, Rail(0), O)
  BY BusAssumption DEF Ok, Switched, Store, Rail, Le, Strobe, AgbKinds, DmgKinds, Levels,
       Polled, Live, Rest, At, RestOff, RestDead
<1>7. PowerOffStores = p
  BY DEF PowerOffStores
<1>8. Le(O, O)
  BY LeRefl
<1> HIDE DEF R, I, X, Y, O
<1>9. tr \in Seq(Mode) /\ Len(tr) = Len(p) + 1
  BY <1>1
<1>10. \A k \in 1 .. Len(tr) : Calm(g, tr[k])
  BY <1>2
<1>11. \A k \in 1 .. Len(p) : Ok(g, T, tr[k], p[k], tr[k + 1])
  BY <1>4, <1>5, <1>6
<1>12. tr[1] = R /\ tr[Len(tr)] = O
  OBVIOUS
<1> HIDE DEF tr, p
<1>13. GoodRun(g, T, tr[1], p, O)
  BY <1>3, <1>8, <1>9, <1>10, <1>11, <1>12, Straight
<1> QED
  BY <1>7, <1>12, <1>13 DEF O, R

(* The stores of fw_cart_init(). *)
LEMMA InitRun ==
  ASSUME NEW g \in AgbKinds \cup DmgKinds, NEW T
  PROVE  GoodRun(g, T, Booting, InitStores,
                 RestDead)
<1> DEFINE X == Booting
           D == RestDead
           tr == <<X, X, X, D, D, D, D, D>>
           p == << Drive({"wr", "rd", "cs", "clk", "cs2"}), Release({"audio"}), High(Idle),
                  Low({"clk"}), PaRelease, HiRelease, Rail(0) >>
<1>1. X \in Mode /\ D \in Mode
  BY DEF Mode, Phases, Four, Frames, Polled, Levels, Live, Rest, At, RestOff, RestDead, Booting
<1>2. Calm(g, X) /\ Calm(g, D)
  BY DEF Calm, Strobe, AgbKinds, DmgKinds, Levels, Polled, Live, Rest, At, RestOff, RestDead,
       Booting
<1>3. p \in Prog
  BY Stores, BusAssumption DEF Prog, Lines, Idle, Four
<1>4. Ok(g, T, X, Drive({"wr", "rd", "cs", "clk", "cs2"}), X)
  BY BusAssumption DEF Ok, Driven, Four, Store, Drive, Le, Strobe, AgbKinds, DmgKinds,
       Levels, Polled, Live, Rest, At, RestOff, RestDead, Booting
<1>5. Ok(g, T, X, Release({"audio"}), X)
  BY BusAssumption DEF Ok, Released, Idle, Store, Release, Le, Strobe, AgbKinds, DmgKinds,
       Levels, Polled, Live, Rest, At, RestOff, RestDead, Booting
<1>6. Ok(g, T, X, High(Idle), D)
  BY BusAssumption DEF Ok, Raised, CsRaised, WrRaised, Idle, Store, High, Le, Strobe,
       AgbKinds, DmgKinds, Levels, Polled, Live, Rest, At, RestOff, RestDead, Booting
<1>7. Ok(g, T, D, Low({"clk"}), D)
  BY BusAssumption DEF Ok, Lowered, LatchesTo, Store, Low, Le, Strobe, AgbKinds, DmgKinds,
       Levels, Polled, Live, Rest, At, RestOff, RestDead, Booting
<1>8. Ok(g, T, D, PaRelease, D) /\ Ok(g, T, D, HiRelease, D)
  BY BusAssumption DEF Ok, Turned, Store, PaRelease, HiRelease, Le, Strobe, AgbKinds,
       DmgKinds, Levels, Polled, Live, Rest, At, RestOff, RestDead, Booting
<1>9. Ok(g, T, D, Rail(0), D)
  BY BusAssumption DEF Ok, Switched, Store, Rail, Le, Strobe, AgbKinds, DmgKinds, Levels,
       Polled, Live, Rest, At, RestOff, RestDead, Booting
<1>10. InitStores = p
  BY DEF InitStores
<1>11. Le(D, D)
  BY LeRefl
<1> HIDE DEF X, D
<1>12. tr \in Seq(Mode) /\ Len(tr) = Len(p) + 1
  BY <1>1
<1>13. \A k \in 1 .. Len(tr) : Calm(g, tr[k])
  BY <1>2
<1>14. \A k \in 1 .. Len(p) : Ok(g, T, tr[k], p[k], tr[k + 1])
  BY <1>4, <1>5, <1>6, <1>7, <1>8, <1>9
<1>15. tr[1] = X /\ tr[Len(tr)] = D
  OBVIOUS
<1> HIDE DEF tr, p
<1>16. GoodRun(g, T, tr[1], p, D)
  BY <1>3, <1>11, <1>12, <1>13, <1>14, <1>15, Straight
<1> QED
  BY <1>10, <1>15, <1>16 DEF D, X

(* The modes at rest are modes, and calm. *)
LEMMA RestIs ==
  ASSUME NEW g \in AgbKinds \cup DmgKinds, NEW au \in Levels, NEW q \in Polled
  PROVE  Rest(g, au, q) \in Mode /\ Calm(g, Rest(g, au, q))
  BY DEF Mode, Phases, Four, Frames, Polled, Levels, Live, Rest, Calm, Strobe, AgbKinds, DmgKinds

(* So are those on the AGB bus. *)
LEMMA AgbModes ==
  ASSUME NEW g \in AgbKinds, NEW au \in Levels, NEW q \in Polled
  PROVE  /\ Page(au, q) \in Mode /\ Calm(g, Page(au, q))
         /\ Held(au, q) \in Mode /\ Calm(g, Held(au, q))
         /\ \A h \in {"in", "out", "any"} : Aimed(au, h, q) \in Mode /\ Calm(g, Aimed(au, h, q))
<1>1. Page(au, q) \in Mode /\ Calm(g, Page(au, q))
  BY DEF Mode, Phases, Four, Frames, Polled, Levels, Live, Page, Calm, Strobe, AgbKinds, DmgKinds
<1>2. Held(au, q) \in Mode /\ Calm(g, Held(au, q))
  BY DEF Mode, Phases, Four, Frames, Polled, Levels, Live, Held, Calm, Strobe, AgbKinds, DmgKinds
<1>3. \A h \in {"in", "out", "any"} : Aimed(au, h, q) \in Mode /\ Calm(g, Aimed(au, h, q))
  BY DEF Mode, Phases, Four, Frames, Polled, Levels, Live, Aimed, Calm, Strobe, AgbKinds, DmgKinds
<1> QED
  BY <1>1, <1>2, <1>3

(* So are those in an EEPROM frame. *)
LEMMA EepModes ==
  ASSUME NEW au \in Levels
  PROVE  /\ EepHeld(au) \in Mode /\ Calm("agb_eep", EepHeld(au))
         /\ Answer(au) \in Mode /\ Calm("agb_eep", Answer(au))
         /\ \A n \in Nat : Frame(au, n) \in Mode /\ Calm("agb_eep", Frame(au, n))
<1>1. EepHeld(au) \in Mode /\ Calm("agb_eep", EepHeld(au))
  BY DEF Mode, Phases, Four, Frames, Polled, Levels, Live, EepHeld, Calm, Strobe, AgbKinds, DmgKinds
<1>2. Answer(au) \in Mode /\ Calm("agb_eep", Answer(au))
  BY DEF Mode, Phases, Four, Frames, Polled, Levels, Live, Answer, Calm, Strobe, AgbKinds, DmgKinds
<1>3. \A n \in Nat : Frame(au, n) \in Mode /\ Calm("agb_eep", Frame(au, n))
  BY DEF Mode, Phases, Four, Frames, Polled, Levels, Live, Frame, Calm, Strobe, AgbKinds, DmgKinds
<1> QED
  BY <1>1, <1>2, <1>3

(* So are those on the DMG bus. *)
LEMMA DmgModes ==
  ASSUME NEW g \in DmgKinds, NEW au \in Levels, NEW q \in Polled
  PROVE  /\ Loose(au, q) \in Mode /\ Calm(g, Loose(au, q))
         /\ Reading(au, q) \in Mode /\ Calm(g, Reading(au, q))
<1>1. Loose(au, q) \in Mode /\ Calm(g, Loose(au, q))
  BY DEF Mode, Phases, Four, Frames, Polled, Levels, Live, Loose, Calm, Strobe, AgbKinds, DmgKinds
<1>2. Reading(au, q) \in Mode /\ Calm(g, Reading(au, q))
  BY DEF Mode, Phases, Four, Frames, Polled, Levels, Live, Reading, Calm, Strobe, AgbKinds, DmgKinds
<1> QED
  BY <1>1, <1>2

(* Which of them say less than which. *)
LEMMA Weaker ==
  ASSUME NEW g \in AgbKinds, NEW au \in Levels, NEW q \in Polled
  PROVE  /\ Le(Held(au, q), Aimed(au, "any", q)) /\ Le(Aimed(au, "in", q), Aimed(au, "any", q))
         /\ Le(Held(au, q), Rest(g, au, q)) /\ Le(Aimed(au, "any", q), Rest(g, au, q))
         /\ Le(EepHeld(au), Rest(g, au, "no"))
  BY DEF Le, Held, Aimed, Rest, EepHeld, Live, AgbKinds, DmgKinds

(* Programs one after the other, each leaving the bus as it found it. *)
LEMMA ThenBack ==
  ASSUME NEW g, NEW T, NEW m
  PROVE  \A p, r : GoodRun(g, T, m, p, m) /\ GoodRun(g, T, m, r, m) => GoodRun(g, T, m, p \o r, m)
  BY Then

(* A product of numbers is one. *)
LEMMA NatTimes == ASSUME NEW x \in Nat, NEW y \in Nat PROVE x * y \in Nat
  OBVIOUS

(* A burst of reads. *)
LEMMA AgbBurstRun ==
  ASSUME NEW g \in AgbKinds, NEW T, NEW au \in Levels, NEW q \in Polled, NEW n \in Int
  PROVE  GoodRun(g, T, Page(au, q), AgbBurst(n), Page(au, q))
<1> DEFINE ss == [i \in 1 .. n |-> << Low({"rd"}), SampleAd, High({"rd"}) >>]
<1>1. AgbBurst(n) = FlattenSeq(ss)
  BY DEF AgbBurst, Loop
<1>2. \A i \in 1 .. n : GoodRun(g, T, Page(au, q), ss[i], Page(au, q))
  BY BurstTurn
<1>3. ss = [i \in 1 .. n |-> ss[i]]
  OBVIOUS
<1> HIDE DEF ss
<1> QED
  BY <1>1, <1>2, <1>3, AgbModes, LoopRun

(* One latch group of a read. *)
LEMMA LeafGroupRun ==
  ASSUME NEW g \in AgbKinds, NEW T, NEW au \in Levels, NEW q \in Polled, NEW a \in Nat,
         NEW n \in Int
  PROVE  GoodRun(g, T, Rest(g, au, q), LeafGroup(a, n), Rest(g, au, q))
<1>1. GoodRun(g, T, Rest(g, au, q), AgbOpen(a) \o AgbBurst(n), Page(au, q))
  BY AgbOpenRun, AgbBurstRun, Then
<1> QED
  BY <1>1, AgbCloseRun, Then DEF LeafGroup

(* The Flash and ROM reads of the transfer loop. *)
LEMMA ReadLeafRun ==
  ASSUME NEW g \in AgbKinds, NEW T, NEW au \in Levels, NEW q \in Polled, NEW a \in Nat,
         NEW hws \in Int, NEW grp \in Nat
  PROVE  GoodRun(g, T, Rest(g, au, q), ReadLeaf(a, hws, grp), Rest(g, au, q))
<1>1. CASE hws = 0 \/ grp = 0
  BY <1>1, RestIs, LeRefl, Skip DEF ReadLeaf
<1>2. CASE hws # 0 /\ grp # 0
  <2> DEFINE n == (hws + grp - 1) \div grp
             ss == [i \in 1 .. n |-> LeafGroup(a + (i - 1) * grp, Low2(grp, hws - (i - 1) * grp))]
  <2>1. ReadLeaf(a, hws, grp) = FlattenSeq(ss)
    BY <1>2 DEF ReadLeaf, Loop
  <2>2. n \in Int
    BY <1>2
  <2>3. ASSUME NEW i \in 1 .. n PROVE GoodRun(g, T, Rest(g, au, q), ss[i], Rest(g, au, q))
    <3>1. i - 1 \in Nat
      BY <2>2
    <3>2. (i - 1) * grp \in Nat
      BY <3>1, NatTimes
    <3>3. a + (i - 1) * grp \in Nat /\ Low2(grp, hws - (i - 1) * grp) \in Int
      BY <3>2 DEF Low2
    <3> QED
      BY <3>3, LeafGroupRun
  <2>4. ss = [i \in 1 .. n |-> ss[i]]
    OBVIOUS
  <2> HIDE DEF ss, n
  <2> QED
    BY <2>1, <2>2, <2>3, <2>4, RestIs, LoopRun
<1> QED
  BY <1>1, <1>2

(* A peek. *)
LEMMA PeekRun ==
  ASSUME NEW g \in AgbKinds, NEW T, NEW au \in Levels, NEW q \in Polled, NEW a \in Nat
  PROVE  GoodRun(g, T, Rest(g, au, q), Peek(a), Rest(g, au, q))
  BY LeafGroupRun DEF Peek, LeafGroup

(* One word written. *)
LEMMA AgbWriteRun ==
  ASSUME NEW g \in AgbKinds, NEW T, NEW au \in Levels, NEW q \in Polled, NEW a \in Nat,
         NEW v \in 0 .. LoSize - 1
  PROVE  GoodRun(g, T, Rest(g, au, q), AgbWrite(a, v), Rest(g, au, q))
<1>1. GoodRun(g, T, Rest(g, au, q), AgbWrite(a, v), Held(au, q))
  BY AgbSelectRun, WriteDataRun, Then DEF AgbWrite
<1> QED
  BY <1>1, Weaker, LeRefl, WeakenRun

(* A burst of words. *)
LEMMA AgbWriteBurstRun ==
  ASSUME NEW g \in AgbKinds, NEW T, NEW au \in Levels, NEW q \in Polled, NEW a \in Nat,
         NEW data, Len(data) \in Nat, \A i \in 1 .. Len(data) : data[i] \in 0 .. LoSize - 1
  PROVE  GoodRun(g, T, Rest(g, au, q), AgbWriteBurst(a, data), Rest(g, au, q))
<1> DEFINE n == Len(data)
           ss == [i \in 1 .. n |->
                    << PaOut(Lo(a + (i - 1))), HiClear, HiOr(Hi(a + (i - 1))), Low({"cs"}) >>
                      \o WriteData(data[i - 1 + 1], "cs")]
<1>1. AgbWriteBurst(a, data) = << PaOut(0), HiClear, PaDrive, HiDrive >> \o FlattenSeq(ss)
  BY DEF AgbWriteBurst, Loop
<1>2. ASSUME NEW i \in 1 .. n PROVE GoodRun(g, T, Held(au, q), ss[i], Held(au, q))
  <2>1. a + (i - 1) \in Nat /\ data[i - 1 + 1] \in 0 .. LoSize - 1
    <3>1. i - 1 + 1 = i
      OBVIOUS
    <3> QED
      BY <3>1
  <2>2. GoodRun(g, T, Held(au, q),
                << PaOut(Lo(a + (i - 1))), HiClear, HiOr(Hi(a + (i - 1))), Low({"cs"}) >>
                  \o WriteData(data[i - 1 + 1], "cs"), Held(au, q))
    BY <2>1, AddressRun, WriteDataRun, Then
  <2> QED
    BY <2>2
<1>3. ss = [i \in 1 .. n |-> ss[i]] /\ n \in Int
  OBVIOUS
<1> HIDE DEF ss, n
<1>4. GoodRun(g, T, Held(au, q), FlattenSeq(ss), Held(au, q))
  BY <1>2, <1>3, AgbModes, LoopRun
<1>5. GoodRun(g, T, Rest(g, au, q), AgbWriteBurst(a, data), Held(au, q))
  BY <1>1, <1>4, AgbArmRun, Then
<1> QED
  BY <1>5, Weaker, LeRefl, WeakenRun

(* The reads of bootup. *)
LEMMA BootupStores ==
  ASSUME NEW g \in AgbKinds, NEW T, NEW au \in Levels, NEW q \in Polled
  PROVE  GoodRun(g, T, Rest(g, au, q), Bootup, Rest(g, au, q))
<1> DEFINE n == Len(BootReads)
           ss == [i \in 1 .. n |-> Peek(BootReads[i - 1 + 1])]
<1>1. Bootup = << Low({"wr"}), Low({"rd"}), High({"rd"}), High({"wr"}) >> \o FlattenSeq(ss)
  BY DEF Bootup, Loop
<1>2. ASSUME NEW i \in 1 .. n PROVE GoodRun(g, T, Rest(g, au, q), ss[i], Rest(g, au, q))
  <2>1. i - 1 + 1 = i
    OBVIOUS
  <2>2. BootReads \in Seq(Nat) /\ i \in 1 .. Len(BootReads)
    BY RegAssumption
  <2>3. BootReads[i] \in Nat
    BY <2>2
  <2> QED
    BY <2>1, <2>3, PeekRun
<1>3. ss = [i \in 1 .. n |-> ss[i]] /\ n \in Int
  BY RegAssumption
<1> HIDE DEF ss, n
<1>4. GoodRun(g, T, Rest(g, au, q), FlattenSeq(ss), Rest(g, au, q))
  BY <1>2, <1>3, RestIs, LoopRun
<1> QED
  BY <1>1, <1>4, StrobesRun, Then

(* The save chip. *)
LEMMA SramReadRun ==
  ASSUME NEW g \in AgbKinds, NEW T, NEW au \in Levels, NEW q \in Polled, NEW a \in Nat,
         NEW n \in Int
  PROVE  GoodRun(g, T, Aimed(au, "in", q), SramRead(a, n, SampleHi), Aimed(au, "in", q))
<1> DEFINE ss == [i \in 1 .. n |-> SramCycle(a + (i - 1), SampleHi)]
           S == Aimed(au, "in", q)
<1>1. SramRead(a, n, SampleHi) = << High({"rd"}), PaDrive >> \o FlattenSeq(ss) \o << High({"rd"}) >>
  BY DEF SramRead, Loop
<1>2. ASSUME NEW i \in 1 .. n PROVE GoodRun(g, T, S, ss[i], S)
  <2>1. a + (i - 1) \in Nat
    OBVIOUS
  <2> QED
    BY <2>1, SramCycleRun
<1>3. ss = [i \in 1 .. n |-> ss[i]]
  OBVIOUS
<1> HIDE DEF ss
<1>4. S \in Mode /\ Calm(g, S)
  BY AgbModes
<1>5. GoodRun(g, T, S, FlattenSeq(ss), S)
  <2> HIDE DEF S
  <2> QED
    BY <1>2, <1>3, <1>4, LoopRun
<1>6. GoodRun(g, T, S, << High({"rd"}), PaDrive >>, S)
  BY SramReadyRun
<1>7. GoodRun(g, T, S, << High({"rd"}) >>, S)
  BY SramRdHighRun
<1> HIDE DEF S
<1>8. GoodRun(g, T, S, << High({"rd"}), PaDrive >> \o FlattenSeq(ss), S)
  BY <1>5, <1>6, Then
<1>9. GoodRun(g, T, S, SramRead(a, n, SampleHi), S)
  BY <1>1, <1>7, <1>8, Then
<1> QED
  BY <1>9 DEF S

(* One readback of a byte just programmed. *)
LEMMA SramPollRun ==
  ASSUME NEW g \in AgbKinds, NEW T, NEW au \in Levels, NEW q \in Polled,
         NEW h \in {"in", "any"}, h = "in" \/ q = "first", NEW a \in Nat
  PROVE  GoodRun(g, T, Aimed(au, h, q), SramRead(a, 1, CheckHi), Aimed(au, "in", q))
<1> DEFINE ss == [i \in 1 .. 1 |-> SramCycle(a + (i - 1), CheckHi)]
           S == Aimed(au, h, q)
           I == Aimed(au, "in", q)
           M == [i \in 0 .. 1 |-> IF i = 0 THEN S ELSE I]
<1>1. SramRead(a, 1, CheckHi) = << High({"rd"}), PaDrive >> \o FlattenSeq(ss) \o << High({"rd"}) >>
  BY DEF SramRead, Loop
<1>2. GoodRun(g, T, S, ss[1], I)
  <2>1. a + (1 - 1) \in Nat
    OBVIOUS
  <2>2. GoodRun(g, T, S, SramCycle(a + (1 - 1), CheckHi), I)
    BY <2>1, SramCycleRun
  <2> QED
    BY <2>2
<1>3. GoodRun(g, T, S, << High({"rd"}), PaDrive >>, S)
  BY SramReadyRun
<1>4. GoodRun(g, T, I, << High({"rd"}) >>, I)
  BY SramRdHighRun
<1>5. Len(ss) = 1
  OBVIOUS
<1> HIDE DEF ss, S, I
<1>6. \A i \in 1 .. 1 : GoodRun(g, T, M[i - 1], ss[i], M[i])
  BY <1>2
<1>7. M[0] = S /\ M[1] = I
  OBVIOUS
<1> HIDE DEF M
<1>8. GoodRun(g, T, M[0], FlattenSeq(ss), M[1])
  <2>1. 1 \in Nat \ {0}
    OBVIOUS
  <2> QED
    BY <2>1, <1>5, <1>6, FlattenRun
<1>9. GoodRun(g, T, S, << High({"rd"}), PaDrive >> \o FlattenSeq(ss), I)
  BY <1>3, <1>7, <1>8, Then
<1>10. GoodRun(g, T, S, SramRead(a, 1, CheckHi), I)
  BY <1>1, <1>4, <1>9, Then
<1> QED
  BY <1>10 DEF S, I

(* A byte to the save chip. *)
LEMMA SramWriteRun ==
  ASSUME NEW g \in AgbKinds, NEW T, NEW au \in Levels, NEW q \in Polled, NEW a \in Nat,
         NEW v \in 0 .. HiSize - 1
  PROVE  GoodRun(g, T, Aimed(au, "any", q), SramWrite(a, v), Aimed(au, "any", q))
<1>1. GoodRun(g, T, Aimed(au, "any", q), SramWrite(a, v), Held(au, q))
  BY SramArmRun, SramCmdRun, Then DEF SramWrite
<1> QED
  BY <1>1, Weaker, LeRefl, WeakenRun

(* Both ends of an access to the chip. *)
LEMMA SramBetween ==
  ASSUME NEW g \in AgbKinds, NEW T, NEW au \in Levels, NEW q \in Polled, NEW p,
         GoodRun(g, T, Aimed(au, "in", q), p, Aimed(au, "any", q))
  PROVE  GoodRun(g, T, Rest(g, au, q), SramOpen \o p \o SramClose, Rest(g, au, q))
<1>1. GoodRun(g, T, Rest(g, au, q), SramOpen \o p, Aimed(au, "any", q))
  BY SramOpenRun, Then
<1> QED
  BY <1>1, SramCloseRun, Then

(* A read of the save memory. *)
LEMMA SaveReadRun ==
  ASSUME NEW g \in AgbKinds, NEW T, NEW au \in Levels, NEW q \in Polled, NEW a \in Nat,
         NEW len \in Nat
  PROVE  GoodRun(g, T, Rest(g, au, q), SaveReadStores(a, len), Rest(g, au, q))
<1> DEFINE n == (len + CartStep - 1) \div CartStep
           S == Aimed(au, "in", q)
           ss == [i \in 1 .. n |->
                    SramRead(a + (i - 1) * CartStep, Low2(CartStep, len - (i - 1) * CartStep),
                             SampleHi)]
<1>1. SaveReadStores(a, len) = SramOpen \o FlattenSeq(ss) \o SramClose
  BY DEF SaveReadStores, Loop
<1>2. CartStep \in Nat \ {0}
  BY CartAssumption
<1>3. n \in Int
  BY <1>2
<1>4. ASSUME NEW i \in 1 .. n PROVE GoodRun(g, T, S, ss[i], S)
  <2>1. i - 1 \in Nat
    BY <1>3
  <2>2. (i - 1) * CartStep \in Nat
    BY <1>2, <2>1, NatTimes
  <2>3. a + (i - 1) * CartStep \in Nat /\ Low2(CartStep, len - (i - 1) * CartStep) \in Int
    BY <1>2, <2>2 DEF Low2
  <2> QED
    BY <2>3, SramReadRun
<1>5. ss = [i \in 1 .. n |-> ss[i]]
  OBVIOUS
<1>6. S \in Mode /\ Calm(g, S) /\ Le(S, Aimed(au, "any", q))
  BY AgbModes, Weaker
<1> HIDE DEF ss, n, S
<1>7. GoodRun(g, T, S, FlattenSeq(ss), S)
  BY <1>3, <1>4, <1>5, <1>6, LoopRun
<1>8. GoodRun(g, T, S, FlattenSeq(ss), Aimed(au, "any", q))
  BY <1>6, <1>7, LeRefl, WeakenRun
<1> QED
  BY <1>1, <1>8, SramBetween DEF S

(* A write of it. *)
LEMMA SaveWriteRun ==
  ASSUME NEW g \in AgbKinds, NEW T, NEW au \in Levels, NEW q \in Polled, NEW a \in Nat,
         NEW data, Len(data) \in Nat, \A i \in 1 .. Len(data) : data[i] \in 0 .. HiSize - 1
  PROVE  GoodRun(g, T, Rest(g, au, q), SaveWriteStores(a, data), Rest(g, au, q))
<1> DEFINE n == Len(data)
           S == Aimed(au, "any", q)
           ss == [i \in 1 .. n |-> SramWrite(a + (i - 1), data[i - 1 + 1])]
<1>1. SaveWriteStores(a, data) = SramOpen \o FlattenSeq(ss) \o SramClose
  BY DEF SaveWriteStores, Loop
<1>2. ASSUME NEW i \in 1 .. n PROVE GoodRun(g, T, S, ss[i], S)
  <2>1. i - 1 + 1 = i /\ a + (i - 1) \in Nat
    OBVIOUS
  <2>2. data[i - 1 + 1] \in 0 .. HiSize - 1
    BY <2>1
  <2> QED
    BY <2>1, <2>2, SramWriteRun
<1>3. ss = [i \in 1 .. n |-> ss[i]] /\ n \in Int
  OBVIOUS
<1>4. S \in Mode /\ Calm(g, S) /\ Le(Aimed(au, "in", q), S)
  BY AgbModes, Weaker
<1> HIDE DEF ss, n, S
<1>5. GoodRun(g, T, S, FlattenSeq(ss), S)
  BY <1>2, <1>3, <1>4, LoopRun
<1>6. GoodRun(g, T, Aimed(au, "in", q), FlattenSeq(ss), S)
  BY <1>4, <1>5, LeRefl, WeakenRun
<1> QED
  BY <1>1, <1>6, SramBetween DEF S

(* A page an unlock. *)
LEMMA SavePagesRun ==
  ASSUME NEW g \in AgbKinds, NEW T, NEW au \in Levels, NEW q \in Polled, NEW sector \in Nat,
         NEW data, Len(data) = 2 * Sector, \A i \in 1 .. Len(data) : data[i] \in 0 .. HiSize - 1
  PROVE  GoodRun(g, T, Rest(g, au, q), SramProgram(sector, data, 2), Rest(g, au, q))
<1> DEFINE n == Len(data) \div Sector
           S == Aimed(au, "any", q)
           Bytes(p) == [j \in 1 .. Sector |->
                          SramWrite((sector + p) * Sector + (j - 1),
                                    data[p * Sector + (j - 1) + 1])]
           ss == [i \in 1 .. n |->
                    SramWrite(Unlock1, CmdAA) \o SramWrite(Unlock2, Cmd55)
                      \o SramWrite(Unlock1, CmdA0) \o FlattenSeq(Bytes(i - 1))
                      \o << PollOf("PAGE_WAIT", 0) >>]
<1>1. SramProgram(sector, data, 2) = SramOpen \o FlattenSeq(ss) \o SramClose
  BY DEF SramProgram, SramProgramPages, Loop
<1>2. S \in Mode /\ Calm(g, S) /\ Le(Aimed(au, "in", q), S)
  BY AgbModes, Weaker
<1>3. Sector \in Nat \ {0} /\ Unlock1 \in Nat /\ Unlock2 \in Nat
      /\ CmdAA \in 0 .. HiSize - 1 /\ Cmd55 \in 0 .. HiSize - 1 /\ CmdA0 \in 0 .. HiSize - 1
  BY BusAssumption
<1>4. n = 2
  BY <1>3
<1>5. ASSUME NEW i \in 1 .. n PROVE GoodRun(g, T, S, ss[i], S)
  <2>1. GoodRun(g, T, S, SramWrite(Unlock1, CmdAA), S)
        /\ GoodRun(g, T, S, SramWrite(Unlock2, Cmd55), S)
        /\ GoodRun(g, T, S, SramWrite(Unlock1, CmdA0), S)
    BY <1>3, SramWriteRun
  <2>2. ASSUME NEW j \in 1 .. Sector PROVE GoodRun(g, T, S, Bytes(i - 1)[j], S)
    <3>1. i - 1 \in {0, 1} /\ j - 1 \in 0 .. Sector - 1
      BY <1>3, <1>4
    <3>2. (sector + (i - 1)) * Sector \in Nat
      BY <1>3, <3>1, NatTimes
    <3>3. (i - 1) * Sector + (j - 1) + 1 \in 1 .. Len(data)
      <4>1. CASE i - 1 = 0
        BY <4>1, <3>1, <1>3
      <4>2. CASE i - 1 = 1
        BY <4>2, <3>1, <1>3
      <4> QED
        BY <4>1, <4>2, <3>1
    <3>4. (sector + (i - 1)) * Sector + (j - 1) \in Nat
          /\ data[(i - 1) * Sector + (j - 1) + 1] \in 0 .. HiSize - 1
      BY <3>1, <3>2, <3>3
    <3>5. Bytes(i - 1)[j] = SramWrite((sector + (i - 1)) * Sector + (j - 1),
                                      data[(i - 1) * Sector + (j - 1) + 1])
      OBVIOUS
    <3>6. GoodRun(g, T, S, SramWrite((sector + (i - 1)) * Sector + (j - 1),
                                     data[(i - 1) * Sector + (j - 1) + 1]), S)
      BY <3>4, SramWriteRun
    <3> QED
      BY <3>5, <3>6
  <2> DEFINE bs == Bytes(i - 1)
  <2>3. bs = [j \in 1 .. Sector |-> bs[j]] /\ \A j \in 1 .. Sector : GoodRun(g, T, S, bs[j], S)
    BY <2>2
  <2>4. GoodRun(g, T, S, << PollOf("PAGE_WAIT", 0) >>, S)
    BY PageWaitRun
  <2>5. ss[i] = SramWrite(Unlock1, CmdAA) \o SramWrite(Unlock2, Cmd55)
                      \o SramWrite(Unlock1, CmdA0) \o FlattenSeq(bs)
                      \o << PollOf("PAGE_WAIT", 0) >>
    OBVIOUS
  <2> HIDE DEF bs, S, ss
  <2>6. GoodRun(g, T, S, FlattenSeq(bs), S)
    BY <2>3, <1>3, <1>2, LoopRun
  <2> QED
    BY <2>1, <2>4, <2>5, <2>6, ThenBack
<1>6. ss = [i \in 1 .. n |-> ss[i]] /\ n \in Int
  BY <1>4
<1> HIDE DEF ss, n, S
<1>7. GoodRun(g, T, S, FlattenSeq(ss), S)
  BY <1>2, <1>5, <1>6, LoopRun
<1>8. GoodRun(g, T, Aimed(au, "in", q), FlattenSeq(ss), S)
  BY <1>2, <1>7, LeRefl, WeakenRun
<1> QED
  BY <1>1, <1>8, SramBetween DEF S

(* A byte an unlock, and its poll. *)
LEMMA SaveBytesRun ==
  ASSUME NEW g, g = "agb_flash", NEW T, NEW au \in Levels, NEW a \in Nat,
         NEW data, Len(data) \in Nat, \A i \in 1 .. Len(data) : data[i] \in 0 .. HiSize - 1
  PROVE  GoodRun(g, T, Rest(g, au, "no"), SramProgram(a, data, 1), Rest(g, au, "no"))
<1> DEFINE n == Len(data)
           S == Aimed(au, "any", "no")
           H == Held(au, "no")
           ss == [i \in 1 .. n |->
                    << High({"rd"}), HiDrive, PaDrive >>
                      \o SramCmd(Unlock1, CmdAA) \o SramCmd(Unlock2, Cmd55)
                      \o SramCmd(Unlock1, CmdA0) \o SramCmd(a + (i - 1), data[i - 1 + 1])
                      \o << PollOf("POLL_SAVE", a + (i - 1)) >>]
<1>1. SramProgram(a, data, 1) = SramOpen \o FlattenSeq(ss) \o SramClose
  BY DEF SramProgram, SramProgramBytes, Loop
<1>2. Unlock1 \in Nat /\ Unlock2 \in Nat /\ g \in AgbKinds /\ "no" \in Polled
      /\ CmdAA \in 0 .. HiSize - 1 /\ Cmd55 \in 0 .. HiSize - 1 /\ CmdA0 \in 0 .. HiSize - 1
  BY BusAssumption DEF AgbKinds, Polled
<1>3. S \in Mode /\ Calm(g, S) /\ Le(Aimed(au, "in", "no"), S)
  BY <1>2, AgbModes, Weaker
<1>4. ASSUME NEW i \in 1 .. n PROVE GoodRun(g, T, S, ss[i], S)
  <2>1. i - 1 + 1 = i /\ a + (i - 1) \in Nat
    OBVIOUS
  <2>2. data[i - 1 + 1] \in 0 .. HiSize - 1
    BY <2>1
  <2>3. GoodRun(g, T, H, SramCmd(Unlock1, CmdAA), H) /\ GoodRun(g, T, H, SramCmd(Unlock2, Cmd55), H)
        /\ GoodRun(g, T, H, SramCmd(Unlock1, CmdA0), H)
        /\ GoodRun(g, T, H, SramCmd(a + (i - 1), data[i - 1 + 1]), H)
    BY <1>2, <2>1, <2>2, SramCmdRun
  <2>4. GoodRun(g, T, S, << High({"rd"}), HiDrive, PaDrive >>, H)
    BY <1>2, SramArmRun
  <2>5. GoodRun(g, T, H, << PollOf("POLL_SAVE", a + (i - 1)) >>, S)
    BY <2>1, PollSaveRun
  <2>6. ss[i] = << High({"rd"}), HiDrive, PaDrive >>
                      \o SramCmd(Unlock1, CmdAA) \o SramCmd(Unlock2, Cmd55)
                      \o SramCmd(Unlock1, CmdA0) \o SramCmd(a + (i - 1), data[i - 1 + 1])
                      \o << PollOf("POLL_SAVE", a + (i - 1)) >>
    OBVIOUS
  <2> HIDE DEF S, H, ss
  <2> QED
    BY <2>3, <2>4, <2>5, <2>6, Then
<1>5. ss = [i \in 1 .. n |-> ss[i]] /\ n \in Int
  OBVIOUS
<1> HIDE DEF ss, n, S
<1>6. GoodRun(g, T, S, FlattenSeq(ss), S)
  BY <1>3, <1>4, <1>5, LoopRun
<1>7. GoodRun(g, T, Aimed(au, "in", "no"), FlattenSeq(ss), S)
  BY <1>3, <1>6, LeRefl, WeakenRun
<1> QED
  BY <1>2, <1>1, <1>7, SramBetween DEF S

(* A leaf call reads at least a byte. *)
LEMMA PerCallIs ==
  ASSUME NEW step \in Nat \ {0}, NEW latch \in Nat \ {0}
  PROVE  PerCall(step, latch) \in Nat \ {0}
<1>1. CASE step < latch
  BY <1>1 DEF PerCall
<1>2. CASE step >= latch
  <2>1. step \div latch \in Nat \ {0}
    BY <1>2
  <2>2. \A x, y \in Nat \ {0} : x * y \in Nat \ {0}
    OBVIOUS
  <2>3. PerCall(step, latch) = (step \div latch) * latch
    BY <1>2 DEF PerCall
  <2> QED
    BY <2>1, <2>2, <2>3
<1> QED
  BY <1>1, <1>2

(* The leaf calls of a transfer. *)
LEMMA LeavesRun ==
  ASSUME NEW g \in AgbKinds, NEW T, NEW au \in Levels, NEW q \in Polled, NEW a \in Nat,
         NEW len \in Nat, NEW per \in Nat \ {0}, NEW grp \in Nat
  PROVE  GoodRun(g, T, Rest(g, au, q),
                 Loop((len + per - 1) \div per, LAMBDA i :
                   ReadLeaf(a + ((i * per) \div 2), Low2(per, len - i * per) \div 2, grp)),
                 Rest(g, au, q))
<1> DEFINE n == (len + per - 1) \div per
           R == Rest(g, au, q)
           ss == [i \in 1 .. n |->
                    ReadLeaf(a + (((i - 1) * per) \div 2), Low2(per, len - (i - 1) * per) \div 2,
                             grp)]
<1>1. Loop((len + per - 1) \div per, LAMBDA i :
             ReadLeaf(a + ((i * per) \div 2), Low2(per, len - i * per) \div 2, grp))
           = FlattenSeq(ss)
  BY DEF Loop
<1>2. n \in Int
  OBVIOUS
<1>3. ASSUME NEW i \in 1 .. n PROVE GoodRun(g, T, R, ss[i], R)
  <2>1. i - 1 \in Nat
    BY <1>2
  <2>2. (i - 1) * per \in Nat
    BY <2>1, NatTimes
  <2>3. a + (((i - 1) * per) \div 2) \in Nat /\ Low2(per, len - (i - 1) * per) \div 2 \in Int
    BY <2>2 DEF Low2
  <2> QED
    BY <2>3, ReadLeafRun
<1>4. ss = [i \in 1 .. n |-> ss[i]]
  OBVIOUS
<1>5. R \in Mode /\ Calm(g, R)
  BY RestIs
<1> HIDE DEF ss, n, R
<1>6. GoodRun(g, T, R, FlattenSeq(ss), R)
  BY <1>2, <1>3, <1>4, <1>5, LoopRun
<1> QED
  BY <1>1, <1>6 DEF R

(* A read of the cartridge. *)
LEMMA CartReadRun ==
  ASSUME NEW g \in AgbKinds, NEW T, NEW au \in Levels, NEW q \in Polled, NEW a \in Nat,
         NEW len \in Nat, NEW method \in 0 .. 2, NEW cartLatch \in Nat \ {0}
  PROVE  GoodRun(g, T, Rest(g, au, q), CartReadStores(a, len, method, cartLatch), Rest(g, au, q))
<1> DEFINE latch == LatchBytes(method, cartLatch)
           per == PerCall(StepBytes(method, cartLatch), latch)
<1>1. latch \in Nat \ {0} /\ StepBytes(method, cartLatch) \in Nat \ {0}
  BY CartAssumption DEF LatchBytes, StepBytes
<1>2. per \in Nat \ {0} /\ latch \div 2 \in Nat
  BY <1>1, PerCallIs
<1>3. CartReadStores(a, len, method, cartLatch) =
        Loop((len + per - 1) \div per, LAMBDA i :
          ReadLeaf(a + ((i * per) \div 2), Low2(per, len - i * per) \div 2, latch \div 2))
  BY DEF CartReadStores
<1> HIDE DEF latch, per
<1> QED
  BY <1>2, <1>3, LeavesRun

(* A CRC over the cartridge. *)
LEMMA CrcRun ==
  ASSUME NEW g \in AgbKinds, NEW T, NEW au \in Levels, NEW q \in Polled, NEW a \in Nat,
         NEW len \in Nat, NEW latch \in Nat \ {0}
  PROVE  GoodRun(g, T, Rest(g, au, q), CrcStores(a, len, latch), Rest(g, au, q))
<1>1. ReplyBytes \in Nat \ {0} /\ latch \div 2 \in Nat
  BY CartAssumption
<1> QED
  BY <1>1, LeavesRun DEF CrcStores

(* What fits the low byte of PB fits PA. *)
LEMMA ByteFits ==
  /\ \A v \in 0 .. HiSize - 1 : v \in 0 .. LoSize - 1
  /\ CmdAA \in 0 .. LoSize - 1 /\ Cmd55 \in 0 .. LoSize - 1 /\ CmdA0 \in 0 .. LoSize - 1
  /\ Cmd25 \in 0 .. LoSize - 1 /\ Cmd29 \in 0 .. LoSize - 1
<1>1. HiSize \in Nat /\ LoSize \in Nat /\ HiSize <= LoSize
  BY BusAssumption, RegAssumption
<1>2. \A v \in 0 .. HiSize - 1 : v \in 0 .. LoSize - 1
  BY <1>1
<1>3. CmdAA \in 0 .. HiSize - 1 /\ Cmd55 \in 0 .. HiSize - 1 /\ CmdA0 \in 0 .. HiSize - 1
  BY BusAssumption
<1>4. Cmd25 \in 0 .. HiSize - 1 /\ Cmd29 \in 0 .. HiSize - 1
  BY CartAssumption
<1> QED
  BY <1>2, <1>3, <1>4

(* Flash on the ROM bus. *)
LEMMA UnlockRun ==
  ASSUME NEW g \in AgbKinds, NEW T, NEW au \in Levels, NEW q \in Polled
  PROVE  GoodRun(g, T, Rest(g, au, q), AgbWrite(Unlock1, CmdAA) \o AgbWrite(Unlock2, Cmd55),
                 Rest(g, au, q))
<1>1. Unlock1 \in Nat /\ Unlock2 \in Nat /\ CmdAA \in 0 .. LoSize - 1 /\ Cmd55 \in 0 .. LoSize - 1
  BY BusAssumption, ByteFits
<1>2. GoodRun(g, T, Rest(g, au, q), AgbWrite(Unlock1, CmdAA), Rest(g, au, q))
      /\ GoodRun(g, T, Rest(g, au, q), AgbWrite(Unlock2, Cmd55), Rest(g, au, q))
  BY <1>1, AgbWriteRun
<1> QED
  BY <1>2, Then

(* A buffer of a flash chip on the ROM bus. *)
LEMMA ChunkRun ==
  ASSUME NEW g, g = "agb_flash", NEW T, NEW au \in Levels, Rest(g, au, "no") \in T,
         NEW sa \in Nat, NEW words \in [1 .. 2 -> 0 .. HiSize - 1]
  PROVE  GoodRun(g, T, Rest(g, au, "no"), ChunkStores(sa, words), Rest(g, au, "no"))
<1> DEFINE R == Rest(g, au, "no")
<1>1. g \in AgbKinds /\ "no" \in Polled
  BY DEF AgbKinds, Polled
<1>2. Len(words) = 2 /\ \A i \in 1 .. 2 : words[i] \in 0 .. LoSize - 1
  BY ByteFits
<1>3. Cmd25 \in 0 .. LoSize - 1 /\ Cmd29 \in 0 .. LoSize - 1 /\ Len(words) - 1 \in 0 .. LoSize - 1
      /\ sa + Len(words) - 1 \in Nat
  BY <1>2, ByteFits, BusAssumption
<1>4. GoodRun(g, T, R, AgbWrite(Unlock1, CmdAA) \o AgbWrite(Unlock2, Cmd55), R)
  BY <1>1, UnlockRun
<1>5. GoodRun(g, T, R, AgbWrite(sa, Cmd25), R) /\ GoodRun(g, T, R, AgbWrite(sa, Len(words) - 1), R)
      /\ GoodRun(g, T, R, AgbWrite(sa, Cmd29), R)
  BY <1>1, <1>3, AgbWriteRun
<1>6. GoodRun(g, T, R, AgbWriteBurst(sa, words), R)
  BY <1>1, <1>2, AgbWriteBurstRun
<1>7. GoodRun(g, T, R, << PollOf("POLL_ROM", sa + Len(words) - 1) >>, R)
  BY <1>3, PollRomRun
<1>8. ChunkStores(sa, words) =
        (AgbWrite(Unlock1, CmdAA) \o AgbWrite(Unlock2, Cmd55)) \o AgbWrite(sa, Cmd25)
          \o AgbWrite(sa, Len(words) - 1) \o AgbWriteBurst(sa, words)
          \o AgbWrite(sa, Cmd29) \o << PollOf("POLL_ROM", sa + Len(words) - 1) >>
  BY DEF ChunkStores
<1> HIDE DEF R
<1>9. GoodRun(g, T, R, ChunkStores(sa, words), R)
  BY <1>4, <1>5, <1>6, <1>7, <1>8, ThenBack
<1> QED
  BY <1>9 DEF R

(* A word to it. *)
LEMMA WordRun ==
  ASSUME NEW g, g = "agb_flash", NEW T, NEW au \in Levels, Rest(g, au, "no") \in T,
         NEW pa \in Nat, NEW w \in 0 .. HiSize - 1
  PROVE  GoodRun(g, T, Rest(g, au, "no"), WordStores(pa, w), Rest(g, au, "no"))
<1> DEFINE R == Rest(g, au, "no")
<1>1. g \in AgbKinds /\ "no" \in Polled
  BY DEF AgbKinds, Polled
<1>2. CmdA0 \in 0 .. LoSize - 1 /\ w \in 0 .. LoSize - 1 /\ Unlock1 \in Nat
  BY ByteFits, BusAssumption
<1>3. GoodRun(g, T, R, AgbWrite(Unlock1, CmdAA) \o AgbWrite(Unlock2, Cmd55), R)
  BY <1>1, UnlockRun
<1>4. GoodRun(g, T, R, AgbWrite(Unlock1, CmdA0), R) /\ GoodRun(g, T, R, AgbWrite(pa, w), R)
  BY <1>1, <1>2, AgbWriteRun
<1>5. GoodRun(g, T, R, << PollOf("POLL_ROM", pa) >>, R)
  BY PollRomRun
<1> HIDE DEF R
<1>6. GoodRun(g, T, R, WordStores(pa, w), R)
  BY <1>3, <1>4, <1>5, ThenBack DEF WordStores
<1> QED
  BY <1>6 DEF R

(* The EEPROM. *)
LEMMA EepromSendRun ==
  ASSUME NEW g, g = "agb_eep", NEW T, NEW au \in Levels, NEW n \in Nat, NEW bits, Len(bits) \in Nat
  PROVE  GoodRun(g, T, Frame(au, n), EepromSend(bits), Frame(au, n + Len(bits)))
<1> DEFINE k == Len(bits)
           ss == [i \in 1 .. k |-> << PaAd0(bits[i - 1 + 1]), Low({"wr"}), High({"wr"}) >>]
           M == [i \in 0 .. k |-> Frame(au, n + i)]
<1>1. EepromSend(bits) = FlattenSeq(ss)
  BY DEF EepromSend, Loop
<1>2. CASE k = 0
  <2>1. ss = << >>
    BY <1>2
  <2>2. EepromSend(bits) = << >>
    BY <1>1, <2>1 DEF FlattenSeq
  <2>3. n + Len(bits) = n /\ Frame(au, n) \in Mode /\ Calm(g, Frame(au, n))
    BY <1>2, EepModes
  <2> QED
    BY <2>2, <2>3, LeRefl, Skip
<1>3. CASE k # 0
  <2>1. k \in Nat \ {0} /\ Len(ss) = k
    BY <1>3
  <2>2. ASSUME NEW i \in 1 .. k PROVE GoodRun(g, T, M[i - 1], ss[i], M[i])
    <3>1. i - 1 \in 0 .. k /\ i \in 0 .. k /\ n + (i - 1) \in Nat /\ (n + (i - 1)) + 1 = n + i
      BY <2>1
    <3>2. M[i - 1] = Frame(au, n + (i - 1)) /\ M[i] = Frame(au, (n + (i - 1)) + 1)
      BY <3>1
    <3>3. GoodRun(g, T, Frame(au, n + (i - 1)),
                  << PaAd0(bits[i - 1 + 1]), Low({"wr"}), High({"wr"}) >>,
                  Frame(au, (n + (i - 1)) + 1))
      BY <3>1, SendTurn
    <3>4. ss[i] = << PaAd0(bits[i - 1 + 1]), Low({"wr"}), High({"wr"}) >>
      OBVIOUS
    <3> HIDE DEF M, ss
    <3> QED
      BY <3>2, <3>3, <3>4
  <2>3. M[0] = Frame(au, n) /\ M[k] = Frame(au, n + Len(bits))
    <3>1. n + 0 = n /\ 0 \in 0 .. k /\ k \in 0 .. k
      BY <2>1
    <3> QED
      BY <3>1
  <2> HIDE DEF M, ss, k
  <2> QED
    BY <1>1, <2>1, <2>2, <2>3, FlattenRun
<1> QED
  BY <1>2, <1>3

(* Lengths of programs and frames. *)
LEMMA ConcatLen ==
  ASSUME NEW S, NEW p \in Seq(S), NEW r \in Seq(S)
  PROVE  Len(p \o r) = Len(p) + Len(r)
  OBVIOUS

(* A pair is a sequence of two. *)
LEMMA PairSeq ==
  ASSUME NEW S, NEW x \in S, NEW y \in S
  PROVE  <<x, y>> \in Seq(S) /\ Len(<<x, y>>) = 2
  OBVIOUS

(* An EEPROM command is two bits and an address. *)
LEMMA WordLen ==
  ASSUME NEW a, NEW op, op \in {<<1, 1>>, <<1, 0>>}
  PROVE  Len(EepromWord(op, a)) = EepAddrBits + 2
<1> DEFINE w == [i \in 1 .. EepAddrBits |-> (a \div (2 ^ (EepAddrBits - i))) % 2]
           S == {w[j] : j \in 1 .. EepAddrBits} \cup {0, 1}
<1>1. EepromWord(op, a) = op \o w
  BY DEF EepromWord
<1>2. EepAddrBits \in Nat
  BY BusAssumption
<1>3. \A i \in 1 .. EepAddrBits : w[i] \in S
  OBVIOUS
<1>4. 0 \in S /\ 1 \in S
  OBVIOUS
<1>5. w = [i \in 1 .. EepAddrBits |-> w[i]]
  OBVIOUS
<1> HIDE DEF w, S
<1>6. op \in Seq(S) /\ Len(op) = 2
  BY <1>4, PairSeq
<1>7. w \in Seq(S) /\ Len(w) = EepAddrBits
  <2>1. w \in [1 .. EepAddrBits -> S]
    BY <1>3, <1>5
  <2> QED
    BY <1>2, <2>1
<1>8. Len(op \o w) = 2 + EepAddrBits
  BY <1>6, <1>7, ConcatLen
<1> QED
  BY <1>1, <1>2, <1>8

(* A word read from the EEPROM: the frame is answered after /CS was raised in it. *)
LEMMA EepromReadRun ==
  ASSUME NEW g, g = "agb_eep", NEW T, NEW au \in Levels, NEW a
  PROVE  GoodRun(g, T, EepHeld(au), EepromRead(a), EepHeld(au))
<1> DEFINE E == EepHeld(au)
           K == Answer(au)
           ss == [i \in 1 .. EepDummies |-> << Low({"rd"}), High({"rd"}) >>]
           rr == [i \in 1 .. EepBits |-> << Low({"rd"}), High({"rd"}), SampleAd0 >>]
           request == << PaAd0(0), Low({"wr"}), High({"wr"}), High({"cs"}), Ad0Release,
                         Low({"cs"}) >>
           w == EepromWord(<<1, 1>>, a)
<1>1. EepromRead(a) = EepromBegin \o EepromSend(w) \o request \o FlattenSeq(ss) \o FlattenSeq(rr)
                        \o << High({"cs"}), Ad0Drive >>
  BY DEF EepromRead, Loop
<1>2. EepDummies \in Int /\ EepBits \in Int /\ EepAddrBits \in Nat
  BY BusAssumption
<1>3. K \in Mode /\ Calm(g, K)
  BY EepModes
<1>4. \A i \in 1 .. EepDummies : GoodRun(g, T, K, ss[i], K)
  BY DummyTurn
<1>5. \A i \in 1 .. EepBits : GoodRun(g, T, K, rr[i], K)
  BY BitTurn
<1>6. ss = [i \in 1 .. EepDummies |-> ss[i]] /\ rr = [i \in 1 .. EepBits |-> rr[i]]
  OBVIOUS
<1>7. Len(w) = EepAddrBits + 2
  BY WordLen
<1>8. 0 \in Nat /\ Len(w) \in Nat /\ 0 + Len(w) = EepAddrBits + 2
  BY <1>2, <1>7
<1>9. GoodRun(g, T, E, EepromBegin, Frame(au, 0))
  BY EepromBeginRun
<1>10. GoodRun(g, T, Frame(au, EepAddrBits + 2), request, K)
  BY EepromAskRun
<1>11. GoodRun(g, T, K, << High({"cs"}), Ad0Drive >>, E)
  BY EepromEndRun
<1> HIDE DEF ss, rr, K, E, request, w
<1>12. GoodRun(g, T, K, FlattenSeq(ss), K) /\ GoodRun(g, T, K, FlattenSeq(rr), K)
  BY <1>2, <1>3, <1>4, <1>5, <1>6, LoopRun
<1>13. GoodRun(g, T, Frame(au, 0), EepromSend(w), Frame(au, EepAddrBits + 2))
  <2>1. GoodRun(g, T, Frame(au, 0), EepromSend(w), Frame(au, 0 + Len(w)))
    BY <1>8, EepromSendRun
  <2> QED
    BY <1>8, <2>1
<1>14. GoodRun(g, T, E, EepromBegin \o EepromSend(w), Frame(au, EepAddrBits + 2))
  BY <1>9, <1>13, Then
<1>15. GoodRun(g, T, E, EepromBegin \o EepromSend(w) \o request, K)
  BY <1>10, <1>14, Then
<1>16. GoodRun(g, T, E, EepromBegin \o EepromSend(w) \o request \o FlattenSeq(ss), K)
  BY <1>12, <1>15, Then
<1>17. GoodRun(g, T, E, EepromBegin \o EepromSend(w) \o request \o FlattenSeq(ss) \o FlattenSeq(rr),
               K)
  BY <1>12, <1>16, Then
<1>18. GoodRun(g, T, E, EepromRead(a), E)
  BY <1>1, <1>11, <1>17, Then
<1> QED
  BY <1>18 DEF E

(* A word written to it: the frame is whole when /CS rises. *)
LEMMA EepromWriteRun ==
  ASSUME NEW g, g = "agb_eep", NEW T, NEW au \in Levels, NEW a, NEW bits, Len(bits) = EepBits
  PROVE  GoodRun(g, T, EepHeld(au), EepromWrite(a, bits), EepHeld(au))
<1> DEFINE E == EepHeld(au)
           store == << PaAd0(0), Low({"wr"}), High({"wr"}), High({"cs"}), High({"clk"}),
                       Low({"clk"}) >>
           w == EepromWord(<<1, 0>>, a)
<1>1. EepromWrite(a, bits) = EepromBegin \o EepromSend(w) \o EepromSend(bits) \o store
  BY DEF EepromWrite
<1>2. EepBits \in Nat /\ EepAddrBits \in Nat
  BY BusAssumption
<1>3. Len(w) = EepAddrBits + 2
  BY WordLen
<1>4. 0 \in Nat /\ Len(w) \in Nat /\ 0 + Len(w) = EepAddrBits + 2 /\ Len(bits) \in Nat
      /\ EepAddrBits + 2 \in Nat /\ (EepAddrBits + 2) + Len(bits) = EepAddrBits + EepBits + 2
  BY <1>2, <1>3
<1>5. GoodRun(g, T, E, EepromBegin, Frame(au, 0))
  BY EepromBeginRun
<1>6. GoodRun(g, T, Frame(au, EepAddrBits + EepBits + 2), store, E)
  BY EepromStoreRun
<1> HIDE DEF E, store, w
<1>7. GoodRun(g, T, Frame(au, 0), EepromSend(w), Frame(au, EepAddrBits + 2))
  <2>1. GoodRun(g, T, Frame(au, 0), EepromSend(w), Frame(au, 0 + Len(w)))
    BY <1>4, EepromSendRun
  <2> QED
    BY <1>4, <2>1
<1>8. GoodRun(g, T, Frame(au, EepAddrBits + 2), EepromSend(bits),
              Frame(au, EepAddrBits + EepBits + 2))
  <2>1. GoodRun(g, T, Frame(au, EepAddrBits + 2), EepromSend(bits),
                Frame(au, (EepAddrBits + 2) + Len(bits)))
    BY <1>4, EepromSendRun
  <2> QED
    BY <1>4, <2>1
<1>9. GoodRun(g, T, E, EepromBegin \o EepromSend(w), Frame(au, EepAddrBits + 2))
  BY <1>5, <1>7, Then
<1>10. GoodRun(g, T, E, EepromBegin \o EepromSend(w) \o EepromSend(bits),
               Frame(au, EepAddrBits + EepBits + 2))
  BY <1>8, <1>9, Then
<1>11. GoodRun(g, T, E, EepromWrite(a, bits), E)
  BY <1>1, <1>6, <1>10, Then
<1> QED
  BY <1>11 DEF E

(* A transfer of words from the EEPROM. *)
LEMMA EepReadRun ==
  ASSUME NEW g, g = "agb_eep", NEW T, NEW au \in Levels, NEW a, NEW words \in Int
  PROVE  GoodRun(g, T, Rest(g, au, "no"), EepReadStores(a, words), Rest(g, au, "no"))
<1> DEFINE E == EepHeld(au)
           ss == [i \in 1 .. words |-> EepromRead(a + (i - 1))]
<1>1. EepReadStores(a, words) = EepromBus \o FlattenSeq(ss)
  BY DEF EepReadStores, Loop
<1>2. \A i \in 1 .. words : GoodRun(g, T, E, ss[i], E)
  BY EepromReadRun
<1>3. ss = [i \in 1 .. words |-> ss[i]]
  OBVIOUS
<1>4. E \in Mode /\ Calm(g, E) /\ Le(E, Rest(g, au, "no"))
  BY EepModes, Weaker DEF AgbKinds, Polled
<1>5. GoodRun(g, T, Rest(g, au, "no"), EepromBus, E)
  BY EepromBusRun
<1> HIDE DEF ss, E
<1>6. GoodRun(g, T, E, FlattenSeq(ss), E)
  BY <1>2, <1>3, <1>4, LoopRun
<1>7. GoodRun(g, T, Rest(g, au, "no"), EepReadStores(a, words), E)
  BY <1>1, <1>5, <1>6, Then
<1> QED
  BY <1>4, <1>7, LeRefl, WeakenRun

(* A transfer of words to the EEPROM. *)
LEMMA EepWriteRun ==
  ASSUME NEW g, g = "agb_eep", NEW T, NEW au \in Levels, NEW a, NEW data,
         Len(data) \in Nat, \A i \in 1 .. Len(data) : Len(data[i]) = EepBits
  PROVE  GoodRun(g, T, Rest(g, au, "no"), EepWriteStores(a, data), Rest(g, au, "no"))
<1> DEFINE E == EepHeld(au)
           n == Len(data)
           ss == [i \in 1 .. n |-> EepromWrite(a + (i - 1), data[i - 1 + 1])]
<1>1. EepWriteStores(a, data) = EepromBus \o FlattenSeq(ss)
  BY DEF EepWriteStores, Loop
<1>2. ASSUME NEW i \in 1 .. n PROVE GoodRun(g, T, E, ss[i], E)
  <2>1. i - 1 + 1 = i
    OBVIOUS
  <2>2. Len(data[i - 1 + 1]) = EepBits
    BY <2>1
  <2> QED
    BY <2>2, EepromWriteRun
<1>3. ss = [i \in 1 .. n |-> ss[i]] /\ n \in Int
  OBVIOUS
<1>4. E \in Mode /\ Calm(g, E) /\ Le(E, Rest(g, au, "no"))
  BY EepModes, Weaker DEF AgbKinds, Polled
<1>5. GoodRun(g, T, Rest(g, au, "no"), EepromBus, E)
  BY EepromBusRun
<1> HIDE DEF ss, E, n
<1>6. GoodRun(g, T, E, FlattenSeq(ss), E)
  BY <1>2, <1>3, <1>4, LoopRun
<1>7. GoodRun(g, T, Rest(g, au, "no"), EepWriteStores(a, data), E)
  BY <1>1, <1>5, <1>6, Then
<1> QED
  BY <1>4, <1>7, LeRefl, WeakenRun

(* The quotient of a number below a square. *)
LEMMA QuotientFits ==
  ASSUME NEW x \in Nat, NEW d \in Nat, d > 0, x < d * d
  PROVE  x \div d \in 0 .. d - 1
<1>1. x \div d < d
  BY SMTT(30)
<1>2. x \div d \in Nat
  OBVIOUS
<1> QED
  BY <1>1, <1>2

(* The 3D mapper's page. *)
LEMMA M3dOpenRun ==
  ASSUME NEW g \in AgbKinds, NEW T, NEW au \in Levels, NEW q \in Polled, NEW a \in 0 .. MaxAddr,
         NEW size \in Nat
  PROVE  GoodRun(g, T, Rest(g, au, q), M3dOpen(a, size), Page(au, q))
<1> DEFINE R == Rest(g, au, q)
<1>1. \A i \in 1 .. 8 : M3dRegs[i] \in Nat
  BY RegAssumption
<1>2. (2 * a) % LoSize \in 0 .. LoSize - 1 /\ size % LoSize \in 0 .. LoSize - 1
      /\ 1 \in 0 .. LoSize - 1 /\ 0 \in 0 .. LoSize - 1
  <2>1. LoSize \in Nat /\ LoSize > 1 /\ a \in Nat
    BY CartAssumption, BusAssumption
  <2>2. \A x \in Nat : x % LoSize \in 0 .. LoSize - 1
    BY <2>1
  <2> QED
    BY <2>1, <2>2
<1>3. (2 * a) \div LoSize \in 0 .. LoSize - 1
  <2>1. LoSize \in Nat /\ LoSize > 0 /\ MaxAddr \in Nat /\ 2 * MaxAddr < LoSize * LoSize
    BY CartAssumption, BusAssumption
  <2>2. 2 * a \in Nat /\ 2 * a <= 2 * MaxAddr /\ LoSize * LoSize \in Nat
    BY <2>1
  <2>3. 2 * a < LoSize * LoSize
    BY <2>1, <2>2
  <2> QED
    BY <2>1, <2>2, <2>3, QuotientFits
<1> HIDE DEF R
<1>4. \A i \in 1 .. 8, v \in 0 .. LoSize - 1 : GoodRun(g, T, R, AgbWrite(M3dRegs[i], v), R)
  BY <1>1, AgbWriteRun DEF R
<1>5. /\ GoodRun(g, T, R, AgbWrite(M3dRegs[3], (2 * a) % LoSize), R)
      /\ GoodRun(g, T, R, AgbWrite(M3dRegs[4], (2 * a) \div LoSize), R)
      /\ GoodRun(g, T, R, AgbWrite(M3dRegs[5], 1), R)
      /\ GoodRun(g, T, R, AgbWrite(M3dRegs[6], 1), R)
      /\ GoodRun(g, T, R, AgbWrite(M3dRegs[7], size % LoSize), R)
      /\ GoodRun(g, T, R, AgbWrite(M3dRegs[8], 0), R)
      /\ GoodRun(g, T, R, AgbWrite(M3dRegs[1], 1), R)
      /\ GoodRun(g, T, R, AgbWrite(M3dRegs[2], 0), R)
  BY <1>2, <1>3, <1>4
<1>6. GoodRun(g, T, R, AgbWrite(M3dRegs[3], (2 * a) % LoSize)
    \o AgbWrite(M3dRegs[4], (2 * a) \div LoSize)
    \o AgbWrite(M3dRegs[5], 1) \o AgbWrite(M3dRegs[6], 1)
    \o AgbWrite(M3dRegs[7], size % LoSize) \o AgbWrite(M3dRegs[8], 0)
    \o AgbWrite(M3dRegs[1], 1) \o AgbWrite(M3dRegs[2], 0), R)
  BY <1>5, ThenBack
<1>7. GoodRun(g, T, R, << PaDrive, HiDrive, PaOut(WinAt), HiClear, Low({"cs"}), PaOut(0),
        HiClear, PaRelease >>, Page(au, q))
  BY M3dWindowRun DEF R
<1>8. GoodRun(g, T, R, M3dOpen(a, size), Page(au, q))
  BY <1>6, <1>7, Then DEF M3dOpen
<1> QED
  BY <1>8 DEF R

(* The clock behind GPIO. *)
LEMMA RtcSendRun ==
  ASSUME NEW g \in AgbKinds, NEW T, NEW au \in Levels, NEW q \in Polled, NEW bits \in Seq({0, 1})
  PROVE  GoodRun(g, T, Rest(g, au, q), RtcSend(bits), Rest(g, au, q))
<1> DEFINE n == Len(bits)
           R == Rest(g, au, q)
           sio(i) == 2 * bits[i - 1 + 1]
           ss == [i \in 1 .. n |->
                    AgbWrite(RtcData, sio(i) + 4) \o AgbWrite(RtcData, sio(i) + 4)
                      \o AgbWrite(RtcData, sio(i) + 4) \o AgbWrite(RtcData, sio(i) + 5)]
<1>1. RtcSend(bits) = FlattenSeq(ss)
  BY DEF RtcSend, Loop
<1>2. n \in Int
  OBVIOUS
<1>3. ASSUME NEW i \in 1 .. n PROVE GoodRun(g, T, R, ss[i], R)
  <2>1. i - 1 + 1 = i
    OBVIOUS
  <2>2. bits[i] \in {0, 1}
    OBVIOUS
  <2>3. sio(i) \in {0, 2}
    BY <2>1, <2>2
  <2>4. sio(i) + 4 \in 0 .. LoSize - 1 /\ sio(i) + 5 \in 0 .. LoSize - 1 /\ RtcData \in Nat
    <3>1. \A v \in 4 .. 7 : v \in 0 .. LoSize - 1
      <4>1. LoSize \in Nat /\ LoSize > 7
        BY RegAssumption, BusAssumption
      <4> QED
        BY <4>1
    <3>2. sio(i) + 4 \in 4 .. 7 /\ sio(i) + 5 \in 4 .. 7
      BY <2>3
    <3> QED
      BY <3>1, <3>2, RegAssumption
  <2> HIDE DEF sio
  <2>5. GoodRun(g, T, R, AgbWrite(RtcData, sio(i) + 4), R)
        /\ GoodRun(g, T, R, AgbWrite(RtcData, sio(i) + 5), R)
    BY <2>4, AgbWriteRun
  <2> HIDE DEF R
  <2> QED
    BY <2>5, ThenBack
<1>4. ss = [i \in 1 .. n |-> ss[i]]
  OBVIOUS
<1>5. R \in Mode /\ Calm(g, R)
  BY RestIs
<1> HIDE DEF ss, n, R
<1>6. GoodRun(g, T, R, FlattenSeq(ss), R)
  BY <1>2, <1>3, <1>4, <1>5, LoopRun
<1> QED
  BY <1>1, <1>6 DEF R

(* A byte from the clock. *)
LEMMA RtcRecvRun ==
  ASSUME NEW g \in AgbKinds, NEW T, NEW au \in Levels, NEW q \in Polled
  PROVE  GoodRun(g, T, Rest(g, au, q), RtcRecv, Rest(g, au, q))
<1> DEFINE R == Rest(g, au, q)
           tt == [k \in 1 .. 5 |-> AgbWrite(RtcData, 4)]
           ss == [i \in 1 .. RtcBits |-> FlattenSeq(tt) \o AgbWrite(RtcData, 5) \o Peek(RtcData)]
<1>1. RtcRecv = FlattenSeq(ss)
  BY DEF RtcRecv, Loop
<1>2. RtcBits \in Int /\ RtcData \in Nat /\ 4 \in 0 .. LoSize - 1 /\ 5 \in 0 .. LoSize - 1
  BY RegAssumption, BusAssumption
<1>3. R \in Mode /\ Calm(g, R)
  BY RestIs
<1>4. GoodRun(g, T, R, AgbWrite(RtcData, 4), R) /\ GoodRun(g, T, R, AgbWrite(RtcData, 5), R)
      /\ GoodRun(g, T, R, Peek(RtcData), R)
  BY <1>2, AgbWriteRun, PeekRun
<1>5. tt = [k \in 1 .. 5 |-> tt[k]] /\ \A k \in 1 .. 5 : tt[k] = AgbWrite(RtcData, 4)
  OBVIOUS
<1>6. ss = [i \in 1 .. RtcBits |-> ss[i]]
      /\ \A i \in 1 .. RtcBits : ss[i] = FlattenSeq(tt) \o AgbWrite(RtcData, 5) \o Peek(RtcData)
  OBVIOUS
<1> HIDE DEF ss, tt, R
<1>7. GoodRun(g, T, R, FlattenSeq(tt), R)
  <2>1. 5 \in Int
    OBVIOUS
  <2> QED
    BY <2>1, <1>3, <1>4, <1>5, LoopRun
<1>8. GoodRun(g, T, R, FlattenSeq(tt) \o AgbWrite(RtcData, 5) \o Peek(RtcData), R)
  BY <1>4, <1>7, ThenBack
<1>9. GoodRun(g, T, R, FlattenSeq(ss), R)
  BY <1>2, <1>3, <1>6, <1>8, LoopRun
<1> QED
  BY <1>1, <1>9 DEF R

(* The clock's status and its date. *)
LEMMA RtcReadStores ==
  ASSUME NEW g \in AgbKinds, NEW T, NEW au \in Levels, NEW q \in Polled
  PROVE  GoodRun(g, T, Rest(g, au, q), RtcRead(RtcStatus, RtcDate, DateBytes), Rest(g, au, q))
<1> DEFINE R == Rest(g, au, q)
           ss == [j \in 1 .. DateBytes |-> RtcRecv]
<1>1. RtcRead(RtcStatus, RtcDate, DateBytes) =
        RtcBegin(RtcStatus) \o RtcRecv \o RtcEnd \o RtcBegin(RtcDate) \o FlattenSeq(ss) \o RtcEnd
  BY DEF RtcRead, Loop
<1>2. /\ RtcData \in Nat /\ RtcCtrl \in Nat /\ RtcDir \in Nat /\ DateBytes \in Int
      /\ RtcStatus \in Seq({0, 1}) /\ RtcDate \in Seq({0, 1})
      /\ \A v \in {0, 1, 5, 7} : v \in 0 .. LoSize - 1
  BY RegAssumption, BusAssumption, CartAssumption
<1>3. R \in Mode /\ Calm(g, R)
  BY RestIs
<1>4. /\ GoodRun(g, T, R, AgbWrite(RtcCtrl, 1), R) /\ GoodRun(g, T, R, AgbWrite(RtcCtrl, 0), R)
      /\ GoodRun(g, T, R, AgbWrite(RtcData, 1), R) /\ GoodRun(g, T, R, AgbWrite(RtcData, 5), R)
      /\ GoodRun(g, T, R, AgbWrite(RtcDir, 7), R) /\ GoodRun(g, T, R, AgbWrite(RtcDir, 5), R)
  BY <1>2, AgbWriteRun
<1>5. GoodRun(g, T, R, RtcSend(RtcStatus), R) /\ GoodRun(g, T, R, RtcSend(RtcDate), R)
      /\ GoodRun(g, T, R, RtcRecv, R)
  BY <1>2, RtcSendRun, RtcRecvRun
<1>6. ss = [j \in 1 .. DateBytes |-> ss[j]] /\ \A j \in 1 .. DateBytes : ss[j] = RtcRecv
  OBVIOUS
<1> HIDE DEF ss, R
<1>7. GoodRun(g, T, R, RtcBegin(RtcStatus), R) /\ GoodRun(g, T, R, RtcBegin(RtcDate), R)
      /\ GoodRun(g, T, R, RtcEnd, R)
  BY <1>4, <1>5, ThenBack DEF RtcBegin, RtcEnd
<1>8. GoodRun(g, T, R, FlattenSeq(ss), R)
  BY <1>2, <1>3, <1>5, <1>6, LoopRun
<1>9. GoodRun(g, T, R, RtcRead(RtcStatus, RtcDate, DateBytes), R)
  BY <1>1, <1>5, <1>7, <1>8, ThenBack
<1> QED
  BY <1>9 DEF R

(* Reads on the DMG bus. *)
LEMMA DmgReadGood ==
  ASSUME NEW g \in DmgKinds, NEW T, NEW au \in Levels, NEW q \in Polled, NEW addr \in Nat,
         NEW n \in Int, NEW method, NEW csPulse
  PROVE  GoodRun(g, T, Rest(g, au, q), DmgRead(addr, n, method, csPulse, SampleHi), Rest(g, au, q))
<1> DEFINE a(i) == Lo(addr + (i - 1))
           D == Reading(au, q)
           ss == [i \in 1 .. n |->
                    IF csPulse THEN DmgCsCycle(a(i))
                    ELSE IF method \in {"A15", "SLOW_A15"} THEN DmgA15Cycle(a(i))
                    ELSE DmgRdCycle(a(i), SampleHi)]
<1>1. DmgRead(addr, n, method, csPulse, SampleHi) =
        << PaDrive, HiRelease, Low({"rd"}), Low({"clk"}) >> \o FlattenSeq(ss) \o << High({"rd"}) >>
  BY DEF DmgRead, Loop
<1>2. ASSUME NEW i \in 1 .. n PROVE GoodRun(g, T, D, ss[i], D)
  <2>1. addr + (i - 1) \in Nat
    OBVIOUS
  <2>2. a(i) \in 0 .. LoSize - 1
    BY <2>1, Halves
  <2> HIDE DEF a
  <2>3. GoodRun(g, T, D, DmgCsCycle(a(i)), D) /\ GoodRun(g, T, D, DmgA15Cycle(a(i)), D)
        /\ GoodRun(g, T, D, DmgRdCycle(a(i), SampleHi), D)
    BY <2>2, DmgCsCycleRun, DmgA15CycleRun, DmgRdCycleRun
  <2>4. ss[i] \in {DmgCsCycle(a(i)), DmgA15Cycle(a(i)), DmgRdCycle(a(i), SampleHi)}
    OBVIOUS
  <2> HIDE DEF ss, D
  <2> QED
    BY <2>3, <2>4
<1>3. ss = [i \in 1 .. n |-> ss[i]]
  OBVIOUS
<1>4. D \in Mode /\ Calm(g, D)
  BY DmgModes
<1> HIDE DEF ss, a, D
<1>5. GoodRun(g, T, D, FlattenSeq(ss), D)
  BY <1>2, <1>3, <1>4, LoopRun
<1>6. GoodRun(g, T, Rest(g, au, q),
              << PaDrive, HiRelease, Low({"rd"}), Low({"clk"}) >> \o FlattenSeq(ss), D)
  BY <1>5, DmgReadArmRun, Then DEF D
<1> QED
  BY <1>1, <1>6, RdHighRun, Then DEF D

(* The reads of do_dmg_read(), in grains, and of do_crc32(). *)
LEMMA DmgReadsRun ==
  ASSUME NEW g \in DmgKinds, NEW T, NEW au \in Levels, NEW q \in Polled, NEW a \in Nat,
         NEW len \in Nat, NEW method, NEW csPulse
  PROVE  GoodRun(g, T, Rest(g, au, q), DmgReadStores(a, len, method, csPulse), Rest(g, au, q))
<1> DEFINE R == Rest(g, au, q)
           n == (len + CartStep - 1) \div CartStep
           want(i) == Low2(CartStep, len - (i - 1) * CartStep)
           k(i) == (want(i) + PubGrain - 1) \div PubGrain
           tt(i) == [j \in 1 .. k(i) |->
                       DmgRead(a + (i - 1) * CartStep + (j - 1) * PubGrain,
                               Low2(PubGrain, want(i) - (j - 1) * PubGrain), method, csPulse,
                               SampleHi)]
           ss == [i \in 1 .. n |-> FlattenSeq(tt(i))]
<1>1. DmgReadStores(a, len, method, csPulse) = DmgSetup \o FlattenSeq(ss)
  BY DEF DmgReadStores, Loop
<1>2. CartStep \in Nat \ {0} /\ PubGrain \in Nat \ {0}
  BY CartAssumption
<1>3. n \in Int
  BY <1>2
<1>4. R \in Mode /\ Calm(g, R)
  BY RestIs
<1>5. ASSUME NEW i \in 1 .. n PROVE GoodRun(g, T, R, ss[i], R)
  <2>1. i - 1 \in Nat
    BY <1>3
  <2>2. (i - 1) * CartStep \in Nat
    BY <2>1, <1>2, NatTimes
  <2>3. want(i) \in Int
    BY <2>2, <1>2 DEF Low2
  <2> HIDE DEF want, n
  <2>4. k(i) \in Int
    BY <2>3, <1>2
  <2>5. ASSUME NEW j \in 1 .. k(i) PROVE GoodRun(g, T, R, tt(i)[j], R)
    <3>1. j - 1 \in Nat
      BY <2>4
    <3>2. (j - 1) * PubGrain \in Nat
      BY <3>1, <1>2, NatTimes
    <3>3. a + (i - 1) * CartStep + (j - 1) * PubGrain \in Nat
          /\ Low2(PubGrain, want(i) - (j - 1) * PubGrain) \in Int
      BY <3>2, <2>2, <2>3, <1>2 DEF Low2
    <3> HIDE DEF k
    <3>4. tt(i)[j] = DmgRead(a + (i - 1) * CartStep + (j - 1) * PubGrain,
                             Low2(PubGrain, want(i) - (j - 1) * PubGrain), method, csPulse,
                             SampleHi)
      OBVIOUS
    <3> HIDE DEF tt
    <3> QED
      BY <3>3, <3>4, DmgReadGood
  <2>6. tt(i) = [j \in 1 .. k(i) |-> tt(i)[j]]
    OBVIOUS
  <2> HIDE DEF k, R, tt
  <2>7. GoodRun(g, T, R, FlattenSeq(tt(i)), R)
    BY <1>4, <2>4, <2>5, <2>6, LoopRun
  <2> QED
    BY <2>7
<1>6. ss = [i \in 1 .. n |-> ss[i]]
  OBVIOUS
<1> HIDE DEF ss, n, tt, k, want, R
<1>7. GoodRun(g, T, R, FlattenSeq(ss), R)
  BY <1>3, <1>4, <1>5, <1>6, LoopRun
<1>8. GoodRun(g, T, R, DmgSetup, R)
  BY DmgSetupRun DEF R
<1>9. GoodRun(g, T, R, DmgReadStores(a, len, method, csPulse), R)
  BY <1>1, <1>7, <1>8, ThenBack
<1> QED
  BY <1>9 DEF R

(* A CRC over the DMG ROM. *)
LEMMA DmgCrcRun ==
  ASSUME NEW g \in DmgKinds, NEW T, NEW au \in Levels, NEW q \in Polled, NEW a \in Nat,
         NEW len \in Nat, NEW method
  PROVE  GoodRun(g, T, Rest(g, au, q), DmgCrcStores(a, len, method), Rest(g, au, q))
<1> DEFINE R == Rest(g, au, q)
           n == (len + ReplyBytes - 1) \div ReplyBytes
           ss == [i \in 1 .. n |->
                    DmgRead(a + (i - 1) * ReplyBytes, Low2(ReplyBytes, len - (i - 1) * ReplyBytes),
                            method, FALSE, SampleHi)]
<1>1. DmgCrcStores(a, len, method) = DmgSetup \o FlattenSeq(ss)
  BY DEF DmgCrcStores, Loop
<1>2. ReplyBytes \in Nat \ {0}
  BY CartAssumption
<1>3. n \in Int
  BY <1>2
<1>4. R \in Mode /\ Calm(g, R)
  BY RestIs
<1>5. ASSUME NEW i \in 1 .. n, NEW c, c = FALSE PROVE GoodRun(g, T, R, ss[i], R)
  <2>1. i - 1 \in Nat
    BY <1>3
  <2>2. (i - 1) * ReplyBytes \in Nat
    BY <2>1, <1>2, NatTimes
  <2>3. a + (i - 1) * ReplyBytes \in Nat /\ Low2(ReplyBytes, len - (i - 1) * ReplyBytes) \in Int
    BY <2>2, <1>2 DEF Low2
  <2> HIDE DEF n
  <2>4. ss[i] = DmgRead(a + (i - 1) * ReplyBytes, Low2(ReplyBytes, len - (i - 1) * ReplyBytes),
                        method, c, SampleHi)
    BY <1>5
  <2> HIDE DEF ss
  <2> QED
    BY <2>3, <2>4, DmgReadGood
<1>6. ss = [i \in 1 .. n |-> ss[i]]
  OBVIOUS
<1> HIDE DEF ss, n, R
<1>7. GoodRun(g, T, R, FlattenSeq(ss), R)
  BY <1>3, <1>4, <1>5, <1>6, LoopRun
<1>8. GoodRun(g, T, R, DmgSetup, R)
  BY DmgSetupRun DEF R
<1>9. GoodRun(g, T, R, DmgCrcStores(a, len, method), R)
  BY <1>1, <1>7, <1>8, ThenBack
<1> QED
  BY <1>9 DEF R

(* Writes on the DMG bus.  With the pulse on, /CS is low around the strobe; *)
(* with WR+RESET /CS2 is.                                                   *)
LEMMA DmgWriteRawRun ==
  ASSUME NEW g \in DmgKinds, NEW T, NEW au \in Levels, NEW q \in Polled, NEW a \in Nat,
         NEW v \in 0 .. HiSize - 1, NEW csPulse, NEW we, we = "AUDIO" => au = "high"
  PROVE  GoodRun(g, T, Rest(g, au, q), DmgWriteRaw(a, v, csPulse, we), Rest(g, au, q))
<1> DEFINE P(on, n) == Picked(au, on, n, q)
           one == IF csPulse THEN {"cs"} ELSE {}
           two == IF we = "WR_RESET" THEN one \cup {"cs2"} ELSE one
           n == IF csPulse /\ we # "AUDIO" THEN 1 ELSE 0
           arm == << High({"rd"}), High({"clk"}), PaOut(0), PaDrive, PaOut(Lo(a)), HiDrive,
                     HiClear, HiOr(v) >>
           strobe == << Low(StrobeOf(we)), Low({"clk"}), High({"clk"}), High(StrobeOf(we)) >>
<1>1. GoodRun(g, T, Rest(g, au, q), arm, P({}, 0))
  BY DmgWriteArmRun
<1>2. GoodRun(g, T, P({}, 0), If(csPulse, << Low({"cs"}) >>), P(one, 0))
  <2>1. CASE csPulse
    BY <2>1, CsLowRun DEF If
  <2>2. CASE ~csPulse
    <3>1. P({}, 0) \in Mode /\ Calm(g, P({}, 0))
      BY DEF Mode, Phases, Four, Frames, Polled, Levels, Live, Picked, Calm, Strobe, AgbKinds,
           DmgKinds
    <3> QED
      BY <2>2, <3>1, Skip, LeRefl DEF If
  <2> QED
    BY <2>1, <2>2
<1>3. GoodRun(g, T, P(one, 0), If(we = "WR_RESET", << Low({"cs2"}) >>), P(two, 0))
  <2>1. CASE we = "WR_RESET"
    BY <2>1, Cs2LowRun DEF If
  <2>2. CASE we # "WR_RESET"
    <3>1. P(one, 0) \in Mode /\ Calm(g, P(one, 0))
      BY DEF Mode, Phases, Four, Frames, Polled, Levels, Live, Picked, Calm, Strobe, AgbKinds,
           DmgKinds
    <3> QED
      BY <2>2, <3>1, Skip, LeRefl DEF If
  <2> QED
    BY <2>1, <2>2
<1>4. GoodRun(g, T, P(two, 0), strobe, P(two, n))
  <2>1. two \in {{}, {"cs"}, {"cs2"}, {"cs", "cs2"}} /\ ("cs" \in two <=> csPulse)
    <3>1. {"cs"} \cup {"cs2"} = {"cs", "cs2"} /\ {} \cup {"cs2"} = {"cs2"}
      OBVIOUS
    <3> QED
      BY <3>1
  <2> HIDE DEF two
  <2>2. CASE we = "AUDIO"
    BY <2>1, <2>2, AudioStrobeRun DEF StrobeOf
  <2>3. CASE we # "AUDIO"
    <3>1. GoodRun(g, T, P(two, 0), << Low({"wr"}), Low({"clk"}), High({"clk"}), High({"wr"}) >>,
                  P(two, IF "cs" \in two THEN 1 ELSE 0))
      BY <2>1, WrStrobeRun
    <3> QED
      BY <2>1, <2>3, <3>1 DEF StrobeOf
  <2> QED
    BY <2>2, <2>3
<1>5. GoodRun(g, T, P(two, n), If(we = "WR_RESET", << High({"cs2"}) >>), P(one, n))
  <2>1. CASE we = "WR_RESET"
    BY <2>1, Cs2HighRun DEF If
  <2>2. CASE we # "WR_RESET"
    <3>1. P(one, n) \in Mode /\ Calm(g, P(one, n))
      BY DEF Mode, Phases, Four, Frames, Polled, Levels, Live, Picked, Calm, Strobe, AgbKinds,
           DmgKinds
    <3> QED
      BY <2>2, <3>1, Skip, LeRefl DEF If
  <2> QED
    BY <2>1, <2>2
<1>6. GoodRun(g, T, P(one, n), If(csPulse, << High({"cs"}) >>), P({}, 0))
  <2>1. CASE csPulse
    BY <2>1, CsHighRun DEF If
  <2>2. CASE ~csPulse
    <3>1. P({}, 0) \in Mode /\ Calm(g, P({}, 0))
      BY DEF Mode, Phases, Four, Frames, Polled, Levels, Live, Picked, Calm, Strobe, AgbKinds,
           DmgKinds
    <3> QED
      BY <2>2, <3>1, Skip, LeRefl DEF If
  <2> QED
    BY <2>1, <2>2
<1>7. GoodRun(g, T, P({}, 0), << HiClear, HiRelease >>, Rest(g, au, q))
  <2>1. Le(P({}, 0), Loose(au, q))
    BY DEF Le, Picked, Loose, Live
  <2> QED
    BY <2>1, LetGoRun, LeRefl, WeakenRun
<1>8. DmgWriteRaw(a, v, csPulse, we) =
        arm \o If(csPulse, << Low({"cs"}) >>) \o If(we = "WR_RESET", << Low({"cs2"}) >>)
          \o strobe \o If(we = "WR_RESET", << High({"cs2"}) >>)
          \o If(csPulse, << High({"cs"}) >>) \o << HiClear, HiRelease >>
  BY DEF DmgWriteRaw
<1> HIDE DEF P, one, two, n, arm, strobe
<1> QED
  BY <1>1, <1>2, <1>3, <1>4, <1>5, <1>6, <1>7, <1>8, Then

(* The ordinary write: /WR, whatever the pin of the flash. *)
LEMMA DmgWriteRun ==
  ASSUME NEW g \in DmgKinds, NEW T, NEW au \in Levels, NEW q \in Polled, NEW a \in Nat,
         NEW v \in 0 .. HiSize - 1, NEW csPulse
  PROVE  GoodRun(g, T, Rest(g, au, q), DmgWrite(a, v, csPulse), Rest(g, au, q))
<1>1. \A we : we = "WR" => (we = "AUDIO" => au = "high")
  OBVIOUS
<1> QED
  BY <1>1, DmgWriteRawRun DEF DmgWrite

(* Two bytes of the cartridge's RAM. *)
LEMMA DmgSaveRun ==
  ASSUME NEW g \in DmgKinds, NEW T, NEW au \in Levels, NEW q \in Polled, NEW a \in Nat,
         NEW data \in [1 .. 2 -> 0 .. HiSize - 1]
  PROVE  GoodRun(g, T, Rest(g, au, q), Loop(2, LAMBDA i : DmgWrite(a + i, data[i + 1], TRUE)),
                 Rest(g, au, q))
<1> DEFINE R == Rest(g, au, q)
           ss == [i \in 1 .. 2 |-> DmgWrite(a + (i - 1), data[i - 1 + 1], TRUE)]
<1>1. Loop(2, LAMBDA i : DmgWrite(a + i, data[i + 1], TRUE)) = FlattenSeq(ss)
  BY DEF Loop
<1>2. ASSUME NEW i \in 1 .. 2, NEW c, c = TRUE PROVE GoodRun(g, T, R, ss[i], R)
  <2>1. a + (i - 1) \in Nat
    OBVIOUS
  <2>2. i - 1 + 1 = i /\ data[i] \in 0 .. HiSize - 1
    OBVIOUS
  <2>3. ss[i] = DmgWrite(a + (i - 1), data[i], c)
    BY <1>2, <2>2
  <2> HIDE DEF ss
  <2> QED
    BY <2>1, <2>2, <2>3, DmgWriteRun
<1>3. ss = [i \in 1 .. 2 |-> ss[i]] /\ 2 \in Int
  OBVIOUS
<1>4. R \in Mode /\ Calm(g, R)
  BY RestIs
<1> HIDE DEF ss, R
<1>5. GoodRun(g, T, R, FlattenSeq(ss), R)
  BY <1>2, <1>3, <1>4, LoopRun
<1> QED
  BY <1>1, <1>5 DEF R

(* Bursts leave the data lines driven. *)
LEMMA DmgBurstRun ==
  ASSUME NEW g \in DmgKinds, NEW T, NEW au \in Levels, NEW q \in Polled,
         NEW writes \in Seq(Nat \X (0 .. HiSize - 1))
  PROVE  GoodRun(g, T, Loose(au, q), DmgBurst(writes), Loose(au, q))
<1> DEFINE L == Loose(au, q)
           n == Len(writes)
           ss == [i \in 1 .. n |-> DmgWriteStockFlash(writes[i - 1 + 1][1], writes[i - 1 + 1][2])]
<1>1. DmgBurst(writes) = << High({"rd"}) >> \o FlattenSeq(ss)
  BY DEF DmgBurst, Loop
<1>2. ASSUME NEW i \in 1 .. n PROVE GoodRun(g, T, L, ss[i], L)
  <2>1. i - 1 + 1 = i
    OBVIOUS
  <2>2. writes[i] \in Nat \X (0 .. HiSize - 1)
    OBVIOUS
  <2>3. writes[i][1] \in Nat /\ writes[i][2] \in 0 .. HiSize - 1
    BY <2>2
  <2> QED
    BY <2>1, <2>3, StockRun
<1>3. ss = [i \in 1 .. n |-> ss[i]] /\ n \in Int
  OBVIOUS
<1>4. L \in Mode /\ Calm(g, L)
  BY DmgModes
<1>5. GoodRun(g, T, L, << High({"rd"}) >>, L)
  BY LooseRdHighRun
<1> HIDE DEF ss, L, n
<1>6. GoodRun(g, T, L, FlattenSeq(ss), L)
  BY <1>2, <1>3, <1>4, LoopRun
<1>7. GoodRun(g, T, L, DmgBurst(writes), L)
  BY <1>1, <1>5, <1>6, ThenBack
<1> QED
  BY <1>7 DEF L

(* A released bus may also be left driven, and a polled one is released. *)
LEMMA RestLoose ==
  ASSUME NEW g \in DmgKinds, NEW au \in Levels, NEW q \in Polled
  PROVE  Le(Rest(g, au, q), Loose(au, q))
  BY DEF Le, Rest, Loose, Live, DmgKinds

(* What is done after a poll that gave up begins at rest. *)
LEMMA TailRuns ==
  ASSUME NEW g \in DmgKinds, NEW T, NEW au \in Levels, NEW q \in Polled, NEW a \in Nat
  PROVE  /\ GoodRun(g, T, Rest(g, au, q), DmgBurstRelease, Rest(g, au, q))
         /\ GoodRun(g, T, Rest(g, au, q), BypassExit(a), Rest(g, au, q))
<1>1. GoodRun(g, T, Loose(au, q), DmgBurstRelease, Rest(g, au, q))
  BY LetGoRun DEF DmgBurstRelease
<1>2. << <<a, Cmd90>>, <<a, 0>> >> \in Seq(Nat \X (0 .. HiSize - 1))
  <2>1. Cmd90 \in 0 .. HiSize - 1 /\ 0 \in 0 .. HiSize - 1
    BY CartAssumption, BusAssumption
  <2>2. <<a, Cmd90>> \in Nat \X (0 .. HiSize - 1) /\ <<a, 0>> \in Nat \X (0 .. HiSize - 1)
    BY <2>1
  <2> QED
    BY <2>2, PairSeq
<1>3. GoodRun(g, T, Loose(au, q), BypassExit(a), Rest(g, au, q))
  BY <1>1, <1>2, DmgBurstRun, Then DEF BypassExit
<1> QED
  BY <1>1, <1>3, RestLoose, LeRefl, WeakenRun

(* The writes of a burst are addresses and values. *)
LEMMA WritesAre ==
  /\ \A a \in Nat, v \in 0 .. HiSize - 1 : <<a, v>> \in Nat \X (0 .. HiSize - 1)
  /\ Unlock1 \in Nat /\ Unlock2 \in Nat
  /\ \A v \in {CmdAA, Cmd55, CmdA0, Cmd20, Cmd25, Cmd29, Cmd90} : v \in 0 .. HiSize - 1
<1>1. \A a \in Nat, v \in 0 .. HiSize - 1 : <<a, v>> \in Nat \X (0 .. HiSize - 1)
  OBVIOUS
<1>2. Unlock1 \in Nat /\ Unlock2 \in Nat
  BY BusAssumption
<1>3. CmdAA \in 0 .. HiSize - 1 /\ Cmd55 \in 0 .. HiSize - 1 /\ CmdA0 \in 0 .. HiSize - 1
  BY BusAssumption
<1>4. Cmd20 \in 0 .. HiSize - 1 /\ Cmd25 \in 0 .. HiSize - 1 /\ Cmd29 \in 0 .. HiSize - 1
      /\ Cmd90 \in 0 .. HiSize - 1
  BY CartAssumption
<1> QED
  BY <1>1, <1>2, <1>3, <1>4

(* Three writes of a burst make a sequence. *)
LEMMA TripleSeq ==
  ASSUME NEW S, NEW x \in S, NEW y \in S, NEW z \in S
  PROVE  <<x, y, z>> \in Seq(S)
  OBVIOUS

(* Four writes of it make one. *)
LEMMA QuadSeq ==
  ASSUME NEW S, NEW x \in S, NEW y \in S, NEW z \in S, NEW w \in S
  PROVE  <<x, y, z, w>> \in Seq(S)
  OBVIOUS

(* One write makes one. *)
LEMMA SingleSeq == ASSUME NEW S, NEW x \in S PROVE <<x>> \in Seq(S)
  OBVIOUS

(* Two of them, one after the other, make one. *)
LEMMA SeqThen ==
  ASSUME NEW S, NEW p \in Seq(S), NEW r \in Seq(S)
  PROVE  p \o r \in Seq(S)
  OBVIOUS

(* One byte of the bypass: it leaves the poll's lines released. *)
LEMMA BypassByteRun ==
  ASSUME NEW g \in DmgKinds, NEW T, NEW au \in Levels, Rest(g, au, "no") \in T, NEW a \in Nat,
         NEW v \in 0 .. HiSize - 1
  PROVE  GoodRun(g, T, Loose(au, "no"), BypassByte(a, v), Rest(g, au, "no"))
<1>1. "no" \in Polled
  BY DEF Polled
<1>2. << <<a, CmdA0>>, <<a, v>> >> \in Seq(Nat \X (0 .. HiSize - 1))
  BY WritesAre, PairSeq
<1>3. GoodRun(g, T, Loose(au, "no"), DmgBurst(<< <<a, CmdA0>>, <<a, v>> >>), Loose(au, "no"))
  BY <1>1, <1>2, DmgBurstRun
<1>4. GoodRun(g, T, Loose(au, "no"), << PollOf("POLL_DMG", a) >>, Rest(g, au, "no"))
  BY PollDmgRun
<1> QED
  BY <1>3, <1>4, Then DEF BypassByte

(* Two bytes in unlock bypass. *)
LEMMA BypassRun ==
  ASSUME NEW g \in DmgKinds, NEW T, NEW au \in Levels, Rest(g, au, "no") \in T, NEW a \in Nat,
         NEW data \in [1 .. 2 -> 0 .. HiSize - 1]
  PROVE  GoodRun(g, T, Rest(g, au, "no"),
                 BypassEnter \o BypassByte(a, data[1]) \o BypassByte(a + 1, data[2])
                   \o BypassExit(a),
                 Rest(g, au, "no"))
<1> DEFINE R == Rest(g, au, "no")
           L == Loose(au, "no")
<1>1. "no" \in Polled /\ a + 1 \in Nat /\ data[1] \in 0 .. HiSize - 1 /\ data[2] \in 0 .. HiSize - 1
  BY DEF Polled
<1>2. << <<Unlock1, CmdAA>>, <<Unlock2, Cmd55>>,
         <<Unlock1, Cmd20>> >> \in Seq(Nat \X (0 .. HiSize - 1))
  BY WritesAre, TripleSeq
<1>3. GoodRun(g, T, L, BypassEnter, L)
  BY <1>1, <1>2, DmgBurstRun DEF BypassEnter
<1>4. Le(R, L)
  BY <1>1, RestLoose
<1>5. GoodRun(g, T, L, BypassByte(a, data[1]), R) /\ GoodRun(g, T, L, BypassByte(a + 1, data[2]), R)
  BY <1>1, BypassByteRun
<1>6. GoodRun(g, T, R, BypassExit(a), R)
  BY <1>1, TailRuns
<1> HIDE DEF R, L
<1>7. GoodRun(g, T, R, BypassEnter, L) /\ GoodRun(g, T, R, BypassByte(a + 1, data[2]), R)
  BY <1>3, <1>4, <1>5, LeRefl, WeakenRun
<1>8. GoodRun(g, T, R, BypassEnter \o BypassByte(a, data[1]), R)
  BY <1>5, <1>7, Then
<1>9. GoodRun(g, T, R, BypassEnter \o BypassByte(a, data[1]) \o BypassByte(a + 1, data[2])
                         \o BypassExit(a), R)
  BY <1>6, <1>7, <1>8, ThenBack
<1> QED
  BY <1>9 DEF R

(* A buffer of two. *)
LEMMA BufferRun ==
  ASSUME NEW g \in DmgKinds, NEW T, NEW au \in Levels, Rest(g, au, "no") \in T, NEW a \in Nat,
         NEW data \in [1 .. 2 -> 0 .. HiSize - 1]
  PROVE  GoodRun(g, T, Rest(g, au, "no"), DmgBufferStores(a, data), Rest(g, au, "no"))
<1> DEFINE W == Nat \X (0 .. HiSize - 1)
           fill == [i \in 1 .. Len(data) |-> <<a + i - 1, data[i]>>]
           head == << <<Unlock1, CmdAA>>, <<Unlock2, Cmd55>>, <<a, Cmd25>>, <<a, Len(data) - 1>> >>
           all == head \o fill \o << <<a, Cmd29>> >>
<1>1. "no" \in Polled /\ Len(data) = 2
  BY DEF Polled
<1>2. a + 2 - 1 \in Nat
  OBVIOUS
<1>3. "no" \in Polled /\ Len(data) = 2 /\ a + Len(data) - 1 \in Nat
  BY <1>1, <1>2
<1>4. 1 \in 0 .. HiSize - 1
  <2>1. HiSize \in Nat
    BY BusAssumption
  <2>2. HiSize > 1
    BY RegAssumption
  <2> QED
    BY <2>1, <2>2
<1>5. head \in Seq(W)
  BY <1>3, <1>4, WritesAre, QuadSeq
<1>6. fill \in Seq(W)
  <2>1. \A i \in 1 .. 2 : a + i - 1 \in Nat /\ data[i] \in 0 .. HiSize - 1
    OBVIOUS
  <2>2. \A i \in 1 .. 2 : <<a + i - 1, data[i]>> \in W
    BY <2>1, WritesAre
  <2> HIDE DEF W
  <2>3. fill \in [1 .. 2 -> W]
    BY <1>3, <2>2
  <2> QED
    BY <2>3
<1>7. << <<a, Cmd29>> >> \in Seq(W)
  BY WritesAre, SingleSeq
<1> HIDE DEF head, fill, W
<1>8. all \in Seq(W)
  BY <1>5, <1>6, <1>7, SeqThen
<1>9. DmgBufferStores(a, data) = DmgBurst(all) \o << PollOf("POLL_DMG", a + Len(data) - 1) >>
  BY DEF DmgBufferStores, head, fill
<1> HIDE DEF all
<1>10. GoodRun(g, T, Loose(au, "no"), DmgBurst(all), Loose(au, "no"))
  BY <1>3, <1>8, DmgBurstRun DEF W
<1>11. GoodRun(g, T, Loose(au, "no"), << PollOf("POLL_DMG", a + Len(data) - 1) >>,
               Rest(g, au, "no"))
  BY <1>3, PollDmgRun
<1>12. GoodRun(g, T, Loose(au, "no"), DmgBufferStores(a, data), Rest(g, au, "no"))
  BY <1>9, <1>10, <1>11, Then
<1> QED
  BY <1>3, <1>12, RestLoose, LeRefl, WeakenRun

(* The byte loop without the burst. *)
LEMMA UnlockByteRun ==
  ASSUME NEW g \in DmgKinds, NEW T, NEW au \in Levels, Rest(g, au, "no") \in T, NEW a \in Nat,
         NEW v \in 0 .. HiSize - 1, NEW pulse, st.we = "AUDIO" => au = "high"
  PROVE  GoodRun(g, T, Rest(g, au, "no"), DmgUnlockByte(a, v, pulse) \o DmgBurstRelease,
                 Rest(g, au, "no"))
<1> DEFINE R == Rest(g, au, "no")
<1>1. "no" \in Polled
  BY DEF Polled
<1>2. ASSUME NEW c, c = FALSE, NEW w \in Nat, NEW x \in 0 .. HiSize - 1
      PROVE  GoodRun(g, T, R, DmgWriteRaw(w, x, c, st.we), R)
  BY <1>1, DmgWriteRawRun
<1>3. \A w \in Nat, x \in 0 .. HiSize - 1 : GoodRun(g, T, R, DmgWriteRaw(w, x, FALSE, st.we), R)
  BY <1>2
<1>4. GoodRun(g, T, R, If(pulse, DmgPulseReset), R)
  <2>1. CASE pulse
    BY <1>1, <2>1, ResetRun DEF If, DmgPulseReset
  <2>2. CASE ~pulse
    BY <1>1, <2>2, RestIs, Skip, LeRefl DEF If
  <2> QED
    BY <2>1, <2>2
<1>5. GoodRun(g, T, R, << PollOf("POLL_DMG", a) >>, R)
  BY <1>1, PollDmgRun, RestLoose, LeRefl, WeakenRun
<1>6. GoodRun(g, T, R, DmgBurstRelease, R)
  BY <1>1, TailRuns
<1> HIDE DEF R
<1>7. /\ GoodRun(g, T, R, DmgWriteRaw(Unlock1, CmdAA, FALSE, st.we), R)
      /\ GoodRun(g, T, R, DmgWriteRaw(Unlock2, Cmd55, FALSE, st.we), R)
      /\ GoodRun(g, T, R, DmgWriteRaw(Unlock1, CmdA0, FALSE, st.we), R)
      /\ GoodRun(g, T, R, DmgWriteRaw(a, v, FALSE, st.we), R)
  BY <1>3, WritesAre
<1>8. GoodRun(g, T, R, DmgUnlockByte(a, v, pulse), R)
  BY <1>4, <1>5, <1>7, ThenBack DEF DmgUnlockByte
<1>9. GoodRun(g, T, R, DmgUnlockByte(a, v, pulse) \o DmgBurstRelease, R)
  BY <1>6, <1>8, ThenBack
<1> QED
  BY <1>9 DEF R

(* The pulses of CLK a host asks for. *)
LEMMA ClkRun ==
  ASSUME NEW g \in DmgKinds, NEW T, NEW au \in Levels, NEW q \in Polled
  PROVE  GoodRun(g, T, Rest(g, au, q), ClkPulses(2), Rest(g, au, q))
<1> DEFINE ss == [i \in 1 .. 2 |-> << Low({"clk"}), High({"clk"}) >>]
<1>1. ClkPulses(2) = FlattenSeq(ss)
  BY DEF ClkPulses, Loop
<1>2. ss = [i \in 1 .. 2 |-> ss[i]] /\ 2 \in Int
      /\ \A i \in 1 .. 2 : ss[i] = << Low({"clk"}), High({"clk"}) >>
  OBVIOUS
<1> HIDE DEF ss
<1>3. \A i \in 1 .. 2 : GoodRun(g, T, Rest(g, au, q), ss[i], Rest(g, au, q))
  BY <1>2, ClkTurn
<1> QED
  BY <1>1, <1>2, <1>3, RestIs, LoopRun

(* AUDIO as the write enable: its level goes up before its direction. *)
LEMMA SetWeRun ==
  ASSUME NEW g \in AgbKinds \cup DmgKinds, NEW T, NEW au \in Levels, NEW q \in Polled, NEW we
  PROVE  GoodRun(g, T, Rest(g, au, q), SetWePin(we), Rest(g, IF we = "AUDIO" THEN "high" ELSE "in",
                                                          q))
<1>1. CASE we = "AUDIO"
  <2>1. SetWePin(we) = << High({"audio"}) >> \o << Drive({"audio"}) >>
    BY <1>1 DEF SetWePin, If, AudioDir
  <2>2. GoodRun(g, T, Rest(g, au, q), << High({"audio"}) >>, Rest(g, "high", q))
    BY AudioUpRun
  <2>3. \A x : x = "high" => GoodRun(g, T, Rest(g, x, q), << Drive({"audio"}) >>, Rest(g, x, q))
    BY AudioOutRun
  <2> QED
    BY <1>1, <2>1, <2>2, <2>3, Then
<1>2. CASE we # "AUDIO"
  <2>1. SetWePin(we) = << >> \o << Release({"audio"}) >>
    BY <1>2 DEF SetWePin, If, AudioDir
  <2>2. GoodRun(g, T, Rest(g, au, q), << Release({"audio"}) >>, Rest(g, "in", q))
    BY AudioInRun
  <2>3. GoodRun(g, T, Rest(g, au, q), << >>, Rest(g, au, q))
    BY RestIs, LeRefl, Skip
  <2> QED
    BY <1>2, <2>1, <2>2, <2>3, Then
<1> QED
  BY <1>1, <1>2

(* Power. *)
LEMMA PowerOnRun ==
  ASSUME NEW g \in AgbKinds \cup DmgKinds, NEW T, NEW au, NEW bus \in {"live", "off", "dead"},
         NEW out \in BOOLEAN, NEW m,
         au = IF out THEN "high" ELSE "in",
         Le(m, At(bus, {}, IF bus = "live" THEN au ELSE "in", "any",
                  IF g \in DmgKinds THEN "in" ELSE "any",
                  "any", "rest", 0, "no"))
  PROVE  GoodRun(g, T, m, PowerOnStores(out), Rest(g, au, "no"))
<1> DEFINE a0 == IF bus = "live" THEN au ELSE "in"
           on == << Rail(1), High(Idle), Drive({"wr", "rd", "cs", "cs2"}) >>
<1>1. "no" \in Polled /\ au \in {"in", "high"} /\ a0 \in Levels /\ au \in {"high", a0}
      /\ (au = "high" \/ a0 = "in")
  BY DEF Polled, Levels
<1> HIDE DEF a0
<1>2. GoodRun(g, T, At(bus, {}, a0, "any", IF g \in DmgKinds THEN "in" ELSE "any", "any", "rest", 0,
                       "no"),
              on, Rest(g, au, "no"))
  BY <1>1, RailOnRun
<1>3. GoodRun(g, T, m, on, Rest(g, au, "no"))
  BY <1>2, LeRefl, WeakenRun DEF a0
<1>4. CASE out
  <2>1. GoodRun(g, T, Rest(g, au, "no"), << Drive({"audio"}) >>, Rest(g, au, "no"))
    BY <1>1, <1>4, AudioOutRun
  <2> QED
    BY <1>3, <1>4, <2>1, Then DEF PowerOnStores
<1>5. CASE ~out
  <2>1. GoodRun(g, T, Rest(g, au, "no"), << >>, Rest(g, au, "no"))
    BY <1>1, RestIs, LeRefl, Skip DEF Levels
  <2> QED
    BY <1>3, <1>5, <2>1, Then DEF PowerOnStores
<1> QED
  BY <1>4, <1>5

-----------------------------------------------------------------------------
(* What a mode says at once, and a store in front of a program. *)
LEMMA Now ==
  ASSUME NEW g, NEW T, NEW m, NEW p, NEW e, GoodRun(g, T, m, p, e)
  PROVE  \E x \in Mode : Le(m, x) /\ Calm(g, x) /\ (p = << >> => Le(x, e))
<1>1. PICK t \in [0 .. Len(p) -> Mode] : Le(m, t[0]) /\ Le(t[Len(p)], e)
                                          /\ \A k \in 0 .. Len(p) : Calm(g, t[k])
  BY DEF GoodRun
<1>2. Len(p) \in Nat /\ (p = << >> => Len(p) = 0)
  BY DEF GoodRun, Prog
<1>3. 0 \in 0 .. Len(p)
  BY <1>2
<1>4. t[0] \in Mode /\ Le(m, t[0]) /\ Calm(g, t[0])
  BY <1>1, <1>3
<1>5. p = << >> => Le(t[0], e)
  BY <1>1, <1>2
<1> QED
  BY <1>4, <1>5

(* A program that is over is where it had to end. *)
LEMMA Ended == ASSUME NEW g, NEW T, NEW m, NEW e, GoodRun(g, T, m, << >>, e) PROVE Le(m, e)
<1>1. \E x \in Mode : Le(m, x) /\ Le(x, e)
  BY Now
<1> QED
  BY <1>1, LeTrans

(* A store before a program. *)
LEMMA Before ==
  ASSUME NEW g, NEW T, NEW p, NEW m \in Mode, NEW n \in Mode, NEW e,
         p \in Prog, p # << >>, Calm(g, m), Calm(g, n),
         Ok(g, T, m, Head(p), n), GoodRun(g, T, n, Tail(p), e)
  PROVE  GoodRun(g, T, m, p, e)
<1>1. Head(p) \in StoreRec
  BY DEF Prog
<1>2. GoodRun(g, T, m, << Head(p) >>, n)
  BY <1>1, One
<1>3. GoodRun(g, T, m, << Head(p) >> \o Tail(p), e)
  BY <1>2, Then
<1>4. p = << Head(p) >> \o Tail(p)
  BY DEF Prog
<1> QED
  BY <1>3, <1>4

(* A check in place of a sample: the status poll's peeks. *)
LEMMA CheckedOk ==
  ASSUME NEW g \in AgbKinds, NEW T, NEW m, NEW n, Ok(g, T, m, SampleAd, n)
  PROVE  Ok(g, T, m, CheckAd, n)
<1>1. SampleAd.reg = "PA_PIN" /\ CheckAd.reg = "CHECK_AD" /\ g \notin DmgKinds
  BY DEF SampleAd, CheckAd, Store, AgbKinds, DmgKinds
<1>2. ~Strobe(g, m) /\ Le(m, n)
  BY <1>1 DEF Ok, Valued, Turned, Awaited, Checks
<1> QED
  BY <1>1, <1>2 DEF Ok, Checks

(* Checks in the place of samples: the program of a poll. *)
LEMMA CheckedRun ==
  ASSUME NEW g \in AgbKinds, NEW T, NEW m, NEW p, NEW e, GoodRun(g, T, m, p, e)
  PROVE  GoodRun(g, T, m, [i \in 1 .. Len(p) |-> IF p[i] = SampleAd THEN CheckAd ELSE p[i]], e)
<1> DEFINE r == [i \in 1 .. Len(p) |-> IF p[i] = SampleAd THEN CheckAd ELSE p[i]]
<1>1. PICK t \in [0 .. Len(p) -> Mode] :
        /\ Le(m, t[0]) /\ Le(t[Len(p)], e)
        /\ \A k \in 0 .. Len(p) : Calm(g, t[k])
        /\ \A k \in 1 .. Len(p) : Ok(g, T, t[k - 1], p[k], t[k])
  BY DEF GoodRun
<1>2. p \in Seq(StoreRec) /\ Len(p) \in Nat
  BY DEF GoodRun, Prog
<1>3. r \in Prog /\ Len(r) = Len(p)
  <2>1. \A i \in 1 .. Len(p) : r[i] \in StoreRec
    BY <1>2, Stores
  <2>2. r \in [1 .. Len(p) -> StoreRec]
    BY <2>1
  <2> HIDE DEF r
  <2> QED
    BY <1>2, <2>2 DEF Prog
<1>4. \A k \in 1 .. Len(p) : Ok(g, T, t[k - 1], r[k], t[k])
  <2> SUFFICES ASSUME NEW k \in 1 .. Len(p) PROVE Ok(g, T, t[k - 1], r[k], t[k])
    OBVIOUS
  <2>1. Ok(g, T, t[k - 1], p[k], t[k])
    BY <1>1
  <2>2. CASE p[k] = SampleAd
    <3>1. r[k] = CheckAd
      BY <2>2
    <3> HIDE DEF r
    <3> QED
      BY <2>1, <2>2, <3>1, CheckedOk
  <2>3. CASE p[k] # SampleAd
    <3>1. r[k] = p[k]
      BY <2>3
    <3> HIDE DEF r
    <3> QED
      BY <2>1, <3>1
  <2> QED
    BY <2>2, <2>3
<1> HIDE DEF r
<1>5. GoodRun(g, T, m, r, e)
  BY <1>1, <1>3, <1>4 DEF GoodRun
<1> QED
  BY <1>5 DEF r

(* What no store changes: only a poll's end resets q, and nothing but the *)
(* first idle store comes before a rail that was never on.                *)
LEMMA OkKeeps ==
  ASSUME NEW g, NEW T, NEW m \in Mode, NEW s, NEW n, Ok(g, T, m, s, n), s.reg \notin Polls
  PROVE  /\ n.bus \in {"boot", "dead"} => m.bus \in {"boot", "dead"}
         /\ n.q = m.q
         /\ s.reg \in Checks => (g \in DmgKinds => m.q = "first")
<1>1. CASE Valued(m, s, n)
  BY <1>1 DEF Valued, Le, Mode, Checks
<1>2. CASE Turned(m, s, n)
  BY <1>2 DEF Turned, Le, Mode, Checks
<1>3. CASE s.reg = "PB_CLR" /\ Lowered(g, m, s.ls, n)
  BY <1>3 DEF Lowered, Le, Mode, Checks
<1>4. CASE s.reg = "PB_OUT" /\ Raised(g, m, s.ls, n)
  <2>1. CsRaised(m).q = m.q /\ CsRaised(m).bus = m.bus /\ WrRaised(m).q = m.q
        /\ WrRaised(m).bus = m.bus
    BY DEF CsRaised, WrRaised, Mode
  <2> QED
    BY <1>4, <2>1 DEF Raised, Le, Mode, Checks
<1>5. CASE s.reg = "PB_DIR" /\ s.n = 1 /\ Driven(g, m, s.ls, n)
  BY <1>5 DEF Driven, Le, Mode, Checks
<1>6. CASE s.reg = "PB_DIR" /\ s.n = 0 /\ Released(g, m, s.ls, n)
  BY <1>6 DEF Released, Le, Mode, Checks
<1>7. CASE s.reg = "VCC_EN" /\ Switched(g, m, s.n, n)
  BY <1>7 DEF Switched, Le, Mode, Checks
<1>8. CASE s.reg \in {"PA_PIN", "PB_PIN", "AD0_PIN", "PAGE_WAIT"} /\ Le(m, n)
  BY <1>8 DEF Le, Checks
<1>9. CASE s.reg \in Checks /\ (g \in DmgKinds => m.q = "first") /\ Le(m, n)
  BY <1>9 DEF Le
<1>10. ~ Awaited(g, T, m, s, n)
  BY DEF Awaited, Polls
<1> QED
  BY <1>1, <1>2, <1>3, <1>4, <1>5, <1>6, <1>7, <1>8, <1>9, <1>10 DEF Ok

-----------------------------------------------------------------------------
(* AUDIO's level between commands: only audio_we drives it. *)
Au(s) == IF s.audioOut THEN "high" ELSE "in"

(* The mode a command leaves, by the state both sides keep after it. *)
End(g, s, h) ==
  IF s.page > 0 THEN Page(Au(s), "no")
  ELSE IF h.on THEN Rest(g, Au(s), "no")
  ELSE IF h.been THEN RestOff ELSE RestDead

(* fw_state_t, and what the host keeps. *)
States == [address : 0 .. MaxAddr + BufferSize, page : Nat, due : BOOLEAN, audioOut : BOOLEAN,
           we : {"WR", "AUDIO", "WR_RESET"}]
Hosts == [address : (0 .. MaxAddr + BufferSize) \cup {NoAt}, done : Nat, on : BOOLEAN,
          been : BOOLEAN, audio : BOOLEAN]

(* The device and the host agree on what both keep. *)
Agree(g, s, h) ==
  /\ s \in States /\ h \in Hosts
  /\ s.page = h.done /\ h.address \in {s.address, NoAt}
  /\ h.done > 0 => g = "agb_3d" /\ h.on /\ s.address + BufferSize \div 2 <= MaxAddr
  /\ g = "dmg_audio" => s.audioOut = h.audio
  /\ h.on => h.been

(* Between two pages of a 3D read the next is due. *)
Due(s, h) == h.done > 0 => s.due

(* The fields of every command, and the commands that change no state of theirs. *)
CmdFields == {"name", "st", "host", "tail", "polls", "got", "gaveUp"}
Readers == {"cart_read", "save_read", "eep_read", "dmg_read"}

(* The stores to come are in order from where the bus is, and so is the tail *)
(* from where it may begin.                                                  *)
InOrder(g, T, m, p, tail, e) ==
  GoodRun(g, T, m, p, e) /\ \A t \in T : GoodRun(g, {}, t, tail, e)

(* The two sides agree, before the command in hand and after it; a reader      *)
(* changes nothing the bus depends on.                                         *)
Sides ==
  /\ kind \in AgbKinds \cup DmgKinds
  /\ CmdFields \subseteq DOMAIN cmd
  /\ Agree(kind, st, host) /\ Due(st, host)
  /\ Agree(kind, cmd.st, cmd.host) /\ Due(cmd.st, cmd.host)
  /\ cmd.name = None => cmd.st = st /\ cmd.host = host /\ prog = << >>
  /\ cmd.name \in Readers => /\ cmd.st.page = st.page /\ cmd.st.audioOut = st.audioOut
                             /\ cmd.host.on = host.on /\ cmd.host.been = host.been

(* The inductive invariant: the bus is in a mode from which what is left of    *)
(* the command is in order, with the tail, to the mode the command ends in.    *)
IInv ==
  /\ Sides
  /\ \E m \in Mode, T \in SUBSET Mode :
       Fits(m) /\ InOrder(kind, T, m, prog, cmd.tail, End(kind, cmd.st, cmd.host))

(* AUDIO at the level the device keeps. *)
LEMMA AuIs == \A s \in States : Au(s) \in Levels /\ (Au(s) = "high" <=> s.audioOut)
  BY DEF Au, States, Levels

(* A command ends in a calm mode; after the first power-on the bus is not the dead one. *)
LEMMA EndIs ==
  ASSUME NEW g \in AgbKinds \cup DmgKinds, NEW s, NEW h, Agree(g, s, h)
  PROVE  /\ End(g, s, h) \in Mode /\ Calm(g, End(g, s, h)) /\ End(g, s, h).q = "no"
         /\ End(g, s, h).bus \in {"boot", "dead"} => ~h.been
<1>1. Au(s) \in Levels /\ "no" \in Polled
  BY AuIs DEF Agree, Polled
<1>2. s.page \in Nat /\ h.on \in BOOLEAN /\ h.been \in BOOLEAN /\ (h.on => h.been)
      /\ (s.page > 0 => g \in AgbKinds)
  BY DEF Agree, States, Hosts, AgbKinds
<1>3. \A x \in Levels : /\ Rest(g, x, "no") \in Mode /\ Calm(g, Rest(g, x, "no"))
                        /\ Rest(g, x, "no").q = "no" /\ Rest(g, x, "no").bus = "live"
  BY <1>1, RestIs DEF Rest, Live
<1>4. g \in AgbKinds => \A x \in Levels : /\ Page(x, "no") \in Mode /\ Calm(g, Page(x, "no"))
                                          /\ Page(x, "no").q = "no" /\ Page(x, "no").bus = "live"
  BY <1>1, AgbModes DEF Page, Live
<1>5. /\ RestOff \in Mode /\ Calm(g, RestOff) /\ RestOff.q = "no" /\ RestOff.bus = "off"
      /\ RestDead \in Mode /\ Calm(g, RestDead) /\ RestDead.q = "no" /\ RestDead.bus = "dead"
  BY DEF RestOff, RestDead, At, Mode, Phases, Four, Frames, Polled, Levels, Calm
<1> QED
  BY <1>1, <1>2, <1>3, <1>4, <1>5 DEF End

(* An unchanged mode, cartridge and register set fit in the next state. *)
LEMMA FitsNext ==
  ASSUME kind' = kind, NEW m, PinsFit(m, pins'), FrameFit(m, cart'),
         PollFit(m, cmd'.polls, cmd'.got),
         m.bus \in {"boot", "dead"} => ~host'.been
  PROVE  Fits(m)'
<1>1. PinsFit(m, pins)'
  BY DEF PinsFit, PinsType
<1>2. FrameFit(m, cart)'
  BY DEF FrameFit, IsCart, EepReading, EepSelected
<1>3. PollFit(m, cmd.polls, cmd.got)'
  BY DEF PollFit
<1> QED
  BY <1>1, <1>2, <1>3 DEF Fits

(* So does a program that is still in order. *)
LEMMA InOrderNext ==
  ASSUME kind' = kind, NEW T, NEW m,
         InOrder(kind, T, m, prog', cmd'.tail, End(kind, cmd'.st, cmd'.host))
  PROVE  InOrder(kind, T, m, prog, cmd.tail, End(kind, cmd.st, cmd.host))'
  BY DEF InOrder, GoodRun, End, Au

(* A step of the command in hand. *)
LEMMA CommandStep ==
  ASSUME IInv, prog # << >>, UNCHANGED <<kind, st, host>>,
         CmdFields \subseteq DOMAIN cmd', cmd'.name = cmd.name, cmd'.st = cmd.st,
         cmd'.host = cmd.host, cmd'.tail = cmd.tail,
         NEW m \in Mode, NEW T \in SUBSET Mode,
         PinsFit(m, pins'), FrameFit(m, cart'), PollFit(m, cmd'.polls, cmd'.got),
         m.bus \in {"boot", "dead"} => ~host.been,
         InOrder(kind, T, m, prog', cmd.tail, End(kind, cmd.st, cmd.host))
  PROVE  IInv'
<1>1. Fits(m)'
  BY FitsNext
<1>2. InOrder(kind, T, m, prog, cmd.tail, End(kind, cmd.st, cmd.host))'
  BY InOrderNext
<1>3. Sides'
  <2>1. cmd.name # None
    BY DEF IInv, Sides
  <2>2. Agree(kind, st, host)' /\ Due(st, host)'
    BY DEF IInv, Sides, Agree, Due
  <2>3. Agree(kind, cmd.st, cmd.host)' /\ Due(cmd.st, cmd.host)'
    BY DEF IInv, Sides, Agree, Due
  <2> QED
    BY <2>1, <2>2, <2>3 DEF IInv, Sides
<1> QED
  BY <1>1, <1>2, <1>3 DEF IInv

(* The command in hand, at the store to come. *)
LEMMA HeadIs ==
  ASSUME IInv, prog # << >>
  PROVE  \E m \in Mode, n \in Mode, T \in SUBSET Mode :
           /\ Fits(m) /\ Calm(kind, m) /\ Ok(kind, T, m, Head(prog), n) /\ Calm(kind, n)
           /\ InOrder(kind, T, n, Tail(prog), cmd.tail, End(kind, cmd.st, cmd.host))
           /\ prog \in Prog /\ Head(prog) \in StoreRec
<1>1. PICK m \in Mode, T \in SUBSET Mode :
        Fits(m) /\ InOrder(kind, T, m, prog, cmd.tail, End(kind, cmd.st, cmd.host))
  BY DEF IInv
<1> DEFINE e == End(kind, cmd.st, cmd.host)
<1>2. GoodRun(kind, T, m, prog, e) /\ \A t \in T : GoodRun(kind, {}, t, cmd.tail, e)
  BY <1>1 DEF InOrder
<1> HIDE DEF e
<1>3. PICK x \in Mode, n \in Mode :
        Le(m, x) /\ Calm(kind, x) /\ Ok(kind, T, x, Head(prog), n) /\ Calm(kind, n)
          /\ GoodRun(kind, T, n, Tail(prog), e)
  BY <1>2, FirstStore
<1>4. Fits(x)
  BY <1>1, <1>3, FitsLe
<1>5. prog \in Prog /\ Head(prog) \in StoreRec
  BY <1>2 DEF GoodRun, Prog
<1>6. InOrder(kind, T, n, Tail(prog), cmd.tail, e)
  BY <1>2, <1>3 DEF InOrder
<1> QED
  BY <1>3, <1>4, <1>5, <1>6 DEF e

(* The next store. *)
LEMMA PlayStep == ASSUME IInv, Play PROVE IInv'
<1>1. prog # << >> /\ Head(prog).reg \notin Polls
  BY DEF Play
<1>2. PICK m \in Mode, n \in Mode, T \in SUBSET Mode :
        /\ Fits(m) /\ Calm(kind, m) /\ Ok(kind, T, m, Head(prog), n) /\ Calm(kind, n)
        /\ InOrder(kind, T, n, Tail(prog), cmd.tail, End(kind, cmd.st, cmd.host))
        /\ prog \in Prog /\ Head(prog) \in StoreRec
  BY <1>1, HeadIs
<1> DEFINE s == Head(prog)
<1>3. /\ pins' = Put(pins, s)
      /\ cart' = CartThen(pins, Put(pins, s), cart)
      /\ cmd' = IF s.reg \in Checks THEN [cmd EXCEPT !.got = ~cart.chip.busy] ELSE cmd
      /\ prog' = Tail(prog) /\ UNCHANGED <<kind, st, host>>
  BY DEF Play, CartThen, Quiet
<1> HIDE DEF s
<1>4. kind \in AgbKinds \cup DmgKinds /\ CmdFields \subseteq DOMAIN cmd
  BY DEF IInv, Sides
<1>5. PinsFit(n, pins') /\ FrameFit(n, cart')
  BY <1>1, <1>2, <1>3, <1>4, StoreFits DEF Fits, s
<1>6. /\ n.bus \in {"boot", "dead"} => m.bus \in {"boot", "dead"}
      /\ n.q = m.q
      /\ s.reg \in Checks => (kind \in DmgKinds => m.q = "first")
  BY <1>1, <1>2, OkKeeps DEF s
<1>7. n.bus \in {"boot", "dead"} => ~host.been
  BY <1>2, <1>6 DEF Fits
<1>8. /\ CmdFields \subseteq DOMAIN cmd' /\ cmd'.name = cmd.name /\ cmd'.st = cmd.st
      /\ cmd'.host = cmd.host /\ cmd'.tail = cmd.tail /\ cmd'.polls = cmd.polls
      /\ cmd'.got = IF s.reg \in Checks THEN ~cart.chip.busy ELSE cmd.got
  BY <1>3, <1>4 DEF CmdFields
<1>9. PollFit(n, cmd'.polls, cmd'.got)
  <2>1. PollFit(m, cmd.polls, cmd.got)
    BY <1>2 DEF Fits
  <2>2. CASE s.reg \in Checks
    <3>1. cmd'.got = ~cart.chip.busy
      BY <1>8, <2>2
    <3>2. cmd'.got \in BOOLEAN
      BY <3>1
    <3> QED
      BY <1>6, <1>8, <2>1, <2>2, <3>2 DEF PollFit
  <2>3. CASE s.reg \notin Checks
    BY <1>6, <1>8, <2>1, <2>3 DEF PollFit
  <2> QED
    BY <2>2, <2>3
<1> QED
  BY <1>1, <1>2, <1>3, <1>5, <1>7, <1>8, <1>9, CommandStep

(* A poll's mode: only q may change until it ends. *)
LEMMA Repolled ==
  ASSUME IInv, NEW m \in Mode, Fits(m), NEW x \in Mode, NEW n, Le([m EXCEPT !.q = x.q], n),
         UNCHANGED <<kind, pins, cart, host>>, m.bus = "live",
         PollFit(x, cmd'.polls, cmd'.got)
  PROVE  PinsFit(n, pins') /\ FrameFit(n, cart') /\ PollFit(n, cmd'.polls, cmd'.got)
      /\ (n.bus \in {"boot", "dead"} => ~host.been)
<1> DEFINE y == [m EXCEPT !.q = x.q]
<1>1. /\ y.bus = m.bus /\ y.on = m.on /\ y.au = m.au /\ y.pa = m.pa /\ y.hi = m.hi /\ y.hv = m.hv
      /\ y.eep = m.eep /\ y.n = m.n /\ y.q = x.q
  BY DEF Mode
<1> HIDE DEF y
<1>2. PinsFit(y, pins) /\ FrameFit(y, cart)
  BY <1>1 DEF Fits, PinsFit, FrameFit
<1>3. PollFit(y, cmd'.polls, cmd'.got)
  BY <1>1 DEF PollFit
<1>4. Le(y, n)
  BY DEF y
<1>5. n.bus = "live"
  BY <1>1, <1>4 DEF Le
<1> QED
  BY <1>2, <1>3, <1>4, <1>5, PinsFitLe, FrameFitLe, PollFitLe

(* The only store of a poll is the poll. *)
LEMMA PollOk ==
  ASSUME NEW g, NEW T, NEW m \in Mode, NEW s, NEW n, Ok(g, T, m, s, n),
         s.reg \in Polls \ {"PAGE_WAIT"}
  PROVE  Awaited(g, T, m, s, n)
  BY DEF Ok, Valued, Turned, Polls, Checks

(* The save chip's poll. *)
LEMMA PollSaveStep == ASSUME IInv, PollSave PROVE IInv'
<1>1. prog # << >> /\ Head(prog).reg = "POLL_SAVE" /\ UNCHANGED <<kind, pins, cart, st, host>>
  BY DEF PollSave
<1>2. PICK m \in Mode, n \in Mode, T \in SUBSET Mode :
        /\ Fits(m) /\ Calm(kind, m) /\ Ok(kind, T, m, Head(prog), n) /\ Calm(kind, n)
        /\ InOrder(kind, T, n, Tail(prog), cmd.tail, End(kind, cmd.st, cmd.host))
        /\ prog \in Prog /\ Head(prog) \in StoreRec
  BY <1>1, HeadIs
<1> DEFINE au == m.au
           S == Aimed(au, "any", "no")
<1>3. /\ kind = "agb_flash" /\ m.bus = "live" /\ m.on = {} /\ m.eep = "rest" /\ m.n = 0
      /\ m.au \in Levels
      /\ m.pa = "out" /\ (m.q = "no" \/ (m.hi = "in" /\ m.q \in {"first", "more"}))
      /\ Le([m EXCEPT !.hi = "any", !.hv = "any", !.q = "no"], n)
  <2>1. Awaited(kind, T, m, Head(prog), n)
    BY <1>1, <1>2, PollOk DEF Polls
  <2> QED
    BY <1>1, <2>1 DEF Awaited
<1>4. Le(S, n)
  BY <1>3 DEF Le, Aimed, Live, Mode
<1>5. CmdFields \subseteq DOMAIN cmd /\ kind \in AgbKinds
  BY <1>3 DEF IInv, Sides, AgbKinds
<1>6. PollFit(m, cmd.polls, cmd.got)
  BY <1>2 DEF Fits
<1>7. CASE cmd.got \/ cmd.polls = PollCap
  <2>1. prog' = Tail(prog) /\ cmd' = [cmd EXCEPT !.polls = 0, !.got = FALSE]
    BY <1>7 DEF PollSave, PollEnds
  <2>2. /\ CmdFields \subseteq DOMAIN cmd' /\ cmd'.name = cmd.name /\ cmd'.st = cmd.st
        /\ cmd'.host = cmd.host /\ cmd'.tail = cmd.tail /\ cmd'.polls = 0 /\ cmd'.got = FALSE
    BY <2>1, <1>5 DEF CmdFields
  <2>3. S \in Mode /\ S.q = "no"
    BY <1>3, <1>5, AgbModes DEF Polled, Aimed, Live
  <2>4. PollFit(S, cmd'.polls, cmd'.got)
    <3>1. PollCap \in Nat
      BY CartAssumption
    <3>2. 0 \in 0 .. PollCap
      BY <3>1
    <3>3. cmd'.polls \in 0 .. PollCap /\ cmd'.got \in BOOLEAN /\ ~cmd'.got /\ cmd'.polls = 0
      BY <2>2, <3>2
    <3> QED
      BY <2>3, <3>3 DEF PollFit
  <2>5. Le([m EXCEPT !.q = S.q], S)
    BY <1>3 DEF Le, Aimed, Live, Mode
  <2> HIDE DEF S
  <2>6. PinsFit(S, pins') /\ FrameFit(S, cart') /\ PollFit(S, cmd'.polls, cmd'.got)
        /\ (S.bus \in {"boot", "dead"} => ~host.been)
    BY <1>1, <1>2, <1>3, <2>3, <2>4, <2>5, Repolled
  <2>7. InOrder(kind, T, S, Tail(prog), cmd.tail, End(kind, cmd.st, cmd.host))
    BY <1>2, <1>4, LeRefl, WeakenRun DEF InOrder
  <2> QED
    BY <1>1, <2>1, <2>2, <2>3, <2>6, <2>7, CommandStep
<1>8. CASE ~cmd.got /\ cmd.polls # PollCap
  <2> DEFINE a == Head(prog).n
             h == IF m.q = "no" THEN "any" ELSE "in"
             q == IF m.q = "no" THEN "first" ELSE "more"
             B == Aimed(au, h, q)
             I == Aimed(au, "in", q)
  <2>1. prog' = SramRead(a, 1, CheckHi) \o prog /\ cmd' = [cmd EXCEPT !.polls = @ + 1]
    BY <1>8 DEF PollSave, PollAgain
  <2>2. /\ CmdFields \subseteq DOMAIN cmd' /\ cmd'.name = cmd.name /\ cmd'.st = cmd.st
        /\ cmd'.host = cmd.host /\ cmd'.tail = cmd.tail /\ cmd'.polls = cmd.polls + 1
        /\ cmd'.got = cmd.got
    BY <2>1, <1>5 DEF CmdFields
  <2>3. B \in Mode /\ Calm(kind, B) /\ I \in Mode /\ Calm(kind, I) /\ B.q = q
        /\ a \in Nat /\ q \in Polled /\ (h = "in" \/ q = "first") /\ h \in {"in", "any"}
    <3>1. q \in Polled /\ h \in {"in", "any"}
      BY DEF Polled
    <3>2. B \in Mode /\ Calm(kind, B) /\ I \in Mode /\ Calm(kind, I)
      BY <1>3, <1>5, <3>1, AgbModes
    <3> QED
      BY <1>2, <3>1, <3>2 DEF Aimed, Live, StoreRec
  <2>4. PollFit(B, cmd'.polls, cmd'.got)
    <3>1. PollCap \in Nat
      BY CartAssumption
    <3> QED
      BY <1>3, <1>6, <1>8, <2>2, <2>3, <3>1 DEF PollFit
  <2>5. Le([m EXCEPT !.q = B.q], B)
    BY <1>3, <2>3 DEF Le, Aimed, Live, Mode
  <2>6. Ok(kind, T, I, Head(prog), n)
    <3>1. Le([I EXCEPT !.hi = "any", !.hv = "any", !.q = "no"], n)
      BY <1>4 DEF Le, Aimed, Live
    <3>2. /\ I.bus = "live" /\ I.on = {} /\ I.eep = "rest" /\ I.n = 0 /\ I.au \in Levels
          /\ I.pa = "out"
          /\ I.hi = "in" /\ I.q \in {"first", "more"}
      BY <1>3 DEF Aimed, Live
    <3> HIDE DEF I
    <3>3. Awaited(kind, T, I, Head(prog), n)
      BY <1>1, <1>3, <3>1, <3>2 DEF Awaited
    <3>4. ~Strobe(kind, I)
      BY <1>5, <3>2 DEF Strobe, AgbKinds
    <3> QED
      BY <3>3, <3>4 DEF Ok
  <2>7. GoodRun(kind, T, B, SramRead(a, 1, CheckHi), I)
    BY <1>3, <1>5, <2>3, SramPollRun
  <2> HIDE DEF I, B, h, q, a
  <2>8. PinsFit(B, pins') /\ FrameFit(B, cart') /\ PollFit(B, cmd'.polls, cmd'.got)
        /\ (B.bus \in {"boot", "dead"} => ~host.been)
    BY <1>1, <1>2, <1>3, <2>3, <2>4, <2>5, Repolled
  <2>9. InOrder(kind, T, B, prog', cmd.tail, End(kind, cmd.st, cmd.host))
    <3> DEFINE e == End(kind, cmd.st, cmd.host)
    <3>1. GoodRun(kind, T, n, Tail(prog), e) /\ \A t \in T : GoodRun(kind, {}, t, cmd.tail, e)
      BY <1>2 DEF InOrder
    <3> HIDE DEF e
    <3>2. GoodRun(kind, T, I, prog, e)
      BY <1>1, <1>2, <2>3, <2>6, <3>1, Before
    <3>3. GoodRun(kind, T, B, SramRead(a, 1, CheckHi) \o prog, e)
      BY <2>7, <3>2, Then
    <3> QED
      BY <2>1, <3>1, <3>3 DEF InOrder, e
  <2> QED
    BY <1>1, <2>2, <2>3, <2>8, <2>9, CommandStep
<1>9. cmd.got \in BOOLEAN
  BY <1>6 DEF PollFit
<1> QED
  BY <1>7, <1>8, <1>9

(* The poll of a flash chip on the ROM bus. *)
LEMMA PollRomStep == ASSUME IInv, PollRom PROVE IInv'
<1> DEFINE a == Head(prog).n
           peek == [i \in 1 .. Len(Peek(a)) |->
                      IF Peek(a)[i] = SampleAd THEN CheckAd ELSE Peek(a)[i]]
<1>1. /\ prog # << >> /\ Head(prog).reg = "POLL_ROM" /\ UNCHANGED <<kind, pins, cart, st, host>>
      /\ CASE cmd.got -> PollEnds(Tail(prog))
           [] ~cmd.got /\ cmd.polls = 1 ->
                PollGivesUp(<< >>) \/ (prog' = peek \o prog /\ cmd' = [cmd EXCEPT !.polls = 0])
           [] OTHER -> PollAgain(peek)
  BY DEF PollRom
<1>2. PICK m \in Mode, n \in Mode, T \in SUBSET Mode :
        /\ Fits(m) /\ Calm(kind, m) /\ Ok(kind, T, m, Head(prog), n) /\ Calm(kind, n)
        /\ InOrder(kind, T, n, Tail(prog), cmd.tail, End(kind, cmd.st, cmd.host))
        /\ prog \in Prog /\ Head(prog) \in StoreRec
  BY <1>1, HeadIs
<1> DEFINE au == m.au
           R == Rest(kind, au, "no")
           F == Rest(kind, au, "first")
<1>3. /\ kind = "agb_flash" /\ m.bus = "live" /\ m.on = {} /\ m.eep = "rest" /\ m.n = 0
      /\ m.au \in Levels
      /\ m.q \in {"no", "first"} /\ R \in T /\ Le(R, n)
  <2>1. Awaited(kind, T, m, Head(prog), n)
    BY <1>1, <1>2, PollOk DEF Polls
  <2> QED
    BY <1>1, <2>1 DEF Awaited
<1>4. CmdFields \subseteq DOMAIN cmd /\ kind \in AgbKinds /\ kind \notin DmgKinds
  BY <1>3 DEF IInv, Sides, AgbKinds, DmgKinds
<1>5. PollFit(m, cmd.polls, cmd.got) /\ PollCap \in Nat
  BY <1>2, CartAssumption DEF Fits
<1>6. /\ R \in Mode /\ Calm(kind, R) /\ F \in Mode /\ Calm(kind, F) /\ "no" \in Polled
      /\ "first" \in Polled
      /\ R.q = "no" /\ F.q = "first" /\ a \in Nat
  <2>1. "no" \in Polled /\ "first" \in Polled
    BY DEF Polled
  <2> QED
    BY <1>2, <1>3, <1>4, <2>1, RestIs DEF Rest, Live, StoreRec
<1>7. 0 \in 0 .. PollCap
  BY <1>5
<1>8. Le([m EXCEPT !.q = R.q], R) /\ Le([m EXCEPT !.q = F.q], F)
  <2>1. ASSUME NEW q PROVE Le([m EXCEPT !.q = q], Rest(kind, au, q))
    BY <1>3, <1>4 DEF Le, Rest, Live, Mode
  <2> QED
    BY <1>6, <2>1
<1> DEFINE e == End(kind, cmd.st, cmd.host)
<1>9. GoodRun(kind, T, n, Tail(prog), e) /\ \A t \in T : GoodRun(kind, {}, t, cmd.tail, e)
  BY <1>2 DEF InOrder
<1>10. \A q \in {"no", "first"} : GoodRun(kind, T, Rest(kind, au, q), peek \o prog, e)
  <2> SUFFICES ASSUME NEW q \in {"no", "first"}
               PROVE  GoodRun(kind, T, Rest(kind, au, q), peek \o prog, e)
    OBVIOUS
  <2> DEFINE Q == Rest(kind, au, q)
  <2>1. q \in Polled
    BY <1>6
  <2>2. Q \in Mode /\ Calm(kind, Q) /\ GoodRun(kind, T, Q, Peek(a), Q)
    BY <1>3, <1>4, <1>6, <2>1, RestIs, PeekRun
  <2>3. /\ Q.bus = "live" /\ Q.on = {} /\ Q.eep = "rest" /\ Q.n = 0 /\ Q.au = au /\ Q.q = q
    BY DEF Rest, Live
  <2>4. ~Strobe(kind, Q)
    BY <1>4, <2>3 DEF Strobe
  <2>5. Awaited(kind, T, Q, Head(prog), n)
    <3> HIDE DEF Q
    <3> QED
      BY <1>1, <1>3, <2>3 DEF Awaited
  <2> HIDE DEF Q, peek, e
  <2>6. Ok(kind, T, Q, Head(prog), n)
    BY <2>4, <2>5 DEF Ok
  <2>7. GoodRun(kind, T, Q, prog, e)
    BY <1>1, <1>2, <1>9, <2>2, <2>6, Before
  <2>8. GoodRun(kind, T, Q, peek, Q)
    BY <1>4, <2>2, CheckedRun DEF peek
  <2>9. GoodRun(kind, T, Q, peek \o prog, e)
    BY <2>7, <2>8, Then
  <2> QED
    BY <2>9 DEF Q
<1> HIDE DEF e, peek
<1>11. CASE cmd.got
  <2>1. prog' = Tail(prog) /\ cmd' = [cmd EXCEPT !.polls = 0, !.got = FALSE]
    BY <1>1, <1>11 DEF PollEnds
  <2>2. /\ CmdFields \subseteq DOMAIN cmd' /\ cmd'.name = cmd.name /\ cmd'.st = cmd.st
        /\ cmd'.host = cmd.host /\ cmd'.tail = cmd.tail /\ cmd'.polls = 0 /\ cmd'.got = FALSE
    BY <2>1, <1>4 DEF CmdFields
  <2>3. cmd'.polls \in 0 .. PollCap /\ cmd'.got \in BOOLEAN
    BY <1>5, <1>7, <2>2
  <2>4. PollFit(R, cmd'.polls, cmd'.got)
    BY <1>6, <2>2, <2>3 DEF PollFit
  <2>5. Le([m EXCEPT !.q = R.q], R)
    BY <1>8
  <2> HIDE DEF R
  <2>6. PinsFit(R, pins') /\ FrameFit(R, cart') /\ PollFit(R, cmd'.polls, cmd'.got)
        /\ (R.bus \in {"boot", "dead"} => ~host.been)
    BY <1>1, <1>2, <1>3, <1>6, <2>4, <2>5, Repolled
  <2>7. InOrder(kind, T, R, Tail(prog), cmd.tail, End(kind, cmd.st, cmd.host))
    BY <1>2, <1>3, LeRefl, WeakenRun DEF InOrder
  <2> QED
    BY <1>1, <1>6, <2>1, <2>2, <2>6, <2>7, CommandStep
<1>12. CASE ~cmd.got /\ cmd.polls = 1 /\ PollGivesUp(<< >>)
  <2>1. cmd.tail \in Prog
    BY <1>3, <1>9 DEF GoodRun
  <2>2. prog' = cmd.tail /\ cmd' = [cmd EXCEPT !.polls = 0, !.got = FALSE, !.gaveUp = TRUE]
    BY <1>12, <2>1 DEF PollGivesUp, Prog
  <2>3. /\ CmdFields \subseteq DOMAIN cmd' /\ cmd'.name = cmd.name /\ cmd'.st = cmd.st
        /\ cmd'.host = cmd.host /\ cmd'.tail = cmd.tail /\ cmd'.polls = 0 /\ cmd'.got = FALSE
    BY <2>2, <1>4 DEF CmdFields
  <2>4. cmd'.polls \in 0 .. PollCap /\ cmd'.got \in BOOLEAN
    BY <1>5, <1>7, <2>3
  <2>5. PollFit(R, cmd'.polls, cmd'.got)
    BY <1>6, <2>3, <2>4 DEF PollFit
  <2>6. Le([m EXCEPT !.q = R.q], R)
    BY <1>8
  <2> HIDE DEF R
  <2>7. PinsFit(R, pins') /\ FrameFit(R, cart') /\ PollFit(R, cmd'.polls, cmd'.got)
        /\ (R.bus \in {"boot", "dead"} => ~host.been)
    BY <1>1, <1>2, <1>3, <1>6, <2>5, <2>6, Repolled
  <2>8. InOrder(kind, {}, R, cmd.tail, cmd.tail, End(kind, cmd.st, cmd.host))
    BY <1>3, <1>9 DEF InOrder, e
  <2>9. {} \in SUBSET Mode
    OBVIOUS
  <2> QED
    BY <1>1, <1>6, <2>2, <2>3, <2>7, <2>8, <2>9, CommandStep
<1>13. CASE ~cmd.got /\ cmd.polls = 1 /\ prog' = peek \o prog /\ cmd' = [cmd EXCEPT !.polls = 0]
  <2>1. /\ CmdFields \subseteq DOMAIN cmd' /\ cmd'.name = cmd.name /\ cmd'.st = cmd.st
        /\ cmd'.host = cmd.host /\ cmd'.tail = cmd.tail /\ cmd'.polls = 0 /\ cmd'.got = cmd.got
    BY <1>13, <1>4 DEF CmdFields
  <2>2. cmd'.polls \in 0 .. PollCap /\ cmd'.got \in BOOLEAN /\ ~cmd'.got
    BY <1>5, <1>13, <2>1 DEF PollFit
  <2>3. PollFit(R, cmd'.polls, cmd'.got)
    BY <1>6, <2>1, <2>2 DEF PollFit
  <2>4. Le([m EXCEPT !.q = R.q], R)
    BY <1>8
  <2>5. GoodRun(kind, T, R, prog', e)
    BY <1>10, <1>13
  <2> HIDE DEF R
  <2>6. PinsFit(R, pins') /\ FrameFit(R, cart') /\ PollFit(R, cmd'.polls, cmd'.got)
        /\ (R.bus \in {"boot", "dead"} => ~host.been)
    BY <1>1, <1>2, <1>3, <1>6, <2>3, <2>4, Repolled
  <2>7. InOrder(kind, T, R, prog', cmd.tail, End(kind, cmd.st, cmd.host))
    BY <1>9, <2>5 DEF InOrder, e
  <2> QED
    BY <1>1, <1>6, <2>1, <2>6, <2>7, CommandStep
<1>14. CASE ~cmd.got /\ cmd.polls # 1
  <2>1. prog' = peek \o prog /\ cmd' = [cmd EXCEPT !.polls = @ + 1]
    BY <1>1, <1>14 DEF PollAgain
  <2>2. /\ CmdFields \subseteq DOMAIN cmd' /\ cmd'.name = cmd.name /\ cmd'.st = cmd.st
        /\ cmd'.host = cmd.host /\ cmd'.tail = cmd.tail /\ cmd'.polls = cmd.polls + 1
        /\ cmd'.got = cmd.got
    BY <2>1, <1>4 DEF CmdFields
  <2>3. cmd.polls = 0
    BY <1>3, <1>5, <1>14 DEF PollFit
  <2>4. PollFit(F, cmd'.polls, cmd'.got)
    <3>1. PollCap > 0
      BY CartAssumption
    <3>2. cmd'.polls = 1 /\ 1 \in 0 .. PollCap /\ cmd'.got \in BOOLEAN
      BY <1>5, <2>2, <2>3, <3>1 DEF PollFit
    <3> QED
      BY <1>6, <3>2 DEF PollFit
  <2>5. Le([m EXCEPT !.q = F.q], F)
    BY <1>8
  <2>6. GoodRun(kind, T, F, prog', e)
    BY <1>10, <2>1
  <2> HIDE DEF F
  <2>7. PinsFit(F, pins') /\ FrameFit(F, cart') /\ PollFit(F, cmd'.polls, cmd'.got)
        /\ (F.bus \in {"boot", "dead"} => ~host.been)
    BY <1>1, <1>2, <1>3, <1>6, <2>4, <2>5, Repolled
  <2>8. InOrder(kind, T, F, prog', cmd.tail, End(kind, cmd.st, cmd.host))
    BY <1>9, <2>6 DEF InOrder, e
  <2> QED
    BY <1>1, <1>6, <2>2, <2>7, <2>8, CommandStep
<1>15. cmd.got \in BOOLEAN
  BY <1>5 DEF PollFit
<1>16. CASE ~cmd.got /\ cmd.polls = 1
  <2>1. PollGivesUp(<< >>) \/ (prog' = peek \o prog /\ cmd' = [cmd EXCEPT !.polls = 0])
    BY <1>1, <1>16
  <2> QED
    BY <1>12, <1>13, <1>16, <2>1
<1> QED
  BY <1>11, <1>14, <1>15, <1>16

(* The poll of a flash chip on the DMG bus. *)
LEMMA PollDmgStep == ASSUME IInv, PollDmg PROVE IInv'
<1> DEFINE a == Head(prog).n
           read == DmgPollRead(a)
<1>1. /\ prog # << >> /\ Head(prog).reg = "POLL_DMG" /\ UNCHANGED <<kind, pins, cart, st, host>>
      /\ CASE cmd.got -> PollEnds(DmgPollClose \o Tail(prog))
           [] ~cmd.got /\ cmd.polls = 0 -> PollAgain(DmgPollOpen \o read)
           [] OTHER -> \/ PollGivesUp(DmgPollClose)
                       \/ prog' = read \o prog /\ UNCHANGED cmd
  BY DEF PollDmg
<1>2. PICK m \in Mode, n \in Mode, T \in SUBSET Mode :
        /\ Fits(m) /\ Calm(kind, m) /\ Ok(kind, T, m, Head(prog), n) /\ Calm(kind, n)
        /\ InOrder(kind, T, n, Tail(prog), cmd.tail, End(kind, cmd.st, cmd.host))
        /\ prog \in Prog /\ Head(prog) \in StoreRec
  BY <1>1, HeadIs
<1> DEFINE au == m.au
           R == Rest(kind, au, "no")
           L == Loose(au, "first")
           D == Reading(au, "first")
           A == Aimed(au, "in", "first")
<1>3. /\ kind \in DmgKinds /\ m.bus = "live" /\ m.on = {} /\ m.eep = "rest" /\ m.n = 0
      /\ m.au \in Levels
      /\ m.q = "no" \/ (m.q = "first" /\ m.pa = "out" /\ m.hi = "in")
  <2>1. Awaited(kind, T, m, Head(prog), n)
    BY <1>1, <1>2, PollOk DEF Polls
  <2> QED
    BY <1>1, <2>1 DEF Awaited
<1>4. R \in T /\ Le(R, n)
  <2>1. Awaited(kind, T, m, Head(prog), n)
    BY <1>1, <1>2, PollOk DEF Polls
  <2> QED
    BY <1>1, <2>1 DEF Awaited
<1>5. CmdFields \subseteq DOMAIN cmd /\ kind \notin AgbKinds
  BY <1>3 DEF IInv, Sides, AgbKinds, DmgKinds
<1>6. PollFit(m, cmd.polls, cmd.got) /\ PollCap \in Nat /\ PollCap > 0
  BY <1>2, CartAssumption DEF Fits
<1>7. /\ R \in Mode /\ Calm(kind, R) /\ L \in Mode /\ Calm(kind, L) /\ D \in Mode /\ Calm(kind, D)
      /\ A \in Mode /\ Calm(kind, A)
      /\ R.q = "no" /\ L.q = "first" /\ D.q = "first" /\ a \in Nat
      /\ "no" \in Polled /\ "first" \in Polled
  <2>1. "no" \in Polled /\ "first" \in Polled
    BY DEF Polled
  <2>2. A \in Mode /\ Calm(kind, A)
    <3>1. A \in Mode
      BY <1>3, <2>1 DEF Aimed, Live, Mode, Phases, Four, Frames, Polled, Levels
    <3>2. A.on = {} /\ A.au \in Levels /\ A.eep = "rest"
      BY <1>3 DEF Aimed, Live
    <3> QED
      BY <3>1, <3>2 DEF Calm, Strobe, Levels
  <2>3. R \in Mode /\ Calm(kind, R) /\ L \in Mode /\ Calm(kind, L) /\ D \in Mode /\ Calm(kind, D)
    BY <1>3, <2>1, RestIs, DmgModes
  <2>4. R.q = "no" /\ L.q = "first" /\ D.q = "first"
    BY DEF Rest, Loose, Reading, Live
  <2>5. a \in Nat
    BY <1>2 DEF StoreRec
  <2> QED
    BY <2>1, <2>2, <2>3, <2>4, <2>5
<1>8. /\ m.hi = "in" => Le([m EXCEPT !.q = R.q], R)
      /\ Le([m EXCEPT !.q = L.q], L)
      /\ m.hi = "in" /\ m.pa = "out" => Le([m EXCEPT !.q = D.q], D)
  <2>1. m.hi = "in" => Le([m EXCEPT !.q = "no"], R)
    BY <1>3 DEF Le, Rest, Live, Mode
  <2>2. Le([m EXCEPT !.q = "first"], L)
    BY <1>3 DEF Le, Loose, Live, Mode
  <2>3. m.hi = "in" /\ m.pa = "out" => Le([m EXCEPT !.q = "first"], D)
    BY <1>3 DEF Le, Reading, Live, Mode
  <2> QED
    BY <1>7, <2>1, <2>2, <2>3
<1> DEFINE e == End(kind, cmd.st, cmd.host)
<1>9. GoodRun(kind, T, n, Tail(prog), e) /\ \A t \in T : GoodRun(kind, {}, t, cmd.tail, e)
  BY <1>2 DEF InOrder
<1>10. GoodRun(kind, T, D, read \o prog, e) /\ GoodRun(kind, T, L, (DmgPollOpen \o read) \o prog, e)
  <2>1. /\ A.bus = "live" /\ A.on = {} /\ A.eep = "rest" /\ A.n = 0 /\ A.au = au /\ A.q = "first"
        /\ A.pa = "out" /\ A.hi = "in"
    BY DEF Aimed, Live
  <2>2. ~Strobe(kind, A)
    BY <1>3, <1>5, <2>1 DEF Strobe, Levels
  <2>3. Awaited(kind, T, A, Head(prog), n)
    <3> HIDE DEF A
    <3> QED
      BY <1>1, <1>3, <1>4, <2>1 DEF Awaited
  <2>4. GoodRun(kind, T, D, read, A) /\ GoodRun(kind, T, L, DmgPollOpen, D)
    BY <1>3, <1>7, PollReadRun, PollOpenRun
  <2> HIDE DEF A, read, e, D, L
  <2>5. Ok(kind, T, A, Head(prog), n)
    BY <2>2, <2>3 DEF Ok
  <2>6. GoodRun(kind, T, A, prog, e)
    BY <1>1, <1>2, <1>7, <1>9, <2>5, Before
  <2>7. GoodRun(kind, T, D, read \o prog, e)
    BY <2>4, <2>6, Then
  <2>8. GoodRun(kind, T, L, DmgPollOpen \o read, A)
    BY <2>4, Then
  <2>9. GoodRun(kind, T, L, (DmgPollOpen \o read) \o prog, e)
    BY <2>6, <2>8, Then
  <2> QED
    BY <2>7, <2>9
<1>11. \A U : GoodRun(kind, U, R, DmgPollClose, R)
  BY <1>3, <1>7, RestRdHighRun DEF DmgPollClose
<1> HIDE DEF e, read
<1>12. 0 \in 0 .. PollCap /\ 1 \in 0 .. PollCap
  BY <1>6
<1>13. cmd.polls # 0 => m.q = "first" /\ cmd.polls = 1
  BY <1>3, <1>6 DEF PollFit
<1>14. CASE cmd.got
  <2>1. m.q = "first" /\ m.hi = "in"
    BY <1>3, <1>6, <1>14 DEF PollFit
  <2>2. prog' = DmgPollClose \o Tail(prog) /\ cmd' = [cmd EXCEPT !.polls = 0, !.got = FALSE]
    BY <1>1, <1>14 DEF PollEnds
  <2>3. /\ CmdFields \subseteq DOMAIN cmd' /\ cmd'.name = cmd.name /\ cmd'.st = cmd.st
        /\ cmd'.host = cmd.host /\ cmd'.tail = cmd.tail /\ cmd'.polls = 0 /\ cmd'.got = FALSE
    BY <2>2, <1>5 DEF CmdFields
  <2>4. cmd'.polls \in 0 .. PollCap /\ cmd'.got \in BOOLEAN
    BY <1>12, <2>3
  <2>5. PollFit(R, cmd'.polls, cmd'.got)
    BY <1>7, <2>3, <2>4 DEF PollFit
  <2>6. Le([m EXCEPT !.q = R.q], R)
    BY <1>8, <2>1
  <2> HIDE DEF R
  <2>7. PinsFit(R, pins') /\ FrameFit(R, cart') /\ PollFit(R, cmd'.polls, cmd'.got)
        /\ (R.bus \in {"boot", "dead"} => ~host.been)
    BY <1>1, <1>2, <1>3, <1>7, <2>5, <2>6, Repolled
  <2>8. GoodRun(kind, T, R, Tail(prog), e)
    BY <1>9, <1>4, LeRefl, WeakenRun
  <2>9. GoodRun(kind, T, R, DmgPollClose \o Tail(prog), e)
    BY <1>11, <2>8, Then
  <2>10. InOrder(kind, T, R, prog', cmd.tail, End(kind, cmd.st, cmd.host))
    BY <1>9, <2>2, <2>9 DEF InOrder, e
  <2> QED
    BY <1>1, <1>7, <2>3, <2>7, <2>10, CommandStep
<1>15. CASE ~cmd.got /\ cmd.polls # 0 /\ PollGivesUp(DmgPollClose)
  <2>1. m.q = "first" /\ m.hi = "in"
    BY <1>3, <1>15, <1>13
  <2>2. prog' = DmgPollClose \o cmd.tail
        /\ cmd' = [cmd EXCEPT !.polls = 0, !.got = FALSE, !.gaveUp = TRUE]
    BY <1>15 DEF PollGivesUp
  <2>3. /\ CmdFields \subseteq DOMAIN cmd' /\ cmd'.name = cmd.name /\ cmd'.st = cmd.st
        /\ cmd'.host = cmd.host /\ cmd'.tail = cmd.tail /\ cmd'.polls = 0 /\ cmd'.got = FALSE
    BY <2>2, <1>5 DEF CmdFields
  <2>4. cmd'.polls \in 0 .. PollCap /\ cmd'.got \in BOOLEAN
    BY <1>12, <2>3
  <2>5. PollFit(R, cmd'.polls, cmd'.got)
    BY <1>7, <2>3, <2>4 DEF PollFit
  <2>6. Le([m EXCEPT !.q = R.q], R)
    BY <1>8, <2>1
  <2> HIDE DEF R
  <2>7. PinsFit(R, pins') /\ FrameFit(R, cart') /\ PollFit(R, cmd'.polls, cmd'.got)
        /\ (R.bus \in {"boot", "dead"} => ~host.been)
    BY <1>1, <1>2, <1>3, <1>7, <2>5, <2>6, Repolled
  <2>8. GoodRun(kind, {}, R, cmd.tail, e)
    BY <1>9, <1>4
  <2>9. GoodRun(kind, {}, R, DmgPollClose \o cmd.tail, e)
    BY <1>11, <2>8, Then
  <2>10. InOrder(kind, {}, R, prog', cmd.tail, End(kind, cmd.st, cmd.host))
    BY <2>2, <2>9 DEF InOrder, e
  <2>11. {} \in SUBSET Mode
    OBVIOUS
  <2> QED
    BY <1>1, <1>7, <2>3, <2>7, <2>10, <2>11, CommandStep
<1>16. CASE ~cmd.got /\ cmd.polls # 0 /\ prog' = read \o prog /\ UNCHANGED cmd
  <2>1. m.q = "first" /\ m.hi = "in" /\ m.pa = "out" /\ cmd.polls = 1
    BY <1>3, <1>16, <1>13
  <2>2. /\ CmdFields \subseteq DOMAIN cmd' /\ cmd'.name = cmd.name /\ cmd'.st = cmd.st
        /\ cmd'.host = cmd.host /\ cmd'.tail = cmd.tail /\ cmd'.polls = 1 /\ cmd'.got = cmd.got
    BY <1>5, <1>16, <2>1
  <2>3. cmd'.polls \in 0 .. PollCap /\ cmd'.got \in BOOLEAN
    BY <1>6, <1>12, <2>2 DEF PollFit
  <2>4. PollFit(D, cmd'.polls, cmd'.got)
    BY <1>7, <2>2, <2>3 DEF PollFit
  <2>5. Le([m EXCEPT !.q = D.q], D)
    BY <1>8, <2>1
  <2>6. GoodRun(kind, T, D, prog', e)
    BY <1>10, <1>16
  <2> HIDE DEF D
  <2>7. PinsFit(D, pins') /\ FrameFit(D, cart') /\ PollFit(D, cmd'.polls, cmd'.got)
        /\ (D.bus \in {"boot", "dead"} => ~host.been)
    BY <1>1, <1>2, <1>3, <1>7, <2>4, <2>5, Repolled
  <2>8. InOrder(kind, T, D, prog', cmd.tail, End(kind, cmd.st, cmd.host))
    BY <1>9, <2>6 DEF InOrder, e
  <2> QED
    BY <1>1, <1>7, <2>2, <2>7, <2>8, CommandStep
<1>17. CASE ~cmd.got /\ cmd.polls = 0
  <2>1. prog' = (DmgPollOpen \o read) \o prog /\ cmd' = [cmd EXCEPT !.polls = @ + 1]
    BY <1>1, <1>17 DEF PollAgain
  <2>2. /\ CmdFields \subseteq DOMAIN cmd' /\ cmd'.name = cmd.name /\ cmd'.st = cmd.st
        /\ cmd'.host = cmd.host /\ cmd'.tail = cmd.tail /\ cmd'.polls = 1 /\ cmd'.got = cmd.got
    BY <2>1, <1>5, <1>17 DEF CmdFields
  <2>3. cmd'.polls \in 0 .. PollCap /\ cmd'.got \in BOOLEAN
    BY <1>6, <1>12, <2>2 DEF PollFit
  <2>4. PollFit(L, cmd'.polls, cmd'.got)
    BY <1>7, <2>2, <2>3 DEF PollFit
  <2>5. Le([m EXCEPT !.q = L.q], L)
    BY <1>8
  <2>6. GoodRun(kind, T, L, prog', e)
    BY <1>10, <2>1
  <2> HIDE DEF L
  <2>7. PinsFit(L, pins') /\ FrameFit(L, cart') /\ PollFit(L, cmd'.polls, cmd'.got)
        /\ (L.bus \in {"boot", "dead"} => ~host.been)
    BY <1>1, <1>2, <1>3, <1>7, <2>4, <2>5, Repolled
  <2>8. InOrder(kind, T, L, prog', cmd.tail, End(kind, cmd.st, cmd.host))
    BY <1>9, <2>6 DEF InOrder, e
  <2> QED
    BY <1>1, <1>7, <2>2, <2>7, <2>8, CommandStep
<1>18. cmd.got \in BOOLEAN
  BY <1>6 DEF PollFit
<1>19. CASE ~cmd.got /\ cmd.polls # 0
  <2>1. PollGivesUp(DmgPollClose) \/ (prog' = read \o prog /\ UNCHANGED cmd)
    BY <1>1, <1>19
  <2> QED
    BY <1>15, <1>16, <1>19, <2>1
<1> QED
  BY <1>14, <1>17, <1>18, <1>19

(* The wait by the clock after a page of a save chip. *)
LEMMA PageWaitStep == ASSUME IInv, PageWait PROVE IInv'
<1>1. prog # << >> /\ Head(prog).reg = "PAGE_WAIT" /\ UNCHANGED <<kind, pins, cart, cmd, st, host>>
      /\ prog' = Tail(prog)
  BY DEF PageWait
<1>2. PICK m \in Mode, n \in Mode, T \in SUBSET Mode :
        /\ Fits(m) /\ Calm(kind, m) /\ Ok(kind, T, m, Head(prog), n) /\ Calm(kind, n)
        /\ InOrder(kind, T, n, Tail(prog), cmd.tail, End(kind, cmd.st, cmd.host))
        /\ prog \in Prog /\ Head(prog) \in StoreRec
  BY <1>1, HeadIs
<1>3. Le(m, n)
  BY <1>1, <1>2 DEF Ok, Valued, Turned, Awaited, Checks
<1>4. Fits(n)
  BY <1>2, <1>3, FitsLe
<1>5. PinsFit(n, pins') /\ FrameFit(n, cart') /\ PollFit(n, cmd'.polls, cmd'.got)
      /\ (n.bus \in {"boot", "dead"} => ~host.been)
  BY <1>1, <1>4 DEF Fits
<1>6. CmdFields \subseteq DOMAIN cmd'
  BY <1>1 DEF IInv, Sides
<1>7. InOrder(kind, T, n, prog', cmd.tail, End(kind, cmd.st, cmd.host))
  BY <1>1, <1>2
<1>8. cmd' = cmd /\ UNCHANGED <<kind, st, host>>
  BY <1>1
<1> QED
  BY <1>1, <1>2, <1>5, <1>6, <1>7, <1>8, CommandStep

(* A flash chip is done: no line moves. *)
LEMMA ChipDoneStep == ASSUME IInv, ChipDone PROVE IInv'
<1>1. /\ cart' = [cart EXCEPT !.chip.busy = FALSE]
      /\ kind' = kind /\ pins' = pins /\ prog' = prog /\ cmd' = cmd /\ st' = st /\ host' = host
  BY DEF ChipDone
<1>2. PICK m \in Mode, T \in SUBSET Mode :
        Fits(m) /\ InOrder(kind, T, m, prog, cmd.tail, End(kind, cmd.st, cmd.host))
  BY DEF IInv
<1>3. FrameFit(m, cart')
  <2>1. FrameFit(m, cart)
    BY <1>2 DEF Fits
  <2>2. DOMAIN cart' = DOMAIN cart
    BY <1>1
  <2>3. cart'.at = cart.at /\ cart'.bits = cart.bits /\ cart'.eepOut = cart.eepOut
    BY <1>1, <2>1 DEF FrameFit, IsCart
  <2> QED
    BY <2>1, <2>2, <2>3 DEF FrameFit, IsCart, EepReading, EepSelected
<1>4. Fits(m)'
  BY <1>1, <1>2, <1>3, FitsNext DEF Fits
<1>5. InOrder(kind, T, m, prog, cmd.tail, End(kind, cmd.st, cmd.host))'
  BY <1>1, <1>2, InOrderNext
<1>6. Sides'
  BY <1>1 DEF IInv, Sides, Agree, Due
<1> QED
  BY <1>4, <1>5, <1>6 DEF IInv

(* The bus is at rest where the command in hand leaves it. *)
LEMMA AtEnd ==
  ASSUME IInv, prog = << >>
  PROVE  LET e == End(kind, cmd.st, cmd.host) IN
         e \in Mode /\ Calm(kind, e) /\ e.q = "no" /\ Fits(e)
           /\ (e.bus \in {"boot", "dead"} => ~cmd.host.been)
<1> DEFINE e == End(kind, cmd.st, cmd.host)
<1>1. PICK m \in Mode, T \in SUBSET Mode : Fits(m) /\ GoodRun(kind, T, m, << >>, e)
  BY DEF IInv, InOrder
<1>2. kind \in AgbKinds \cup DmgKinds /\ Agree(kind, cmd.st, cmd.host)
  BY DEF IInv, Sides
<1>3. e \in Mode /\ Calm(kind, e) /\ e.q = "no" /\ (e.bus \in {"boot", "dead"} => ~cmd.host.been)
  BY <1>2, EndIs
<1> HIDE DEF e
<1>4. Fits(e)
  BY <1>1, Ended, FitsLe
<1> QED
  BY <1>3, <1>4 DEF e

(* No command in hand: nothing to do from the mode the last one left. *)
LEMMA Settled ==
  ASSUME kind' = kind, pins' = pins, cart' = cart, prog' = << >>, IInv,
         NEW e \in Mode, Calm(kind, e), e.q = "no", Fits(e),
         e.bus \in {"boot", "dead"} => ~host'.been, e = End(kind, st', host'),
         CmdFields \subseteq DOMAIN cmd', cmd'.name = None, cmd'.st = st', cmd'.host = host',
         cmd'.polls = 0, cmd'.got = FALSE,
         Agree(kind, st', host'), Due(st', host')
  PROVE  IInv'
<1>1. PollFit(e, cmd'.polls, cmd'.got)
  <2>1. PollCap \in Nat
    BY CartAssumption
  <2>2. 0 \in 0 .. PollCap
    BY <2>1
  <2>3. cmd'.polls \in 0 .. PollCap /\ cmd'.got \in BOOLEAN
    BY <2>2
  <2> QED
    BY <2>3 DEF PollFit
<1>2. Fits(e)'
  BY <1>1, FitsNext DEF Fits
<1>3. GoodRun(kind, {}, e, << >>, e)
  BY LeRefl, Skip
<1>4. InOrder(kind, {}, e, prog', cmd'.tail, End(kind, cmd'.st, cmd'.host))
  BY <1>3 DEF InOrder
<1>5. InOrder(kind, {}, e, prog, cmd.tail, End(kind, cmd.st, cmd.host))'
  BY <1>4, InOrderNext
<1>6. Sides'
  <2>1. Agree(kind, st, host)' /\ Due(st, host)'
    BY DEF Agree, Due
  <2>2. Agree(kind, cmd.st, cmd.host)' /\ Due(cmd.st, cmd.host)'
    BY <2>1 DEF Agree, Due
  <2>3. None \notin Readers
    BY DEF None, Readers
  <2> QED
    BY <2>1, <2>2, <2>3 DEF Sides, IInv
<1>7. {} \in SUBSET Mode
  OBVIOUS
<1> QED
  BY <1>2, <1>5, <1>6, <1>7 DEF IInv

(* The command is over, or the host stopped reading: nothing to do. *)
LEMMA FinishStep == ASSUME IInv, Finish PROVE IInv'
<1> DEFINE e == End(kind, cmd.st, cmd.host)
<1>1. /\ prog = << >> /\ st' = cmd.st /\ host' = cmd.host
      /\ cmd' = [NoCommand EXCEPT !.st = cmd.st, !.host = cmd.host]
      /\ kind' = kind /\ pins' = pins /\ cart' = cart /\ prog' = << >>
  BY DEF Finish
<1>2. e \in Mode /\ Calm(kind, e) /\ e.q = "no" /\ Fits(e)
      /\ (e.bus \in {"boot", "dead"} => ~cmd.host.been)
  BY <1>1, AtEnd
<1>3. /\ CmdFields \subseteq DOMAIN cmd' /\ cmd'.name = None /\ cmd'.st = st' /\ cmd'.host = host'
      /\ cmd'.polls = 0 /\ cmd'.got = FALSE
  BY <1>1 DEF NoCommand, CmdFields
<1>4. Agree(kind, st', host') /\ Due(st', host')
  BY <1>1 DEF IInv, Sides
<1>5. e = End(kind, st', host')
  BY <1>1
<1> HIDE DEF e
<1> QED
  BY <1>1, <1>2, <1>3, <1>4, <1>5, Settled

(* The reader returned early: ADDRESS is where it was. *)
LEMMA StalledStep == ASSUME IInv, Stalled PROVE IInv'
<1> DEFINE e == End(kind, cmd.st, cmd.host)
<1>1. /\ prog = << >> /\ cmd.name \in Readers /\ host' = [host EXCEPT !.address = NoAt] /\ st' = st
      /\ cmd' = [NoCommand EXCEPT !.host = host']
      /\ kind' = kind /\ pins' = pins /\ cart' = cart /\ prog' = << >>
  BY DEF Stalled, Readers
<1>2. e \in Mode /\ Calm(kind, e) /\ e.q = "no" /\ Fits(e)
      /\ (e.bus \in {"boot", "dead"} => ~cmd.host.been)
  BY <1>1, AtEnd
<1>3. /\ CmdFields \subseteq DOMAIN cmd' /\ cmd'.name = None /\ cmd'.st = st' /\ cmd'.host = host'
      /\ cmd'.polls = 0 /\ cmd'.got = FALSE
  BY <1>1 DEF NoCommand, CmdFields
<1>4. Agree(kind, st, host) /\ Due(st, host) /\ cmd.st.page = st.page
      /\ cmd.st.audioOut = st.audioOut
      /\ cmd.host.on = host.on /\ cmd.host.been = host.been
  BY <1>1 DEF IInv, Sides
<1>5. /\ host' \in Hosts /\ host'.address = NoAt /\ host'.done = host.done /\ host'.on = host.on
      /\ host'.been = host.been /\ host'.audio = host.audio
  BY <1>1, <1>4 DEF Agree, Hosts
<1>6. Agree(kind, st', host') /\ Due(st', host')
  BY <1>1, <1>4, <1>5 DEF Agree, Due
<1>7. e = End(kind, st', host')
  BY <1>1, <1>4, <1>5 DEF End, Au
<1>8. cmd.host.been = host'.been
  BY <1>4, <1>5
<1> HIDE DEF e
<1> QED
  BY <1>1, <1>2, <1>3, <1>6, <1>7, <1>8, Settled

(* Reset. *)
LEMMA InitStep == ASSUME Init PROVE IInv
<1>1. kind \in AgbKinds \cup DmgKinds
  BY CartAssumption DEF Init, AgbKinds, DmgKinds
<1>2. /\ CmdFields \subseteq DOMAIN cmd /\ cmd.name = "init" /\ cmd.st = st /\ cmd.host = host
      /\ cmd.tail = << >> /\ cmd.polls = 0 /\ cmd.got = FALSE
  BY DEF Init, NoCommand, CmdFields
<1>3. MaxAddr \in Nat /\ BufferSize \in Nat /\ 0 \in 0 .. MaxAddr + BufferSize
  BY CartAssumption
<1>4. st \in States /\ st.page = 0 /\ st.audioOut = FALSE /\ st.address = 0
  BY <1>3 DEF Init, States
<1>5. host \in Hosts /\ host.done = 0 /\ host.on = FALSE /\ host.been = FALSE /\ host.audio = FALSE
      /\ host.address = 0
  BY <1>3 DEF Init, Hosts
<1>6. Agree(kind, st, host) /\ Due(st, host)
  <2>1. st.page = host.done /\ host.address \in {st.address, NoAt} /\ st.audioOut = host.audio
    BY <1>4, <1>5
  <2>2. ~(host.done > 0) /\ ~host.on
    BY <1>5
  <2> QED
    BY <1>4, <1>5, <2>1, <2>2 DEF Agree, Due
<1>7. Sides
  BY <1>1, <1>2, <1>6 DEF Sides, None, Readers
<1>8. End(kind, st, host) = RestDead
  BY <1>4, <1>5 DEF End
<1>9. Booting \in Mode /\ Booting.bus = "boot" /\ Booting.q = "no"
  BY DEF Booting, At, Mode, Phases, Four, Frames, Polled, Levels
<1>10. PinsFit(Booting, pins)
  <2>1. LoSize \in Nat /\ LoSize > 1 /\ HiSize \in Nat /\ HiSize > 0
    BY BusAssumption
  <2>2. pins \in PinsType
    BY <2>1 DEF Init, PinsType
  <2> QED
    BY <2>2 DEF Init, PinsFit, Booting, At
<1>11. FrameFit(Booting, cart)
  <2>1. cart = FreshCart
    BY DEF Init
  <2>2. {"at", "bits", "eepOut"} \subseteq DOMAIN cart /\ cart.bits = << >> /\ cart.eepOut = FALSE
    BY <2>1 DEF FreshCart
  <2>3. ~EepReading(cart)
    BY <2>2, BusAssumption DEF EepReading
  <2>4. IsCart(cart) /\ ~cart.eepOut
    <3>1. << >> \in Seq(Nat)
      OBVIOUS
    <3>2. cart.bits \in Seq(Nat)
      BY <2>2, <3>1
    <3>3. cart.eepOut \in BOOLEAN /\ ~cart.eepOut
      BY <2>2
    <3> QED
      BY <2>2, <3>2, <3>3 DEF IsCart
  <2>5. Booting.bus = "boot" /\ Booting.eep = "rest"
    BY DEF Booting, At
  <2> QED
    BY <2>2, <2>3, <2>4, <2>5 DEF FrameFit
<1>12. PollFit(Booting, cmd.polls, cmd.got)
  <2>1. PollCap \in Nat
    BY CartAssumption
  <2>2. 0 \in 0 .. PollCap
    BY <2>1
  <2>3. cmd.polls \in 0 .. PollCap /\ cmd.got \in BOOLEAN
    BY <1>2, <2>2
  <2> QED
    BY <1>2, <1>9, <2>3 DEF PollFit
<1>13. Fits(Booting)
  BY <1>5, <1>10, <1>11, <1>12 DEF Fits
<1>14. GoodRun(kind, {}, Booting, prog, RestDead)
  BY <1>1, InitRun DEF Init
<1>15. InOrder(kind, {}, Booting, prog, cmd.tail, End(kind, cmd.st, cmd.host))
  BY <1>2, <1>8, <1>14 DEF InOrder
<1>16. {} \in SUBSET Mode
  OBVIOUS
<1> QED
  BY <1>7, <1>9, <1>13, <1>15, <1>16 DEF IInv

(* A command begins: its stores and its tail are in order from where the *)
(* bus was left, and both sides agree after it.                          *)
LEMMA BeginStep ==
  ASSUME IInv, NEW name, name # None, NEW stores, NEW meant, NEW s, NEW h, NEW tail,
         Begin(name, stores, meant, s, h, tail),
         NEW T \in SUBSET Mode, Agree(kind, s, h), h.done > 0 => name = "read_3d",
         name \in Readers => /\ s.page = st.page /\ s.audioOut = st.audioOut
                             /\ h.on = host.on /\ h.been = host.been,
         GoodRun(kind, T, End(kind, st, host), stores, End(kind, s, h)),
         \A t \in T : GoodRun(kind, {}, t, tail, End(kind, s, h))
  PROVE  IInv'
<1>1. PICK e : e = End(kind, st, host)
  OBVIOUS
<1> DEFINE s2 == [s EXCEPT !.due = (name = "read_3d")]
<1>2. /\ cmd.name = None /\ prog' = stores
      /\ kind' = kind /\ pins' = pins /\ cart' = cart /\ st' = st /\ host' = host
      /\ cmd' = [NoCommand EXCEPT !.name = name, !.host = h, !.tail = tail, !.st = s2]
  BY DEF Begin
<1>3. cmd.st = st /\ cmd.host = host /\ prog = << >>
  BY <1>2 DEF IInv, Sides
<1>4. e \in Mode /\ e.q = "no" /\ Fits(e) /\ (e.bus \in {"boot", "dead"} => ~host.been)
  BY <1>1, <1>3, AtEnd
<1>5. /\ CmdFields \subseteq DOMAIN cmd' /\ cmd'.name = name /\ cmd'.st = s2
      /\ cmd'.host = h /\ cmd'.tail = tail /\ cmd'.polls = 0 /\ cmd'.got = FALSE
  BY <1>2 DEF NoCommand, CmdFields
<1>6. s \in States /\ s2 \in States /\ s2.address = s.address /\ s2.page = s.page
      /\ s2.audioOut = s.audioOut
      /\ s2.due = (name = "read_3d")
  BY DEF Agree, States
<1> HIDE DEF s2
<1>7. PollFit(e, cmd'.polls, cmd'.got)
  <2>1. PollCap \in Nat
    BY CartAssumption
  <2>2. 0 \in 0 .. PollCap
    BY <2>1
  <2>3. cmd'.polls \in 0 .. PollCap /\ cmd'.got \in BOOLEAN
    BY <1>5, <2>2
  <2> QED
    BY <1>4, <1>5, <2>3 DEF PollFit
<1>8. Fits(e)'
  BY <1>2, <1>4, <1>7, FitsNext DEF Fits
<1>9. End(kind, cmd'.st, cmd'.host) = End(kind, s, h)
  BY <1>5, <1>6 DEF End, Au
<1>10. InOrder(kind, T, e, prog', cmd'.tail, End(kind, cmd'.st, cmd'.host))
  BY <1>1, <1>2, <1>5, <1>9 DEF InOrder
<1>11. InOrder(kind, T, e, prog, cmd.tail, End(kind, cmd.st, cmd.host))'
  BY <1>2, <1>10, InOrderNext
<1>12. Sides'
  <2>1. Agree(kind, st, host)' /\ Due(st, host)' /\ (kind \in AgbKinds \cup DmgKinds)'
    BY <1>2 DEF IInv, Sides, Agree, Due
  <2>2. Agree(kind, s2, h) /\ Due(s2, h)
    BY <1>6 DEF Agree, Due
  <2>3. Agree(kind, cmd.st, cmd.host)' /\ Due(cmd.st, cmd.host)'
    BY <1>2, <1>5, <2>2 DEF Agree, Due
  <2>4. cmd'.name \in Readers => /\ cmd'.st.page = st'.page /\ cmd'.st.audioOut = st'.audioOut
                                 /\ cmd'.host.on = host'.on /\ cmd'.host.been = host'.been
    BY <1>2, <1>5, <1>6
  <2> QED
    BY <1>5, <2>1, <2>3, <2>4 DEF Sides
<1> QED
  BY <1>4, <1>8, <1>11, <1>12 DEF IInv

(* Where a powered bus rests between two 3D pages. *)
Here == Rest(kind, Au(st), "no")

(* A bus command begins at rest, powered, between two pages. *)
LEMMA PoweredIs ==
  ASSUME IInv, Between, host.on
  PROVE  /\ End(kind, st, host) = Here /\ Here \in Mode /\ Au(st) \in Levels /\ "no" \in Polled
         /\ (Agb => kind \in AgbKinds) /\ (Dmg => kind \in DmgKinds)
         /\ kind \in AgbKinds \cup DmgKinds /\ Agree(kind, st, host) /\ st.address \in Nat
         /\ GoodRun(kind, {}, Here, << >>, Here) /\ st.page = 0
<1>1. kind \in AgbKinds \cup DmgKinds /\ Agree(kind, st, host)
  BY DEF IInv, Sides
<1>2. st \in States /\ st.page = host.done /\ host.done = 0
  BY <1>1 DEF Agree, Between
<1>3. End(kind, st, host) = Here
  BY <1>2 DEF End, Here
<1>4. Au(st) \in Levels /\ "no" \in Polled
  BY <1>2, AuIs DEF Polled
<1>5. Here \in Mode /\ Calm(kind, Here)
  BY <1>1, <1>4, RestIs DEF Here
<1>6. GoodRun(kind, {}, Here, << >>, Here)
  BY <1>5, LeRefl, Skip
<1>7. MaxAddr \in Nat /\ BufferSize \in Nat
  BY CartAssumption
<1>8. st.address \in Nat
  BY <1>2, <1>7 DEF States
<1> QED
  BY <1>1, <1>2, <1>3, <1>4, <1>5, <1>6, <1>8 DEF Agb, Dmg, AgbKinds, DmgKinds

(* A command of a powered bus that leaves ADDRESS alone. *)
LEMMA StayStep ==
  ASSUME IInv, Between, host.on, NEW name, name # None, NEW stores, NEW meant, NEW tail,
         Begin(name, stores, meant, st, host, tail),
         GoodRun(kind, {Here}, Here, stores, Here), GoodRun(kind, {}, Here, tail, Here)
  PROVE  IInv'
<1>1. End(kind, st, host) = Here /\ Here \in Mode /\ Agree(kind, st, host)
  BY PoweredIs
<1>2. ~(host.done > 0)
  BY DEF Between
<1>3. PICK s, h, T : s = st /\ h = host /\ T = {Here}
  OBVIOUS
<1>4. /\ GoodRun(kind, T, End(kind, st, host), stores, End(kind, s, h))
      /\ \A t \in T : GoodRun(kind, {}, t, tail, End(kind, s, h))
  BY <1>1, <1>3
<1>5. Begin(name, stores, meant, s, h, tail)
  BY <1>3
<1>6. T \in SUBSET Mode /\ Agree(kind, s, h) /\ ~(h.done > 0)
  BY <1>1, <1>2, <1>3
<1>7. name \in Readers => /\ s.page = st.page /\ s.audioOut = st.audioOut
                          /\ h.on = host.on /\ h.been = host.been
  BY <1>3
<1> QED
  BY <1>4, <1>5, <1>6, <1>7, BeginStep

(* And one that steps it. *)
LEMMA MoveStep ==
  ASSUME IInv, Between, host.on, NEW name, name # None, NEW stores, NEW meant, NEW tail,
         NEW n \in Nat,
         host.address + n <= MaxAddr + BufferSize,
         Begin(name, stores, meant, Stepped(n), Counted(n), tail),
         GoodRun(kind, {Here}, Here, stores, Here), GoodRun(kind, {}, Here, tail, Here)
  PROVE  IInv'
<1> DEFINE s == Stepped(n)
           h == Counted(n)
<1>1. End(kind, st, host) = Here /\ Here \in Mode /\ Agree(kind, st, host) /\ st.page = 0
  BY PoweredIs
<1>2. ~(host.done > 0) /\ host.done = 0
  BY DEF Between
<1>3. {Here} \in SUBSET Mode
  BY <1>1
<1>4. MaxAddr \in Nat /\ BufferSize \in Nat /\ MaxAddr + BufferSize < NoAt
  BY CartAssumption DEF NoAt
<1>5. host.address = st.address /\ st.address \in Nat
  <2>1. host.address \in (0 .. MaxAddr + BufferSize) \cup {NoAt}
        /\ host.address \in {st.address, NoAt}
        /\ st.address \in 0 .. MaxAddr + BufferSize
    BY <1>1 DEF Agree, Hosts, States
  <2>2. NoAt \in Nat
    BY BusAssumption DEF NoAt
  <2>3. host.address # NoAt
    BY <1>4, <2>2
  <2> QED
    BY <1>4, <2>1, <2>3
<1>6. st \in States /\ host \in Hosts
  BY <1>1 DEF Agree
<1>7. /\ s \in States /\ s.address = st.address + n /\ s.page = st.page /\ s.audioOut = st.audioOut
  BY <1>4, <1>5, <1>6 DEF Stepped, States
<1>8. /\ h \in Hosts /\ h.address = st.address + n /\ h.done = host.done /\ h.on = host.on
      /\ h.been = host.been /\ h.audio = host.audio
  <2>1. st.address + n \in 0 .. MaxAddr + BufferSize
    BY <1>4, <1>5
  <2>2. h.address = st.address + n
    BY <1>5, <1>6 DEF Counted, Hosts
  <2> QED
    BY <1>6, <2>1, <2>2 DEF Counted, Hosts
<1>9. Agree(kind, s, h) /\ End(kind, s, h) = Here
  <2> HIDE DEF s, h
  <2>1. Agree(kind, s, h)
    BY <1>1, <1>2, <1>7, <1>8 DEF Agree
  <2>2. End(kind, s, h) = End(kind, st, host)
    BY <1>7, <1>8 DEF End, Au
  <2> QED
    BY <1>1, <2>1, <2>2
<1>10. ~(h.done > 0)
  BY <1>2, <1>8
<1>11. Begin(name, stores, meant, s, h, tail)
  OBVIOUS
<1> HIDE DEF s, h
<1>12. PICK s2, h2, T : s2 = s /\ h2 = h /\ T = {Here}
  OBVIOUS
<1>13. /\ GoodRun(kind, T, End(kind, st, host), stores, End(kind, s2, h2))
       /\ \A t \in T : GoodRun(kind, {}, t, tail, End(kind, s2, h2))
  BY <1>1, <1>9, <1>12
<1>14. Begin(name, stores, meant, s2, h2, tail)
  BY <1>11, <1>12
<1>15. T \in SUBSET Mode /\ Agree(kind, s2, h2) /\ ~(h2.done > 0)
  BY <1>3, <1>9, <1>10, <1>12
<1>16. name \in Readers => /\ s2.page = st.page /\ s2.audioOut = st.audioOut
                           /\ h2.on = host.on /\ h2.been = host.been
  BY <1>7, <1>8, <1>12
<1> QED
  BY <1>13, <1>14, <1>15, <1>16, BeginStep

(* A command that names ADDRESS knows it. *)
LEMMA HostIs == IInv => host.address \in Nat
<1> SUFFICES ASSUME IInv PROVE host.address \in Nat
  OBVIOUS
<1>1. host \in Hosts
  BY DEF IInv, Sides, Agree
<1>2. NoAt \in Nat /\ MaxAddr \in Nat /\ BufferSize \in Nat
  BY CartAssumption, BusAssumption DEF NoAt
<1> QED
  BY <1>1, <1>2 DEF Hosts

(* A host that writes by the AUDIO pin has the pin driven high. *)
LEMMA PinIs == ASSUME IInv, Dmg, RightPin PROVE st.we = "AUDIO" => Au(st) = "high"
<1>1. Agree(kind, st, host)
  BY DEF IInv, Sides
<1>2. st.we = "AUDIO" => kind = "dmg_audio" /\ host.audio
  BY DEF RightPin, Dmg
<1> QED
  BY <1>1, <1>2 DEF Agree, Au

(* The AGB ROM bus. *)
LEMMA CartReadStep == ASSUME IInv, CartRead PROVE IInv'
<1>1. PICK len \in Transfers, method \in 0 .. 2, latch \in CartLatches :
        /\ Agb /\ Powered /\ Within(len \div 2)
        /\ Begin("cart_read", CartReadStores(st.address, len, method, latch),
                 Span("rom", len \div 2),
                 Stepped(len \div 2), Counted(len \div 2), << >>)
  BY DEF CartRead
<1>2. len \in Nat /\ latch \in Nat \ {0} /\ MaxAddr \in Nat /\ BufferSize \in Nat
  BY CartAssumption
<1>3. len \div 2 \in Nat /\ host.address + len \div 2 <= MaxAddr + BufferSize
  BY <1>1, <1>2, HostIs DEF Within
<1>4. GoodRun(kind, {Here}, Here, CartReadStores(st.address, len, method, latch), Here)
  BY <1>1, <1>2, PoweredIs, CartReadRun DEF Powered, Here
<1>5. Between /\ host.on /\ GoodRun(kind, {}, Here, << >>, Here)
  BY <1>1, PoweredIs DEF Powered
<1> QED
  BY <1>1, <1>3, <1>4, <1>5, MoveStep DEF None

(* A CRC of it. *)
LEMMA CrcStep == ASSUME IInv, Crc PROVE IInv'
<1>1. PICK len \in Transfers, latch \in CartLatches :
        /\ Agb /\ Powered
        /\ Begin("crc", CrcStores(st.address, 2 * len, latch),
                 Span("rom", len),
                 st, host, << >>)
  BY DEF Crc
<1>2. 2 * len \in Nat /\ latch \in Nat \ {0}
  BY CartAssumption
<1>3. GoodRun(kind, {Here}, Here, CrcStores(st.address, 2 * len, latch), Here)
  BY <1>1, <1>2, PoweredIs, CrcRun DEF Powered, Here
<1>4. Between /\ host.on /\ GoodRun(kind, {}, Here, << >>, Here)
  BY <1>1, PoweredIs DEF Powered
<1> QED
  BY <1>1, <1>3, <1>4, StayStep DEF None

(* The reads of bootup. *)
LEMMA BootupRunStep == ASSUME IInv, BootupRun PROVE IInv'
<1>1. /\ Agb /\ Powered
      /\ Begin("bootup", Bootup,
               [i \in 1 .. Len(BootReads) |-> <<"rom", BootReads[i], 0>>],
               st, host, << >>)
  BY DEF BootupRun
<1>2. GoodRun(kind, {Here}, Here, Bootup, Here)
  BY <1>1, PoweredIs, BootupStores DEF Powered, Here
<1>3. Between /\ host.on /\ GoodRun(kind, {}, Here, << >>, Here)
  BY <1>1, PoweredIs DEF Powered
<1> QED
  BY <1>1, <1>2, <1>3, StayStep DEF None

(* One word to the ROM bus. *)
LEMMA AgbFlashWriteStep == ASSUME IInv, AgbFlashWrite PROVE IInv'
<1>1. PICK a \in Starts, v \in Data :
        /\ Agb /\ Powered
        /\ Begin("write", AgbWrite(a, v),
                 << <<"wrom", a, v>> >>,
                 st, host, << >>)
  BY DEF AgbFlashWrite
<1>2. a \in Nat /\ v \in 0 .. LoSize - 1
  BY CartAssumption, ByteFits
<1>3. GoodRun(kind, {Here}, Here, AgbWrite(a, v), Here)
  BY <1>1, <1>2, PoweredIs, AgbWriteRun DEF Powered, Here
<1>4. Between /\ host.on /\ GoodRun(kind, {}, Here, << >>, Here)
  BY <1>1, PoweredIs DEF Powered
<1> QED
  BY <1>1, <1>3, <1>4, StayStep DEF None

(* The AGB save chip. *)
LEMMA SaveReadStep == ASSUME IInv, SaveRead PROVE IInv'
<1>1. PICK len \in Transfers :
        /\ HasSave /\ Powered /\ Within(len)
        /\ Begin("save_read", SaveReadStores(st.address, len),
                 [i \in 1 .. len |-> <<"save", Lo(host.address + i - 1), 0>>],
                 Stepped(len), Counted(len), << >>)
  BY DEF SaveRead
<1>2. len \in Nat /\ kind \in AgbKinds /\ MaxAddr \in Nat /\ BufferSize \in Nat
  BY <1>1, CartAssumption DEF HasSave, AgbKinds
<1>3. len \in Nat /\ host.address + len <= MaxAddr + BufferSize
  BY <1>1, <1>2, HostIs DEF Within
<1>4. GoodRun(kind, {Here}, Here, SaveReadStores(st.address, len), Here)
  BY <1>1, <1>2, PoweredIs, SaveReadRun DEF Powered, Here
<1>5. Between /\ host.on /\ GoodRun(kind, {}, Here, << >>, Here)
  BY <1>1, PoweredIs DEF Powered
<1> QED
  BY <1>1, <1>3, <1>4, <1>5, MoveStep DEF None

(* The save memory, written. *)
LEMMA SaveWriteStep == ASSUME IInv, SaveWrite PROVE IInv'
<1>1. PICK data \in Pairs :
        /\ kind = "agb_sram" /\ Powered /\ Within(2)
        /\ Begin("save_write", SaveWriteStores(st.address, data),
                 SaveSpan("wsave", data),
                 Stepped(2), Counted(2), << >>)
  BY DEF SaveWrite
<1>2. data \in [1 .. 2 -> 0 .. HiSize - 1]
  BY CartAssumption
<1>3. kind \in AgbKinds /\ Len(data) = 2 /\ MaxAddr \in Nat /\ BufferSize \in Nat
  BY <1>1, <1>2, CartAssumption DEF AgbKinds
<1>4. 2 \in Nat /\ host.address + 2 <= MaxAddr + BufferSize
  BY <1>1, <1>3, HostIs DEF Within
<1>5. GoodRun(kind, {Here}, Here, SaveWriteStores(st.address, data), Here)
  BY <1>1, <1>3, <1>2, PoweredIs, SaveWriteRun DEF Powered, Here
<1>6. Between /\ host.on /\ GoodRun(kind, {}, Here, << >>, Here)
  BY <1>1, PoweredIs DEF Powered
<1> QED
  BY <1>1, <1>4, <1>5, <1>6, MoveStep DEF None

(* A byte of the batch. *)
LEMMA BatchSaveStep == ASSUME IInv, BatchSave PROVE IInv'
<1>1. PICK a \in Starts \cap 0 .. LoSize - 1, v \in Data :
        /\ HasSave /\ Powered
        /\ Begin("batch", SaveWriteStores(a, <<v>>),
                 << <<"wsave", a, v>> >>,
                 st, host, << >>)
  BY DEF BatchSave
<1>2. a \in Nat /\ v \in 0 .. HiSize - 1 /\ kind \in AgbKinds
  BY <1>1, CartAssumption DEF HasSave, AgbKinds
<1>3. Len(<<v>>) = 1 /\ \A i \in 1 .. 1 : <<v>>[i] \in 0 .. HiSize - 1
  BY <1>2
<1>4. GoodRun(kind, {Here}, Here, SaveWriteStores(a, <<v>>), Here)
  BY <1>1, <1>2, <1>3, PoweredIs, SaveWriteRun DEF Powered, Here
<1>5. Between /\ host.on /\ GoodRun(kind, {}, Here, << >>, Here)
  BY <1>1, PoweredIs DEF Powered
<1> QED
  BY <1>1, <1>4, <1>5, StayStep DEF None

(* A save flash, byte by byte. *)
LEMMA SaveBytesStep == ASSUME IInv, SaveBytes PROVE IInv'
<1>1. PICK data \in Pairs :
        /\ kind = "agb_flash" /\ Powered /\ Within(2)
        /\ Begin("save_program", SramProgram(st.address, data, 1),
                 Unlocked("wsave") \o << SaveSpan("wsave", data)[1] >>
           \o Unlocked("wsave") \o << SaveSpan("wsave", data)[2] >>,
                 Stepped(2), Counted(2), << >>)
  BY DEF SaveBytes
<1>2. data \in [1 .. 2 -> 0 .. HiSize - 1]
  BY CartAssumption
<1>3. kind \in AgbKinds /\ Len(data) = 2 /\ MaxAddr \in Nat /\ BufferSize \in Nat
  BY <1>1, <1>2, CartAssumption DEF AgbKinds
<1>4. 2 \in Nat /\ host.address + 2 <= MaxAddr + BufferSize
  BY <1>1, <1>3, HostIs DEF Within
<1>5. GoodRun(kind, {Here}, Here, SramProgram(st.address, data, 1), Here)
  BY <1>1, <1>3, <1>2, PoweredIs, SaveBytesRun DEF Powered, Here
<1>6. Between /\ host.on /\ GoodRun(kind, {}, Here, << >>, Here)
  BY <1>1, PoweredIs DEF Powered
<1> QED
  BY <1>1, <1>4, <1>5, <1>6, MoveStep DEF None

(* The EEPROM. *)
LEMMA EepReadStep == ASSUME IInv, EepRead PROVE IInv'
<1>1. PICK words \in 1 .. 2 :
        /\ kind = "agb_eep" /\ Powered /\ Within(words)
        /\ Begin("eep_read", EepReadStores(st.address, words),
                 Loop(words, LAMBDA w : [i \in 1 .. EepBits |->
           <<"eep", host.address + w, EepDummies + i>>]),
                 Stepped(words), Counted(words), << >>)
  BY DEF EepRead
<1>2. words \in Nat /\ words \in Int /\ MaxAddr \in Nat /\ BufferSize \in Nat
  BY CartAssumption
<1>3. host.address + words <= MaxAddr /\ host.address \in Nat
  BY <1>1, HostIs DEF Within
<1>4. words \in Nat /\ host.address + words <= MaxAddr + BufferSize
  BY <1>2, <1>3
<1>5. GoodRun(kind, {Here}, Here, EepReadStores(st.address, words), Here)
  BY <1>1, <1>2, PoweredIs, EepReadRun DEF Powered, Here
<1>6. Between /\ host.on /\ GoodRun(kind, {}, Here, << >>, Here)
  BY <1>1, PoweredIs DEF Powered
<1> QED
  BY <1>1, <1>4, <1>5, <1>6, MoveStep DEF None

(* The EEPROM, written. *)
LEMMA EepWriteStep == ASSUME IInv, EepWrite PROVE IInv'
<1>1. PICK data \in [1 .. 2 -> [1 .. EepBits -> {0, 1}]] :
        /\ kind = "agb_eep" /\ Powered /\ Within(2)
        /\ Begin("eep_write", EepWriteStores(st.address, data),
                 [i \in 1 .. 2 |-> <<"weep", host.address + i - 1, BitsValue(data[i])>>],
                 Stepped(2), Counted(2), << >>)
  BY DEF EepWrite
<1>2. MaxAddr \in Nat /\ BufferSize \in Nat /\ EepBits \in Nat
  BY CartAssumption, BusAssumption
<1>3. 2 \in Nat /\ host.address + 2 <= MaxAddr + BufferSize
  BY <1>1, <1>2, HostIs DEF Within
<1>4. Len(data) = 2 /\ \A i \in 1 .. 2 : Len(data[i]) = EepBits
  BY <1>2
<1>5. GoodRun(kind, {Here}, Here, EepWriteStores(st.address, data), Here)
  BY <1>1, <1>4, PoweredIs, EepWriteRun DEF Powered, Here
<1>6. Between /\ host.on /\ GoodRun(kind, {}, Here, << >>, Here)
  BY <1>1, PoweredIs DEF Powered
<1> QED
  BY <1>1, <1>3, <1>5, <1>6, MoveStep DEF None

(* Flash on the AGB ROM bus. *)
LEMMA ProgramChunkStep == ASSUME IInv, ProgramChunk PROVE IInv'
<1>1. PICK words \in Pairs :
        /\ kind = "agb_flash" /\ Powered /\ Within(2)
        /\ Begin("program", ChunkStores(st.address, words),
                 << <<"wrom", Unlock1, CmdAA>>, <<"wrom", Unlock2, Cmd55>>,
            <<"wrom", host.address, Cmd25>>, <<"wrom", host.address, 1>>,
            <<"wrom", host.address, words[1]>>, <<"wrom", host.address + 1, words[2]>>,
            <<"wrom", host.address, Cmd29>> >>,
                 Stepped(2), Counted(2), << >>)
  BY DEF ProgramChunk
<1>2. MaxAddr \in Nat /\ BufferSize \in Nat /\ words \in [1 .. 2 -> 0 .. HiSize - 1]
  BY CartAssumption
<1>3. 2 \in Nat /\ host.address + 2 <= MaxAddr + BufferSize
  BY <1>1, <1>2, HostIs DEF Within
<1>4. Here \in {Here}
  OBVIOUS
<1>5. GoodRun(kind, {Here}, Here, ChunkStores(st.address, words), Here)
  BY <1>1, <1>2, <1>4, PoweredIs, ChunkRun DEF Powered, Here
<1>6. Between /\ host.on /\ GoodRun(kind, {}, Here, << >>, Here)
  BY <1>1, PoweredIs DEF Powered
<1> QED
  BY <1>1, <1>3, <1>5, <1>6, MoveStep DEF None

(* Flash on the ROM bus, a word at a time. *)
LEMMA ProgramWordsStep == ASSUME IInv, ProgramWords PROVE IInv'
<1>1. PICK words \in Pairs :
        /\ kind = "agb_flash" /\ Powered /\ Within(2)
        /\ Begin("program", WordStores(st.address, words[1])
                            \o WordStores(st.address + 1, words[2]),
                 Unlocked("wrom") \o << <<"wrom", host.address, words[1]>> >>
           \o Unlocked("wrom") \o << <<"wrom", host.address + 1, words[2]>> >>,
                 Stepped(2), Counted(2), << >>)
  BY DEF ProgramWords
<1>2. MaxAddr \in Nat /\ BufferSize \in Nat /\ words \in [1 .. 2 -> 0 .. HiSize - 1]
  BY CartAssumption
<1>3. 2 \in Nat /\ host.address + 2 <= MaxAddr + BufferSize
  BY <1>1, <1>2, HostIs DEF Within
<1>4. /\ Here \in {Here} /\ st.address + 1 \in Nat
      /\ words[1] \in 0 .. HiSize - 1 /\ words[2] \in 0 .. HiSize - 1
  BY <1>1, <1>2, PoweredIs DEF Powered
<1>5. /\ GoodRun(kind, {Here}, Here, WordStores(st.address, words[1]), Here)
      /\ GoodRun(kind, {Here}, Here, WordStores(st.address + 1, words[2]), Here)
  BY <1>1, <1>4, PoweredIs, WordRun DEF Powered, Here
<1>6. GoodRun(kind, {Here}, Here,
              WordStores(st.address, words[1]) \o WordStores(st.address + 1, words[2]), Here)
  BY <1>5, Then
<1>7. Between /\ host.on /\ GoodRun(kind, {}, Here, << >>, Here)
  BY <1>1, PoweredIs DEF Powered
<1> QED
  BY <1>1, <1>3, <1>6, <1>7, MoveStep DEF None

(* The clock. *)
LEMMA RtcReadRunStep == ASSUME IInv, RtcReadRun PROVE IInv'
<1>1. /\ kind = "agb_rtc" /\ Powered
      /\ Begin("rtc", RtcRead(RtcStatus, RtcDate, DateBytes),
               RtcSpan(RtcStatus, RtcBits) \o << <<"closed", 0, 0>> >>
           \o RtcSpan(RtcDate, RtcBits * DateBytes) \o << <<"closed", 0, 0>> >>,
               st, host, << >>)
  BY DEF RtcReadRun
<1>2. kind \in AgbKinds
  BY <1>1 DEF AgbKinds
<1>3. GoodRun(kind, {Here}, Here, RtcRead(RtcStatus, RtcDate, DateBytes), Here)
  BY <1>1, <1>2, PoweredIs, RtcReadStores DEF Powered, Here
<1>4. Between /\ host.on /\ GoodRun(kind, {}, Here, << >>, Here)
  BY <1>1, PoweredIs DEF Powered
<1> QED
  BY <1>1, <1>3, <1>4, StayStep DEF None

(* The DMG address space is within the bound on ADDRESS. *)
LEMMA SpaceFits ==
  /\ MaxAddr \in Nat /\ BufferSize \in Nat /\ LoSize \in Nat
  /\ LoSize \div 2 <= LoSize /\ LoSize <= MaxAddr + BufferSize
<1>1. LoSize \in Nat /\ LoSize \div 2 <= LoSize
  BY BusAssumption
<1> QED
  BY <1>1, CartAssumption

(* The DMG bus. *)
LEMMA DmgReadRunStep == ASSUME IInv, DmgReadRun PROVE IInv'
<1>1. PICK len \in Transfers, method \in Methods, csPulse \in BOOLEAN :
        /\ Dmg /\ Powered /\ OneSpace(csPulse, len)
        /\ Begin("dmg_read", DmgReadStores(st.address, len, method, csPulse),
                 DmgSpan(len),
                 Stepped(len), Counted(len), << >>)
  BY DEF DmgReadRun
<1>2. len \in Nat
  BY CartAssumption, BusAssumption
<1>3. len \in Nat /\ host.address + len <= MaxAddr + BufferSize
  BY <1>1, <1>2, HostIs, SpaceFits DEF OneSpace, InRam, InRom, A15
<1>4. GoodRun(kind, {Here}, Here, DmgReadStores(st.address, len, method, csPulse), Here)
  BY <1>1, <1>2, PoweredIs, DmgReadsRun DEF Powered, Here
<1>5. Between /\ host.on /\ GoodRun(kind, {}, Here, << >>, Here)
  BY <1>1, PoweredIs DEF Powered
<1> QED
  BY <1>1, <1>3, <1>4, <1>5, MoveStep DEF None

(* A CRC of it. *)
LEMMA DmgCrcStep == ASSUME IInv, DmgCrc PROVE IInv'
<1>1. PICK len \in Transfers, method \in Methods :
        /\ Dmg /\ Powered
        /\ Begin("crc", DmgCrcStores(st.address, len, method),
                 DmgSpan(len),
                 st, host, << >>)
  BY DEF DmgCrc
<1>2. len \in Nat
  BY CartAssumption
<1>3. GoodRun(kind, {Here}, Here, DmgCrcStores(st.address, len, method), Here)
  BY <1>1, <1>2, PoweredIs, DmgCrcRun DEF Powered, Here
<1>4. Between /\ host.on /\ GoodRun(kind, {}, Here, << >>, Here)
  BY <1>1, PoweredIs DEF Powered
<1> QED
  BY <1>1, <1>3, <1>4, StayStep DEF None

(* The ordinary write. *)
LEMMA DmgWriteToStep == ASSUME IInv, DmgWriteTo PROVE IInv'
<1>1. PICK a \in Starts \cap 0 .. LoSize - 1, v \in Data :
        /\ Dmg /\ Powered
        /\ Begin("write", DmgWrite(a, v, a >= A15),
                 << <<IF a < A15 THEN "mbc" ELSE "ram", a, v>> >>,
                 st, host, << >>)
  BY DEF DmgWriteTo
<1>2. a \in Nat /\ v \in 0 .. HiSize - 1
  BY CartAssumption
<1>3. GoodRun(kind, {Here}, Here, DmgWrite(a, v, a >= A15), Here)
  BY <1>1, <1>2, PoweredIs, DmgWriteRun DEF Powered, Here
<1>4. Between /\ host.on /\ GoodRun(kind, {}, Here, << >>, Here)
  BY <1>1, PoweredIs DEF Powered
<1> QED
  BY <1>1, <1>3, <1>4, StayStep DEF None

(* The cartridge's RAM. *)
LEMMA DmgSaveWriteStep == ASSUME IInv, DmgSaveWrite PROVE IInv'
<1>1. PICK data \in Pairs :
        /\ Dmg /\ Powered /\ InRam(2)
        /\ Begin("save_write", Loop(2, LAMBDA i : DmgWrite(st.address + i, data[i + 1], TRUE)),
                 [i \in 1 .. 2 |-> <<"ram", host.address + i - 1, data[i]>>],
                 Stepped(2), Counted(2), << >>)
  BY DEF DmgSaveWrite
<1>2. data \in [1 .. 2 -> 0 .. HiSize - 1]
  BY CartAssumption, BusAssumption
<1>3. 2 \in Nat /\ host.address + 2 <= MaxAddr + BufferSize
  BY <1>1, <1>2, HostIs, SpaceFits DEF OneSpace, InRam, InRom, A15
<1>4. GoodRun(kind, {Here}, Here, Loop(2, LAMBDA i : DmgWrite(st.address + i, data[i + 1], TRUE)),
              Here)
  BY <1>1, <1>2, PoweredIs, DmgSaveRun DEF Powered, Here
<1>5. Between /\ host.on /\ GoodRun(kind, {}, Here, << >>, Here)
  BY <1>1, PoweredIs DEF Powered
<1> QED
  BY <1>1, <1>3, <1>4, <1>5, MoveStep DEF None

(* A write through the flash's own pin. *)
LEMMA DmgFlashWriteStep == ASSUME IInv, DmgFlashWrite PROVE IInv'
<1>1. PICK a \in Starts \cap 0 .. A15 - 1, v \in Data :
        /\ Dmg /\ Powered /\ RightPin
        /\ Begin("write", DmgWriteRaw(a, v, FALSE, st.we),
                 FlashSaw(a, v),
                 st, host, << >>)
  BY DEF DmgFlashWrite
<1>2. a \in Nat /\ v \in 0 .. HiSize - 1
  BY CartAssumption
<1>3. kind \in DmgKinds /\ (st.we = "AUDIO" => Au(st) = "high")
  BY <1>1, PinIs, PoweredIs DEF Powered
<1>4. GoodRun(kind, {Here}, Here, DmgWriteRaw(a, v, FALSE, st.we), Here)
  BY <1>1, <1>2, <1>3, PoweredIs, DmgWriteRawRun DEF Powered, Here
<1>5. Between /\ host.on /\ GoodRun(kind, {}, Here, << >>, Here)
  BY <1>1, PoweredIs DEF Powered
<1> QED
  BY <1>1, <1>4, <1>5, StayStep DEF None

(* Flash on the DMG bus. *)
LEMMA DmgBypassProgramStep == ASSUME IInv, DmgBypassProgram PROVE IInv'
<1>1. PICK data \in Pairs :
        /\ kind = "dmg" /\ Powered /\ InRom(2)
        /\ Begin("program", BypassEnter \o BypassByte(st.address, data[1])
               \o BypassByte(st.address + 1, data[2]) \o BypassExit(st.address),
                 << <<"mbc", Unlock1, CmdAA>>, <<"mbc", Unlock2, Cmd55>>,
            <<"mbc", Unlock1, Cmd20>>,
            <<"mbc", host.address, CmdA0>>, <<"mbc", host.address, data[1]>>,
            <<"mbc", host.address + 1, CmdA0>>, <<"mbc", host.address + 1, data[2]>>,
            <<"mbc", host.address, Cmd90>>, <<"mbc", host.address, 0>> >>,
                 Stepped(2), Counted(2), BypassExit(st.address))
  BY DEF DmgBypassProgram
<1>2. data \in [1 .. 2 -> 0 .. HiSize - 1]
  BY CartAssumption, BusAssumption
<1>3. 2 \in Nat /\ host.address + 2 <= MaxAddr + BufferSize
  BY <1>1, <1>2, HostIs, SpaceFits DEF OneSpace, InRam, InRom, A15
<1>4. Here \in {Here} /\ kind \in DmgKinds
  BY <1>1 DEF DmgKinds
<1>5. GoodRun(kind, {Here}, Here, BypassEnter \o BypassByte(st.address, data[1])
               \o BypassByte(st.address + 1, data[2]) \o BypassExit(st.address), Here)
  BY <1>1, <1>2, <1>4, PoweredIs, BypassRun DEF Powered, Here
<1>6. Between /\ host.on /\ GoodRun(kind, {}, Here, BypassExit(st.address), Here)
  BY <1>1, <1>4, PoweredIs, TailRuns DEF Powered, Here
<1> QED
  BY <1>1, <1>3, <1>5, <1>6, MoveStep DEF None

(* Its buffer. *)
LEMMA DmgBufferProgramStep == ASSUME IInv, DmgBufferProgram PROVE IInv'
<1>1. PICK data \in Pairs :
        /\ kind = "dmg" /\ Powered /\ InRom(2)
        /\ Begin("program", DmgBufferStores(st.address, data),
                 << <<"mbc", Unlock1, CmdAA>>, <<"mbc", Unlock2, Cmd55>>,
            <<"mbc", host.address, Cmd25>>, <<"mbc", host.address, 1>>,
            <<"mbc", host.address, data[1]>>, <<"mbc", host.address + 1, data[2]>>,
            <<"mbc", host.address, Cmd29>> >>,
                 Stepped(2), Counted(2), << >>)
  BY DEF DmgBufferProgram
<1>2. data \in [1 .. 2 -> 0 .. HiSize - 1]
  BY CartAssumption, BusAssumption
<1>3. 2 \in Nat /\ host.address + 2 <= MaxAddr + BufferSize
  BY <1>1, <1>2, HostIs, SpaceFits DEF OneSpace, InRam, InRom, A15
<1>4. Here \in {Here} /\ kind \in DmgKinds
  BY <1>1 DEF DmgKinds
<1>5. GoodRun(kind, {Here}, Here, DmgBufferStores(st.address, data), Here)
  BY <1>1, <1>2, <1>4, PoweredIs, BufferRun DEF Powered, Here
<1>6. Between /\ host.on /\ GoodRun(kind, {}, Here, << >>, Here)
  BY <1>1, PoweredIs DEF Powered
<1> QED
  BY <1>1, <1>3, <1>5, <1>6, MoveStep DEF None

(* Its bytes where the burst may not be used. *)
LEMMA DmgByteProgramStep == ASSUME IInv, DmgByteProgram PROVE IInv'
<1>1. PICK v \in Data, pulse \in BOOLEAN :
        /\ Dmg /\ Powered /\ InRom(1) /\ RightPin
        /\ Begin("program", DmgUnlockByte(st.address, v, pulse) \o DmgBurstRelease,
                 FlashSaw(Unlock1, CmdAA) \o FlashSaw(Unlock2, Cmd55)
           \o FlashSaw(Unlock1, CmdA0) \o FlashSaw(host.address, v)
           \o (IF pulse THEN << <<"reset", 0, 0>> >> ELSE << >>),
                 Stepped(1), Counted(1), DmgBurstRelease)
  BY DEF DmgByteProgram
<1>2. v \in 0 .. HiSize - 1
  BY CartAssumption, BusAssumption
<1>3. 1 \in Nat /\ host.address + 1 <= MaxAddr + BufferSize
  BY <1>1, <1>2, HostIs, SpaceFits DEF OneSpace, InRam, InRom, A15
<1>4. Here \in {Here} /\ kind \in DmgKinds /\ (st.we = "AUDIO" => Au(st) = "high")
  BY <1>1, PinIs, PoweredIs DEF Powered
<1>5. GoodRun(kind, {Here}, Here, DmgUnlockByte(st.address, v, pulse) \o DmgBurstRelease, Here)
  BY <1>1, <1>2, <1>4, PoweredIs, UnlockByteRun DEF Powered, Here
<1>6. Between /\ host.on /\ GoodRun(kind, {}, Here, DmgBurstRelease, Here)
  BY <1>1, PoweredIs, TailRuns DEF Powered, Here
<1> QED
  BY <1>1, <1>3, <1>5, <1>6, MoveStep DEF None

(* The mapper's reset. *)
LEMMA MbcResetStep == ASSUME IInv, MbcReset PROVE IInv'
<1>1. /\ Dmg /\ Powered
      /\ Begin("mbc_reset", DmgMbcReset,
               << <<"reset", 0, 0>> >>,
               st, host, << >>)
  BY DEF MbcReset
<1>2. GoodRun(kind, {Here}, Here, DmgMbcReset, Here)
  BY <1>1, PoweredIs, ResetRun DEF Powered, Here, DmgMbcReset
<1>3. Between /\ host.on /\ GoodRun(kind, {}, Here, << >>, Here)
  BY <1>1, PoweredIs DEF Powered
<1> QED
  BY <1>1, <1>2, <1>3, StayStep DEF None

(* Pulses of CLK. *)
LEMMA ClkPulsesRunStep == ASSUME IInv, ClkPulsesRun PROVE IInv'
<1>1. /\ Dmg /\ Powered
      /\ Begin("clk_pulses", ClkPulses(2),
               << >>,
               st, host, << >>)
  BY DEF ClkPulsesRun
<1>2. GoodRun(kind, {Here}, Here, ClkPulses(2), Here)
  BY <1>1, PoweredIs, ClkRun DEF Powered, Here
<1>3. Between /\ host.on /\ GoodRun(kind, {}, Here, << >>, Here)
  BY <1>1, PoweredIs DEF Powered
<1> QED
  BY <1>1, <1>2, <1>3, StayStep DEF None

(* Method 2 of the save chip: two pages. *)
LEMMA SavePagesStep == ASSUME IInv, SavePages PROVE IInv'
<1>1. PICK v, stores, meant, data :
        /\ v \in Data /\ data = [i \in 1 .. 2 * Sector |-> v]
        /\ stores = SramProgram(st.address, data, 2)
        /\ kind = "agb_sram" /\ Powered /\ Within(2)
        /\ Begin("save_pages", stores, meant, Stepped(Len(data) \div Sector), Counted(2), << >>)
  BY DEF SavePages
<1>2. /\ v \in 0 .. HiSize - 1 /\ MaxAddr \in Nat /\ BufferSize \in Nat
      /\ Sector \in Nat /\ Sector > 0
  BY <1>1, CartAssumption, BusAssumption
<1>3. /\ 2 * Sector \in Nat /\ Len(data) = 2 * Sector
      /\ \A i \in 1 .. Len(data) : data[i] \in 0 .. HiSize - 1
  BY <1>1, <1>2
<1>4. (2 * Sector) \div Sector = 2
  BY <1>2
<1>5. Begin("save_pages", stores, meant, Stepped(2), Counted(2), << >>)
  BY <1>1, <1>3, <1>4
<1>6. kind \in AgbKinds
  BY <1>1 DEF AgbKinds
<1>7. GoodRun(kind, {Here}, Here, stores, Here)
  BY <1>1, <1>3, <1>6, PoweredIs, SavePagesRun DEF Powered, Here
<1>8. 2 \in Nat /\ host.address + 2 <= MaxAddr + BufferSize
  BY <1>1, <1>2, HostIs DEF Within
<1>9. Between /\ host.on /\ GoodRun(kind, {}, Here, << >>, Here)
  BY <1>1, PoweredIs DEF Powered
<1> QED
  BY <1>5, <1>7, <1>8, <1>9, MoveStep DEF None

(* The bus is floated, or pulled up. *)
LEMMA FloatBusStep == ASSUME IInv, FloatBus PROVE IInv'
<1>1. PICK name, stores :
        /\ name \in {"tristate", "pullups"} /\ stores = << PaRelease, HiRelease >> /\ Powered
        /\ Begin(name, stores, << >>, st, host, << >>)
  BY DEF FloatBus, Tristate, Pullups
<1>2. GoodRun(kind, {Here}, Here, stores, Here)
  BY <1>1, PoweredIs, FloatRun DEF Powered, Here
<1>3. Between /\ host.on /\ GoodRun(kind, {}, Here, << >>, Here)
  BY <1>1, PoweredIs DEF Powered
<1>4. name # None
  BY <1>1 DEF None
<1> QED
  BY <1>1, <1>2, <1>3, <1>4, StayStep

(* A command with no tail and no read in it. *)
LEMMA PlainStep ==
  ASSUME IInv, NEW name, name # None, name \notin Readers, NEW stores, NEW s, NEW h,
         Begin(name, stores, << >>, s, h, << >>), Agree(kind, s, h), ~(h.done > 0),
         GoodRun(kind, {}, End(kind, st, host), stores, End(kind, s, h))
  PROVE  IInv'
<1>1. {} \in SUBSET Mode
  OBVIOUS
<1> QED
  BY <1>1, BeginStep

(* ADDRESS is set, with the rail on or off. *)
LEMMA SetAddressStep == ASSUME IInv, SetAddress PROVE IInv'
<1>1. PICK a, s, h :
        /\ a \in Starts /\ Between /\ s = [st EXCEPT !.address = a]
        /\ h = [host EXCEPT !.address = a]
        /\ Begin("set_address", << >>, << >>, s, h, << >>)
  BY DEF SetAddress
<1>2. kind \in AgbKinds \cup DmgKinds /\ Agree(kind, st, host) /\ host.done = 0
  BY <1>1 DEF IInv, Sides, Between
<1>3. a \in 0 .. MaxAddr + BufferSize
  BY <1>1, CartAssumption
<1>4. s \in States /\ s.address = a /\ s.page = st.page /\ s.audioOut = st.audioOut
  BY <1>1, <1>2, <1>3 DEF Agree, States
<1>5. /\ h \in Hosts /\ h.address = a /\ h.done = host.done /\ h.on = host.on
      /\ h.been = host.been /\ h.audio = host.audio
  BY <1>1, <1>2, <1>3 DEF Agree, Hosts
<1>6. ~(h.done > 0)
  BY <1>2, <1>5
<1>7. Agree(kind, s, h)
  BY <1>2, <1>4, <1>5, <1>6 DEF Agree
<1>8. End(kind, s, h) = End(kind, st, host)
  BY <1>4, <1>5 DEF End, Au
<1>9. GoodRun(kind, {}, End(kind, st, host), << >>, End(kind, s, h))
  BY <1>2, <1>8, EndIs, LeRefl, Skip
<1>10. "set_address" # None /\ "set_address" \notin Readers
  BY DEF None, Readers
<1> QED
  BY <1>1, <1>6, <1>7, <1>9, <1>10, PlainStep

(* The rail comes on, from wherever it was. *)
LEMMA PowerOnStep == ASSUME IInv, PowerOn PROVE IInv'
<1>1. PICK s, h :
        /\ Between /\ s = st /\ h = [host EXCEPT !.on = TRUE, !.been = TRUE]
        /\ Begin("power_on", PowerOnStores(st.audioOut), << >>, s, h, << >>)
  BY DEF PowerOn
<1>2. kind \in AgbKinds \cup DmgKinds /\ Agree(kind, st, host) /\ host.done = 0
  BY <1>1 DEF IInv, Sides, Between
<1>3. st.page = 0 /\ st.audioOut \in BOOLEAN /\ Au(st) \in Levels
  BY <1>2, AuIs DEF Agree, States
<1>4. /\ h \in Hosts /\ h.address = host.address /\ h.done = host.done /\ h.on /\ h.been
      /\ h.audio = host.audio
  BY <1>1, <1>2 DEF Agree, Hosts
<1>5. ~(h.done > 0)
  BY <1>2, <1>4
<1>6. Agree(kind, st, h)
  BY <1>2, <1>4, <1>5 DEF Agree
<1>7. End(kind, st, h) = Here
  BY <1>3, <1>4 DEF End, Here
<1>8. PICK bus \in {"live", "off", "dead"} :
        Le(End(kind, st, host),
           At(bus, {}, IF bus = "live" THEN Au(st) ELSE "in", "any",
              IF kind \in DmgKinds THEN "in" ELSE "any", "any", "rest", 0, "no"))
  <2>1. CASE host.on
    <3>1. End(kind, st, host) = Here
      BY <1>3, <2>1 DEF End, Here
    <3>2. Le(Here, At("live", {}, Au(st), "any", IF kind \in DmgKinds THEN "in" ELSE "any", "any",
                      "rest", 0, "no"))
      BY DEF Here, Rest, Live, At, Le
    <3> QED
      BY <3>1, <3>2
  <2>2. CASE ~host.on /\ host.been
    <3>1. End(kind, st, host) = RestOff
      BY <1>3, <2>2 DEF End
    <3>2. Le(RestOff, At("off", {}, "in", "any", IF kind \in DmgKinds THEN "in" ELSE "any", "any",
                         "rest", 0, "no"))
      BY DEF RestOff, At, Le
    <3> QED
      BY <3>1, <3>2
  <2>3. CASE ~host.on /\ ~host.been
    <3>1. End(kind, st, host) = RestDead
      BY <1>3, <2>3 DEF End
    <3>2. Le(RestDead, At("dead", {}, "in", "any", IF kind \in DmgKinds THEN "in" ELSE "any", "any",
                          "rest", 0, "no"))
      BY DEF RestDead, At, Le
    <3> QED
      BY <3>1, <3>2
  <2> QED
    BY <2>1, <2>2, <2>3
<1>9. GoodRun(kind, {}, End(kind, st, host), PowerOnStores(st.audioOut), End(kind, st, h))
  BY <1>2, <1>3, <1>7, <1>8, PowerOnRun DEF Au, Here
<1>10. "power_on" # None /\ "power_on" \notin Readers
  BY DEF None, Readers
<1>11. Agree(kind, s, h)
       /\ GoodRun(kind, {}, End(kind, st, host), PowerOnStores(st.audioOut), End(kind, s, h))
  BY <1>1, <1>6, <1>9
<1> QED
  BY <1>1, <1>5, <1>10, <1>11, PlainStep

(* And goes off. *)
LEMMA PowerOffStep == ASSUME IInv, PowerOff PROVE IInv'
<1>1. PICK s, h :
        /\ Between /\ host.on /\ s = st /\ h = [host EXCEPT !.on = FALSE]
        /\ Begin("power_off", PowerOffStores, << >>, s, h, << >>)
  BY DEF PowerOff
<1>2. kind \in AgbKinds \cup DmgKinds /\ Agree(kind, st, host) /\ host.done = 0
  BY <1>1 DEF IInv, Sides, Between
<1>3. /\ h \in Hosts /\ h.address = host.address /\ h.done = host.done /\ ~h.on
      /\ h.been = host.been
      /\ h.audio = host.audio
  BY <1>1, <1>2 DEF Agree, Hosts
<1>4. ~(h.done > 0)
  BY <1>2, <1>3
<1>5. Agree(kind, st, h)
  BY <1>2, <1>3, <1>4 DEF Agree
<1>6. End(kind, st, host) = Here /\ Au(st) \in Levels /\ End(kind, st, h) = RestOff
  BY <1>1, <1>2, <1>3, PoweredIs DEF End, Agree
<1>7. GoodRun(kind, {}, End(kind, st, host), PowerOffStores, End(kind, st, h))
  BY <1>2, <1>6, RailOffRun DEF Here
<1>8. "power_off" # None /\ "power_off" \notin Readers
  BY DEF None, Readers
<1>9. Agree(kind, s, h) /\ GoodRun(kind, {}, End(kind, st, host), PowerOffStores, End(kind, s, h))
  BY <1>1, <1>5, <1>7
<1> QED
  BY <1>1, <1>4, <1>8, <1>9, PlainStep

(* A command that turns AUDIO. *)
LEMMA AudioTurns ==
  ASSUME IInv, Between, host.on, NEW name \in {"audio", "we_pin"}, NEW stores, NEW s, NEW h,
         Begin(name, stores, << >>, s, h, << >>),
         s \in States, s.address = st.address, s.page = st.page,
         h \in Hosts, h.address = host.address, h.done = host.done, h.on = host.on,
         h.been = host.been,
         kind = "dmg_audio" => s.audioOut = h.audio,
         GoodRun(kind, {}, Here, stores, Rest(kind, Au(s), "no"))
  PROVE  IInv'
<1>1. End(kind, st, host) = Here /\ Agree(kind, st, host) /\ st.page = 0 /\ host.done = 0
  BY PoweredIs DEF Between
<1>2. ~(h.done > 0)
  BY <1>1
<1>3. Agree(kind, s, h)
  BY <1>1, <1>2 DEF Agree
<1>4. End(kind, s, h) = Rest(kind, Au(s), "no")
  BY <1>1 DEF End
<1>5. GoodRun(kind, {}, End(kind, st, host), stores, End(kind, s, h))
  BY <1>1, <1>4
<1>6. {} \in SUBSET Mode /\ name # None /\ name \notin Readers
  BY DEF None, Readers
<1> QED
  BY <1>2, <1>3, <1>5, <1>6, BeginStep

(* AUDIO by level: high. *)
LEMMA AudioHighStep == ASSUME IInv, AudioHigh PROVE IInv'
<1>1. PICK s :
        /\ Powered /\ kind # "dmg_audio" /\ s = [st EXCEPT !.audioOut = TRUE]
        /\ Begin("audio", AudioDrive(TRUE), << >>, s, host, << >>)
  BY DEF AudioHigh
<1>2. Agree(kind, st, host) /\ kind \in AgbKinds \cup DmgKinds /\ Au(st) \in Levels
      /\ "no" \in Polled
      /\ Between /\ host.on
  BY <1>1, PoweredIs DEF Powered
<1>3. s \in States /\ s.address = st.address /\ s.page = st.page /\ s.audioOut /\ host \in Hosts
  BY <1>1, <1>2 DEF Agree, States
<1>4. AudioDrive(TRUE) = << Drive({"audio"}), High({"audio"}) >>
  BY DEF AudioDrive
<1>5. GoodRun(kind, {}, Here, AudioDrive(TRUE), Rest(kind, Au(s), "no"))
  BY <1>1, <1>2, <1>3, <1>4, AudioHighRun DEF Here, Au
<1> QED
  BY <1>1, <1>2, <1>3, <1>5, AudioTurns

(* AUDIO by level: low. *)
LEMMA AudioLowStep == ASSUME IInv, AudioLow PROVE IInv'
<1>1. PICK s :
        /\ Powered /\ ~host.audio /\ s = [st EXCEPT !.audioOut = FALSE]
        /\ Begin("audio", AudioDrive(FALSE), << >>, s, host, << >>)
  BY DEF AudioLow
<1>2. Agree(kind, st, host) /\ kind \in AgbKinds \cup DmgKinds /\ Au(st) \in Levels
      /\ "no" \in Polled
      /\ Between /\ host.on
  BY <1>1, PoweredIs DEF Powered
<1>3. s \in States /\ s.address = st.address /\ s.page = st.page /\ s.audioOut = FALSE
      /\ host \in Hosts
      /\ host.audio = FALSE
  BY <1>1, <1>2 DEF Agree, States, Hosts
<1>4. AudioDrive(FALSE) = << Low({"audio"}), Release({"audio"}) >>
  BY DEF AudioDrive
<1>5. kind = "dmg_audio" => Au(st) = "in"
  BY <1>2, <1>3 DEF Agree, Au
<1>6. GoodRun(kind, {}, Here, AudioDrive(FALSE), Rest(kind, "in", "no"))
  BY <1>2, <1>4, <1>5, AudioLowRun DEF Here
<1>7. Au(s) = "in"
  BY <1>3 DEF Au
<1> QED
  BY <1>1, <1>2, <1>3, <1>6, <1>7, AudioTurns

(* The pin of the flash's /WE is chosen. *)
LEMMA SetWeStep == ASSUME IInv, SetWe PROVE IInv'
<1>1. PICK we, s, h :
        /\ we \in {"WR", "AUDIO", "WR_RESET"} /\ Powered
        /\ s = [st EXCEPT !.we = we, !.audioOut = (we = "AUDIO")]
        /\ h = [host EXCEPT !.audio = (we = "AUDIO")]
        /\ Begin("we_pin", SetWePin(we), << >>, s, h, << >>)
  BY DEF SetWe
<1>2. Agree(kind, st, host) /\ kind \in AgbKinds \cup DmgKinds /\ Au(st) \in Levels
      /\ "no" \in Polled
      /\ Between /\ host.on
  BY <1>1, PoweredIs DEF Powered
<1>3. s \in States /\ s.address = st.address /\ s.page = st.page /\ s.audioOut = (we = "AUDIO")
  BY <1>1, <1>2 DEF Agree, States
<1>4. /\ h \in Hosts /\ h.address = host.address /\ h.done = host.done /\ h.on = host.on
      /\ h.been = host.been /\ h.audio = (we = "AUDIO")
  BY <1>1, <1>2 DEF Agree, Hosts
<1>5. Au(s) = IF we = "AUDIO" THEN "high" ELSE "in"
  BY <1>3 DEF Au
<1>6. GoodRun(kind, {}, Here, SetWePin(we), Rest(kind, Au(s), "no"))
  BY <1>2, <1>5, SetWeRun DEF Here
<1> QED
  BY <1>1, <1>2, <1>3, <1>4, <1>6, AudioTurns

(* A page half read, or none: what both sides know of it. *)
LEMMA PageIs ==
  ASSUME IInv, kind = "agb_3d", host.on, host.address # NoAt,
         host.done > 0 \/ host.address + BufferSize \div 2 <= MaxAddr
  PROVE  /\ Agree(kind, st, host) /\ Due(st, host) /\ kind \in AgbKinds /\ Au(st) \in Levels
         /\ "no" \in Polled
         /\ host.address = st.address /\ st.address \in Nat
         /\ st.address + BufferSize \div 2 <= MaxAddr
         /\ BufferSize \in Nat \ {0} /\ MaxAddr \in Nat /\ BufferSize \div 2 \in Nat
<1>1. Agree(kind, st, host) /\ Due(st, host) /\ kind \in AgbKinds /\ "no" \in Polled
  BY DEF IInv, Sides, AgbKinds, Polled
<1>2. host.address = st.address /\ st \in States
  BY <1>1 DEF Agree
<1>3. BufferSize \in Nat \ {0} /\ MaxAddr \in Nat /\ BufferSize \div 2 \in Nat
  BY CartAssumption
<1>4. st.address \in Nat
  BY <1>2, <1>3 DEF States
<1>5. st.address + BufferSize \div 2 <= MaxAddr
  BY <1>1, <1>2 DEF Agree
<1>6. Au(st) \in Levels
  BY <1>2, AuIs
<1> QED
  BY <1>1, <1>2, <1>3, <1>4, <1>5, <1>6

(* Both sides after a page, or after more of it. *)
LEMMA PageAfter ==
  ASSUME IInv, kind = "agb_3d", host.on, host.address # NoAt,
         host.done > 0 \/ host.address + BufferSize \div 2 <= MaxAddr
  PROVE  /\ Agree(kind, PageEnded, HostPaged) /\ ~(HostPaged.done > 0)
         /\ End(kind, PageEnded, HostPaged) = Here
         /\ \A len \in Nat \ {0} :
              LET s == [st EXCEPT !.page = @ + len]
                  h == [host EXCEPT !.done = @ + len] IN
              Agree(kind, s, h) /\ End(kind, s, h) = Page(Au(st), "no")
<1>1. /\ Agree(kind, st, host)
      /\ host.address = st.address /\ st.address \in Nat
      /\ st.address + BufferSize \div 2 <= MaxAddr
      /\ BufferSize \in Nat \ {0} /\ MaxAddr \in Nat /\ BufferSize \div 2 \in Nat
  BY PageIs
<1>2. st \in States /\ host \in Hosts /\ st.page = host.done /\ st.page \in Nat /\ host.been
  BY <1>1 DEF Agree, States
<1>3. st.address + BufferSize \div 2 \in 0 .. MaxAddr + BufferSize
  BY <1>1
<1>4. /\ PageEnded \in States /\ PageEnded.address = st.address + BufferSize \div 2
      /\ PageEnded.page = 0
      /\ PageEnded.audioOut = st.audioOut
  BY <1>2, <1>3 DEF PageEnded, States
<1>5. /\ HostPaged \in Hosts /\ HostPaged.address = st.address + BufferSize \div 2
      /\ HostPaged.done = 0
      /\ HostPaged.on /\ HostPaged.been
  <2>1. HostPaged.address = st.address + BufferSize \div 2
    BY <1>1, <1>2 DEF HostPaged, Hosts
  <2> QED
    BY <1>2, <1>3, <2>1 DEF HostPaged, Hosts
<1>6. ~(HostPaged.done > 0)
  BY <1>5
<1>7. Agree(kind, PageEnded, HostPaged)
  BY <1>4, <1>5, <1>6 DEF Agree
<1>8. End(kind, PageEnded, HostPaged) = Here
  BY <1>4, <1>5 DEF End, Here, Au
<1>9. ASSUME NEW len \in Nat \ {0}, NEW s, NEW h,
             s = [st EXCEPT !.page = @ + len], h = [host EXCEPT !.done = @ + len]
      PROVE  Agree(kind, s, h) /\ End(kind, s, h) = Page(Au(st), "no")
  <2>1. s \in States /\ s.address = st.address /\ s.page = st.page + len /\ s.audioOut = st.audioOut
    BY <1>2, <1>9 DEF States
  <2>2. /\ h \in Hosts /\ h.address = host.address /\ h.done = st.page + len /\ h.on /\ h.been
    <3>1. host.done \in Nat
      BY <1>2
    <3> QED
      BY <1>2, <1>9, <3>1 DEF Hosts
  <2>3. s.page > 0
    BY <1>2, <2>1
  <2>4. Agree(kind, s, h)
    BY <1>1, <2>1, <2>2 DEF Agree
  <2> QED
    BY <2>1, <2>3, <2>4 DEF End, Au
<1> QED
  BY <1>6, <1>7, <1>8, <1>9

(* A 3D page: opened by its first read, closed by its last. *)
LEMMA Read3dStep == ASSUME IInv, Read3d PROVE IInv'
<1>1. PICK len, meant, s, h :
        /\ len \in Transfers /\ kind = "agb_3d" /\ host.on /\ Within(BufferSize \div 2)
        /\ host.done + len <= BufferSize
        /\ s = (IF st.page + len >= BufferSize THEN PageEnded ELSE [st EXCEPT !.page = @ + len])
        /\ h = (IF host.done + len >= BufferSize THEN HostPaged ELSE [host EXCEPT !.done = @ + len])
        /\ Begin("read_3d", Read3dStores(len), meant, s, h, << >>)
  BY DEF Read3d
<1>2. len \in Nat \ {0} /\ len \div 2 \in Int
  BY <1>1, CartAssumption
<1>3. host.address \in Nat /\ host.address + BufferSize \div 2 <= MaxAddr /\ host.address # NoAt
  <2>1. host.address \in Nat
    BY HostIs
  <2>2. host.address + BufferSize \div 2 <= MaxAddr
    BY <1>1 DEF Within
  <2>3. MaxAddr \in Nat /\ BufferSize \in Nat
    BY CartAssumption
  <2>4. BufferSize \div 2 \in Nat
    BY <2>3
  <2>5. MaxAddr + BufferSize < NoAt
    BY CartAssumption DEF NoAt
  <2>6. NoAt \in Nat
    BY BusAssumption DEF NoAt
  <2> QED
    BY <2>1, <2>2, <2>3, <2>4, <2>5, <2>6
<1>4. /\ Agree(kind, st, host) /\ kind \in AgbKinds /\ Au(st) \in Levels /\ "no" \in Polled
      /\ st.address \in 0 .. MaxAddr /\ BufferSize \in Nat
  BY <1>1, <1>3, PageIs
<1>5. st.page = host.done
  BY <1>4 DEF Agree
<1> DEFINE P == Page(Au(st), "no")
           e == End(kind, st, host)
           open == IF st.page = 0 THEN M3dOpen(st.address, BufferSize) ELSE << >>
           close == IF st.page + len >= BufferSize THEN M3dClose ELSE << >>
<1>6. P \in Mode /\ Calm(kind, P)
  BY <1>4, AgbModes
<1>7. GoodRun(kind, {}, e, open, P)
  <2>1. CASE st.page = 0
    <3>1. e = Here
      BY <1>1, <2>1 DEF End, Here
    <3>2. GoodRun(kind, {}, Here, M3dOpen(st.address, BufferSize), P)
      BY <1>4, M3dOpenRun DEF Here
    <3> QED
      BY <2>1, <3>1, <3>2
  <2>2. CASE st.page # 0
    <3>1. st.page \in Nat
      BY <1>4 DEF Agree, States
    <3>2. e = P
      BY <2>2, <3>1 DEF End
    <3>3. GoodRun(kind, {}, P, << >>, P)
      BY <1>6, LeRefl, Skip
    <3> QED
      BY <2>2, <3>2, <3>3
  <2> QED
    BY <2>1, <2>2
<1>8. GoodRun(kind, {}, P, M3dRead(len \div 2), P)
  BY <1>2, <1>4, AgbBurstRun DEF M3dRead
<1>9. Agree(kind, s, h) /\ GoodRun(kind, {}, P, close, End(kind, s, h))
  <2>1. CASE st.page + len >= BufferSize
    <3>1. s = PageEnded /\ h = HostPaged
      BY <1>1, <1>5, <2>1
    <3>2. Agree(kind, s, h) /\ End(kind, s, h) = Here
      BY <1>1, <1>3, <3>1, PageAfter
    <3>3. GoodRun(kind, {}, P, M3dClose, Here)
      BY <1>4, AgbCloseRun DEF Here, M3dClose, AgbClose
    <3> QED
      BY <2>1, <3>2, <3>3
  <2>2. CASE ~(st.page + len >= BufferSize)
    <3>1. s = [st EXCEPT !.page = @ + len] /\ h = [host EXCEPT !.done = @ + len]
      BY <1>1, <1>5, <2>2
    <3>2. Agree(kind, s, h) /\ End(kind, s, h) = P
      BY <1>1, <1>2, <1>3, <3>1, PageAfter
    <3>3. GoodRun(kind, {}, P, << >>, P)
      BY <1>6, LeRefl, Skip
    <3> QED
      BY <2>2, <3>2, <3>3
  <2> QED
    BY <2>1, <2>2
<1> HIDE DEF P, e, open, close
<1>10. PICK stores : stores = open \o M3dRead(len \div 2) \o close
  OBVIOUS
<1>11. GoodRun(kind, {}, e, stores, End(kind, s, h))
  <2>1. GoodRun(kind, {}, e, open \o M3dRead(len \div 2), P)
    BY <1>7, <1>8, Then
  <2> QED
    BY <1>9, <1>10, <2>1, Then
<1>12. stores = Read3dStores(len)
  BY <1>10 DEF Read3dStores, open, close
<1>13. Begin("read_3d", stores, meant, s, h, << >>)
  BY <1>1, <1>12
<1>14. PICK T : T = {}
  OBVIOUS
<1>15. /\ GoodRun(kind, T, End(kind, st, host), stores, End(kind, s, h)) /\ T \in SUBSET Mode
       /\ \A t \in T : GoodRun(kind, {}, t, << >>, End(kind, s, h))
  BY <1>11, <1>14 DEF e
<1>16. "read_3d" # None /\ "read_3d" \notin Readers
  BY DEF None, Readers
<1> QED
  BY <1>9, <1>13, <1>15, <1>16, BeginStep

(* The page's terminator. *)
LEMMA PageEndStep == ASSUME IInv, PageEnd PROVE IInv'
<1> DEFINE ends == st.due /\ st.page # 0
<1>1. PICK stores, s, h :
        /\ kind = "agb_3d" /\ host.on /\ host.address # NoAt
        /\ stores = (IF ends THEN M3dClose ELSE << >>)
        /\ s = (IF ends THEN PageEnded ELSE st)
        /\ h = (IF host.done = 0 THEN host ELSE HostPaged)
        /\ Begin("page_end", stores, << >>, s, h, << >>)
  BY DEF PageEnd
<1>2. Agree(kind, st, host) /\ Due(st, host) /\ kind \in AgbKinds
  BY <1>1 DEF IInv, Sides, AgbKinds
<1>3. st.page = host.done /\ st.page \in Nat /\ st.due \in BOOLEAN /\ Au(st) \in Levels
      /\ "no" \in Polled
  BY <1>2, AuIs DEF Agree, States, Polled
<1>4. "page_end" # None /\ "page_end" \notin Readers
  BY DEF None, Readers
<1>5. CASE host.done = 0
  <2>1. stores = << >> /\ s = st /\ h = host /\ ~(h.done > 0)
    BY <1>1, <1>3, <1>5
  <2>2. GoodRun(kind, {}, End(kind, st, host), << >>, End(kind, st, host))
    BY <1>2, EndIs, LeRefl, Skip
  <2>3. Agree(kind, s, h) /\ GoodRun(kind, {}, End(kind, st, host), stores, End(kind, s, h))
    BY <1>2, <2>1, <2>2
  <2> QED
    BY <1>1, <1>4, <2>1, <2>3, PlainStep
<1>6. CASE host.done # 0
  <2>1. host.done > 0 /\ st.due
    BY <1>2, <1>3, <1>6 DEF Due
  <2>2. stores = M3dClose /\ s = PageEnded /\ h = HostPaged
    BY <1>1, <1>3, <1>6, <2>1
  <2>3. Agree(kind, s, h) /\ ~(h.done > 0) /\ End(kind, s, h) = Here
    BY <1>1, <2>1, <2>2, PageAfter
  <2>4. End(kind, st, host) = Page(Au(st), "no")
    BY <1>3, <2>1 DEF End
  <2>5. GoodRun(kind, {}, Page(Au(st), "no"), M3dClose, Here)
    BY <1>2, <1>3, AgbCloseRun DEF Here, M3dClose, AgbClose
  <2>6. GoodRun(kind, {}, End(kind, st, host), stores, End(kind, s, h))
    BY <2>2, <2>3, <2>4, <2>5
  <2> QED
    BY <1>1, <1>4, <2>3, <2>6, PlainStep
<1> QED
  BY <1>5, <1>6

-----------------------------------------------------------------------------
(* Nothing happens. *)
LEMMA StutterStep == ASSUME IInv, UNCHANGED vars PROVE IInv'
<1>1. /\ cart' = cart /\ kind' = kind /\ pins' = pins /\ prog' = prog /\ cmd' = cmd /\ st' = st
      /\ host' = host
  BY DEF vars
<1>2. PICK m \in Mode, T \in SUBSET Mode :
        Fits(m) /\ InOrder(kind, T, m, prog, cmd.tail, End(kind, cmd.st, cmd.host))
  BY DEF IInv
<1>3. Fits(m)'
  BY <1>1, <1>2, FitsNext DEF Fits
<1>4. InOrder(kind, T, m, prog, cmd.tail, End(kind, cmd.st, cmd.host))'
  BY <1>1, <1>2, InOrderNext
<1>5. Sides'
  BY <1>1 DEF IInv, Sides, Agree, Due
<1> QED
  BY <1>3, <1>4, <1>5 DEF IInv

(* Every step keeps the program in order. *)
LEMMA NextStep == ASSUME IInv, [Next]_vars PROVE IInv'
<1>1. CASE Cycle
  BY <1>1, PlayStep, PollSaveStep, PollRomStep, PollDmgStep, PageWaitStep, ChipDoneStep,
     FinishStep, StalledStep DEF Cycle
<1>2. CASE Both
  BY <1>2, SetAddressStep, PowerOnStep, PowerOffStep, FloatBusStep, AudioHighStep, AudioLowStep
     DEF Both
<1>3. CASE AgbCommand
  BY <1>3, CartReadStep, CrcStep, BootupRunStep, AgbFlashWriteStep, SaveReadStep, SaveWriteStep,
     BatchSaveStep, SaveBytesStep, SavePagesStep, EepReadStep, EepWriteStep, ProgramChunkStep,
     ProgramWordsStep, Read3dStep, PageEndStep, RtcReadRunStep DEF AgbCommand
<1>4. CASE DmgCommand
  BY <1>4, DmgReadRunStep, DmgCrcStep, DmgWriteToStep, DmgSaveWriteStep, DmgFlashWriteStep,
     DmgBypassProgramStep, DmgBufferProgramStep, DmgByteProgramStep, MbcResetStep,
     ClkPulsesRunStep, SetWeStep DEF DmgCommand
<1>5. CASE UNCHANGED vars
  BY <1>5, StutterStep
<1> QED
  BY <1>1, <1>2, <1>3, <1>4, <1>5 DEF Next

(* In every state the stores the command in hand has still to make are in      *)
(* order from where the bus is: whatever commands main.c ran before, a routine *)
(* of cart.c finds the pins as it takes them to be.                            *)
THEOREM Inductive == Spec => []IInv
<1>1. IInv /\ [Next]_vars => IInv'
  BY NextStep
<1> QED
  BY <1>1, InitStep, PTL DEF Spec

-----------------------------------------------------------------------------
(* The mode the bus is in. *)
LEMMA ModeIs ==
  ASSUME IInv
  PROVE  \E x \in Mode : Fits(x) /\ Calm(kind, x)
<1>1. PICK m \in Mode, T \in SUBSET Mode : Fits(m) /\ GoodRun(kind, T, m, prog,
                                                              End(kind, cmd.st, cmd.host))
  BY DEF IInv, InOrder
<1>2. PICK x \in Mode : Le(m, x) /\ Calm(kind, x)
  BY <1>1, Now
<1> QED
  BY <1>1, <1>2, FitsLe

(* A line that is on is on in the mode, of a live bus. *)
LEMMA OnIs ==
  ASSUME NEW x \in Mode, PinsFit(x, pins), NEW l \in Idle, On(pins, l)
  PROVE  /\ x.bus = "live"
         /\ l \in Four => l \in x.on
         /\ l = "audio" => x.au = "any"
<1>1. pins.rail /\ l \in pins.out /\ l \in pins.low
  BY DEF On
<1>2. x.bus = "live"
  BY <1>1 DEF PinsFit
<1>3. l \in Four => l \in x.on
  BY <1>1, <1>2 DEF PinsFit, Four
<1>4. x.au # "high" /\ x.au # "in" <=> x.au = "any"
  BY DEF Mode, Levels
<1> QED
  BY <1>1, <1>2, <1>3, <1>4 DEF PinsFit

(* A cartridge is of one side. *)
LEMMA KindIs == ASSUME IInv PROVE (Agb <=> kind \in AgbKinds) /\ (~Agb <=> kind \in DmgKinds)
                                       /\ (Dmg <=> kind \in DmgKinds)
  BY DEF IInv, Sides, Agb, Dmg, AgbKinds, DmgKinds

(* A calm mode leaves each line one driver. *)
LEMMA QuietBus == ASSUME IInv PROVE NoContention
<1>1. PICK x \in Mode : Fits(x) /\ Calm(kind, x)
  BY ModeIs
<1>2. PinsFit(x, pins) /\ FrameFit(x, cart) /\ PollFit(x, cmd.polls, cmd.got)
  BY <1>1 DEF Fits
<1>3. \A l \in Four : On(pins, l) => x.bus = "live" /\ l \in x.on
  BY <1>2, OnIs DEF Idle, Four
<1>4. DrivesAd(pins, cart) => x.bus = "live" /\ x.pa = "in"
  <2> SUFFICES ASSUME DrivesAd(pins, cart) PROVE x.bus = "live" /\ x.pa = "in"
    OBVIOUS
  <2>1. Agb /\ On(pins, "cs") /\ On(pins, "rd") /\ ~EepSelected(cart)
    BY DEF DrivesAd
  <2>2. x.bus = "live" /\ "cs" \in x.on /\ "rd" \in x.on /\ kind \in AgbKinds
    BY <1>3, <2>1, KindIs DEF Four
  <2>3. kind = "agb_eep" => x.eep \notin {"sel", "answer"}
    BY <1>2, <2>1 DEF FrameFit
  <2> QED
    BY <1>1, <2>2, <2>3 DEF Calm
<1>5. ~(pins.paOut /\ DrivesAd(pins, cart))
  BY <1>2, <1>4 DEF PinsFit
<1>6. ~(pins.ad0Out /\ DrivesAd0(pins, cart))
  <2>1. CASE DrivesAd(pins, cart)
    BY <1>2, <1>4, <2>1 DEF PinsFit
  <2>2. CASE Agb /\ On(pins, "cs") /\ cart.eepOut
    <3>1. x.bus = "live"
      BY <1>3, <2>2 DEF Four
    <3>2. x.eep = "answer"
      BY <1>2, <2>2 DEF FrameFit
    <3>3. x.pa \in {"in", "ad0in"}
      BY <1>1, <3>1, <3>2 DEF Calm
    <3> QED
      BY <1>2, <3>3 DEF PinsFit
  <2> QED
    BY <2>1, <2>2 DEF DrivesAd0
<1>7. pins.hiOut /\ DrivesHi(pins, cart) => FirstReadback
  <2>1. CASE Agb /\ On(pins, "cs2") /\ On(pins, "rd")
    <3>1. x.bus = "live" /\ "cs2" \in x.on /\ "rd" \in x.on /\ kind \in AgbKinds
      BY <1>3, <2>1, KindIs DEF Four
    <3>2. CASE x.hi = "in"
      BY <1>2, <3>2 DEF PinsFit
    <3>3. CASE x.q = "first" /\ "cs" \notin x.on
      <4>1. cmd.polls = 1
        BY <1>2, <3>3 DEF PollFit
      <4>2. ~On(pins, "cs")
        BY <1>3, <3>3 DEF Four
      <4> QED
        BY <2>1, <4>1, <4>2 DEF FirstReadback, DrivesAd
    <3> QED
      BY <1>1, <3>1, <3>2, <3>3 DEF Calm
  <2>2. CASE ~Agb /\ On(pins, "rd")
    <3>1. x.bus = "live" /\ "rd" \in x.on /\ kind \in DmgKinds
      BY <1>3, <2>2, KindIs DEF Four
    <3>2. x.hi = "in"
      BY <1>1, <3>1 DEF Calm
    <3> QED
      BY <1>2, <3>2 DEF PinsFit
  <2> QED
    BY <2>1, <2>2 DEF DrivesHi
<1> QED
  BY <1>5, <1>6, <1>7 DEF NoContention

(* The device never drives PA, AD0 or the byte of PB while the cartridge does, *)
(* in any command of main.c and between any two; the one exception is the      *)
(* first readback of a save chip's poll, which the property names.             *)
THEOREM OneDriver == Spec => []NoContention
<1>1. IInv => NoContention
  BY QuietBus
<1> QED
  BY <1>1, Inductive, PTL

(* The mode a command ends in has no strobe low. *)
LEMMA ParkedBus == ASSUME IInv PROVE PinsSound
<1>1. PICK x \in Mode : Fits(x) /\ Calm(kind, x)
  BY ModeIs
<1>2. TypeOK
  <2>1. pins \in PinsType /\ cmd.polls \in 0 .. PollCap
    BY <1>1 DEF Fits, PinsFit, PollFit
  <2>2. st \in States /\ host \in Hosts
    BY DEF IInv, Sides, Agree
  <2>3. st.address \in 0 .. MaxAddr + BufferSize
        /\ host.address \in (0 .. MaxAddr + BufferSize) \cup {NoAt}
    BY <2>2 DEF States, Hosts
  <2>4. /\ pins.pa \in 0 .. LoSize - 1 /\ pins.hi \in 0 .. HiSize - 1
        /\ pins.low \subseteq Lines /\ pins.out \subseteq Lines
    BY <2>1 DEF PinsType
  <2> QED
    BY <2>1, <2>3, <2>4 DEF TypeOK
<1>3. ASSUME prog = << >>
      PROVE  /\ \A l \in Idle : On(pins, l) => l = "cs" /\ cmd.st.page > 0
             /\ Dmg => ~pins.hiOut
  <2> DEFINE e == End(kind, cmd.st, cmd.host)
  <2>1. e \in Mode /\ Fits(e)
    BY <1>3, AtEnd
  <2>2. PinsFit(e, pins)
    BY <2>1 DEF Fits
  <2>3. Agree(kind, cmd.st, cmd.host)
    BY DEF IInv, Sides
  <2>4. Au(cmd.st) \in Levels /\ cmd.st.page \in Nat /\ (cmd.st.page > 0 => kind \in AgbKinds)
    BY <2>3, AuIs DEF Agree, States, Hosts, AgbKinds
  <2>5. /\ e.on \subseteq {"cs"} /\ (e.on # {} => cmd.st.page > 0) /\ e.au \in Levels
        /\ kind \in DmgKinds => e.hi = "in"
    <3>1. CASE cmd.st.page > 0
      <4>1. e = Page(Au(cmd.st), "no")
        BY <3>1 DEF End
      <4> QED
        BY <2>4, <3>1, <4>1 DEF Page, Live, AgbKinds, DmgKinds
    <3>2. CASE ~(cmd.st.page > 0)
      <4>1. e \in {Rest(kind, Au(cmd.st), "no"), RestOff, RestDead}
        BY <3>2 DEF End
      <4>2. /\ Rest(kind, Au(cmd.st), "no").on = {} /\ Rest(kind, Au(cmd.st), "no").au = Au(cmd.st)
            /\ kind \in DmgKinds => Rest(kind, Au(cmd.st), "no").hi = "in"
        BY DEF Rest, Live
      <4>3. \A y \in {RestOff, RestDead} : y.on = {} /\ y.au = "in" /\ y.hi = "in"
        BY DEF RestOff, RestDead, At
      <4>4. "in" \in Levels
        BY DEF Levels
      <4> QED
        BY <2>4, <4>1, <4>2, <4>3, <4>4
    <3> QED
      BY <3>1, <3>2
  <2> HIDE DEF e
  <2>6. ASSUME NEW l \in Idle, On(pins, l) PROVE l = "cs" /\ cmd.st.page > 0
    <3>1. (l \in Four => l \in e.on) /\ (l = "audio" => e.au = "any")
      BY <2>1, <2>2, <2>6, OnIs
    <3>2. l \in Four \/ l = "audio"
      BY DEF Idle, Four
    <3>3. e.au # "any"
      BY <2>5 DEF Levels
    <3> QED
      BY <2>5, <3>1, <3>2, <3>3
  <2>7. Dmg => ~pins.hiOut
    BY <2>2, <2>5, KindIs DEF PinsFit
  <2> QED
    BY <2>6, <2>7
<1> QED
  BY <1>2, <1>3 DEF PinsSound, Parked

(* The registers hold what they can, and a command leaves the lines high or    *)
(* released, with /CS low only between two pages of a 3D read, and the byte of *)
(* PB released on DMG: the state the next command's first store relies on.     *)
THEOREM PinsKept == Spec => []PinsSound
<1>1. IInv => PinsSound
  BY ParkedBus
<1> QED
  BY <1>1, Inductive, PTL

(* The one mode without power, after the first power-on, drives nothing. *)
LEMMA DeadBus == ASSUME IInv PROVE NoBackPower
<1>1. PICK x \in Mode : Fits(x) /\ Calm(kind, x)
  BY ModeIs
<1> SUFFICES ASSUME host.been, ~pins.rail
             PROVE  pins.out \subseteq {"clk"} /\ ~pins.paOut /\ ~pins.hiOut
  BY DEF NoBackPower
<1>2. PinsFit(x, pins) /\ x.bus \notin {"boot", "dead"}
  BY <1>1 DEF Fits
<1>3. x.bus = "off"
  BY <1>2 DEF PinsFit, Mode, Phases
<1>4. \A l \in Idle : l \notin pins.out
  BY <1>2, <1>3 DEF PinsFit
<1>5. pins.out \subseteq Lines
  BY <1>2 DEF PinsFit, PinsType
<1> QED
  BY <1>2, <1>3, <1>4, <1>5 DEF PinsFit, Lines, Idle

(* Once the cartridge was powered, nothing but CLK is driven into it while the *)
(* rail is off: fw_cart_power() releases the lines and the ports first.        *)
THEOREM DeadIsDark == Spec => []NoBackPower
<1>1. IInv => NoBackPower
  BY DeadBus
<1> QED
  BY <1>1, Inductive, PTL

(* A write strobe is low in a mode that allows only a line to move. *)
LEMMA StrobeIs ==
  ASSUME IInv, NEW x \in Mode, Fits(x), Calm(kind, x), WriteStrobe(pins)
  PROVE  Strobe(kind, x) /\ pins.paOut /\ pins.hiOut /\ ~On(pins, "rd")
<1>1. PinsFit(x, pins)
  BY DEF Fits
<1>2. \A l \in Four : On(pins, l) => x.bus = "live" /\ l \in x.on
  BY <1>1, OnIs DEF Idle, Four
<1>3. On(pins, "audio") => x.bus = "live" /\ x.au = "any"
  BY <1>1, OnIs DEF Idle
<1>4. Strobe(kind, x) /\ x.bus = "live"
  BY <1>2, <1>3, KindIs DEF WriteStrobe, Strobe, Four
<1>5. x.pa \in {"out", "ad0in"} /\ x.hi = "out" /\ "rd" \notin x.on
  BY <1>4 DEF Calm
<1> QED
  BY <1>1, <1>2, <1>4, <1>5 DEF PinsFit, Four

(* Only a store moves the registers. *)
LEMMA StillPins == ASSUME Next, ~Play PROVE pins' = pins
<1>1. Cycle => pins' = pins
  BY DEF Cycle, PollSave, PollRom, PollDmg, PageWait, ChipDone, Finish, Stalled
<1>2. Both => pins' = pins
  BY DEF Both, SetAddress, PowerOn, PowerOff, FloatBus, AudioHigh, AudioLow, Begin
<1>3. AgbCommand => pins' = pins
  BY DEF AgbCommand, CartRead, Crc, BootupRun, AgbFlashWrite, SaveRead, SaveWrite, BatchSave,
     SaveBytes, SavePages, EepRead, EepWrite, ProgramChunk, ProgramWords, Read3d, PageEnd,
     RtcReadRun, Begin
<1>4. DmgCommand => pins' = pins
  BY DEF DmgCommand, DmgReadRun, DmgCrc, DmgWriteTo, DmgSaveWrite, DmgFlashWrite,
     DmgBypassProgram, DmgBufferProgram, DmgByteProgram, MbcReset, ClkPulsesRun, SetWe, Begin
<1> QED
  BY <1>1, <1>2, <1>3, <1>4 DEF Next

(* From a write strobe's fall to its rise the address and the data stand       *)
(* still, both ports drive, and /RD is high: /WR, or AUDIO where it is the /WE *)
(* of a DMG cartridge's flash.                                                 *)
THEOREM StrobeHeld == Spec => StableInStrobe
<1> DEFINE Stable == WriteStrobe(pins) =>
                       /\ pins'.pa = pins.pa /\ pins'.hi = pins.hi
                       /\ pins.paOut /\ pins'.paOut /\ pins.hiOut /\ pins'.hiOut
                       /\ ~On(pins, "rd")
<1>1. ASSUME IInv, Next PROVE Stable
  <2> SUFFICES ASSUME WriteStrobe(pins)
               PROVE  /\ pins'.pa = pins.pa /\ pins'.hi = pins.hi
                      /\ pins.paOut /\ pins'.paOut /\ pins.hiOut /\ pins'.hiOut
                      /\ ~On(pins, "rd")
    OBVIOUS
  <2>1. CASE Play
    <3>1. prog # << >> /\ pins' = Put(pins, Head(prog))
      BY <2>1 DEF Play
    <3>2. PICK m \in Mode, n \in Mode, T \in SUBSET Mode :
            Fits(m) /\ Calm(kind, m) /\ Ok(kind, T, m, Head(prog), n)
      BY <1>1, <3>1, HeadIs
    <3>3. Strobe(kind, m) /\ pins.paOut /\ pins.hiOut /\ ~On(pins, "rd") /\ pins \in PinsType
      BY <1>1, <3>2, StrobeIs DEF Fits, PinsFit
    <3>4. Head(prog).reg \in {"PB_CLR", "PB_OUT"}
      BY <3>2, <3>3 DEF Ok
    <3>5. \E ls : pins' = [pins EXCEPT !.low = ls]
      BY <3>1, <3>4 DEF Put
    <3> QED
      BY <3>3, <3>5 DEF PinsType
  <2>2. CASE ~Play
    <3>1. pins' = pins
      BY <1>1, <2>2, StillPins
    <3>2. PICK x \in Mode : Fits(x) /\ Calm(kind, x)
      BY <1>1, ModeIs
    <3> QED
      BY <1>1, <3>1, <3>2, StrobeIs
  <2> QED
    BY <2>1, <2>2
<1>2. IInv /\ [Next]_vars => [Stable]_vars
  BY <1>1
<1> QED
  BY <1>2, Inductive, PTL DEF Spec, StableInStrobe

=============================================================================
