-------------------------- MODULE UsbServiceProofs --------------------------
(***************************************************************************)
(* Theorems about UsbService for every limit and every number of stores in *)
(* a pass of usb_service(), checked by TLAPS: the toggles stay in step, no *)
(* store and no event is lost, and the transport is sound while the        *)
(* handler's limits are out of reach of the arming thread.                 *)
(***************************************************************************)
EXTENDS UsbService, TLAPS

(* 20000 entries and 8 idle ones do not fit between two instructions.      *)
OutOfReach == DemotedWhileArming = FALSE /\ IdleLimit > 1 /\ BurstLimit > 3

InRmw(c) == rmw[c].at # "out"

-----------------------------------------------------------------------------
(* The control register: the part of the invariant about Ep2Ctrl alone.     *)

InStep(reg) == reg.R_TOG = seq.R_TOG /\ reg.T_TOG = seq.T_TOG

(* At most one context is inside uep2_ctrl_rmw(). *)
Alone == ~(InRmw("thread") /\ InRmw("handler"))

(* The register is out of step only across a store that verify repairs. *)
RegisterInStep ==
  InStep(ctrl) \/ (flag /\ \E c \in Contexts : rmw[c].at = "verify")

(* What a context read is in step, once the last latched token is repaired. *)
CopyInStep(c) ==
  /\ rmw[c].at = "recheck" /\ ~flag => InStep(rmw[c].val)
  /\ rmw[c].at \in {"store", "verify"} => InStep(Repaired(rmw[c].val))

(* A second pass starts under the flag, and nothing but this call lets the  *)
(* flag be cleared: it ends at its first reading.                           *)
SecondPassHeld(c) == rmw[c].pass # 0 => rmw[c].at = "check" /\ flag

(* A call carries the response last asked for its field, and its copy has   *)
(* the one last asked for the other.                                        *)
CopyAsAsked(c) ==
  InRmw(c) =>
    /\ asked[rmw[c].field] = rmw[c].to
    /\ rmw[c].at = "verify" => ctrl[rmw[c].field] = rmw[c].to
    /\ rmw[c].at \in {"recheck", "store", "verify"} =>
         \A field \in Fields \ {rmw[c].field} : rmw[c].val[field] = asked[field]

RegTypes ==
  /\ ctrl \in Registers
  /\ latched \in Tokens \cup {"NONE"}
  /\ rmw \in [Contexts -> [at : {"out", "check", "read", "recheck", "store", "verify"},
                            field : Fields, to : Responses, pass : 0..1,
                            val : Registers]]
  /\ seq \in [R_TOG : 0..1, T_TOG : 0..1]
  /\ asked \in [Fields -> Responses]

RegInv ==
  /\ RegTypes /\ Alone /\ RegisterInStep /\ ResponsesAsAsked
  /\ \A c \in Contexts : CopyInStep(c) /\ SecondPassHeld(c) /\ CopyAsAsked(c)

-----------------------------------------------------------------------------
(* Who runs.                                                                *)

(* A token or a reset is being served, or the pumps run: stores may be made. *)
Pumping(c) == svc[c].kind \in Tokens \cup {"other"}

WhoRuns ==
  /\ Serving("thread") <=> pc = "serve"
  /\ masked <=> pc = "locked"
  /\ InHandler => nvic_on /\ ~masked
  /\ nvic_on => usb_irq_on \/ Arming
  /\ pc = "serve" \/ Arming => ~usb_irq_on
  /\ InRmw("handler") => Pumping("handler")
  /\ InRmw("thread") => pc = "locked" \/ Pumping("thread")
  /\ \A c \in Contexts : svc[c].kind = "bus" => bus_rst

(* The latched transaction has been looked at by the context that serves it. *)
EventsHeld ==
  /\ NoEventSwallowed
  /\ \A c \in Contexts :
       svc[c].kind \in Tokens /\ ~svc[c].cleared => flag /\ ~unserved
  /\ flag /\ ~unserved =>
       \E c \in Contexts : svc[c].kind \in Tokens /\ ~svc[c].cleared

-----------------------------------------------------------------------------
(* The counters and arming.                                                 *)

CountersRest ==
  ~usb_irq_on /\ (~Arming \/ (pc = "arm_spin" /\ ~entered)) =>
    idle_entries = 0 /\ burst = 0

(* What may still enter the handler while the thread arms. *)
ToCome == One(pended) + One(unserved) + One(bus_rst /\ svc["handler"].kind # "bus")

ArmingSafe ==
  /\ line = "held" => usb_irq_on \/ fault
  /\ usb_irq_on => nvic_on /\ ~fault
  /\ Arming => /\ nvic_on /\ ~fault
               /\ idle_entries + One(pended) <= 1
               /\ burst + ToCome < BurstLimit

DriverTypes ==
  /\ unserved \in BOOLEAN /\ masked \in BOOLEAN /\ nvic_on \in BOOLEAN
  /\ pended \in BOOLEAN /\ bus_rst \in BOOLEAN /\ usb_irq_on \in BOOLEAN
  /\ fault \in BOOLEAN /\ entered \in BOOLEAN /\ happened \in BOOLEAN
  /\ configured \in BOOLEAN
  /\ pc \in Places /\ line \in Lines
  /\ svc \in [Contexts -> [kind : Tokens \cup {"out", "bus", "other"},
                            cleared : BOOLEAN, writes : 0..MaxWrites]]
  /\ idle_entries \in 0..(IdleLimit - 1) /\ burst \in 0..(BurstLimit - 1)

IInv ==
  /\ DriverTypes /\ RegInv /\ WhoRuns /\ EventsHeld /\ CountersRest
  /\ OutOfReach => ArmingSafe

-----------------------------------------------------------------------------
(* Records.                                                                 *)

LEMMA FieldsAre ==
  /\ Fields = {"R_RES", "T_RES"} /\ "R_RES" # "T_RES"
  /\ \A field \in Fields : field = "R_RES" \/ field = "T_RES"
BY DEF Fields

(* A store of a response keeps the toggles and the other response. *)
LEMMA StoreIs ==
  ASSUME NEW reg \in Registers, NEW field \in Fields, NEW to \in Responses
  PROVE  LET new == With(reg, field, to)
         IN  /\ new \in Registers
             /\ new.R_TOG = reg.R_TOG /\ new.T_TOG = reg.T_TOG
             /\ new[field] = to
             /\ \A other \in Fields \ {field} : new[other] = reg[other]
<1>1. CASE field = "R_RES"
  BY <1>1 DEF Registers, With, Fields
<1>2. CASE field = "T_RES"
  BY <1>2 DEF Registers, With, Fields
<1> QED BY <1>1, <1>2 DEF Fields

LEMMA AskIs ==
  ASSUME NEW f \in [Fields -> Responses], NEW field \in Fields, NEW to \in Responses
  PROVE  LET new == With(f, field, to)
         IN  /\ new \in [Fields -> Responses]
             /\ new[field] = to
             /\ \A other \in Fields \ {field} : new[other] = f[other]
BY DEF With

LEMMA BothAsked ==
  [R_RES |-> "ACK", T_RES |-> "NAK"] \in [Fields -> Responses]
BY DEF Fields, Responses

LEMMA BulkIs ==
  /\ Bulk \in Registers /\ Bulk.R_TOG = 0 /\ Bulk.T_TOG = 0
  /\ \A field \in Fields : Bulk[field] = [R_RES |-> "ACK", T_RES |-> "NAK"][field]
BY DEF Bulk, Registers, Fields, Responses

LEMMA AdvanceIs ==
  ASSUME NEW reg \in Registers, NEW s \in [R_TOG : 0..1, T_TOG : 0..1],
         NEW toggle \in {"R_TOG", "T_TOG"}
  PROVE  LET r == [reg EXCEPT ![toggle] = Flip(reg[toggle])]
             t == [s EXCEPT ![toggle] = Flip(s[toggle])]
         IN  /\ r \in Registers /\ t \in [R_TOG : 0..1, T_TOG : 0..1]
             /\ \A field \in Fields : r[field] = reg[field]
<1>1. CASE toggle = "R_TOG"
  BY <1>1 DEF Registers, Flip, Fields
<1>2. CASE toggle = "T_TOG"
  BY <1>2 DEF Registers, Flip, Fields
<1> QED BY <1>1, <1>2
(* What a reading after the store finds repaired keeps the responses. *)
LEMMA RepairIs ==
  ASSUME NEW reg \in Registers
  PROVE  /\ Repaired(reg) \in Registers
         /\ \A field \in Fields : Repaired(reg)[field] = reg[field]
         /\ ~flag => Repaired(reg) = reg
<1>1. CASE latched = "OUT"
  BY <1>1 DEF Repaired, Registers, Flip, Fields, flag
<1>2. CASE latched = "IN"
  BY <1>2 DEF Repaired, Registers, Flip, Fields, flag
<1>3. CASE latched \notin {"OUT", "IN"}
  BY <1>3 DEF Repaired
<1> QED BY <1>1, <1>2, <1>3

(* Of two registers with the same toggles one is in step, repaired or not,  *)
(* if the other is.                                                         *)
LEMMA SameToggles ==
  ASSUME NEW a \in Registers, NEW b \in Registers,
         a.R_TOG = b.R_TOG, a.T_TOG = b.T_TOG
  PROVE  /\ InStep(a) <=> InStep(b)
         /\ InStep(Repaired(a)) <=> InStep(Repaired(b))
<1>1. InStep(a) <=> InStep(b) BY DEF InStep
<1>2. CASE latched = "OUT"
  BY <1>1, <1>2 DEF Repaired, Registers, Flip, InStep
<1>3. CASE latched = "IN"
  BY <1>1, <1>3 DEF Repaired, Registers, Flip, InStep
<1>4. CASE latched \notin {"OUT", "IN"}
  BY <1>1, <1>4 DEF Repaired
<1> QED BY <1>1, <1>2, <1>3, <1>4

(* A reading of the flag, the register or both, or a store, by one context. *)
RegisterStep(c) ==
  Rmw(c) \/ \E field \in Fields, response \in Responses : Call(c, field, response)

Stages == {"out", "check", "read", "recheck", "store", "verify"}

LEMMA RmwTyped ==
  ASSUME RegTypes, NEW c \in Contexts
  PROVE  /\ rmw[c].at \in Stages /\ rmw[c].field \in Fields
         /\ rmw[c].to \in Responses /\ rmw[c].pass \in {0, 1}
         /\ rmw[c].val \in Registers
BY DEF RegTypes, Stages
(* While one context is in uep2_ctrl_rmw() the register's invariant is a    *)
(* statement about that context.                                            *)
LEMMA RegisterStepKeeps ==
  ASSUME RegInv, NEW c \in Contexts, NEW d \in Contexts, c # d,
         ~InRmw(d), RegisterStep(c)
  PROVE  RegInv'
<1> USE DEF InRmw
<1>c. Contexts = {c, d} BY DEF Contexts
<1>t. RegTypes BY DEF RegInv
<1>0. /\ rmw[c].at \in Stages /\ rmw[c].field \in Fields
      /\ rmw[c].to \in Responses /\ rmw[c].pass \in {0, 1}
      /\ rmw[c].val \in Registers
  BY <1>t, RmwTyped
<1>d. rmw[d].at = "out" /\ rmw[d].pass = 0
  <2>1. SecondPassHeld(d) BY DEF RegInv
  <2>2. rmw[d].pass \in {0, 1} BY <1>t, RmwTyped
  <2> QED BY <2>1, <2>2 DEF SecondPassHeld
<1>i. /\ CopyInStep(c) /\ SecondPassHeld(c) /\ CopyAsAsked(c)
      /\ InStep(ctrl) \/ (flag /\ rmw[c].at = "verify")
      /\ \A field \in Fields :
           rmw[c].at = "out" \/ rmw[c].field # field => ctrl[field] = asked[field]
  BY <1>c, <1>d DEF RegInv, RegisterInStep, ResponsesAsAsked
<1>k. UNCHANGED <<latched, seq, unserved>>
  BY DEF RegisterStep, Rmw, Call
<1>r. ctrl \in Registers /\ asked \in [Fields -> Responses] BY <1>t DEF RegTypes
<1> DEFINE
  Record == [at : Stages, field : Fields, to : Responses, pass : 0..1, val : Registers]
  After(r) == /\ rmw' = [rmw EXCEPT ![c] = r]
              /\ r \in Record
              /\ ctrl' \in Registers /\ asked' \in [Fields -> Responses]
              /\ InStep(ctrl') \/ (flag /\ r.at = "verify")
              /\ r.at = "recheck" /\ ~flag => InStep(r.val)
              /\ r.at \in {"store", "verify"} => InStep(Repaired(r.val))
              /\ r.pass # 0 => r.at = "check" /\ flag
              /\ r.at # "out" =>
                   /\ asked'[r.field] = r.to
                   /\ r.at = "verify" => ctrl'[r.field] = r.to
                   /\ r.at \in {"recheck", "store", "verify"} =>
                        \A field \in Fields \ {r.field} : r.val[field] = asked'[field]
              /\ \A field \in Fields :
                   r.at = "out" \/ r.field # field => ctrl'[field] = asked'[field]
<1>8. rmw \in [Contexts -> Record] /\ rmw[c] \in Record
  BY <1>t DEF RegTypes, Stages
<1>a. Away \in Record
  BY BulkIs DEF Away, Stages, Fields, Responses
<1>1. ASSUME NEW field \in Fields, NEW response \in Responses, Call(c, field, response)
      PROVE  \E r \in Record : After(r)
  <2> DEFINE r == [Away EXCEPT !.at = "check", !.field = field, !.to = response]
  <2>1. /\ rmw' = [rmw EXCEPT ![c] = r] /\ rmw[c].at = "out"
        /\ ctrl' = ctrl /\ asked' = With(asked, field, response)
    BY <1>1 DEF Call
  <2>2. /\ r \in Record /\ r.at = "check" /\ r.field = field /\ r.to = response
        /\ r.pass = 0
    BY <1>a DEF Away, Stages
  <2>3. /\ asked' \in [Fields -> Responses] /\ asked'[field] = response
        /\ \A other \in Fields \ {field} : asked'[other] = asked[other]
    BY <2>1, <1>r, AskIs
  <2>4. InStep(ctrl') BY <2>1, <1>i
  <2> HIDE DEF r
  <2>5. After(r) BY <2>1, <2>2, <2>3, <2>4, <1>i, <1>r
  <2> QED BY <2>2, <2>5
<1>s. ASSUME Rmw(c) PROVE asked' = asked BY <1>s DEF Rmw
<1>2. ASSUME Check(c), Rmw(c) PROVE \E r \in Record : After(r)
  <2>1. CASE flag
    <3>1. /\ ctrl' = With(ctrl, rmw[c].field, rmw[c].to)
          /\ rmw' = [rmw EXCEPT ![c] = Away] /\ rmw[c].at = "check"
      BY <1>2, <2>1 DEF Check, Return
    <3>2. /\ ctrl' \in Registers
          /\ ctrl'.R_TOG = ctrl.R_TOG /\ ctrl'.T_TOG = ctrl.T_TOG
          /\ ctrl'[rmw[c].field] = rmw[c].to
          /\ \A other \in Fields \ {rmw[c].field} : ctrl'[other] = ctrl[other]
      BY <3>1, <1>0, <1>r, StoreIs
    <3>3. InStep(ctrl') BY <3>1, <3>2, <1>i DEF InStep
    <3>4. \A field \in Fields : ctrl'[field] = asked[field]
      BY <3>1, <3>2, <1>i DEF CopyAsAsked
    <3>5. Away.at = "out" /\ Away.pass = 0 BY DEF Away
    <3>6. After(Away)
      <4> HIDE DEF Record
      <4> QED BY <3>1, <3>2, <3>3, <3>4, <3>5, <1>a, <1>s, <1>2, <1>r
    <3> QED BY <3>6, <1>a
  <2>2. CASE ~flag
    <3> DEFINE r == [rmw[c] EXCEPT !.at = "read"]
    <3>1. rmw' = [rmw EXCEPT ![c] = r] /\ ctrl' = ctrl /\ rmw[c].at = "check"
      BY <1>2, <2>2, <1>8 DEF Check, Goto
    <3>2. /\ r \in Record /\ r.at = "read" /\ r.field = rmw[c].field
          /\ r.to = rmw[c].to /\ r.pass = 0
      BY <1>0, <1>8, <2>2, <1>i DEF SecondPassHeld, Stages
    <3> HIDE DEF r, Record
    <3>3. After(r) BY <3>1, <3>2, <1>i, <1>r, <1>s, <1>2 DEF CopyAsAsked
    <3> QED BY <3>2, <3>3
  <2> QED BY <2>1, <2>2
<1>3. ASSUME Read(c), Rmw(c) PROVE \E r \in Record : After(r)
  <2> DEFINE r == [rmw[c] EXCEPT !.at = "recheck", !.val = ctrl]
  <2>1. rmw' = [rmw EXCEPT ![c] = r] /\ ctrl' = ctrl /\ rmw[c].at = "read"
    BY <1>3, <1>8 DEF Read
  <2>2. /\ r \in Record /\ r.at = "recheck" /\ r.field = rmw[c].field
        /\ r.to = rmw[c].to /\ r.pass = 0 /\ r.val = ctrl
    BY <1>0, <1>8, <2>1, <1>i, <1>r DEF SecondPassHeld, Stages
  <2> HIDE DEF r, Record
  <2>3. After(r) BY <2>1, <2>2, <1>i, <1>r, <1>s, <1>3 DEF CopyAsAsked
  <2> QED BY <2>2, <2>3
<1>4. ASSUME Recheck(c), Rmw(c) PROVE \E r \in Record : After(r)
  <2>0. /\ rmw[c].at = "recheck" /\ ctrl' = ctrl /\ rmw[c].pass = 0
        /\ InStep(ctrl)
    BY <1>4, <1>i DEF Recheck, SecondPassHeld
  <2>1. CASE ~flag
    <3> DEFINE r == [rmw[c] EXCEPT !.at = "store"]
    <3>1. rmw' = [rmw EXCEPT ![c] = r]
      BY <1>4, <2>1, <1>8 DEF Recheck, Goto
    <3>2. /\ r \in Record /\ r.at = "store" /\ r.field = rmw[c].field
          /\ r.to = rmw[c].to /\ r.pass = 0 /\ r.val = rmw[c].val
      BY <1>0, <1>8, <2>0 DEF Stages
    <3>3. InStep(Repaired(r.val))
      BY <3>2, <2>0, <2>1, <1>0, <1>i, RepairIs DEF CopyInStep
    <3> HIDE DEF r, Record
    <3>4. After(r) BY <3>1, <3>2, <3>3, <2>0, <1>i, <1>r, <1>s, <1>4 DEF CopyAsAsked
    <3> QED BY <3>2, <3>4
  <2>2. CASE flag
    <3> DEFINE r == [rmw[c] EXCEPT !.at = "check", !.pass = 1]
    <3>0. rmw' = [rmw EXCEPT ![c].at = "check", ![c].pass = @ + 1]
      BY <1>4, <2>0, <2>2, <1>8 DEF Recheck, LastPass
    <3>1. rmw' = [rmw EXCEPT ![c] = r]
      BY <3>0, <2>0, <1>8
    <3>2. /\ r \in Record /\ r.at = "check" /\ r.field = rmw[c].field
          /\ r.to = rmw[c].to
      <4>1. 1 \in 0 .. 1 /\ "check" \in Stages BY DEF Stages
      <4>2. ASSUME NEW x \in Record
            PROVE  LET y == [x EXCEPT !.at = "check", !.pass = 1]
                   IN y \in Record /\ y.at = "check" /\ y.field = x.field /\ y.to = x.to
        BY <4>1
      <4> HIDE DEF Record
      <4> QED BY <4>2, <1>8
    <3> HIDE DEF r, Record
    <3>3. After(r) BY <3>1, <3>2, <2>0, <2>2, <1>i, <1>r, <1>s, <1>4 DEF CopyAsAsked
    <3> QED BY <3>2, <3>3
  <2> QED BY <2>1, <2>2
<1>5. ASSUME Store(c), Rmw(c) PROVE \E r \in Record : After(r)
  <2> DEFINE r == [rmw[c] EXCEPT !.at = "verify"]
  <2>1. /\ rmw' = [rmw EXCEPT ![c] = r] /\ rmw[c].at = "store"
        /\ ctrl' = With(rmw[c].val, rmw[c].field, rmw[c].to)
    BY <1>5, <1>8 DEF Store, Goto
  <2>2. /\ r \in Record /\ r.at = "verify" /\ r.field = rmw[c].field
        /\ r.to = rmw[c].to /\ r.pass = 0 /\ r.val = rmw[c].val
    BY <1>0, <1>8, <2>1, <1>i DEF SecondPassHeld, Stages
  <2>3. /\ ctrl' \in Registers
        /\ ctrl'.R_TOG = r.val.R_TOG /\ ctrl'.T_TOG = r.val.T_TOG
        /\ ctrl'[rmw[c].field] = rmw[c].to
        /\ \A other \in Fields \ {rmw[c].field} : ctrl'[other] = r.val[other]
    <3> HIDE DEF r, Record
    <3>1. rmw[c].val \in Registers /\ rmw[c].field \in Fields /\ rmw[c].to \in Responses
      BY <1>0
    <3>2. r.val = rmw[c].val BY <2>2
    <3>3. /\ ctrl' \in Registers
          /\ ctrl'.R_TOG = rmw[c].val.R_TOG /\ ctrl'.T_TOG = rmw[c].val.T_TOG
          /\ ctrl'[rmw[c].field] = rmw[c].to
          /\ \A other \in Fields \ {rmw[c].field} : ctrl'[other] = rmw[c].val[other]
      BY <2>1, <3>1, StoreIs
    <3> QED BY <3>2, <3>3
  <2>4. InStep(Repaired(r.val)) BY <2>1, <2>2, <1>i DEF CopyInStep
  <2>5. InStep(ctrl') \/ flag
    BY <2>3, <2>4, <2>2, <1>0, RepairIs DEF InStep
  <2>6. \A field \in Fields \ {r.field} : r.val[field] = asked[field]
    BY <2>1, <2>2, <1>i DEF CopyAsAsked
  <2>7. asked[r.field] = r.to BY <2>1, <2>2, <1>i DEF CopyAsAsked
  <2> HIDE DEF r, Record
  <2>8. After(r)
    BY <2>1, <2>2, <2>3, <2>4, <2>5, <2>6, <2>7, <1>r, <1>s, <1>5
  <2> QED BY <2>2, <2>8
<1>6. ASSUME Verify(c), Rmw(c) PROVE \E r \in Record : After(r)
  <2> DEFINE new == With(rmw[c].val, rmw[c].field, rmw[c].to)
  <2>0. /\ rmw[c].at = "verify" /\ rmw' = [rmw EXCEPT ![c] = Away]
        /\ ctrl' = IF flag THEN Repaired(new) ELSE ctrl
    BY <1>6 DEF Verify, Return
  <2>1. /\ new \in Registers
        /\ new.R_TOG = rmw[c].val.R_TOG /\ new.T_TOG = rmw[c].val.T_TOG
        /\ new[rmw[c].field] = rmw[c].to
        /\ \A other \in Fields \ {rmw[c].field} : new[other] = rmw[c].val[other]
    BY <1>0, StoreIs
  <2>2. InStep(Repaired(rmw[c].val)) BY <2>0, <1>i DEF CopyInStep
  <2> HIDE DEF new
  <2>3. InStep(Repaired(new)) BY <2>1, <2>2, <1>0, SameToggles
  <2>4. Repaired(new) \in Registers /\ \A field \in Fields : Repaired(new)[field] = new[field]
    BY <2>1, RepairIs
  <2>5. InStep(ctrl') /\ ctrl' \in Registers
    BY <2>0, <2>3, <2>4, <1>i, <1>r
  <2>6. \A field \in Fields : ctrl'[field] = asked[field]
    <3> SUFFICES ASSUME NEW field \in Fields PROVE ctrl'[field] = asked[field]
      OBVIOUS
    <3>1. CASE flag
      <4>1. new[field] = asked[field]
        BY <2>0, <2>1, <1>i, <1>0 DEF CopyAsAsked
      <4> QED BY <4>1, <3>1, <2>0, <2>4
    <3>2. CASE ~flag
      BY <3>2, <2>0, <1>i, <1>0 DEF CopyAsAsked
    <3> QED BY <3>1, <3>2
  <2>7. Away.at = "out" /\ Away.pass = 0 BY DEF Away
  <2>8. After(Away)
    <3> HIDE DEF Record
    <3> QED BY <2>0, <2>5, <2>6, <2>7, <1>a, <1>s, <1>6, <1>r
  <2> QED BY <2>8, <1>a
<1>7. PICK r \in Record : After(r)
  BY <1>1, <1>2, <1>3, <1>4, <1>5, <1>6 DEF RegisterStep, Rmw
<1>16. rmw'[c] = r /\ rmw'[d] = rmw[d]
  BY <1>7, <1>8
<1>9. RegTypes'
  BY <1>7, <1>8, <1>16, <1>t, <1>k DEF RegTypes, Stages
<1>10. Alone' BY <1>16, <1>8, <1>d, <1>c DEF Alone, Contexts
<1>11. RegisterInStep' BY <1>7, <1>8, <1>16, <1>k, <1>c DEF RegisterInStep, flag, InStep
<1>12. ResponsesAsAsked' BY <1>7, <1>8, <1>16, <1>c DEF ResponsesAsAsked
<1>13. CopyInStep(c)' /\ CopyInStep(d)'
  BY <1>7, <1>8, <1>16, <1>d, <1>k DEF CopyInStep, flag, InStep, Repaired
<1>14. SecondPassHeld(c)' /\ SecondPassHeld(d)'
  BY <1>7, <1>8, <1>16, <1>d, <1>k DEF SecondPassHeld, flag
<1>15. CopyAsAsked(c)' /\ CopyAsAsked(d)'
  BY <1>7, <1>8, <1>16, <1>d DEF CopyAsAsked
<1> QED BY <1>9, <1>10, <1>11, <1>12, <1>13, <1>14, <1>15, <1>c DEF RegInv
(* The SIE completes a transaction: the register, the ends of the bus and   *)
(* what a context will repair move on together.                             *)
SieStep == SieIn \/ SieOut \/ SieOutAgain \/ SieEp0

LEMMA SieKeeps ==
  ASSUME RegInv, SieStep
  PROVE  RegInv'
<1>t. RegTypes BY DEF RegInv
<1>r. ctrl \in Registers /\ seq \in [R_TOG : 0..1, T_TOG : 0..1] BY <1>t DEF RegTypes
<1>1. /\ ~flag /\ flag' /\ latched' \in Tokens
      /\ rmw' = rmw /\ asked' = asked
  BY DEF SieStep, SieIn, SieOut, SieOutAgain, SieEp0, Complete, Tokens, flag
<1>2. InStep(ctrl) BY <1>1 DEF RegInv, RegisterInStep
<1>3. /\ ctrl' \in Registers /\ seq' \in [R_TOG : 0..1, T_TOG : 0..1]
      /\ \A field \in Fields : ctrl'[field] = ctrl[field]
      /\ InStep(ctrl)'
      /\ \A reg \in Registers : InStep(reg) => InStep(Repaired(reg))'
  <2>1. CASE SieIn
    <3>0. /\ latched' = "IN"
          /\ ctrl' = [ctrl EXCEPT !["T_TOG"] = Flip(ctrl["T_TOG"])]
          /\ seq' = [seq EXCEPT !["T_TOG"] = Flip(seq["T_TOG"])]
      BY <2>1 DEF SieIn, Complete, Advance
    <3>1. /\ ctrl' \in Registers /\ seq' \in [R_TOG : 0..1, T_TOG : 0..1]
          /\ \A field \in Fields : ctrl'[field] = ctrl[field]
      BY <3>0, <1>r, AdvanceIs
    <3>2. InStep(ctrl)' BY <3>0, <1>r, <1>2 DEF InStep, Registers, Flip
    <3>3. ASSUME NEW reg \in Registers, InStep(reg) PROVE InStep(Repaired(reg))'
      BY <3>0, <3>3, <1>r DEF InStep, Registers, Flip, Repaired
    <3> QED BY <3>1, <3>2, <3>3
  <2>2. CASE SieOut
    <3>0. /\ latched' = "OUT"
          /\ ctrl' = [ctrl EXCEPT !["R_TOG"] = Flip(ctrl["R_TOG"])]
          /\ seq' = [seq EXCEPT !["R_TOG"] = Flip(seq["R_TOG"])]
      BY <2>2 DEF SieOut, Complete, Advance
    <3>1. /\ ctrl' \in Registers /\ seq' \in [R_TOG : 0..1, T_TOG : 0..1]
          /\ \A field \in Fields : ctrl'[field] = ctrl[field]
      BY <3>0, <1>r, AdvanceIs
    <3>2. InStep(ctrl)' BY <3>0, <1>r, <1>2 DEF InStep, Registers, Flip
    <3>3. ASSUME NEW reg \in Registers, InStep(reg) PROVE InStep(Repaired(reg))'
      BY <3>0, <3>3, <1>r DEF InStep, Registers, Flip, Repaired
    <3> QED BY <3>1, <3>2, <3>3
  <2>3. CASE SieOutAgain \/ SieEp0
    <3>0. latched' \in {"OUT_AGAIN", "EP0"} /\ ctrl' = ctrl /\ seq' = seq
      BY <2>3 DEF SieOutAgain, SieEp0, Complete
    <3>1. InStep(ctrl)' BY <3>0, <1>2 DEF InStep
    <3>2. ASSUME NEW reg \in Registers, InStep(reg) PROVE InStep(Repaired(reg))'
      BY <3>0, <3>2 DEF InStep, Repaired
    <3> QED BY <3>0, <3>1, <3>2, <1>r
  <2> QED BY <2>1, <2>2, <2>3 DEF SieStep
<1>4. RegTypes' BY <1>1, <1>3, <1>t DEF RegTypes
<1>5. Alone' BY <1>1 DEF RegInv, Alone, InRmw
<1>6. RegisterInStep' BY <1>3 DEF RegisterInStep
<1>7. ResponsesAsAsked' BY <1>1, <1>3 DEF RegInv, ResponsesAsAsked
<1>8. ASSUME NEW c \in Contexts PROVE (CopyInStep(c) /\ SecondPassHeld(c) /\ CopyAsAsked(c))'
  <2>0. CopyInStep(c) /\ SecondPassHeld(c) /\ CopyAsAsked(c) BY DEF RegInv
  <2>1. /\ rmw[c].at \in Stages /\ rmw[c].field \in Fields /\ rmw[c].val \in Registers
    BY <1>t, RmwTyped
  <2>2. CopyInStep(c)'
    <3>1. rmw[c].at \in {"store", "verify"} => InStep(rmw[c].val)
      BY <2>0, <2>1, <1>1, RepairIs DEF CopyInStep
    <3>2. rmw[c].at \in {"store", "verify"} => InStep(Repaired(rmw[c].val))'
      BY <3>1, <2>1, <1>1, <1>3
    <3> QED BY <3>2, <1>1 DEF CopyInStep
  <2>3. SecondPassHeld(c)' BY <2>0, <1>1 DEF SecondPassHeld
  <2>4. CopyAsAsked(c)' BY <2>0, <2>1, <1>1, <1>3 DEF CopyAsAsked, InRmw
  <2> QED BY <2>2, <2>3, <2>4
<1> QED BY <1>4, <1>5, <1>6, <1>7, <1>8 DEF RegInv

(* Nothing of the register matters to the flag while nobody is in           *)
(* uep2_ctrl_rmw(): it may be cleared.                                      *)
LEMMA ClearKeeps ==
  ASSUME RegInv, ~InRmw("thread"), ~InRmw("handler"),
         latched' \in Tokens \cup {"NONE"}, UNCHANGED <<ctrl, rmw, seq, asked>>
  PROVE  RegInv'
<1>t. RegTypes BY DEF RegInv
<1>1. ASSUME NEW c \in Contexts PROVE rmw[c].at = "out" /\ rmw[c].pass = 0
  <2>1. rmw[c].at = "out" BY DEF Contexts, InRmw
  <2>2. SecondPassHeld(c) /\ rmw[c].pass \in {0, 1} BY <1>t, RmwTyped DEF RegInv
  <2> QED BY <2>1, <2>2 DEF SecondPassHeld
<1>2. InStep(ctrl) BY <1>1 DEF RegInv, RegisterInStep
<1>3. RegTypes' BY <1>t DEF RegTypes
<1>4. Alone' BY DEF RegInv, Alone, InRmw
<1>5. RegisterInStep' BY <1>2 DEF RegisterInStep, InStep
<1>6. ResponsesAsAsked' BY DEF RegInv, ResponsesAsAsked
<1>7. ASSUME NEW c \in Contexts PROVE (CopyInStep(c) /\ SecondPassHeld(c) /\ CopyAsAsked(c))'
  BY <1>1 DEF CopyInStep, SecondPassHeld, CopyAsAsked, InRmw
<1> QED BY <1>3, <1>4, <1>5, <1>6, <1>7 DEF RegInv

(* The same for a reset of the endpoint. *)
LEMMA ResetKeeps ==
  ASSUME RegInv, ~InRmw("thread"), ~InRmw("handler"), RegReset,
         latched' \in Tokens \cup {"NONE"}, rmw' = rmw
  PROVE  RegInv'
<1>t. RegTypes BY DEF RegInv
<1>1. ASSUME NEW c \in Contexts PROVE rmw[c].at = "out" /\ rmw[c].pass = 0
  <2>1. rmw[c].at = "out" BY DEF Contexts, InRmw
  <2>2. SecondPassHeld(c) /\ rmw[c].pass \in {0, 1} BY <1>t, RmwTyped DEF RegInv
  <2> QED BY <2>1, <2>2 DEF SecondPassHeld
<1>2. InStep(ctrl)' BY BulkIs DEF RegReset, InStep
<1>3. RegTypes' BY <1>t, BulkIs, BothAsked DEF RegTypes, RegReset
<1>4. Alone' BY DEF RegInv, Alone, InRmw
<1>5. RegisterInStep' BY <1>2 DEF RegisterInStep
<1>6. ResponsesAsAsked' BY BulkIs DEF RegReset, ResponsesAsAsked
<1>7. ASSUME NEW c \in Contexts PROVE (CopyInStep(c) /\ SecondPassHeld(c) /\ CopyAsAsked(c))'
  BY <1>1 DEF CopyInStep, SecondPassHeld, CopyAsAsked, InRmw
<1> QED BY <1>3, <1>4, <1>5, <1>6, <1>7 DEF RegInv

LEMMA SameKeeps ==
  ASSUME RegInv, UNCHANGED <<ctrl, latched, rmw, seq, asked>>
  PROVE  RegInv'
<1>1. RegTypes' BY DEF RegInv, RegTypes
<1>2. Alone' /\ RegisterInStep' /\ ResponsesAsAsked'
  BY DEF RegInv, Alone, InRmw, RegisterInStep, InStep, flag, ResponsesAsAsked
<1>3. ASSUME NEW c \in Contexts PROVE (CopyInStep(c) /\ SecondPassHeld(c) /\ CopyAsAsked(c))'
  BY DEF RegInv, CopyInStep, SecondPassHeld, CopyAsAsked, InRmw, InStep, Repaired, flag
<1> QED BY <1>1, <1>2, <1>3 DEF RegInv

LEMMA RegInitHolds ==
  ASSUME RegInit
  PROVE  RegInv
<1>1. Away \in [at : {"out", "check", "read", "recheck", "store", "verify"},
                field : Fields, to : Responses, pass : 0..1, val : Registers]
  BY BulkIs DEF Away, Fields, Responses
<1>2. \A c \in Contexts : rmw[c] = Away
  BY DEF RegInit
<1>3. RegTypes BY <1>1, BulkIs, BothAsked DEF RegTypes, RegInit, Tokens
<1>4. Alone /\ RegisterInStep /\ ResponsesAsAsked
  BY <1>2, BulkIs DEF RegInit, Alone, InRmw, Away, RegisterInStep, InStep,
    ResponsesAsAsked, Contexts
<1>5. ASSUME NEW c \in Contexts PROVE CopyInStep(c) /\ SecondPassHeld(c) /\ CopyAsAsked(c)
  BY <1>2 DEF CopyInStep, SecondPassHeld, CopyAsAsked, InRmw, Away
<1> QED BY <1>3, <1>4, <1>5 DEF RegInv
-----------------------------------------------------------------------------
(* The transport.                                                           *)

LEMMA Typed == IInv => TypeOK
<1> SUFFICES ASSUME IInv PROVE TypeOK OBVIOUS
<1>1. {unserved, masked, nvic_on, pended, bus_rst, usb_irq_on, fault, entered,
       happened, configured} \subseteq BOOLEAN
  BY DEF IInv, DriverTypes
<1> QED BY <1>1 DEF IInv, DriverTypes, RegInv, RegTypes, TypeOK

LEMMA LimitsAre ==
  /\ IdleLimit \in Nat \ {0} /\ BurstLimit \in Nat \ {0} /\ MaxWrites \in Nat \ {0}
  /\ DemotedWhileArming \in BOOLEAN
  /\ 0 \in 0 .. (IdleLimit - 1) /\ 0 \in 0 .. (BurstLimit - 1) /\ 0 \in 0 .. MaxWrites
<1>1. /\ IdleLimit \in Nat \ {0} /\ BurstLimit \in Nat \ {0} /\ MaxWrites \in Nat \ {0}
      /\ DemotedWhileArming \in BOOLEAN
  BY UsbServiceAssumption
<1> QED BY <1>1

(* Only one context runs, and only in it is a store in progress. *)
LEMMA OneAtATime ==
  ASSUME IInv
  PROVE  /\ InHandler => ~Serving("thread") /\ ~InRmw("thread") /\ pc # "serve"
         /\ ~InHandler => ~InRmw("handler")
         /\ Contexts = {"thread", "handler"}
         /\ \A c \in Contexts : InRmw(c) => Serving(c) \/ (c = "thread" /\ pc = "locked")
<1>1. WhoRuns BY DEF IInv
<1> QED BY <1>1 DEF WhoRuns, InHandler, Serving, Pumping, Contexts, Arming, Tokens

(* The latched transaction and who serves it stay as they are. *)
LEMMA EventsStay ==
  ASSUME IInv, UNCHANGED <<regVars, svc>>
  PROVE  RegInv' /\ EventsHeld'
<1>1. RegInv' BY SameKeeps DEF regVars, IInv
<1>2. EventsHeld' BY DEF IInv, EventsHeld, NoEventSwallowed, regVars, flag
<1> QED BY <1>1, <1>2

(* What the thread does outside usb_service() and uep2_ctrl_rmw(). *)
LEMMA ThreadElsewhereKeeps ==
  ASSUME IInv, ~InHandler,
         \/ TickArm \/ TickPolled \/ TickArmed \/ TickWedge
         \/ ArmSeen \/ ArmSet \/ ArmFails
         \/ WorkElsewhere \/ Unlock \/ WorkStalls
  PROVE  IInv'
<1>0. /\ DriverTypes /\ WhoRuns /\ CountersRest
      /\ OutOfReach => ArmingSafe
      /\ Arming => ~usb_irq_on
  BY DEF IInv, WhoRuns
<1>1. CASE TickArm
  <2>1. DriverTypes'
    BY <1>0, <1>1, LimitsAre DEF TickArm, Tick, DriverTypes, Places, regVars, nvicVars,
      driverVars, threadVars, envVars
  <2>2. WhoRuns'
    BY <1>0, <1>1, OneAtATime DEF TickArm, Tick, DriverTypes, WhoRuns, Serving, InHandler,
      InRmw, Arming, Pumping, regVars, nvicVars, driverVars, threadVars, envVars
  <2>3. CountersRest'
    BY <1>0, <1>1, LimitsAre DEF TickArm, Tick, CountersRest, Arming, driverVars, nvicVars,
      envVars, regVars
  <2>4. ASSUME OutOfReach PROVE ArmingSafe'
    BY <1>0, <1>1, <2>4, LimitsAre DEF TickArm, Tick, OutOfReach, ArmingSafe, CountersRest,
      Arming, DriverTypes, ToCome, One, nvicVars, driverVars, envVars, regVars
  <2>5. RegInv' /\ EventsHeld'
    BY <1>1, EventsStay DEF TickArm, Tick
  <2> QED BY <2>1, <2>2, <2>3, <2>4, <2>5 DEF IInv
<1>2. CASE TickPolled
  <2>1. DriverTypes'
    BY <1>0, <1>2, LimitsAre DEF TickPolled, Tick, DriverTypes, Places, regVars, nvicVars,
      driverVars, threadVars, envVars
  <2>2. WhoRuns'
    BY <1>0, <1>2, OneAtATime DEF TickPolled, Tick, DriverTypes, WhoRuns, Serving,
      InHandler, InRmw, Arming, Pumping, regVars, nvicVars, driverVars, threadVars, envVars
  <2>3. CountersRest'
    BY <1>0, <1>2, LimitsAre DEF TickPolled, Tick, CountersRest, Arming, driverVars,
      nvicVars, envVars, regVars
  <2>4. ASSUME OutOfReach PROVE ArmingSafe'
    BY <1>0, <1>2, <2>4, LimitsAre DEF TickPolled, Tick, OutOfReach, ArmingSafe,
      CountersRest, Arming, DriverTypes, ToCome, One, nvicVars, driverVars, envVars,
      regVars
  <2>5. RegInv' /\ EventsHeld'
    BY <1>2, EventsStay DEF TickPolled, Tick
  <2> QED BY <2>1, <2>2, <2>3, <2>4, <2>5 DEF IInv
<1>3. CASE TickArmed
  <2>1. DriverTypes'
    BY <1>0, <1>3, LimitsAre DEF TickArmed, Tick, DriverTypes, Places, regVars, nvicVars,
      driverVars, threadVars, envVars
  <2>2. WhoRuns'
    BY <1>0, <1>3, OneAtATime DEF TickArmed, Tick, DriverTypes, WhoRuns, Serving,
      InHandler, InRmw, Arming, Pumping, regVars, nvicVars, driverVars, threadVars, envVars
  <2>3. CountersRest'
    BY <1>0, <1>3, LimitsAre DEF TickArmed, Tick, CountersRest, Arming, driverVars,
      nvicVars, envVars, regVars
  <2>4. ASSUME OutOfReach PROVE ArmingSafe'
    BY <1>0, <1>3, <2>4, LimitsAre DEF TickArmed, Tick, OutOfReach, ArmingSafe,
      CountersRest, Arming, DriverTypes, ToCome, One, nvicVars, driverVars, envVars,
      regVars
  <2>5. RegInv' /\ EventsHeld'
    BY <1>3, EventsStay DEF TickArmed, Tick
  <2> QED BY <2>1, <2>2, <2>3, <2>4, <2>5 DEF IInv
<1>4. CASE TickWedge
  <2>1. DriverTypes'
    BY <1>0, <1>4, LimitsAre DEF TickWedge, Tick, Disarm, DriverTypes, Places, regVars,
      nvicVars, driverVars, threadVars, envVars
  <2>2. WhoRuns'
    BY <1>0, <1>4, OneAtATime DEF TickWedge, Tick, Disarm, DriverTypes, WhoRuns, Serving,
      InHandler, InRmw, Arming, Pumping, regVars, nvicVars, driverVars, threadVars, envVars
  <2>3. CountersRest'
    BY <1>0, <1>4, LimitsAre DEF TickWedge, Tick, Disarm, CountersRest, Arming, driverVars,
      nvicVars, envVars, regVars
  <2>4. ASSUME OutOfReach PROVE ArmingSafe'
    BY <1>0, <1>4, <2>4, LimitsAre DEF TickWedge, Tick, Disarm, OutOfReach, ArmingSafe,
      CountersRest, Arming, DriverTypes, ToCome, One, nvicVars, driverVars, envVars,
      regVars
  <2>5. RegInv' /\ EventsHeld'
    BY <1>4, EventsStay DEF TickWedge, Tick, Disarm
  <2> QED BY <2>1, <2>2, <2>3, <2>4, <2>5 DEF IInv
<1>5. CASE ArmSeen
  <2>1. DriverTypes'
    BY <1>0, <1>5, LimitsAre DEF ArmSeen, DriverTypes, Places, regVars, nvicVars,
      driverVars, threadVars, envVars
  <2>2. WhoRuns'
    BY <1>0, <1>5, OneAtATime DEF ArmSeen, DriverTypes, WhoRuns, Serving, InHandler, InRmw,
      Arming, Pumping, regVars, nvicVars, driverVars, threadVars, envVars
  <2>3. CountersRest'
    BY <1>0, <1>5, LimitsAre DEF ArmSeen, CountersRest, Arming, driverVars, nvicVars,
      envVars, regVars
  <2>4. ASSUME OutOfReach PROVE ArmingSafe'
    BY <1>0, <1>5, <2>4, LimitsAre DEF ArmSeen, OutOfReach, ArmingSafe, CountersRest,
      Arming, DriverTypes, ToCome, One, nvicVars, driverVars, envVars, regVars
  <2>5. RegInv' /\ EventsHeld'
    BY <1>5, EventsStay DEF ArmSeen
  <2> QED BY <2>1, <2>2, <2>3, <2>4, <2>5 DEF IInv
<1>6. CASE ArmSet
  <2>1. DriverTypes'
    BY <1>0, <1>6, LimitsAre DEF ArmSet, DriverTypes, Places, regVars, nvicVars,
      driverVars, threadVars, envVars
  <2>2. WhoRuns'
    BY <1>0, <1>6, OneAtATime DEF ArmSet, DriverTypes, WhoRuns, Serving, InHandler, InRmw,
      Arming, Pumping, regVars, nvicVars, driverVars, threadVars, envVars
  <2>3. CountersRest'
    BY <1>0, <1>6, LimitsAre DEF ArmSet, CountersRest, Arming, driverVars, nvicVars,
      envVars, regVars
  <2>4. ASSUME OutOfReach PROVE ArmingSafe'
    BY <1>0, <1>6, <2>4, LimitsAre DEF ArmSet, OutOfReach, ArmingSafe, CountersRest,
      Arming, DriverTypes, ToCome, One, nvicVars, driverVars, envVars, regVars
  <2>5. RegInv' /\ EventsHeld'
    BY <1>6, EventsStay DEF ArmSet
  <2> QED BY <2>1, <2>2, <2>3, <2>4, <2>5 DEF IInv
<1>7. CASE ArmFails
  <2>1. DriverTypes'
    BY <1>0, <1>7, LimitsAre DEF ArmFails, DriverTypes, Places, regVars, nvicVars,
      driverVars, threadVars, envVars
  <2>2. WhoRuns'
    BY <1>0, <1>7, OneAtATime DEF ArmFails, DriverTypes, WhoRuns, Serving, InHandler,
      InRmw, Arming, Pumping, regVars, nvicVars, driverVars, threadVars, envVars
  <2>3. CountersRest'
    BY <1>0, <1>7, LimitsAre DEF ArmFails, CountersRest, Arming, driverVars, nvicVars,
      envVars, regVars
  <2>4. ASSUME OutOfReach PROVE ArmingSafe'
    BY <1>0, <1>7, <2>4, LimitsAre DEF ArmFails, OutOfReach, ArmingSafe, CountersRest,
      Arming, DriverTypes, ToCome, One, nvicVars, driverVars, envVars, regVars
  <2>5. RegInv' /\ EventsHeld'
    BY <1>7, EventsStay DEF ArmFails
  <2> QED BY <2>1, <2>2, <2>3, <2>4, <2>5 DEF IInv
<1>8. CASE WorkElsewhere
  <2>1. DriverTypes'
    BY <1>0, <1>8, LimitsAre DEF WorkElsewhere, DriverTypes, Places, regVars, nvicVars,
      driverVars, threadVars, envVars
  <2>2. WhoRuns'
    BY <1>0, <1>8, OneAtATime DEF WorkElsewhere, DriverTypes, WhoRuns, Serving, InHandler,
      InRmw, Arming, Pumping, regVars, nvicVars, driverVars, threadVars, envVars
  <2>3. CountersRest'
    BY <1>0, <1>8, LimitsAre DEF WorkElsewhere, CountersRest, Arming, driverVars, nvicVars,
      envVars, regVars
  <2>4. ASSUME OutOfReach PROVE ArmingSafe'
    BY <1>0, <1>8, <2>4, LimitsAre DEF WorkElsewhere, OutOfReach, ArmingSafe, CountersRest,
      Arming, DriverTypes, ToCome, One, nvicVars, driverVars, envVars, regVars
  <2>5. RegInv' /\ EventsHeld'
    BY <1>8, EventsStay DEF WorkElsewhere
  <2> QED BY <2>1, <2>2, <2>3, <2>4, <2>5 DEF IInv
<1>9. CASE Unlock
  <2>1. DriverTypes'
    BY <1>0, <1>9, LimitsAre DEF Unlock, DriverTypes, Places, regVars, nvicVars,
      driverVars, threadVars, envVars
  <2>2. WhoRuns'
    BY <1>0, <1>9, OneAtATime DEF Unlock, DriverTypes, WhoRuns, Serving, InHandler, InRmw,
      Arming, Pumping, regVars, nvicVars, driverVars, threadVars, envVars
  <2>3. CountersRest'
    BY <1>0, <1>9, LimitsAre DEF Unlock, CountersRest, Arming, driverVars, nvicVars,
      envVars, regVars
  <2>4. ASSUME OutOfReach PROVE ArmingSafe'
    BY <1>0, <1>9, <2>4, LimitsAre DEF Unlock, OutOfReach, ArmingSafe, CountersRest,
      Arming, DriverTypes, ToCome, One, nvicVars, driverVars, envVars, regVars
  <2>5. RegInv' /\ EventsHeld'
    BY <1>9, EventsStay DEF Unlock
  <2> QED BY <2>1, <2>2, <2>3, <2>4, <2>5 DEF IInv
<1>10. CASE WorkStalls
  <2>1. DriverTypes'
    BY <1>0, <1>10, LimitsAre DEF WorkStalls, Disarm, DriverTypes, Places, regVars,
      nvicVars, driverVars, threadVars, envVars
  <2>2. WhoRuns'
    BY <1>0, <1>10, OneAtATime DEF WorkStalls, Disarm, DriverTypes, WhoRuns, Serving,
      InHandler, InRmw, Arming, Pumping, regVars, nvicVars, driverVars, threadVars, envVars
  <2>3. CountersRest'
    BY <1>0, <1>10, LimitsAre DEF WorkStalls, Disarm, CountersRest, Arming, driverVars,
      nvicVars, envVars, regVars
  <2>4. ASSUME OutOfReach PROVE ArmingSafe'
    BY <1>0, <1>10, <2>4, LimitsAre DEF WorkStalls, Disarm, OutOfReach, ArmingSafe,
      CountersRest, Arming, DriverTypes, ToCome, One, nvicVars, driverVars, envVars,
      regVars
  <2>5. RegInv' /\ EventsHeld'
    BY <1>10, EventsStay DEF WorkStalls, Disarm
  <2> QED BY <2>1, <2>2, <2>3, <2>4, <2>5 DEF IInv
<1> QED BY <1>1, <1>2, <1>3, <1>4, <1>5, <1>6, <1>7, <1>8, <1>9, <1>10
Served == [kind : Tokens \cup {"out", "bus", "other"}, cleared : BOOLEAN,
           writes : 0..MaxWrites]

LEMMA ServedAre ==
  /\ Idle \in Served /\ Idle.kind = "out"
  /\ \A kind \in Tokens \cup {"bus", "other"} :
       LET s == [Idle EXCEPT !.kind = kind]
       IN  s \in Served /\ s.kind = kind /\ s.cleared = FALSE /\ s.writes = 0
BY LimitsAre DEF Idle, Served

(* The flag is read: the latched transaction is being served from here on. *)
LEMMA EnterServiceIs ==
  ASSUME IInv, NEW c \in Contexts, NEW d \in Contexts, c # d,
         ~Serving(c), ~Serving(d), EnterService(c), latched' = latched
  PROVE  /\ svc' \in [Contexts -> Served]
         /\ svc'[d] = svc[d] /\ svc[c].kind = "out" /\ svc[d].kind = "out"
         /\ svc'[c].kind \in Tokens \cup {"bus", "other"}
         /\ svc'[c].kind = "bus" => bus_rst
         /\ flag \/ bus_rst => svc'[c].kind # "other"
         /\ flag => ~unserved'
         /\ svc'[c].kind = "bus" => ~flag
         /\ ~flag => unserved' = unserved
         /\ ~flag => ~unserved
         /\ flag => unserved
         /\ unserved' \in BOOLEAN
         /\ EventsHeld'
<1> DEFINE kind == IF flag THEN latched ELSE IF bus_rst THEN "bus" ELSE "other"
           s == [Idle EXCEPT !.kind = kind]
<1>0. Contexts = {c, d} BY DEF Contexts
<1>1. svc \in [Contexts -> Served] /\ latched \in Tokens \cup {"NONE"} /\ unserved \in BOOLEAN
  BY DEF IInv, DriverTypes, RegInv, RegTypes, Served
<1>2. kind \in Tokens \cup {"bus", "other"}
  BY <1>1 DEF flag
<1>3. s \in Served /\ s.kind = kind /\ s.cleared = FALSE /\ s.writes = 0
  <2> HIDE DEF kind
  <2> QED BY <1>2, ServedAre
<1>4. svc' = [svc EXCEPT ![c] = s] /\ unserved' = (unserved /\ ~flag)
  BY DEF EnterService
<1>5. svc'[c] = s /\ svc'[d] = svc[d] /\ svc' \in [Contexts -> Served]
  <2> HIDE DEF s
  <2> QED BY <1>1, <1>3, <1>4
<1>6. svc[c].kind = "out" /\ svc[d].kind = "out" BY DEF Serving
<1>7. /\ unserved => flag
      /\ flag => unserved
  BY <1>6, <1>0, <1>1 DEF IInv, EventsHeld, NoEventSwallowed, Tokens
<1>8. flag' = flag BY DEF flag
<1>9. EventsHeld'
  <2>1. NoEventSwallowed' BY <1>4, <1>7, <1>8 DEF NoEventSwallowed
  <2>2. kind \in Tokens <=> flag BY <1>1 DEF flag, Tokens
  <2>3. svc'[c].kind = kind /\ svc'[c].cleared = FALSE
    <3> HIDE DEF s, kind
    <3> QED BY <1>3, <1>5
  <2> HIDE DEF s, kind
  <2>4. \A b \in Contexts : svc'[b].kind \in Tokens => b = c /\ flag
    BY <2>2, <2>3, <1>5, <1>6, <1>0 DEF Tokens
  <2>5. flag => ~unserved' BY <1>4
  <2> QED BY <2>1, <2>2, <2>3, <2>4, <2>5, <1>8 DEF EventsHeld
<1>10. /\ kind = "bus" => bus_rst /\ ~flag
       /\ flag \/ bus_rst => kind # "other"
  BY <1>1 DEF flag, Tokens
<1> HIDE DEF s, kind
<1> QED BY <1>1, <1>2, <1>3, <1>4, <1>5, <1>6, <1>7, <1>9, <1>10

LEMMA PollKeeps ==
  ASSUME IInv, ~InHandler, Poll
  PROVE  IInv'
<1>0. /\ DriverTypes /\ WhoRuns /\ CountersRest
      /\ OutOfReach => ArmingSafe
  BY DEF IInv
<1>1. RegInv' BY SameKeeps DEF Poll, IInv
<1>2. ~Serving("thread") /\ ~Serving("handler") /\ pc = "poll"
  BY <1>0 DEF WhoRuns, Poll, InHandler
<1>3. CASE usb_irq_on
  <2>0. /\ pc' = "tick" /\ burst' = 0 /\ svc' = svc /\ unserved' = unserved
    BY <1>3 DEF Poll, PollServes
  <2>1. DriverTypes'
    BY <1>0, <2>0, LimitsAre DEF Poll, DriverTypes, Places, nvicVars, envVars
  <2>2. WhoRuns'
    BY <1>0, <1>2, <2>0, <1>3 DEF Poll, WhoRuns, Serving, InHandler, InRmw, Arming,
      Pumping, nvicVars, envVars
  <2>3. CountersRest' BY <1>0, <1>3, <2>0 DEF Poll, CountersRest, Arming
  <2>4. ASSUME OutOfReach PROVE ArmingSafe'
    BY <1>0, <2>0, <2>4 DEF Poll, ArmingSafe, Arming, nvicVars, envVars
  <2>5. EventsHeld' BY <2>0 DEF Poll, IInv, EventsHeld, NoEventSwallowed, flag
  <2> QED BY <2>1, <2>2, <2>3, <2>4, <2>5, <1>1 DEF IInv
<1>4. CASE ~usb_irq_on
  <2>0. /\ pc' = "serve" /\ burst' = burst /\ EnterService("thread")
        /\ latched' = latched
    BY <1>4 DEF Poll, PollServes
  <2>1. /\ svc' \in [Contexts -> Served]
        /\ svc'["handler"] = svc["handler"] /\ svc["handler"].kind = "out"
        /\ svc'["thread"].kind \in Tokens \cup {"bus", "other"}
        /\ svc'["thread"].kind = "bus" => bus_rst
        /\ unserved' \in BOOLEAN
        /\ EventsHeld'
    BY <2>0, <1>2, EnterServiceIs DEF Contexts
  <2>2. DriverTypes'
    BY <1>0, <2>0, <2>1 DEF Poll, DriverTypes, Places, nvicVars, envVars, Served
  <2>3. ~InRmw("thread") /\ ~InRmw("handler")
    BY <1>0, <1>2 DEF WhoRuns, Pumping, Serving, Tokens
  <2>4. WhoRuns'
    BY <1>0, <1>2, <2>0, <2>1, <2>3, <1>4 DEF Poll, WhoRuns, Serving, InHandler, InRmw,
      Arming, Pumping, nvicVars, envVars, Contexts, Tokens
  <2>5. CountersRest' BY <1>0, <1>2, <1>4, <2>0 DEF Poll, CountersRest, Arming
  <2>6. ASSUME OutOfReach PROVE ArmingSafe'
    BY <1>0, <2>0, <2>6 DEF Poll, ArmingSafe, Arming, nvicVars, envVars
  <2> QED BY <2>1, <2>2, <2>4, <2>5, <2>6, <1>1 DEF IInv
<1> QED BY <1>3, <1>4, <1>0 DEF DriverTypes

LEMMA TickDeadKeeps ==
  ASSUME IInv, ~InHandler, TickDead
  PROVE  IInv'
<1>0. /\ DriverTypes /\ WhoRuns /\ CountersRest
      /\ OutOfReach => ArmingSafe
  BY DEF IInv
<1>1. /\ ~InRmw("thread") /\ ~InRmw("handler") /\ pc = "tick"
      /\ ~Serving("thread") /\ ~Serving("handler")
  BY <1>0 DEF WhoRuns, Pumping, Serving, Tokens, TickDead, InHandler
<1>2. RegInv' BY <1>1, ResetKeeps DEF TickDead, IInv, Tokens
<1>3. DriverTypes'
  BY <1>0, LimitsAre DEF TickDead, DriverTypes, Places
<1>4. WhoRuns'
  BY <1>0, <1>1 DEF TickDead, WhoRuns, Serving, InHandler, InRmw, Arming, Pumping, Contexts
<1>5. EventsHeld'
  BY <1>1 DEF TickDead, EventsHeld, NoEventSwallowed, flag, Contexts, Serving, Tokens
<1>6. CountersRest' BY DEF TickDead, CountersRest
<1>7. ASSUME OutOfReach PROVE ArmingSafe'
  BY <1>0, <1>7 DEF TickDead, ArmingSafe, Arming
<1> QED BY <1>2, <1>3, <1>4, <1>5, <1>6, <1>7 DEF IInv

(* A step of uep2_ctrl_rmw(), or a call of it under the lock. *)
LEMMA LockedAndRmwKeep ==
  ASSUME IInv
  PROVE  /\ ~InHandler /\ WorkLocked => IInv'
         /\ ~InHandler /\ ThreadRmw => IInv'
         /\ HandlerRmw => IInv'
<1>0. /\ DriverTypes /\ WhoRuns /\ CountersRest
      /\ OutOfReach => ArmingSafe
  BY DEF IInv
<1>1. ASSUME ~InHandler, WorkLocked PROVE IInv'
  <2>1. RegisterStep("thread")
    BY <1>1 DEF WorkLocked, RegisterStep, Fields, Responses
  <2>2. ~InRmw("handler") /\ ~InRmw("thread") /\ pc = "work" /\ ~Serving("thread")
    BY <1>0, <1>1 DEF WhoRuns, Pumping, Serving, Tokens, WorkLocked, InHandler
  <2>3. RegInv' BY <2>1, <2>2, RegisterStepKeeps DEF IInv, Contexts
  <2>4. /\ latched' = latched /\ unserved' = unserved
        /\ rmw'["handler"] = rmw["handler"]
    BY <1>1 DEF WorkLocked, Call, Contexts, IInv, RegInv, RegTypes
  <2>5. DriverTypes'
    BY <1>0, <1>1, <2>4 DEF WorkLocked, DriverTypes, Places, nvicVars, driverVars, envVars
  <2>6. WhoRuns'
    BY <1>0, <1>1, <2>2, <2>4 DEF WorkLocked, WhoRuns, Serving, InHandler, InRmw, Arming,
      Pumping, nvicVars, driverVars, envVars
  <2>7. EventsHeld'
    BY <1>1, <2>4 DEF WorkLocked, IInv, EventsHeld, NoEventSwallowed, flag
  <2>8. CountersRest'
    BY <1>0, <1>1, <2>2 DEF WorkLocked, CountersRest, Arming, driverVars
  <2>9. ASSUME OutOfReach PROVE ArmingSafe'
    BY <1>0, <1>1, <2>9 DEF WorkLocked, ArmingSafe, Arming, driverVars, nvicVars, envVars
  <2> QED BY <2>3, <2>5, <2>6, <2>7, <2>8, <2>9 DEF IInv
<1>2. ASSUME NEW c \in Contexts, NEW d \in Contexts, c # d, ~InRmw(d),
             Rmw(c), UNCHANGED <<threadVars, svc, nvicVars, driverVars, configured, envVars>>
      PROVE  IInv'
  <2>1. RegInv' BY <1>2, RegisterStepKeeps DEF RegisterStep, IInv
  <2>2. /\ InRmw(c) /\ latched' = latched /\ unserved' = unserved
        /\ rmw'[d] = rmw[d]
    <3>1. rmw \in [Contexts -> [at : Stages, field : Fields, to : Responses, pass : 0..1, val : Registers]]
      BY DEF IInv, RegInv, RegTypes, Stages
    <3>2. InRmw(c) BY <1>2 DEF Rmw, Check, Read, Recheck, Store, Verify, InRmw
    <3>3. rmw'[d] = rmw[d]
      BY <1>2, <3>1 DEF Rmw, Check, Read, Recheck, Store, Verify, Goto, Return
    <3> QED BY <1>2, <3>2, <3>3 DEF Rmw
  <2>3. DriverTypes'
    BY <1>0, <1>2, <2>2 DEF DriverTypes, threadVars, nvicVars, driverVars, envVars
  <2>4. WhoRuns'
    BY <1>0, <1>2, <2>2 DEF Contexts, WhoRuns, Serving, InHandler, InRmw, Arming, Pumping,
      threadVars, nvicVars, driverVars, envVars
  <2>5. EventsHeld'
    BY <1>2, <2>2 DEF IInv, EventsHeld, NoEventSwallowed, flag
  <2>6. CountersRest' BY <1>0, <1>2 DEF CountersRest, Arming, threadVars, driverVars
  <2>7. ASSUME OutOfReach PROVE ArmingSafe'
    BY <1>0, <1>2, <2>2, <2>7 DEF ArmingSafe, Arming, ToCome, One, threadVars, driverVars,
      nvicVars, envVars
  <2> QED BY <2>1, <2>3, <2>4, <2>5, <2>6, <2>7 DEF IInv
<1>3. ASSUME ~InHandler, ThreadRmw PROVE IInv'
  <2>1. ~InRmw("handler") BY <1>3, OneAtATime
  <2> QED BY <1>2, <1>3, <2>1 DEF ThreadRmw, Contexts
<1>4. ASSUME HandlerRmw PROVE IInv'
  <2>1. InRmw("handler")
    BY <1>4 DEF HandlerRmw, Rmw, Check, Read, Recheck, Store, Verify, InRmw
  <2>2. ~InRmw("thread") BY <2>1, OneAtATime
  <2> QED BY <1>2, <1>4, <2>2 DEF HandlerRmw, Contexts
<1> QED BY <1>1, <1>3, <1>4
LEMMA OneTaken ==
  ASSUME NEW b \in Nat, NEW m \in Nat, NEW n \in Nat, NEW limit \in Nat,
         m + 1 <= n, b + n < limit
  PROVE  b + 1 + m < limit
OBVIOUS

(* An interrupt is taken. *)
LEMMA EnterKeeps ==
  ASSUME IInv, Enter
  PROVE  IInv'
<1>0. /\ DriverTypes /\ WhoRuns /\ CountersRest
      /\ OutOfReach => ArmingSafe
  BY DEF IInv
<1>1. /\ ~Serving("handler") /\ ~InHandler /\ ~InRmw("handler")
      /\ ~masked /\ nvic_on /\ pc # "locked"
  BY <1>0, OneAtATime DEF Enter, InHandler, WhoRuns
<1>2. pc # "serve" /\ ~Serving("thread") /\ ~InRmw("thread")
  BY <1>0, <1>1 DEF WhoRuns, Pumping, Serving, Tokens, Arming
<1>3. RegInv' BY SameKeeps DEF Enter, IInv
<1>4. /\ pended' = FALSE /\ entered' = TRUE /\ pc' = pc /\ masked' = masked
      /\ latched' = latched /\ rmw' = rmw /\ UNCHANGED <<happened, configured, bus_rst, line>>
  BY DEF Enter, threadVars, envVars
<1>a. ASSUME OutOfReach, Arming
      PROVE  /\ idle_entries + One(pended) <= 1 /\ burst + ToCome < BurstLimit
             /\ line # "held" /\ ~usb_irq_on /\ ~fault
             /\ ~flag => ~unserved
             /\ flag => unserved
  <2>1. /\ unserved => flag
        /\ flag => unserved
    BY <1>1, <1>2, <1>0 DEF IInv, EventsHeld, NoEventSwallowed, Contexts, Serving, Tokens,
      DriverTypes
  <2> QED BY <1>a, <1>0, <2>1 DEF ArmingSafe, WhoRuns
<1>b. burst \in Nat /\ idle_entries \in Nat /\ BurstLimit \in Nat /\ IdleLimit \in Nat
  BY <1>0, LimitsAre DEF DriverTypes
<1>c. One(pended) \in {0, 1} /\ One(unserved) \in {0, 1}
      /\ One(bus_rst /\ svc["handler"].kind # "bus") \in {0, 1}
  BY DEF One
<1>r. ASSUME OutOfReach, Arming
      PROVE  /\ ToCome >= 1 /\ BurstAfter < BurstLimit
             /\ ~flag /\ ~bus_rst => pended /\ idle_entries = 0
  <2>1. Raised BY DEF Enter
  <2>2. pended \/ flag \/ bus_rst BY <2>1, <1>a, <1>r DEF Raised
  <2>3. svc["handler"].kind # "bus" BY <1>1 DEF Serving
  <2>4. One(pended) = 1 \/ One(unserved) = 1 \/ One(bus_rst /\ svc["handler"].kind # "bus") = 1
    BY <2>2, <2>3, <1>a, <1>r DEF One
  <2>5. ToCome >= 1 BY <2>4, <1>c DEF ToCome
  <2>6. ToCome \in Nat BY <1>c DEF ToCome
  <2>7. BurstAfter < BurstLimit
    BY <2>5, <2>6, <1>a, <1>r, <1>b DEF BurstAfter
  <2>8. ~flag /\ ~bus_rst => pended /\ idle_entries = 0
    BY <2>2, <1>a, <1>r, <1>b DEF One
  <2> QED BY <2>5, <2>7, <2>8
<1>5. CASE TooMany \/ (~flag /\ ~bus_rst /\ idle_entries + 1 >= IdleLimit)
  <2>0. GiveUp /\ svc' = svc /\ unserved' = unserved
    BY <1>5, <1>b DEF Enter
  <2>1. DriverTypes'
    BY <1>0, <1>4, <2>0, LimitsAre DEF GiveUp, DriverTypes
  <2>2. WhoRuns'
    BY <1>0, <1>1, <1>2, <1>4, <2>0 DEF GiveUp, WhoRuns, Serving, InHandler, InRmw, Arming,
      Pumping
  <2>3. EventsHeld' BY <1>4, <2>0 DEF IInv, EventsHeld, NoEventSwallowed, flag
  <2>4. CountersRest' BY <2>0 DEF GiveUp, CountersRest
  <2>5. ASSUME OutOfReach PROVE ArmingSafe'
    <3>1. ASSUME Arming PROVE FALSE
      <4>1. BurstAfter < BurstLimit /\ (~flag /\ ~bus_rst => idle_entries = 0)
        BY <1>r, <2>5, <3>1
      <4>2. IdleLimit > 1 BY <2>5 DEF OutOfReach
      <4> QED BY <4>1, <4>2, <1>5, <1>b DEF TooMany, BurstAfter
    <3> QED BY <3>1, <1>0, <1>4, <2>0, <2>5 DEF ArmingSafe, Arming, GiveUp
  <2> QED BY <1>3, <2>1, <2>2, <2>3, <2>4, <2>5 DEF IInv
<1>6. CASE ~TooMany /\ ~flag /\ ~bus_rst /\ ~(idle_entries + 1 >= IdleLimit)
  <2>0. /\ idle_entries' = idle_entries + 1 /\ burst' = BurstAfter /\ StaysArmed
        /\ svc' = svc /\ unserved' = unserved
    BY <1>6 DEF Enter
  <2>1. DriverTypes'
    <3>1. idle_entries' \in 0 .. (IdleLimit - 1) /\ burst' \in 0 .. (BurstLimit - 1)
      BY <1>6, <1>b, <2>0 DEF TooMany, BurstAfter
    <3> QED BY <3>1, <1>0, <1>4, <2>0 DEF StaysArmed, DriverTypes
  <2>2. WhoRuns'
    BY <1>0, <1>1, <1>2, <1>4, <2>0 DEF StaysArmed, WhoRuns, Serving, InHandler, InRmw,
      Arming, Pumping
  <2>3. EventsHeld' BY <1>4, <2>0 DEF IInv, EventsHeld, NoEventSwallowed, flag
  <2>4. CountersRest'
    BY <1>0, <1>1, <1>4, <2>0 DEF StaysArmed, CountersRest, WhoRuns, Arming
  <2>5. ASSUME OutOfReach PROVE ArmingSafe'
    <3>1. ASSUME Arming
          PROVE  idle_entries' + One(pended)' <= 1 /\ burst' + ToCome' < BurstLimit
      <4>1. pended /\ idle_entries = 0 BY <1>r, <1>6, <2>5, <3>1
      <4>2. One(pended) = 1 /\ One(pended)' = 0 /\ One(unserved)' = One(unserved)
            /\ One(bus_rst /\ svc["handler"].kind # "bus")' = One(bus_rst /\ svc["handler"].kind # "bus")
        BY <4>1, <1>4, <2>0 DEF One
      <4>3. ToCome' + 1 <= ToCome /\ ToCome \in Nat /\ ToCome' \in Nat
        BY <4>2, <1>c DEF ToCome
      <4>4. burst + ToCome < BurstLimit BY <1>a, <2>5, <3>1
      <4>5. burst' = burst + 1 /\ idle_entries' = 1 BY <2>0, <4>1 DEF BurstAfter
      <4>6. burst' + ToCome' < BurstLimit
        <5>1. burst + 1 + ToCome' < BurstLimit BY <4>3, <4>4, <1>b, OneTaken
        <5> QED BY <5>1, <4>5
      <4> QED BY <4>2, <4>5, <4>6
    <3> QED BY <3>1, <1>0, <1>4, <2>0, <2>5 DEF ArmingSafe, Arming, StaysArmed
  <2> QED BY <1>3, <2>1, <2>2, <2>3, <2>4, <2>5 DEF IInv
<1>7. CASE ~TooMany /\ (flag \/ bus_rst)
  <2>0. /\ idle_entries' = 0 /\ burst' = BurstAfter /\ StaysArmed
        /\ EnterService("handler")
    BY <1>7 DEF Enter
  <2>e. /\ svc' \in [Contexts -> Served]
        /\ svc'["thread"] = svc["thread"] /\ svc["thread"].kind = "out"
        /\ svc'["handler"].kind \in Tokens \cup {"bus", "other"}
        /\ svc'["handler"].kind = "bus" => bus_rst
        /\ svc'["handler"].kind = "bus" => ~flag
        /\ svc'["handler"].kind # "other"
        /\ flag => ~unserved'
        /\ ~flag => unserved' = unserved
        /\ unserved' \in BOOLEAN
        /\ EventsHeld'
    BY <2>0, <1>1, <1>2, <1>4, <1>7, EnterServiceIs DEF Contexts
  <2>1. DriverTypes'
    <3>1. idle_entries' \in 0 .. (IdleLimit - 1) /\ burst' \in 0 .. (BurstLimit - 1)
      BY <1>7, <1>b, <2>0, LimitsAre DEF TooMany, BurstAfter
    <3> QED BY <3>1, <1>0, <1>4, <2>0, <2>e DEF StaysArmed, DriverTypes, Served
  <2>2. WhoRuns'
    BY <1>0, <1>1, <1>2, <1>4, <2>0, <2>e DEF StaysArmed, WhoRuns, Serving, InHandler,
      InRmw, Arming, Pumping, Contexts, Tokens
  <2>4. CountersRest'
    BY <1>0, <1>1, <1>4, <2>0 DEF StaysArmed, CountersRest, WhoRuns, Arming
  <2>5. ASSUME OutOfReach PROVE ArmingSafe'
    <3>1. ASSUME Arming
          PROVE  idle_entries' + One(pended)' <= 1 /\ burst' + ToCome' < BurstLimit
      <4>0. One(pended)' = 0 BY <1>4 DEF One
      <4>1. svc["handler"].kind # "bus" BY <1>1 DEF Serving
      <4>2. CASE flag
        <5>1. One(unserved) = 1 /\ One(unserved)' = 0
          BY <4>2, <2>e, <1>a, <2>5, <3>1 DEF One
        <5>2. One(bus_rst /\ svc["handler"].kind # "bus")' = One(bus_rst /\ svc["handler"].kind # "bus")
          BY <4>1, <4>2, <2>e, <1>4 DEF One
        <5>3. ToCome' + 1 <= ToCome /\ ToCome \in Nat /\ ToCome' \in Nat
          BY <4>0, <5>1, <5>2, <1>c DEF ToCome
        <5>5. burst + ToCome < BurstLimit BY <1>a, <2>5, <3>1
        <5>6. burst' = burst + 1 /\ idle_entries' = 0 BY <2>0 DEF BurstAfter
        <5>7. burst' + ToCome' < BurstLimit
          <6>1. burst + 1 + ToCome' < BurstLimit BY <5>3, <5>5, <1>b, OneTaken
          <6> QED BY <6>1, <5>6
        <5> QED BY <4>0, <5>6, <5>7
      <4>3. CASE ~flag
        <5>1. svc'["handler"].kind = "bus" /\ bus_rst
          BY <4>3, <1>7, <2>0, <2>e, <1>0 DEF EnterService, Idle, DriverTypes, Contexts
        <5>2. One(bus_rst /\ svc["handler"].kind # "bus")' = 0 /\ One(bus_rst /\ svc["handler"].kind # "bus") = 1
          BY <4>1, <5>1, <1>4 DEF One
        <5>3. One(unserved)' = One(unserved) BY <4>3, <2>e DEF One
        <5>4. ToCome' + 1 <= ToCome /\ ToCome \in Nat /\ ToCome' \in Nat
          BY <4>0, <5>2, <5>3, <1>c DEF ToCome
        <5>5. burst + ToCome < BurstLimit BY <1>a, <2>5, <3>1
        <5>6. burst' = burst + 1 /\ idle_entries' = 0 BY <2>0 DEF BurstAfter
        <5>7. burst' + ToCome' < BurstLimit
          <6>1. burst + 1 + ToCome' < BurstLimit BY <5>4, <5>5, <1>b, OneTaken
          <6> QED BY <6>1, <5>6
        <5> QED BY <4>0, <5>6, <5>7
      <4> QED BY <4>2, <4>3
    <3> QED BY <3>1, <1>0, <1>4, <2>0, <2>5 DEF ArmingSafe, Arming, StaysArmed
  <2> QED BY <1>3, <2>1, <2>2, <2>e, <2>4, <2>5 DEF IInv
<1> QED BY <1>5, <1>6, <1>7
(* A step of usb_service() in one context while the other one does not run. *)
LEMMA ServiceKeeps ==
  ASSUME IInv, NEW c \in Contexts, NEW d \in Contexts, c # d,
         ~Serving(d), ~InRmw(d), Service(c)
  PROVE  IInv'
<1>0. /\ DriverTypes /\ WhoRuns /\ CountersRest
      /\ OutOfReach => ArmingSafe
  BY DEF IInv
<1>c. /\ Contexts = {c, d}
      /\ (c = "thread" /\ d = "handler") \/ (c = "handler" /\ d = "thread")
  BY DEF Contexts
<1>s. svc \in [Contexts -> Served] /\ svc[c] \in Served /\ svc[d].kind = "out"
  BY <1>0 DEF DriverTypes, Served, Serving
<1>e. EventsHeld BY DEF IInv
<1>t. svc[c].kind # "out" => (c = "thread" <=> pc = "serve")
  BY <1>0, <1>c, <1>s DEF WhoRuns, Serving
<1>l. latched \in Tokens \cup {"NONE"} BY DEF IInv, RegInv, RegTypes
<1>1. CASE ServeReset(c)
  <2> DEFINE s == [svc[c] EXCEPT !.kind = "other"]
  <2>0. /\ svc' = [svc EXCEPT ![c] = s] /\ bus_rst' = FALSE /\ configured' = FALSE
        /\ happened' = TRUE /\ svc[c].kind = "bus"
        /\ UNCHANGED <<latched, rmw, unserved, threadVars, nvicVars, usb_irq_on,
                       fault, idle_entries, burst, entered, line>>
    BY <1>1, <1>s DEF ServeReset
  <2>1. s \in Served /\ s.kind = "other" BY <1>s DEF Served
  <2>2. svc'[c].kind = "other" /\ svc'[d] = svc[d] /\ svc' \in [Contexts -> Served]
    <3> HIDE DEF s
    <3> QED BY <2>0, <2>1, <1>s, <1>c
  <2> HIDE DEF s
  <2>3. ~InRmw("thread") /\ ~InRmw("handler")
    BY <1>0, <1>c, <1>t, <2>0 DEF WhoRuns, Pumping, Tokens
  <2>4. RegInv' BY <1>1, <1>l, <2>0, <2>3, ResetKeeps DEF ServeReset, IInv
  <2>5. DriverTypes'
    BY <1>0, <2>0, <2>2 DEF DriverTypes, Served, threadVars, nvicVars
  <2>6. WhoRuns'
    BY <1>0, <1>c, <1>s, <2>0, <2>2 DEF WhoRuns, Serving, InHandler, InRmw, Arming,
      Pumping, threadVars, nvicVars
  <2>7. EventsHeld'
    BY <1>e, <1>c, <1>s, <2>0, <2>2 DEF EventsHeld, NoEventSwallowed, flag, Tokens
  <2>8. CountersRest' BY <1>0, <2>0 DEF CountersRest, Arming, threadVars
  <2>9. ASSUME OutOfReach PROVE ArmingSafe'
    <3>1. c = "handler" \/ ~Arming BY <1>c, <1>t, <2>0 DEF Arming
    <3> QED
      BY <3>1, <1>0, <2>0, <2>2, <2>9, LimitsAre DEF ArmingSafe, Arming, ToCome, One,
        threadVars, nvicVars
  <2> QED BY <2>4, <2>5, <2>6, <2>7, <2>8, <2>9 DEF IInv
<1>2. CASE Release(c)
  <2> DEFINE s == [svc[c] EXCEPT !.cleared = TRUE]
  <2>0. /\ svc' = [svc EXCEPT ![c] = s] /\ latched' = "NONE"
        /\ svc[c].kind = "IN" /\ ~svc[c].cleared /\ ~InRmw(c)
        /\ UNCHANGED <<ctrl, rmw, seq, asked, unserved, threadVars, nvicVars,
                       driverVars, configured, envVars>>
    BY <1>2, <1>s DEF Release, InRmw
  <2>1. s \in Served /\ s.kind = svc[c].kind /\ s.cleared = TRUE BY <1>s DEF Served
  <2>2. /\ svc'[c].kind = svc[c].kind /\ svc'[c].cleared = TRUE
        /\ svc'[d] = svc[d] /\ svc' \in [Contexts -> Served]
    <3> HIDE DEF s
    <3> QED BY <2>0, <2>1, <1>s, <1>c
  <2> HIDE DEF s
  <2>4. RegInv' BY <2>0, <1>c, ClearKeeps DEF IInv
  <2>5. DriverTypes'
    BY <1>0, <2>0, <2>2 DEF DriverTypes, Served, threadVars, nvicVars, driverVars, envVars
  <2>6. WhoRuns'
    BY <1>0, <1>c, <1>s, <2>0, <2>2 DEF WhoRuns, Serving, InHandler, InRmw, Arming,
      Pumping, threadVars, nvicVars, driverVars, envVars
  <2>7. EventsHeld'
    BY <1>e, <1>c, <1>s, <2>0, <2>2 DEF EventsHeld, NoEventSwallowed, flag, Tokens
  <2>8. CountersRest' BY <1>0, <2>0 DEF CountersRest, Arming, threadVars, driverVars
  <2>9. ASSUME OutOfReach PROVE ArmingSafe'
    <3>1. svc'["handler"].kind = svc["handler"].kind BY <1>c, <2>2
    <3> QED
      BY <3>1, <1>0, <2>0, <2>9 DEF ArmingSafe, Arming, ToCome, One, threadVars, nvicVars,
        driverVars, envVars
  <2> QED BY <2>4, <2>5, <2>6, <2>7, <2>8, <2>9 DEF IInv
<1>3. CASE ServiceWrites(c)
  <2> DEFINE s == [svc[c] EXCEPT !.writes = svc[c].writes + 1]
  <2>0. /\ svc' = [svc EXCEPT ![c] = s] /\ svc[c].writes < MaxWrites /\ Pumping(c)
        /\ UNCHANGED <<threadVars, nvicVars, driverVars, configured, envVars>>
    BY <1>3, <1>s DEF ServiceWrites, Pumping
  <2>1. s \in Served /\ s.kind = svc[c].kind /\ s.cleared = svc[c].cleared
    BY <1>s, <2>0, LimitsAre DEF Served
  <2>2. /\ svc'[c].kind = svc[c].kind /\ svc'[c].cleared = svc[c].cleared
        /\ svc'[d] = svc[d] /\ svc' \in [Contexts -> Served]
    <3> HIDE DEF s
    <3> QED BY <2>0, <2>1, <1>s, <1>c
  <2> HIDE DEF s
  <2>3. PICK field \in Fields, response \in Responses : Call(c, field, response)
    BY <1>3 DEF ServiceWrites
  <2>4. RegInv' BY <2>3, RegisterStepKeeps DEF IInv, RegisterStep
  <2>c. latched' = latched /\ unserved' = unserved /\ rmw'[d] = rmw[d]
    BY <2>3, <1>c DEF Call, IInv, RegInv, RegTypes
  <2>5. DriverTypes'
    BY <1>0, <2>0, <2>2, <2>c DEF DriverTypes, Served, threadVars, nvicVars, driverVars,
      envVars
  <2>6. WhoRuns'
    BY <1>0, <1>c, <1>s, <2>0, <2>2, <2>c DEF WhoRuns, Serving, InHandler, InRmw, Arming,
      Pumping, threadVars, nvicVars, driverVars, envVars
  <2>7. EventsHeld'
    BY <1>e, <1>c, <1>s, <2>0, <2>2, <2>c DEF EventsHeld, NoEventSwallowed, flag, Tokens
  <2>8. CountersRest' BY <1>0, <2>0 DEF CountersRest, Arming, threadVars, driverVars
  <2>9. ASSUME OutOfReach PROVE ArmingSafe'
    <3>1. svc'["handler"].kind = svc["handler"].kind BY <1>c, <2>2
    <3> QED
      BY <3>1, <1>0, <2>0, <2>c, <2>9 DEF ArmingSafe, Arming, ToCome, One, threadVars,
        nvicVars, driverVars, envVars
  <2> QED BY <2>4, <2>5, <2>6, <2>7, <2>8, <2>9 DEF IInv
<1>4. CASE EndService(c)
  <2>0. /\ svc' = [svc EXCEPT ![c] = Idle] /\ Pumping(c) /\ ~InRmw(c)
        /\ latched' = IF svc[c].kind \in Tokens /\ ~svc[c].cleared THEN "NONE" ELSE latched
        /\ pc' = IF c = "thread" THEN "tick" ELSE pc
        /\ happened' \in BOOLEAN /\ configured' \in BOOLEAN
        /\ UNCHANGED <<ctrl, rmw, seq, asked, unserved, masked, nvicVars,
                       usb_irq_on, fault, idle_entries, burst, entered, envVars>>
    <3>1. happened' \in BOOLEAN /\ configured' \in BOOLEAN
      BY <1>4, <1>0 DEF EndService, DriverTypes
    <3>2. svc[c].cleared \in BOOLEAN BY <1>s DEF Served
    <3>3. latched' = IF svc[c].kind \in Tokens /\ ~svc[c].cleared THEN "NONE" ELSE latched
      BY <1>4, <3>2 DEF EndService, LatchedAfter
    <3> QED BY <1>4, <3>1, <3>3 DEF EndService, InRmw, Pumping
  <2>2. svc'[c].kind = "out" /\ svc'[d] = svc[d] /\ svc' \in [Contexts -> Served]
    <3>1. Idle \in Served /\ Idle.kind = "out" BY ServedAre
    <3> QED BY <2>0, <3>1, <1>s, <1>c
  <2>4. RegInv' BY <2>0, <1>c, <1>l, ClearKeeps DEF IInv
  <2>5. DriverTypes'
    BY <1>0, <2>0, <2>2 DEF DriverTypes, Served, Places, nvicVars, envVars
  <2>p. Pumping(c) => svc[c].kind # "out" /\ svc[c].kind # "bus" BY DEF Pumping, Tokens
  <2>6. WhoRuns'
    BY <1>0, <1>c, <1>s, <1>t, <2>0, <2>2, <2>p DEF WhoRuns, Serving, InHandler, InRmw,
      Arming, Pumping, nvicVars, envVars
  <2>7. EventsHeld'
    BY <1>e, <1>c, <1>s, <2>0, <2>2 DEF EventsHeld, NoEventSwallowed, flag, Tokens
  <2>8. CountersRest' BY <1>0, <1>c, <1>t, <2>0, <2>p DEF CountersRest, Arming
  <2>9. ASSUME OutOfReach PROVE ArmingSafe'
    <3>1. svc'["handler"].kind # "bus" <=> svc["handler"].kind # "bus"
      BY <1>c, <2>0, <2>2, <2>p
    <3>2. Arming' => Arming BY <1>c, <1>t, <2>0, <2>p DEF Arming
    <3>4. One(pended)' = One(pended) /\ ToCome' = ToCome
      BY <3>1, <2>0 DEF One, ToCome, nvicVars, envVars
    <3> QED BY <3>2, <3>4, <1>0, <2>0, <2>9 DEF ArmingSafe, nvicVars, envVars
  <2> QED BY <2>4, <2>5, <2>6, <2>7, <2>8, <2>9 DEF IInv
<1> QED BY <1>1, <1>2, <1>3, <1>4 DEF Service
LEMMA RoomForOneMore ==
  ASSUME NEW b \in Nat, NEW m \in Nat, NEW limit \in Nat,
         NEW p \in {0, 1}, NEW f \in {0, 1}, NEW r \in {0, 1},
         m <= p + r + 2, b + p + f + r + 2 < limit
  PROVE  b + m < limit
OBVIOUS

(* The SIE, the host and the interrupt line. *)
LEMMA EnvironmentKeeps ==
  ASSUME IInv, Environment
  PROVE  IInv'
<1>0. /\ DriverTypes /\ WhoRuns /\ CountersRest
      /\ OutOfReach => ArmingSafe
  BY DEF IInv
<1>b. /\ burst \in Nat /\ BurstLimit \in Nat
      /\ One(pended) \in {0, 1} /\ One(unserved) \in {0, 1} /\ One(flag) \in {0, 1}
      /\ One(bus_rst) \in {0, 1}
      /\ One(bus_rst /\ svc["handler"].kind # "bus") \in {0, 1}
  BY <1>0, LimitsAre DEF DriverTypes, One
<1>1. CASE Transaction
  <2>0. /\ SieStep /\ MayRaise
        /\ UNCHANGED <<threadVars, svc, nvicVars, driverVars, configured, envVars>>
    BY <1>1 DEF Transaction, SieStep
  <2>1. RegInv' BY <2>0, SieKeeps DEF IInv
  <2>2. ~flag /\ flag' /\ unserved' = TRUE /\ rmw' = rmw
    BY <2>0 DEF SieStep, SieIn, SieOut, SieOutAgain, SieEp0, Complete, flag
  <2>3. DriverTypes'
    BY <1>0, <2>0, <2>2 DEF DriverTypes, threadVars, nvicVars, driverVars, envVars
  <2>4. WhoRuns'
    BY <1>0, <2>0, <2>2 DEF WhoRuns, Serving, InHandler, InRmw, Arming, Pumping,
      threadVars, nvicVars, driverVars, envVars
  <2>5. EventsHeld'
    <3>1. \A c \in Contexts : svc[c].kind \in Tokens => svc[c].cleared
      BY <2>2, <1>0 DEF IInv, EventsHeld
    <3> QED BY <3>1, <2>0, <2>2 DEF EventsHeld, NoEventSwallowed
  <2>6. CountersRest' BY <1>0, <2>0 DEF CountersRest, Arming, threadVars, driverVars
  <2>7. ASSUME OutOfReach PROVE ArmingSafe'
    <3>1. ASSUME Arming PROVE burst' + ToCome' < BurstLimit
      <4>1. burst + One(pended) + One(flag) + One(bus_rst) + 2 < BurstLimit
        BY <2>0, <2>7, <3>1 DEF MayRaise, OutOfReach
      <4>2. /\ One(pended)' = One(pended) /\ One(unserved)' = 1
            /\ One(bus_rst /\ svc["handler"].kind # "bus")' = One(bus_rst /\ svc["handler"].kind # "bus")
            /\ One(bus_rst /\ svc["handler"].kind # "bus") <= One(bus_rst)
        BY <2>0, <2>2 DEF One, nvicVars, envVars
      <4>3. ToCome' <= One(pended) + One(bus_rst) + 2 /\ ToCome' \in Nat
        BY <4>2, <1>b DEF ToCome
      <4>4. burst + ToCome' < BurstLimit
        BY <4>1, <4>3, <1>b, RoomForOneMore
      <4> QED BY <4>4, <2>0 DEF driverVars
    <3> QED
      BY <3>1, <1>0, <2>0, <2>7 DEF ArmingSafe, Arming, One, threadVars, nvicVars,
        driverVars, envVars
  <2> QED BY <2>1, <2>3, <2>4, <2>5, <2>6, <2>7 DEF IInv
<1>2. CASE HostResets
  <2>0. /\ MayRaise /\ ~bus_rst /\ bus_rst' = TRUE
        /\ UNCHANGED <<regVars, threadVars, svc, nvicVars, driverVars, configured, line>>
    BY <1>2 DEF HostResets
  <2>1. RegInv' /\ EventsHeld' BY <2>0, EventsStay
  <2>3. DriverTypes'
    BY <1>0, <2>0 DEF DriverTypes, regVars, threadVars, nvicVars, driverVars
  <2>4. WhoRuns'
    BY <1>0, <2>0 DEF WhoRuns, Serving, InHandler, InRmw, Arming, Pumping, regVars,
      threadVars, nvicVars, driverVars
  <2>6. CountersRest' BY <1>0, <2>0 DEF CountersRest, Arming, threadVars, driverVars
  <2>7. ASSUME OutOfReach PROVE ArmingSafe'
    <3>1. ASSUME Arming PROVE burst' + ToCome' < BurstLimit
      <4>1. burst + One(pended) + One(flag) + One(bus_rst) + 2 < BurstLimit
        BY <2>0, <2>7, <3>1 DEF MayRaise, OutOfReach
      <4>2. /\ One(pended)' = One(pended) /\ One(unserved)' = One(unserved)
            /\ One(bus_rst /\ svc["handler"].kind # "bus")' <= 1
            /\ One(bus_rst /\ svc["handler"].kind # "bus")' \in Nat
        BY <2>0 DEF One, nvicVars, regVars
      <4>3. ToCome' <= One(pended) + One(bus_rst) + 2 /\ ToCome' \in Nat
        BY <4>2, <1>b DEF ToCome
      <4>4. burst + ToCome' < BurstLimit
        BY <4>1, <4>3, <1>b, RoomForOneMore
      <4> QED BY <4>4, <2>0 DEF driverVars
    <3> QED
      BY <3>1, <1>0, <2>0, <2>7 DEF ArmingSafe, Arming, One, threadVars, nvicVars,
        driverVars
  <2> QED BY <2>1, <2>3, <2>4, <2>6, <2>7 DEF IInv
<1>3. CASE SourceSticks \/ LineDies
  <2>0. /\ line' \in Lines /\ line' = "held" => DemotedWhileArming \/ usb_irq_on
        /\ UNCHANGED <<regVars, threadVars, svc, nvicVars, driverVars, configured, bus_rst>>
    BY <1>3 DEF SourceSticks, LineDies, Lines
  <2>1. RegInv' /\ EventsHeld' BY <2>0, EventsStay
  <2>3. DriverTypes'
    BY <1>0, <1>3, <2>0 DEF DriverTypes, regVars, threadVars, nvicVars, driverVars, Lines,
      SourceSticks, LineDies
  <2>4. WhoRuns'
    BY <1>0, <2>0 DEF WhoRuns, Serving, InHandler, InRmw, Arming, Pumping, regVars,
      threadVars, nvicVars, driverVars
  <2>6. CountersRest' BY <1>0, <2>0 DEF CountersRest, Arming, threadVars, driverVars
  <2>7. ASSUME OutOfReach PROVE ArmingSafe'
    BY <1>0, <1>3, <2>0, <2>7 DEF OutOfReach, ArmingSafe, Arming, ToCome, One, regVars,
      threadVars, nvicVars, driverVars, SourceSticks, LineDies
  <2> QED BY <2>1, <2>3, <2>4, <2>6, <2>7 DEF IInv
<1> QED BY <1>1, <1>2, <1>3 DEF Environment

-----------------------------------------------------------------------------
(* The invariant.                                                           *)

LEMMA InitHolds == Init => IInv
<1> SUFFICES ASSUME Init PROVE IInv OBVIOUS
<1>1. RegInv BY RegInitHolds DEF Init
<1>2. \A c \in Contexts : svc[c].kind = "out" /\ svc[c] \in Served /\ rmw[c].at = "out"
  BY ServedAre DEF Init, RegInit, Away
<1>3. DriverTypes
  BY <1>2, LimitsAre DEF Init, RegInit, DriverTypes, Served, Places, Lines
<1>4. WhoRuns
  BY <1>2 DEF Init, WhoRuns, Serving, InHandler, InRmw, Arming, Pumping, Contexts
<1>5. EventsHeld /\ CountersRest
  BY <1>2 DEF Init, RegInit, EventsHeld, NoEventSwallowed, CountersRest, flag, Tokens
<1>6. ArmingSafe BY DEF Init, ArmingSafe, Arming
<1> QED BY <1>1, <1>3, <1>4, <1>5, <1>6 DEF IInv

LEMMA StepKeeps == IInv /\ [Next]_vars => IInv'
<1> SUFFICES ASSUME IInv, [Next]_vars PROVE IInv' OBVIOUS
<1>1. CASE Thread
  <2>0. ~InHandler /\ ~Serving("handler") /\ ~InRmw("handler")
    BY <1>1, OneAtATime DEF Thread, InHandler
  <2>1. CASE Service("thread")
    BY <2>0, <2>1, ServiceKeeps DEF Contexts
  <2> QED
    BY <1>1, <2>0, <2>1, PollKeeps, TickDeadKeeps, LockedAndRmwKeep, ThreadElsewhereKeeps
      DEF Thread
<1>2. CASE Handler
  <2>1. CASE Service("handler")
    <3>1. InHandler
      BY <2>1 DEF Service, ServeReset, Release, ServiceWrites, EndService, InHandler,
        Serving, Tokens
    <3>2. ~Serving("thread") /\ ~InRmw("thread") BY <3>1, OneAtATime
    <3> QED BY <2>1, <3>2, ServiceKeeps DEF Contexts
  <2> QED BY <1>2, <2>1, EnterKeeps, LockedAndRmwKeep DEF Handler
<1>3. CASE Environment BY <1>3, EnvironmentKeeps
<1>4. CASE UNCHANGED vars
  <2>1. RegInv' /\ EventsHeld' BY <1>4, EventsStay DEF vars
  <2>2. DriverTypes' /\ WhoRuns' /\ CountersRest'
    BY <1>4 DEF IInv, vars, regVars, threadVars, nvicVars, driverVars, envVars,
      DriverTypes, WhoRuns, Serving, InHandler, InRmw, Arming, Pumping, CountersRest
  <2>3. ASSUME OutOfReach PROVE ArmingSafe'
    BY <1>4, <2>3 DEF IInv, vars, regVars, threadVars, nvicVars, driverVars, envVars,
      ArmingSafe, Arming, ToCome, One
  <2> QED BY <2>1, <2>2, <2>3 DEF IInv
<1> QED BY <1>1, <1>2, <1>3, <1>4 DEF Next

(* The invariant holds throughout, whoever serves the bus and whatever the  *)
(* SIE, the host and the interrupt line do.                                 *)
THEOREM Invariance == Spec => []IInv
<1> QED BY InitHolds, StepKeeps, PTL DEF Spec

(* uep2_ctrl_rmw() leaves no old toggle behind when the SIE may run: of two  *)
(* contexts and a transaction in any of its windows, none undoes another.   *)
THEOREM StoresKeepTheToggles == Spec => []TogglesInStep
<1>1. IInv => TogglesInStep
  BY DEF IInv, RegInv, RegisterInStep, TogglesInStep, InStep
<1> QED BY <1>1, Invariance, PTL

(* No store of uep2_ctrl_rmw() is lost, and the return after a second pass  *)
(* without a store is unreachable, as the comment at its end says.          *)
THEOREM NoStoreIsLost == Spec => []ResponsesAsAsked
<1>1. IInv => ResponsesAsAsked BY DEF IInv, RegInv
<1> QED BY <1>1, Invariance, PTL

(* No path through usb_service() clears the transfer flag of a transaction  *)
(* it has not looked at, pipe_cleared and a change of transport included.   *)
THEOREM NoEventIsSwallowed == Spec => []NoEventSwallowed
<1>1. IInv => NoEventSwallowed BY DEF IInv, EventsHeld
<1> QED BY <1>1, Invariance, PTL

(* Thread and handler never serve the bus at once, demoted while arming or  *)
(* not.                                                                     *)
THEOREM OneServesTheBus == Spec => [](TypeOK /\ OneServer)
<1>1. IInv => OneServer
  BY OneAtATime DEF OneServer, InHandler
<1> QED BY <1>1, Typed, Invariance, PTL

(* With the handler's limits out of reach of the arming thread, usb_irq_on  *)
(* names a context that can serve the bus: the self-demotion, the watchdog  *)
(* and bl_usb_irq_arm() never leave it set on a masked or faulty IRQ6.      *)
THEOREM TransportIsSound ==
  ASSUME OutOfReach
  PROVE  Spec => []TransportSound
<1>1. IInv => TransportSound
  <2> SUFFICES ASSUME IInv PROVE TransportSound OBVIOUS
  <2>1. OneServer BY OneAtATime DEF OneServer, InHandler
  <2>2. IrqOwnsTheSie BY DEF IInv, ArmingSafe, IrqOwnsTheSie
  <2> QED BY <2>1, <2>2, Typed DEF TransportSound
<1> QED BY <1>1, Invariance, PTL
=============================================================================
