------------------------------ MODULE Battery ------------------------------
(***************************************************************************)
(* ignition::common::Battery (src/Battery.cc): consumers identified by a   *)
(* 32 bit counter, their power loads, and a voltage an update function     *)
(* changes.  Each operation on the consumers holds powerLoadsMutex from    *)
(* beginning to end and is one action.                                     *)
(***************************************************************************)
EXTENDS Integers, FiniteSets

CONSTANTS Batteries,
          Loads,          \* power loads a client sets; 0 is one of them
          Voltages,       \* what SetInitVoltage and update functions produce
          IdModulus,      \* 2^32 in the code
          NamedConstructor, \* may Battery(name, voltage) be used?
          SelfAssignment  \* may a battery be assigned to itself?

ASSUME BatteryAssumption == IdModulus \in Nat \ {0} /\ Voltages \subseteq Int

VARIABLES initVoltage, realVoltage, powerLoads, powerLoadCounter, updateFunc,
          issued    \* history: the ids AddConsumer has returned

consumers == <<powerLoads, powerLoadCounter, issued>>
electric  == <<initVoltage, realVoltage, updateFunc>>
batteryVars == <<consumers, electric>>

ConsumerIds == 0 .. IdModulus - 1

BatteryTypeOK ==
  /\ initVoltage \in [Batteries -> Voltages]
  /\ realVoltage \in [Batteries -> Voltages]
  /\ \A b \in Batteries :
       /\ DOMAIN powerLoads[b] \subseteq issued[b]
       /\ \A i \in DOMAIN powerLoads[b] : powerLoads[b][i] \in Loads
  /\ powerLoadCounter \in [Batteries -> ConsumerIds]
  /\ updateFunc \in [Batteries -> {"none", "default", "custom"}]
  /\ issued \in [Batteries -> SUBSET ConsumerIds]

\* Battery(), or Battery(name, voltage), which sets no update function.
BatteryInit ==
  /\ initVoltage \in [Batteries -> Voltages]
  /\ realVoltage = [b \in Batteries |-> 0]
  /\ powerLoads = [b \in Batteries |-> <<>>]
  /\ powerLoadCounter = [b \in Batteries |-> 0]
  /\ updateFunc \in [Batteries -> IF NamedConstructor THEN {"none", "default"}
                                                      ELSE {"default"}]
  /\ \A b \in Batteries : updateFunc[b] = "default" => initVoltage[b] = 0
  /\ issued = [b \in Batteries |-> {}]

Clamp(v) == IF v < 0 THEN 0 ELSE v

\* std::max(0.0, initVoltage)
ResetVoltage(b) ==
  /\ realVoltage' = [realVoltage EXCEPT ![b] = Clamp(initVoltage[b])]
  /\ UNCHANGED <<initVoltage, updateFunc, consumers>>

\* Faulty variant: the counter starts again with the consumers.
InitBatteryAndCounter(b) ==
  /\ realVoltage' = [realVoltage EXCEPT ![b] = Clamp(initVoltage[b])]
  /\ powerLoads' = [powerLoads EXCEPT ![b] = <<>>]
  /\ powerLoadCounter' = [powerLoadCounter EXCEPT ![b] = 0]
  /\ UNCHANGED <<initVoltage, updateFunc, issued>>

\* Battery::Init(): ResetVoltage() and InitConsumers().
InitBattery(b) ==
  /\ realVoltage' = [realVoltage EXCEPT ![b] = Clamp(initVoltage[b])]
  /\ powerLoads' = [powerLoads EXCEPT ![b] = <<>>]
  /\ UNCHANGED <<initVoltage, updateFunc, powerLoadCounter, issued>>

SetInitVoltage(b, v) ==
  /\ initVoltage' = [initVoltage EXCEPT ![b] = v]
  /\ UNCHANGED <<realVoltage, updateFunc, consumers>>

\* The bound on consumers keeps the counter from wrapping: at most IdModulus
\* ids are issued.
AddConsumer(b) ==
  LET id == powerLoadCounter[b] IN
  /\ Cardinality(issued[b]) < IdModulus - 1
  /\ powerLoadCounter' = [powerLoadCounter EXCEPT ![b] = (id + 1) % IdModulus]
  /\ powerLoads' = [powerLoads EXCEPT ![b] =
                      [i \in DOMAIN @ \cup {id} |-> IF i = id THEN 0 ELSE @[i]]]
  /\ issued' = [issued EXCEPT ![b] = @ \cup {id}]
  /\ UNCHANGED electric

\* RemoveConsumer returns false, and changes nothing, for an unknown id.
RemoveConsumer(b, id) ==
  /\ id \in DOMAIN powerLoads[b]
  /\ powerLoads' = [powerLoads EXCEPT ![b] = [i \in DOMAIN @ \ {id} |-> @[i]]]
  /\ UNCHANGED <<powerLoadCounter, issued, electric>>

\* Faulty variant: the load is stored whether or not the id is known.
SetLoadOfAnyId(b, id, load) ==
  /\ powerLoads' = [powerLoads EXCEPT ![b] =
                      [i \in DOMAIN @ \cup {id} |-> IF i = id THEN load ELSE @[i]]]
  /\ UNCHANGED <<powerLoadCounter, issued, electric>>

\* SetPowerLoad, as RemoveConsumer, refuses an unknown id.
SetPowerLoad(b, id, load) ==
  /\ id \in DOMAIN powerLoads[b]
  /\ powerLoads' = [powerLoads EXCEPT ![b][id] = load]
  /\ UNCHANGED <<powerLoadCounter, issued, electric>>

\* Faulty variant: the result of a custom function is taken as it is.
NewVoltageUnclamped(b) ==
  IF updateFunc[b] = "default" THEN {realVoltage[b]} ELSE Voltages

\* What Update() may store: the default function returns the voltage as it
\* is, a custom one whatever it computes.
NewVoltage(b) ==
  IF updateFunc[b] = "default" THEN {realVoltage[b]} ELSE {Clamp(v) : v \in Voltages}

\* Calling an empty std::function throws and changes nothing.
UpdateVoltage(b) == /\ updateFunc[b] # "none"
             /\ \E v \in NewVoltage(b) : realVoltage' = [realVoltage EXCEPT ![b] = v]
             /\ UNCHANGED <<initVoltage, updateFunc, consumers>>

SetUpdateFunc(b) == /\ updateFunc' = [updateFunc EXCEPT ![b] = "custom"]
                    /\ UNCHANGED <<initVoltage, realVoltage, consumers>>

ResetUpdateFunc(b) == /\ updateFunc' = [updateFunc EXCEPT ![b] = "default"]
                      /\ UNCHANGED <<initVoltage, realVoltage, consumers>>

\* operator=: the target's loads are cleared before the source's are copied.
Assign(a, b) ==
  /\ a # b \/ SelfAssignment
  /\ initVoltage' = [initVoltage EXCEPT ![a] = initVoltage[b]]
  /\ realVoltage' = [realVoltage EXCEPT ![a] = realVoltage[b]]
  /\ powerLoads' = [powerLoads EXCEPT ![a] = IF a = b THEN <<>> ELSE powerLoads[b]]
  /\ powerLoadCounter' = [powerLoadCounter EXCEPT ![a] = powerLoadCounter[b]]
  /\ updateFunc' = [updateFunc EXCEPT ![a] = updateFunc[b]]
  /\ issued' = [issued EXCEPT ![a] = issued[b]]

BatteryNext ==
  \E b \in Batteries :
    \/ ResetVoltage(b) \/ InitBattery(b) \/ AddConsumer(b) \/ UpdateVoltage(b)
    \/ SetUpdateFunc(b) \/ ResetUpdateFunc(b)
    \/ \E v \in Voltages : SetInitVoltage(b, v)
    \/ \E id \in ConsumerIds : \/ RemoveConsumer(b, id)
                               \/ \E load \in Loads : SetPowerLoad(b, id, load)
    \/ \E a \in Batteries : Assign(a, b)

BatterySpec == BatteryInit /\ [][BatteryNext]_batteryVars
-----------------------------------------------------------------------------
(* Properties.                                                             *)

\* An id, once issued, is never issued again by the same battery, neither
\* after its removal nor after Init or an assignment: a stale id never names
\* another consumer.
IdsAreFresh ==
  \A b \in Batteries : powerLoadCounter[b] \notin issued[b]

\* Only AddConsumer and an assignment bring a consumer into being: setting
\* the load of one that has been removed does not revive it.
OnlyAddConsumerCreates ==
  [][\A b \in Batteries :
       \/ DOMAIN powerLoads'[b] \subseteq DOMAIN powerLoads[b]
       \/ AddConsumer(b)
       \/ \E a \in Batteries : Assign(b, a)]_batteryVars

\* The voltage is never negative, whatever the update function returns.
VoltageNotNegative == \A b \in Batteries : realVoltage[b] >= 0

\* A battery issues no id twice and its voltage is not negative, and no
\* consumer comes into being but by AddConsumer and an assignment (Battery.cc).
ConsumersAreTheirOwn ==
  /\ [](IdsAreFresh /\ VoltageNotNegative)
  /\ OnlyAddConsumerCreates

\* After an assignment the target has the consumers of the source.  (A step
\* that Init or the removal of the only consumer also explains is left out.)
AssignmentCopies ==
  [][\A a, b \in Batteries :
       /\ Assign(a, b)
       /\ ~InitBattery(a)
       /\ ~\E id \in ConsumerIds : RemoveConsumer(a, id)
       => powerLoads'[a] = powerLoads[b]]_batteryVars

\* Battery.hh: "The default battery model is ideal", so a battery always has
\* a function to update it with.
AlwaysUpdatable == \A b \in Batteries : updateFunc[b] # "none"
=============================================================================
