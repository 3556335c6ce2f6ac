------------------------------ MODULE Humidity ------------------------------
(***************************************************************************)
(* The bathroom's humidity: the driver's task HumIsrSetup, which measures  *)
(* the air every two seconds, and CheckBathHum, which asks for the fan     *)
(* above one threshold and takes it back below another.  The page may      *)
(* change either threshold at any time; when they are not in order         *)
(* CheckBathHum rewrites the lower one, in the table too.                  *)
(*                                                                         *)
(* A measurement that fails (a temperature or humidity not above 0) is not *)
(* posted and changes nothing.  The item posted has four bytes, the        *)
(* receiver's variable two: the value arrives, what else is overwritten is *)
(* outside this model.                                                     *)
(*                                                                         *)
(* The names of the specification and of its state begin with Hum, so that *)
(* Bathroom can extend this module and BathLight.                          *)
(***************************************************************************)
EXTENDS RtosQueue, Integers

CONSTANTS
  HumQueueLen,   \* places in HumIsrQueue
  MaxHum,        \* bound: the greatest humidity
  Thresholds     \* bound: the values of either threshold set on the page

ASSUME HumQueueLenAssumption == HumQueueLen \in Nat \ {0}
ASSUME MaxHumAssumption == MaxHum \in Nat \ {0}
ASSUME ThresholdsAssumption == Thresholds \subseteq Nat /\ Thresholds # {}

Humidities == 1 .. MaxHum

VARIABLES
  air,        \* the humidity of the air
  humVol,     \* DataParmTable[IDX_HUMVOL]
  humOn,      \* DataParmTable[IDX_BATHHUMONPARM]
  humOff,     \* DataParmTable[IDX_BATHHUMOFFPARM]
  reading,    \* the driver's hum_int between its write and its post, else 0
  humQ,       \* HumIsrQueue
  humPc,      \* CheckBathHum: "receive", "judge" or "post"
  hum,        \* its hum; 0 once it is dead
  ventOnOff,  \* its ventOnOff: whether it has asked for the fan
  onHum,      \* history: the reading that last made it ask for the fan
  raised      \* history: the upper threshold was raised since

humVars == <<air, humVol, humOn, humOff, reading, humQ, humPc, hum, ventOnOff, onHum, raised>>

(* Mutation: equal thresholds are taken for being in order. *)
UsedOff_KeepEqual(on, off) == IF on < off THEN on - 1 ELSE off

(* The lower threshold that is used, and stored, with an upper one of on. *)
UsedOff(on, off) == IF on <= off THEN on - 1 ELSE off

-----------------------------------------------------------------------------
(* Mutations of the actions: the bugs the properties are shown to exclude. *)

(* the driver ignores the capacity of the queue *)
Post_Unbounded ==
  /\ reading # 0
  /\ humQ' = Append(humQ, reading)
  /\ reading' = 0
  /\ UNCHANGED <<air, humVol, humOn, humOff, humPc, hum, ventOnOff, onHum, raised>>

(* the fan is asked for again and never taken back *)
Judge_OnOnly ==
  LET v == IF hum > humOn THEN 1 ELSE ventOnOff
  IN  /\ humPc = "judge"
      /\ humVol' = hum /\ humOff' = UsedOff(humOn, humOff) /\ hum' = 0
      /\ ventOnOff' = v
      /\ humPc' = IF v = ventOnOff THEN "receive" ELSE "post"
      /\ onHum' = IF v = ventOnOff THEN onHum ELSE hum
      /\ raised' = (v = ventOnOff /\ raised)
      /\ UNCHANGED <<air, humOn, reading, humQ>>
-----------------------------------------------------------------------------
(* The table's initial thresholds are equal. *)
HumInit ==
  /\ air \in Humidities /\ humVol \in Humidities
  /\ humOn \in Thresholds /\ humOff = humOn
  /\ reading = 0 /\ humQ = <<>>
  /\ humPc = "receive" /\ hum = 0 /\ ventOnOff = 0
  /\ onHum = 0 /\ raised = FALSE

(* The environment: somebody showers, or opens the window. *)
AirChanges ==
  /\ air' \in Humidities
  /\ UNCHANGED <<humVol, humOn, humOff, reading, humQ, humPc, hum, ventOnOff, onHum, raised>>

(* echo_handler stores a threshold; the message it posts tells the fan's    *)
(* controller nothing (module VentControl's "Other").                       *)
WriteThreshold ==
  /\ \/ humOn' \in Thresholds /\ humOff' = humOff
     \/ humOff' \in Thresholds /\ humOn' = humOn
  /\ raised' = (raised \/ humOn' > humOn)
  /\ UNCHANGED <<air, humVol, reading, humQ, humPc, hum, ventOnOff, onHum>>

(* HumIsrSetup measures and stores the humidity ... *)
Measure ==
  /\ reading = 0
  /\ reading' = air /\ humVol' = air
  /\ UNCHANGED <<air, humOn, humOff, humQ, humPc, hum, ventOnOff, onHum, raised>>

(* ... and posts it. *)
Post ==
  /\ reading # 0
  /\ humQ' = QueueSend(humQ, HumQueueLen, reading)
  /\ reading' = 0
  /\ UNCHANGED <<air, humVol, humOn, humOff, humPc, hum, ventOnOff, onHum, raised>>

ReceiveHum ==
  /\ humPc = "receive" /\ humQ # <<>>
  /\ hum' = Head(humQ) /\ humQ' = Tail(humQ)
  /\ humPc' = "judge"
  /\ UNCHANGED <<air, humVol, humOn, humOff, reading, ventOnOff, onHum, raised>>

(* The critical section, and the comparison of locals that follows it. *)
Judge ==
  LET off == UsedOff(humOn, humOff)
      v == IF ventOnOff = 0 THEN IF hum > humOn THEN 1 ELSE 0
           ELSE IF hum < off THEN 0 ELSE 1
  IN  /\ humPc = "judge"
      /\ humVol' = hum /\ humOff' = off /\ hum' = 0
      /\ ventOnOff' = v
      /\ humPc' = IF v = ventOnOff THEN "receive" ELSE "post"
      /\ onHum' = IF ventOnOff = 0 /\ v = 1 THEN hum ELSE onHum
      /\ raised' = (raised /\ ~(ventOnOff = 0 /\ v = 1))
      /\ UNCHANGED <<air, humOn, reading, humQ>>

(* The post to the fan's controller: module VentControl's Command. *)
Tell ==
  /\ humPc = "post" /\ humPc' = "receive"
  /\ UNCHANGED <<air, humVol, humOn, humOff, reading, humQ, hum, ventOnOff, onHum, raised>>

HumIsrSetup == Measure \/ Post
CheckBathHum == ReceiveHum \/ Judge \/ Tell

HumNext == AirChanges \/ WriteThreshold \/ HumIsrSetup \/ CheckBathHum

HumSpec == HumInit /\ [][HumNext]_humVars

(* Both tasks are scheduled, and the sensor answers again and again. *)
HumFairSpec == HumSpec /\ WF_humVars(HumIsrSetup) /\ WF_humVars(CheckBathHum)

-----------------------------------------------------------------------------
(* Properties *)

HumTypeOK ==
  /\ air \in Humidities /\ humVol \in Humidities
  /\ humOn \in Thresholds /\ humOff \in Int
  /\ reading \in Humidities \cup {0}
  /\ humQ \in Seq(Humidities) /\ Len(humQ) <= HumQueueLen
  /\ humPc \in {"receive", "judge", "post"} /\ hum \in Humidities \cup {0}
  /\ ventOnOff \in {0, 1} /\ onHum \in Humidities \cup {0} /\ raised \in BOOLEAN

(* Hysteresis: the fan asked for at one reading is taken back only at a     *)
(* reading at least three units lower, however the page disorders the       *)
(* thresholds or lowers them meanwhile; only raising the upper one gives an *)
(* excuse.  So noise of one unit never makes the fan chatter.               *)
NoChatter ==
  [][ventOnOff = 1 /\ ventOnOff' = 0 /\ ~raised => hum <= onHum - 3]_humVars

Wet(t) == air > t /\ humOn <= t
Dry(t) == air < t /\ humOff >= t

(* Air that stays on one side of a level, with the threshold on the other,  *)
(* gets the fan asked for (taken back), although samples are dropped and    *)
(* old ones judged first.                                                   *)
HumidityIsNoticed ==
  \A t \in Thresholds : /\ Wet(t) ~> ventOnOff = 1 \/ ~Wet(t)
                        /\ Dry(t) ~> ventOnOff = 0 \/ ~Dry(t)
=============================================================================
