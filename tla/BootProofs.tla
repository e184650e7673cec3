------------------------------ MODULE BootProofs ------------------------------
(***************************************************************************)
(* Proofs about Boot: every part of main finds what it is made from, on     *)
(* every board, and the threads that run find the objects they use; what    *)
(* the start of the access point reports is so.                            *)
(***************************************************************************)
EXTENDS Boot, SequenceTheorems, TLAPS

(* A request reached is a request all earlier ones of which were granted.   *)
WifiInv ==
    /\ wpc \in WifiPC
    /\ wpc \in {"enable", "wait", "true"} => dhcp
    /\ ap <=> wpc \in {"wait", "true"}

(* When WifiApService::Initialize reports success the access point is       *)
(* enabled and there is a DHCP server for its stations; when it reports a  *)
(* failure no station can connect.                                         *)
THEOREM AccessPointAlwaysServed == BootSpec => []AccessPointServed
<1>1. BootInit => WifiInv
  BY DEF BootInit, WifiInit, WifiInv, WifiPC
<1>2. WifiInv /\ [BootNext]_bootVars => WifiInv'
  <2> SUFFICES ASSUME WifiInv, [BootNext]_bootVars PROVE WifiInv'
    OBVIOUS
  <2>1. CASE UNCHANGED wifiVars
    BY <2>1 DEF WifiInv, wifiVars
  <2>2. CASE Initialize
    BY <2>2 DEF WifiInv, WifiPC, Initialize
  <2>3. CASE AccessPointInitialize
    BY <2>3 DEF WifiInv, WifiPC, AccessPointInitialize
  <2>4. CASE DHCPv4ServerInitialize
    BY <2>4 DEF WifiInv, WifiPC, DHCPv4ServerInitialize
  <2>5. CASE EnableAccessPoint
    BY <2>5 DEF WifiInv, WifiPC, EnableAccessPoint
  <2>6. CASE WaitForInterface
    BY <2>6 DEF WifiInv, WifiPC, WaitForInterface
  <2>7. CASE InterfaceChange
    BY <2>7 DEF WifiInv, WifiPC, InterfaceChange
  <2>8. Main => UNCHANGED wifiVars \/ Initialize \/ WifiStep
    BY DEF Main, Configure, MakeDisplay, InitializeDisplay, MakeSd, StartWifi,
           WifiReturns, StartHttp, MakeFs, Construct, EnterLoop
  <2> QED
    BY <2>1, <2>2, <2>3, <2>4, <2>5, <2>6, <2>7, <2>8
    DEF BootNext, WifiStep, bootVars
<1>3. WifiInv => AccessPointServed
  BY DEF WifiInv, AccessPointServed
<1> QED
  BY <1>1, <1>2, <1>3, PTL DEF BootSpec

-----------------------------------------------------------------------------
(* The parts of the construction, by their number.  A board without an SD   *)
(* card skips the one of the LoggingController.                            *)

(* The number of main's part number k of those after the logging.          *)
After(k) == IF board.sd THEN 8 + k ELSE 7 + k

(* Sequences of as many parts as main has before, after and for the        *)
(* logging.                                                                *)
LEMMA SevenParts ==
    ASSUME NEW P, NEW a \in P, NEW b \in P, NEW c \in P, NEW d \in P, NEW e \in P,
           NEW f \in P, NEW g \in P
    PROVE  <<a, b, c, d, e, f, g>> \in Seq(P) /\ Len(<<a, b, c, d, e, f, g>>) = 7
  OBVIOUS

(* The same for six.                                                       *)
LEMMA SixParts ==
    ASSUME NEW P, NEW a \in P, NEW b \in P, NEW c \in P, NEW d \in P, NEW e \in P,
           NEW f \in P
    PROVE  <<a, b, c, d, e, f>> \in Seq(P) /\ Len(<<a, b, c, d, e, f>>) = 6
  OBVIOUS

(* The same for one.                                                       *)
LEMMA OnePart ==
    ASSUME NEW P, NEW a \in P
    PROVE  <<a>> \in Seq(P) /\ Len(<<a>>) = 1
  OBVIOUS

(* Which part of main stands at which place of the construction.           *)
LEMMA ConstructionParts ==
    ASSUME board \in Boards
    PROVE  /\ Len(Construction) = After(6)
           /\ \A k \in 1..7 : Construction[k] = Services[k]
           /\ board.sd => Construction[8] = Logging[1]
           /\ \A k \in 1..6 : Construction[After(k)] = Processing[k]
<1> DEFINE P == {Services[k] : k \in 1..7} \cup {Logging[1]} \cup {Processing[k] : k \in 1..6}
           Middle == IF board.sd THEN Logging ELSE << >>
<1>0. /\ \A k \in 1..7 : Services[k] \in P
      /\ Logging[1] \in P
      /\ \A k \in 1..6 : Processing[k] \in P
  OBVIOUS
<1> HIDE DEF P
<1>1. Services \in Seq(P) /\ Len(Services) = 7
  <2>1. Services = <<Services[1], Services[2], Services[3], Services[4], Services[5],
                     Services[6], Services[7]>>
    BY DEF Services
  <2>2. LET t == <<Services[1], Services[2], Services[3], Services[4],
                Services[5], Services[6], Services[7]>>
        IN t \in Seq(P) /\ Len(t) = 7
    BY <1>0, SevenParts
  <2> QED
    BY <2>1, <2>2, Zenon
<1>2. Logging \in Seq(P) /\ Len(Logging) = 1
  <2>1. Logging = <<Logging[1]>>
    BY DEF Logging
  <2>2. LET t == <<Logging[1]>>
        IN t \in Seq(P) /\ Len(t) = 1
    BY <1>0, OnePart
  <2> QED
    BY <2>1, <2>2, Zenon
<1>3. Processing \in Seq(P) /\ Len(Processing) = 6
  <2>1. Processing = <<Processing[1], Processing[2], Processing[3], Processing[4],
                       Processing[5], Processing[6]>>
    BY DEF Processing
  <2>2. LET t == <<Processing[1], Processing[2], Processing[3], Processing[4],
                Processing[5], Processing[6]>>
        IN t \in Seq(P) /\ Len(t) = 6
    BY <1>0, SixParts
  <2> QED
    BY <2>1, <2>2, Zenon
<1>4. /\ Middle \in Seq(P)
      /\ board.sd => Len(Middle) = 1 /\ Middle[1] = Logging[1]
      /\ ~board.sd => Len(Middle) = 0
  <2>1. CASE board.sd
    BY <1>2, <2>1
  <2>2. CASE ~board.sd
    <3>1. << >> \in Seq(P) /\ Len(<< >>) = 0
      BY EmptySeq
    <3> QED
      BY <2>2, <3>1
  <2> QED
    BY <2>1, <2>2
<1> HIDE DEF Middle
<1> DEFINE First == Services \o Middle
<1>5. /\ First \in Seq(P)
      /\ Len(First) = 7 + Len(Middle)
      /\ \A k \in 1..7 : First[k] = Services[k]
      /\ board.sd => First[8] = Logging[1]
  <2>1. /\ First \in Seq(P)
        /\ Len(First) = Len(Services) + Len(Middle)
        /\ \A k \in 1..Len(Services) + Len(Middle) :
             First[k] = IF k <= Len(Services) THEN Services[k] ELSE Middle[k - Len(Services)]
    BY <1>1, <1>4, ConcatProperties
  <2> HIDE DEF First
  <2> QED
    BY <1>1, <1>4, <2>1
<1>6. Construction = First \o Processing
  BY DEF Construction, Middle
<1> HIDE DEF First
<1>7. /\ Construction \in Seq(P)
      /\ Len(Construction) = Len(First) + Len(Processing)
      /\ \A k \in 1..Len(First) + Len(Processing) :
           Construction[k] = IF k <= Len(First) THEN First[k] ELSE Processing[k - Len(First)]
  <2> DEFINE all == First \o Processing
  <2>1. /\ all \in Seq(P)
        /\ Len(all) = Len(First) + Len(Processing)
        /\ \A k \in 1..Len(First) + Len(Processing) :
             all[k] = IF k <= Len(First) THEN First[k] ELSE Processing[k - Len(First)]
    <3>1. First \in Seq(P) /\ Processing \in Seq(P)
      BY <1>3, <1>5
    <3> QED
      BY <3>1, ConcatProperties
  <2>2. Construction = all
    BY <1>6
  <2> HIDE DEF all
  <2> QED
    BY <2>1, <2>2
<1>8. CASE board.sd
  <2>1. Len(First) = 8 /\ Len(Construction) = 14
    <3>1. Len(First) = 7 + 1
      BY <1>4, <1>5, <1>8
    <3> QED
      BY <1>3, <1>7, <3>1
  <2>2. \A k \in 1..8 : Construction[k] = First[k]
    BY <1>3, <1>7, <2>1
  <2>3. \A k \in 1..6 : Construction[8 + k] = Processing[k]
    BY <1>3, <1>7, <2>1
  <2> QED
    BY <1>5, <1>8, <2>1, <2>2, <2>3 DEF After
<1>9. CASE ~board.sd
  BY <1>3, <1>4, <1>5, <1>7, <1>9 DEF After
<1> QED
  BY <1>8, <1>9

-----------------------------------------------------------------------------
(* What main has made before the construction: the display controller, the  *)
(* file system and, on a board with an SD card, its service.               *)
Base == {"display_controller", "fs_service"} \cup (IF board.sd THEN {"sd_fs_service"} ELSE {})

(* The objects of the parts before part number k.                          *)
HasMade(k, objects) == \A q \in 1..(k - 1) : Construction[q].makes \subseteq objects

(* Every place of the construction is one of those.                        *)
LEMMA PartNumbers ==
    ASSUME board \in Boards, NEW k \in 1..Len(Construction)
    PROVE  \/ k \in {1, 2, 3, 4, 5, 6, 7}
           \/ board.sd /\ k = 8
           \/ k \in {After(1), After(2), After(3), After(4), After(5), After(6)}
<1>1. k \in 1..After(6)
  BY ConstructionParts
<1>2. CASE board.sd
  BY <1>1, <1>2 DEF After
<1>3. CASE ~board.sd
  BY <1>1, <1>3 DEF After
<1> QED
  BY <1>2, <1>3

(* What the parts make.                                                    *)
LEMMA PartsMade ==
    /\ Services[1].makes = {"time_service", "config_services"}
    /\ Services[2].makes = {"adc_configuration_manager"}
    /\ Services[3].makes = {"gpio"}
    /\ Services[4].makes = {"system_configuration_manager", "canbus_configuration_manager"}
    /\ Services[5].makes = {"sensors_configuration_manager"}
    /\ Services[6].makes = {"canbus_service", "canbus_com_service"}
    /\ Services[7].makes = {"sensor_readings_frame"}
    /\ Processing[1].makes = {"sensors_processing_service"}
    /\ Processing[3].makes = {"canbus_scheduler_service"}
    /\ board.network => Processing[4].makes = {"sensors_http_controller"}
  BY DEF Services, Processing, Part

(* Each part is made from objects that main made before it, on every board. *)
LEMMA PartFinds ==
    ASSUME board \in Boards, NEW k \in 1..Len(Construction), NEW objects,
           Base \subseteq objects, HasMade(k, objects)
    PROVE  Construction[k].uses \subseteq objects
<1>1. ASSUME NEW q \in 1..7, q < k PROVE Services[q].makes \subseteq objects
  BY <1>1, ConstructionParts DEF HasMade
<1>2. ASSUME NEW q \in 1..6, After(q) < k PROVE Processing[q].makes \subseteq objects
  <2>1. After(q) \in 1..(k - 1)
    BY <1>2 DEF After
  <2>2. Construction[After(q)] = Processing[q]
    BY ConstructionParts
  <2>3. Construction[After(q)].makes \subseteq objects
    BY <2>1 DEF HasMade
  <2> QED
    BY <2>2, <2>3
<1>3. CASE k \in {1, 2, 3, 4, 5, 6, 7}
  <2>1. Construction[k] = Services[k]
    BY <1>3, ConstructionParts
  <2>2. Services[1].uses = {"fs_service"} /\ Services[2].uses = {"config_services"}
        /\ Services[3].uses = {} /\ Services[4].uses = {"config_services"}
        /\ Services[5].uses = {"config_services", "gpio", "adc_configuration_manager"}
        /\ Services[6].uses = {"canbus_configuration_manager"}
        /\ Services[7].uses = {"sensors_configuration_manager"}
    BY DEF Services, Part
  <2> QED
    BY <1>1, <1>3, <2>1, <2>2, PartsMade DEF Base
<1>4. CASE board.sd /\ k = 8
  <2>1. Construction[k] = Logging[1]
    BY <1>4, ConstructionParts
  <2>2. Logging[1].uses = {"fs_service", "sd_fs_service", "time_service",
                           "sensor_readings_frame", "sensors_configuration_manager",
                           "canbus_com_service", "display_controller"}
    BY DEF Logging, Part
  <2> QED
    BY <1>1, <1>4, <2>1, <2>2, PartsMade DEF Base
<1>5. CASE k \in {After(1), After(2), After(3), After(4), After(5), After(6)}
  <2>1. PICK q \in {1, 2, 3, 4, 5, 6} : k = After(q)
    BY <1>5
  <2>2. Construction[k] = Processing[q]
    BY <2>1, ConstructionParts
  <2>3. Processing[1].uses = {"time_service", "sensor_readings_frame", "canbus_service",
                              "gpio", "adc_configuration_manager",
                              "sensors_configuration_manager"}
        /\ Processing[2].uses = {"time_service", "adc_configuration_manager",
                                 "sensors_processing_service"}
        /\ Processing[3].uses = {"canbus_configuration_manager", "canbus_service",
                                 "sensor_readings_frame"}
        /\ Processing[4].uses = {"system_configuration_manager",
                                 "adc_configuration_manager",
                                 "sensors_configuration_manager",
                                 "sensors_processing_service"}
        /\ Processing[5].uses = {"sensors_processing_service"}
        /\ Processing[6].uses = {"canbus_scheduler_service"}
    BY DEF Processing, Part
  <2>4. \A r \in 1..7 : r < k
    BY <2>1 DEF After
  <2>5. \A r \in 1..6 : r < q => After(r) < k
    BY <2>1 DEF After
  <2>6. {"time_service", "sensor_readings_frame", "canbus_service", "gpio",
         "adc_configuration_manager", "sensors_configuration_manager",
         "system_configuration_manager", "canbus_configuration_manager"} \subseteq objects
    BY <1>1, <2>4, PartsMade
  <2>7. q > 1 => "sensors_processing_service" \in objects
    BY <1>2, <2>5, PartsMade
  <2>8. q > 3 => "canbus_scheduler_service" \in objects
    BY <1>2, <2>5, PartsMade
  <2> QED
    BY <2>1, <2>2, <2>3, <2>6, <2>7, <2>8
<1> QED
  BY <1>3, <1>4, <1>5, PartNumbers

(* A thread that main starts is started after what it uses.                *)
LEMMA ThreadFinds ==
    ASSUME board \in Boards, NEW k \in 1..Len(Construction), NEW objects,
           HasMade(k + 1, objects), NEW t \in Construction[k].starts
    PROVE  Uses[t] \subseteq objects
<1>1. ASSUME NEW q \in 1..7, q <= k PROVE Services[q].makes \subseteq objects
  BY <1>1, ConstructionParts DEF HasMade
<1>2. ASSUME NEW q \in 1..6, After(q) <= k PROVE Processing[q].makes \subseteq objects
  <2>1. After(q) \in 1..k
    BY <1>2 DEF After
  <2>2. Construction[After(q)] = Processing[q]
    BY ConstructionParts
  <2>3. Construction[After(q)].makes \subseteq objects
    BY <2>1 DEF HasMade
  <2> QED
    BY <2>2, <2>3
<1>3. CASE k \in {1, 2, 3, 4, 5, 6, 7}
  <2>1. Construction[k] = Services[k]
    BY <1>3, ConstructionParts
  <2>2. Services[1].starts = {} /\ Services[2].starts = {} /\ Services[3].starts = {}
        /\ Services[4].starts = {} /\ Services[5].starts = {}
        /\ Services[6].starts = {"communication"} /\ Services[7].starts = {}
    BY DEF Services, Part
  <2>3. k = 6 /\ t = "communication"
    BY <1>3, <2>1, <2>2
  <2>4. Uses["communication"] = {"canbus_com_service", "canbus_service"}
    BY DEF Uses
  <2> QED
    BY <1>1, <2>3, <2>4, PartsMade
<1>4. CASE board.sd /\ k = 8
  BY <1>4, ConstructionParts DEF Logging, Part
<1>5. CASE k \in {After(1), After(2), After(3), After(4), After(5), After(6)}
  <2>1. PICK q \in {1, 2, 3, 4, 5, 6} : k = After(q)
    BY <1>5
  <2>2. Construction[k] = Processing[q]
    BY <2>1, ConstructionParts
  <2>3. Processing[1].starts = {} /\ Processing[2].starts = {} /\ Processing[3].starts = {}
        /\ Processing[4].starts = {} /\ Processing[5].starts = {"processing"}
        /\ Processing[6].starts = {"queue"}
    BY DEF Processing, Part
  <2>4. (q = 5 /\ t = "processing") \/ (q = 6 /\ t = "queue")
    BY <2>1, <2>2, <2>3
  <2>5. 7 <= k /\ \A r \in 1..6 : r <= q => After(r) <= k
    BY <2>1 DEF After
  <2>6. {"sensor_readings_frame", "canbus_service", "sensors_processing_service",
         "canbus_scheduler_service"} \subseteq objects
    <3>1. After(1) <= k /\ After(3) <= k
      BY <2>4, <2>5
    <3> QED
      BY <1>1, <1>2, <2>5, <3>1, PartsMade
  <2>7. /\ Uses["processing"] = {"sensors_processing_service", "sensor_readings_frame"}
        /\ Uses["queue"] = {"canbus_scheduler_service", "canbus_service",
                            "sensor_readings_frame"}
    BY DEF Uses
  <2> QED
    BY <2>4, <2>6, <2>7
<1> QED
  BY <1>3, <1>4, <1>5, PartNumbers

-----------------------------------------------------------------------------
(* How far main is: before the SD card, after it, in the construction.      *)
Early   == {"configure", "display", "animate"}
Later   == {"sd", "wifi", "connecting", "http", "mount"}
Running == {"construct", "loop"}

(* What is there at each point of the boot.                                *)
ObjectsMade ==
    /\ boot \in {"animate"} \cup Later \cup Running => "display_controller" \in alive
    /\ boot \in Later \ {"sd"} /\ board.sd => "sd_fs_service" \in alive
    /\ boot \in Running => Base \subseteq alive /\ HasMade(part, alive)

(* A thread was started by the display controller, by the HTTP server on a  *)
(* board with a network, or by a part of the construction already done.    *)
ThreadsStarted ==
    /\ boot \in Early \cup {"terminated"} => threads = {}
    /\ \A t \in threads : \/ t = "animation"
                          \/ t = "http" /\ board.network
                          \/ boot \in Running /\ \E q \in 1..(part - 1) : t \in Construction[q].starts
                          \/ boot = "returned"

BootInv ==
    /\ board \in Boards /\ boot \in BootPC
    /\ part \in 1..(Len(Construction) + 1)
    /\ boot \notin Running => part = 1
    /\ boot = "loop" => part = Len(Construction) + 1
    /\ boot = "returned" /\ threads # {} => fsFailed
    /\ ObjectsMade
    /\ ThreadsStarted

(* Before main has begun nothing is needed.                                *)
LEMMA BootInitial == BootInit => BootInv
<1> SUFFICES ASSUME BootInit PROVE BootInv
  OBVIOUS
<1>1. board \in Boards /\ boot = "configure" /\ part = 1 /\ threads = {}
  BY DEF BootInit
<1>2. Len(Construction) \in Nat
  BY <1>1, ConstructionParts DEF After
<1> QED
  BY <1>1, <1>2
  DEF BootInv, ObjectsMade, ThreadsStarted, BootPC, Early, Later, Running

(* The invariant is enough: a part finds what it uses, and so does a thread *)
(* that a part has started, or the HTTP server when all parts are there.   *)
LEMMA BootInvIsEnough == BootInv => NothingUsedBeforeMade
<1> SUFFICES ASSUME BootInv PROVE NothingUsedBeforeMade
  OBVIOUS
<1>1. board \in Boards /\ Len(Construction) = After(6) /\ After(6) \in Nat /\ part \in Nat
  BY ConstructionParts DEF BootInv, After
<1>2. ASSUME boot = "construct", part <= Len(Construction)
      PROVE  Construction[part].uses \subseteq alive
  <2>1. part \in 1..Len(Construction) /\ Base \subseteq alive /\ HasMade(part, alive)
    BY <1>1, <1>2 DEF BootInv, ObjectsMade, Running
  <2> QED
    BY <1>1, <2>1, PartFinds
<1>3. ASSUME boot # "returned", NEW t \in threads, t # "http" PROVE Finds(t)
  <2>1. CASE t = "animation"
    <3>1. boot \notin Early \cup {"terminated"}
      BY <1>3 DEF BootInv, ThreadsStarted
    <3>2. "display_controller" \in alive
      BY <1>3, <3>1 DEF BootInv, ObjectsMade, BootPC, Early, Later, Running
    <3>3. Uses["animation"] = {"display_controller"}
      BY DEF Uses
    <3> QED
      BY <2>1, <3>2, <3>3 DEF Finds
  <2>2. CASE boot \in Running /\ \E q \in 1..(part - 1) : t \in Construction[q].starts
    <3>1. PICK q \in 1..(part - 1) : t \in Construction[q].starts
      BY <2>2
    <3>2. q \in 1..Len(Construction) /\ HasMade(q + 1, alive)
      BY <1>1, <2>2 DEF BootInv, ObjectsMade, HasMade
    <3> QED
      BY <1>1, <3>1, <3>2, ThreadFinds DEF Finds
  <2> QED
    BY <1>3, <2>1, <2>2 DEF BootInv, ThreadsStarted
<1>4. ASSUME boot = "loop", "http" \in threads PROVE Finds("http")
  <2>1. part = After(6) + 1 /\ HasMade(part, alive)
    BY <1>1, <1>4 DEF BootInv, ObjectsMade, Running
  <2>2. After(4) \in 1..(part - 1)
    BY <2>1 DEF After
  <2>3. Construction[After(4)].makes \subseteq alive
    BY <2>1, <2>2 DEF HasMade
  <2>4. board.network
    <3>1. \A q \in 1..Len(Construction) : "http" \notin Construction[q].starts
      <4> SUFFICES ASSUME NEW q \in 1..Len(Construction), "http" \in Construction[q].starts
                   PROVE FALSE
        OBVIOUS
      <4> QED
        BY <1>1, PartNumbers, ConstructionParts DEF Services, Logging, Processing, Part
    <3> QED
      BY <1>1, <1>4, <2>1, <3>1 DEF BootInv, ThreadsStarted
  <2>5. Construction[After(4)].makes = {"sensors_http_controller"}
    BY <1>1, <2>4, ConstructionParts, PartsMade
  <2>6. Uses["http"] = {"sensors_http_controller"}
    BY DEF Uses
  <2> QED
    BY <2>3, <2>5, <2>6 DEF Finds
<1> QED
  BY <1>2, <1>3, <1>4 DEF NothingUsedBeforeMade, BootInv

(* Every step of main keeps the objects and the threads in order.          *)
LEMMA BootStep == BootInv /\ [BootNext]_bootVars => BootInv'
<1> SUFFICES ASSUME BootInv, [BootNext]_bootVars PROVE BootInv'
  OBVIOUS
<1>a. /\ board \in Boards /\ Len(Construction) = After(6) /\ After(6) \in Nat
      /\ part \in 1..(After(6) + 1)
  <2>1. board \in Boards /\ part \in 1..(Len(Construction) + 1)
    BY DEF BootInv
  <2>2. Len(Construction) = After(6)
    BY <2>1, ConstructionParts
  <2>3. After(6) \in Nat
    BY DEF After
  <2> QED
    BY <2>1, <2>2, <2>3
<1> USE DEF BootPC, Early, Later, Running
<1>0. /\ board \in Boards /\ boot \in BootPC /\ part \in Nat /\ part >= 1
      /\ Len(Construction) = After(6) /\ After(6) \in Nat /\ part <= After(6) + 1
      /\ boot \notin Running => part = 1
      /\ boot = "loop" => part = After(6) + 1
      /\ boot = "returned" /\ threads # {} => fsFailed
      /\ ObjectsMade /\ ThreadsStarted
  BY <1>a DEF BootInv
<1>1. board' = board
  BY DEF BootNext, Main, bootVars, Configure, MakeDisplay, InitializeDisplay, MakeSd,
         StartWifi, WifiReturns, StartHttp, MakeFs, Construct, EnterLoop
<1>2. Construction' = Construction
  BY <1>1, Zenon DEF Construction, Services, Logging, Processing
<1>3. Base' = Base
  BY <1>1 DEF Base
<1>4. CASE Configure
  BY <1>0, <1>1, <1>2, <1>3, <1>4
  DEF Configure, BootInv, ObjectsMade, ThreadsStarted, Make
<1>5. CASE MakeDisplay
  BY <1>0, <1>1, <1>2, <1>3, <1>5
  DEF MakeDisplay, ReturnFromMain, BootInv, ObjectsMade, ThreadsStarted, Make
<1>6. CASE InitializeDisplay
  BY <1>0, <1>1, <1>2, <1>3, <1>6
  DEF InitializeDisplay, BootInv, ObjectsMade, ThreadsStarted, Run
<1>7. CASE MakeSd
  BY <1>0, <1>1, <1>2, <1>3, <1>7
  DEF MakeSd, BootInv, ObjectsMade, ThreadsStarted, Make
<1>8. CASE StartWifi
  BY <1>0, <1>1, <1>2, <1>3, <1>8
  DEF StartWifi, BootInv, ObjectsMade, ThreadsStarted
<1>9. CASE WifiReturns
  BY <1>0, <1>1, <1>2, <1>3, <1>9
  DEF WifiReturns, BootInv, ObjectsMade, ThreadsStarted
<1>10. CASE StartHttp
  BY <1>0, <1>1, <1>2, <1>3, <1>10
  DEF StartHttp, HttpServerStart, BootInv, ObjectsMade, ThreadsStarted, Run
<1>11. CASE MakeFs
  <2>1. CASE boot' = "construct"
    <3>1. part' = 1 /\ Base \subseteq alive'
      BY <1>0, <1>11, <2>1 DEF MakeFs, ReturnFromMain, ObjectsMade, Make, Base
    <3> QED
      BY <1>0, <1>1, <1>2, <1>3, <1>11, <2>1, <3>1
      DEF MakeFs, ReturnFromMain, BootInv, ObjectsMade, ThreadsStarted, Make, HasMade
  <2>2. CASE boot' # "construct"
    BY <1>0, <1>1, <1>2, <1>3, <1>11, <2>2
    DEF MakeFs, ReturnFromMain, BootInv, ObjectsMade, ThreadsStarted
  <2> QED
    BY <2>1, <2>2
<1>12. CASE Construct
  <2>1. /\ boot = "construct" /\ boot' = "construct" /\ part <= After(6) /\ part' = part + 1
        /\ alive' = alive \cup Construction[part].makes
        /\ threads' = threads \cup Construction[part].starts
    BY <1>0, <1>12 DEF Construct, Make, Run
  <2>2. HasMade(part + 1, alive')
    BY <1>0, <2>1 DEF HasMade, ObjectsMade
  <2>3. ObjectsMade'
    BY <1>0, <1>1, <1>2, <1>3, <2>1, <2>2 DEF ObjectsMade, HasMade
  <2>4. ThreadsStarted'
    BY <1>0, <1>1, <1>2, <2>1 DEF ThreadsStarted
  <2> QED
    BY <1>0, <1>1, <1>2, <2>1, <2>3, <2>4 DEF BootInv
<1>13. CASE EnterLoop
  BY <1>0, <1>1, <1>2, <1>3, <1>13
  DEF EnterLoop, BootInv, ObjectsMade, ThreadsStarted, HasMade
<1>14. CASE UNCHANGED <<board, boot, part, alive, threads, fsFailed>>
  BY <1>0, <1>1, <1>2, <1>3, <1>14 DEF BootInv, ObjectsMade, ThreadsStarted, HasMade
<1> QED
  BY <1>4, <1>5, <1>6, <1>7, <1>8, <1>9, <1>10, <1>11, <1>12, <1>13, <1>14
  DEF BootNext, Main, bootVars

(* What main makes objects from exists by then, on every board, and a        *)
(* thread finds what it uses, except the HTTP server before the endless     *)
(* loop; main leaves a running thread without its objects only if the file  *)
(* system fails.                                                           *)
THEOREM NothingEverUsedBeforeMade == BootSpec => []NothingUsedBeforeMade
  BY BootInitial, BootStep, BootInvIsEnough, PTL DEF BootSpec
===============================================================================
