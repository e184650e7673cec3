-------------------------------- MODULE Boot --------------------------------
(***************************************************************************)
(* main.cpp with the start of the access point and of the file systems     *)
(* (dt_fs.cpp): which objects there are, and which threads run, at each    *)
(* point of the boot, on boards with and without display, SD card, network *)
(* and WiFi, and with every step that may fail failing.                    *)
(*                                                                         *)
(* Main owns its objects.  If it returned they would be destroyed while    *)
(* the threads that use them go on.  What the threads do with them is      *)
(* modelled in DisplayController, LoggingController, SensorsApi and        *)
(* CanbusScheduler.  Whether the frame buffer's destructor stops its thread *)
(* is the library's; the thread runs when the display controller goes.     *)
(***************************************************************************)
EXTENDS WifiAp, Sequences

VARIABLES
    board,     \* what the build and the device tree provide
    boot,      \* how far main has come
    part,      \* the next part of the construction
    alive,     \* the objects made so far and not destroyed
    threads,   \* the threads that run
    fsFailed   \* history: the file system could not be mounted

bootVars == <<wifiVars, board, boot, part, alive, threads, fsFailed>>

Boards == {b \in [display : BOOLEAN, sd : BOOLEAN, intfs : BOOLEAN,
                  network : BOOLEAN, wifi : BOOLEAN] : b.wifi => b.network}

BootPC == {"configure", "display", "animate", "sd", "wifi", "connecting", "http",
           "mount", "construct", "loop", "returned", "terminated"}

BootInit ==
    /\ WifiInit
    /\ board \in Boards
    /\ boot = "configure" /\ part = 1
    /\ alive = {} /\ threads = {} /\ fsFailed = FALSE

Make(objects) == alive' = alive \cup objects
Run(t)        == threads' = threads \cup t

(* DtConfigurator::Initialize.  If the SD host's properties cannot be read  *)
(* there is a mount point, but no disk name.                               *)
Configure ==
    /\ boot = "configure"
    /\ \E disk \in SUBSET {"sd_disk_name"} :
         Make((IF board.intfs THEN {"int_fs_mp"} ELSE {})
              \cup (IF board.sd THEN {"sd_fs_mp"} \cup disk ELSE {}))
    /\ boot' = "display"
    /\ UNCHANGED <<wifiVars, board, part, threads, fsFailed>>

(* Main returns: its objects are destroyed, and the threads are not told.   *)
ReturnFromMain == boot' = "returned" /\ alive' = {} /\ UNCHANGED threads

MakeDisplay ==
    /\ boot = "display"
    /\ \/ boot' = "animate" /\ Make({"display_controller"}) /\ UNCHANGED threads
       \/ board.display /\ ReturnFromMain
    /\ UNCHANGED <<wifiVars, board, part, fsFailed>>

InitializeDisplay ==
    /\ boot = "animate"
    /\ boot' = "sd"
    /\ Run(IF board.display THEN {"animation"} ELSE {})
    /\ UNCHANGED <<wifiVars, board, part, alive, fsFailed>>

(* The service is kept if it cannot be initialized.                        *)
MakeSd ==
    /\ boot = "sd"
    /\ boot' = "wifi"
    /\ Make(IF board.sd THEN {"sd_fs_service"} ELSE {})
    /\ UNCHANGED <<wifiVars, board, part, threads, fsFailed>>

StartWifi ==
    /\ boot = "wifi"
    /\ IF board.wifi THEN Initialize /\ boot' = "connecting"
                     ELSE boot' = "http" /\ UNCHANGED wifiVars
    /\ UNCHANGED <<board, part, alive, threads, fsFailed>>

(* What WifiApService::Initialize returns is not looked at.                *)
WifiReturns ==
    /\ boot = "connecting" /\ wpc \in {"true", "false"}
    /\ boot' = "http"
    /\ UNCHANGED <<wifiVars, board, part, alive, threads, fsFailed>>

(* A server that does not start is only logged.                            *)
HttpServerStart == \E t \in SUBSET {"http"} : Run(t)

StartHttp ==
    /\ boot = "http"
    /\ boot' = "mount"
    /\ IF board.network THEN HttpServerStart ELSE UNCHANGED threads
    /\ UNCHANGED <<wifiVars, board, part, alive, fsFailed>>

(* GetInternalFsMp().value() throws if there is no mount point.            *)
MakeFs ==
    /\ boot = "mount"
    /\ IF "int_fs_mp" \notin alive
         THEN boot' = "terminated" /\ threads' = {} /\ UNCHANGED <<alive, fsFailed>>
         ELSE \/ boot' = "construct" /\ Make({"fs_service"}) /\ UNCHANGED <<threads, fsFailed>>
              \/ ReturnFromMain /\ fsFailed' = TRUE
    /\ UNCHANGED <<wifiVars, board, part>>

-----------------------------------------------------------------------------
(* From the time service on: what each part of main uses, makes and starts. *)

Part(uses, makes, starts) == [uses |-> uses, makes |-> makes, starts |-> starts]

Services ==
    << Part({"fs_service"}, {"time_service", "config_services"}, {}),
       Part({"config_services"}, {"adc_configuration_manager"}, {}),
       Part({}, {"gpio"}, {}),
       Part({"config_services"},
            {"system_configuration_manager", "canbus_configuration_manager"}, {}),
       Part({"config_services", "gpio", "adc_configuration_manager"},
            {"sensors_configuration_manager"}, {}),
       Part({"canbus_configuration_manager"}, {"canbus_service", "canbus_com_service"},
            {"communication"}),
       Part({"sensors_configuration_manager"}, {"sensor_readings_frame"}, {}) >>

(* LoggingController, and what it is made from, if there is an SD card.    *)
Logging ==
    << Part({"fs_service", "sd_fs_service", "time_service", "sensor_readings_frame",
             "sensors_configuration_manager", "canbus_com_service",
             "display_controller"},
            {"logging_controller"}, {}) >>

(* Mutant: both threads are started as soon as the processing service is    *)
(* made.                                                                   *)
ProcessingStartedEarly ==
    << Part({"time_service", "sensor_readings_frame", "canbus_service", "gpio",
             "adc_configuration_manager", "sensors_configuration_manager"},
            {"sensors_processing_service"}, {}),
       Part({}, {}, {"processing", "queue"}),
       Part({"canbus_configuration_manager", "canbus_service", "sensor_readings_frame"},
            {"canbus_scheduler_service"}, {}),
       Part({"system_configuration_manager", "adc_configuration_manager",
             "sensors_configuration_manager", "sensors_processing_service"},
            IF board.network THEN {"sensors_http_controller"} ELSE {}, {}) >>

Processing ==
    << Part({"time_service", "sensor_readings_frame", "canbus_service", "gpio",
             "adc_configuration_manager", "sensors_configuration_manager"},
            {"sensors_processing_service"}, {}),
       Part({"time_service", "adc_configuration_manager", "sensors_processing_service"},
            {"calibration_service"}, {}),
       Part({"canbus_configuration_manager", "canbus_service", "sensor_readings_frame"},
            {"canbus_scheduler_service"}, {}),
       Part({"system_configuration_manager", "adc_configuration_manager",
             "sensors_configuration_manager", "sensors_processing_service"},
            IF board.network THEN {"sensors_http_controller"} ELSE {}, {}),
       Part({"sensors_processing_service"}, {}, {"processing"}),
       Part({"canbus_scheduler_service"}, {}, {"queue"}) >>

Construction == Services \o (IF board.sd THEN Logging ELSE << >>) \o Processing

Construct ==
    /\ boot = "construct" /\ part <= Len(Construction)
    /\ Make(Construction[part].makes)
    /\ Run(Construction[part].starts)
    /\ part' = part + 1
    /\ UNCHANGED <<wifiVars, board, boot, fsFailed>>

(* Mutant: main returns when everything is started.                        *)
EnterLoopMissing ==
    /\ boot = "construct" /\ part > Len(Construction)
    /\ ReturnFromMain
    /\ UNCHANGED <<wifiVars, board, part, fsFailed>>

(* The endless loop keeps the objects.                                     *)
EnterLoop ==
    /\ boot = "construct" /\ part > Len(Construction)
    /\ boot' = "loop"
    /\ UNCHANGED <<wifiVars, board, part, alive, threads, fsFailed>>

Main ==
    \/ Configure \/ MakeDisplay \/ InitializeDisplay \/ MakeSd \/ StartWifi
    \/ WifiReturns \/ StartHttp \/ MakeFs \/ Construct \/ EnterLoop
    \/ WifiStep /\ UNCHANGED <<board, boot, part, alive, threads, fsFailed>>

Ended == boot \in {"loop", "returned", "terminated"}

BootNext ==
    \/ Main
    \/ InterfaceChange /\ UNCHANGED <<board, boot, part, alive, threads, fsFailed>>
    \/ Ended /\ UNCHANGED bootVars

(* The main thread keeps running.                                          *)
BootSpec == BootInit /\ [][BootNext]_bootVars /\ WF_bootVars(Main)

-----------------------------------------------------------------------------
(* The objects of main a thread uses as soon as it runs.  The handler that  *)
(* the communication thread calls, if it is set, is LoggingController's.    *)
Uses == [animation     |-> {"display_controller"},
         http          |-> {"sensors_http_controller"},
         communication |-> {"canbus_com_service", "canbus_service"},
         processing    |-> {"sensors_processing_service", "sensor_readings_frame"},
         queue         |-> {"canbus_scheduler_service", "canbus_service",
                            "sensor_readings_frame"}]

Finds(t) == Uses[t] \subseteq alive

(* What main makes objects from exists by then, the network or an SD card   *)
(* being there or not, and a thread finds what it uses: only the HTTP      *)
(* server may run before its controller, as the comment in main.cpp says,  *)
(* and no longer than until the endless loop.  Main leaves a running       *)
(* thread without its objects if the file system fails, and only then.     *)
NothingUsedBeforeMade ==
    /\ boot = "construct" /\ part <= Len(Construction)
         => Construction[part].uses \subseteq alive
    /\ boot # "returned" => \A t \in threads \ {"http"} : Finds(t)
    /\ boot = "loop" => \A t \in threads : Finds(t)
    /\ boot = "returned" /\ threads # {} => fsFailed

(* When WifiApService::Initialize reports success the access point is       *)
(* enabled and there is a DHCP server for its stations; when it reports a  *)
(* failure no station can connect.                                         *)
AccessPointServed ==
    /\ wpc = "true" => ap /\ dhcp
    /\ wpc = "false" => ~ap

(* The boot comes to an end on every board, also if the interface never     *)
(* comes up: main waits for it for a bounded time.                         *)
BootEnds == <>Ended
=============================================================================
