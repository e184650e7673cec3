------------------------------- MODULE WifiAp -------------------------------
(***************************************************************************)
(* domain/http_domain/services/wifi_ap_service.cpp: the start of the       *)
(* access point, a sequence of requests to the network stack of which each *)
(* may fail.  The stack is a library.  The handler of its events only      *)
(* logs and is left out.                                                   *)
(***************************************************************************)
EXTENDS Naturals

CONSTANT RetryCount    \* retry_count

ASSUME WifiAssumption == RetryCount \in Nat

VARIABLES
    interface,   \* net_if_get_wifi_sap finds an interface
    dhcp,        \* the DHCP server runs
    ap,          \* the access point is enabled
    up,          \* the interface is up
    wpc,         \* where Initialize is, or what it returned
    i            \* the loop's counter

wifiVars == <<interface, dhcp, ap, up, wpc, i>>

WifiPC == {"idle", "interface", "dhcp", "enable", "wait", "true", "false"}

WifiInit ==
    /\ interface \in BOOLEAN
    /\ dhcp = FALSE /\ ap = FALSE /\ up = FALSE
    /\ wpc = "idle" /\ i = 0

Initialize ==
    /\ wpc = "idle"
    /\ wpc' = "interface"
    /\ UNCHANGED <<interface, dhcp, ap, up, i>>

AccessPointInitialize ==
    /\ wpc = "interface"
    /\ wpc' = IF interface THEN "dhcp" ELSE "false"
    /\ UNCHANGED <<interface, dhcp, ap, up, i>>

(* Mutant: the result is not looked at.                                    *)
DHCPv4ServerInitializeUnchecked ==
    /\ wpc = "dhcp"
    /\ dhcp' \in BOOLEAN
    /\ wpc' = "enable"
    /\ UNCHANGED <<interface, ap, up, i>>

(* A failure to set the address or the netmask is only logged.             *)
DHCPv4ServerInitialize ==
    /\ wpc = "dhcp"
    /\ \/ dhcp' = TRUE /\ wpc' = "enable"
       \/ wpc' = "false" /\ UNCHANGED dhcp
    /\ UNCHANGED <<interface, ap, up, i>>

(* If the request fails the DHCP server is left running.                   *)
EnableAccessPoint ==
    /\ wpc = "enable"
    /\ \/ ap' = TRUE /\ wpc' = "wait"
       \/ wpc' = "false" /\ UNCHANGED ap
    /\ UNCHANGED <<interface, dhcp, up, i>>

(* Mutant: there is no limit.                                              *)
WaitForInterfaceForever ==
    /\ wpc = "wait"
    /\ wpc' = IF up THEN "true" ELSE "wait"
    /\ UNCHANGED <<interface, dhcp, ap, up, i>>

(* The loop over net_if_is_up.  It ends with success either way.           *)
WaitForInterface ==
    /\ wpc = "wait"
    /\ IF i < RetryCount /\ ~up THEN i' = i + 1 /\ UNCHANGED wpc
                                ELSE wpc' = "true" /\ UNCHANGED i
    /\ UNCHANGED <<interface, dhcp, ap, up>>

WifiStep ==
    \/ AccessPointInitialize \/ DHCPv4ServerInitialize \/ EnableAccessPoint
    \/ WaitForInterface

(* The stack brings an enabled interface up, some time, and it may go down. *)
InterfaceChange ==
    /\ ap
    /\ up' = ~up
    /\ UNCHANGED <<interface, dhcp, ap, wpc, i>>
=============================================================================
