--------------------------- MODULE PausableSender ---------------------------
(***************************************************************************)
(* What the callers of CanbusSchedulerService rely on: a sender that can   *)
(* be switched off and on.  While it is off nothing goes out on the bus;   *)
(* the readings are only cleared while it is off; and a frame that goes    *)
(* out was computed from readings of the current epoch, the ones written   *)
(* since the last clearing, only.                                          *)
(***************************************************************************)
EXTENDS Naturals

CONSTANTS Messages, NoMessage

VARIABLES phase, epoch, sent

senderVars == <<phase, epoch, sent>>

SenderInit ==
    /\ phase = "off"
    /\ epoch = 0
    /\ sent = [msg |-> NoMessage, from |-> {}, n |-> 0]

TurnOff == phase' = "off" /\ UNCHANGED <<epoch, sent>>

TurnOn == phase' = "on" /\ UNCHANGED <<epoch, sent>>

Reset == phase = "off" /\ epoch' = epoch + 1 /\ UNCHANGED <<phase, sent>>

Send ==
    /\ phase = "on"
    /\ \E m \in Messages, from \in SUBSET {epoch} :
         sent' = [msg |-> m, from |-> from, n |-> 1 - sent.n]
    /\ UNCHANGED <<phase, epoch>>

SenderNext == TurnOff \/ TurnOn \/ Reset \/ Send

SenderSpec == SenderInit /\ [][SenderNext]_senderVars
=============================================================================
