---------------------------- MODULE ConfigEditor ----------------------------
(***************************************************************************)
(* The configuration page, static_resources/configuration/scripts/editor.js *)
(* and the handlers of editor.html, in several browsers, against the       *)
(* endpoint as ConfigStore specifies it.                                   *)
(*                                                                         *)
(* A page's functions run to completion between their awaits: the fetch of *)
(* loadConfig, the fetch and the result.text() of confirmSave, the         *)
(* file.text() of menuUploadConfig and the timer of showMessage are the    *)
(* points where others interleave.  A text is a model value: one that does *)
(* not parse as JSON, or a body that does.                                 *)
(* Formatting it again (JSON.stringify) keeps the configuration it denotes. *)
(***************************************************************************)
EXTENDS ConfigStore, Naturals, FiniteSets

CONSTANTS
    Pages,        \* open pages
    Conns,        \* connections a page may use for saves at the same time
    Junk,         \* a text that is not JSON, such as the empty one
    LoadConn,     \* the connection of a page's loadConfig
    MaxSaves      \* bound: saves a page confirms

ASSUME EditorAssumption ==
    /\ Clients = Pages \X (Conns \cup {LoadConn})
    /\ LoadConn \notin Conns
    /\ Junk \notin Bodies \cup {Nobody}
    /\ Valid \subseteq Bodies /\ BuiltIn \in Valid
    /\ MaxSaves \in Nat

Texts == Bodies \cup {Junk}

VARIABLES
    text,      \* the editor's value
    visible,   \* the editor is visible, the loader gone
    modal,     \* the confirmation dialog is open
    waiting,   \* saves that wait for their fetch, or for the error's text
    saves,     \* saves confirmed so far
    message,   \* the message box: its last message, and whether it is visible
    timers     \* timers of showMessage that have not fired

pageVars   == <<text, visible, modal, waiting, saves, message, timers>>
editorVars == <<storeVars, pageVars>>

Messages  == {"none", "Saved!", "Invalid JSON", "Network error", "server error"}
Load(p)   == <<p, LoadConn>>
Idle(p)   == {k \in Conns : <<p, k>> \notin waiting}

(* The device has booted.  The first thing a page does is the fetch of      *)
(* loadConfig.                                                             *)
EditorInit ==
    /\ config \in Valid /\ booting = FALSE
    /\ open = {Load(p) : p \in Pages} /\ done = {}
    /\ req = [c \in Clients |-> GetRequest]
    /\ outcome = [c \in Clients |-> NoOutcome]
    /\ text = [p \in Pages |-> Junk]
    /\ visible = [p \in Pages |-> FALSE]
    /\ modal = [p \in Pages |-> FALSE]
    /\ waiting = {}
    /\ saves = [p \in Pages |-> 0]
    /\ message = [p \in Pages |-> [text |-> "none", visible |-> FALSE]]
    /\ timers = [p \in Pages |-> 0]

-----------------------------------------------------------------------------
(* loadConfig after its fetch.  A failure is not caught: the page keeps its *)
(* loader and the editor stays hidden.                                     *)
LoadConfig(p) ==
    /\ ~visible[p] /\ outcome[Load(p)].status = "ok"
    /\ text' = [text EXCEPT ![p] = outcome[Load(p)].config]
    /\ visible' = [visible EXCEPT ![p] = TRUE]
    /\ UNCHANGED <<storeVars, modal, waiting, saves, message, timers>>

Type(p, t) ==
    /\ visible[p]
    /\ text' = [text EXCEPT ![p] = t]
    /\ UNCHANGED <<storeVars, visible, modal, waiting, saves, message,
                   timers>>

(* Mutant: the box is hidden by the first timer only.                      *)
ShowMessageOneTimer(p, m) ==
    /\ message' = [message EXCEPT ![p] = [text |-> m, visible |-> TRUE]]
    /\ timers' = [timers EXCEPT ![p] = IF message[p].text = "none" THEN 1 ELSE @]

ShowMessage(p, m) ==
    /\ message' = [message EXCEPT ![p] = [text |-> m, visible |-> TRUE]]
    /\ timers' = [timers EXCEPT ![p] = @ + 1]

(* Any timer hides the box, also when a later message is in it.            *)
HideMessage(p) ==
    /\ timers[p] > 0
    /\ message' = [message EXCEPT ![p].visible = FALSE]
    /\ timers' = [timers EXCEPT ![p] = @ - 1]
    /\ UNCHANGED <<storeVars, text, visible, modal, waiting, saves>>

(* The overlay menu only leads to the three functions below it and is left  *)
(* out.                                                                    *)
MenuSaveConfig(p) ==
    /\ ~modal[p]
    /\ modal' = [modal EXCEPT ![p] = TRUE]
    /\ UNCHANGED <<storeVars, text, visible, waiting, saves, message, timers>>

(* menuUploadConfig after file.text().  Up to there it changes nothing, so  *)
(* that the file is as good as chosen now.                                 *)
MenuUploadConfig(p, t) ==
    /\ t # Junk
    /\ text' = [text EXCEPT ![p] = t]
    /\ UNCHANGED <<storeVars, visible, modal, waiting, saves, message, timers>>

CancelSave(p) ==
    /\ modal[p]
    /\ modal' = [modal EXCEPT ![p] = FALSE]
    /\ UNCHANGED <<storeVars, text, visible, waiting, saves, message,
                   timers>>

(* confirmSave(true) up to its fetch.                                      *)
SaveInvalid(p) ==
    /\ modal[p] /\ text[p] = Junk /\ saves[p] < MaxSaves
    /\ modal' = [modal EXCEPT ![p] = FALSE]
    /\ saves' = [saves EXCEPT ![p] = @ + 1]
    /\ ShowMessage(p, "Invalid JSON")
    /\ UNCHANGED <<storeVars, text, visible, waiting>>

ConfirmSave(p) ==
    /\ modal[p] /\ text[p] # Junk /\ saves[p] < MaxSaves
    /\ modal' = [modal EXCEPT ![p] = FALSE]
    /\ saves' = [saves EXCEPT ![p] = @ + 1]
    /\ \E k \in Idle(p) :
         /\ Request(<<p, k>>, PostRequest(text[p]))
         /\ waiting' = waiting \cup {<<p, k>>}
    /\ UNCHANGED <<text, visible, message, timers>>

(* Mutant: result.ok is not looked at.                                     *)
SaveMessageUnchecked(status) ==
    IF status = "network" THEN {"Network error"} ELSE {"Saved!"}

(* Mutant: nothing is caught.                                              *)
SaveMessageUncaught(status) ==
    CASE status = "ok" -> {"Saved!"}
      [] status = "error" -> {"server error"}
      [] status = "network" -> {}

(* confirmSave after its fetch, and for an error after result.text(), which *)
(* may itself fail.                                                        *)
SaveMessage(status) ==
    CASE status = "ok" -> {"Saved!"}
      [] status = "error" -> {"server error", "Network error"}
      [] status = "network" -> {"Network error"}

SaveAnswered(p, k) ==
    /\ <<p, k>> \in waiting \ open
    /\ \E m \in SaveMessage(outcome[<<p, k>>].status) : ShowMessage(p, m)
    /\ waiting' = waiting \ {<<p, k>>}
    /\ UNCHANGED <<storeVars, text, visible, modal, saves>>

PageStep(p) ==
    \/ LoadConfig(p) \/ HideMessage(p)
    \/ \E k \in Conns : SaveAnswered(p, k)

User(p) ==
    \/ MenuSaveConfig(p) \/ CancelSave(p) \/ SaveInvalid(p) \/ ConfirmSave(p)
    \/ \E t \in Texts : Type(p, t) \/ MenuUploadConfig(p, t)

Device(c) == (Apply(c) \/ \E s \in Statuses : Reply(c, s)) /\ UNCHANGED pageVars

EditorNext ==
    \/ \E p \in Pages : PageStep(p) \/ User(p)
    \/ \E c \in Clients : Device(c)
    \/ (Setup \/ PowerLoss) /\ UNCHANGED pageVars

(* Browsers run their callbacks and timers, and SensorsApi answers every    *)
(* request or its connection is lost (RequestsEnd).                        *)
EditorSpec ==
    /\ EditorInit /\ [][EditorNext]_editorVars
    /\ \A p \in Pages :
         /\ WF_editorVars(HideMessage(p))
         /\ \A k \in Conns : WF_editorVars(SaveAnswered(p, k))
    /\ \A c \in Clients : WF_editorVars(Device(c))

-----------------------------------------------------------------------------
(* "Saved!" appears only for a save that the device has carried out with    *)
(* the text that was confirmed, whatever other pages and other saves of the *)
(* same page do meanwhile.                                                 *)
SavedMeansApplied ==
    [][\A p \in Pages :
         timers'[p] > timers[p] /\ message'[p].text = "Saved!" =>
           \E k \in Conns : /\ <<p, k>> \in waiting
                            /\ outcome[<<p, k>>].status = "ok"
                            /\ req[<<p, k>>].body \in Valid]_editorVars

(* If nobody else saves, a page whose last message is "Saved!" and that      *)
(* waits for nothing shows the truth about the device: it holds what the    *)
(* last save posted or, since SetupTestSensors overwrites that at a boot,    *)
(* the built-in configuration; never again what it held before.            *)
SoleSaverHolds ==
    \A p \in Pages, k \in Conns :
      /\ message[p].text = "Saved!" /\ waiting = {}
      /\ {c \in Clients : req[c].post} = {<<p, k>>}
      => config \in {req[<<p, k>>].body, BuiltIn}

(* However many saves there were, on one page or on several, overlapping or *)
(* not: if the last one on each connection was answered with success, the   *)
(* device holds what one of them posted, or the built-in configuration of a *)
(* boot since then.                                                        *)
SavesHold ==
    LET posted == {c \in Clients : req[c].post}
    IN  posted # {} /\ (\A c \in posted : outcome[c].status = "ok") =>
          config \in {req[c].body : c \in posted} \cup {BuiltIn}

(* The message box never gets stuck: while it is visible a timer that will  *)
(* hide it is pending, and in the end it is hidden.                        *)
MessageExpires ==
    \A p \in Pages :
      /\ [](message[p].visible => timers[p] > 0)
      /\ message[p].visible ~> ~message[p].visible

(* Every confirmed save is reported to the user, whether the device         *)
(* carries it out, refuses it or is lost.                                  *)
SaveReported ==
    \A p \in Pages, k \in Conns : <<p, k>> \in waiting ~> <<p, k>> \notin waiting
=============================================================================
