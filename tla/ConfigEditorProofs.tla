------------------------- MODULE ConfigEditorProofs -------------------------
(***************************************************************************)
(* What TLAPS proves of ConfigEditor for any number of pages, connections,  *)
(* texts and saves, and across any losses of power: when a page may say     *)
(* "Saved!", and what the device then holds, if nobody else saves and if    *)
(* others do.                                                              *)
(***************************************************************************)
EXTENDS ConfigEditor, TLAPS

USE EditorAssumption

EditorTypeOK ==
    /\ config \in Valid /\ booting \in BOOLEAN
    /\ open \subseteq Clients /\ done \subseteq open
    /\ req \in [Clients -> [post : BOOLEAN, body : Bodies \cup {Nobody}]]
    /\ outcome \in [Clients -> [status : Statuses \cup {"none"},
                                config : Bodies \cup {Nobody}]]
    /\ text \in [Pages -> Texts]
    /\ visible \in [Pages -> BOOLEAN] /\ modal \in [Pages -> BOOLEAN]
    /\ waiting \subseteq Pages \X Conns
    /\ saves \in [Pages -> Nat] /\ timers \in [Pages -> Nat]
    /\ message \in [Pages -> [text : Messages, visible : BOOLEAN]]

(* What the device has told its clients is so.                             *)
AnswersKnown ==
    /\ \A c \in done : req[c].post /\ req[c].body \in Valid
    /\ \A c \in Clients : outcome[c].status = "ok" =>
         /\ req[c].post => req[c].body \in Valid
         /\ ~req[c].post => outcome[c].config \in Valid

(* Only saves post, and a page waits for each until it has been told.       *)
SavesKnown ==
    /\ \A p \in Pages : ~req[Load(p)].post
    /\ \A c \in open : req[c].post => c \in waiting
    /\ \A c \in waiting : req[c].post
    /\ \A c \in waiting \ open : outcome[c].status \in Statuses

(* The device holds what one of the saves posted, or what a boot put in its *)
(* place, once each of them is carried out and no later one is under way.   *)
Posted == {c \in Clients : req[c].post}
SavesApplied ==
    /\ Posted # {}
    /\ \A c \in Posted : c \in done \/ outcome[c].status = "ok"
    => config \in {req[c].body : c \in Posted} \cup {BuiltIn}

(* The connection of the only save there has been.                         *)
SoleSaver(c) == Posted = {c}

(* What the only saver shows is the answer to its last save.                *)
SoleSaverShown ==
    \A p \in Pages, k \in Conns :
      SoleSaver(<<p, k>>) /\ <<p, k>> \notin waiting /\ message[p].text = "Saved!"
        => outcome[<<p, k>>].status = "ok"

EditorInv ==
    /\ EditorTypeOK /\ AnswersKnown /\ SavesKnown /\ SavesApplied /\ SoleSaverShown

-----------------------------------------------------------------------------
(* The steps.  Three kinds of page steps leave the device alone; a save is  *)
(* a request, and the device's own steps leave the pages alone.             *)
Quiet ==
    /\ UNCHANGED <<storeVars, waiting, saves, message, timers>>
    /\ \E p \in Pages :
         \/ LoadConfig(p) \/ MenuSaveConfig(p) \/ CancelSave(p)
         \/ \E t \in Texts : Type(p, t) \/ MenuUploadConfig(p, t)

(* Every step is a quiet one, a step of one page that is not, or one of    *)
(* the device.                                                             *)
LEMMA EditorSteps ==
    ASSUME [EditorNext]_editorVars
    PROVE  \/ Quiet
           \/ \E p \in Pages : \/ HideMessage(p) \/ SaveInvalid(p) \/ ConfirmSave(p)
                             \/ \E k \in Conns : SaveAnswered(p, k)
           \/ \E c \in Clients : Device(c)
           \/ (Setup \/ PowerLoss) /\ UNCHANGED pageVars
           \/ UNCHANGED editorVars
<1>1. ASSUME NEW p \in Pages, PageStep(p)
      PROVE  Quiet \/ HideMessage(p) \/ \E k \in Conns : SaveAnswered(p, k)
  BY <1>1 DEF PageStep, Quiet, LoadConfig
<1>2. ASSUME NEW p \in Pages, User(p) PROVE Quiet \/ SaveInvalid(p) \/ ConfirmSave(p)
  <2>1. CASE MenuSaveConfig(p) \/ CancelSave(p)
    BY <2>1 DEF Quiet, MenuSaveConfig, CancelSave
  <2>2. ASSUME NEW t \in Texts, Type(p, t) \/ MenuUploadConfig(p, t) PROVE Quiet
    BY <2>2 DEF Quiet, Type, MenuUploadConfig
  <2> QED
    BY <1>2, <2>1, <2>2 DEF User
<1> QED
  BY <1>1, <1>2 DEF EditorNext

(* A connection belongs to one page, and is for loading or for saves.       *)
LEMMA Connections ==
    /\ \A p \in Pages : Load(p) \in Clients
    /\ \A p \in Pages, k \in Conns : <<p, k>> \in Clients
    /\ \A p, q \in Pages, k \in Conns : <<p, k>> # Load(q)
  BY DEF Load

(* What a save does to the device's side of its connection.                *)
LEMMA SaveBegins ==
    ASSUME EditorInv, NEW p \in Pages, ConfirmSave(p)
    PROVE  \E k \in Conns :
             LET c == <<p, k>>
                 r == PostRequest(text[p])
             IN  /\ c \in Clients /\ c \notin open /\ c \notin done /\ c \notin waiting
                 /\ open' = open \cup {c} /\ waiting' = waiting \cup {c}
                 /\ req' = [req EXCEPT ![c] = r] /\ text[p] \in Bodies
                 /\ outcome' = [outcome EXCEPT ![c] = NoOutcome]
                 /\ UNCHANGED <<config, booting, done, text, visible, message, timers>>
<1>1. PICK k \in Conns : /\ k \in Idle(p) /\ Request(<<p, k>>, PostRequest(text[p]))
                        /\ waiting' = waiting \cup {<<p, k>>}
  BY DEF ConfirmSave, Idle
<1>2. text[p] \in Bodies
  BY DEF EditorInv, EditorTypeOK, Texts, ConfirmSave
<1>3. <<p, k>> \in Clients /\ <<p, k>> \notin waiting /\ <<p, k>> \notin done
  BY <1>1, Connections DEF Idle, EditorInv, EditorTypeOK, Request
<1> QED
  BY <1>1, <1>2, <1>3 DEF Request, ConfirmSave

(* Types: a page's step changes its own entries, a device's step the       *)
(* client's.                                                               *)
LEMMA TypeStep == ASSUME EditorInv, [EditorNext]_editorVars PROVE EditorTypeOK'
<1> USE DEF EditorTypeOK
<1>0. EditorTypeOK
  BY DEF EditorInv
<1>1. CASE Quiet
  <2>1. EditorTypeOK' <=>
          /\ text' \in [Pages -> Texts]
          /\ visible' \in [Pages -> BOOLEAN] /\ modal' \in [Pages -> BOOLEAN]
    BY <1>0, <1>1 DEF Quiet, storeVars
  <2>2. ASSUME NEW p \in Pages, LoadConfig(p) PROVE EditorTypeOK'
    <3>1. outcome[Load(p)].config \in Texts
      BY <2>2, Connections DEF LoadConfig, EditorInv, AnswersKnown, SavesKnown, Texts
    <3> QED
      BY <1>0, <2>1, <2>2, <3>1 DEF LoadConfig
  <2>3. ASSUME NEW p \in Pages, MenuSaveConfig(p) \/ CancelSave(p) PROVE EditorTypeOK'
    BY <1>0, <2>1, <2>3 DEF MenuSaveConfig, CancelSave
  <2>4. ASSUME NEW p \in Pages, NEW t \in Texts, Type(p, t) \/ MenuUploadConfig(p, t)
        PROVE  EditorTypeOK'
    BY <1>0, <2>1, <2>4 DEF Type, MenuUploadConfig
  <2> QED
    BY <1>1, <2>2, <2>3, <2>4 DEF Quiet
<1>2. ASSUME NEW p \in Pages, NEW m \in Messages, ShowMessage(p, m)
      PROVE  /\ message' \in [Pages -> [text : Messages, visible : BOOLEAN]]
             /\ timers' \in [Pages -> Nat]
  BY <1>0, <1>2 DEF ShowMessage
<1>3. ASSUME NEW p \in Pages, HideMessage(p) PROVE EditorTypeOK'
  <2>1. timers' \in [Pages -> Nat]
    BY <1>0, <1>3 DEF HideMessage
  <2>2. message' \in [Pages -> [text : Messages, visible : BOOLEAN]]
    BY <1>0, <1>3 DEF HideMessage
  <2> QED
    BY <1>0, <1>3, <2>1, <2>2 DEF HideMessage, storeVars
<1>4. ASSUME NEW p \in Pages, SaveInvalid(p) PROVE EditorTypeOK'
  <2>1. "Invalid JSON" \in Messages
    BY DEF Messages
  <2>2. modal' \in [Pages -> BOOLEAN] /\ saves' \in [Pages -> Nat]
    <3>1. modal' \in [Pages -> BOOLEAN]
      BY <1>0, <1>4 DEF SaveInvalid
    <3>2. saves' \in [Pages -> Nat]
      <4>1. saves' = [saves EXCEPT ![p] = @ + 1]
        BY <1>4 DEF SaveInvalid
      <4> QED
        BY <1>0, <4>1
    <3> QED
      BY <3>1, <3>2
  <2>3. /\ message' \in [Pages -> [text : Messages, visible : BOOLEAN]]
        /\ timers' \in [Pages -> Nat]
    BY <1>2, <1>4, <2>1 DEF SaveInvalid
  <2> QED
    BY <1>0, <1>4, <2>2, <2>3 DEF SaveInvalid, storeVars
<1>5. ASSUME NEW p \in Pages, ConfirmSave(p) PROVE EditorTypeOK'
  <2>1. modal' \in [Pages -> BOOLEAN] /\ saves' \in [Pages -> Nat]
    BY <1>0, <1>5 DEF ConfirmSave
  <2>2. PostRequest(text[p]) \in [post : BOOLEAN, body : Bodies \cup {Nobody}]
    BY <1>5, SaveBegins DEF PostRequest
  <2>3. NoOutcome \in [status : Statuses \cup {"none"}, config : Bodies \cup {Nobody}]
    BY DEF NoOutcome
  <2> DEFINE r == PostRequest(text[p])
  <2>4. PICK k \in Conns :
          LET c == <<p, k>>
          IN  /\ c \in Clients /\ open' = open \cup {c} /\ waiting' = waiting \cup {c}
              /\ req' = [req EXCEPT ![c] = r]
              /\ outcome' = [outcome EXCEPT ![c] = NoOutcome]
              /\ UNCHANGED <<config, booting, done, text, visible, message, timers>>
    BY <1>5, SaveBegins
  <2> HIDE DEF r
  <2>5. req' \in [Clients -> [post : BOOLEAN, body : Bodies \cup {Nobody}]]
    BY <1>0, <2>2, <2>4 DEF r
  <2>6. outcome' \in [Clients -> [status : Statuses \cup {"none"},
                                 config : Bodies \cup {Nobody}]]
    BY <1>0, <2>3, <2>4
  <2>7. open' \subseteq Clients /\ done' \subseteq open' /\ waiting' \subseteq Pages \X Conns
    BY <1>0, <2>4
  <2> QED
    BY <1>0, <2>1, <2>4, <2>5, <2>6, <2>7
<1>6. ASSUME NEW p \in Pages, NEW k \in Conns, SaveAnswered(p, k) PROVE EditorTypeOK'
  <2>1. outcome[<<p, k>>].status \in Statuses
    BY <1>6 DEF SaveAnswered, EditorInv, SavesKnown
  <2>2. SaveMessage(outcome[<<p, k>>].status) \subseteq Messages
    BY <2>1 DEF Statuses, SaveMessage, Messages
  <2>3. /\ message' \in [Pages -> [text : Messages, visible : BOOLEAN]]
        /\ timers' \in [Pages -> Nat]
    BY <1>2, <1>6, <2>2 DEF SaveAnswered
  <2> QED
    BY <1>0, <1>6, <2>3 DEF SaveAnswered, storeVars
<1>7. ASSUME NEW c \in Clients, Device(c) PROVE EditorTypeOK'
  <2>1. CASE Apply(c)
    BY <1>0, <1>7, <2>1 DEF Device, Apply, pageVars
  <2>2. ASSUME NEW s \in Statuses, Reply(c, s) PROVE EditorTypeOK'
    <3>1. outcome' \in [Clients -> [status : Statuses \cup {"none"},
                                   config : Bodies \cup {Nobody}]]
      BY <1>0, <2>2 DEF Reply
    <3> QED
      BY <1>0, <1>7, <2>2, <3>1 DEF Device, Reply, pageVars
  <2> QED
    BY <1>7, <2>1, <2>2 DEF Device
<1>8. CASE Setup /\ UNCHANGED pageVars
  BY <1>0, <1>8 DEF Setup, pageVars
<1>9. CASE PowerLoss /\ UNCHANGED pageVars
  <2>1. outcome' \in [Clients -> [status : Statuses \cup {"none"},
                                 config : Bodies \cup {Nobody}]]
    BY <1>0, <1>9 DEF PowerLoss, Statuses
  <2> QED
    BY <1>0, <1>9, <2>1 DEF PowerLoss, pageVars
<1>10. CASE UNCHANGED editorVars
  BY <1>0, <1>10 DEF editorVars, storeVars, pageVars
<1> QED
  BY EditorSteps, <1>1, <1>3, <1>4, <1>5, <1>6, <1>7, <1>8, <1>9, <1>10

(* An answer is given by the device, with the configuration it then        *)
(* holds.                                                                  *)
LEMMA AnswersStep == ASSUME EditorInv, [EditorNext]_editorVars PROVE AnswersKnown'
<1> USE DEF AnswersKnown
<1>0. AnswersKnown /\ EditorTypeOK
  BY DEF EditorInv
<1>1. ASSUME UNCHANGED storeVars PROVE AnswersKnown'
  BY <1>0, <1>1 DEF storeVars
<1>2. ASSUME NEW p \in Pages, ConfirmSave(p) PROVE AnswersKnown'
  <2>1. PICK c \in Clients : /\ c \notin done /\ done' = done
                            /\ req' = [req EXCEPT ![c] = PostRequest(text[p])]
                            /\ outcome' = [outcome EXCEPT ![c] = NoOutcome]
    BY <1>2, SaveBegins
  <2>2. outcome'[c].status = "none"
    BY <1>0, <2>1 DEF EditorTypeOK, NoOutcome
  <2>3. \A d \in Clients \ {c} : req'[d] = req[d] /\ outcome'[d] = outcome[d]
    BY <1>0, <2>1 DEF EditorTypeOK
  <2> QED
    BY <1>0, <2>1, <2>2, <2>3 DEF EditorTypeOK
<1>3. ASSUME NEW c \in Clients, Apply(c) PROVE AnswersKnown'
  BY <1>0, <1>3 DEF Apply
<1>4. ASSUME NEW c \in Clients, NEW s \in Statuses, Reply(c, s) PROVE AnswersKnown'
  <2>1. done' \subseteq done /\ req' = req
    BY <1>4 DEF Reply
  <2>2. \A d \in Clients \ {c} : outcome'[d] = outcome[d]
    BY <1>0, <1>4 DEF Reply, EditorTypeOK
  <2>3. outcome'[c].status = s /\ (~req[c].post /\ s = "ok" => outcome'[c].config = config)
    BY <1>0, <1>4 DEF Reply, EditorTypeOK
  <2>4. s = "ok" /\ req[c].post => req[c].body \in Valid
    BY <1>0, <1>4 DEF Reply
  <2> QED
    BY <1>0, <2>1, <2>2, <2>3, <2>4 DEF EditorTypeOK
<1>5. CASE Setup
  BY <1>0, <1>5 DEF Setup
<1>6. CASE PowerLoss
  <2>1. done' = {} /\ req' = req
    BY <1>6 DEF PowerLoss
  <2>2. \A d \in Clients : outcome'[d] = outcome[d] \/ outcome'[d].status = "network"
    BY <1>6 DEF PowerLoss
  <2> QED
    BY <1>0, <2>1, <2>2
<1> QED
  BY EditorSteps, <1>1, <1>2, <1>3, <1>4, <1>5, <1>6
     DEF Quiet, HideMessage, SaveInvalid, SaveAnswered, Device, editorVars

(* A connection that posts is one of a save that its page waits for.       *)
LEMMA SavesStep == ASSUME EditorInv, [EditorNext]_editorVars PROVE SavesKnown'
<1> USE DEF SavesKnown
<1>0. SavesKnown /\ EditorTypeOK
  BY DEF EditorInv
<1>1. ASSUME UNCHANGED storeVars, waiting' = waiting PROVE SavesKnown'
  BY <1>0, <1>1 DEF storeVars
<1>2. ASSUME NEW p \in Pages, ConfirmSave(p) PROVE SavesKnown'
  <2>1. PICK k \in Conns :
          LET c == <<p, k>>
          IN  /\ c \in Clients /\ open' = open \cup {c} /\ waiting' = waiting \cup {c}
              /\ req' = [req EXCEPT ![c] = PostRequest(text[p])]
              /\ outcome' = [outcome EXCEPT ![c] = NoOutcome]
    BY <1>2, SaveBegins
  <2> DEFINE c == <<p, k>>
  <2>2. req'[c].post
    BY <1>0, <2>1 DEF EditorTypeOK, PostRequest
  <2>3. \A d \in Clients \ {c} : req'[d] = req[d] /\ outcome'[d] = outcome[d]
    BY <1>0, <2>1 DEF EditorTypeOK
  <2>4. waiting \subseteq Clients /\ open \subseteq Clients
    BY <1>0 DEF EditorTypeOK
  <2>5. \A q \in Pages : Load(q) \in Clients \ {c}
    BY Connections
  <2> HIDE DEF c
  <2>6. open' = open \cup {c} /\ waiting' = waiting \cup {c}
    BY <2>1 DEF c
  <2> QED
    BY <1>0, <2>2, <2>3, <2>4, <2>5, <2>6
<1>3. ASSUME NEW p \in Pages, NEW k \in Conns, SaveAnswered(p, k) PROVE SavesKnown'
  <2>1. UNCHANGED <<open, req, outcome>> /\ waiting' = waiting \ {<<p, k>>}
        /\ <<p, k>> \notin open
    BY <1>3 DEF SaveAnswered, storeVars
  <2> QED
    BY <1>0, <2>1
<1>4. ASSUME NEW c \in Clients, Device(c) PROVE SavesKnown'
  <2>1. waiting' = waiting
    BY <1>4 DEF Device, pageVars
  <2>2. CASE Apply(c)
    BY <1>0, <2>1, <2>2 DEF Apply
  <2>3. ASSUME NEW s \in Statuses, Reply(c, s) PROVE SavesKnown'
    <3>1. open' = open \ {c} /\ req' = req
      BY <2>3 DEF Reply
    <3>2. \A d \in Clients \ {c} : outcome'[d] = outcome[d]
      BY <1>0, <2>3 DEF Reply, EditorTypeOK
    <3>3. outcome'[c].status = s
      BY <1>0, <2>3 DEF Reply, EditorTypeOK
    <3>4. waiting \subseteq Clients
      BY <1>0 DEF EditorTypeOK
    <3> QED
      BY <1>0, <2>1, <3>1, <3>2, <3>3, <3>4
  <2> QED
    BY <1>4, <2>2, <2>3 DEF Device
<1>5. CASE Setup /\ UNCHANGED pageVars
  BY <1>0, <1>5 DEF Setup, pageVars
<1>6. CASE PowerLoss /\ UNCHANGED pageVars
  <2>1. open' = {} /\ req' = req /\ waiting' = waiting
    BY <1>6 DEF PowerLoss, pageVars
  <2>2. \A d \in Clients : outcome'[d].status \in Statuses
                           \/ (d \notin open /\ outcome'[d] = outcome[d])
    BY <1>6 DEF PowerLoss, Statuses
  <2>3. waiting \subseteq Clients
    BY <1>0 DEF EditorTypeOK
  <2> QED
    BY <1>0, <2>1, <2>2, <2>3
<1> QED
  BY EditorSteps, <1>1, <1>2, <1>3, <1>4, <1>5, <1>6
     DEF Quiet, HideMessage, SaveInvalid, editorVars, pageVars

(* A save ends what was known of another only saver.                       *)
LEMMA SaveSole ==
    ASSUME EditorInv, NEW p \in Pages, ConfirmSave(p)
    PROVE  \A d \in Clients : SoleSaver(d)' =>
             d \in waiting' /\ d \notin done' /\ outcome'[d].status = "none"
<1>1. PICK c \in Clients : /\ c \notin done /\ done' = done /\ waiting' = waiting \cup {c}
                          /\ req' = [req EXCEPT ![c] = PostRequest(text[p])]
                          /\ outcome' = [outcome EXCEPT ![c] = NoOutcome]
  BY SaveBegins
<1>2. req'[c].post /\ outcome'[c].status = "none"
  BY <1>1 DEF EditorInv, EditorTypeOK, PostRequest, NoOutcome
<1> QED
  BY <1>1, <1>2 DEF SoleSaver, Posted

(* Only saves and the boot change the configuration, and a save that is     *)
(* answered with success has.                                              *)
LEMMA AppliedStep == ASSUME EditorInv, [EditorNext]_editorVars PROVE SavesApplied'
<1> USE DEF SavesApplied, Posted
<1>0. SavesApplied /\ EditorTypeOK
  BY DEF EditorInv
<1>1. ASSUME UNCHANGED storeVars PROVE SavesApplied'
  BY <1>0, <1>1 DEF storeVars
<1>2. ASSUME NEW p \in Pages, ConfirmSave(p) PROVE SavesApplied'
  <2>1. PICK c \in Clients : /\ c \notin done /\ done' = done
                            /\ req' = [req EXCEPT ![c] = PostRequest(text[p])]
                            /\ outcome' = [outcome EXCEPT ![c] = NoOutcome]
    BY <1>2, SaveBegins
  <2>2. req'[c].post /\ outcome'[c].status = "none"
    BY <1>0, <2>1 DEF EditorTypeOK, PostRequest, NoOutcome
  <2> QED
    BY <2>1, <2>2
<1>3. ASSUME NEW c \in Clients, Apply(c) PROVE SavesApplied'
  <2>1. req[c].post /\ req' = req /\ config' = req[c].body
    BY <1>3 DEF Apply
  <2> QED
    BY <2>1
<1>4. ASSUME NEW c \in Clients, NEW s \in Statuses, Reply(c, s) PROVE SavesApplied'
  <2>1. UNCHANGED <<req, config>> /\ done' = done \ {c}
    BY <1>4 DEF Reply
  <2>2. \A d \in Clients \ {c} : outcome'[d] = outcome[d]
    BY <1>0, <1>4 DEF Reply, EditorTypeOK
  <2>3. outcome'[c].status = "ok" /\ req[c].post => c \in done
    BY <1>0, <1>4 DEF Reply, EditorTypeOK
  <2>4. SUFFICES ASSUME NEW d \in Clients, req[d].post,
                        d \in done' \/ outcome'[d].status = "ok"
                 PROVE  d \in done \/ outcome[d].status = "ok"
    BY <1>0, <2>1
  <2> QED
    BY <2>1, <2>2, <2>3, <2>4
<1>5. CASE Setup
  <2>1. UNCHANGED <<req, done, outcome>> /\ config' \in {config, BuiltIn}
    BY <1>5 DEF Setup
  <2> QED
    BY <1>0, <2>1
<1>6. CASE PowerLoss
  <2>1. UNCHANGED <<req, config>> /\ done' = {}
    BY <1>6 DEF PowerLoss
  <2>2. \A d \in Clients : outcome'[d] = outcome[d] \/ outcome'[d].status = "network"
    BY <1>6 DEF PowerLoss
  <2> QED
    BY <1>0, <2>1, <2>2
<1> QED
  BY EditorSteps, <1>1, <1>2, <1>3, <1>4, <1>5, <1>6
     DEF Quiet, HideMessage, SaveInvalid, SaveAnswered, Device, editorVars

(* A page shows "Saved!" when the fetch has brought a success, and not     *)
(* otherwise.                                                              *)
LEMMA ShownStep == ASSUME EditorInv, [EditorNext]_editorVars PROVE SoleSaverShown'
<1> USE DEF SoleSaverShown
<1>0. SoleSaverShown /\ EditorTypeOK /\ SavesKnown
  BY DEF EditorInv
<1>1. ASSUME UNCHANGED <<req, outcome, waiting>>,
             \A p \in Pages : message'[p].text = "Saved!" => message[p].text = "Saved!"
      PROVE  SoleSaverShown'
  BY <1>0, <1>1 DEF SoleSaver, Posted
<1>2. ASSUME NEW p \in Pages, HideMessage(p) \/ SaveInvalid(p) PROVE SoleSaverShown'
  <2>1. UNCHANGED <<req, outcome, waiting>>
    BY <1>2 DEF HideMessage, SaveInvalid, storeVars
  <2>2. \A q \in Pages : message'[q].text = "Saved!" => message[q].text = "Saved!"
    <3>1. CASE HideMessage(p)
      BY <1>0, <3>1 DEF HideMessage, EditorTypeOK
    <3>2. CASE SaveInvalid(p)
      BY <1>0, <3>2 DEF SaveInvalid, ShowMessage, EditorTypeOK
    <3> QED
      BY <1>2, <3>1, <3>2
  <2> QED
    BY <1>1, <2>1, <2>2
<1>3. ASSUME NEW p \in Pages, ConfirmSave(p) PROVE SoleSaverShown'
  BY <1>3, SaveSole, Connections
<1>4. ASSUME NEW p \in Pages, NEW k \in Conns, SaveAnswered(p, k) PROVE SoleSaverShown'
  <2> DEFINE c == <<p, k>>
  <2>1. UNCHANGED <<req, outcome>> /\ waiting' = waiting \ {c} /\ c \in waiting
    BY <1>4 DEF SaveAnswered, storeVars
  <2>2. PICK m \in SaveMessage(outcome[c].status) : ShowMessage(p, m)
    BY <1>4 DEF SaveAnswered
  <2>3. message'[p].text = m
    BY <1>0, <2>2 DEF ShowMessage, EditorTypeOK
  <2>4. \A q \in Pages \ {p} : message'[q] = message[q]
    BY <1>0, <2>2 DEF ShowMessage, EditorTypeOK
  <2>5. outcome[c].status \in Statuses
    BY <1>0, <1>4 DEF SaveAnswered, SavesKnown
  <2>6. m = "Saved!" => outcome[c].status = "ok"
    BY <2>2, <2>5 DEF SaveMessage, Statuses
  <2>7. c \in Clients /\ req[c].post
    BY <1>0, <2>1, Connections DEF SavesKnown
  <2>8. \A d \in Clients : SoleSaver(d)' => d = c
    BY <2>1, <2>7 DEF SoleSaver, Posted
  <2>9. ASSUME NEW q \in Pages, NEW j \in Conns, SoleSaver(<<q, j>>)',
               message'[q].text = "Saved!"
        PROVE  outcome'[<<q, j>>].status = "ok"
    <3>1. q = p /\ j = k
      BY <2>8, <2>9, Connections
    <3> QED
      BY <2>1, <2>3, <2>6, <2>9, <3>1
  <2> QED
    BY <2>9
<1>5. ASSUME NEW c \in Clients, Device(c) PROVE SoleSaverShown'
  <2>1. UNCHANGED <<waiting, message, req>>
    BY <1>5 DEF Device, pageVars, Apply, Reply
  <2>2. \A d \in Clients : SoleSaver(d) /\ d \notin waiting => outcome'[d] = outcome[d]
    <3>1. \A d \in Clients \ open : outcome'[d] = outcome[d]
      BY <1>0, <1>5 DEF Device, Apply, Reply, EditorTypeOK
    <3>2. \A d \in Clients : SoleSaver(d) => req[d].post
      BY DEF SoleSaver, Posted
    <3> QED
      BY <1>0, <3>1, <3>2 DEF SavesKnown
  <2> QED
    BY <1>0, <2>1, <2>2, Connections DEF SoleSaver, Posted
<1>6. CASE (Setup \/ PowerLoss) /\ UNCHANGED pageVars
  <2>1. UNCHANGED <<waiting, message, req>>
    BY <1>6 DEF pageVars, Setup, PowerLoss
  <2>2. \A d \in Clients : SoleSaver(d) /\ d \notin waiting => outcome'[d] = outcome[d]
    <3>1. \A d \in Clients \ open : outcome'[d] = outcome[d]
      BY <1>0, <1>6 DEF Setup, PowerLoss, EditorTypeOK
    <3>2. \A d \in Clients : SoleSaver(d) => req[d].post
      BY DEF SoleSaver, Posted
    <3> QED
      BY <1>0, <3>1, <3>2 DEF SavesKnown
  <2> QED
    BY <1>0, <2>1, <2>2, Connections DEF SoleSaver, Posted
<1> QED
  BY EditorSteps, <1>1, <1>2, <1>3, <1>4, <1>5, <1>6
     DEF Quiet, editorVars, storeVars, pageVars

(* EditorInv is an inductive invariant of pages and device.                 *)
THEOREM EditorInvAlways == EditorSpec => []EditorInv
<1>1. EditorInit => EditorInv
  <2> SUFFICES ASSUME EditorInit PROVE EditorInv
    OBVIOUS
  <2>1. GetRequest \in [post : BOOLEAN, body : Bodies \cup {Nobody}] /\ ~GetRequest.post
    BY DEF GetRequest
  <2>2. NoOutcome \in [status : Statuses \cup {"none"}, config : Bodies \cup {Nobody}]
        /\ NoOutcome.status = "none"
    BY DEF NoOutcome
  <2>3. [text |-> "none", visible |-> FALSE] \in [text : Messages, visible : BOOLEAN]
    BY DEF Messages
  <2>4. EditorTypeOK
    <3>1. /\ config \in Valid /\ booting \in BOOLEAN
          /\ open \subseteq Clients /\ done \subseteq open
          /\ waiting \subseteq Pages \X Conns
      BY Connections DEF EditorInit
    <3>2. /\ req \in [Clients -> [post : BOOLEAN, body : Bodies \cup {Nobody}]]
          /\ outcome \in [Clients -> [status : Statuses \cup {"none"},
                                      config : Bodies \cup {Nobody}]]
      BY <2>1, <2>2 DEF EditorInit
    <3>3. visible \in [Pages -> BOOLEAN] /\ modal \in [Pages -> BOOLEAN]
      BY DEF EditorInit
    <3>4. /\ text \in [Pages -> Texts]
          /\ saves \in [Pages -> Nat] /\ timers \in [Pages -> Nat]
      BY DEF EditorInit, Texts
    <3>5. message \in [Pages -> [text : Messages, visible : BOOLEAN]]
      BY <2>3, Zenon DEF EditorInit
    <3> QED
      BY <3>1, <3>2, <3>3, <3>4, <3>5 DEF EditorTypeOK
  <2>5. \A c \in Clients : ~req[c].post /\ outcome[c].status = "none"
    BY <2>1, <2>2 DEF EditorInit
  <2>6. \A p \in Pages : message[p].text = "none"
    BY DEF EditorInit
  <2>7. AnswersKnown /\ SavesApplied
    BY <2>5 DEF EditorInit, AnswersKnown, SavesApplied, Posted
  <2>8. SavesKnown
    BY <2>5, Connections DEF EditorInit, SavesKnown
  <2>9. SoleSaverShown
    BY <2>6 DEF SoleSaverShown
  <2> QED
    BY <2>4, <2>7, <2>8, <2>9 DEF EditorInv
<1>2. EditorInv /\ [EditorNext]_editorVars => EditorInv'
  BY TypeStep, AnswersStep, SavesStep, AppliedStep, ShownStep DEF EditorInv
<1> QED
  BY <1>1, <1>2, PTL DEF EditorSpec

(* If nobody else saves, what the page says is what the device holds.       *)
THEOREM SoleSaverAlwaysHolds == EditorSpec => []SoleSaverHolds
<1>1. EditorInv => SoleSaverHolds
  <2> SUFFICES ASSUME EditorInv, NEW p \in Pages, NEW k \in Conns,
                      message[p].text = "Saved!", waiting = {}, SoleSaver(<<p, k>>)
               PROVE  config \in {req[<<p, k>>].body, BuiltIn}
    BY DEF SoleSaverHolds, SoleSaver, Posted
  <2>1. outcome[<<p, k>>].status = "ok"
    BY DEF EditorInv, SoleSaverShown
  <2> QED
    BY <2>1 DEF EditorInv, SavesApplied, SoleSaver
<1> QED
  BY EditorInvAlways, <1>1, PTL

(* However many savers there are, the device holds what one of them posted  *)
(* last, or the built-in configuration, if all of them were told success.   *)
THEOREM SavesAlwaysHold == EditorSpec => []SavesHold
<1>1. EditorInv => SavesHold
  BY DEF EditorInv, SavesApplied, Posted, SavesHold
<1> QED
  BY EditorInvAlways, <1>1, PTL

(* "Saved!" is shown for a save of that page that the device has answered   *)
(* with success, and that posted a configuration.                          *)
THEOREM SavedAlwaysApplied == EditorSpec => SavedMeansApplied
<1> DEFINE Applied(p) == \E k \in Conns : /\ <<p, k>> \in waiting
                                         /\ outcome[<<p, k>>].status = "ok"
                                         /\ req[<<p, k>>].body \in Valid
<1>1. ASSUME EditorInv, [EditorNext]_editorVars, NEW p \in Pages,
             timers'[p] > timers[p], message'[p].text = "Saved!"
      PROVE  Applied(p)
  <2>0. EditorTypeOK /\ timers[p] \in Nat
    BY <1>1 DEF EditorInv, EditorTypeOK
  <2>1. timers' # timers
    BY <1>1, <2>0
  <2>2. ASSUME NEW q \in Pages, HideMessage(q) PROVE FALSE
    <3>1. timers' = [timers EXCEPT ![q] = @ - 1]
      BY <2>2 DEF HideMessage
    <3>2. CASE q = p
      BY <1>1, <2>0, <3>1, <3>2 DEF EditorTypeOK
    <3>3. CASE q # p
      BY <1>1, <2>0, <3>1, <3>3 DEF EditorTypeOK
    <3> QED
      BY <3>2, <3>3
  <2>3. ASSUME NEW q \in Pages, NEW m, ShowMessage(q, m) PROVE q = p /\ m = "Saved!"
    BY <1>1, <2>0, <2>3 DEF ShowMessage, EditorTypeOK
  <2>4. ASSUME NEW q \in Pages, SaveInvalid(q) PROVE FALSE
    <3>1. ShowMessage(q, "Invalid JSON")
      BY <2>4 DEF SaveInvalid
    <3>2. q = p
      BY <2>3, <3>1
    <3>3. message'[p].text = "Invalid JSON"
      BY <2>0, <3>1, <3>2 DEF ShowMessage, EditorTypeOK
    <3> QED
      BY <1>1, <3>3
  <2>5. ASSUME NEW q \in Pages, ConfirmSave(q) PROVE FALSE
    BY <2>1, <2>5 DEF ConfirmSave
  <2>6. ASSUME NEW q \in Pages, NEW k \in Conns, SaveAnswered(q, k) PROVE Applied(p)
    <3>1. PICK m \in SaveMessage(outcome[<<q, k>>].status) : ShowMessage(q, m)
      BY <2>6 DEF SaveAnswered
    <3>2. q = p /\ m = "Saved!"
      BY <2>3, <3>1
    <3>3. <<q, k>> \in waiting /\ outcome[<<q, k>>].status \in Statuses
          /\ req[<<q, k>>].post
      BY <1>1, <2>6 DEF SaveAnswered, EditorInv, SavesKnown
    <3>4. outcome[<<q, k>>].status = "ok"
      BY <3>1, <3>2, <3>3 DEF SaveMessage, Statuses
    <3>5. req[<<q, k>>].body \in Valid
      BY <1>1, <3>3, <3>4, Connections DEF EditorInv, AnswersKnown
    <3> QED
      BY <3>2, <3>3, <3>4, <3>5
  <2> QED
    BY <1>1, <2>1, <2>2, <2>4, <2>5, <2>6, EditorSteps
       DEF Quiet, Device, editorVars, pageVars
<1>2. EditorInv /\ [EditorNext]_editorVars =>
        [\A p \in Pages :
           timers'[p] > timers[p] /\ message'[p].text = "Saved!" =>
             \E k \in Conns : /\ <<p, k>> \in waiting
                              /\ outcome[<<p, k>>].status = "ok"
                              /\ req[<<p, k>>].body \in Valid]_editorVars
  BY <1>1
<1> QED
  BY EditorInvAlways, <1>2, PTL DEF EditorSpec, SavedMeansApplied
=============================================================================
