---------------------------- MODULE ControlPanel ----------------------------
(***************************************************************************)
(* The settings of the control panel (polder_research.web): consoles, the  *)
(* web servers of one workspace, answer requests in a thread each.  They   *)
(* save the configuration, whose revision the browser sends back; the key  *)
(* of the remote provider, kept outside of it; and they load the local     *)
(* model in a thread of their own.                                         *)
(*                                                                         *)
(* A text of the configuration is what is told apart: the provider, named  *)
(* twice, the permission to send to it, the name its key is kept under,    *)
(* whether all else is valid, and the final newline.  Its revision is a    *)
(* hash of the text, and stands for it.                                    *)
(***************************************************************************)
EXTENDS Calls

CONSTANTS Consoles,  \* processes that serve the panel
          Names,     \* environment variables a key can be named after
          Texts,     \* texts people write, the file's at first among them
          FirstText,
          NoText,
          MaxEdits   \* bound: edits of the file by hand

Providers == {"rules", "jev"}
Text == [provider : Providers, default : Providers, remote : BOOLEAN,
         keyName : Names, sound : BOOLEAN, newline : BOOLEAN]

ASSUME TextsAreTexts == Texts \subseteq Text /\ FirstText \in Texts /\ NoText \notin Text

VARIABLES config,    \* research.config.yaml
          revision,  \* per browser, the revision it sends with its next save
          keys,      \* names with a key in web-secrets.json
          download,  \* per console, the status of its model download
          loading,   \* per console, threads that load the model
          edits,     \* edits by hand so far
          seen,      \* history: per browser, the text it loaded or saved last
          wanted,    \* history: names a key was saved for, and not removed since
          crossed,   \* history: a save overlapped one of another console, or an edit
          blind,     \* history: a save replaced a text its browser had not seen
          unread,    \* history: the keys could not be read, and were taken for none
          stranded   \* history: per console, its thread could not be started

configVars == <<config, revision, edits, seen, crossed, blind>>
keyVars == <<keys, wanted, unread>>
loadVars == <<download, loading, stranded>>
panelVars == <<configVars, keyVars, loadVars>>

Finished(text) == [text EXCEPT !.newline = TRUE]

\* validate_config of the decision engine, then the panel's own rules.
Matches(text) == text.default = text.provider /\ (text.provider = "jev" => text.remote)
Valid(text) == Matches(text) /\ text.sound

Saving(p) == call[p].phase \in {"store", "reply"}

LoadConfig(p) ==
  /\ call[p] = Idle
  /\ revision' = [revision EXCEPT ![p] = config]
  /\ seen' = [seen EXCEPT ![p] = config]
  /\ UNCHANGED <<callVars, config, edits, crossed, blind, keyVars, loadVars>>

(***************************************************************************)
(* A save gives a whole text, or the basic settings, which are edited into *)
(* the file's text; a new provider is also written as the default one.     *)
(***************************************************************************)
Whole(text) == [whole |-> TRUE, text |-> text]
Basics(provider) == [whole |-> FALSE, provider |-> provider]
Applied(change, text) ==
  IF change.whole THEN change.text
  ELSE [text EXCEPT !.provider = change.provider, !.default = change.provider]

SaveConfig(p, c, change) ==
  /\ revision[p] # NoText
  /\ Enter(p, [phase |-> "compare", at |-> c, change |-> change, expected |-> revision[p]])
  /\ UNCHANGED panelVars

\* One lock per console, over comparison, write and reply.
\* Mutant: the comparison is made outside of the lock.
ComparedEarly(c) == TRUE
ConfigLockFree(c) == \A q \in Callers : Saving(q) => call[q].at # c

\* Refused if the file changed since, or the new text is not valid.
Compare(p) ==
  /\ call[p].phase = "compare" /\ ConfigLockFree(call[p].at)
  /\ LET text == Applied(call[p].change, config)
     IN  IF config = call[p].expected /\ Valid(text)
         THEN /\ Go(p, [phase |-> "store", at |-> call[p].at, whole |-> call[p].change.whole,
                        expected |-> config, text |-> text])
              /\ crossed' = (crossed \/ \E q \in Callers : Saving(q) /\ call[q].at # call[p].at)
         ELSE Go(p, Idle) /\ UNCHANGED crossed
  /\ UNCHANGED <<config, revision, edits, seen, blind, keyVars, loadVars>>

StoreConfig(p) ==
  /\ call[p].phase = "store"
  /\ config' = Finished(call[p].text)
  /\ blind' = (blind \/ Finished(config) # Finished(seen[p]))
  /\ Turn(p, "reply")
  /\ UNCHANGED <<revision, edits, seen, crossed, keyVars, loadVars>>

\* A whole text is read back; the basic settings answer with the text before its newline.
ReplyOf(p) == IF call[p].whole THEN config ELSE call[p].text

Reply(p) ==
  /\ call[p].phase = "reply"
  /\ revision' = [revision EXCEPT ![p] = ReplyOf(p)]
  /\ seen' = [seen EXCEPT ![p] = Finished(call[p].text)]
  /\ Go(p, Idle)
  /\ UNCHANGED <<config, edits, crossed, blind, keyVars, loadVars>>

EditByHand ==
  /\ edits < MaxEdits
  /\ \E text \in Texts \ {config} : config' = text
  /\ edits' = edits + 1
  /\ crossed' = (crossed \/ \E q \in Callers : Saving(q))
  /\ UNCHANGED <<callVars, revision, seen, blind, keyVars, loadVars>>

(***************************************************************************)
(* The key of the remote provider: the name is read from the configuration,*)
(* the saved keys are read and written under a lock of the workspace.      *)
(***************************************************************************)
SaveKey(p, c, given) ==
  /\ Enter(p, [phase |-> "key", at |-> c, name |-> config.keyName, given |-> given])
  /\ UNCHANGED panelVars

\* Mutant: the keys are read before the lock is taken.
ReadEarly == TRUE
KeyLockFree == \A q \in Callers : call[q].phase # "keys"

ReadKeys(p) ==
  /\ call[p].phase = "key" /\ KeyLockFree
  /\ \E read \in {keys, {}} :
       /\ Go(p, [phase |-> "keys", at |-> call[p].at, name |-> call[p].name,
                 given |-> call[p].given, read |-> read])
       /\ unread' = (unread \/ read # keys)
  /\ UNCHANGED <<configVars, keys, wanted, loadVars>>

With(names, name, given) == IF given THEN names \cup {name} ELSE names \ {name}

WriteKeys(p) ==
  /\ call[p].phase = "keys"
  /\ keys' = With(call[p].read, call[p].name, call[p].given)
  /\ wanted' = With(wanted, call[p].name, call[p].given)
  /\ Go(p, Idle)
  /\ UNCHANGED <<configVars, unread, loadVars>>

(***************************************************************************)
(* The model is downloaded and loaded by one thread at a time; the status  *)
(* is set before the thread is started, and by the thread when it ends.    *)
(***************************************************************************)
\* Mutant: a finished download is needed, not the end of the one under way.
Unfinished(c) == download[c] # "ready"
NoneUnderWay(c) == download[c] # "downloading"

StartDownload(p, c) ==
  /\ NoneUnderWay(c)
  /\ Enter(p, [phase |-> "spawn", at |-> c])
  /\ download' = [download EXCEPT ![c] = "downloading"]
  /\ UNCHANGED <<configVars, keyVars, loading, stranded>>

Spawn(p) ==
  /\ call[p].phase = "spawn"
  /\ loading' = [loading EXCEPT ![call[p].at] = @ + 1]
  /\ Go(p, Idle)
  /\ UNCHANGED <<configVars, keyVars, download, stranded>>

\* The system starts no more threads; nothing takes the status back.
SpawnFails(p) ==
  /\ call[p].phase = "spawn"
  /\ stranded' = [stranded EXCEPT ![call[p].at] = TRUE]
  /\ Go(p, Idle)
  /\ UNCHANGED <<configVars, keyVars, download, loading>>

EndDownload(c) ==
  /\ loading[c] > 0
  /\ loading' = [loading EXCEPT ![c] = @ - 1]
  /\ \E status \in {"ready", "failed"} : download' = [download EXCEPT ![c] = status]
  /\ UNCHANGED <<callVars, configVars, keyVars, stranded>>

\* A console is stopped and started again: its requests and its thread are gone.
OfConsole(p, c) ==
  call[p].phase \in {"compare", "store", "reply", "key", "keys", "spawn"} /\ call[p].at = c
Restart(c) ==
  /\ (\E p \in Callers : OfConsole(p, c)) \/ download[c] # "idle"
  /\ call' = [p \in Callers |-> IF OfConsole(p, c) THEN Idle ELSE call[p]]
  /\ download' = [download EXCEPT ![c] = "idle"]
  /\ loading' = [loading EXCEPT ![c] = 0]
  /\ stranded' = [stranded EXCEPT ![c] = FALSE]
  /\ UNCHANGED <<calls, overlapped, configVars, keyVars>>

PanelInit ==
  /\ config = FirstText /\ edits = 0
  /\ revision = [p \in Callers |-> NoText] /\ seen = [p \in Callers |-> NoText]
  /\ keys = {} /\ wanted = {}
  /\ download = [c \in Consoles |-> "idle"] /\ loading = [c \in Consoles |-> 0]
  /\ crossed = FALSE /\ blind = FALSE /\ unread = FALSE
  /\ stranded = [c \in Consoles |-> FALSE]

Request(p, c) ==
  \/ \E text \in Texts : SaveConfig(p, c, Whole(text))
  \/ \E provider \in Providers : SaveConfig(p, c, Basics(provider))
  \/ \E given \in BOOLEAN : SaveKey(p, c, given)
  \/ StartDownload(p, c)

Panel ==
  \/ \E p \in Callers : \/ LoadConfig(p) \/ Compare(p) \/ StoreConfig(p) \/ Reply(p)
                        \/ ReadKeys(p) \/ WriteKeys(p) \/ Spawn(p) \/ SpawnFails(p)
                        \/ \E c \in Consoles : Request(p, c)
  \/ \E c \in Consoles : EndDownload(c) \/ Restart(c)
  \/ EditByHand

(***************************************************************************)
(* Browsers of one console never overwrite a text they have not seen, not  *)
(* even when requests are refused or lost and consoles restart in between; *)
(* the revision check fails only across consoles and against the editor.   *)
(***************************************************************************)
SavesReplaceWhatWasSeen == blind => crossed

(***************************************************************************)
(* web/__init__.py:126 refuses a save with "Configuration changed since it *)
(* was loaded. Reload before saving."  So one whose browser loaded or saved*)
(* the file's text last, on its own, is not refused: it sends the file's   *)
(* revision.  (A browser whose reply was lost has to load.)                *)
(***************************************************************************)
RepliesAreCurrent ==
  \A p \in Callers : call[p] = Idle /\ seen[p] = config /\ ~crossed => revision[p] = config

(***************************************************************************)
(* As long as the keys could be read, saves and removals by threads and    *)
(* consoles at once never undo one another, and a restart undoes none.     *)
(***************************************************************************)
SavedKeysStay == unread \/ keys = wanted

(***************************************************************************)
(* A console shows a download exactly while one thread runs it or is about *)
(* to be started, and no second one begins -- but for a thread that could  *)
(* not be started, whose download is shown, and refuses others, until the  *)
(* console is restarted.                                                   *)
(***************************************************************************)
OneModelLoads ==
  \A c \in Consoles :
    LET begun == {p \in Callers : call[p].phase = "spawn" /\ call[p].at = c}
    IN  /\ stranded[c] => download[c] = "downloading"
        /\ IF download[c] = "downloading" /\ ~stranded[c]
           THEN \/ loading[c] = 1 /\ begun = {}
                \/ loading[c] = 0 /\ \E p \in Callers : begun = {p}
           ELSE loading[c] = 0 /\ begun = {}
=============================================================================
