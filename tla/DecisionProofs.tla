--------------------------- MODULE DecisionProofs ---------------------------
(***************************************************************************)
(* Proofs about Decisions: workflows, reviews of classifications, settings *)
(* of the console and handoffs, for any number of callers, consoles,       *)
(* requests, texts and handoffs, interleaved as they like.                 *)
(*                                                                         *)
(* Each part has an invariant of its own records and of the calls in its   *)
(* phases.  The steps of the other parts leave both alone (Elsewhere), so  *)
(* each invariant is proved against the steps of its own part.             *)
(***************************************************************************)
EXTENDS Decisions, FiniteSetTheorems, TLAPS

EnginePhases == {"prior", "ask", "result"}
ReviewPhases == {"rebuild", "view", "conflicts", "review"}
ConfigPhases == {"compare", "store", "reply"}
KeyPhases == {"key", "keys"}
LoadPhases == {"spawn"}
PanelPhases == ConfigPhases \cup KeyPhases \cup LoadPhases
HandoffPhases == {"handoff"}

CallsOK == /\ DOMAIN call = Callers
           /\ \A p \in Callers : "phase" \in DOMAIN call[p]
           /\ overlapped \in BOOLEAN

\* Calls overlap as soon as two are under way.
OneCall == ~overlapped => \A p, q \in Callers : call[p] # Idle /\ call[q] # Idle => p = q

CallsInv == CallsOK /\ OneCall

\* p's call goes on in these phases, or is begun, or ends.
Step(p, phases) ==
  /\ CallsOK'
  /\ call[p].phase \in phases \cup {"idle"} /\ call'[p].phase \in phases \cup {"idle"}
  /\ \A q \in Callers : q # p => call'[q] = call[q]
  /\ \/ overlapped' = overlapped /\ (call[p] # Idle \/ call'[p] = Idle)
     \/ overlapped' = (overlapped \/ ~AllIdle)

\* No call comes to these phases or moves in them; it may be lost there, or not even that.
Elsewhere(phases) ==
  /\ \A p \in Callers : call'[p].phase \in phases => call'[p] = call[p]
  /\ overlapped => overlapped'
Kept(phases) == \A p \in Callers : call[p].phase \in phases => call'[p] = call[p]

-----------------------------------------------------------------------------
(***************************************************************************)
(* Calls.                                                                  *)
(***************************************************************************)
LEMMA Entered ==
  ASSUME CallsOK, NEW p \in Callers, NEW step, Enter(p, step), "phase" \in DOMAIN step,
         NEW phases, step.phase \in phases \cup {"idle"}
  PROVE  Step(p, phases) /\ call'[p] = step
<1>1. call' = [call EXCEPT ![p] = step] /\ overlapped' = (overlapped \/ ~AllIdle) /\ call[p] = Idle
  BY DEF Enter
<1>2. CallsOK'
  BY <1>1 DEF CallsOK
<1>3. call'[p] = step /\ \A q \in Callers : q # p => call'[q] = call[q]
  BY <1>1 DEF CallsOK
<1>4. call[p].phase = "idle"
  BY <1>1 DEF Idle
<1> QED  BY <1>1, <1>2, <1>3, <1>4 DEF Step

LEMMA Gone ==
  ASSUME CallsOK, NEW p \in Callers, NEW step, Go(p, step), "phase" \in DOMAIN step,
         call[p] # Idle,
         NEW phases, step.phase \in phases \cup {"idle"}, call[p].phase \in phases \cup {"idle"}
  PROVE  Step(p, phases) /\ call'[p] = step
<1>1. call' = [call EXCEPT ![p] = step] /\ overlapped' = overlapped
  BY DEF Go
<1>2. CallsOK'
  BY <1>1 DEF CallsOK
<1>3. call'[p] = step /\ \A q \in Callers : q # p => call'[q] = call[q]
  BY <1>1 DEF CallsOK
<1> QED  BY <1>1, <1>2, <1>3 DEF Step

LEMMA NowAt ==
  ASSUME CallsOK, NEW p \in Callers, NEW step, Enter(p, step) \/ Go(p, step)
  PROVE  call'[p] = step
BY DEF Enter, Go, CallsOK

LEMMA CallsStart == CallsInit => CallsInv
<1> SUFFICES ASSUME CallsInit PROVE CallsInv
  OBVIOUS
<1>1. call = [p \in Callers |-> Idle] /\ overlapped = FALSE
  BY DEF CallsInit
<1>2. CallsOK
  BY <1>1 DEF CallsOK, Idle
<1>3. OneCall
  BY <1>1 DEF OneCall
<1> QED  BY <1>2, <1>3 DEF CallsInv

LEMMA CallsStep == ASSUME CallsInv, NEW p \in Callers, NEW phases, Step(p, phases) PROVE CallsInv'
<1>1. CASE overlapped' = overlapped /\ (call[p] # Idle \/ call'[p] = Idle)
  BY <1>1 DEF CallsInv, OneCall, Step
<1>2. CASE overlapped' = (overlapped \/ ~AllIdle)
  BY <1>2 DEF CallsInv, OneCall, Step, AllIdle
<1> QED  BY <1>1, <1>2 DEF Step

LEMMA StepsApart ==
  ASSUME CallsOK, NEW p \in Callers, NEW phases, Step(p, phases),
         NEW others, others \cap phases = {}, "idle" \notin others
  PROVE  Elsewhere(others) /\ Kept(others)
BY DEF Step, Elsewhere, Kept, CallsOK

-----------------------------------------------------------------------------
(***************************************************************************)
(* Every step of a part is a step of one call in phases of the part.       *)
(***************************************************************************)
LEMMA EngineSteps == ASSUME CallsOK, NEW p \in Callers, Decide(p) PROVE Step(p, EnginePhases)
<1>1. ASSUME NEW r \in Requests, RunDecision(p, r) PROVE Step(p, EnginePhases)
  <2>1. Enter(p, [phase |-> "prior", request |-> r, prior |-> Prior(r), wrote |-> 0])
    BY <1>1 DEF RunDecision
  <2> QED  BY <2>1, Entered DEF EnginePhases
<1>2. CASE ReuseOrAsk(p)
  <2>1. CASE Go(p, Idle)
    BY <1>2, <2>1, Gone DEF ReuseOrAsk, EnginePhases, Idle
  <2>2. CASE Turn(p, "ask")
    <3>1. [call[p] EXCEPT !.phase = "ask"].phase = "ask"
          /\ "phase" \in DOMAIN [call[p] EXCEPT !.phase = "ask"]
      BY DEF CallsOK
    <3> QED  BY <1>2, <2>2, <3>1, Gone DEF ReuseOrAsk, EnginePhases, Idle, Turn
  <2> QED  BY <1>2, <2>1, <2>2 DEF ReuseOrAsk
<1>3. CASE WriteAttempt(p)
  <2> DEFINE next == [call[p] EXCEPT !.phase = "result", !.wrote = Len(attempts) + 1]
  <2>1. next.phase = "result" /\ "phase" \in DOMAIN next
    BY DEF CallsOK
  <2>2. Go(p, next) /\ call[p].phase = "ask"
    BY <1>3 DEF WriteAttempt
  <2> HIDE DEF next
  <2> QED  BY <2>1, <2>2, Gone DEF EnginePhases, Idle
<1>4. CASE WriteResult(p)
  BY <1>4, Gone DEF WriteResult, EnginePhases, Idle
<1> QED  BY <1>1, <1>2, <1>3, <1>4 DEF Decide

LEMMA HandoffSteps == ASSUME CallsOK, NEW p \in Callers, HandOff(p) PROVE Step(p, HandoffPhases)
<1>1. CASE WriteHandoff(p)
  BY <1>1, Entered DEF WriteHandoff, HandoffPhases, Idle
<1>2. CASE WriteAnswer(p)
  BY <1>2, Gone DEF WriteAnswer, HandoffPhases, Idle
<1>3. ASSUME NEW n \in DOMAIN handoffs, NEW answer \in {"accepted", "rejected"},
             AnswerHandoff(p, n, answer)
      PROVE  Step(p, HandoffPhases)
  <2>1. Enter(p, [phase |-> "handoff", on |-> n, answer |-> answer, record |-> handoffs[n]])
    BY <1>3 DEF AnswerHandoff
  <2> QED  BY <2>1, Entered DEF HandoffPhases
<1> QED  BY <1>1, <1>2, <1>3 DEF HandOff

LEMMA ReviewSteps == ASSUME CallsOK, NEW p \in Callers, Review(p) PROVE Step(p, ReviewPhases)
<1>1. CASE WriteClassification(p)
  <2>1. CASE Enter(p, [phase |-> "rebuild"])
    BY <2>1, Entered DEF ReviewPhases
  <2>2. CASE call[p] = [phase |-> "rebuild"] /\ Go(p, [phase |-> "rebuild"])
    BY <2>2, Gone DEF ReviewPhases, Idle
  <2> QED  BY <1>1, <2>1, <2>2 DEF WriteClassification
<1>2. ASSUME NEW n \in DOMAIN classifications, NEW fields \in SUBSET Fields, NEW s,
             RecordReview(p, n, fields, s)
      PROVE  Step(p, ReviewPhases)
  <2>1. Enter(p, [phase |-> "conflicts", on |-> n, fields |-> fields, supersedes |-> s, id |-> 0])
    BY <1>2 DEF RecordReview
  <2> QED  BY <2>1, Entered DEF ReviewPhases
<1>3. CASE CheckConflicts(p)
  <2>1. CASE Go(p, Idle)
    BY <1>3, <2>1, Gone DEF CheckConflicts, ReviewPhases, Idle
  <2> DEFINE next == [call[p] EXCEPT !.phase = "review", !.id = 1 + Max(Minted \cup {0})]
  <2>2. CASE Go(p, next)
    <3>1. next.phase = "review" /\ "phase" \in DOMAIN next
      BY DEF CallsOK
    <3> HIDE DEF next
    <3> QED  BY <1>3, <2>2, <3>1, Gone DEF CheckConflicts, ReviewPhases, Idle
  <2> QED  BY <1>3, <2>1, <2>2 DEF CheckConflicts
<1>4. CASE WriteReview(p)
  BY <1>4, Gone DEF WriteReview, ReviewPhases, Idle
<1>5. CASE ReadRecords(p)
  <2>1. Go(p, [phase |-> "view", view |-> BuildView]) /\ call[p].phase = "rebuild"
    BY <1>5 DEF ReadRecords
  <2> QED  BY <2>1, Gone DEF ReviewPhases, Idle
<1>6. CASE WriteView(p)
  BY <1>6, Gone DEF WriteView, ReviewPhases, Idle
<1> QED  BY <1>1, <1>2, <1>3, <1>4, <1>5, <1>6 DEF Review

\* The steps of a caller at the panel.
Changes == {Whole(text) : text \in Texts} \cup {Basics(provider) : provider \in Providers}
Configure(p) == \/ LoadConfig(p) \/ Compare(p) \/ StoreConfig(p) \/ Reply(p)
                \/ \E c \in Consoles, change \in Changes : SaveConfig(p, c, change)
KeepKey(p) == \/ ReadKeys(p) \/ WriteKeys(p)
              \/ \E c \in Consoles, g \in BOOLEAN : SaveKey(p, c, g)
LoadModel(p) == Spawn(p) \/ SpawnFails(p) \/ \E c \in Consoles : StartDownload(p, c)

LEMMA TurnStep ==
  ASSUME CallsOK, NEW p \in Callers, NEW phase, Turn(p, phase), NEW phases, phase \in phases,
         call[p].phase \in phases, "idle" \notin phases
  PROVE  Step(p, phases) /\ call'[p] = [call[p] EXCEPT !.phase = phase]
<1> DEFINE next == [call[p] EXCEPT !.phase = phase]
<1>1. next.phase = phase /\ "phase" \in DOMAIN next
  BY DEF CallsOK
<1>2. Go(p, next) /\ call[p] # Idle
  BY DEF Turn, Idle
<1> HIDE DEF next
<1>3. Step(p, phases) /\ call'[p] = next
  BY <1>1, <1>2, Gone
<1> QED  BY <1>3 DEF next

LEMMA ConfigSteps == ASSUME CallsOK, NEW p \in Callers, Configure(p) PROVE Step(p, ConfigPhases)
<1>1. CASE LoadConfig(p)
  BY <1>1 DEF LoadConfig, callVars, Step, Idle, CallsOK
<1>2. CASE Compare(p)
  <2> DEFINE text == Applied(call[p].change, config)
             next == [phase |-> "store", at |-> call[p].at, whole |-> call[p].change.whole,
                      expected |-> config, text |-> text]
  <2>1. call[p].phase = "compare" /\ (Go(p, next) \/ Go(p, Idle))
    BY <1>2 DEF Compare
  <2>2. next.phase = "store" /\ "phase" \in DOMAIN next
    OBVIOUS
  <2> HIDE DEF next
  <2>3. CASE Go(p, next)
    BY <2>1, <2>2, <2>3, Gone DEF ConfigPhases, Idle
  <2>4. CASE Go(p, Idle)
    BY <2>1, <2>4, Gone DEF ConfigPhases, Idle
  <2> QED  BY <2>1, <2>3, <2>4
<1>3. CASE StoreConfig(p)
  BY <1>3, TurnStep DEF StoreConfig, ConfigPhases
<1>4. CASE Reply(p)
  BY <1>4, Gone DEF Reply, ConfigPhases, Idle
<1>5. ASSUME NEW c \in Consoles, NEW change, SaveConfig(p, c, change) PROVE Step(p, ConfigPhases)
  <2>1. Enter(p, [phase |-> "compare", at |-> c, change |-> change, expected |-> revision[p]])
    BY <1>5 DEF SaveConfig
  <2> QED  BY <2>1, Entered DEF ConfigPhases
<1> QED  BY <1>1, <1>2, <1>3, <1>4, <1>5 DEF Configure

LEMMA KeySteps == ASSUME CallsOK, NEW p \in Callers, KeepKey(p) PROVE Step(p, KeyPhases)
<1>1. CASE ReadKeys(p)
  <2>1. PICK read : Go(p, [phase |-> "keys", at |-> call[p].at, name |-> call[p].name,
                           given |-> call[p].given, read |-> read])
    BY <1>1 DEF ReadKeys
  <2> QED  BY <1>1, <2>1, Gone DEF ReadKeys, KeyPhases, Idle
<1>2. CASE WriteKeys(p)
  BY <1>2, Gone DEF WriteKeys, KeyPhases, Idle
<1>3. ASSUME NEW c \in Consoles, NEW g \in BOOLEAN, SaveKey(p, c, g) PROVE Step(p, KeyPhases)
  <2>1. Enter(p, [phase |-> "key", at |-> c, name |-> config.keyName, given |-> g])
    BY <1>3 DEF SaveKey
  <2> QED  BY <2>1, Entered DEF KeyPhases
<1> QED  BY <1>1, <1>2, <1>3 DEF KeepKey

LEMMA LoadSteps == ASSUME CallsOK, NEW p \in Callers, LoadModel(p) PROVE Step(p, LoadPhases)
<1>1. CASE Spawn(p) \/ SpawnFails(p)
  BY <1>1, Gone DEF Spawn, SpawnFails, LoadPhases, Idle
<1>2. ASSUME NEW c \in Consoles, StartDownload(p, c) PROVE Step(p, LoadPhases)
  <2>1. Enter(p, [phase |-> "spawn", at |-> c])
    BY <1>2 DEF StartDownload
  <2> QED  BY <2>1, Entered DEF LoadPhases
<1> QED  BY <1>1, <1>2 DEF LoadModel

\* A restart loses the requests of a console.
LEMMA RestartLoses ==
  ASSUME CallsInv, NEW c \in Consoles, Restart(c)
  PROVE  /\ CallsInv' /\ overlapped' = overlapped
         /\ \A p \in Callers : call'[p] = IF OfConsole(p, c) THEN Idle ELSE call[p]
         /\ \A p \in Callers : OfConsole(p, c) => call[p].phase \in PanelPhases
<1>1. call' = [p \in Callers |-> IF OfConsole(p, c) THEN Idle ELSE call[p]]
      /\ overlapped' = overlapped
  BY DEF Restart
<1>2. \A p \in Callers : call'[p] = IF OfConsole(p, c) THEN Idle ELSE call[p]
  BY <1>1
<1>3. CallsOK'
  BY <1>1 DEF CallsInv, CallsOK, Idle
<1>4. OneCall'
  BY <1>1, <1>2 DEF CallsInv, OneCall
<1>5. \A p \in Callers : OfConsole(p, c) => call[p].phase \in PanelPhases
  BY DEF OfConsole, PanelPhases, ConfigPhases, KeyPhases, LoadPhases
<1> QED  BY <1>1, <1>2, <1>3, <1>4, <1>5 DEF CallsInv

\* Threads are started for consoles there are.
ConsolesKnown == \A p \in Callers : call[p].phase = "spawn" => call[p].at \in Consoles

EngineMoves == \E p \in Callers : Decide(p) /\ Step(p, EnginePhases)
ReviewMoves == \E p \in Callers : Review(p) /\ Step(p, ReviewPhases)
HandoffMoves == \E p \in Callers : HandOff(p) /\ Step(p, HandoffPhases)
ConfigMoves == \/ \E p \in Callers : Configure(p) /\ Step(p, ConfigPhases)
               \/ EditByHand
KeyMoves == \E p \in Callers : KeepKey(p) /\ Step(p, KeyPhases)
LoadMoves == \/ \E p \in Callers : LoadModel(p) /\ Step(p, LoadPhases)
             \/ \E c \in Consoles : EndDownload(c) \/ Restart(c)

\* Who dies before the view is written is noticed.
Noticed == /\ interrupted => interrupted'
           /\ \A p \in Callers : call[p].phase \in {"rebuild", "view"} => call'[p] = call[p] \/ interrupted'

\* Each part moves, or its records and its calls stay what they are.
Moves ==
  /\ CallsInv'
  /\ (EngineMoves \/ (UNCHANGED engineVars /\ Elsewhere(EnginePhases)))
  /\ (ReviewMoves \/ (UNCHANGED <<classifications, reviews, view>> /\ Elsewhere(ReviewPhases) /\ Noticed))
  /\ (HandoffMoves \/ (UNCHANGED handoffVars /\ Elsewhere(HandoffPhases)))
  /\ (ConfigMoves \/ (UNCHANGED configVars /\ Elsewhere(ConfigPhases)))
  /\ (KeyMoves \/ (UNCHANGED keyVars /\ Elsewhere(KeyPhases)))
  /\ (LoadMoves \/ (UNCHANGED loadVars /\ Elsewhere(LoadPhases) /\ Kept(LoadPhases)))

\* While one call moves in its phases, those of the other parts stay.
OthersStay(phases) ==
  \A others \in {EnginePhases, ReviewPhases, HandoffPhases, ConfigPhases, KeyPhases, LoadPhases} :
    others = phases \/ (Elsewhere(others) /\ Kept(others))

LEMMA OnePartSteps ==
  ASSUME CallsInv, NEW p \in Callers,
         NEW phases \in {EnginePhases, ReviewPhases, HandoffPhases, ConfigPhases, KeyPhases, LoadPhases},
         Step(p, phases)
  PROVE  CallsInv' /\ OthersStay(phases)
<1>1. CallsInv'
  BY CallsStep
<1>2. ASSUME NEW others \in {EnginePhases, ReviewPhases, HandoffPhases, ConfigPhases, KeyPhases, LoadPhases},
             others # phases
      PROVE  others \cap phases = {} /\ "idle" \notin others
  BY <1>2 DEF EnginePhases, ReviewPhases, HandoffPhases, ConfigPhases, KeyPhases, LoadPhases
<1>3. OthersStay(phases)
  BY <1>2, StepsApart DEF OthersStay, CallsInv
<1> QED  BY <1>1, <1>3

LEMMA NothingToNotice == ASSUME Kept(ReviewPhases), interrupted' = interrupted PROVE Noticed
BY DEF Kept, ReviewPhases, Noticed

LEMMA EveryStepMoves == ASSUME CallsInv, ConsolesKnown, [Next]_vars PROVE Moves
<1>1. CallsOK
  BY DEF CallsInv
<1>2. /\ EnginePhases # ReviewPhases /\ EnginePhases # HandoffPhases /\ EnginePhases # ConfigPhases
      /\ EnginePhases # KeyPhases /\ EnginePhases # LoadPhases /\ ReviewPhases # HandoffPhases
      /\ ReviewPhases # ConfigPhases /\ ReviewPhases # KeyPhases /\ ReviewPhases # LoadPhases
      /\ HandoffPhases # ConfigPhases /\ HandoffPhases # KeyPhases /\ HandoffPhases # LoadPhases
      /\ ConfigPhases # KeyPhases /\ ConfigPhases # LoadPhases /\ KeyPhases # LoadPhases
  <2>1. /\ "prior" \in EnginePhases /\ "view" \in ReviewPhases /\ "handoff" \in HandoffPhases
        /\ "store" \in ConfigPhases /\ "keys" \in KeyPhases
    BY DEF EnginePhases, ReviewPhases, HandoffPhases, ConfigPhases, KeyPhases
  <2>2. /\ "prior" \notin ReviewPhases \cup HandoffPhases \cup ConfigPhases \cup KeyPhases \cup LoadPhases
        /\ "view" \notin HandoffPhases \cup ConfigPhases \cup KeyPhases \cup LoadPhases
        /\ "handoff" \notin ConfigPhases \cup KeyPhases \cup LoadPhases
        /\ "store" \notin KeyPhases \cup LoadPhases /\ "keys" \notin LoadPhases
    BY DEF ReviewPhases, HandoffPhases, ConfigPhases, KeyPhases, LoadPhases
  <2> QED  BY <2>1, <2>2
<1>3. ASSUME NEW p \in Callers, Decide(p), UNCHANGED <<reviewVars, panelVars, handoffVars>>
      PROVE  Moves
  <2>1. Step(p, EnginePhases)
    BY <1>1, <1>3, EngineSteps
  <2>2. CallsInv' /\ OthersStay(EnginePhases)
    BY <2>1, OnePartSteps
  <2>3. Noticed
    BY <1>2, <1>3, <2>2, NothingToNotice DEF OthersStay, reviewVars
  <2> QED  BY <1>2, <1>3, <2>1, <2>2, <2>3 DEF Moves, EngineMoves, OthersStay, reviewVars, panelVars
<1>4. ASSUME NEW p \in Callers, Review(p), UNCHANGED <<engineVars, panelVars, handoffVars>>
      PROVE  Moves
  <2>1. Step(p, ReviewPhases)
    BY <1>1, <1>4, ReviewSteps
  <2>2. CallsInv' /\ OthersStay(ReviewPhases)
    BY <2>1, OnePartSteps
  <2> QED  BY <1>2, <1>4, <2>1, <2>2 DEF Moves, ReviewMoves, OthersStay, panelVars
<1>5. ASSUME NEW p \in Callers, HandOff(p), UNCHANGED <<engineVars, reviewVars, panelVars>>
      PROVE  Moves
  <2>1. Step(p, HandoffPhases)
    BY <1>1, <1>5, HandoffSteps
  <2>2. CallsInv' /\ OthersStay(HandoffPhases)
    BY <2>1, OnePartSteps
  <2>3. Noticed
    BY <1>2, <1>5, <2>2, NothingToNotice DEF OthersStay, reviewVars
  <2> QED  BY <1>2, <1>5, <2>1, <2>2, <2>3 DEF Moves, HandoffMoves, OthersStay, reviewVars, panelVars
<1>6. ASSUME NEW p \in Callers, Crash(p) PROVE Moves
  <2>1. Go(p, Idle) /\ call[p] # Idle
    BY <1>6 DEF Crash
  <2>2. Step(p, {call[p].phase}) /\ call'[p] = Idle
    BY <1>1, <2>1, Gone DEF Idle
  <2>3. CallsInv'
    BY <2>2, CallsStep
  <2>4. call[p].phase \notin LoadPhases
    BY <1>6 DEF Crash, OfConsole, ConsolesKnown, LoadPhases
  <2>5. ASSUME NEW phases, "idle" \notin phases
        PROVE  Elsewhere(phases) /\ (call[p].phase \notin phases => Kept(phases))
    BY <2>2, <2>5, <1>1 DEF Step, Elsewhere, Kept, Idle, CallsOK
  <2>6. /\ Elsewhere(EnginePhases) /\ Elsewhere(ReviewPhases) /\ Elsewhere(HandoffPhases)
        /\ Elsewhere(ConfigPhases) /\ Elsewhere(KeyPhases)
        /\ Elsewhere(LoadPhases) /\ Kept(LoadPhases)
    BY <2>4, <2>5 DEF EnginePhases, ReviewPhases, HandoffPhases, ConfigPhases, KeyPhases, LoadPhases
  <2>7. Noticed
    BY <1>6, <2>2 DEF Crash, Noticed, Step
  <2> QED  BY <1>6, <2>3, <2>6, <2>7 DEF Moves, Crash, panelVars
<1>7. ASSUME Panel, UNCHANGED <<engineVars, reviewVars, handoffVars>> PROVE Moves
  <2>1. ASSUME NEW p \in Callers, Configure(p) PROVE Moves
    <3>1. Step(p, ConfigPhases)
      BY <1>1, <2>1, ConfigSteps
    <3>2. CallsInv' /\ OthersStay(ConfigPhases)
      BY <3>1, OnePartSteps
    <3>3. UNCHANGED <<keyVars, loadVars>>
      BY <2>1 DEF Configure, LoadConfig, Compare, StoreConfig, Reply, SaveConfig, panelVars
    <3>4. Noticed
      BY <1>2, <1>7, <3>2, NothingToNotice DEF OthersStay, reviewVars
    <3> QED  BY <1>2, <1>7, <2>1, <3>1, <3>2, <3>3, <3>4 DEF Moves, ConfigMoves, OthersStay, reviewVars
  <2>2. ASSUME NEW p \in Callers, KeepKey(p) PROVE Moves
    <3>1. Step(p, KeyPhases)
      BY <1>1, <2>2, KeySteps
    <3>2. CallsInv' /\ OthersStay(KeyPhases)
      BY <3>1, OnePartSteps
    <3>3. UNCHANGED <<configVars, loadVars>>
      BY <2>2 DEF KeepKey, ReadKeys, WriteKeys, SaveKey, panelVars
    <3>4. Noticed
      BY <1>2, <1>7, <3>2, NothingToNotice DEF OthersStay, reviewVars
    <3> QED  BY <1>2, <1>7, <2>2, <3>1, <3>2, <3>3, <3>4 DEF Moves, KeyMoves, OthersStay, reviewVars
  <2>3. ASSUME NEW p \in Callers, LoadModel(p) PROVE Moves
    <3>1. Step(p, LoadPhases)
      BY <1>1, <2>3, LoadSteps
    <3>2. CallsInv' /\ OthersStay(LoadPhases)
      BY <3>1, OnePartSteps
    <3>3. UNCHANGED <<configVars, keyVars>>
      BY <2>3 DEF LoadModel, Spawn, SpawnFails, StartDownload
    <3>4. Noticed
      BY <1>2, <1>7, <3>2, NothingToNotice DEF OthersStay, reviewVars
    <3> QED  BY <1>2, <1>7, <2>3, <3>1, <3>2, <3>3, <3>4 DEF Moves, LoadMoves, OthersStay, reviewVars
  <2>4. ASSUME UNCHANGED callVars
        PROVE  /\ CallsInv' /\ Elsewhere(EnginePhases) /\ Elsewhere(ReviewPhases)
               /\ Elsewhere(HandoffPhases) /\ Elsewhere(ConfigPhases) /\ Elsewhere(KeyPhases)
               /\ Elsewhere(LoadPhases) /\ Kept(LoadPhases) /\ Noticed
    BY <1>7, <2>4 DEF callVars, reviewVars, CallsInv, CallsOK, OneCall, Elsewhere, Kept, Noticed
  <2>5. CASE EditByHand
    BY <1>7, <2>4, <2>5 DEF EditByHand, Moves, ConfigMoves, reviewVars
  <2>6. ASSUME NEW c \in Consoles, EndDownload(c) PROVE Moves
    BY <1>7, <2>4, <2>6 DEF EndDownload, Moves, LoadMoves, reviewVars
  <2>7. ASSUME NEW c \in Consoles, Restart(c) PROVE Moves
    <3>1. /\ CallsInv' /\ overlapped' = overlapped
          /\ \A p \in Callers : call'[p] = IF OfConsole(p, c) THEN Idle ELSE call[p]
      BY <2>7, RestartLoses
    <3>2. ASSUME NEW phases, "idle" \notin phases PROVE Elsewhere(phases)
      BY <3>1, <3>2 DEF Elsewhere, Idle
    <3>3. /\ Elsewhere(EnginePhases) /\ Elsewhere(ReviewPhases) /\ Elsewhere(HandoffPhases)
          /\ Elsewhere(ConfigPhases) /\ Elsewhere(KeyPhases)
      BY <3>2 DEF EnginePhases, ReviewPhases, HandoffPhases, ConfigPhases, KeyPhases
    <3>4. Noticed
      <4>1. \A p \in Callers : OfConsole(p, c) => call[p].phase \notin {"rebuild", "view"}
        BY <2>7, RestartLoses DEF PanelPhases, ConfigPhases, KeyPhases, LoadPhases
      <4> QED  BY <1>7, <3>1, <4>1 DEF Noticed, reviewVars
    <3> QED  BY <1>7, <2>7, <3>1, <3>3, <3>4 DEF Moves, LoadMoves, Restart, reviewVars
  <2>8. ASSUME NEW p \in Callers, NEW c \in Consoles, Request(p, c) PROVE Moves
    <3>1. ASSUME NEW change \in Changes, SaveConfig(p, c, change) PROVE Configure(p)
      BY <3>1 DEF Configure
    <3>4. (\A text \in Texts : Whole(text) \in Changes)
          /\ (\A provider \in Providers : Basics(provider) \in Changes)
      BY DEF Changes
    <3>2. ASSUME NEW g \in BOOLEAN, SaveKey(p, c, g) PROVE KeepKey(p)
      BY <3>2 DEF KeepKey
    <3>3. ASSUME StartDownload(p, c) PROVE LoadModel(p)
      BY <3>3 DEF LoadModel
    <3> QED  BY <2>1, <2>2, <2>3, <2>8, <3>1, <3>2, <3>3, <3>4 DEF Request
  <2>9. ASSUME NEW p \in Callers,
               \/ LoadConfig(p) \/ Compare(p) \/ StoreConfig(p) \/ Reply(p)
               \/ ReadKeys(p) \/ WriteKeys(p) \/ Spawn(p) \/ SpawnFails(p)
        PROVE  Moves
    <3>1. Configure(p) \/ KeepKey(p) \/ LoadModel(p)
      BY <2>9 DEF Configure, KeepKey, LoadModel
    <3> QED  BY <2>1, <2>2, <2>3, <3>1
  <2> QED  BY <1>7, <2>5, <2>6, <2>7, <2>8, <2>9 DEF Panel
<1>8. CASE UNCHANGED vars
  BY <1>8 DEF vars, callVars, reviewVars, panelVars, Moves, Elsewhere, Kept, CallsInv, OneCall, CallsOK, Noticed
<1> QED  BY <1>3, <1>4, <1>5, <1>6, <1>7, <1>8 DEF Next

-----------------------------------------------------------------------------
(***************************************************************************)
(* Handoffs.  An answer on its way was given to a handoff there is, and,   *)
(* without overlap, knows the handoff as it still is.                      *)
(***************************************************************************)
Answer == {"accepted", "rejected"}
Handoff == [status : {"open"} \cup Answer, traces : SUBSET Answer]

HandoffTypeOK == /\ handoffs \in Seq(Handoff) /\ given \in Seq(Seq(Answer))
                 /\ Len(handoffs) = Len(given)

AnswersUnderWay ==
  \A p \in Callers : call[p].phase = "handoff" =>
    /\ call[p].on \in DOMAIN handoffs /\ call[p].answer \in Answer /\ call[p].record \in Handoff
    /\ ~overlapped => call[p].record = handoffs[call[p].on]

HandoffInv == HandoffTypeOK /\ AnswersUnderWay /\ AnswersAreOnRecord

\* What is answered last comes first.
LEMMA AnsweredBefore ==
  ASSUME NEW a \in Answer, NEW s \in Seq(Answer)
  PROVE  LET t == <<a>> \o s
         IN  /\ t \in Seq(Answer) /\ t # <<>> /\ Head(t) = a
             /\ {t[i] : i \in DOMAIN t} = {a} \cup {s[i] : i \in DOMAIN s}
<1> DEFINE t == <<a>> \o s
<1>1. t \in Seq(Answer) /\ Len(t) = Len(s) + 1 /\ t[1] = a /\ \A i \in 1..Len(s) : t[i + 1] = s[i]
  OBVIOUS
<1>2. t # <<>> /\ Head(t) = a
  BY <1>1
<1> HIDE DEF t
<1>3. DOMAIN t = 1..(Len(s) + 1) /\ DOMAIN s = 1..Len(s) /\ Len(s) \in Nat
  BY <1>1
<1>4. ASSUME NEW i \in DOMAIN t PROVE t[i] \in {a} \cup {s[j] : j \in DOMAIN s}
  <2>1. CASE i = 1
    BY <2>1, <1>1
  <2>2. CASE i # 1
    <3>1. i - 1 \in 1..Len(s) /\ (i - 1) + 1 = i
      BY <1>3, <2>2
    <3>2. t[i] = s[i - 1]
      BY <1>1, <3>1
    <3> QED  BY <1>3, <3>1, <3>2
  <2> QED  BY <2>1, <2>2
<1>5. ASSUME NEW j \in DOMAIN s PROVE s[j] \in {t[i] : i \in DOMAIN t}
  <2>1. j + 1 \in DOMAIN t /\ t[j + 1] = s[j]
    BY <1>1, <1>3
  <2> QED  BY <2>1
<1>6. a \in {t[i] : i \in DOMAIN t}
  BY <1>1, <1>3
<1>7. {t[i] : i \in DOMAIN t} = {a} \cup {s[i] : i \in DOMAIN s}
  BY <1>4, <1>5, <1>6
<1> QED  BY <1>1, <1>2, <1>7 DEF t

LEMMA HandoffsStart == ASSUME CallsInit, HandoffInit PROVE HandoffInv
BY DEF CallsInit, HandoffInit, HandoffInv, HandoffTypeOK, AnswersUnderWay, AnswersAreOnRecord, Idle

LEMMA HandoffsElsewhere ==
  ASSUME HandoffInv, UNCHANGED handoffVars, Elsewhere(HandoffPhases)
  PROVE  HandoffInv'
<1>1. AnswersUnderWay'
  BY DEF HandoffInv, AnswersUnderWay, handoffVars, Elsewhere, HandoffPhases
<1>2. AnswersAreOnRecord'
  BY DEF HandoffInv, AnswersAreOnRecord, handoffVars, Elsewhere
<1> QED  BY <1>1, <1>2 DEF HandoffInv, HandoffTypeOK, handoffVars

LEMMA HandoffsMove == ASSUME CallsInv, HandoffInv, HandoffMoves, CallsInv' PROVE HandoffInv'
<1> PICK p \in Callers : HandOff(p) /\ Step(p, HandoffPhases)
  BY DEF HandoffMoves
<1> USE DEF HandoffInv
<1>0. overlapped => overlapped'
  BY DEF Step
<1>1. CASE WriteHandoff(p)
  <2> DEFINE opened == [status |-> "open", traces |-> {}]
  <2>1. /\ handoffs' = Append(handoffs, opened) /\ given' = Append(given, <<>>)
        /\ call'[p] = Idle /\ opened \in Handoff
    BY <1>1, Entered DEF WriteHandoff, Idle, CallsInv, Handoff
  <2>2. HandoffTypeOK'
    BY <2>1 DEF HandoffTypeOK
  <2>3. /\ DOMAIN handoffs = 1..Len(handoffs) /\ DOMAIN handoffs' = 1..(Len(handoffs) + 1)
        /\ \A n \in DOMAIN handoffs : handoffs'[n] = handoffs[n] /\ given'[n] = given[n]
        /\ handoffs'[Len(handoffs) + 1] = opened /\ given'[Len(handoffs) + 1] = <<>>
    BY <2>1 DEF HandoffTypeOK
  <2>4. AnswersUnderWay'
    BY <1>0, <2>1, <2>3 DEF AnswersUnderWay, Step, Idle
  <2>5. AnswersAreOnRecord'
    BY <1>0, <2>3 DEF AnswersAreOnRecord, HandoffTypeOK
  <2> QED  BY <2>2, <2>4, <2>5
<1>2. ASSUME NEW n \in DOMAIN handoffs, NEW answer \in Answer, AnswerHandoff(p, n, answer)
      PROVE  HandoffInv'
  <2>1. /\ call'[p] = [phase |-> "handoff", on |-> n, answer |-> answer, record |-> handoffs[n]]
        /\ UNCHANGED handoffVars
    BY <1>2, Entered DEF AnswerHandoff, CallsInv
  <2>2. AnswersUnderWay'
    BY <1>0, <2>1 DEF AnswersUnderWay, Step, handoffVars, HandoffTypeOK
  <2>3. AnswersAreOnRecord'
    BY <1>0, <2>1 DEF AnswersAreOnRecord, handoffVars
  <2> QED  BY <2>1, <2>2, <2>3 DEF HandoffTypeOK, handoffVars
<1>3. CASE WriteAnswer(p)
  <2> DEFINE n == call[p].on
             a == call[p].answer
             changed == WithAnswer(call[p].record, a)
             t == <<a>> \o given[n]
  <2>1. /\ handoffs' = [handoffs EXCEPT ![n] = changed] /\ given' = [given EXCEPT ![n] = t]
        /\ call'[p] = Idle /\ overlapped' = overlapped
    BY <1>3, Gone DEF WriteAnswer, Go, CallsInv, CallsOK
  <2>2. /\ n \in DOMAIN handoffs /\ a \in Answer /\ call[p].record \in Handoff
        /\ ~overlapped => call[p].record = handoffs[n]
    BY <1>3 DEF WriteAnswer, AnswersUnderWay
  <2>3. /\ changed.status = a /\ changed.traces = call[p].record.traces \cup {a}
        /\ changed \in Handoff
    BY <2>2 DEF WithAnswer, Handoff
  <2>4. given[n] \in Seq(Answer) /\ n \in DOMAIN given
    BY <2>2 DEF HandoffTypeOK
  <2>5. /\ t \in Seq(Answer) /\ t # <<>> /\ Head(t) = a
        /\ {t[i] : i \in DOMAIN t} = {a} \cup {given[n][i] : i \in DOMAIN given[n]}
    BY <2>2, <2>4, AnsweredBefore
  <2> HIDE DEF t, changed, n, a
  <2>6. HandoffTypeOK'
    BY <2>1, <2>2, <2>3, <2>4, <2>5 DEF HandoffTypeOK
  <2>7. DOMAIN handoffs' = DOMAIN handoffs /\ handoffs'[n] = changed /\ given'[n] = t
        /\ \A m \in DOMAIN handoffs : m # n => handoffs'[m] = handoffs[m] /\ given'[m] = given[m]
    BY <2>1, <2>2, <2>4 DEF HandoffTypeOK
  <2>8. AnswersUnderWay'
    <3> SUFFICES ASSUME NEW q \in Callers, call'[q].phase = "handoff"
                 PROVE  /\ call'[q].on \in DOMAIN handoffs' /\ call'[q].answer \in Answer
                        /\ call'[q].record \in Handoff
                        /\ ~overlapped' => call'[q].record = handoffs'[call'[q].on]
      BY DEF AnswersUnderWay
    <3>1. q # p /\ call'[q] = call[q]
      BY <2>1 DEF Step, Idle
    <3>2. overlapped
      BY <1>3, <3>1 DEF CallsInv, OneCall, WriteAnswer, Idle
    <3> QED  BY <2>1, <2>7, <3>1, <3>2 DEF AnswersUnderWay
  <2>9. AnswersAreOnRecord'
    <3>1. /\ given'[n] # <<>> /\ handoffs'[n].status = Head(given'[n])
          /\ Head(given'[n]) \in handoffs'[n].traces
      BY <2>3, <2>5, <2>7
    <3>2. ASSUME ~overlapped
          PROVE  handoffs'[n].traces = {given'[n][i] : i \in DOMAIN given'[n]}
      <4>1. handoffs[n].traces = {given[n][i] : i \in DOMAIN given[n]}
        <5>1. CASE given[n] = <<>>
          <6>1. handoffs[n].traces = {} /\ {given[n][i] : i \in DOMAIN given[n]} = {}
            BY <2>2, <5>1 DEF AnswersAreOnRecord
          <6> QED  BY <6>1
        <5>2. CASE given[n] # <<>>
          BY <2>2, <3>2, <5>2 DEF AnswersAreOnRecord
        <5> QED  BY <5>1, <5>2
      <4>2. handoffs'[n].traces = handoffs[n].traces \cup {a}
        BY <2>2, <2>3, <2>7, <3>2
      <4>3. {given'[n][i] : i \in DOMAIN given'[n]} = {a} \cup {given[n][i] : i \in DOMAIN given[n]}
        BY <2>5, <2>7
      <4> QED  BY <4>1, <4>2, <4>3
    <3> DEFINE Told(record, said, alone) ==
                 IF said = <<>> THEN record = [status |-> "open", traces |-> {}]
                 ELSE /\ record.status = Head(said) /\ Head(said) \in record.traces
                      /\ alone => record.traces = {said[i] : i \in DOMAIN said}
    <3>3. \A m \in DOMAIN handoffs : Told(handoffs[m], given[m], ~overlapped)
      BY DEF AnswersAreOnRecord
    <3>4. Told(handoffs'[n], given'[n], ~overlapped)
      BY <3>1, <3>2
    <3> HIDE DEF Told
    <3>5. \A m \in DOMAIN handoffs' : Told(handoffs'[m], given'[m], ~overlapped')
      BY <2>1, <2>7, <3>3, <3>4
    <3> QED  BY <3>5 DEF AnswersAreOnRecord, Told
  <2> QED  BY <2>6, <2>8, <2>9
<1> QED  BY <1>1, <1>2, <1>3 DEF HandOff, Answer
-----------------------------------------------------------------------------
(***************************************************************************)
(* Downloads of the model.                                                 *)
(***************************************************************************)
Begun(c) == {p \in Callers : call[p].phase = "spawn" /\ call[p].at = c}
LoadsOne(c) ==
  /\ stranded[c] => download[c] = "downloading"
  /\ IF download[c] = "downloading" /\ ~stranded[c]
     THEN \/ loading[c] = 1 /\ Begun(c) = {}
          \/ loading[c] = 0 /\ \E p \in Callers : Begun(c) = {p}
     ELSE loading[c] = 0 /\ Begun(c) = {}

LoadInv == /\ DOMAIN download = Consoles /\ DOMAIN loading = Consoles
           /\ stranded \in [Consoles -> BOOLEAN] /\ ConsolesKnown /\ \A c \in Consoles : LoadsOne(c)

LEMMA LoadsStart == ASSUME CallsInit, PanelInit PROVE LoadInv
<1>1. /\ call = [p \in Callers |-> Idle] /\ download = [c \in Consoles |-> "idle"]
      /\ loading = [c \in Consoles |-> 0] /\ stranded = [c \in Consoles |-> FALSE]
  BY DEF CallsInit, PanelInit
<1>2. ConsolesKnown
  BY <1>1 DEF ConsolesKnown, Idle
<1>3. \A c \in Consoles : LoadsOne(c)
  BY <1>1 DEF LoadsOne, Begun, Idle
<1> QED  BY <1>1, <1>2, <1>3 DEF LoadInv

LEMMA LoadsElsewhere ==
  ASSUME LoadInv, UNCHANGED loadVars, Elsewhere(LoadPhases), Kept(LoadPhases)
  PROVE  LoadInv'
<1>1. \A p \in Callers : call[p].phase = "spawn" \/ call'[p].phase = "spawn" => call'[p] = call[p]
  BY DEF Elsewhere, Kept, LoadPhases
<1>2. \A c \in Consoles : Begun(c)' = Begun(c)
  BY <1>1 DEF Begun
<1>3. ConsolesKnown'
  BY <1>1 DEF LoadInv, ConsolesKnown
<1>4. \A c \in Consoles : LoadsOne(c)'
  BY <1>2 DEF LoadInv, LoadsOne, loadVars
<1> QED  BY <1>3, <1>4 DEF LoadInv, loadVars

LEMMA LoadsMove == ASSUME CallsInv, LoadInv, LoadMoves, CallsInv' PROVE LoadInv'
<1> USE DEF LoadInv
<1>1. ASSUME NEW p \in Callers, NEW c \in Consoles, StartDownload(p, c), Step(p, LoadPhases)
      PROVE  LoadInv'
  <2>1. /\ call[p] = Idle /\ call'[p] = [phase |-> "spawn", at |-> c]
        /\ download' = [download EXCEPT ![c] = "downloading"] /\ loading' = loading
        /\ stranded' = stranded
    BY <1>1, NowAt DEF StartDownload, Enter, CallsInv
  <2>2. \A q \in Callers : q # p => call'[q] = call[q]
    BY <1>1 DEF Step
  <2>3. ConsolesKnown'
    BY <2>1, <2>2 DEF ConsolesKnown
  <2>4. loading[c] = 0 /\ Begun(c) = {} /\ ~stranded[c]
    BY <1>1 DEF LoadsOne, StartDownload, NoneUnderWay
  <2>5. Begun(c)' = {p}
    BY <2>1, <2>2, <2>4 DEF Begun
  <2>6. \A d \in Consoles : d # c => Begun(d)' = Begun(d)
    BY <2>1, <2>2 DEF Begun, Idle
  <2>7. LoadsOne(c)'
    BY <2>1, <2>4, <2>5 DEF LoadsOne
  <2>8. \A d \in Consoles : d # c => LoadsOne(d)'
    BY <2>1, <2>6 DEF LoadsOne
  <2> QED  BY <2>1, <2>3, <2>7, <2>8
<1>2. ASSUME NEW p \in Callers, Spawn(p) \/ SpawnFails(p), Step(p, LoadPhases) PROVE LoadInv'
  <2> PICK c \in Consoles : c = call[p].at
    BY <1>2 DEF Spawn, SpawnFails, ConsolesKnown
  <2>1. /\ call[p].phase = "spawn" /\ call'[p] = Idle /\ download' = download
        /\ \/ loading' = [loading EXCEPT ![c] = @ + 1] /\ stranded' = stranded
           \/ loading' = loading /\ stranded' = [stranded EXCEPT ![c] = TRUE]
    BY <1>2, NowAt DEF Spawn, SpawnFails, CallsInv
  <2>2. \A q \in Callers : q # p => call'[q] = call[q]
    BY <1>2 DEF Step
  <2>3. ConsolesKnown'
    BY <2>1, <2>2 DEF ConsolesKnown, Idle
  <2>4. p \in Begun(c)
    BY <2>1 DEF Begun
  <2>5. download[c] = "downloading" /\ ~stranded[c] /\ loading[c] = 0 /\ Begun(c) = {p}
    BY <2>1, <2>4 DEF LoadsOne
  <2>6. Begun(c)' = {}
    BY <2>1, <2>2, <2>5 DEF Begun, Idle
  <2>7. \A d \in Consoles : d # c => Begun(d)' = Begun(d)
    BY <2>1, <2>2 DEF Begun, Idle
  <2>8. LoadsOne(c)'
    BY <2>1, <2>5, <2>6 DEF LoadsOne
  <2>9. \A d \in Consoles : d # c => LoadsOne(d)'
    BY <2>1, <2>7 DEF LoadsOne
  <2>10. stranded' \in [Consoles -> BOOLEAN]
    BY <2>1
  <2> QED  BY <2>1, <2>3, <2>8, <2>9, <2>10
<1>3. ASSUME NEW c \in Consoles, EndDownload(c) PROVE LoadInv'
  <2>1. PICK status \in {"ready", "failed"} :
          /\ loading[c] > 0 /\ loading' = [loading EXCEPT ![c] = @ - 1]
          /\ download' = [download EXCEPT ![c] = status] /\ call' = call /\ stranded' = stranded
    BY <1>3 DEF EndDownload, callVars
  <2>2. loading[c] = 1 /\ Begun(c) = {} /\ ~stranded[c]
    BY <2>1 DEF LoadsOne
  <2>3. (\A d \in Consoles : Begun(d)' = Begun(d)) /\ ConsolesKnown'
    BY <2>1 DEF Begun, ConsolesKnown
  <2>4. LoadsOne(c)'
    BY <2>1, <2>2, <2>3 DEF LoadsOne
  <2>5. \A d \in Consoles : d # c => LoadsOne(d)'
    BY <2>1, <2>3 DEF LoadsOne
  <2> QED  BY <2>1, <2>3, <2>4, <2>5
<1>4. ASSUME NEW c \in Consoles, Restart(c) PROVE LoadInv'
  <2>1. /\ \A p \in Callers : call'[p] = IF OfConsole(p, c) THEN Idle ELSE call[p]
        /\ download' = [download EXCEPT ![c] = "idle"] /\ loading' = [loading EXCEPT ![c] = 0]
        /\ stranded' = [stranded EXCEPT ![c] = FALSE]
    BY <1>4, RestartLoses DEF Restart
  <2>2. \A p \in Callers : call[p].phase = "spawn" /\ call[p].at = c => OfConsole(p, c)
    BY DEF OfConsole
  <2>3. \A p \in Callers : OfConsole(p, c) => call[p].at = c
    BY DEF OfConsole
  <2>4. Begun(c)' = {}
    BY <2>1, <2>2 DEF Begun, Idle
  <2>5. \A d \in Consoles : d # c => Begun(d)' = Begun(d)
    BY <2>1, <2>3 DEF Begun, Idle
  <2>6. ConsolesKnown'
    BY <2>1 DEF ConsolesKnown, Idle
  <2>7. LoadsOne(c)'
    BY <2>1, <2>4 DEF LoadsOne
  <2>8. \A d \in Consoles : d # c => LoadsOne(d)'
    BY <2>1, <2>5 DEF LoadsOne
  <2> QED  BY <2>1, <2>6, <2>7, <2>8
<1> QED  BY <1>1, <1>2, <1>3, <1>4 DEF LoadMoves, LoadModel

-----------------------------------------------------------------------------
(***************************************************************************)
(* Saved keys.  The lock is held by one call, which knows the keys unless  *)
(* they could not be read.                                                 *)
(***************************************************************************)
KeyInv == /\ unread \in BOOLEAN
          /\ \A p, q \in Callers : call[p].phase = "keys" /\ call[q].phase = "keys" => p = q
          /\ ~unread => /\ keys = wanted
                        /\ \A p \in Callers : call[p].phase = "keys" => call[p].read = keys

LEMMA KeysStart == ASSUME CallsInit, PanelInit PROVE KeyInv
BY DEF CallsInit, PanelInit, KeyInv, Idle

LEMMA KeysElsewhere == ASSUME KeyInv, UNCHANGED keyVars, Elsewhere(KeyPhases) PROVE KeyInv'
<1>1. \A p \in Callers : call'[p].phase = "keys" => call'[p] = call[p]
  BY DEF Elsewhere, KeyPhases
<1> QED  BY <1>1 DEF KeyInv, keyVars

LEMMA KeysMove == ASSUME CallsInv, KeyInv, KeyMoves, CallsInv' PROVE KeyInv'
<1> PICK p \in Callers : KeepKey(p) /\ Step(p, KeyPhases)
  BY DEF KeyMoves
<1>0. \A q \in Callers : q # p => call'[q] = call[q]
  BY DEF Step
<1>1. CASE ReadKeys(p)
  <2>1. PICK read \in {keys, {}} :
          /\ Go(p, [phase |-> "keys", at |-> call[p].at, name |-> call[p].name,
                    given |-> call[p].given, read |-> read])
          /\ unread' = (unread \/ read # keys)
    BY <1>1 DEF ReadKeys
  <2>2. /\ call'[p].phase = "keys" /\ call'[p].read = read
        /\ call[p].phase = "key" /\ keys' = keys /\ wanted' = wanted
    BY <1>1, <2>1, NowAt DEF ReadKeys, CallsInv
  <2>3. \A q \in Callers : call[q].phase # "keys"
    BY <1>1 DEF ReadKeys, KeyLockFree
  <2>4. unread' \in BOOLEAN /\ (~unread' => ~unread /\ read = keys)
    BY <2>1 DEF KeyInv
  <2> QED  BY <1>0, <2>2, <2>3, <2>4 DEF KeyInv
<1>2. CASE WriteKeys(p)
  <2>1. /\ call[p].phase = "keys" /\ call'[p] = Idle /\ unread' = unread
        /\ keys' = With(call[p].read, call[p].name, call[p].given)
        /\ wanted' = With(wanted, call[p].name, call[p].given)
    BY <1>2, NowAt DEF WriteKeys, CallsInv
  <2>2. \A q \in Callers : call'[q].phase # "keys"
    BY <1>0, <2>1 DEF KeyInv, Idle
  <2> QED  BY <2>1, <2>2 DEF KeyInv
<1>3. ASSUME NEW c \in Consoles, NEW g \in BOOLEAN, SaveKey(p, c, g) PROVE KeyInv'
  <2>1. Enter(p, [phase |-> "key", at |-> c, name |-> config.keyName, given |-> g])
        /\ UNCHANGED keyVars
    BY <1>3 DEF SaveKey, panelVars
  <2>2. call'[p].phase = "key"
    BY <2>1, NowAt DEF CallsInv
  <2> QED  BY <1>0, <2>1, <2>2 DEF KeyInv, keyVars
<1> QED  BY <1>1, <1>2, <1>3 DEF KeepKey
-----------------------------------------------------------------------------
(***************************************************************************)
(* The configuration.  As long as no save overlapped one of another        *)
(* console or an edit, one call at a time saves; it was given the revision *)
(* of what its browser saw, up to the final newline.                       *)
(***************************************************************************)
ConfigTypeOK ==
  /\ config \in Text /\ crossed \in BOOLEAN /\ blind \in BOOLEAN
  /\ DOMAIN revision = Callers /\ DOMAIN seen = Callers
  /\ \A p \in Callers :
       /\ \/ revision[p] = NoText /\ seen[p] = NoText
          \/ revision[p] \in Text /\ seen[p] \in Text
       /\ call[p].phase = "compare" => call[p].change \in Changes /\ call[p].expected \in Text
       /\ call[p].phase \in {"store", "reply"} => call[p].text \in Text

\* What p's browser holds, and what its save relies on.
Informed(p) ==
  /\ revision[p] # NoText => Finished(revision[p]) = Finished(seen[p])
  /\ call[p].phase = "compare" => Finished(call[p].expected) = Finished(seen[p])
  /\ call[p].phase = "store" => Finished(config) = Finished(seen[p])
  /\ call[p].phase = "reply" => config = Finished(call[p].text)

ConfigInv ==
  /\ ConfigTypeOK
  /\ ~crossed => /\ ~blind
                 /\ \A p, q \in Callers : Saving(p) /\ Saving(q) => p = q
                 /\ \A p \in Callers : Informed(p)

LEMMA FinishedTexts ==
  ASSUME NEW t \in Text
  PROVE  /\ Finished(t) \in Text /\ Finished(t).newline
         /\ Finished(Finished(t)) = Finished(t)
         /\ t.newline => Finished(t) = t
<1>1. t = [provider |-> t.provider, default |-> t.default, remote |-> t.remote,
           keyName |-> t.keyName, sound |-> t.sound, newline |-> t.newline]
  BY DEF Text
<1> DEFINE Set(v) == [provider |-> t.provider, default |-> t.default, remote |-> t.remote,
                       keyName |-> t.keyName, sound |-> t.sound, newline |-> v]
<1>2. Finished(t) = Set(TRUE)
  <2>1. \A v : [t EXCEPT !.newline = v] = Set(v)
    BY <1>1
  <2> QED  BY <2>1 DEF Finished
<1>3. Finished(t) \in Text /\ Finished(t).newline = TRUE
  BY <1>2 DEF Text
<1>4. Finished(Finished(t)) = Finished(t)
  <2>1. \A v : [Set(v) EXCEPT !.newline = v] = Set(v)
    OBVIOUS
  <2>2. Finished(Set(TRUE)) = Set(TRUE)
    BY <2>1 DEF Finished
  <2> QED  BY <1>2, <2>2
<1>5. t.newline \in BOOLEAN
  BY DEF Text
<1> QED  BY <1>1, <1>2, <1>3, <1>4, <1>5

LEMMA AppliedTexts ==
  ASSUME NEW change \in Changes, NEW t \in Text PROVE Applied(change, t) \in Text
<1>1. CASE \E text \in Texts : change = Whole(text)
  BY <1>1, TextsAreTexts DEF Applied, Whole
<1>2. ASSUME NEW provider \in Providers, change = Basics(provider) PROVE Applied(change, t) \in Text
  <2>1. Applied(change, t) = [t EXCEPT !.provider = provider, !.default = provider]
    BY <1>2 DEF Applied, Basics
  <2>2. t = [provider |-> t.provider, default |-> t.default, remote |-> t.remote,
             keyName |-> t.keyName, sound |-> t.sound, newline |-> t.newline]
    BY DEF Text
  <2>3. Applied(change, t) = [provider |-> provider, default |-> provider, remote |-> t.remote,
                              keyName |-> t.keyName, sound |-> t.sound, newline |-> t.newline]
    BY <2>1, <2>2
  <2> QED  BY <2>3 DEF Text
<1> QED  BY <1>1, <1>2 DEF Changes

LEMMA ConfigStarts == ASSUME CallsInit, PanelInit PROVE ConfigInv
<1>1. /\ call = [p \in Callers |-> Idle] /\ config = FirstText /\ crossed = FALSE /\ blind = FALSE
      /\ revision = [p \in Callers |-> NoText] /\ seen = [p \in Callers |-> NoText]
  BY DEF CallsInit, PanelInit
<1>2. ConfigTypeOK
  BY <1>1, TextsAreTexts DEF ConfigTypeOK, Idle
<1> QED  BY <1>1, <1>2 DEF ConfigInv, Informed, Saving, Idle

LEMMA ConfigElsewhere ==
  ASSUME ConfigInv, UNCHANGED configVars, Elsewhere(ConfigPhases) PROVE ConfigInv'
<1>1. \A p \in Callers : call'[p].phase \in {"compare", "store", "reply"} => call'[p] = call[p]
  BY DEF Elsewhere, ConfigPhases
<1>2. ConfigTypeOK'
  BY <1>1 DEF ConfigInv, ConfigTypeOK, configVars
<1>3. \A p \in Callers : Saving(p)' => Saving(p)
  BY <1>1 DEF Saving
<1>4. ~crossed => \A p \in Callers : Informed(p)'
  BY <1>1 DEF ConfigInv, Informed, configVars
<1> QED  BY <1>2, <1>3, <1>4 DEF ConfigInv, configVars

LEMMA ConfigMoved == ASSUME CallsInv, ConfigInv, ConfigMoves, CallsInv' PROVE ConfigInv'
<1> USE DEF ConfigInv
<1> SUFFICES ASSUME NEW p \in Callers, Configure(p), Step(p, ConfigPhases) PROVE ConfigInv'
  <2>1. ASSUME EditByHand PROVE ConfigInv'
    <3>1. /\ config' \in Text /\ call' = call /\ UNCHANGED <<revision, seen, blind>>
          /\ crossed' = (crossed \/ \E q \in Callers : Saving(q))
      BY <2>1, TextsAreTexts DEF EditByHand, callVars
    <3>2. ConfigTypeOK'
      BY <3>1 DEF ConfigTypeOK
    <3>3. ASSUME ~crossed' PROVE ~crossed /\ \A q \in Callers : ~Saving(q)
      BY <3>1, <3>3 DEF ConfigTypeOK
    <3>4. ASSUME ~crossed', NEW q \in Callers PROVE Informed(q)' /\ ~Saving(q)'
      BY <3>1, <3>3, <3>4 DEF Informed, Saving
    <3> QED  BY <3>1, <3>2, <3>3, <3>4
  <2> QED  BY <2>1 DEF ConfigMoves
<1>0. \A q \in Callers : q # p => call'[q] = call[q]
  BY DEF Step
<1>1. CASE LoadConfig(p)
  <2>1. /\ call[p] = Idle /\ call' = call /\ UNCHANGED <<config, crossed, blind>>
        /\ revision' = [revision EXCEPT ![p] = config] /\ seen' = [seen EXCEPT ![p] = config]
    BY <1>1 DEF LoadConfig, callVars
  <2>2. ConfigTypeOK'
    BY <2>1 DEF ConfigTypeOK
  <2>3. ~crossed => Informed(p)'
    BY <2>1 DEF Informed, ConfigTypeOK, Idle
  <2>4. ~crossed => \A q \in Callers : q # p => Informed(q)'
    BY <2>1 DEF Informed, ConfigTypeOK
  <2> QED  BY <2>1, <2>2, <2>3, <2>4 DEF Saving
<1>2. ASSUME NEW c \in Consoles, NEW change \in Changes, SaveConfig(p, c, change) PROVE ConfigInv'
  <2> DEFINE next == [phase |-> "compare", at |-> c, change |-> change, expected |-> revision[p]]
  <2>1. /\ call'[p] = next /\ revision[p] # NoText /\ UNCHANGED configVars
    BY <1>2, NowAt DEF SaveConfig, CallsInv, panelVars
  <2>2. ConfigTypeOK'
    BY <1>0, <2>1 DEF ConfigTypeOK, configVars
  <2>3. ~crossed => Informed(p)'
    BY <2>1 DEF Informed, configVars
  <2>4. ~crossed => \A q \in Callers : q # p => Informed(q)'
    BY <1>0, <2>1 DEF Informed, configVars
  <2>5. \A q \in Callers : Saving(q)' => Saving(q)
    BY <1>0, <2>1 DEF Saving
  <2> QED  BY <2>1, <2>2, <2>3, <2>4, <2>5 DEF configVars
<1>3. CASE Compare(p)
  <2> DEFINE text == Applied(call[p].change, config)
             next == [phase |-> "store", at |-> call[p].at, whole |-> call[p].change.whole,
                      expected |-> config, text |-> text]
  <2>1. /\ call[p].phase = "compare" /\ UNCHANGED <<config, revision, seen, blind>>
        /\ \A q \in Callers : Saving(q) => call[q].at # call[p].at
    BY <1>3 DEF Compare, ConfigLockFree
  <2>2. CASE Go(p, Idle) /\ UNCHANGED crossed
    <3>1. call'[p] = Idle
      BY <2>2, NowAt DEF CallsInv
    <3>2. ConfigTypeOK'
      BY <1>0, <2>1, <2>2, <3>1 DEF ConfigTypeOK, Idle
    <3>3. ~crossed => \A q \in Callers : Informed(q)'
      BY <1>0, <2>1, <3>1 DEF Informed, Idle
    <3>4. \A q \in Callers : Saving(q)' => Saving(q)
      BY <1>0, <3>1 DEF Saving, Idle
    <3> QED  BY <2>1, <2>2, <3>2, <3>3, <3>4
  <2>3. CASE /\ config = call[p].expected /\ Go(p, next)
             /\ crossed' = (crossed \/ \E q \in Callers : Saving(q) /\ call[q].at # call[p].at)
    <3>1. call'[p] = next /\ text \in Text
      BY <2>1, <2>3, NowAt, AppliedTexts DEF CallsInv, ConfigTypeOK
    <3> HIDE DEF text
    <3>2. ConfigTypeOK'
      BY <1>0, <2>1, <2>3, <3>1 DEF ConfigTypeOK
    <3>3. ASSUME ~crossed' PROVE ~crossed /\ \A q \in Callers : ~Saving(q)
      BY <2>1, <2>3, <3>3 DEF ConfigTypeOK
    <3>4. ASSUME ~crossed' PROVE \A q \in Callers : Informed(q)'
      <4>1. Informed(p)'
        BY <2>1, <2>3, <3>1, <3>3, <3>4 DEF Informed
      <4>2. \A q \in Callers : q # p => Informed(q)'
        BY <1>0, <2>1, <3>3, <3>4 DEF Informed
      <4> QED  BY <4>1, <4>2
    <3>5. ~crossed' => \A q \in Callers : Saving(q)' => q = p
      BY <1>0, <3>3 DEF Saving
    <3> QED  BY <2>1, <3>2, <3>3, <3>4, <3>5
  <2> QED  BY <1>3, <2>2, <2>3 DEF Compare
<1>4. CASE StoreConfig(p)
  <2>1. /\ call[p].phase = "store" /\ config' = Finished(call[p].text)
        /\ blind' = (blind \/ Finished(config) # Finished(seen[p]))
        /\ UNCHANGED <<revision, seen, crossed>>
    BY <1>4 DEF StoreConfig
  <2>2. call'[p] = [call[p] EXCEPT !.phase = "reply"]
    BY <1>4, TurnStep DEF StoreConfig, CallsInv, ConfigPhases
  <2>3. call'[p].phase = "reply" /\ call'[p].text = call[p].text
    BY <2>2 DEF CallsInv, CallsOK
  <2>4. ConfigTypeOK'
    BY <1>0, <2>1, <2>3, FinishedTexts DEF ConfigTypeOK
  <2>5. ~crossed => ~blind'
    BY <2>1 DEF Informed
  <2>6. ~crossed => \A q \in Callers : Saving(q)' => q = p
    BY <1>0, <2>1 DEF Saving
  <2>7. ~crossed => Informed(p)'
    BY <2>1, <2>3 DEF Informed
  <2>8. ~crossed => \A q \in Callers : q # p => Informed(q)'
    BY <1>0, <2>1, <2>6 DEF Informed, Saving
  <2> QED  BY <2>1, <2>4, <2>5, <2>6, <2>7, <2>8
<1>5. CASE Reply(p)
  <2>1. /\ call[p].phase = "reply" /\ UNCHANGED <<config, crossed, blind>>
        /\ revision' = [revision EXCEPT ![p] = ReplyOf(p)]
        /\ seen' = [seen EXCEPT ![p] = Finished(call[p].text)] /\ call'[p] = Idle
    BY <1>5, NowAt DEF Reply, CallsInv
  <2>2. /\ call[p].text \in Text /\ ReplyOf(p) \in {config, call[p].text}
        /\ ~crossed => config = Finished(call[p].text)
    BY <2>1 DEF ConfigTypeOK, Informed, ReplyOf
  <2>3. ConfigTypeOK'
    BY <1>0, <2>1, <2>2, FinishedTexts DEF ConfigTypeOK, Idle
  <2>4. ~crossed => Finished(ReplyOf(p)) = Finished(Finished(call[p].text))
    BY <2>2, FinishedTexts
  <2>5. ~crossed => Informed(p)'
    BY <2>1, <2>2, <2>4, FinishedTexts DEF Informed, ConfigTypeOK, Idle
  <2>6. ~crossed => \A q \in Callers : q # p => Informed(q)'
    BY <1>0, <2>1 DEF Informed, ConfigTypeOK
  <2>7. \A q \in Callers : Saving(q)' => Saving(q)
    BY <1>0, <2>1 DEF Saving, Idle
  <2> QED  BY <2>1, <2>3, <2>5, <2>6, <2>7
<1> QED  BY <1>1, <1>2, <1>3, <1>4, <1>5 DEF Configure
-----------------------------------------------------------------------------
(***************************************************************************)
(* Decision workflows.  A call that asks knows attempts at its request,    *)
(* and without overlap all of them, none of which answered it.             *)
(***************************************************************************)
Outcome == {"completed", "failed", "blocked"}
AttemptRecord == [request : Requests, attempt : Nat \ {0}, retryOf : Nat \cup {None}, status : Outcome]

EngineTypeOK ==
  /\ attempts \in Seq(AttemptRecord) /\ results \subseteq DOMAIN attempts
  /\ \A n \in DOMAIN attempts : attempts[n].attempt # 1 => attempts[n].retryOf \in DOMAIN attempts

DecisionsUnderWay ==
  \A p \in Callers :
    /\ call[p].phase \in {"prior", "ask"} =>
         /\ call[p].request \in Requests /\ call[p].prior \subseteq Prior(call[p].request)
         /\ "wrote" \in DOMAIN call[p]
         /\ ~overlapped => call[p].prior = Prior(call[p].request)
    /\ call[p].phase = "ask" => ~Answered(call[p].prior) \/ overlapped
    /\ call[p].phase = "result" => call[p].wrote \in DOMAIN attempts
                                  /\ (overlapped \/ call[p].wrote = Len(attempts))

EngineInv == EngineTypeOK /\ DecisionsUnderWay /\ DecisionsFormAChain

LEMMA EngineStarts == ASSUME CallsInit, EngineInit PROVE EngineInv
<1>1. attempts = <<>> /\ results = {} /\ call = [p \in Callers |-> Idle]
  BY DEF CallsInit, EngineInit
<1>2. DecisionsUnderWay
  BY <1>1 DEF DecisionsUnderWay, Idle
<1> QED  BY <1>1, <1>2 DEF EngineInv, EngineTypeOK, DecisionsFormAChain

LEMMA EngineElsewhere ==
  ASSUME EngineInv, UNCHANGED engineVars, Elsewhere(EnginePhases) PROVE EngineInv'
<1>1. \A p \in Callers : call'[p].phase \in {"prior", "ask", "result"} => call'[p] = call[p]
  BY DEF Elsewhere, EnginePhases
<1>2. attempts' = attempts /\ results' = results /\ (overlapped => overlapped')
  BY DEF Elsewhere, engineVars
<1>3. \A r : Prior(r)' = Prior(r)
  BY <1>2 DEF Prior
<1>4. \A prior : Answered(prior)' = Answered(prior)
  BY <1>2 DEF Answered
<1>5. DecisionsUnderWay'
  BY <1>1, <1>2, <1>3, <1>4 DEF EngineInv, DecisionsUnderWay
<1>6. DecisionsFormAChain'
  BY <1>2, <1>3 DEF EngineInv, DecisionsFormAChain
<1> QED  BY <1>2, <1>5, <1>6 DEF EngineInv, EngineTypeOK

\* The attempt a request gets next: the first, or the one after the latest it knows.
LEMMA NextAttempts ==
  ASSUME EngineTypeOK, NEW r \in Requests, NEW status \in Outcome, NEW prior \in SUBSET Prior(r),
         NEW a \in Attempt(r, status, prior)
  PROVE  /\ a \in AttemptRecord /\ a.request = r /\ a.status = status
         /\ \/ prior = {} /\ a.attempt = 1 /\ a.retryOf = None
            \/ /\ a.retryOf \in prior /\ a.attempt = attempts[a.retryOf].attempt + 1
               /\ \A n \in prior : attempts[n].attempt < a.attempt
<1>1. \A n \in prior : n \in Nat /\ attempts[n] \in AttemptRecord
  BY DEF Prior, EngineTypeOK
<1>2. CASE prior = {}
  BY <1>2 DEF Attempt, AttemptRecord
<1>3. CASE prior # {}
  <2>1. PICK n \in Latest(prior) :
          a = [request |-> r, attempt |-> attempts[n].attempt + 1, retryOf |-> n, status |-> status]
    BY <1>3 DEF Attempt
  <2>2. n \in prior /\ \A m \in prior : attempts[n].attempt >= attempts[m].attempt
    BY DEF Latest
  <2>3. attempts[n].attempt \in Nat /\ \A m \in prior : attempts[m].attempt \in Nat
    BY <1>1, <2>2 DEF AttemptRecord
  <2> QED  BY <1>1, <2>1, <2>2, <2>3 DEF AttemptRecord
<1> QED  BY <1>2, <1>3

LEMMA EngineMoved == ASSUME CallsInv, EngineInv, EngineMoves, CallsInv' PROVE EngineInv'
<1> PICK p \in Callers : Decide(p) /\ Step(p, EnginePhases)
  BY DEF EngineMoves
<1> USE DEF EngineInv
<1>0. (\A q \in Callers : q # p => call'[q] = call[q]) /\ (overlapped => overlapped')
  <2>1. overlapped => overlapped'
    BY DEF Step
  <2> QED  BY <2>1 DEF Step
<1>1. ASSUME NEW r \in Requests, RunDecision(p, r) PROVE EngineInv'
  <2>1. /\ call'[p] = [phase |-> "prior", request |-> r, prior |-> Prior(r), wrote |-> 0]
        /\ attempts' = attempts /\ results' = results
    BY <1>1, NowAt DEF RunDecision, CallsInv, engineVars
  <2>2. (\A s : Prior(s)' = Prior(s)) /\ (\A prior : Answered(prior)' = Answered(prior))
    BY <2>1 DEF Prior, Answered
  <2>3. DecisionsUnderWay'
    BY <1>0, <2>1, <2>2 DEF DecisionsUnderWay
  <2>4. DecisionsFormAChain'
    BY <1>0, <2>1, <2>2 DEF DecisionsFormAChain
  <2> QED  BY <2>1, <2>3, <2>4 DEF EngineTypeOK
<1>2. CASE ReuseOrAsk(p)
  <2>1. /\ call[p].phase = "prior" /\ attempts' = attempts /\ results' = results
        /\ overlapped' = overlapped
    BY <1>2 DEF ReuseOrAsk, engineVars, Go, Turn
  <2>2. (\A s : Prior(s)' = Prior(s)) /\ (\A prior : Answered(prior)' = Answered(prior))
    BY <2>1 DEF Prior, Answered
  <2>3. \/ call'[p] = Idle
        \/ /\ ~Answered(call[p].prior) /\ call'[p].phase = "ask"
           /\ call'[p].request = call[p].request /\ call'[p].prior = call[p].prior
           /\ DOMAIN call'[p] = DOMAIN call[p]
    <3>1. CASE Answered(call[p].prior)
      BY <1>2, <3>1, NowAt DEF ReuseOrAsk, CallsInv
    <3>2. CASE ~Answered(call[p].prior)
      <4>1. call'[p] = [call[p] EXCEPT !.phase = "ask"]
        BY <1>2, <3>2, TurnStep DEF ReuseOrAsk, CallsInv, EnginePhases
      <4> QED  BY <3>2, <4>1 DEF CallsInv, CallsOK
    <3> QED  BY <3>1, <3>2
  <2>4. DecisionsUnderWay'
    BY <1>0, <2>1, <2>2, <2>3 DEF DecisionsUnderWay, Idle
  <2>5. DecisionsFormAChain'
    BY <2>1, <2>2 DEF DecisionsFormAChain
  <2> QED  BY <2>1, <2>4, <2>5 DEF EngineTypeOK
<1>3. CASE WriteAttempt(p)
  <2> DEFINE r == call[p].request
             prior == call[p].prior
             k == Len(attempts) + 1
  <2>1. PICK status \in Outcome :
          \E a \in Attempt(r, status, prior) : attempts' = Append(attempts, a)
    BY <1>3 DEF WriteAttempt, Outcomes, Outcome
  <2>2. PICK a \in Attempt(r, status, prior) : attempts' = Append(attempts, a)
    BY <2>1
  <2>3. /\ results' = results /\ call[p].phase = "ask" /\ overlapped' = overlapped
        /\ call'[p] = [call[p] EXCEPT !.phase = "result", !.wrote = k]
    BY <1>3, NowAt DEF WriteAttempt, CallsInv, Go
  <2>4. /\ r \in Requests /\ prior \subseteq Prior(r) /\ "wrote" \in DOMAIN call[p]
        /\ ~overlapped => prior = Prior(r) /\ ~Answered(prior)
    BY <2>3 DEF DecisionsUnderWay
  <2>5. call'[p].phase = "result" /\ call'[p].wrote = k
    BY <2>3, <2>4 DEF CallsInv, CallsOK
  <2>6. /\ a \in AttemptRecord /\ a.request = r
        /\ \/ prior = {} /\ a.attempt = 1 /\ a.retryOf = None
           \/ /\ a.retryOf \in prior /\ a.attempt = attempts[a.retryOf].attempt + 1
              /\ \A n \in prior : attempts[n].attempt < a.attempt
    BY <2>4, NextAttempts
  <2>7. overlapped \/ \A q \in Callers : q # p => call[q] = Idle
    BY <2>3 DEF CallsInv, OneCall, Idle
  <2> HIDE DEF r, prior
  <2>8. /\ k \in Nat /\ DOMAIN attempts' = DOMAIN attempts \cup {k} /\ Len(attempts') = k
        /\ \A n \in DOMAIN attempts : n \in Nat /\ n < k /\ attempts'[n] = attempts[n]
        /\ attempts'[k] = a
        /\ attempts' \in Seq(AttemptRecord)
    BY <2>2, <2>6 DEF EngineTypeOK
  <2> HIDE DEF k
  <2>9. \A s : Prior(s)' = IF s = r THEN Prior(s) \cup {k} ELSE Prior(s)
    BY <2>6, <2>8 DEF Prior
  <2>10. EngineTypeOK'
    <3>1. ASSUME NEW n \in DOMAIN attempts', attempts'[n].attempt # 1
          PROVE  attempts'[n].retryOf \in DOMAIN attempts'
      <4>1. CASE n = k
        <5>1. a.retryOf \in prior
          BY <2>6, <2>8, <3>1, <4>1
        <5> QED  BY <2>4, <2>8, <4>1, <5>1 DEF Prior
      <4>2. CASE n # k
        BY <2>8, <3>1, <4>2 DEF EngineTypeOK
      <4> QED  BY <4>1, <4>2
    <3> QED  BY <2>3, <2>8, <3>1 DEF EngineTypeOK
  <2>11. DecisionsUnderWay'
    <3>1. ASSUME NEW q \in Callers, q # p, call'[q].phase \in {"prior", "ask", "result"}
          PROVE  call'[q] = call[q] /\ overlapped /\ overlapped'
      BY <1>0, <2>7, <3>1 DEF Idle
    <3> QED  BY <2>3, <2>5, <2>8, <2>9, <3>1 DEF DecisionsUnderWay
  <2>12. DecisionsFormAChain'
    <3>1. ASSUME NEW n \in DOMAIN attempts'
          PROVE  LET b == attempts'[n]
                 IN  IF b.attempt = 1 THEN b.retryOf = None
                     ELSE b.retryOf < n /\ attempts'[b.retryOf].request = b.request
                                        /\ attempts'[b.retryOf].attempt = b.attempt - 1
      <4>1. CASE n = k
        <5>1. CASE prior = {}
          BY <2>6, <2>8, <4>1, <5>1
        <5>2. CASE prior # {}
          <6>0. a.retryOf \in Prior(r)
            BY <2>4, <2>6, <5>2
          <6>1. /\ a.retryOf \in DOMAIN attempts /\ attempts[a.retryOf].request = r
                /\ attempts[a.retryOf] \in AttemptRecord
            BY <6>0 DEF Prior, EngineTypeOK
          <6>2. attempts[a.retryOf].attempt \in Nat \ {0}
            BY <6>1 DEF AttemptRecord
          <6> QED  BY <2>6, <2>8, <4>1, <5>2, <6>1, <6>2
        <5> QED  BY <5>1, <5>2
      <4>2. CASE n # k
        <5>1. n \in DOMAIN attempts /\ attempts[n] \in AttemptRecord
          BY <2>8, <4>2 DEF EngineTypeOK
        <5>2. attempts[n].attempt # 1 => attempts[n].retryOf \in DOMAIN attempts
          BY <5>1 DEF EngineTypeOK
        <5> QED  BY <2>8, <4>2, <5>1, <5>2 DEF DecisionsFormAChain
      <4> QED  BY <4>1, <4>2
    <3>2. ASSUME NEW n \in DOMAIN attempts', ~overlapped, NEW m \in Prior(attempts[n].request)', m > n
          PROVE  /\ attempts'[m].attempt > attempts'[n].attempt
                 /\ ~(attempts'[n].status = "completed" /\ n \in results)
      <4>1. n \in DOMAIN attempts /\ attempts'[n] = attempts[n]
        BY <2>8, <3>2 DEF Prior
      <4>2. CASE m = k
        <5>1. n \in prior
          <6>1. attempts[n].request = r
            BY <2>6, <2>8, <3>2, <4>1, <4>2 DEF Prior
          <6>2. n \in Prior(r)
            BY <4>1, <6>1 DEF Prior
          <6> QED  BY <2>4, <3>2, <6>2
        <5> QED  BY <2>4, <2>6, <2>8, <3>2, <4>1, <4>2, <5>1 DEF Answered
      <4>3. CASE m # k
        <5>1. m \in Prior(attempts[n].request) /\ attempts'[m] = attempts[m]
          BY <2>9, <2>8, <3>2, <4>1, <4>3 DEF Prior
        <5> QED  BY <3>2, <4>1, <5>1 DEF DecisionsFormAChain
      <4> QED  BY <4>2, <4>3
    <3> QED  BY <2>3, <3>1, <3>2 DEF DecisionsFormAChain
  <2> QED  BY <2>10, <2>11, <2>12
<1>4. CASE WriteResult(p)
  <2>1. /\ call[p].phase = "result" /\ call'[p] = Idle /\ attempts' = attempts
        /\ results' = results \cup {call[p].wrote} /\ overlapped' = overlapped
    BY <1>4, NowAt DEF WriteResult, CallsInv, Go
  <2>2. call[p].wrote \in DOMAIN attempts /\ (overlapped \/ call[p].wrote = Len(attempts))
    BY <2>1 DEF DecisionsUnderWay
  <2>3. \A s : Prior(s)' = Prior(s)
    BY <2>1 DEF Prior
  <2>4. overlapped \/ \A q \in Callers : q # p => call[q] = Idle
    BY <2>1 DEF CallsInv, OneCall, Idle
  <2>5. DecisionsUnderWay'
    BY <1>0, <2>1, <2>3, <2>4 DEF DecisionsUnderWay, Idle
  <2>6. DecisionsFormAChain'
    BY <2>1, <2>2, <2>3 DEF DecisionsFormAChain, Prior, EngineTypeOK
  <2> QED  BY <2>1, <2>2, <2>5, <2>6 DEF EngineTypeOK
<1> QED  BY <1>1, <1>2, <1>3, <1>4 DEF Decide
-----------------------------------------------------------------------------
(***************************************************************************)
(* Reviews.  Without overlap ids grow with each review written, and a      *)
(* review on its way has been checked against the reviews there are.       *)
(***************************************************************************)
ReviewIds == {r.id : r \in reviews}
Checked(p) ==
  /\ call[p].supersedes # NoReview => \E r \in Active : r.id = call[p].supersedes
  /\ call[p].phase = "review" =>
       /\ call[p].id \in Nat /\ \A x \in ReviewIds : x < call[p].id
       /\ Reconciled(call[p].on, call[p].fields, call[p].supersedes)

ReviewsInOrder ==
  ~overlapped =>
    /\ ReviewIds \subseteq Nat
    /\ \E m \in ReviewIds \cup {0} : \A x \in ReviewIds \cup {0} : x <= m
    /\ \A p \in Callers : call[p].phase \in {"conflicts", "review"} =>
         "id" \in DOMAIN call[p] /\ Checked(p)

ReviewInv == ReviewsInOrder /\ ReviewsAreReconciled

LEMMA ReviewsStart == ASSUME CallsInit, ReviewInit PROVE ReviewInv
<1>1. reviews = {} /\ call = [p \in Callers |-> Idle]
  BY DEF CallsInit, ReviewInit
<1>2. ReviewIds = {}
  BY <1>1 DEF ReviewIds
<1>3. ReviewsInOrder
  BY <1>1, <1>2 DEF ReviewsInOrder, Idle
<1> QED  BY <1>1, <1>3 DEF ReviewInv, ReviewsAreReconciled

\* Nothing changes for the reviews while none is written.
LEMMA ReviewsKept ==
  ASSUME reviews' = reviews
  PROVE  /\ Active' = Active /\ ReviewIds' = ReviewIds
         /\ \A n, fields : Overlapping(n, fields)' = Overlapping(n, fields)
         /\ \A n, fields, s : Reconciled(n, fields, s)' = Reconciled(n, fields, s)
         /\ (overlapped => overlapped') /\ ReviewsAreReconciled => ReviewsAreReconciled'
<1>1. Active' = Active /\ ReviewIds' = ReviewIds
  BY DEF Active, ReviewIds
<1>2. \A n, fields : Overlapping(n, fields)' = Overlapping(n, fields)
  BY <1>1 DEF Overlapping
<1>3. \A n, fields, s : Reconciled(n, fields, s)' = Reconciled(n, fields, s)
  BY <1>2 DEF Reconciled
<1>4. (overlapped => overlapped') /\ ReviewsAreReconciled => ReviewsAreReconciled'
  BY <1>1, <1>2 DEF ReviewsAreReconciled
<1> QED  BY <1>1, <1>2, <1>3, <1>4

LEMMA ReviewsElsewhere ==
  ASSUME ReviewInv, reviews' = reviews, Elsewhere(ReviewPhases) PROVE ReviewInv'
<1>1. /\ \A p \in Callers : call'[p].phase \in {"conflicts", "review"} => call'[p] = call[p]
      /\ overlapped => overlapped'
  BY DEF Elsewhere, ReviewPhases
<1>2. \A p \in Callers : call'[p] = call[p] /\ Checked(p) => Checked(p)'
  BY ReviewsKept DEF Checked
<1>3. ReviewsInOrder'
  BY <1>1, <1>2, ReviewsKept DEF ReviewInv, ReviewsInOrder
<1> QED  BY <1>1, <1>3, ReviewsKept DEF ReviewInv

\* A review that was checked does not override one in force unawares.
LEMMA CheckedReviews ==
  ASSUME ~overlapped, ReviewsInOrder, ReviewsAreReconciled,
         NEW p \in Callers, call[p].phase = "review", overlapped' = overlapped,
         NEW v, reviews' = reviews \cup {v},
         v.id = call[p].id, v.on = call[p].on, v.fields = call[p].fields,
         v.supersedes = call[p].supersedes
  PROVE  ReviewsAreReconciled'
<1>1. /\ ReviewIds \subseteq Nat /\ Checked(p)
  BY DEF ReviewsInOrder
<1>2. /\ v.supersedes # NoReview => \E r \in Active : r.id = v.supersedes
      /\ v.id \in Nat /\ Reconciled(v.on, v.fields, v.supersedes)
      /\ \A r \in reviews : r.id \in Nat /\ r.id < v.id
  BY <1>1 DEF Checked, ReviewIds
<1>3. \A r \in reviews : r \in Active' => r \in Active
  BY DEF Active
<1> SUFFICES ASSUME NEW r \in reviews', NEW q \in reviews', r.id < q.id
             PROVE  /\ q.supersedes # NoReview => q.supersedes # r.supersedes
                    /\ r \in Active' /\ q \in Overlapping(r.on, r.fields)' =>
                         \E s \in reviews' : s.id = q.supersedes /\ s.on = q.on
                                             /\ s.fields \cap q.fields # {}
  BY DEF ReviewsAreReconciled
<1>4. CASE r \in reviews /\ q \in reviews
  <2>1. /\ q.supersedes # NoReview => q.supersedes # r.supersedes
        /\ r \in Active /\ q \in Overlapping(r.on, r.fields) =>
             \E s \in reviews : s.id = q.supersedes /\ s.on = q.on /\ s.fields \cap q.fields # {}
    BY <1>4 DEF ReviewsAreReconciled
  <2>2. q \in Overlapping(r.on, r.fields)' => q \in Overlapping(r.on, r.fields)
    BY <1>3, <1>4 DEF Overlapping
  <2> QED  BY <1>3, <1>4, <2>1, <2>2
<1>5. CASE r \in reviews /\ q = v
  <2>1. q.supersedes # NoReview => q.supersedes # r.supersedes
    BY <1>2, <1>5 DEF Active
  <2>2. ASSUME r \in Active', q \in Overlapping(r.on, r.fields)'
        PROVE  \E s \in reviews' : s.id = q.supersedes /\ s.on = q.on /\ s.fields \cap q.fields # {}
    <3>1. q.on = r.on /\ q.fields \cap r.fields # {}
      BY <2>2 DEF Overlapping
    <3>2. r \in Overlapping(v.on, v.fields)
      BY <1>3, <1>5, <2>2, <3>1 DEF Overlapping
    <3>3. PICK s \in Overlapping(v.on, v.fields) : s.id = v.supersedes
      BY <1>2, <3>2 DEF Reconciled
    <3> QED  BY <1>5, <3>3 DEF Overlapping, Active
  <2> QED  BY <2>1, <2>2
<1>6. CASE r = v
  <2>1. q.id \in Nat /\ (q.id < v.id \/ q = v)
    BY <1>2
  <2> QED  BY <1>2, <1>6, <2>1
<1> QED  BY <1>4, <1>5, <1>6

LEMMA ReviewsMoved ==
  ASSUME CallsInv, ReviewInv, ReviewMoves, CallsInv' PROVE ReviewInv'
<1> PICK p \in Callers : Review(p) /\ Step(p, ReviewPhases)
  BY DEF ReviewMoves
<1> USE DEF ReviewInv
<1>0. (\A q \in Callers : q # p => call'[q] = call[q]) /\ (overlapped => overlapped')
  <2>1. overlapped => overlapped'
    BY DEF Step
  <2> QED  BY <2>1 DEF Step
<1>a. \A q \in Callers : reviews' = reviews /\ call'[q] = call[q] /\ Checked(q) => Checked(q)'
  BY ReviewsKept DEF Checked
\* No review is written: the call ends, or is where there is nothing to check.
<1>b. ASSUME reviews' = reviews, call'[p].phase \notin {"conflicts", "review"} PROVE ReviewInv'
  <2>1. ReviewsInOrder'
    BY <1>0, <1>a, <1>b, ReviewsKept DEF ReviewsInOrder
  <2> QED  BY <1>0, <1>b, <2>1, ReviewsKept
<1>1. CASE WriteClassification(p)
  <2>1. call'[p] = [phase |-> "rebuild"] /\ reviews' = reviews
    BY <1>1, NowAt DEF WriteClassification, CallsInv
  <2> QED  BY <1>b, <2>1
<1>2. ASSUME NEW n \in DOMAIN classifications, NEW fields \in SUBSET Fields, NEW s,
             RecordReview(p, n, fields, s)
      PROVE  ReviewInv'
  <2> DEFINE next == [phase |-> "conflicts", on |-> n, fields |-> fields, supersedes |-> s, id |-> 0]
  <2>1. /\ call'[p] = next /\ reviews' = reviews
        /\ s # NoReview => \E r \in Active : r.id = s
    BY <1>2, NowAt DEF RecordReview, CallsInv, reviewVars, Supersedable
  <2>2. Checked(p)'
    BY <2>1, ReviewsKept DEF Checked
  <2>3. "id" \in DOMAIN next
    OBVIOUS
  <2>4. ReviewsInOrder'
    BY <1>0, <1>a, <2>1, <2>2, <2>3, ReviewsKept DEF ReviewsInOrder
  <2> QED  BY <1>0, <2>1, <2>4, ReviewsKept
<1>3. CASE CheckConflicts(p)
  <2> DEFINE next == [call[p] EXCEPT !.phase = "review", !.id = 1 + Max(Minted \cup {0})]
  <2>1. /\ call[p].phase = "conflicts" /\ reviews' = reviews /\ overlapped' = overlapped
        /\ \/ call'[p] = Idle
           \/ call'[p] = next /\ Reconciled(call[p].on, call[p].fields, call[p].supersedes)
    BY <1>3, NowAt DEF CheckConflicts, CallsInv, reviewVars, Go
  <2>2. CASE call'[p] = Idle
    BY <1>b, <2>1, <2>2 DEF Idle
  <2>3. CASE /\ call'[p] = next
             /\ Reconciled(call[p].on, call[p].fields, call[p].supersedes)
    <3>1. ReviewsInOrder'
      <4> SUFFICES ASSUME ~overlapped PROVE ReviewsInOrder'
        BY <2>1 DEF ReviewsInOrder
      <4>1. "id" \in DOMAIN call[p] /\ Checked(p) /\ ReviewIds \subseteq Nat
        BY <2>1 DEF ReviewsInOrder
      <4>2. Minted = ReviewIds
        BY <2>1 DEF Minted, ReviewIds, CallsInv, OneCall, Idle
      <4> DEFINE newest == Max(Minted \cup {0})
      <4>3. newest \in Nat /\ \A x \in ReviewIds : x <= newest
        <5>1. PICK m \in ReviewIds \cup {0} : \A x \in ReviewIds \cup {0} : x <= m
          BY DEF ReviewsInOrder
        <5>2. \A x \in ReviewIds \cup {0} : m >= x
          BY <4>1, <5>1
        <5>3. newest \in ReviewIds \cup {0} /\ \A x \in ReviewIds \cup {0} : newest >= x
          BY <4>2, <5>2 DEF Max
        <5> HIDE DEF newest
        <5> QED  BY <4>1, <5>3
      <4> HIDE DEF newest
      <4>4. /\ call'[p].phase = "review" /\ call'[p].id = 1 + newest /\ "id" \in DOMAIN call'[p]
            /\ call'[p].on = call[p].on /\ call'[p].fields = call[p].fields
            /\ call'[p].supersedes = call[p].supersedes
        BY <2>3, <4>1 DEF CallsInv, CallsOK, newest
      <4>5. Checked(p)'
        <5>1. Reconciled(call[p].on, call[p].fields, call[p].supersedes)'
          BY <2>1, <2>3, <4>4, ReviewsKept
        <5>2. \A x \in ReviewIds' : x < call'[p].id
          BY <2>1, <4>1, <4>3, <4>4, ReviewsKept
        <5>3. call'[p].supersedes # NoReview => \E r \in Active' : r.id = call'[p].supersedes
          BY <2>1, <4>1, <4>4, ReviewsKept DEF Checked
        <5> QED  BY <4>3, <4>4, <5>1, <5>2, <5>3 DEF Checked
      <4> QED  BY <1>0, <1>a, <2>1, <4>4, <4>5, ReviewsKept DEF ReviewsInOrder
    <3> QED  BY <1>0, <2>1, <3>1, ReviewsKept
  <2> QED  BY <2>1, <2>2, <2>3
<1>4. CASE WriteReview(p)
  <2> PICK v : v = [id |-> call[p].id, on |-> call[p].on, fields |-> call[p].fields,
                    supersedes |-> call[p].supersedes]
    OBVIOUS
  <2>1. /\ call[p].phase = "review" /\ call'[p] = [phase |-> "rebuild"]
        /\ reviews' = reviews \cup {v} /\ overlapped' = overlapped
    BY <1>4, NowAt DEF WriteReview, CallsInv, Go
  <2>2. CASE overlapped
    BY <2>1, <2>2 DEF ReviewsInOrder, ReviewsAreReconciled
  <2>3. CASE ~overlapped
    <3>1. ReviewsAreReconciled'
      BY <2>1, <2>3, CheckedReviews
    <3>2. ReviewIds' = ReviewIds \cup {v.id} /\ v.id = call[p].id
      BY <2>1 DEF ReviewIds
    <3>3. v.id \in Nat /\ ReviewIds \subseteq Nat /\ \A x \in ReviewIds : x < v.id
      BY <2>1, <2>3, <3>2 DEF ReviewsInOrder, Checked
    <3>4. ASSUME NEW x \in ReviewIds' \cup {0} PROVE x <= v.id
      <4>1. x \in ReviewIds \/ x = v.id \/ x = 0
        BY <3>2
      <4>2. CASE x \in ReviewIds
        <5>1. x \in Nat /\ x < v.id /\ v.id \in Nat
          BY <3>3, <4>2
        <5> QED  BY <5>1
      <4> QED  BY <3>3, <4>1, <4>2
    <3>5. \A q \in Callers : call'[q].phase \notin {"conflicts", "review"}
      BY <1>0, <2>1, <2>3 DEF CallsInv, OneCall, Idle
    <3>6. ReviewsInOrder'
      BY <3>2, <3>3, <3>4, <3>5 DEF ReviewsInOrder
    <3> QED  BY <3>1, <3>6
  <2> QED  BY <2>2, <2>3
<1>5. CASE ReadRecords(p)
  <2>1. reviews' = reviews /\ call'[p].phase = "view"
    BY <1>5, NowAt DEF ReadRecords, CallsInv, reviewVars
  <2> QED  BY <1>b, <2>1
<1>6. CASE WriteView(p)
  <2>1. reviews' = reviews /\ call'[p] = Idle
    BY <1>6, NowAt DEF WriteView, CallsInv
  <2> QED  BY <1>b, <2>1 DEF Idle
<1> QED  BY <1>1, <1>2, <1>3, <1>4, <1>5, <1>6 DEF Review
-----------------------------------------------------------------------------
(***************************************************************************)
(* Classifications.                                                        *)
(***************************************************************************)
Classification == [target : Targets, by : {g.by : g \in Given},
                   proposed : SUBSET Fields, accepted : SUBSET Fields]

ModelsAcceptNothing ==
  \A n \in DOMAIN classifications :
    classifications[n].by # "rules" => classifications[n].accepted = {}

ProposalsInv == classifications \in Seq(Classification) /\ ModelsAcceptNothing

\* Only what the rules answer is decided at once.
LEMMA ModelsPropose ==
  ASSUME NEW by, by # "rules", NEW answers, NEW f \in DOMAIN FieldDecisions(by, answers)
  PROVE  FieldDecisions(by, answers)[f] # "accepted"
<1> DEFINE wellFormed == \A g \in Fields : g \in DOMAIN answers /\ WellFormed(g, answers[g])
<1>1. CASE wellFormed
  <2>1. FieldDecisions(by, answers) = [g \in Fields |-> Status(by, Scored(g, answers[g]))]
    BY <1>1 DEF FieldDecisions
  <2> QED  BY <2>1 DEF Status
<1>2. CASE ~wellFormed
  <2>1. FieldDecisions(by, answers) = [g \in {} |-> "failed"]
    BY <1>2 DEF FieldDecisions
  <2> QED  BY <2>1
<1> QED  BY <1>1, <1>2

LEMMA DecidedFields ==
  ASSUME NEW by, NEW answers PROVE DOMAIN FieldDecisions(by, answers) \subseteq Fields
BY DEF FieldDecisions

LEMMA ProposalsStay == ASSUME ProposalsInv, Moves PROVE ProposalsInv'
<1>1. ASSUME NEW p \in Callers, WriteClassification(p) PROVE ProposalsInv'
  <2>1. PICK t \in Targets, g \in Given :
          LET decided == FieldDecisions(g.by, g.answers)
          IN  classifications' = Append(classifications,
                [target |-> t, by |-> g.by, proposed |-> DOMAIN decided,
                 accepted |-> {f \in DOMAIN decided : decided[f] = "accepted"}])
    BY <1>1 DEF WriteClassification
  <2> DEFINE decided == FieldDecisions(g.by, g.answers)
             accepted == {f \in DOMAIN decided : decided[f] = "accepted"}
             c == [target |-> t, by |-> g.by, proposed |-> DOMAIN decided, accepted |-> accepted]
  <2>2. DOMAIN decided \subseteq Fields
    BY DecidedFields
  <2>3. g.by # "rules" => accepted = {}
    BY ModelsPropose
  <2>4. classifications' = Append(classifications, c)
    BY <2>1
  <2> HIDE DEF decided
  <2>5. c \in Classification
    BY <2>2 DEF Classification
  <2>6. c.by # "rules" => c.accepted = {}
    BY <2>3
  <2> HIDE DEF c
  <2> QED  BY <2>4, <2>5, <2>6 DEF ProposalsInv, ModelsAcceptNothing
<1>2. CASE classifications' = classifications
  BY <1>2 DEF ProposalsInv, ModelsAcceptNothing
<1>3. ASSUME NEW p \in Callers, Review(p), ~WriteClassification(p)
      PROVE  classifications' = classifications
  BY <1>3 DEF Review, RecordReview, CheckConflicts, WriteReview, ReadRecords, WriteView, reviewVars
<1> QED  BY <1>1, <1>2, <1>3 DEF Moves, ReviewMoves

-----------------------------------------------------------------------------
(***************************************************************************)
(* The view.  Passing the classifications in order leaves each field to    *)
(* the last of them that decides it (DecidedAtLast).  A property of the    *)
(* subsets of a finite set that the empty set has and that one more        *)
(* element keeps holds of all of them (Having: those that have it).        *)
(***************************************************************************)
LEMMA SubsetsHave ==
  ASSUME NEW S, IsFiniteSet(S), NEW Having, {} \in Having,
         \A T \in SUBSET S : (\A x \in T : T \ {x} \in Having) => T \in Having
  PROVE  SUBSET S \subseteq Having
<1> DEFINE Rest == (SUBSET S) \ Having
<1> SUFFICES ASSUME Rest # {} PROVE FALSE
  OBVIOUS
<1>1. PICK T \in Rest : \A U \in Rest : <<U, T>> \notin StrictSubsetOrdering(S)
  <2>1. IsWellFoundedOn(StrictSubsetOrdering(S), SUBSET S)
    <3>1. IsWellFoundedOn(StrictSubsetOrdering(S), FiniteSubsetsOf(S))
      BY FS_StrictSubsetOrderingWellFounded
    <3>2. FiniteSubsetsOf(S) = SUBSET S
      BY FS_FiniteSubsetsOfFinite
    <3> QED  BY <3>1, <3>2
  <2> HIDE DEF Rest
  <2>2. Rest \subseteq SUBSET S
    BY DEF Rest
  <2> QED  BY <2>1, <2>2, WFMin
<1>2. PICK x \in T : T \ {x} \notin Having
  <2>1. T \in SUBSET S /\ T \notin Having
    BY <1>1
  <2> QED  BY <2>1
<1>3. T \ {x} \in SUBSET S /\ <<T \ {x}, T>> \in StrictSubsetOrdering(S)
  BY <1>1, <1>2 DEF StrictSubsetOrdering
<1> QED  BY <1>1, <1>2, <1>3

\* Numbers up to some number have a last one.
LEMMA SomeLast ==
  ASSUME NEW last \in Nat, NEW T \in SUBSET (0..last), T # {}
  PROVE  \E m \in T : \A n \in T : n <= m
<1> DEFINE S == 0..last
           Having == {U \in SUBSET S : U = {} \/ \E m \in U : \A n \in U : n <= m}
<1>1. IsFiniteSet(S)
  BY FS_Interval
<1>2. ASSUME NEW U \in SUBSET S, \A x \in U : U \ {x} \in Having PROVE U \in Having
  <2> SUFFICES ASSUME U # {} PROVE \E m \in U : \A n \in U : n <= m
    OBVIOUS
  <2> PICK x \in U : TRUE
    OBVIOUS
  <2>1. CASE U = {x}
    BY <2>1
  <2>2. CASE U # {x}
    <3>0. U \ {x} \in Having /\ U \ {x} # {}
      BY <1>2, <2>2
    <3>1. PICK m \in U \ {x} : \A n \in U \ {x} : n <= m
      BY <3>0
    <3>2. CASE x <= m
      BY <3>1, <3>2
    <3>3. CASE ~(x <= m)
      BY <3>1, <3>3
    <3> QED  BY <3>2, <3>3
  <2> QED  BY <2>1, <2>2
<1> HIDE DEF Having
<1>3. SUBSET S \subseteq Having
  <2> HIDE DEF S
  <2>1. {} \in Having
    BY DEF Having
  <2> QED  BY <1>1, <1>2, <2>1, SubsetsHave
<1> QED  BY <1>3 DEF Having

LEMMA MaxIsLast ==
  ASSUME NEW last \in Nat, NEW T \in SUBSET (0..last), T # {}
  PROVE  Max(T) \in T /\ \A n \in T : n <= Max(T)
<1>1. PICK m \in T : \A n \in T : n <= m
  BY SomeLast
<1>2. \A n \in T : m >= n
  BY <1>1
<1> DEFINE most == Max(T)
<1>3. most \in T /\ \A n \in T : most >= n
  BY <1>2 DEF Max
<1> HIDE DEF most
<1>4. \A n \in T : n <= most
  BY <1>3
<1> QED  BY <1>3, <1>4 DEF most

\* g overrides over the subsets of the classifications, the last of each at last.
Passes(g, t, f) ==
  g = [T \in SUBSET DOMAIN classifications |->
         IF T = {} THEN Undecided ELSE Override(t, f, g[T \ {Max(T)}], Max(T))]

LEMMA PassesAgree ==
  ASSUME classifications \in Seq(Classification), NEW t, NEW f,
         NEW g, NEW h, Passes(g, t, f), Passes(h, t, f)
  PROVE  g[DOMAIN classifications] = h[DOMAIN classifications]
<1> DEFINE S == DOMAIN classifications
           Having == {T \in SUBSET S : g[T] = h[T]}
<1>0. S = 1..Len(classifications) /\ Len(classifications) \in Nat
  OBVIOUS
<1>1. \A T \in SUBSET S :
        /\ g[T] = IF T = {} THEN Undecided ELSE Override(t, f, g[T \ {Max(T)}], Max(T))
        /\ h[T] = IF T = {} THEN Undecided ELSE Override(t, f, h[T \ {Max(T)}], Max(T))
  BY DEF Passes
<1>2. {} \in Having
  BY <1>1
<1>3. ASSUME NEW T \in SUBSET S, \A x \in T : T \ {x} \in Having PROVE T \in Having
  <2>1. CASE T = {}
    BY <1>2, <2>1
  <2>2. CASE T # {}
    <3>0. T \in SUBSET (0..Len(classifications))
      BY <1>0
    <3>1. Max(T) \in T
      BY <1>0, <2>2, <3>0, MaxIsLast
    <3>2. g[T \ {Max(T)}] = h[T \ {Max(T)}]
      BY <1>3, <3>1
    <3> QED  BY <1>1, <2>2, <3>2
  <2> QED  BY <2>1, <2>2
<1>4. IsFiniteSet(S)
  BY <1>0, FS_Interval
<1> HIDE DEF Having
<1>5. SUBSET S \subseteq Having
  <2> HIDE DEF S
  <2> QED  BY <1>2, <1>3, <1>4, SubsetsHave
<1> QED  BY <1>5 DEF Having

\* What FoldLeft decides is what any such function decides.
LEMMA DecidedByPasses ==
  ASSUME classifications \in Seq(Classification), NEW t, NEW f, NEW h, Passes(h, t, f)
  PROVE  DecidedBy(t, f) = h[DOMAIN classifications]
<1> DEFINE each == [n \in DOMAIN classifications |-> n]
           iter == CHOOSE g : g = [T \in SUBSET DOMAIN each |->
                      IF T = {} THEN Undecided
                      ELSE Override(t, f, g[T \ {Max(T)}], each[Max(T)])]
<1>0. DOMAIN each = DOMAIN classifications /\ \A n \in DOMAIN classifications : each[n] = n
  OBVIOUS
<1>1. DecidedBy(t, f) = iter[DOMAIN each]
  BY DEF DecidedBy, FoldLeft, MapThenFoldSet
<1>2. \A T \in SUBSET DOMAIN classifications : T = {} \/ each[Max(T)] = Max(T)
  <2> SUFFICES ASSUME NEW T \in SUBSET DOMAIN classifications, T # {} PROVE Max(T) \in T
    BY <1>0
  <2>1. T \in SUBSET (0..Len(classifications)) /\ Len(classifications) \in Nat
    OBVIOUS
  <2> QED  BY <2>1, MaxIsLast
<1> HIDE DEF each
<1>3. \A g : g = [T \in SUBSET DOMAIN each |->
                      IF T = {} THEN Undecided
                      ELSE Override(t, f, g[T \ {Max(T)}], each[Max(T)])] <=> Passes(g, t, f)
  BY <1>0, <1>2 DEF Passes
<1>4. Passes(iter, t, f)
  BY <1>3
<1> HIDE DEF iter
<1> QED  BY <1>0, <1>1, <1>4, PassesAgree

\* The classifications of t among T that decide f, and what the last of them leaves.
Deciding(t, f, T) ==
  {n \in T : /\ classifications[n].target = t
             /\ f \in classifications[n].accepted \/ Resolving(n, f) # {}}
Decider(f, n) == IF Resolving(n, f) # {} THEN <<"review", Newest(Resolving(n, f)).id>>
                 ELSE <<"classification", n>>
LastWord(t, f, T) ==
  IF Deciding(t, f, T) = {} THEN Undecided ELSE Decider(f, Max(Deciding(t, f, T)))

LEMMA DecidedAtLast ==
  ASSUME classifications \in Seq(Classification), NEW t, NEW f
  PROVE  DecidedBy(t, f) = LastWord(t, f, DOMAIN classifications)
<1> DEFINE S == DOMAIN classifications
           h == [T \in SUBSET S |-> LastWord(t, f, T)]
<1>0. S = 1..Len(classifications) /\ Len(classifications) \in Nat
  OBVIOUS
<1>1. ASSUME NEW T \in SUBSET S
      PROVE  LastWord(t, f, T) = IF T = {} THEN Undecided
                             ELSE Override(t, f, LastWord(t, f, T \ {Max(T)}), Max(T))
  <2>1. CASE T = {}
    BY <2>1 DEF LastWord, Deciding
  <2>2. CASE T # {}
    <3>0. T \in SUBSET (0..Len(classifications))
      BY <1>0
    <3>1. Max(T) \in T /\ \A n \in T : n <= Max(T)
      BY <1>0, <2>2, <3>0, MaxIsLast
    <3> PICK m \in T : m = Max(T)
      BY <3>1
    <3>2. CASE m \in Deciding(t, f, T)
      <4>1. Deciding(t, f, T) \in SUBSET (0..Len(classifications)) /\ Deciding(t, f, T) # {}
        BY <3>0, <3>2 DEF Deciding
      <4>2. Max(Deciding(t, f, T)) \in Deciding(t, f, T)
            /\ \A n \in Deciding(t, f, T) : n <= Max(Deciding(t, f, T))
        BY <1>0, <4>1, MaxIsLast
      <4>3. Max(Deciding(t, f, T)) \in T /\ m <= Max(Deciding(t, f, T))
        BY <3>2, <4>2 DEF Deciding
      <4>4. Max(Deciding(t, f, T)) = m
        <5> DEFINE d == Max(Deciding(t, f, T))
        <5>1. d \in Nat /\ m \in Nat /\ m <= d /\ d <= m
          BY <3>0, <3>1, <4>3
        <5> HIDE DEF d
        <5>2. d = m
          BY <5>1
        <5> QED  BY <5>2 DEF d
      <4>5. LastWord(t, f, T) = Decider(f, m)
        BY <4>1, <4>4 DEF LastWord
      <4>6. /\ classifications[m].target = t
            /\ f \in classifications[m].accepted \/ Resolving(m, f) # {}
        BY <3>2 DEF Deciding
      <4>7. \A d : Override(t, f, d, m) = Decider(f, m)
        BY <4>6 DEF Override, Decider
      <4> QED  BY <2>2, <4>5, <4>7
    <3>3. CASE m \notin Deciding(t, f, T)
      <4>1. Deciding(t, f, T \ {m}) = Deciding(t, f, T)
        BY <3>3 DEF Deciding
      <4>2. LastWord(t, f, T \ {m}) = LastWord(t, f, T)
        BY <4>1 DEF LastWord
      <4>3. \A d : Override(t, f, d, m) = d
        BY <3>3 DEF Override, Deciding
      <4> QED  BY <2>2, <4>2, <4>3
    <3> QED  BY <3>2, <3>3
  <2> QED  BY <2>1, <2>2
<1>2. ASSUME NEW T \in SUBSET S, T # {} PROVE T \ {Max(T)} \in SUBSET S
  OBVIOUS
<1>3. Passes(h, t, f)
  <2>1. \A T \in SUBSET S : h[T] = LastWord(t, f, T)
    OBVIOUS
  <2>2. h = [T \in SUBSET S |-> h[T]]
    OBVIOUS
  <2> HIDE DEF h
  <2>3. \A T \in SUBSET S : h[T] = IF T = {} THEN Undecided ELSE Override(t, f, h[T \ {Max(T)}], Max(T))
    BY <1>1, <1>2, <2>1
  <2> QED  BY <2>2, <2>3 DEF Passes
<1>4. DecidedBy(t, f) = h[S]
  BY <1>3, DecidedByPasses
<1> QED  BY <1>4

\* What is left to the last is a classification's own decision, or a review's.
LEMMA LastDecides ==
  ASSUME classifications \in Seq(Classification), NEW t, NEW f,
         Deciding(t, f, DOMAIN classifications) # {}
  PROVE  \E n \in Deciding(t, f, DOMAIN classifications) :
           /\ DecidedBy(t, f) = Decider(f, n)
           /\ \A m \in Deciding(t, f, DOMAIN classifications) : m <= n
<1> DEFINE D == Deciding(t, f, DOMAIN classifications)
<1>1. D \in SUBSET (0..Len(classifications)) /\ Len(classifications) \in Nat
  BY DEF Deciding
<1>2. Max(D) \in D /\ \A m \in D : m <= Max(D)
  <2> HIDE DEF D
  <2> QED  BY <1>1, MaxIsLast DEF D
<1>3. DecidedBy(t, f) = Decider(f, Max(D))
  BY DecidedAtLast DEF LastWord
<1> HIDE DEF D
<1> QED  BY <1>2, <1>3 DEF D

LEMMA NobodyDecides ==
  ASSUME classifications \in Seq(Classification), NEW t, NEW f,
         Deciding(t, f, DOMAIN classifications) = {}
  PROVE  DecidedBy(t, f) = Undecided
BY DecidedAtLast DEF LastWord

\* The last word is had in the next state as well.
LastWordCounts ==
  classifications \in Seq(Classification) =>
    \A t, f : DecidedBy(t, f) = LastWord(t, f, DOMAIN classifications)

LEMMA LastWordCountsNow == LastWordCounts
BY DecidedAtLast DEF LastWordCounts

LEMMA LastWordCountsNext == LastWordCounts'
BY LastWordCountsNow, PTL

\* The view stays what it would be built as, while the records stay.
LEMMA BuildsAlike ==
  ASSUME classifications \in Seq(Classification), UNCHANGED <<classifications, reviews>>
  PROVE  BuildView' = BuildView
<1>1. Active' = Active
  BY DEF Active
<1>2. \A n, f : Resolving(n, f)' = Resolving(n, f)
  BY <1>1 DEF Resolving
<1>3. \A n, f : Decider(f, n)' = Decider(f, n)
  BY <1>2 DEF Decider
<1>4. \A t, f, T : Deciding(t, f, T)' = Deciding(t, f, T)
  BY <1>2 DEF Deciding
<1>5. \A t, f, T : LastWord(t, f, T)' = LastWord(t, f, T)
  BY <1>3, <1>4 DEF LastWord
<1>6. ASSUME NEW t, NEW f PROVE DecidedBy(t, f)' = DecidedBy(t, f)
  <2>1. DecidedBy(t, f) = LastWord(t, f, DOMAIN classifications)
    BY DecidedAtLast
  <2>2. classifications' \in Seq(Classification)
    OBVIOUS
  <2>3. DecidedBy(t, f)' = LastWord(t, f, DOMAIN classifications)'
    BY <2>2, LastWordCountsNext DEF LastWordCounts
  <2>4. LastWord(t, f, DOMAIN classifications)' = LastWord(t, f, DOMAIN classifications)
    BY <1>5
  <2> QED  BY <2>1, <2>3, <2>4
<1>7. BuildView = [t \in Targets |-> [f \in Fields |-> DecidedBy(t, f)]]
  BY DEF BuildView
<1>8. BuildView' = [t \in Targets |-> [f \in Fields |-> DecidedBy(t, f)']]
  BY DEF BuildView
<1> QED  BY <1>6, <1>7, <1>8

(***************************************************************************)
(* What a view holds, or is about to be written as the view, was decided   *)
(* by the rules where it names a classification.  Without overlap ids are  *)
(* the reviews' own, a view under way is what would be built now, and the  *)
(* view itself is, unless somebody is about to write it or has died.       *)
(***************************************************************************)
RulesDecide(v, cs) ==
  \A t \in Targets, f \in Fields : v[t][f][1] = "classification" =>
    v[t][f][2] \in DOMAIN cs /\ cs[v[t][f][2]].by = "rules"

ViewsUnderWay == \A p \in Callers : call[p].phase = "view" => RulesDecide(call[p].view, classifications)

ViewIsBuilt ==
  ~overlapped =>
    /\ \A r, q \in reviews : r.id = q.id => r = q
    /\ \A p \in Callers : call[p].phase = "view" => call[p].view = BuildView
    /\ ~interrupted /\ (\A p \in Callers : call[p].phase \notin {"rebuild", "view"}) => view = BuildView

ViewInv == RulesDecide(view, classifications) /\ ViewsUnderWay /\ ViewIsBuilt

LEMMA BuiltByRules == ASSUME ProposalsInv PROVE RulesDecide(BuildView, classifications)
<1> SUFFICES ASSUME NEW t \in Targets, NEW f \in Fields, BuildView[t][f][1] = "classification"
             PROVE  BuildView[t][f][2] \in DOMAIN classifications
                    /\ classifications[BuildView[t][f][2]].by = "rules"
  BY DEF RulesDecide
<1>1. classifications \in Seq(Classification) /\ BuildView[t][f] = DecidedBy(t, f)
  BY DEF ProposalsInv, BuildView
<1>2. Deciding(t, f, DOMAIN classifications) # {}
  BY <1>1, NobodyDecides DEF Undecided
<1>3. PICK n \in Deciding(t, f, DOMAIN classifications) : DecidedBy(t, f) = Decider(f, n)
  BY <1>1, <1>2, LastDecides
<1>4. DecidedBy(t, f) = <<"classification", n>> /\ Resolving(n, f) = {}
  BY <1>1, <1>3 DEF Decider
<1>5. n \in DOMAIN classifications /\ f \in classifications[n].accepted
  BY <1>3, <1>4 DEF Deciding
<1> QED  BY <1>1, <1>4, <1>5 DEF ProposalsInv, ModelsAcceptNothing

\* Classifications are only added.
LEMMA ClassificationsGrow ==
  ASSUME ProposalsInv, Moves, ProposalsInv'
  PROVE  /\ \A n \in DOMAIN classifications :
              n \in DOMAIN classifications' /\ classifications'[n] = classifications[n]
         /\ \A v : RulesDecide(v, classifications) => RulesDecide(v, classifications')
<1>1. ASSUME NEW p \in Callers, WriteClassification(p)
      PROVE  \A n \in DOMAIN classifications :
               n \in DOMAIN classifications' /\ classifications'[n] = classifications[n]
  <2>1. PICK c : classifications' = Append(classifications, c)
    BY <1>1 DEF WriteClassification
  <2>2. classifications \in Seq(Classification) /\ classifications' \in Seq(Classification)
    BY DEF ProposalsInv
  <2>3. c \in Classification
    <3>1. Len(classifications') = Len(classifications) + 1 /\ c = classifications'[Len(classifications) + 1]
      BY <2>1, <2>2
    <3> QED  BY <2>2, <3>1
  <2> QED  BY <2>1, <2>2, <2>3
<1>2. ASSUME NEW p \in Callers, Review(p), ~WriteClassification(p)
      PROVE  classifications' = classifications
  BY <1>2 DEF Review, RecordReview, CheckConflicts, WriteReview, ReadRecords, WriteView, reviewVars
<1>3. \A n \in DOMAIN classifications :
        n \in DOMAIN classifications' /\ classifications'[n] = classifications[n]
  BY <1>1, <1>2 DEF Moves, ReviewMoves
<1> QED  BY <1>3 DEF RulesDecide

LEMMA ViewStarts == ASSUME CallsInit, ReviewInit, ProposalsInv PROVE ViewInv
<1>1. /\ view = [t \in Targets |-> [f \in Fields |-> Undecided]] /\ reviews = {}
      /\ classifications = <<>> /\ call = [p \in Callers |-> Idle]
  BY DEF CallsInit, ReviewInit
<1>2. \A t, f : DecidedBy(t, f) = Undecided
  BY <1>1, NobodyDecides DEF Deciding, ProposalsInv
<1>3. view = BuildView
  BY <1>1, <1>2 DEF BuildView
<1>4. RulesDecide(view, classifications)
  BY <1>3, BuiltByRules
<1>5. \A p \in Callers : call[p].phase = "idle"
  BY <1>1 DEF Idle
<1> QED  BY <1>1, <1>3, <1>4, <1>5 DEF ViewInv, ViewsUnderWay, ViewIsBuilt

LEMMA ViewElsewhere ==
  ASSUME ViewInv, ProposalsInv, Moves, ProposalsInv',
         UNCHANGED <<classifications, reviews, view>>, Elsewhere(ReviewPhases), Noticed
  PROVE  ViewInv'
<1>1. \A p \in Callers : call'[p].phase \in ReviewPhases => call'[p] = call[p]
  BY DEF Elsewhere
<1>2. RulesDecide(view', classifications') /\ ViewsUnderWay'
  <2>1. \A v : RulesDecide(v, classifications) => RulesDecide(v, classifications')
    BY ClassificationsGrow
  <2> QED  BY <1>1, <2>1 DEF ViewInv, ViewsUnderWay, ReviewPhases
<1>3. BuildView' = BuildView
  BY BuildsAlike DEF ProposalsInv
<1>4. ViewIsBuilt'
  <2> SUFFICES ASSUME ~overlapped' PROVE ViewIsBuilt'
    BY DEF ViewIsBuilt
  <2>1. ~overlapped
    BY DEF Elsewhere
  <2>2. /\ \A r, q \in reviews : r.id = q.id => r = q
        /\ \A p \in Callers : call[p].phase = "view" => call[p].view = BuildView
        /\ ~interrupted /\ (\A p \in Callers : call[p].phase \notin {"rebuild", "view"}) => view = BuildView
    BY <2>1 DEF ViewInv, ViewIsBuilt
  <2>3. \A p \in Callers : call'[p].phase = "view" => call'[p].view = BuildView
    BY <1>1, <2>2 DEF ReviewPhases
  <2>4. ASSUME ~interrupted', \A p \in Callers : call'[p].phase \notin {"rebuild", "view"}
        PROVE  view = BuildView
    <3>1. ~interrupted /\ \A p \in Callers : call[p].phase \notin {"rebuild", "view"}
      BY <2>4 DEF Noticed
    <3> QED  BY <2>2, <3>1
  <2> QED  BY <1>3, <2>2, <2>3, <2>4 DEF ViewIsBuilt
<1> QED  BY <1>2, <1>4 DEF ViewInv

LEMMA ViewMoves ==
  ASSUME CallsInv, ReviewInv, ViewInv, ProposalsInv, Moves, ProposalsInv', CallsInv', ReviewMoves
  PROVE  ViewInv'
<1> PICK p \in Callers : Review(p) /\ Step(p, ReviewPhases)
  BY DEF ReviewMoves
<1>0. /\ \A q \in Callers : q # p => call'[q] = call[q]
      /\ overlapped => overlapped'
      /\ \A v : RulesDecide(v, classifications) => RulesDecide(v, classifications')
      /\ \A n \in DOMAIN classifications : classifications'[n] = classifications[n]
  <2>1. overlapped => overlapped'
    BY DEF Step
  <2>2. \A q \in Callers : q # p => call'[q] = call[q]
    BY DEF Step
  <2> QED  BY <2>1, <2>2, ClassificationsGrow
\* The call does not come to writing a view, and the view stays.
<1>a. ASSUME view' = view, call'[p].phase # "view" PROVE RulesDecide(view', classifications') /\ ViewsUnderWay'
  BY <1>0, <1>a DEF ViewInv, ViewsUnderWay
\* Nobody else is in a call.
<1>b. ASSUME ~overlapped' PROVE \A q \in Callers : q # p => call'[q].phase = "idle"
  <2>1. call[p] # Idle \/ call'[p] # Idle
    <3>1. CASE WriteClassification(p)
      <4>1. call'[p] = [phase |-> "rebuild"]
        BY <3>1, NowAt DEF WriteClassification, CallsInv
      <4> QED  BY <4>1 DEF Idle
    <3>2. ASSUME NEW n, NEW fields, NEW s, RecordReview(p, n, fields, s) PROVE call'[p] # Idle
      <4>1. call'[p].phase = "conflicts"
        BY <3>2, NowAt DEF RecordReview, CallsInv
      <4> QED  BY <4>1 DEF Idle
    <3>3. CASE CheckConflicts(p) \/ WriteReview(p) \/ ReadRecords(p) \/ WriteView(p)
      BY <3>3 DEF CheckConflicts, WriteReview, ReadRecords, WriteView, Idle
    <3> QED  BY <3>1, <3>2, <3>3 DEF Review
  <2>2. \A q \in Callers : q # p => call'[q] = Idle
    BY <1>0, <1>b, <2>1 DEF CallsInv, OneCall
  <2> QED  BY <2>2 DEF Idle
\* No record is written, nobody starts or ends to build.
<1>c. ASSUME UNCHANGED <<classifications, reviews, view, interrupted>>,
             call'[p].phase \notin {"rebuild", "view"}, call[p].phase \notin {"rebuild", "view"}
      PROVE  ViewInv'
  <2>1. BuildView' = BuildView
    BY <1>c, BuildsAlike DEF ProposalsInv
  <2>2. ViewIsBuilt'
    <3> SUFFICES ASSUME ~overlapped' PROVE ViewIsBuilt'
      BY DEF ViewIsBuilt
    <3>1. /\ \A r, q \in reviews : r.id = q.id => r = q
          /\ ~interrupted /\ (\A q \in Callers : call[q].phase \notin {"rebuild", "view"}) => view = BuildView
      BY <1>0 DEF ViewInv, ViewIsBuilt
    <3>2. \A q \in Callers : call'[q].phase \notin {"rebuild", "view"}
      BY <1>b, <1>c
    <3>3. \A q \in Callers : call[q].phase \notin {"rebuild", "view"}
      BY <1>0, <1>b, <1>c
    <3> QED  BY <1>c, <2>1, <3>1, <3>2, <3>3 DEF ViewIsBuilt
  <2> QED  BY <1>a, <1>c, <2>2 DEF ViewInv
\* A record is written, and the view is to be rebuilt.
<1>d. ASSUME view' = view, call'[p].phase = "rebuild",
             ~overlapped' => \A r, q \in reviews' : r.id = q.id => r = q
      PROVE  ViewInv'
  <2>1. ViewIsBuilt'
    <3> SUFFICES ASSUME ~overlapped' PROVE ViewIsBuilt'
      BY DEF ViewIsBuilt
    <3>1. \A q \in Callers : call'[q].phase # "view"
      BY <1>b, <1>d
    <3> QED  BY <1>d, <3>1 DEF ViewIsBuilt
  <2> QED  BY <1>a, <1>d, <2>1 DEF ViewInv
<1>1. CASE WriteClassification(p)
  <2>1. call'[p] = [phase |-> "rebuild"] /\ UNCHANGED <<reviews, view>>
    BY <1>1, NowAt DEF WriteClassification, CallsInv
  <2> QED  BY <1>0, <1>d, <2>1 DEF ViewInv, ViewIsBuilt
<1>2. ASSUME NEW n \in DOMAIN classifications, NEW fields \in SUBSET Fields, NEW s,
             RecordReview(p, n, fields, s)
      PROVE  ViewInv'
  <2> DEFINE next == [phase |-> "conflicts", on |-> n, fields |-> fields, supersedes |-> s, id |-> 0]
  <2>0. Enter(p, next) /\ UNCHANGED reviewVars
    BY <1>2 DEF RecordReview
  <2> HIDE DEF next
  <2>1. call'[p] = next /\ call[p] = Idle /\ UNCHANGED reviewVars
    BY <2>0, NowAt DEF CallsInv, Enter
  <2>2. next.phase = "conflicts"
    BY DEF next
  <2> QED  BY <1>c, <2>1, <2>2 DEF reviewVars, Idle
<1>3. CASE CheckConflicts(p)
  <2> DEFINE next == [call[p] EXCEPT !.phase = "review", !.id = 1 + Max(Minted \cup {0})]
  <2>1. /\ call[p].phase = "conflicts" /\ UNCHANGED reviewVars
        /\ call'[p] = Idle \/ call'[p] = next
    BY <1>3, NowAt DEF CheckConflicts, CallsInv
  <2>2. next.phase = "review"
    BY DEF CallsInv, CallsOK
  <2> HIDE DEF next
  <2>3. call'[p].phase \in {"idle", "review"}
    BY <2>1, <2>2 DEF Idle
  <2> QED  BY <1>c, <2>1, <2>3 DEF reviewVars
<1>4. CASE WriteReview(p)
  <2> PICK v : v = [id |-> call[p].id, on |-> call[p].on, fields |-> call[p].fields,
                    supersedes |-> call[p].supersedes]
    OBVIOUS
  <2>1. /\ call[p].phase = "review" /\ call'[p] = [phase |-> "rebuild"]
        /\ reviews' = reviews \cup {v} /\ overlapped' = overlapped /\ view' = view
    BY <1>4, NowAt DEF WriteReview, CallsInv, Go
  <2>2. ASSUME ~overlapped' PROVE \A r, q \in reviews' : r.id = q.id => r = q
    <3>1. /\ \A r, q \in reviews : r.id = q.id => r = q
          /\ v.id \in Nat /\ \A r \in reviews : r.id \in Nat /\ r.id < v.id
      BY <2>1, <2>2 DEF ViewInv, ViewIsBuilt, ReviewInv, ReviewsInOrder, Checked, ReviewIds
    <3> QED  BY <2>1, <3>1
  <2> QED  BY <1>d, <2>1, <2>2
<1>5. CASE ReadRecords(p)
  <2>1. call'[p] = [phase |-> "view", view |-> BuildView] /\ UNCHANGED reviewVars
    BY <1>5, NowAt DEF ReadRecords, CallsInv
  <2>2. BuildView' = BuildView
    BY <2>1, BuildsAlike DEF ProposalsInv, reviewVars
  <2> DEFINE next == [phase |-> "view", view |-> BuildView]
  <2>3. next.phase = "view" /\ next.view = BuildView
    OBVIOUS
  <2>4. call'[p].phase = "view" /\ call'[p].view = BuildView
    BY <2>1, <2>3
  <2>5. RulesDecide(view', classifications') /\ ViewsUnderWay'
    BY <1>0, <2>1, <2>4, BuiltByRules DEF ViewInv, ViewsUnderWay, reviewVars
  <2>6. ViewIsBuilt'
    <3> SUFFICES ASSUME ~overlapped' PROVE ViewIsBuilt'
      BY DEF ViewIsBuilt
    <3>1. \A q \in Callers : call'[q].phase = "view" => call'[q].view = BuildView
      BY <1>b, <2>4
    <3>2. \A r, q \in reviews : r.id = q.id => r = q
      BY <1>0 DEF ViewInv, ViewIsBuilt
    <3> QED  BY <2>1, <2>2, <2>4, <3>1, <3>2 DEF ViewIsBuilt, reviewVars
  <2> QED  BY <2>5, <2>6 DEF ViewInv
<1>6. CASE WriteView(p)
  <2>1. /\ call[p].phase = "view" /\ call'[p] = Idle /\ view' = call[p].view
        /\ UNCHANGED <<classifications, reviews>> /\ overlapped' = overlapped
    BY <1>6, NowAt DEF WriteView, CallsInv, Go
  <2>2. RulesDecide(view', classifications') /\ ViewsUnderWay'
    BY <1>0, <2>1 DEF ViewInv, ViewsUnderWay, Idle
  <2>3. ViewIsBuilt'
    <3>1. BuildView' = BuildView
      BY <2>1, BuildsAlike DEF ProposalsInv
    <3> SUFFICES ASSUME ~overlapped' PROVE ViewIsBuilt'
      BY DEF ViewIsBuilt
    <3>2. /\ \A r, q \in reviews : r.id = q.id => r = q
          /\ view' = BuildView
      BY <2>1 DEF ViewInv, ViewIsBuilt
    <3>3. \A q \in Callers : call'[q].phase # "view"
      BY <1>b, <2>1 DEF Idle
    <3> QED  BY <2>1, <3>1, <3>2, <3>3 DEF ViewIsBuilt
  <2> QED  BY <2>2, <2>3 DEF ViewInv
<1> QED  BY <1>1, <1>2, <1>3, <1>4, <1>5, <1>6 DEF Review

\* Ids are numbers up to one of them: some review in force is the newest.
LEMMA NewestIsOne ==
  ASSUME ~overlapped, ReviewsInOrder, NEW rs \in SUBSET reviews, rs # {}
  PROVE  Newest(rs) \in rs /\ \A q \in rs : q.id <= Newest(rs).id
<1> DEFINE ids == {r.id : r \in rs}
<1>1. PICK m \in ReviewIds \cup {0} : \A x \in ReviewIds \cup {0} : x <= m
  BY DEF ReviewsInOrder
<1>2. ReviewIds \subseteq Nat /\ ids \subseteq ReviewIds /\ ids # {}
  BY DEF ReviewsInOrder, ReviewIds
<1>3. m \in Nat /\ ids \in SUBSET (0..m)
  <2>1. \A x \in ids : x \in Nat /\ x <= m
    BY <1>1, <1>2
  <2>2. m \in Nat
    BY <1>1, <1>2
  <2> HIDE DEF ids
  <2> QED  BY <2>1, <2>2
<1>4. PICK x \in ids : \A y \in ids : y <= x
  <2> HIDE DEF ids
  <2> QED  BY <1>2, <1>3, SomeLast
<1>5. PICK r \in rs : r.id = x
  BY <1>4
<1>6. \A q \in rs : q.id <= r.id
  BY <1>4, <1>5
<1> QED  BY <1>6 DEF Newest

LEMMA ViewShows == ASSUME ProposalsInv, ReviewInv, ViewInv PROVE ViewShowsWhoDecides
<1> SUFFICES ASSUME ~overlapped, ~interrupted, AllIdle, NEW t \in Targets, NEW f \in Fields
             PROVE  LET d == view[t][f]
                        mine == {n \in DOMAIN classifications : classifications[n].target = t}
                        deciding == {n \in mine : f \in classifications[n].accepted \/ Resolving(n, f) # {}}
                    IN  IF deciding = {} THEN d = Undecided
                        ELSE /\ Decides(f, d) # {}
                             /\ \A n \in Decides(f, d) : n \in mine /\ \A m \in deciding : m <= n
                             /\ \A n \in Decides(f, d) : \A r \in Resolving(n, f) :
                                  d[1] = "review" /\ r.id <= d[2]
  BY DEF ViewShowsWhoDecides
<1> DEFINE d == view[t][f]
           mine == {n \in DOMAIN classifications : classifications[n].target = t}
           deciding == {n \in mine : f \in classifications[n].accepted \/ Resolving(n, f) # {}}
<1>1. /\ classifications \in Seq(Classification) /\ ReviewsInOrder
      /\ view = BuildView /\ \A r, q \in reviews : r.id = q.id => r = q
  BY DEF AllIdle, Idle, ProposalsInv, ReviewInv, ViewInv, ViewIsBuilt
<1>2. d = DecidedBy(t, f) /\ deciding = Deciding(t, f, DOMAIN classifications)
  BY <1>1 DEF BuildView, Deciding
<1>3. CASE deciding = {}
  BY <1>1, <1>2, <1>3, NobodyDecides
<1>4. CASE deciding # {}
  <2>1. PICK n \in deciding : d = Decider(f, n) /\ \A m \in deciding : m <= n
    <3> HIDE DEF d, deciding
    <3> QED  BY <1>1, <1>2, <1>4, LastDecides
  <2>2. CASE Resolving(n, f) # {}
    <3> DEFINE r == Newest(Resolving(n, f))
    <3>1. r \in Resolving(n, f) /\ \A q \in Resolving(n, f) : q.id <= r.id
      <4>1. Resolving(n, f) \in SUBSET reviews
        BY DEF Resolving, Active
      <4> QED  BY <1>1, <2>2, <4>1, NewestIsOne
    <3>2. d = <<"review", r.id>>
      BY <2>1, <2>2 DEF Decider
    <3> HIDE DEF r, d
    <3>3. r \in Active /\ r.on = n /\ f \in r.fields
      BY <3>1 DEF Resolving
    <3>4. {q \in Active : q.id = d[2] /\ f \in q.fields} = {r}
      BY <1>1, <3>2, <3>3 DEF Active
    <3>5. Decides(f, d) = {n}
      BY <3>2, <3>3, <3>4 DEF Decides
    <3>6. n \in mine
      BY <2>1
    <3>7. d[1] = "review" /\ \A q \in Resolving(n, f) : q.id <= d[2]
      BY <3>1, <3>2
    <3> HIDE DEF mine, deciding
    <3> QED  BY <1>4, <2>1, <3>5, <3>6, <3>7 DEF mine, deciding, d
  <2>3. CASE Resolving(n, f) = {}
    <3>1. d = <<"classification", n>>
      BY <2>1, <2>3 DEF Decider
    <3>2. n \in mine /\ f \in classifications[n].accepted
      BY <2>1, <2>3
    <3> HIDE DEF d
    <3>3. Decides(f, d) = {n}
      BY <3>1, <3>2 DEF Decides
    <3> QED  BY <1>4, <2>1, <2>3, <3>2, <3>3 DEF d
  <2> QED  BY <2>2, <2>3
<1> QED  BY <1>3, <1>4

-----------------------------------------------------------------------------
(***************************************************************************)
(* All of them together.                                                   *)
(***************************************************************************)
Inv == /\ CallsInv /\ EngineInv /\ ReviewInv /\ HandoffInv
       /\ ConfigInv /\ KeyInv /\ LoadInv /\ ProposalsInv /\ ViewInv

LEMMA InvStarts == Init => Inv
<1> SUFFICES ASSUME Init PROVE Inv
  OBVIOUS
<1>1. CallsInit /\ EngineInit /\ ReviewInit /\ PanelInit /\ HandoffInit
  BY DEF Init
<1>2. ProposalsInv
  BY <1>1 DEF ReviewInit, ProposalsInv, ModelsAcceptNothing
<1> QED  BY <1>1, <1>2, CallsStart, EngineStarts, ReviewsStart, HandoffsStart, ConfigStarts,
            KeysStart, LoadsStart, ViewStarts DEF Inv

LEMMA InvStays == Inv /\ [Next]_vars => Inv'
<1> SUFFICES ASSUME Inv, [Next]_vars PROVE Inv'
  OBVIOUS
<1> USE DEF Inv
<1>1. Moves
  BY EveryStepMoves DEF LoadInv
<1>2. CallsInv' /\ ProposalsInv'
  BY <1>1, ProposalsStay DEF Moves
<1>3. EngineInv'
  BY <1>1, <1>2, EngineElsewhere, EngineMoved DEF Moves
<1>4. ReviewInv'
  BY <1>1, <1>2, ReviewsElsewhere, ReviewsMoved DEF Moves
<1>5. HandoffInv'
  BY <1>1, <1>2, HandoffsElsewhere, HandoffsMove DEF Moves
<1>6. ConfigInv'
  BY <1>1, <1>2, ConfigElsewhere, ConfigMoved DEF Moves
<1>7. KeyInv'
  BY <1>1, <1>2, KeysElsewhere, KeysMove DEF Moves
<1>8. LoadInv'
  BY <1>1, <1>2, LoadsElsewhere, LoadsMove DEF Moves
<1>9. ViewInv'
  BY <1>1, <1>2, ViewElsewhere, ViewMoves DEF Moves
<1> QED  BY <1>2, <1>3, <1>4, <1>5, <1>6, <1>7, <1>8, <1>9

LEMMA InvHolds == Spec => []Inv
BY InvStarts, InvStays, PTL DEF Spec

-----------------------------------------------------------------------------
(***************************************************************************)
(* run_decision: attempts at a request are one chain unless calls overlap, *)
(* and a retry always continues an attempt at its own request.             *)
(***************************************************************************)
THEOREM DecisionsChained == Spec => []DecisionsFormAChain
<1>1. Inv => DecisionsFormAChain
  BY DEF Inv, EngineInv
<1> QED  BY <1>1, InvHolds, PTL

(***************************************************************************)
(* record_review: reviewers who do not overlap override each other only by *)
(* superseding a review they conflict with, and each review at most once.  *)
(***************************************************************************)
THEOREM ReviewsReconciled == Spec => []ReviewsAreReconciled
<1>1. Inv => ReviewsAreReconciled
  BY DEF Inv, ReviewInv
<1> QED  BY <1>1, InvHolds, PTL

(***************************************************************************)
(* Classification: no answer of a model is ever recorded as accepted, how  *)
(* sure it may be, for any threshold, fields and labels.                   *)
(***************************************************************************)
THEOREM ModelsOnlyPropose == Spec => []ModelsAcceptNothing
<1>1. Inv => ModelsAcceptNothing
  BY DEF Inv, ProposalsInv
<1> QED  BY <1>1, InvHolds, PTL

(***************************************************************************)
(* The view: whatever calls overlap or die, a field it shows without a     *)
(* review was decided by the rules.                                        *)
(***************************************************************************)
THEOREM RulesDecideAlone == Spec => []OnlyRulesDecideAlone
<1>1. Inv => OnlyRulesDecideAlone
  BY DEF Inv, ViewInv, RulesDecide, OnlyRulesDecideAlone
<1> QED  BY <1>1, InvHolds, PTL

(***************************************************************************)
(* The view: between calls that did not overlap, and once it was rebuilt   *)
(* after a crash, it names the record that decides each field.             *)
(***************************************************************************)
THEOREM ViewShowsTheDecider == Spec => []ViewShowsWhoDecides
<1>1. Inv => ViewShowsWhoDecides
  BY ViewShows DEF Inv
<1> QED  BY <1>1, InvHolds, PTL

(***************************************************************************)
(* Handoffs: a record says what was answered last, and without overlap     *)
(* nothing that was ever answered lost its trace.                          *)
(***************************************************************************)
THEOREM HandoffsOnRecord == Spec => []AnswersAreOnRecord
<1>1. Inv => AnswersAreOnRecord
  BY DEF Inv, HandoffInv
<1> QED  BY <1>1, InvHolds, PTL

(***************************************************************************)
(* Saving the configuration: the revision check and the lock of a console  *)
(* keep its browsers from overwriting what they have not seen.             *)
(***************************************************************************)
THEOREM NoBlindSaves == Spec => []SavesReplaceWhatWasSeen
<1>1. Inv => SavesReplaceWhatWasSeen
  BY DEF Inv, ConfigInv, SavesReplaceWhatWasSeen
<1> QED  BY <1>1, InvHolds, PTL

(***************************************************************************)
(* Saving keys: under the lock of the workspace no save of a key undoes    *)
(* another, as long as the saved keys could be read.                       *)
(***************************************************************************)
THEOREM KeysSurvive == Spec => []SavedKeysStay
<1>1. Inv => SavedKeysStay
  BY DEF Inv, KeyInv, SavedKeysStay
<1> QED  BY <1>1, InvHolds, PTL

(***************************************************************************)
(* Downloading the model: one thread per console, and exactly while the    *)
(* status says so, but for a thread that could not be started.             *)
(***************************************************************************)
THEOREM DownloadsAlone == Spec => []OneModelLoads
<1>1. Inv => OneModelLoads
  BY DEF Inv, LoadInv, LoadsOne, Begun, OneModelLoads
<1> QED  BY <1>1, InvHolds, PTL
=============================================================================
