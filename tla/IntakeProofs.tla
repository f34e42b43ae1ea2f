---------------------------- MODULE IntakeProofs ----------------------------
(***************************************************************************)
(* Proofs about Intake, for any number of processes, files, links, kinds   *)
(* and batches that race, are refused and die: rows are backed by records, *)
(* evidence cites what is there, and as long as calls do not overlap,      *)
(* contents are registered once and quoted for good.                       *)
(*                                                                         *)
(* The predicates below say what a record, a text of the queue or a call   *)
(* needs of the records on disk, which are their last arguments; records   *)
(* only grow, so what is needed stays.                                     *)
(***************************************************************************)
EXTENDS Intake, TLAPS

Source == [url : Urls \cup {None}, content : Contents \cup {None}]
Good == {i \in Item : Display(i) # None}
Rows == [Names -> Statuses \cup {None}]
Entry == [file : Files, source : Nat, status : Statuses]
Citation == [kind : Kinds, cites : SUBSET Nat, from : SUBSET Nat, seen : Contents \cup {None}]

\* A row of an item needs its source, or its intake record.
Backed(n, src, itk) ==
  IF n \in Urls THEN \E s \in DOMAIN src : src[s].url = n
  ELSE \E kind \in RawKinds : itk[<<Raw[n], kind>>] # None

TextFits(text, src, itk) ==
  text \in Rows /\ \A n \in Names : text[n] # None => Backed(n, src, itk)

\* A source without a URL is the source of its content.
Holds(s, content, src) ==
  s \in DOMAIN src /\ (src[s].content = content \/ src[s].url # None)

StoreFits(src) ==
  /\ src \in Seq(Source)
  /\ \A s \in DOMAIN src : src[s].url = None => src[s].content # None

IntakeFits(itk, src) ==
  /\ DOMAIN itk = Keys
  /\ \A k \in Keys : itk[k] # None => itk[k] \in Entry /\ Holds(itk[k].source, k[1], src)

\* What a record cites is there.
Rests(e, src, ev) ==
  /\ e \in Citation
  /\ e.from \subseteq DOMAIN src
  /\ e.kind # "entity" => \A s \in e.from : src[s].content # None
  /\ e.cites \subseteq DOMAIN ev
  /\ \A c \in e.cites : ev[c].kind \in {"claim", "segment"}

EvidenceFits(ev, src) ==
  ev \in Seq(Citation) /\ \A n \in DOMAIN ev : Rests(ev[n], src, ev)

-----------------------------------------------------------------------------
\* The calls, by kind: registrations, acquisitions on their own, changes of
\* status, and records that cite.
Working == {"resolve", "register", "acquire", "acquiring", "record", "recording"}
Acquiring == {"acquire", "acquiring"}
Jobs == [phase : Working \cup {"queue"}, items : Seq(Good), kind : RawKinds, status : Statuses,
         source : Nat \cup {None}, text : Rows, added : BOOLEAN]
Owns == [phase : Acquiring, items : {<<>>}, kind : {None}, status : {None},
         source : Nat \cup {None}, text : Files, added : BOOLEAN]
Syncs == [phase : {"sync", "queue"}, key : Keys, status : Statuses, text : Rows]
Cites == [phase : {"citing"}, record : Citation]

JobFits(c, src, itk) ==
  /\ c \in Jobs /\ TextFits(c.text, src, itk)
  /\ c.phase \in Working => c.items # <<>>
  /\ c.phase \in Acquiring \cup {"record", "recording"} => Head(c.items).file # None
  /\ c.phase \in {"record", "recording"} => Holds(c.source, Content(Head(c.items)), src)
  /\ c.phase \in Acquiring => c.source \in DOMAIN src /\ src[c.source].url # None

OwnFits(c, src) ==
  /\ c \in Owns /\ c.source \in DOMAIN src
  /\ c.phase = "acquiring" => src[c.source].url # None

SyncFits(c, src, itk) ==
  c \in Syncs /\ TextFits(c.text, src, itk) /\ itk[c.key] # None

CiteFits(c, src, ev) == c \in Cites /\ Rests(c.record, src, ev)

Fits(c, src, itk, ev) ==
  c = Idle \/ JobFits(c, src, itk) \/ OwnFits(c, src) \/ SyncFits(c, src, itk) \/ CiteFits(c, src, ev)

-----------------------------------------------------------------------------
\* How records grow.  Only sources with a URL change their content.
Grown(src, src2) ==
  /\ DOMAIN src \subseteq DOMAIN src2
  /\ \A s \in DOMAIN src : /\ src2[s].url = src[s].url
                           /\ src[s].content # None => src2[s].content # None
                           /\ src[s].url = None => src2[s].content = src[s].content
Filled(itk, itk2) == \A k \in Keys : itk[k] # None => itk2[k] # None
Longer(ev, ev2) == DOMAIN ev \subseteq DOMAIN ev2 /\ \A n \in DOMAIN ev : ev2[n] = ev[n]

LEMMA TextStays ==
  ASSUME NEW text, NEW src, NEW src2, NEW itk, NEW itk2,
         TextFits(text, src, itk), Grown(src, src2), Filled(itk, itk2)
  PROVE  TextFits(text, src2, itk2)
<1>1. ASSUME NEW n \in Names, Backed(n, src, itk) PROVE Backed(n, src2, itk2)
  <2>1. CASE n \in Urls
    BY <1>1, <2>1 DEF Backed, Grown
  <2>2. CASE n \notin Urls
    <3>1. \A kind \in RawKinds : <<Raw[n], kind>> \in Keys
      BY <2>2, RawIsKnown DEF Names, Keys
    <3> QED  BY <1>1, <2>2, <3>1 DEF Backed, Filled
  <2> QED  BY <2>1, <2>2
<1> QED  BY <1>1 DEF TextFits

LEMMA HoldsStays ==
  ASSUME NEW s, NEW content, NEW src, NEW src2, Holds(s, content, src), Grown(src, src2)
  PROVE  Holds(s, content, src2)
BY DEF Holds, Grown

LEMMA RestsStays ==
  ASSUME NEW e, NEW src, NEW src2, NEW ev, NEW ev2,
         Rests(e, src, ev), Grown(src, src2), Longer(ev, ev2)
  PROVE  Rests(e, src2, ev2)
BY DEF Rests, Grown, Longer

LEMMA FitsStays ==
  ASSUME NEW c, NEW src, NEW src2, NEW itk, NEW itk2, NEW ev, NEW ev2,
         Fits(c, src, itk, ev), Grown(src, src2), Filled(itk, itk2), Longer(ev, ev2)
  PROVE  Fits(c, src2, itk2, ev2)
<1>1. CASE JobFits(c, src, itk)
  <2>1. TextFits(c.text, src2, itk2)
    BY <1>1, TextStays DEF JobFits
  <2>2. c.phase \in {"record", "recording"} => Holds(c.source, Content(Head(c.items)), src2)
    BY <1>1, HoldsStays DEF JobFits
  <2>3. c.phase \in Acquiring => c.source \in DOMAIN src2 /\ src2[c.source].url # None
    BY <1>1 DEF JobFits, Grown
  <2> QED  BY <1>1, <2>1, <2>2, <2>3 DEF Fits, JobFits
<1>2. CASE OwnFits(c, src)
  BY <1>2 DEF OwnFits, Fits, Grown
<1>3. CASE SyncFits(c, src, itk)
  <2>1. TextFits(c.text, src2, itk2)
    BY <1>3, TextStays DEF SyncFits
  <2>2. c.key \in Keys
    BY <1>3 DEF SyncFits, Syncs
  <2> QED  BY <1>3, <2>1, <2>2 DEF SyncFits, Fits, Filled
<1>4. CASE CiteFits(c, src, ev)
  BY <1>4, RestsStays DEF CiteFits, Fits
<1> QED  BY <1>1, <1>2, <1>3, <1>4 DEF Fits

-----------------------------------------------------------------------------
(***************************************************************************)
(* The invariants: of all calls, and of calls that come one after another. *)
(***************************************************************************)
CallsOK == DOMAIN call = Callers /\ overlapped \in BOOLEAN

IntakeInv ==
  /\ CallsOK
  /\ StoreFits(sources) /\ IntakeFits(intake, sources) /\ EvidenceFits(evidence, sources)
  /\ TextFits(queue, sources, intake)
  /\ \A p \in Callers : Fits(call[p], sources, intake, evidence)

BytesOf(c) == IF c.items = <<>> THEN Raw[c.text] ELSE Content(Head(c.items))
Unseen(content, src) == \A s \in DOMAIN src : src[s].content # content
Unique(src) ==
  \A s, t \in DOMAIN src : s # t /\ src[s].content # None => src[s].content # src[t].content
Quotes(e, src) == e.kind = "segment" => \A s \in e.from : src[s].content = e.seen

\* What a call alone found is still so.
AloneFits(c, src) ==
  /\ c.phase = "register" /\ Head(c.items).file # None => Unseen(Content(Head(c.items)), src)
  /\ c.phase = "acquiring" => src[c.source].content = None /\ Unseen(BytesOf(c), src)
  /\ c.phase = "citing" => Quotes(c.record, src)

AloneInv ==
  ~overlapped => /\ \A p, q \in Callers : call[p] # Idle /\ call[q] # Idle => p = q
                 /\ Unique(sources) /\ \A n \in DOMAIN evidence : Quotes(evidence[n], sources)
                 /\ \A p \in Callers : AloneFits(call[p], sources)

\* p's call is at c now; it went on, or was begun.
Moved(p, c) ==
  /\ CallsOK' /\ call'[p] = c /\ \A q \in Callers : q # p => call'[q] = call[q]
  /\ \/ overlapped' = overlapped /\ call[p] # Idle
     \/ overlapped' = (overlapped \/ ~AllIdle)

LEMMA Entered == ASSUME CallsOK, NEW p \in Callers, NEW c, Enter(p, c) PROVE Moved(p, c)
<1>1. call' = [call EXCEPT ![p] = c] /\ overlapped' = (overlapped \/ ~AllIdle)
  BY DEF Enter
<1>2. CallsOK'
  BY <1>1 DEF CallsOK
<1> QED  BY <1>1, <1>2 DEF Moved, CallsOK

LEMMA Gone ==
  ASSUME CallsOK, NEW p \in Callers, NEW c, Go(p, c), call[p] # Idle
  PROVE  Moved(p, c)
<1>1. call' = [call EXCEPT ![p] = c] /\ overlapped' = overlapped
  BY DEF Go
<1>2. CallsOK'
  BY <1>1 DEF CallsOK
<1> QED  BY <1>1, <1>2 DEF Moved, CallsOK

LEMMA IdleFits ==
  ASSUME NEW src, NEW itk, NEW ev
  PROVE  Fits(Idle, src, itk, ev) /\ AloneFits(Idle, src)
BY DEF Fits, AloneFits, Idle

\* A call that moves while records grow leaves the other calls fitting.
LEMMA StepFits ==
  ASSUME IntakeInv, NEW p \in Callers, NEW c, Moved(p, c), Fits(c, sources', intake', evidence'),
         Grown(sources, sources'), Filled(intake, intake'), Longer(evidence, evidence'),
         StoreFits(sources'), IntakeFits(intake', sources'), EvidenceFits(evidence', sources'),
         TextFits(queue', sources', intake')
  PROVE  IntakeInv'
<1>1. ASSUME NEW q \in Callers PROVE Fits(call'[q], sources', intake', evidence')
  <2>1. CASE q = p
    BY <2>1 DEF Moved
  <2>2. CASE q # p
    <3>1. Fits(call[q], sources, intake, evidence) /\ call'[q] = call[q]
      BY <2>2 DEF IntakeInv, Moved
    <3>2. Fits(call[q], sources', intake', evidence')
      BY <3>1, FitsStays
    <3> QED  BY <3>1, <3>2
  <2> QED  BY <2>1, <2>2
<1> QED  BY <1>1 DEF IntakeInv, Moved

\* A call alone that leaves records in order, and itself.
LEMMA StepAlone ==
  ASSUME AloneInv, NEW p \in Callers, NEW c, Moved(p, c),
         ~overlapped => /\ Unique(sources') /\ AloneFits(c, sources')
                        /\ \A n \in DOMAIN evidence' : Quotes(evidence'[n], sources')
  PROVE  AloneInv'
<1> SUFFICES ASSUME ~overlapped' PROVE AloneInv'
  BY DEF AloneInv
<1>1. ~overlapped /\ \A q \in Callers : q # p => call[q] = Idle
  <2>1. CASE overlapped' = overlapped /\ call[p] # Idle
    BY <2>1 DEF AloneInv
  <2>2. CASE overlapped' = (overlapped \/ ~AllIdle)
    <3>1. ~(overlapped \/ ~AllIdle)
      BY <2>2
    <3> QED  BY <3>1 DEF AllIdle
  <2> QED  BY <2>1, <2>2 DEF Moved
<1>2. \A q \in Callers : q # p => call'[q] = Idle
  BY <1>1 DEF Moved
<1>3. \A q \in Callers : AloneFits(call'[q], sources')
  BY <1>1, <1>2, IdleFits DEF Moved
<1> QED  BY <1>1, <1>2, <1>3 DEF AloneInv

-----------------------------------------------------------------------------
(***************************************************************************)
(* Records as they grow.                                                   *)
(***************************************************************************)
LEMMA NothingGrows ==
  ASSUME NEW src, NEW itk, NEW ev
  PROVE  Grown(src, src) /\ Filled(itk, itk) /\ Longer(ev, ev)
BY DEF Grown, Filled, Longer

LEMMA IntakeStays ==
  ASSUME NEW itk, NEW src, NEW src2, IntakeFits(itk, src), Grown(src, src2)
  PROVE  IntakeFits(itk, src2)
BY HoldsStays DEF IntakeFits

LEMMA EvidenceStays ==
  ASSUME NEW ev, NEW src, NEW src2, EvidenceFits(ev, src), Grown(src, src2)
  PROVE  EvidenceFits(ev, src2)
BY RestsStays, NothingGrows DEF EvidenceFits

LEMMA Appended ==
  ASSUME NEW S, NEW q \in Seq(S), NEW x \in S
  PROVE  LET q2 == Append(q, x) IN
         /\ q2 \in Seq(S) /\ q2[Len(q) + 1] = x
         /\ Len(q) + 1 \notin DOMAIN q /\ DOMAIN q2 = DOMAIN q \cup {Len(q) + 1}
         /\ \A i \in DOMAIN q : q2[i] = q[i]
<1>1. DOMAIN q = 1..Len(q) /\ Len(q) \in Nat
  OBVIOUS
<1>2. /\ Append(q, x) \in Seq(S) /\ Len(Append(q, x)) = Len(q) + 1
      /\ DOMAIN Append(q, x) = 1..(Len(q) + 1)
      /\ Append(q, x)[Len(q) + 1] = x /\ \A i \in 1..Len(q) : Append(q, x)[i] = q[i]
  OBVIOUS
<1>3. 1..(Len(q) + 1) = (1..Len(q)) \cup {Len(q) + 1} /\ Len(q) + 1 \notin 1..Len(q)
  BY <1>1
<1> QED  BY <1>1, <1>2, <1>3

LEMMA SourceWritten ==
  ASSUME StoreFits(sources), NEW url \in Urls \cup {None}, NEW content \in Contents \cup {None},
         url = None => content # None, WriteSource(url, content)
  PROVE  LET new == Len(sources) + 1 IN
         /\ StoreFits(sources') /\ Grown(sources, sources')
         /\ new \notin DOMAIN sources /\ DOMAIN sources' = DOMAIN sources \cup {new}
         /\ sources'[new].url = url /\ sources'[new].content = content
         /\ \A s \in DOMAIN sources : sources'[s] = sources[s]
<1> DEFINE x == [url |-> url, content |-> content]
<1>1. x \in Source /\ sources \in Seq(Source) /\ sources' = Append(sources, x)
  BY DEF Source, StoreFits, WriteSource
<1>2. x.url = url /\ x.content = content
  OBVIOUS
<1> HIDE DEF x
<1> QED  BY <1>1, <1>2, Appended DEF StoreFits, Grown

LEMMA AcquiredWritten ==
  ASSUME StoreFits(sources), NEW s \in DOMAIN sources, sources[s].url # None,
         NEW content \in Contents, WriteAcquired(s, content)
  PROVE  /\ StoreFits(sources') /\ Grown(sources, sources') /\ DOMAIN sources' = DOMAIN sources
         /\ sources'[s].content = content
         /\ \A t \in DOMAIN sources : t # s => sources'[t] = sources[t]
<1>1. sources \in Seq(Source) /\ DOMAIN sources = 1..Len(sources) /\ sources[s] \in Source
  BY DEF StoreFits
<1> DEFINE x == [sources[s] EXCEPT !.content = content]
<1>2. x \in Source /\ x.url = sources[s].url /\ x.content = content
  BY <1>1 DEF Source
<1>3. sources' = [sources EXCEPT ![s] = x]
  BY DEF WriteAcquired
<1> HIDE DEF x
<1>4. sources' \in Seq(Source) /\ DOMAIN sources' = DOMAIN sources
  BY <1>1, <1>2, <1>3
<1>5. sources'[s] = x /\ \A t \in DOMAIN sources : t # s => sources'[t] = sources[t]
  BY <1>3
<1>6. content # None
  BY NoneIsApart
<1>7. StoreFits(sources')
  BY <1>2, <1>4, <1>5 DEF StoreFits
<1> QED  BY <1>2, <1>4, <1>5, <1>6, <1>7 DEF Grown

-----------------------------------------------------------------------------
(***************************************************************************)
(* Items of a registration.                                                *)
(***************************************************************************)
LEMMA ItemsAreGood ==
  ASSUME NEW items \in Seq(Good), items # <<>>
  PROVE  LET i == Head(items) IN
         /\ Tail(items) \in Seq(Good) /\ i \in Item
         /\ i.file \in Files \cup {None} /\ i.url \in Urls \cup {None}
         /\ i.file = None => i.url \in Urls /\ Display(i) = i.url
         /\ i.file # None => /\ i.file \in Files /\ Display(i) = i.file
                             /\ Content(i) = Raw[i.file] /\ Content(i) \in Contents
<1>1. Head(items) \in Good /\ Tail(items) \in Seq(Good)
  OBVIOUS
<1> QED  BY <1>1, RawIsKnown DEF Good, Item, Display, Content

LEMMA JobGoesTo ==
  ASSUME NEW job \in Jobs, NEW source \in Nat \cup {None}, NEW phase \in Working
  PROVE  LET next == [job EXCEPT !.phase = phase, !.source = source]
         IN  /\ next \in Jobs /\ next.items = job.items /\ next.source = source
             /\ next.text = job.text /\ next.phase = phase /\ next.kind = job.kind
BY DEF Jobs

\* An item whose source and record are there may get its row.
LEMMA Advanced ==
  ASSUME CallsOK, NEW p \in Callers, JobFits(call[p], sources, intake), call[p].phase \in Working,
         NEW src, NEW itk, NEW ev, Grown(sources, src), Filled(intake, itk),
         Backed(Display(This(p)), src, itk), Advance(p)
  PROVE  \E c : Moved(p, c) /\ Fits(c, src, itk, ev) /\ AloneFits(c, src)
<1> DEFINE job == call[p]
           n == Display(This(p))
           new == job.text[n] = None
           text == [job.text EXCEPT ![n] = IF new THEN job.status ELSE @]
           next == [job EXCEPT !.items = Tail(@), !.source = None, !.added = @ \/ new,
                               !.text[n] = IF new THEN Row(job) ELSE @]
           last == IF next.items # <<>> THEN [next EXCEPT !.phase = "resolve"]
                   ELSE IF next.added THEN [next EXCEPT !.phase = "queue"]
                   ELSE Idle
<1>1. Go(p, last)
  BY DEF Advance
<1>2. Moved(p, last)
  <2>1. job # Idle
    BY DEF Idle, Working
  <2> HIDE DEF last
  <2> QED  BY <1>1, <2>1, Gone
<1>3. job \in Jobs /\ job.items \in Seq(Good) /\ job.items # <<>> /\ job.text \in Rows
      /\ job.status \in Statuses /\ TextFits(job.text, src, itk)
  BY TextStays DEF JobFits, Jobs
<1>4. n \in Names /\ Tail(job.items) \in Seq(Good)
  BY <1>3, ItemsAreGood DEF This, Names
<1>5. text \in Rows /\ TextFits(text, src, itk)
  <2>1. text \in Rows /\ \A m \in Names : text[m] # None => m = n \/ job.text[m] # None
    BY <1>3, <1>4 DEF Rows
  <2> HIDE DEF n, text
  <2> QED  BY <1>3, <2>1 DEF TextFits, n
<1>6. next \in Jobs /\ next.items = Tail(job.items) /\ next.text = text
  <2>1. next = [job EXCEPT !.items = Tail(job.items), !.source = None,
                           !.added = job.added \/ new, !.text = text]
    BY <1>3 DEF Jobs, Row
  <2>2. (job.added \/ new) \in BOOLEAN
    OBVIOUS
  <2> QED  BY <1>3, <1>4, <1>5, <2>1, <2>2 DEF Jobs
<1>7. last = Idle \/ (last \in Jobs /\ last.text = text /\ last.phase \in {"resolve", "queue"}
                     /\ (last.phase = "resolve" => last.items # <<>>))
  <2> HIDE DEF next, text
  <2> QED  BY <1>6 DEF Jobs, Working
<1>8. Fits(last, src, itk, ev) /\ AloneFits(last, src)
  <2> HIDE DEF last, text
  <2>1. CASE last = Idle
    BY <2>1, IdleFits
  <2>2. CASE last # Idle
    BY <1>5, <1>7, <2>2 DEF Fits, JobFits, AloneFits, Working, Acquiring
  <2> QED  BY <2>1, <2>2
<1> HIDE DEF last
<1> QED  BY <1>2, <1>8

-----------------------------------------------------------------------------
(***************************************************************************)
(* Steps that change no record but a call.                                 *)
(***************************************************************************)
Inv == IntakeInv /\ AloneInv

LEMMA QuietStep ==
  ASSUME Inv, NEW p \in Callers, NEW c, Moved(p, c), UNCHANGED <<sources, evidence, intake>>,
         TextFits(queue', sources, intake),
         Fits(c, sources, intake, evidence), ~overlapped => AloneFits(c, sources)
  PROVE  Inv'
<1>1. IntakeInv'
  BY NothingGrows, StepFits DEF Inv, IntakeInv
<1>2. AloneInv'
  BY StepAlone DEF Inv, AloneInv
<1> QED  BY <1>1, <1>2 DEF Inv

\* What a working call is.
LEMMA AtWork ==
  ASSUME Inv, NEW p \in Callers, call[p].phase \in Working \ Acquiring
  PROVE  JobFits(call[p], sources, intake) /\ call[p] # Idle
BY DEF Inv, IntakeInv, Fits, OwnFits, Owns, SyncFits, Syncs, CiteFits, Cites, Idle, Working, Acquiring

LEMMA AtSync ==
  ASSUME Inv, NEW p \in Callers, call[p].phase = "sync"
  PROVE  SyncFits(call[p], sources, intake) /\ call[p] # Idle
<1> DEFINE c == call[p]
<1>1. Fits(c, sources, intake, evidence)
  BY DEF Inv, IntakeInv
<1> HIDE DEF c
<1>2. c.phase = "sync"
  BY DEF c
<1>3. c # Idle /\ ~CiteFits(c, sources, evidence)
  BY <1>2 DEF Idle, CiteFits, Cites
<1>4. ~JobFits(c, sources, intake) /\ ~OwnFits(c, sources)
  BY <1>2 DEF JobFits, Jobs, OwnFits, Owns, Working, Acquiring
<1> QED  BY <1>1, <1>3, <1>4 DEF Fits, c

LEMMA AtCiting ==
  ASSUME Inv, NEW p \in Callers, call[p].phase = "citing"
  PROVE  CiteFits(call[p], sources, evidence) /\ call[p] # Idle
<1> DEFINE c == call[p]
<1>1. Fits(c, sources, intake, evidence)
  BY DEF Inv, IntakeInv
<1> HIDE DEF c
<1>2. c.phase = "citing"
  BY DEF c
<1>3. c # Idle /\ ~SyncFits(c, sources, intake)
  BY <1>2 DEF Idle, SyncFits, Syncs
<1>4. ~JobFits(c, sources, intake) /\ ~OwnFits(c, sources)
  BY <1>2 DEF JobFits, Jobs, OwnFits, Owns, Working, Acquiring
<1> QED  BY <1>1, <1>3, <1>4 DEF Fits, c

LEMMA AtAcquiring ==
  ASSUME Inv, NEW p \in Callers, call[p].phase \in Acquiring
  PROVE  /\ call[p] # Idle /\ call[p].source \in DOMAIN sources
         /\ \/ JobFits(call[p], sources, intake) /\ call[p].items # <<>>
            \/ OwnFits(call[p], sources) /\ call[p].items = <<>>
         /\ BytesOf(call[p]) \in Contents /\ Bytes(p) = BytesOf(call[p])
<1> DEFINE c == call[p]
<1>1. Fits(c, sources, intake, evidence)
  BY DEF Inv, IntakeInv
<1>2. c # Idle /\ (JobFits(c, sources, intake) \/ OwnFits(c, sources))
  BY <1>1 DEF Fits, SyncFits, Syncs, CiteFits, Cites, Idle, Acquiring
<1>3. CASE JobFits(c, sources, intake)
  <2>1. c.items \in Seq(Good) /\ c.items # <<>> /\ Head(c.items).file # None
        /\ c.source \in DOMAIN sources
    BY <1>3 DEF JobFits, Jobs, Working, Acquiring
  <2> QED  BY <1>2, <1>3, <2>1, ItemsAreGood DEF BytesOf, Bytes, This
<1>4. CASE OwnFits(c, sources)
  BY <1>2, <1>4, RawIsKnown DEF OwnFits, Owns, BytesOf, Bytes, This
<1> QED  BY <1>2, <1>3, <1>4

\* A step of a job to another phase and source.
LEMMA JobMoves ==
  ASSUME Inv, NEW p \in Callers, NEW phase \in Working, NEW source \in Nat \cup {None},
         call[p] \in Jobs, To(p, phase, source)
  PROVE  \E next \in Jobs : /\ Moved(p, next) /\ next.items = call[p].items
                            /\ next.source = source /\ next.text = call[p].text
                            /\ next.phase = phase /\ next.kind = call[p].kind
                            /\ next.added = call[p].added
<1> DEFINE next == [call[p] EXCEPT !.phase = phase, !.source = source]
<1>1. Go(p, next) /\ call[p] # Idle
  BY DEF To, Jobs, Idle, Working
<1>2. Moved(p, next)
  BY <1>1, Gone DEF Inv, IntakeInv
<1>3. /\ next \in Jobs /\ next.items = call[p].items /\ next.source = source
      /\ next.text = call[p].text /\ next.phase = phase /\ next.kind = call[p].kind
  BY DEF Jobs
<1>4. next.added = call[p].added
  BY DEF Jobs
<1> HIDE DEF next
<1> QED  BY <1>2, <1>3, <1>4

LEMMA RegisterKeeps ==
  ASSUME Inv, NEW p \in Callers, NEW kind \in RawKinds, NEW status \in Statuses,
         \/ \E f \in Files : RegisterFile(p, f, kind, status)
         \/ \E batch \in Batches : RegisterBatch(p, batch, kind, status)
  PROVE  Inv'
<1>1. PICK items \in Seq(Good) \ {<<>>} : Enter(p, Job("resolve", items, kind, status))
  <2>1. ASSUME NEW f \in Files
        PROVE  <<[url |-> None, file |-> f]>> \in Seq(Good) \ {<<>>}
    <3>1. [url |-> None, file |-> f] \in Good
      BY RawIsKnown DEF Good, Item, Display
    <3> QED  BY <3>1
  <2>2. ASSUME NEW batch \in Batches
        PROVE  batch \in Seq(Good) \ {<<>>}
    BY BatchesHaveItems DEF Good
  <2> QED  BY <2>1, <2>2 DEF RegisterFile, RegisterBatch
<1> DEFINE c == Job("resolve", items, kind, status)
<1>2. c \in Jobs /\ c.phase = "resolve" /\ c.items = items /\ c.text = queue
  BY DEF Job, Jobs, Working, Inv, IntakeInv, TextFits
<1>3. Moved(p, c)
  BY <1>1, Entered DEF Inv, IntakeInv
<1> HIDE DEF c
<1>4. Fits(c, sources, intake, evidence) /\ AloneFits(c, sources)
  BY <1>2 DEF Fits, JobFits, AloneFits, Inv, IntakeInv, Acquiring
<1>5. UNCHANGED <<sources, evidence, intake, queue>>
  BY DEF RegisterFile, RegisterBatch
<1> QED  BY <1>3, <1>4, <1>5, QuietStep DEF Inv, IntakeInv

LEMMA AcquireKeeps ==
  ASSUME Inv, NEW p \in Callers, NEW s \in Ids, NEW f \in Files, AcquireSource(p, s, f)
  PROVE  Inv'
<1> DEFINE c == [Job("acquire", <<>>, None, None) EXCEPT !.source = s, !.text = f]
<1>1. s \in Nat
  BY DEF Ids, Inv, IntakeInv, StoreFits
<1>2. c \in Owns /\ c.phase = "acquire" /\ c.source = s
  BY <1>1 DEF Job, Owns, Acquiring
<1>3. Moved(p, c)
  BY Entered DEF AcquireSource, Inv, IntakeInv
<1>4. UNCHANGED <<sources, evidence, intake, queue>>
  BY DEF AcquireSource
<1> HIDE DEF c
<1>5. Fits(c, sources, intake, evidence) /\ AloneFits(c, sources)
  BY <1>2 DEF Fits, OwnFits, AloneFits, Ids
<1> QED  BY <1>3, <1>4, <1>5, QuietStep DEF Inv, IntakeInv

LEMMA SetStatusKeeps ==
  ASSUME Inv, NEW p \in Callers, NEW f \in Files, NEW status \in Statuses, SetStatus(p, f, status)
  PROVE  Inv'
<1>1. PICK k \in RecordsOf(f) : Enter(p, [phase |-> "sync", key |-> k, status |-> status,
                                          text |-> [queue EXCEPT ![f] = status]])
  BY DEF SetStatus
<1> DEFINE text == [queue EXCEPT ![f] = status]
           c == [phase |-> "sync", key |-> k, status |-> status, text |-> text]
<1>2. k \in Keys /\ intake[k] # None
  BY DEF RecordsOf
<1>3. f \in Names /\ queue[f] # None /\ TextFits(queue, sources, intake)
  BY DEF SetStatus, Listed, Inv, IntakeInv
<1>4. TextFits(text, sources, intake)
  BY <1>3 DEF TextFits, Rows
<1>5. c \in Syncs
  BY <1>2, <1>4 DEF Syncs, TextFits
<1>6. Fits(c, sources, intake, evidence) /\ AloneFits(c, sources)
  BY <1>2, <1>4, <1>5 DEF Fits, SyncFits, AloneFits
<1>7. Moved(p, c) /\ UNCHANGED <<sources, evidence, intake, queue>>
  BY <1>1, Entered DEF SetStatus, Inv, IntakeInv
<1> HIDE DEF c
<1> QED  BY <1>3, <1>6, <1>7, QuietStep

LEMMA ResolveKeeps ==
  ASSUME Inv, NEW p \in Callers, Resolve(p)
  PROVE  Inv'
<1> DEFINE c == call[p]
           i == Head(c.items)
<1>1. c.phase = "resolve" /\ UNCHANGED <<sources, evidence, intake, queue>> /\ CallsOK
      /\ TextFits(queue, sources, intake)
  BY DEF Resolve, At, Inv, IntakeInv
<1>2. JobFits(c, sources, intake) /\ c \in Jobs /\ c.items # <<>> /\ c.items \in Seq(Good)
  BY <1>1, AtWork DEF Working, Acquiring, JobFits, Jobs
<1>3. /\ i.file = None => i.url \in Urls /\ Display(i) = i.url
      /\ i.file # None => i.file \in Files /\ Display(i) = i.file /\ Content(i) = Raw[i.file]
      /\ This(p) = i
  BY <1>2, ItemsAreGood DEF This
<1>4. CASE i.file = None /\ SameUrl(i.url) # {}
  <2>1. Advance(p) /\ Backed(Display(This(p)), sources, intake)
    BY <1>3, <1>4 DEF Resolve, Backed, SameUrl, Ids
  <2>2. PICK d : Moved(p, d) /\ Fits(d, sources, intake, evidence) /\ AloneFits(d, sources)
    BY <1>1, <1>2, <2>1, NothingGrows, Advanced DEF Working
  <2> QED  BY <1>1, <2>2, QuietStep
<1>5. ASSUME NEW phase \in {"register", "acquire", "record"}, NEW s \in Ids \cup {None}, To(p, phase, s),
             phase = "acquire" => i.file # None /\ s \in Ids /\ sources[s].url # None,
             phase = "record" => i.file # None /\ Holds(s, Content(i), sources),
             phase = "register" => i.file = None \/ Unseen(Content(i), sources)
      PROVE  Inv'
  <2>1. s \in Nat \cup {None} /\ phase \in Working
    BY DEF Ids, Inv, IntakeInv, StoreFits, Working
  <2>2. PICK d \in Jobs : /\ Moved(p, d) /\ d.items = c.items /\ d.source = s /\ d.text = c.text
                          /\ d.phase = phase
    BY <1>2, <1>5, <2>1, JobMoves
  <2>3. Fits(d, sources, intake, evidence) /\ AloneFits(d, sources)
    BY <1>2, <1>5, <2>2 DEF Fits, JobFits, AloneFits, Acquiring, Ids
  <2> QED  BY <1>1, <2>2, <2>3, QuietStep
<1>6. CASE i.file = None /\ SameUrl(i.url) = {}
  BY <1>3, <1>5, <1>6 DEF Resolve
<1>7. CASE i.file # None /\ SameUrl(i.url) # {}
  <2>1. PICK s \in SameUrl(i.url) : To(p, IF Acquired(s) THEN "record" ELSE "acquire", s)
    BY <1>3, <1>7 DEF Resolve
  <2>2. s \in Ids /\ sources[s].url # None
    BY DEF SameUrl
  <2> QED  BY <1>5, <1>7, <2>1, <2>2 DEF Holds, Ids
<1>8. CASE i.file # None /\ SameUrl(i.url) = {} /\ SameContent(Content(i)) # {}
  <2>1. PICK s \in SameContent(Content(i)) : To(p, "record", s)
    BY <1>3, <1>8 DEF Resolve
  <2> QED  BY <1>5, <1>8, <2>1 DEF SameContent, Holds, Ids
<1>9. CASE i.file # None /\ SameUrl(i.url) = {} /\ SameContent(Content(i)) = {}
  <2>1. Content(i) # None
    BY <1>2, <1>9, ItemsAreGood, NoneIsApart
  <2>2. To(p, "register", None) /\ Unseen(Content(i), sources)
    BY <1>3, <1>9, <2>1 DEF Resolve, SameContent, Unseen, Ids
  <2> QED  BY <1>5, <2>2
<1> QED  BY <1>4, <1>6, <1>7, <1>8, <1>9

-----------------------------------------------------------------------------
(***************************************************************************)
(* Steps that write sources.                                               *)
(***************************************************************************)
LEMMA RegisterSourceKeeps ==
  ASSUME Inv, NEW p \in Callers, RegisterSource(p)
  PROVE  Inv'
<1> DEFINE c == call[p]
           i == Head(c.items)
           new == Len(sources) + 1
<1>1. c.phase = "register" /\ UNCHANGED <<evidence, intake, queue>> /\ CallsOK
  BY DEF RegisterSource, At, Inv, IntakeInv
<1>2. JobFits(c, sources, intake) /\ c \in Jobs /\ c.items # <<>> /\ c.items \in Seq(Good)
  BY <1>1, AtWork DEF Working, Acquiring, JobFits, Jobs
<1>3. /\ i.url \in Urls \cup {None}
      /\ i.file = None => i.url \in Urls /\ Display(i) = i.url /\ Content(i) = None
      /\ i.file # None => Content(i) \in Contents
      /\ This(p) = i
  BY <1>2, ItemsAreGood DEF This, Content
<1>4. None \notin Urls \cup Contents
  BY NoneIsApart
<1>5. /\ Content(i) \in Contents \cup {None} /\ (i.url = None => Content(i) # None)
      /\ WriteSource(i.url, Content(i))
  BY <1>3, <1>4 DEF RegisterSource
<1>6. StoreFits(sources)
  BY DEF Inv, IntakeInv
<1>7. /\ StoreFits(sources') /\ Grown(sources, sources')
      /\ new \notin DOMAIN sources /\ DOMAIN sources' = DOMAIN sources \cup {new}
      /\ sources'[new].url = i.url /\ sources'[new].content = Content(i)
      /\ \A s \in DOMAIN sources : sources'[s] = sources[s]
  BY <1>3, <1>5, <1>6, SourceWritten
<1>8. /\ IntakeFits(intake', sources') /\ EvidenceFits(evidence', sources')
      /\ TextFits(queue', sources', intake')
      /\ Filled(intake, intake') /\ Longer(evidence, evidence')
  BY <1>1, <1>7, IntakeStays, EvidenceStays, TextStays, NothingGrows DEF Inv, IntakeInv
<1>9. ASSUME NEW d, Moved(p, d), Fits(d, sources', intake', evidence'), AloneFits(d, sources')
      PROVE  Inv'
  <2>1. IntakeInv'
    BY <1>7, <1>8, <1>9, StepFits DEF Inv
  <2>2. ASSUME ~overlapped
        PROVE  Unique(sources') /\ \A n \in DOMAIN evidence' : Quotes(evidence'[n], sources')
    <3>1. Unique(sources) /\ \A n \in DOMAIN evidence : Quotes(evidence[n], sources)
      BY <2>2 DEF Inv, AloneInv
    <3>2. i.file # None => Unseen(Content(i), sources)
      BY <1>1, <2>2 DEF Inv, AloneInv, AloneFits
    <3>3. Unique(sources')
      BY <1>3, <1>7, <3>1, <3>2 DEF Unique, Unseen
    <3>4. \A n \in DOMAIN evidence : evidence[n].from \subseteq DOMAIN sources
      BY DEF Inv, IntakeInv, EvidenceFits, Rests
    <3> QED  BY <1>1, <1>7, <3>1, <3>3, <3>4 DEF Quotes
  <2>3. AloneInv'
    BY <1>9, <2>2, StepAlone DEF Inv
  <2> QED  BY <2>1, <2>3 DEF Inv
<1>10. CASE i.file = None
  <2>1. Advance(p) /\ Backed(Display(This(p)), sources', intake')
    BY <1>3, <1>7, <1>10 DEF RegisterSource, Backed
  <2>2. \E d : Moved(p, d) /\ Fits(d, sources', intake', evidence') /\ AloneFits(d, sources')
    BY <1>1, <1>2, <1>7, <1>8, <2>1, Advanced DEF Working
  <2> QED  BY <1>9, <2>2
<1>11. CASE i.file # None
  <2>1. To(p, "record", new)
    BY <1>3, <1>11 DEF RegisterSource
  <2>2. new \in Nat \cup {None} /\ "record" \in Working
    BY <1>6 DEF StoreFits, Working
  <2> HIDE DEF new
  <2>3. PICK d \in Jobs : /\ Moved(p, d) /\ d.items = c.items /\ d.source = new /\ d.text = c.text
                          /\ d.phase = "record"
    BY <1>2, <2>1, <2>2, JobMoves
  <2>4. Holds(new, Content(i), sources')
    BY <1>7 DEF Holds
  <2>5. TextFits(d.text, sources', intake')
    BY <1>2, <1>7, <1>8, <2>3, TextStays DEF JobFits
  <2>6. Fits(d, sources', intake', evidence') /\ AloneFits(d, sources')
    BY <1>2, <1>11, <2>3, <2>4, <2>5 DEF Fits, JobFits, AloneFits, Acquiring
  <2> QED  BY <1>9, <2>3, <2>6
<1> QED  BY <1>10, <1>11

LEMMA CheckAcquireKeeps ==
  ASSUME Inv, NEW p \in Callers, CheckAcquire(p)
  PROVE  Inv'
<1> DEFINE c == call[p]
           d == [c EXCEPT !.phase = "acquiring", !.source = c.source]
<1>1. c.phase = "acquire" /\ UNCHANGED <<sources, evidence, intake, queue>> /\ CallsOK
      /\ TextFits(queue, sources, intake)
  BY DEF CheckAcquire, At, Inv, IntakeInv
<1>2. /\ c # Idle /\ c.source \in DOMAIN sources
      /\ \/ JobFits(c, sources, intake) /\ c.items # <<>>
         \/ OwnFits(c, sources) /\ c.items = <<>>
      /\ BytesOf(c) \in Contents /\ Bytes(p) = BytesOf(c)
  BY <1>1, AtAcquiring DEF Acquiring
<1>3. CASE Acquirable(c.source, Bytes(p))
  <2>1. Moved(p, d)
    BY <1>1, <1>2, <1>3, Gone DEF CheckAcquire, To
  <2>2. sources[c.source].content = None /\ Unseen(BytesOf(c), sources)
    BY <1>2, <1>3, NoneIsApart DEF Acquirable, Acquired, SameContent, Unseen, Ids
  <2>3. sources[c.source].url # None
    BY <1>2, <2>2 DEF Inv, IntakeInv, StoreFits
  <2>4. /\ d.phase = "acquiring" /\ d.source = c.source /\ d.items = c.items /\ d.text = c.text
        /\ c \in Jobs => d \in Jobs
        /\ c \in Owns => d \in Owns
    <3>1. ASSUME c \in Jobs PROVE d \in Jobs /\ d.phase = "acquiring" /\ d.source = c.source
                                  /\ d.items = c.items /\ d.text = c.text
      BY <3>1 DEF Jobs, Working
    <3>2. ASSUME c \in Owns PROVE d \in Owns /\ d.phase = "acquiring" /\ d.source = c.source
                                  /\ d.items = c.items /\ d.text = c.text
      BY <3>2 DEF Owns, Acquiring
    <3> QED  BY <1>2, <3>1, <3>2 DEF JobFits, OwnFits
  <2>5. AloneFits(d, sources)
    BY <2>2, <2>4 DEF AloneFits, BytesOf
  <2>6. Fits(d, sources, intake, evidence)
    <3> HIDE DEF d
    <3>1. JobFits(c, sources, intake) /\ c.items # <<>> => JobFits(d, sources, intake)
      BY <1>1, <1>2, <2>3, <2>4 DEF JobFits, Acquiring
    <3>2. OwnFits(c, sources) => OwnFits(d, sources)
      BY <2>3, <2>4 DEF OwnFits
    <3> QED  BY <1>2, <3>1, <3>2 DEF Fits
  <2> HIDE DEF d
  <2> QED  BY <1>1, <2>1, <2>5, <2>6, QuietStep
<1>4. CASE ~Acquirable(c.source, Bytes(p))
  <2>1. Moved(p, Idle)
    BY <1>1, <1>2, <1>4, Gone DEF CheckAcquire
  <2> QED  BY <1>1, <2>1, IdleFits, QuietStep
<1> QED  BY <1>3, <1>4

LEMMA WriteAcquireKeeps ==
  ASSUME Inv, NEW p \in Callers, WriteAcquire(p)
  PROVE  Inv'
<1> DEFINE c == call[p]
           s == c.source
<1>1. c.phase = "acquiring" /\ UNCHANGED <<evidence, intake, queue>> /\ CallsOK
  BY DEF WriteAcquire, At, Inv, IntakeInv
<1>2. /\ c # Idle /\ s \in DOMAIN sources
      /\ \/ JobFits(c, sources, intake) /\ c.items # <<>>
         \/ OwnFits(c, sources) /\ c.items = <<>>
      /\ BytesOf(c) \in Contents /\ Bytes(p) = BytesOf(c)
  BY <1>1, AtAcquiring DEF Acquiring
<1>3. StoreFits(sources) /\ sources[s].url # None /\ WriteAcquired(s, BytesOf(c))
  BY <1>1, <1>2 DEF Inv, IntakeInv, WriteAcquire, JobFits, OwnFits, Acquiring
<1>4. /\ StoreFits(sources') /\ Grown(sources, sources') /\ DOMAIN sources' = DOMAIN sources
      /\ sources'[s].content = BytesOf(c)
      /\ \A t \in DOMAIN sources : t # s => sources'[t] = sources[t]
  BY <1>2, <1>3, AcquiredWritten
<1>5. /\ IntakeFits(intake', sources') /\ EvidenceFits(evidence', sources')
      /\ TextFits(queue', sources', intake')
      /\ Filled(intake, intake') /\ Longer(evidence, evidence')
  BY <1>1, <1>4, IntakeStays, EvidenceStays, TextStays, NothingGrows DEF Inv, IntakeInv
<1>6. ASSUME NEW d, Moved(p, d), Fits(d, sources', intake', evidence'), AloneFits(d, sources')
      PROVE  Inv'
  <2>1. IntakeInv'
    BY <1>4, <1>5, <1>6, StepFits DEF Inv
  <2>2. ASSUME ~overlapped
        PROVE  Unique(sources') /\ \A n \in DOMAIN evidence' : Quotes(evidence'[n], sources')
    <3>1. Unique(sources) /\ \A n \in DOMAIN evidence : Quotes(evidence[n], sources)
      BY <2>2 DEF Inv, AloneInv
    <3>2. sources[s].content = None /\ Unseen(BytesOf(c), sources)
      BY <1>1, <2>2 DEF Inv, AloneInv, AloneFits
    <3>3. Unique(sources')
      BY <1>2, <1>4, <3>1, <3>2 DEF Unique, Unseen
    <3>4. ASSUME NEW n \in DOMAIN evidence, evidence[n].kind = "segment", NEW t \in evidence[n].from
          PROVE  t \in DOMAIN sources /\ t # s
      BY <3>2, <3>4 DEF Inv, IntakeInv, EvidenceFits, Rests
    <3> QED  BY <1>1, <1>4, <3>1, <3>3, <3>4 DEF Quotes
  <2>3. AloneInv'
    BY <1>6, <2>2, StepAlone DEF Inv
  <2> QED  BY <2>1, <2>3 DEF Inv
<1>7. CASE c.items = <<>>
  <2>1. Moved(p, Idle)
    BY <1>1, <1>2, <1>7, Gone DEF WriteAcquire
  <2> QED  BY <1>6, <2>1, IdleFits
<1>8. CASE c.items # <<>>
  <2>1. To(p, "record", s) /\ JobFits(c, sources, intake) /\ c \in Jobs
    BY <1>2, <1>8 DEF WriteAcquire, JobFits
  <2>2. s \in Nat \cup {None} /\ "record" \in Working
    BY <2>1 DEF Jobs, Working
  <2>3. PICK d \in Jobs : /\ Moved(p, d) /\ d.items = c.items /\ d.source = s /\ d.text = c.text
                          /\ d.phase = "record"
    BY <2>1, <2>2, JobMoves
  <2>4. Holds(s, Content(Head(c.items)), sources') /\ Head(c.items).file # None
    BY <1>1, <1>2, <1>4, <1>8, <2>1 DEF Holds, BytesOf, JobFits, Acquiring
  <2>5. TextFits(d.text, sources', intake')
    BY <1>4, <1>5, <2>1, <2>3, TextStays DEF JobFits
  <2>6. Fits(d, sources', intake', evidence') /\ AloneFits(d, sources')
    BY <1>8, <2>3, <2>4, <2>5 DEF Fits, JobFits, AloneFits, Acquiring
  <2> QED  BY <1>6, <2>3, <2>6
<1> QED  BY <1>7, <1>8

-----------------------------------------------------------------------------
(***************************************************************************)
(* Steps that write intake records and the queue.                          *)
(***************************************************************************)
LEMMA RecordWritten ==
  ASSUME IntakeFits(intake, sources), NEW k \in Keys, NEW e \in Entry,
         Holds(e.source, k[1], sources), intake' = [intake EXCEPT ![k] = e]
  PROVE  IntakeFits(intake', sources) /\ Filled(intake, intake') /\ intake'[k] # None
<1>1. e # None
  BY NoneIsNoRecord DEF Entry
<1>2. DOMAIN intake = Keys /\ DOMAIN intake' = Keys /\ intake'[k] = e
  BY DEF IntakeFits
<1>3. \A j \in Keys : j # k => intake'[j] = intake[j]
  BY <1>2
<1> QED  BY <1>1, <1>2, <1>3 DEF IntakeFits, Filled

\* A call that writes a record, and leaves the rest.
LEMMA RecordStep ==
  ASSUME Inv, NEW p \in Callers, NEW c, Moved(p, c), UNCHANGED <<sources, evidence, queue>>,
         IntakeFits(intake', sources), Filled(intake, intake'),
         Fits(c, sources, intake', evidence), AloneFits(c, sources)
  PROVE  Inv'
<1>1. TextFits(queue', sources', intake') /\ Grown(sources, sources') /\ Longer(evidence, evidence')
  BY TextStays, NothingGrows DEF Inv, IntakeInv
<1>2. IntakeInv'
  BY <1>1, StepFits DEF Inv, IntakeInv
<1>3. AloneInv'
  BY StepAlone DEF Inv, AloneInv
<1> QED  BY <1>2, <1>3 DEF Inv

LEMMA CheckRecordKeeps ==
  ASSUME Inv, NEW p \in Callers, CheckRecord(p)
  PROVE  Inv'
<1> DEFINE c == call[p]
           i == Head(c.items)
<1>1. c.phase = "record" /\ UNCHANGED <<sources, evidence, intake, queue>> /\ CallsOK
      /\ TextFits(queue, sources, intake)
  BY DEF CheckRecord, At, Inv, IntakeInv
<1>2. JobFits(c, sources, intake) /\ c \in Jobs /\ c.items # <<>> /\ c.items \in Seq(Good)
      /\ Holds(c.source, Content(i), sources) /\ i.file # None
  BY <1>1, AtWork DEF Working, Acquiring, JobFits, Jobs
<1>3. /\ i.file \in Files /\ Display(i) = i.file /\ Content(i) = Raw[i.file]
      /\ This(p) = i /\ c.kind \in RawKinds
  BY <1>2, ItemsAreGood DEF This, Jobs
<1>4. CASE intake[Key(p)] # None
  <2>1. Advance(p) /\ intake[<<Raw[i.file], c.kind>>] # None
    BY <1>3, <1>4 DEF CheckRecord, Key
  <2>2. Backed(Display(This(p)), sources, intake)
    BY <1>3, <2>1, RawIsKnown DEF Backed
  <2>3. PICK d : Moved(p, d) /\ Fits(d, sources, intake, evidence) /\ AloneFits(d, sources)
    BY <1>1, <1>2, <2>1, <2>2, NothingGrows, Advanced DEF Working
  <2> QED  BY <1>1, <2>3, QuietStep
<1>5. CASE intake[Key(p)] = None
  <2>1. To(p, "recording", c.source)
    BY <1>5 DEF CheckRecord
  <2>2. c.source \in Nat \cup {None} /\ "recording" \in Working
    BY <1>2 DEF Jobs, Working
  <2>3. PICK d \in Jobs : /\ Moved(p, d) /\ d.items = c.items /\ d.source = c.source
                          /\ d.text = c.text /\ d.phase = "recording"
    <3>1. call[p] \in Jobs
      BY <1>2
    <3>2. To(p, "recording", call[p].source) /\ call[p].source \in Nat \cup {None}
      BY <2>1, <2>2
    <3>3. \E d \in Jobs : /\ Moved(p, d) /\ d.items = call[p].items /\ d.source = call[p].source
                          /\ d.text = call[p].text /\ d.phase = "recording"
      BY <2>2, <3>1, <3>2, JobMoves
    <3> QED  BY <3>3
  <2>4. Fits(d, sources, intake, evidence) /\ AloneFits(d, sources)
    BY <1>2, <2>3 DEF Fits, JobFits, AloneFits, Acquiring
  <2> QED  BY <1>1, <2>3, <2>4, QuietStep
<1> QED  BY <1>4, <1>5

LEMMA WriteRecordKeeps ==
  ASSUME Inv, NEW p \in Callers, WriteRecord(p)
  PROVE  Inv'
<1> DEFINE c == call[p]
           i == Head(c.items)
           k == <<Content(i), c.kind>>
           e == [file |-> i.file, source |-> c.source, status |-> c.status]
<1>1. c.phase = "recording" /\ UNCHANGED <<sources, evidence, queue>> /\ CallsOK
  BY DEF WriteRecord, At, Inv, IntakeInv
<1>2. JobFits(c, sources, intake) /\ c \in Jobs /\ c.items # <<>> /\ c.items \in Seq(Good)
      /\ Holds(c.source, Content(i), sources) /\ i.file # None
  BY <1>1, AtWork DEF Working, Acquiring, JobFits, Jobs
<1>3. /\ i.file \in Files /\ Display(i) = i.file /\ Content(i) = Raw[i.file]
      /\ Content(i) \in Contents
      /\ This(p) = i /\ c.kind \in RawKinds /\ c.status \in Statuses
  BY <1>2, ItemsAreGood DEF This, Jobs
<1>4. c.source \in Nat
  BY <1>2 DEF Holds, Inv, IntakeInv, StoreFits
<1>5. k \in Keys /\ k[1] = Content(i) /\ e \in Entry /\ e.source = c.source
  BY <1>3, <1>4 DEF Keys, Entry
<1>6. intake' = [intake EXCEPT ![k] = e] /\ Advance(p)
  BY <1>3 DEF WriteRecord, Key
<1>7. IntakeFits(intake, sources) /\ Holds(e.source, k[1], sources)
  BY <1>2, <1>5 DEF Inv, IntakeInv
<1> HIDE DEF e
<1>8. IntakeFits(intake', sources) /\ Filled(intake, intake') /\ intake'[k] # None
  <2> HIDE DEF k
  <2> QED  BY <1>5, <1>6, <1>7, RecordWritten
<1>9. Backed(Display(This(p)), sources, intake')
  BY <1>3, <1>8, RawIsKnown DEF Backed
<1>10. PICK d : Moved(p, d) /\ Fits(d, sources, intake', evidence) /\ AloneFits(d, sources)
  BY <1>1, <1>2, <1>6, <1>8, <1>9, NothingGrows, Advanced DEF Working
<1> QED  BY <1>1, <1>8, <1>10, RecordStep

LEMMA SyncRecordKeeps ==
  ASSUME Inv, NEW p \in Callers, SyncRecord(p)
  PROVE  Inv'
<1> DEFINE c == call[p]
           d == [c EXCEPT !.phase = "queue"]
           e == [intake[c.key] EXCEPT !.status = c.status]
<1>1. c.phase = "sync" /\ UNCHANGED <<sources, evidence, queue>> /\ CallsOK /\ Turn(p, "queue")
  BY DEF SyncRecord, At, Inv, IntakeInv
<1>2. SyncFits(c, sources, intake) /\ c # Idle /\ c \in Syncs /\ intake[c.key] # None
  BY <1>1, AtSync DEF SyncFits
<1>3. c.key \in Keys /\ c.status \in Statuses
  BY <1>2 DEF Syncs
<1>4. intake[c.key] \in Entry /\ Holds(intake[c.key].source, c.key[1], sources)
      /\ IntakeFits(intake, sources)
  BY <1>2, <1>3 DEF Inv, IntakeInv, IntakeFits
<1>5. e \in Entry /\ e.source = intake[c.key].source
  BY <1>3, <1>4 DEF Entry
<1>6. intake' = [intake EXCEPT ![c.key] = e]
  BY DEF SyncRecord
<1>7. d \in Syncs /\ d.phase = "queue" /\ d.key = c.key /\ d.text = c.text
  BY <1>2 DEF Syncs
<1>8. Moved(p, d)
  BY <1>1, <1>2, Gone DEF Turn
<1> HIDE DEF d, e
<1>9. IntakeFits(intake', sources) /\ Filled(intake, intake') /\ intake'[c.key] # None
  BY <1>3, <1>4, <1>5, <1>6, RecordWritten
<1>10. TextFits(c.text, sources, intake')
  BY <1>2, <1>9, TextStays, NothingGrows DEF SyncFits
<1>11. Fits(d, sources, intake', evidence) /\ AloneFits(d, sources)
  BY <1>7, <1>9, <1>10 DEF Fits, SyncFits, AloneFits
<1> QED  BY <1>1, <1>8, <1>9, <1>11, RecordStep

LEMMA WriteQueueKeeps ==
  ASSUME Inv, NEW p \in Callers, WriteQueue(p)
  PROVE  Inv'
<1>1. call[p].phase = "queue" /\ UNCHANGED <<sources, evidence, intake>> /\ CallsOK
      /\ queue' = call[p].text /\ Go(p, Idle)
  BY DEF WriteQueue, At, Inv, IntakeInv
<1>2. call[p] # Idle /\ TextFits(call[p].text, sources, intake)
  BY <1>1 DEF Inv, IntakeInv, Fits, JobFits, OwnFits, Owns, SyncFits, CiteFits, Cites, Idle, Acquiring
<1>3. Moved(p, Idle)
  BY <1>1, <1>2, Gone
<1> QED  BY <1>1, <1>2, <1>3, IdleFits, QuietStep

LEMMA CrashKeeps ==
  ASSUME Inv, NEW p \in Callers, Crash(p)
  PROVE  Inv'
<1>1. UNCHANGED <<sources, evidence, intake>> /\ CallsOK /\ Moved(p, Idle)
  BY Gone DEF Crash, Inv, IntakeInv
<1>2. TextFits(NoRows, sources, intake)
  BY DEF NoRows, TextFits, Rows
<1>3. TextFits(queue', sources, intake)
  BY <1>2 DEF Crash, Inv, IntakeInv
<1> QED  BY <1>1, <1>3, IdleFits, QuietStep

-----------------------------------------------------------------------------
(***************************************************************************)
(* Steps that cite.                                                        *)
(***************************************************************************)
LEMMA CitedRests ==
  ASSUME StoreFits(sources), EvidenceFits(evidence, sources),
         NEW e \in Segment \cup Claim \cup Entity \cup Conflict \cup Edge
  PROVE  Rests(e, sources, evidence) /\ Quotes(e, sources)
<1> DEFINE Placed == {Cite("edge", {c}, {s}, None) : c \in Of("claim"), s \in Citable}
           Quoted == {Cite("edge", {c, g}, evidence[g].from, None) : c \in Of("claim"), g \in Of("segment")}
<1>1. /\ DOMAIN sources \subseteq Nat /\ DOMAIN evidence \subseteq Nat
      /\ \A s \in DOMAIN sources : sources[s].content \in Contents \cup {None}
  <2>1. sources \in Seq(Source) /\ evidence \in Seq(Citation)
    BY DEF StoreFits, EvidenceFits
  <2>2. \A s \in DOMAIN sources : sources[s] \in Source
    BY <2>1
  <2>3. DOMAIN sources \subseteq Nat /\ DOMAIN evidence \subseteq Nat
    BY <2>1
  <2> QED  BY <2>2, <2>3 DEF Source
<1>2. CASE e \in Segment
  <2>1. PICK s \in Citable : e = Cite("segment", {}, {s}, sources[s].content)
    BY <1>2 DEF Segment
  <2> QED  BY <1>1, <2>1 DEF Citable, Acquired, Ids, Cite, Rests, Quotes, Citation, Kinds
<1>3. CASE e \in Claim
  <2>1. PICK ss \in SUBSET Citable : e = Cite("claim", {}, ss, None)
    BY <1>3 DEF Claim
  <2> QED  BY <1>1, <2>1 DEF Citable, Acquired, Ids, Cite, Rests, Quotes, Citation, Kinds
<1>4. CASE e \in Entity
  <2>1. PICK ss \in SUBSET Ids : e = Cite("entity", {}, ss, None)
    BY <1>4 DEF Entity
  <2> QED  BY <1>1, <2>1 DEF Ids, Cite, Rests, Quotes, Citation, Kinds
<1>5. CASE e \in Conflict
  <2>1. PICK cs \in SUBSET Of("claim") : e = Cite("conflict", cs, {}, None)
    BY <1>5 DEF Conflict
  <2> QED  BY <1>1, <2>1 DEF Of, Cite, Rests, Quotes, Citation, Kinds
<1>6. CASE e \in Placed
  <2>1. PICK c \in Of("claim") : \E s \in Citable : e = Cite("edge", {c}, {s}, None)
    BY <1>6 DEF Cite
  <2>2. PICK s \in Citable : e = Cite("edge", {c}, {s}, None)
    BY <2>1
  <2> QED  BY <1>1, <2>2 DEF Of, Citable, Acquired, Ids, Cite, Rests, Quotes, Citation, Kinds
<1>7. CASE e \in Quoted
  <2>0. PICK c \in Of("claim") :
          \E g \in Of("segment") : e = Cite("edge", {c, g}, evidence[g].from, None)
    BY <1>7 DEF Cite
  <2>1. PICK g \in Of("segment") : e = Cite("edge", {c, g}, evidence[g].from, None)
    BY <2>0
  <2>2. g \in DOMAIN evidence /\ evidence[g].kind = "segment" /\ Rests(evidence[g], sources, evidence)
    BY <2>1 DEF Of, EvidenceFits
  <2>3. c \in DOMAIN evidence /\ evidence[c].kind = "claim"
    BY DEF Of
  <2>4. evidence[g].from \subseteq DOMAIN sources /\ \A s \in evidence[g].from : sources[s].content # None
    BY <2>2 DEF Rests
  <2>5. e.kind = "edge" /\ e.cites = {c, g} /\ e.from = evidence[g].from /\ e.seen = None
    BY <2>1 DEF Cite
  <2>6. e \in Citation
    BY <1>1, <2>1, <2>2, <2>3, <2>4 DEF Cite, Citation, Kinds
  <2> QED  BY <2>2, <2>3, <2>4, <2>5, <2>6 DEF Rests, Quotes
<1>8. Edge = Placed \cup Quoted
  BY DEF Edge
<1> HIDE DEF Placed, Quoted
<1> QED  BY <1>2, <1>3, <1>4, <1>5, <1>6, <1>7, <1>8

LEMMA CheckEvidenceKeeps ==
  ASSUME Inv, NEW p \in Callers, CheckEvidence(p), UNCHANGED <<intake, queue>>
  PROVE  Inv'
<1>1. PICK e \in Segment \cup Claim \cup Entity \cup Conflict \cup Edge :
        Enter(p, [phase |-> "citing", record |-> e])
  BY DEF CheckEvidence
<1> DEFINE c == [phase |-> "citing", record |-> e]
<1>2. Rests(e, sources, evidence) /\ Quotes(e, sources)
  BY CitedRests DEF Inv, IntakeInv
<1>3. c \in Cites /\ c.phase = "citing" /\ c.record = e
  BY <1>2 DEF Cites, Rests
<1>4. Moved(p, c)
  BY <1>1, Entered DEF Inv, IntakeInv
<1> HIDE DEF c
<1>5. Fits(c, sources, intake, evidence) /\ AloneFits(c, sources)
  BY <1>2, <1>3 DEF Fits, CiteFits, AloneFits
<1> QED  BY <1>4, <1>5, QuietStep DEF CheckEvidence, Inv, IntakeInv

LEMMA WriteEvidenceKeeps ==
  ASSUME Inv, NEW p \in Callers, WriteEvidence(p), UNCHANGED <<intake, queue>>
  PROVE  Inv'
<1> DEFINE e == call[p].record
           new == Len(evidence) + 1
<1>1. call[p].phase = "citing" /\ UNCHANGED sources /\ CallsOK /\ Go(p, Idle)
      /\ evidence' = Append(evidence, e)
  BY DEF WriteEvidence, Inv, IntakeInv
<1>2. call[p] # Idle /\ Rests(e, sources, evidence) /\ e \in Citation
  BY <1>1, AtCiting DEF CiteFits, Rests
<1>3. Moved(p, Idle) /\ EvidenceFits(evidence, sources)
  BY <1>1, <1>2, Gone DEF Inv, IntakeInv
<1> HIDE DEF e
<1>4. /\ evidence' \in Seq(Citation) /\ evidence'[new] = e
      /\ new \notin DOMAIN evidence /\ DOMAIN evidence' = DOMAIN evidence \cup {new}
      /\ \A n \in DOMAIN evidence : evidence'[n] = evidence[n]
  BY <1>1, <1>2, <1>3, Appended DEF EvidenceFits
<1> HIDE DEF new
<1>5. Longer(evidence, evidence') /\ Grown(sources, sources') /\ Filled(intake, intake')
  BY <1>1, <1>4, NothingGrows DEF Longer
<1>6. ASSUME NEW n \in DOMAIN evidence' PROVE Rests(evidence'[n], sources', evidence')
  <2>1. CASE n = new
    BY <1>2, <1>4, <1>5, <2>1, RestsStays
  <2>2. CASE n # new
    <3>1. Rests(evidence[n], sources, evidence) /\ evidence'[n] = evidence[n]
      BY <1>3, <1>4, <2>2 DEF EvidenceFits
    <3> QED  BY <1>5, <3>1, RestsStays
  <2> QED  BY <2>1, <2>2
<1>7. IntakeInv'
  <2>1. EvidenceFits(evidence', sources')
    BY <1>4, <1>6 DEF EvidenceFits
  <2>2. StoreFits(sources') /\ IntakeFits(intake', sources') /\ TextFits(queue', sources', intake')
    BY <1>1 DEF Inv, IntakeInv
  <2> QED  BY <1>3, <1>5, <2>1, <2>2, IdleFits, StepFits DEF Inv
<1>8. ~overlapped => \A n \in DOMAIN evidence' : Quotes(evidence'[n], sources')
  <2>1. ~overlapped => Quotes(e, sources) /\ \A n \in DOMAIN evidence : Quotes(evidence[n], sources)
    BY <1>1 DEF Inv, AloneInv, AloneFits, e
  <2> QED  BY <1>1, <1>4, <2>1
<1>9. AloneInv'
  BY <1>1, <1>3, <1>8, IdleFits, StepAlone DEF Inv, AloneInv
<1> QED  BY <1>7, <1>9 DEF Inv

-----------------------------------------------------------------------------
(***************************************************************************)
(* The queue as a mirror of the records.  While a call works alone, it is  *)
(* the text the call carries, or the queue it has left alone, that agrees  *)
(* with the records.                                                       *)
(***************************************************************************)
Sole(f, k, itk) ==
  /\ \A j \in Keys : itk[j] # None /\ itk[j].file = f => j = k
  /\ \A g \in Files \ {f} : Raw[g] # Raw[f]

Mirrors(text, itk) ==
  \A k \in Keys : itk[k] # None =>
    /\ text[itk[k].file] # None
    /\ Sole(itk[k].file, k, itk) => text[itk[k].file] = itk[k].status

\* Records are named by the content of their file.
Named(itk) == \A k \in Keys : itk[k] # None => k[1] = Raw[itk[k].file]

Projects(c, q, itk) ==
  /\ c.phase \in Working /\ c.items # <<>> =>
       /\ Mirrors(c.text, itk)
       /\ ~c.added => c.text = q
       /\ c.phase = "recording" => itk[<<Content(Head(c.items)), c.kind>>] = None
  /\ c.phase \in Acquiring /\ c.items = <<>> => Mirrors(q, itk)
  /\ c.phase = "sync" => Mirrors(q, itk) /\ c.text = [q EXCEPT ![itk[c.key].file] = c.status]
  /\ c.phase = "queue" => Mirrors(c.text, itk)
  /\ c.phase \in {"idle", "citing"} => Mirrors(q, itk)

MirrorInv ==
  /\ Named(intake)
  /\ ~overlapped /\ ~interrupted =>
       /\ AllIdle => Mirrors(queue, intake)
       /\ \A p \in Callers : call[p] # Idle => Projects(call[p], queue, intake)

LEMMA IdleProjects == ASSUME NEW q, NEW itk PROVE Projects(Idle, q, itk) <=> Mirrors(q, itk)
BY DEF Projects, Idle, Working, Acquiring

\* A step of a call alone that hands on the mirror.
LEMMA MirrorStep ==
  ASSUME Inv, MirrorInv, NEW p \in Callers, NEW d, Moved(p, d), Named(intake'),
         interrupted => interrupted',
         ~interrupted' /\ Projects(call[p], queue, intake) => Projects(d, queue', intake')
  PROVE  MirrorInv'
<1> SUFFICES ASSUME ~overlapped', ~interrupted'
             PROVE  /\ AllIdle' => Mirrors(queue', intake')
                    /\ \A q \in Callers : call'[q] # Idle => Projects(call'[q], queue', intake')
  BY DEF MirrorInv
<1>1. ~overlapped /\ ~interrupted /\ \A q \in Callers : q # p => call[q] = Idle
  <2>1. CASE overlapped' = overlapped /\ call[p] # Idle
    BY <2>1 DEF Inv, AloneInv
  <2>2. CASE overlapped' = (overlapped \/ ~AllIdle)
    <3>1. ~(overlapped \/ ~AllIdle)
      BY <2>2
    <3> QED  BY <3>1 DEF AllIdle
  <2> QED  BY <2>1, <2>2 DEF Moved
<1>2. Projects(call[p], queue, intake)
  <2>1. CASE call[p] = Idle
    BY <1>1, <2>1, IdleProjects DEF AllIdle, MirrorInv
  <2>2. CASE call[p] # Idle
    BY <1>1, <2>2 DEF MirrorInv
  <2> QED  BY <2>1, <2>2
<1>3. Projects(d, queue', intake') /\ call'[p] = d /\ \A q \in Callers : q # p => call'[q] = Idle
  BY <1>1, <1>2 DEF Moved
<1>4. AllIdle' => Mirrors(queue', intake')
  BY <1>3, IdleProjects DEF AllIdle
<1> QED  BY <1>3, <1>4

\* The text of a job with the row of its item.
Listing(job, n) == [job.text EXCEPT ![n] = IF job.text[n] = None THEN job.status ELSE @]

LEMMA AdvanceMirrors ==
  ASSUME CallsOK, NEW p \in Callers, JobFits(call[p], sources, intake), call[p].phase \in Working,
         Advance(p), NEW itk
  PROVE  \E d : /\ Moved(p, d)
                /\ (~call[p].added => call[p].text = queue)
                     /\ Mirrors(Listing(call[p], Display(This(p))), itk) => Projects(d, queue, itk)
<1> DEFINE job == call[p]
           n == Display(This(p))
           new == job.text[n] = None
           text == Listing(job, n)
           next == [job EXCEPT !.items = Tail(@), !.source = None, !.added = @ \/ new,
                               !.text[n] = IF new THEN Row(job) ELSE @]
           last == IF next.items # <<>> THEN [next EXCEPT !.phase = "resolve"]
                   ELSE IF next.added THEN [next EXCEPT !.phase = "queue"]
                   ELSE Idle
<1>1. Go(p, last)
  BY DEF Advance
<1>2. Moved(p, last)
  <2>1. job # Idle
    BY DEF Idle, Working
  <2> HIDE DEF last
  <2> QED  BY <1>1, <2>1, Gone
<1>3. job \in Jobs /\ job.items \in Seq(Good) /\ job.items # <<>> /\ job.text \in Rows
  BY DEF JobFits, Jobs
<1>4. n \in Names /\ (~new => text = job.text)
  <2>1. n \in Names
    BY <1>3, ItemsAreGood DEF This, Names
  <2> QED  BY <1>3, <2>1 DEF Listing, Rows
<1>5. next = [job EXCEPT !.items = Tail(job.items), !.source = None,
                         !.added = job.added \/ new, !.text = text]
  BY <1>3 DEF Jobs, Row, Listing
<1>6. /\ next.items = Tail(job.items) /\ next.added = (job.added \/ new) /\ next.text = text
      /\ DOMAIN next = {"phase", "items", "kind", "status", "source", "text", "added"}
  <2> HIDE DEF text, new
  <2> QED  BY <1>3, <1>5 DEF Jobs
<1>7. \/ last = Idle /\ ~job.added /\ ~new
      \/ last.phase = "resolve" /\ last.text = text /\ (last.added <=> job.added \/ new)
      \/ last.phase = "queue" /\ last.text = text
  <2> HIDE DEF next, text, new
  <2> QED  BY <1>6
<1>8. ASSUME ~job.added => job.text = queue, Mirrors(text, itk) PROVE Projects(last, queue, itk)
  <2> HIDE DEF last, text, new
  <2>1. CASE last = Idle /\ ~job.added /\ ~new
    BY <1>4, <1>8, <2>1, IdleProjects
  <2>2. CASE last.phase = "resolve" /\ last.text = text /\ (last.added <=> job.added \/ new)
    BY <1>4, <1>8, <2>2 DEF Projects, Acquiring
  <2>3. CASE last.phase = "queue" /\ last.text = text
    BY <1>8, <2>3 DEF Projects, Working, Acquiring
  <2> QED  BY <1>7, <2>1, <2>2, <2>3
<1> HIDE DEF last
<1> QED  BY <1>2, <1>8

\* The row of a link is nobody's record.
LEMMA LinksAreNoFiles ==
  ASSUME NEW job, job.text \in Rows, NEW n \in Urls, NEW itk, NEW src, IntakeFits(itk, src),
         Mirrors(job.text, itk)
  PROVE  Mirrors(Listing(job, n), itk)
<1>1. \A f \in Files : Listing(job, n)[f] = job.text[f]
  BY RawIsKnown DEF Listing, Rows, Names
<1>2. \A k \in Keys : itk[k] # None => itk[k].file \in Files
  BY DEF IntakeFits, Entry
<1> QED  BY <1>1, <1>2 DEF Mirrors

\* A file that is on record has its row.
LEMMA RowsAreThere ==
  ASSUME NEW job, job.text \in Rows, NEW f \in Files, NEW itk, NEW src, IntakeFits(itk, src),
         Mirrors(job.text, itk)
  PROVE  Mirrors(Listing(job, f), itk)
<1>1. \A g \in Files : job.text[g] # None \/ g # f => Listing(job, f)[g] = job.text[g]
  BY RawIsKnown DEF Listing, Rows, Names
<1>2. \A k \in Keys : itk[k] # None => itk[k].file \in Files
  BY DEF IntakeFits, Entry
<1> QED  BY <1>1, <1>2 DEF Mirrors

\* A record is written and its file listed.
LEMMA RecordMirrors ==
  ASSUME NEW job, NEW f \in Files, NEW kind \in RawKinds, NEW itk, NEW itk2, NEW src, NEW e,
         job.status \in Statuses, TextFits(job.text, src, itk), IntakeFits(itk, src),
         Named(itk), Mirrors(job.text, itk), itk[<<Raw[f], kind>>] = None,
         itk2 = [itk EXCEPT ![<<Raw[f], kind>>] = e], e.file = f, e.status = job.status
  PROVE  Mirrors(Listing(job, f), itk2)
<1> DEFINE text == job.text
           text2 == Listing(job, f)
           key == <<Raw[f], kind>>
<1>1. /\ key \in Keys /\ itk2[key] = e /\ \A k \in Keys : k # key => itk2[k] = itk[k]
      /\ \A k \in Keys : itk[k] # None => itk[k].file \in Files
  BY RawIsKnown DEF Keys, IntakeFits, Entry
<1>2. /\ \A g \in Files : text[g] # None \/ g # f => text2[g] = text[g]
      /\ text[f] = None => text2[f] = job.status
      /\ text2[f] # None
  BY RawIsKnown, NoneIsNoStatus DEF Listing, TextFits, Rows, Names
<1>3. ASSUME text[f] # None
      PROVE  \E j \in Keys : j # key /\ itk[j] # None /\ j[1] = Raw[f]
  <2>1. Backed(f, src, itk) /\ f \notin Urls
    BY <1>3, RawIsKnown DEF TextFits, Names
  <2>2. PICK other \in RawKinds : itk[<<Raw[f], other>>] # None
    BY <2>1 DEF Backed
  <2>3. <<Raw[f], other>> \in Keys /\ <<Raw[f], other>> # key
    BY <2>2, RawIsKnown DEF Keys
  <2> QED  BY <2>2, <2>3
<1> HIDE DEF key, text, text2
<1>4. Sole(f, key, itk2) => text[f] = None
  <2> SUFFICES ASSUME Sole(f, key, itk2), text[f] # None PROVE FALSE
    OBVIOUS
  <2>1. PICK j \in Keys : j # key /\ itk[j] # None /\ j[1] = Raw[f]
    BY <1>3
  <2>2. itk2[j] = itk[j] /\ Raw[itk[j].file] = Raw[f] /\ itk[j].file \in Files
    BY <1>1, <2>1 DEF Named
  <2>3. itk[j].file = f
    BY <2>2 DEF Sole
  <2> QED  BY <2>1, <2>2, <2>3 DEF Sole
<1>5. ASSUME NEW k \in Keys, itk2[k] # None
      PROVE  /\ text2[itk2[k].file] # None
             /\ Sole(itk2[k].file, k, itk2) => text2[itk2[k].file] = itk2[k].status
  <2>1. CASE k = key
    BY <1>1, <1>2, <1>4, <2>1
  <2>2. CASE k # key
    <3>1. itk2[k] = itk[k] /\ itk[k] # None /\ itk[k].file \in Files
      BY <1>1, <1>5, <2>2
    <3>2. text[itk[k].file] # None
      BY <3>1 DEF Mirrors, text
    <3>3. Sole(itk2[k].file, k, itk2) => Sole(itk[k].file, k, itk)
      BY <1>1, <3>1 DEF Sole, key
    <3> QED  BY <1>2, <3>1, <3>2, <3>3 DEF Mirrors, text
  <2> QED  BY <2>1, <2>2
<1> QED  BY <1>5 DEF Mirrors, text2

\* A job that goes on to another phase with its text.
LEMMA GoesOnMirrors ==
  ASSUME Inv, MirrorInv, NEW p \in Callers, NEW phase \in Working, NEW source \in Nat \cup {None},
         call[p] \in Jobs, call[p].phase \in Working, call[p].items # <<>>, To(p, phase, source),
         UNCHANGED <<queue, intake, interrupted>>,
         phase = "recording" => intake[<<Content(Head(call[p].items)), call[p].kind>>] = None
  PROVE  MirrorInv'
<1>1. PICK d \in Jobs : /\ Moved(p, d) /\ d.items = call[p].items /\ d.text = call[p].text
                        /\ d.phase = phase /\ d.kind = call[p].kind /\ d.added = call[p].added
  BY JobMoves
<1>2. Projects(call[p], queue, intake) => Projects(d, queue, intake)
  BY <1>1 DEF Projects, Working, Acquiring
<1> QED  BY <1>1, <1>2, MirrorStep DEF MirrorInv

\* A call that holds no rows leaves the mirror to the queue.
LEMMA LeavesMirror ==
  ASSUME Inv, MirrorInv, NEW p \in Callers, NEW d, Moved(p, d), UNCHANGED <<queue, intake, interrupted>>,
         Projects(call[p], queue, intake) => Mirrors(queue, intake),
         Mirrors(queue, intake) => Projects(d, queue, intake)
  PROVE  MirrorInv'
BY MirrorStep DEF MirrorInv

LEMMA BeginMirrors == ASSUME Inv, MirrorInv, NEW p \in Callers, Begin(p) PROVE MirrorInv'
<1> PICK status \in Statuses :
      \/ \E f \in Files : SetStatus(p, f, status)
      \/ \E kind \in RawKinds : \/ \E f \in Files : RegisterFile(p, f, kind, status)
                                \/ \E batch \in Batches : RegisterBatch(p, batch, kind, status)
  BY DEF Begin
<1>1. /\ UNCHANGED <<queue, intake, interrupted>> /\ CallsOK /\ call[p] = Idle
      /\ Projects(call[p], queue, intake) => Mirrors(queue, intake)
  BY IdleProjects DEF Begin, SetStatus, RegisterFile, RegisterBatch, Enter, Inv, IntakeInv
<1>2. ASSUME NEW items, NEW kind, Enter(p, Job("resolve", items, kind, status)) PROVE MirrorInv'
  <2> DEFINE d == Job("resolve", items, kind, status)
  <2>1. Moved(p, d)
    BY <1>1, <1>2, Entered
  <2>2. Mirrors(queue, intake) => Projects(d, queue, intake)
    BY DEF Job, Projects, Working, Acquiring
  <2> QED  BY <1>1, <2>1, <2>2, LeavesMirror
<1>3. ASSUME NEW f \in Files, SetStatus(p, f, status) PROVE MirrorInv'
  <2> PICK k \in RecordsOf(f) : Enter(p, [phase |-> "sync", key |-> k, status |-> status,
                                          text |-> [queue EXCEPT ![f] = status]])
    BY <1>3 DEF SetStatus
  <2> DEFINE d == [phase |-> "sync", key |-> k, status |-> status, text |-> [queue EXCEPT ![f] = status]]
  <2>1. Moved(p, d)
    BY <1>1, Entered
  <2>2. intake[k].file = f
    BY DEF RecordsOf
  <2>3. Mirrors(queue, intake) => Projects(d, queue, intake)
    BY <2>2 DEF Projects, Working, Acquiring
  <2> QED  BY <1>1, <2>1, <2>3, LeavesMirror
<1> QED  BY <1>2, <1>3 DEF RegisterFile, RegisterBatch

LEMMA OwnMirrors ==
  ASSUME Inv, MirrorInv, NEW p \in Callers, NEW s \in Ids, NEW f \in Files, AcquireSource(p, s, f)
  PROVE  MirrorInv'
<1> DEFINE d == [Job("acquire", <<>>, None, None) EXCEPT !.source = s, !.text = f]
<1>1. /\ UNCHANGED <<queue, intake, interrupted>> /\ call[p] = Idle /\ Moved(p, d)
  BY Entered DEF AcquireSource, Enter, Inv, IntakeInv
<1>2. d.phase = "acquire" /\ d.items = <<>>
  BY DEF Job
<1> HIDE DEF d
<1>3. Mirrors(queue, intake) => Projects(d, queue, intake)
  BY <1>2 DEF Projects
<1> QED  BY <1>1, <1>3, IdleProjects, LeavesMirror

LEMMA ResolveMirrors ==
  ASSUME Inv, MirrorInv, NEW p \in Callers, Resolve(p) \/ RegisterSource(p) PROVE MirrorInv'
<1> DEFINE c == call[p]
           i == Head(c.items)
<1>1. /\ c.phase \in {"resolve", "register"} /\ UNCHANGED <<queue, intake, interrupted>> /\ CallsOK
      /\ IntakeFits(intake, sources)
  BY DEF Resolve, RegisterSource, At, Inv, IntakeInv
<1>2. JobFits(c, sources, intake) /\ c \in Jobs /\ c.items # <<>> /\ c.items \in Seq(Good) /\ c.text \in Rows
      /\ c.phase \in Working
  BY <1>1, AtWork DEF Working, Acquiring, JobFits, Jobs
<1>3. (i.file = None => i.url \in Urls /\ Display(i) = i.url) /\ This(p) = i
  BY <1>2, ItemsAreGood DEF This
<1>4. CASE Advance(p) /\ i.file = None
  <2>1. PICK d : /\ Moved(p, d)
                 /\ (~c.added => c.text = queue) /\ Mirrors(Listing(c, Display(This(p))), intake)
                      => Projects(d, queue, intake)
    BY <1>1, <1>2, <1>4, AdvanceMirrors
  <2>2. Mirrors(c.text, intake) => Mirrors(Listing(c, Display(This(p))), intake)
    BY <1>1, <1>2, <1>3, <1>4, LinksAreNoFiles
  <2>3. Projects(c, queue, intake) => Projects(d, queue, intake)
    BY <1>2, <2>1, <2>2 DEF Projects
  <2> QED  BY <1>1, <2>1, <2>3, MirrorStep DEF MirrorInv
<1>5. ASSUME NEW phase \in Working \ {"recording"}, NEW s \in Nat \cup {None}, To(p, phase, s)
      PROVE  MirrorInv'
  BY <1>1, <1>2, <1>5, GoesOnMirrors
<1>6. /\ \A s \in Ids : s \in Nat
      /\ {"register", "record", "acquire"} \subseteq Working \ {"recording"} /\ Len(sources) + 1 \in Nat
  BY DEF Ids, Working, Inv, IntakeInv, StoreFits
<1>7. CASE Resolve(p)
  BY <1>3, <1>4, <1>5, <1>6, <1>7 DEF Resolve, SameUrl, SameContent
<1>8. CASE RegisterSource(p)
  BY <1>3, <1>4, <1>5, <1>6, <1>8 DEF RegisterSource
<1> QED  BY <1>7, <1>8

LEMMA AcquireMirrors ==
  ASSUME Inv, MirrorInv, NEW p \in Callers, CheckAcquire(p) \/ WriteAcquire(p) PROVE MirrorInv'
<1> DEFINE c == call[p]
<1>1. /\ c.phase \in Acquiring /\ UNCHANGED <<queue, intake>> /\ CallsOK
      /\ (interrupted => interrupted') /\ c.phase \in Working
  <2>1. c.phase \in Acquiring /\ UNCHANGED <<queue, intake>> /\ CallsOK
    BY DEF CheckAcquire, WriteAcquire, At, Inv, IntakeInv, Acquiring
  <2>2. interrupted => interrupted'
    BY DEF CheckAcquire, WriteAcquire
  <2> QED  BY <2>1, <2>2 DEF Acquiring, Working
<1>2. /\ c # Idle /\ c.source \in DOMAIN sources /\ c.source \in Nat
      /\ \/ c \in Jobs /\ c.items # <<>>
         \/ c \in Owns /\ c.items = <<>>
  BY <1>1, AtAcquiring DEF JobFits, OwnFits, Inv, IntakeInv, StoreFits
<1>3. ASSUME Go(p, Idle), c.items = <<>> \/ interrupted' = (interrupted \/ c.added) PROVE MirrorInv'
  <2>1. Moved(p, Idle)
    BY <1>1, <1>2, <1>3, Gone
  <2>2. ~interrupted' => c.items = <<>> \/ ~c.added
    BY <1>3
  <2>3. ~interrupted' /\ Projects(c, queue, intake) => Mirrors(queue, intake)
    BY <1>1, <1>2, <2>2 DEF Projects
  <2> QED  BY <1>1, <2>1, <2>3, IdleProjects, MirrorStep DEF MirrorInv
<1>4. ASSUME NEW phase \in {"acquiring", "record"}, To(p, phase, c.source), c.items # <<>> \/ phase = "acquiring",
             UNCHANGED interrupted
      PROVE  MirrorInv'
  <2>1. phase \in Working
    BY DEF Working
  <2>2. CASE c \in Jobs /\ c.items # <<>>
    <3>1. phase # "recording" /\ c.source \in Nat \cup {None}
      BY <1>2, <1>4
    <3> QED  BY <1>1, <1>4, <2>1, <2>2, <3>1, GoesOnMirrors
  <2>3. CASE c \in Owns /\ c.items = <<>>
    <3> DEFINE d == [c EXCEPT !.phase = phase, !.source = c.source]
    <3>1. Moved(p, d)
      BY <1>1, <1>2, <1>4, Gone DEF To
    <3>2. d.phase \in Acquiring /\ d.items = <<>>
      BY <1>4, <2>3 DEF Owns, Acquiring
    <3> HIDE DEF d
    <3>3. Mirrors(queue, intake) => Projects(d, queue, intake)
      BY <3>2 DEF Projects, Acquiring
    <3> QED  BY <1>1, <1>4, <2>3, <3>1, <3>3, LeavesMirror DEF Projects
  <2> QED  BY <1>2, <2>2, <2>3
<1>5. CASE CheckAcquire(p)
  BY <1>3, <1>4, <1>5 DEF CheckAcquire
<1>6. CASE WriteAcquire(p)
  BY <1>3, <1>4, <1>6 DEF WriteAcquire
<1> QED  BY <1>5, <1>6

LEMMA CheckRecordMirrors ==
  ASSUME Inv, MirrorInv, NEW p \in Callers, CheckRecord(p) PROVE MirrorInv'
<1> DEFINE c == call[p]
           i == Head(c.items)
<1>1. /\ c.phase = "record" /\ UNCHANGED <<queue, intake, interrupted>> /\ CallsOK
      /\ IntakeFits(intake, sources)
  BY DEF CheckRecord, At, Inv, IntakeInv
<1>2. /\ JobFits(c, sources, intake) /\ c \in Jobs /\ c.items # <<>> /\ c.items \in Seq(Good)
      /\ c.text \in Rows /\ i.file # None /\ c.source \in Nat \cup {None} /\ c.phase \in Working
  BY <1>1, AtWork DEF Working, Acquiring, JobFits, Jobs
<1>3. i.file \in Files /\ Display(i) = i.file /\ This(p) = i
  BY <1>2, ItemsAreGood DEF This
<1>4. CASE intake[Key(p)] # None
  <2>1. Advance(p)
    BY <1>4 DEF CheckRecord
  <2>2. PICK d : /\ Moved(p, d)
                 /\ (~c.added => c.text = queue) /\ Mirrors(Listing(c, Display(This(p))), intake)
                      => Projects(d, queue, intake)
    BY <1>1, <1>2, <2>1, AdvanceMirrors
  <2>3. Mirrors(c.text, intake) => Mirrors(Listing(c, Display(This(p))), intake)
    BY <1>1, <1>2, <1>3, RowsAreThere
  <2>4. Projects(c, queue, intake) => Projects(d, queue, intake)
    BY <1>2, <2>2, <2>3 DEF Projects
  <2> QED  BY <1>1, <2>2, <2>4, MirrorStep DEF MirrorInv
<1>5. CASE intake[Key(p)] = None
  <2>1. To(p, "recording", c.source) /\ intake[<<Content(i), c.kind>>] = None
    BY <1>3, <1>5 DEF CheckRecord, Key
  <2>2. "recording" \in Working
    BY DEF Working
  <2> QED  BY <1>1, <1>2, <2>1, <2>2, GoesOnMirrors
<1> QED  BY <1>4, <1>5

LEMMA WriteRecordMirrors ==
  ASSUME Inv, MirrorInv, NEW p \in Callers, WriteRecord(p) PROVE MirrorInv'
<1> DEFINE c == call[p]
           i == Head(c.items)
           f == i.file
           e == [file |-> f, source |-> c.source, status |-> c.status]
<1>1. /\ c.phase = "recording" /\ UNCHANGED <<queue, interrupted>> /\ CallsOK
      /\ IntakeFits(intake, sources) /\ Named(intake) /\ Advance(p)
  BY DEF WriteRecord, At, Inv, IntakeInv, MirrorInv
<1>2. /\ JobFits(c, sources, intake) /\ c \in Jobs /\ c.items # <<>> /\ c.items \in Seq(Good)
      /\ f # None /\ c.phase \in Working /\ TextFits(c.text, sources, intake)
      /\ c.kind \in RawKinds /\ c.status \in Statuses
  BY <1>1, AtWork DEF Working, Acquiring, JobFits, Jobs
<1>3. f \in Files /\ Display(i) = f /\ Content(i) = Raw[f] /\ This(p) = i
  BY <1>2, ItemsAreGood DEF This
<1>4. e.file = f /\ e.status = c.status /\ intake' = [intake EXCEPT ![<<Raw[f], c.kind>>] = e]
  BY <1>3 DEF WriteRecord, Key
<1>5. PICK d : /\ Moved(p, d)
               /\ (~c.added => c.text = queue) /\ Mirrors(Listing(c, Display(This(p))), intake')
                    => Projects(d, queue, intake')
  BY <1>1, <1>2, AdvanceMirrors
<1> HIDE DEF e, f
<1>6. Named(intake')
  <2>1. \A k \in Keys : k # <<Raw[f], c.kind>> => intake'[k] = intake[k]
    BY <1>1, <1>4 DEF IntakeFits
  <2>2. <<Raw[f], c.kind>> \in Keys => intake'[<<Raw[f], c.kind>>] = e
    BY <1>1, <1>4 DEF IntakeFits
  <2> QED  BY <1>1, <1>4, <2>1, <2>2 DEF Named
<1>7. Projects(c, queue, intake) => Projects(d, queue', intake')
  <2> SUFFICES ASSUME Projects(c, queue, intake) PROVE Projects(d, queue', intake')
    OBVIOUS
  <2>1. /\ Mirrors(c.text, intake) /\ (~c.added => c.text = queue)
        /\ intake[<<Raw[f], c.kind>>] = None
    BY <1>1, <1>2, <1>3 DEF Projects
  <2>2. Mirrors(Listing(c, f), intake')
    BY <1>1, <1>2, <1>3, <1>4, <2>1, RecordMirrors
  <2> QED  BY <1>1, <1>3, <1>5, <2>1, <2>2
<1> QED  BY <1>1, <1>5, <1>6, <1>7, MirrorStep

LEMMA SyncRecordMirrors ==
  ASSUME Inv, MirrorInv, NEW p \in Callers, SyncRecord(p) PROVE MirrorInv'
<1> DEFINE c == call[p]
           d == [c EXCEPT !.phase = "queue"]
           e == [intake[c.key] EXCEPT !.status = c.status]
           f == intake[c.key].file
<1>1. /\ c.phase = "sync" /\ UNCHANGED <<queue, interrupted>> /\ CallsOK /\ Turn(p, "queue")
      /\ IntakeFits(intake, sources) /\ Named(intake) /\ queue \in Rows
  BY DEF SyncRecord, At, Inv, IntakeInv, MirrorInv, TextFits
<1>2. SyncFits(c, sources, intake) /\ c # Idle /\ c \in Syncs /\ intake[c.key] # None
  BY <1>1, AtSync DEF SyncFits
<1>3. c.key \in Keys /\ c.status \in Statuses /\ intake[c.key] \in Entry /\ f \in Files /\ f \in Names
  BY <1>1, <1>2 DEF Syncs, IntakeFits, Entry, Names
<1>4. e.file = f /\ e.status = c.status
  BY <1>3 DEF Entry
<1>5. intake' = [intake EXCEPT ![c.key] = e]
  BY DEF SyncRecord
<1>6. d.phase = "queue" /\ d.text = c.text
  BY <1>2 DEF Syncs
<1>7. Moved(p, d)
  BY <1>1, <1>2, Gone DEF Turn
<1> HIDE DEF d, e, f
<1>8. intake'[c.key] = e /\ \A k \in Keys : k # c.key => intake'[k] = intake[k]
  BY <1>1, <1>3, <1>5 DEF IntakeFits
<1>9. Named(intake')
  BY <1>1, <1>2, <1>3, <1>4, <1>8 DEF Named, f
<1>10. \A k \in Keys : (intake'[k] # None => intake[k] # None /\ intake'[k].file = intake[k].file)
                       /\ (intake[k] # None /\ k # c.key => intake'[k] = intake[k])
  BY <1>2, <1>4, <1>8 DEF f
<1>11. ASSUME Mirrors(queue, intake), c.text = [queue EXCEPT ![f] = c.status] PROVE Mirrors(c.text, intake')
  <2>1. c.text[f] = c.status /\ c.text[f] # None /\ \A g : g \in Names /\ g # f => c.text[g] = queue[g]
    BY <1>1, <1>3, <1>11, NoneIsNoStatus DEF Rows
  <2>2. ASSUME NEW k \in Keys, intake'[k] # None
        PROVE  /\ c.text[intake'[k].file] # None
               /\ Sole(intake'[k].file, k, intake') => c.text[intake'[k].file] = intake'[k].status
    <3>1. CASE k = c.key
      BY <1>4, <1>8, <2>1, <3>1
    <3>2. CASE k # c.key
      <4>1. intake'[k] = intake[k] /\ intake[k] # None /\ intake[k].file \in Names
        BY <1>1, <1>10, <2>2, <3>2 DEF IntakeFits, Entry, Names
      <4>2. Sole(intake[k].file, k, intake') => intake[k].file # f
        BY <1>2, <1>3, <1>4, <1>8, <3>2, NoneIsNoRecord DEF Sole, Entry, e, f
      <4>3. Sole(intake[k].file, k, intake') /\ intake[k].file # f => Sole(intake[k].file, k, intake)
        BY <1>10, <4>1 DEF Sole, f
      <4> QED  BY <1>11, <2>1, <4>1, <4>2, <4>3 DEF Mirrors
    <3> QED  BY <3>1, <3>2
  <2> QED  BY <2>2 DEF Mirrors
<1>12. Projects(c, queue, intake) => Projects(d, queue', intake')
  BY <1>1, <1>6, <1>11 DEF Projects, Working, Acquiring, f
<1> QED  BY <1>1, <1>7, <1>9, <1>12, MirrorStep

LEMMA WriteQueueMirrors ==
  ASSUME Inv, MirrorInv, NEW p \in Callers, WriteQueue(p) PROVE MirrorInv'
<1>1. /\ call[p].phase = "queue" /\ UNCHANGED <<intake, interrupted>> /\ queue' = call[p].text
      /\ Go(p, Idle) /\ call[p] # Idle /\ CallsOK
  BY DEF WriteQueue, At, Idle, Inv, IntakeInv
<1>2. Moved(p, Idle)
  BY <1>1, Gone
<1>3. Projects(call[p], queue, intake) => Projects(Idle, queue', intake')
  BY <1>1, IdleProjects DEF Projects
<1> QED  BY <1>1, <1>2, <1>3, MirrorStep DEF MirrorInv

LEMMA EvidenceMirrors ==
  ASSUME Inv, MirrorInv, NEW p \in Callers, CheckEvidence(p) \/ WriteEvidence(p),
         UNCHANGED <<intake, queue, interrupted>>
  PROVE  MirrorInv'
<1>1. CASE CheckEvidence(p)
  <2>1. PICK e : Enter(p, [phase |-> "citing", record |-> e])
    BY <1>1 DEF CheckEvidence
  <2> DEFINE d == [phase |-> "citing", record |-> e]
  <2>2. Moved(p, d) /\ call[p] = Idle
    BY <2>1, Entered DEF Enter, Inv, IntakeInv
  <2>3. Mirrors(queue, intake) => Projects(d, queue, intake)
    BY DEF Projects, Working, Acquiring
  <2> HIDE DEF d
  <2> QED  BY <2>2, <2>3, IdleProjects, LeavesMirror
<1>2. CASE WriteEvidence(p)
  <2>1. call[p].phase = "citing" /\ call[p] # Idle /\ Moved(p, Idle)
    BY <1>2, Gone DEF WriteEvidence, Idle, Inv, IntakeInv
  <2> QED  BY <2>1, IdleProjects, LeavesMirror DEF Projects
<1> QED  BY <1>1, <1>2

LEMMA CrashMirrors ==
  ASSUME Inv, MirrorInv, NEW p \in Callers, Crash(p) PROVE MirrorInv'
BY DEF Crash, MirrorInv

LEMMA MirrorInit == ASSUME Init PROVE MirrorInv
BY DEF Init, MirrorInv, Named, Mirrors, StoreInit, CallsInit, AllIdle

LEMMA MirrorNext == ASSUME Inv, MirrorInv, [Next]_vars PROVE MirrorInv'
<1>1. ASSUME NEW p \in Callers, Proceed(p) PROVE MirrorInv'
  BY <1>1, ResolveMirrors, AcquireMirrors, CheckRecordMirrors, WriteRecordMirrors, WriteQueueMirrors,
     SyncRecordMirrors DEF Proceed
<1>2. CASE UNCHANGED vars
  BY <1>2 DEF vars, storeVars, callVars, MirrorInv, AllIdle
<1> QED  BY <1>1, <1>2, BeginMirrors, OwnMirrors, EvidenceMirrors, CrashMirrors DEF Next

-----------------------------------------------------------------------------
LEMMA InvInit == ASSUME Init PROVE Inv
<1>1. /\ sources = <<>> /\ evidence = <<>> /\ intake = [k \in Keys |-> None] /\ queue = NoRows
      /\ overlapped = FALSE /\ call = [p \in Callers |-> Idle]
  BY DEF Init, StoreInit, CallsInit
<1>2. IntakeInv
  <2>1. StoreFits(sources) /\ EvidenceFits(evidence, sources) /\ IntakeFits(intake, sources)
    BY <1>1 DEF StoreFits, EvidenceFits, IntakeFits
  <2>2. TextFits(queue, sources, intake)
    BY <1>1 DEF TextFits, Rows, NoRows
  <2> QED  BY <1>1, <2>1, <2>2, IdleFits DEF IntakeInv, CallsOK
<1>3. AloneInv
  BY <1>1, IdleFits DEF AloneInv, Unique
<1> QED  BY <1>2, <1>3 DEF Inv

LEMMA InvNext == ASSUME Inv, [Next]_vars PROVE Inv'
<1>1. ASSUME NEW p \in Callers, Begin(p) PROVE Inv'
  BY <1>1, SetStatusKeeps, RegisterKeeps DEF Begin
<1>2. ASSUME NEW p \in Callers, Proceed(p) PROVE Inv'
  BY <1>2, ResolveKeeps, RegisterSourceKeeps, CheckAcquireKeeps, WriteAcquireKeeps,
     CheckRecordKeeps, WriteRecordKeeps, WriteQueueKeeps, SyncRecordKeeps DEF Proceed
<1>3. CASE UNCHANGED vars
  BY <1>3 DEF vars, storeVars, callVars, Inv, IntakeInv, AloneInv, CallsOK
<1> QED  BY <1>1, <1>2, <1>3, AcquireKeeps, CheckEvidenceKeeps, WriteEvidenceKeeps, CrashKeeps DEF Next

\* Whatever races or dies, rows, intake records and evidence stay backed, and
\* a call alone finds the records as it left them.
THEOREM RecordsStayInOrder == Spec => []Inv
BY InvInit, InvNext, PTL DEF Spec

\* A listed link has its source and a listed file its intake record, whatever
\* calls of intake race or die (write_manifest and register_intake).
THEOREM RowsStayBacked == Spec => []RowsAreBacked
<1>1. Inv => RowsAreBacked
  <2> SUFFICES ASSUME Inv PROVE RowsAreBacked
    OBVIOUS
  <2>1. ASSUME NEW n \in Listed, n \in Urls PROVE SameUrl(n) # {}
    BY <2>1, NoneIsApart DEF Inv, IntakeInv, TextFits, Backed, SameUrl, Ids, Listed
  <2>2. ASSUME NEW n \in Listed, n \notin Urls
        PROVE  \E kind \in RawKinds : intake[<<Raw[n], kind>>] # None
    BY <2>2 DEF Inv, IntakeInv, TextFits, Backed, Listed
  <2>3. ASSUME NEW k \in Keys, intake[k] # None
        PROVE  LET s == sources[intake[k].source] IN s.content = k[1] \/ s.url # None
    BY <2>3 DEF Inv, IntakeInv, IntakeFits, Holds
  <2> QED  BY <2>1, <2>2, <2>3 DEF RowsAreBacked
<1> QED  BY <1>1, RecordsStayInOrder, PTL

\* What segments, claims, entities, conflicts and edges cite is there, and a
\* quoted content stays, as long as acquisitions do not overlap.
THEOREM EvidenceStaysRested == Spec => []EvidenceRests
<1>1. Inv => EvidenceRests
  BY DEF Inv, IntakeInv, AloneInv, EvidenceFits, Rests, Quotes, EvidenceRests, Acquired, Ids
<1> QED  BY <1>1, RecordsStayInOrder, PTL

\* The duplicate checks of register_source and acquire_source keep contents
\* apart, as long as calls come one after another.
THEOREM ContentsStayApart == Spec => []OneSourcePerContent
<1>1. Inv => OneSourcePerContent
  BY DEF Inv, AloneInv, Unique, OneSourcePerContent, Acquired, Ids
<1> QED  BY <1>1, RecordsStayInOrder, PTL

\* Every file on record is listed, and under the status of its record, between calls that
\* neither overlap nor die (QueueMirrorsIntake): register_intake and set_status write the
\* record and then the whole queue, from a text read before.
THEOREM QueueMirrors == Spec => []QueueMirrorsIntake
<1>1. Inv /\ MirrorInv => QueueMirrorsIntake
  <2> SUFFICES ASSUME Inv, MirrorInv, ~overlapped, ~interrupted, AllIdle, NEW f \in Files, NEW k \in RecordsOf(f)
               PROVE  /\ f \in Listed
                      /\ RecordsOf(f) = {k} /\ (\A g \in Files \ {f} : Raw[g] # Raw[f])
                           => queue[f] = intake[k].status
    BY DEF QueueMirrorsIntake
  <2>1. k \in Keys /\ intake[k] # None /\ intake[k].file = f /\ Mirrors(queue, intake)
    BY DEF RecordsOf, MirrorInv
  <2>2. f \in Listed
    BY <2>1 DEF Mirrors, Listed, Names
  <2>3. RecordsOf(f) = {k} /\ (\A g \in Files \ {f} : Raw[g] # Raw[f]) => Sole(f, k, intake)
    BY DEF RecordsOf, Sole
  <2> QED  BY <2>1, <2>2, <2>3 DEF Mirrors
<1> QED  BY <1>1, InvInit, InvNext, MirrorInit, MirrorNext, PTL DEF Spec
=============================================================================
