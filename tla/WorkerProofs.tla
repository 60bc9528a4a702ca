---------------------------- MODULE WorkerProofs ----------------------------
(***************************************************************************)
(* Proofs about two parts of the worker that stand alone: when it          *)
(* registers again (Contact), for any silence threshold, and what it tells *)
(* the controller about its devices (Probes), for any devices, sources and *)
(* reports.                                                                *)
(***************************************************************************)
EXTENDS Contact, Probes, TLAPS
-----------------------------------------------------------------------------
ContactTyped ==
  /\ clock \in Nat /\ instance \in Nat /\ handler \in Nat
  /\ answers \subseteq [by : Nat, now : Nat]
  /\ known \in Nat /\ lastContact \in Nat /\ newest \in Nat
  /\ due \in {"none", "armed", "ripe"}
  /\ loop \in {"poll", "sent", "handled", "answered"}
  /\ owes \in BOOLEAN /\ slipped \in BOOLEAN /\ failures \in Nat
  /\ unheard \in BOOLEAN /\ crossed \in BOOLEAN

(* Nobody has heard of a process that is still to come. *)
HeardOf ==
  /\ known <= instance /\ handler <= instance
  /\ \A a \in answers : a.by <= instance

(* What the tracker takes for the controller's instance, against the process *)
(* that handled the last registration: a later one is a debt, an earlier one *)
(* comes from an answer that was overtaken or lost.                          *)
KnownIsHandler ==
  /\ known > handler => owes
  /\ loop \in {"poll", "sent"} /\ known < handler => crossed \/ unheard

(* What the tracker compares a stamp with is the newest stamp observed, so   *)
(* an answer that is observed late falls short of it.                        *)
LatestIsKept == lastContact = newest

(* A debt is on the books until a registration settles it: neither a failed  *)
(* attempt nor a late answer takes it off.  (arm, attempting, registered.)   *)
DebtIsOnTheBooks == owes => due # "none" \/ slipped

ContactInv == /\ ContactTyped /\ HeardOf /\ KnownIsHandler
              /\ LatestIsKept /\ NoPhantomGap /\ DebtIsOnTheBooks

(* A worker that has just registered owes nothing. *)
LEMMA ContactInitInv == ContactInit => ContactInv
  <1> SUFFICES ASSUME ContactInit PROVE ContactInv
    OBVIOUS
  <1>1. ContactTyped /\ LatestIsKept
    BY DEF ContactInit, ContactTyped, LatestIsKept
  <1>2. HeardOf /\ KnownIsHandler
    BY DEF ContactInit, HeardOf, KnownIsHandler
  <1>3. NoPhantomGap /\ DebtIsOnTheBooks
    BY DEF ContactInit, NoPhantomGap, DebtIsOnTheBooks
  <1> QED
    BY <1>1, <1>2, <1>3 DEF ContactInv

(* To observe an answer moves lastContact and the newest stamp together.  It *)
(* arms the appointment for a debt, for an answer that was overtaken, or to  *)
(* come back to the process that handled the last registration; and what is  *)
(* owed for it is armed.                                                     *)
LEMMA ObservesKeeps ==
  ASSUME ContactInv, NEW a \in [by : Nat, now : Nat], Observes(a)
  PROVE  /\ known' = a.by /\ lastContact' \in Nat /\ newest' \in Nat
         /\ due' \in {"none", "armed", "ripe"}
         /\ owes' \in BOOLEAN /\ crossed' \in BOOLEAN
         /\ LatestIsKept'
         /\ due' # "none" => due # "none" \/ owes' \/ crossed' \/ known < handler
         /\ owes' => due' # "none" \/ slipped
         /\ (owes => owes') /\ (crossed => crossed')
         /\ a.by > handler => owes'
         /\ a.by < known => crossed'
  <1> USE ContactAssumption DEF ContactInv, ContactTyped, Observes
  <1>1. /\ lastContact' \in Nat /\ newest' \in Nat /\ LatestIsKept'
    BY DEF LatestIsKept, Moved
  <1>0. due' = IF (a.now >= lastContact + Silence \/ a.by # known) /\ due = "none"
               THEN "armed" ELSE due
    BY Zenon
  <1>2. ASSUME due' # "none", due = "none", ~owes', ~crossed'
        PROVE  known < handler
    <2>1. ~(a.by > handler) /\ ~(a.now >= newest + Silence) /\ ~(a.by < known)
      BY <1>2, Zenon
    <2>2. a.by # known
      BY <1>2, <2>1, <1>0 DEF LatestIsKept
    <2> QED
      BY <2>1, <2>2
  <1>3. ASSUME owes', due' = "none"
        PROVE  slipped
    BY <1>3 DEF LatestIsKept, DebtIsOnTheBooks, KnownIsHandler
  <1>4. owes' \in BOOLEAN /\ crossed' \in BOOLEAN
    BY Zenon
  <1>5. /\ (owes => owes') /\ (crossed => crossed')
        /\ (a.by > handler => owes') /\ (a.by < known => crossed')
    BY Zenon
  <1>6. known' = a.by /\ due' \in {"none", "armed", "ripe"}
    OBVIOUS
  <1> QED
    BY <1>1, <1>2, <1>3, <1>4, <1>5, <1>6

(* Every exchange, observation and step of maybeReregister preserves it. *)
LEMMA ContactNextInv == ContactInv /\ [ContactNext]_contactVars => ContactInv'
  <1> SUFFICES ASSUME ContactInv, [ContactNext]_contactVars PROVE ContactInv'
    OBVIOUS
  <1> USE ContactAssumption DEF ContactInv
  <1>1. ASSUME Tick \/ RestartController \/ TakeWork \/ EndWork PROVE ContactInv'
    BY <1>1 DEF Tick, RestartController, TakeWork, EndWork, trackerVars, doubtVars,
                ContactTyped, HeardOf, KnownIsHandler, LatestIsKept, NoPhantomGap,
                DebtIsOnTheBooks
  <1>2. ASSUME NEW by \in 1 .. instance, Exchange(by) PROVE ContactInv'
    <2>1. ContactTyped' /\ HeardOf'
      BY <1>2 DEF Exchange, trackerVars, doubtVars, ContactTyped, HeardOf
    <2> QED
      BY <1>2, <2>1 DEF Exchange, trackerVars, doubtVars, KnownIsHandler, LatestIsKept,
                        NoPhantomGap, DebtIsOnTheBooks
  <1>3. ASSUME NEW a \in answers, Observe(a) PROVE ContactInv'
    <2>1. a \in [by : Nat, now : Nat] /\ a.by <= instance
      BY DEF ContactTyped, HeardOf
    <2>2. ContactTyped' /\ HeardOf'
      BY <1>3, <2>1, ObservesKeeps DEF Observe, ContactTyped, HeardOf
    <2>3. KnownIsHandler'
      BY <1>3, <2>1, ObservesKeeps DEF Observe, KnownIsHandler, ContactTyped
    <2>4. NoPhantomGap'
      BY <1>3, <2>1, ObservesKeeps DEF Observe, KnownIsHandler, NoPhantomGap
    <2> QED
      BY <1>3, <2>1, <2>2, <2>3, <2>4, ObservesKeeps DEF Observe, DebtIsOnTheBooks
  <1>4. ASSUME Ripen \/ Attempt \/ AttemptFails PROVE ContactInv'
    <2>1. CASE Ripen \/ Attempt
      BY <2>1 DEF Ripen, Attempt, Attempting, trackerVars, doubtVars, ContactTyped,
                  HeardOf, KnownIsHandler, LatestIsKept, NoPhantomGap, DebtIsOnTheBooks
    <2>2. CASE AttemptFails
      <3>1. ContactTyped' /\ HeardOf' /\ LatestIsKept' /\ DebtIsOnTheBooks'
        BY <2>2 DEF AttemptFails, trackerVars, ContactTyped, HeardOf, LatestIsKept,
                    DebtIsOnTheBooks
      <3>2. CASE loop = "sent"
        BY <2>2, <3>1, <3>2 DEF AttemptFails, trackerVars, ContactTyped, KnownIsHandler,
                                NoPhantomGap
      <3>3. CASE loop = "handled"
        BY <2>2, <3>1, <3>3 DEF AttemptFails, trackerVars, ContactTyped, KnownIsHandler,
                                NoPhantomGap
      <3> QED
        BY <2>2, <3>2, <3>3 DEF AttemptFails
    <2> QED
      BY <1>4, <2>1, <2>2
  <1>5. ASSUME AnswerAgain PROVE ContactInv'
    <2> DEFINE a == [by |-> handler, now |-> clock]
    <2>1. a \in [by : Nat, now : Nat] /\ a.by = handler
      BY DEF ContactTyped
    <2>2. /\ Observes(a) /\ loop' = "answered" /\ handler' = handler
          /\ UNCHANGED <<clock, instance, answers, working, slipped, unheard, works,
                         failures>>
      BY <1>5 DEF AnswerAgain
    <2> HIDE DEF a
    <2>3. ContactTyped' /\ HeardOf' /\ KnownIsHandler' /\ NoPhantomGap'
      BY <2>1, <2>2, ObservesKeeps
      DEF ContactTyped, HeardOf, KnownIsHandler, NoPhantomGap
    <2> QED
      BY <2>1, <2>2, <2>3, ObservesKeeps DEF DebtIsOnTheBooks
  <1>6. ASSUME HandleAgain \/ Registered PROVE ContactInv'
    <2>1. LatestIsKept' /\ HeardOf'
      BY <1>6 DEF HandleAgain, Registered, trackerVars, ContactTyped, LatestIsKept,
                  HeardOf
    <2>2. CASE HandleAgain
      <3>1. ContactTyped'
        BY <2>2 DEF HandleAgain, trackerVars, doubtVars, ContactTyped
      <3>2. KnownIsHandler'
        BY <2>2 DEF HandleAgain, trackerVars, ContactTyped, HeardOf, KnownIsHandler
      <3>3. NoPhantomGap' /\ DebtIsOnTheBooks'
        BY <2>2 DEF HandleAgain, NoPhantomGap, DebtIsOnTheBooks
      <3> QED
        BY <2>1, <3>1, <3>2, <3>3
    <2>3. CASE Registered
      <3>0. crossed' \in BOOLEAN
        BY <2>3 DEF Registered, ContactTyped
      <3>1. known < handler => crossed'
        BY <2>3, Zenon DEF Registered
      <3>2. slipped' \in BOOLEAN /\ (owes => slipped')
        BY <2>3, Zenon DEF Registered
      <3>3. /\ due' = "none" /\ unheard' = FALSE /\ loop' = "poll"
            /\ UNCHANGED <<clock, instance, answers, known, lastContact, handler, owes,
                           newest, failures>>
        BY <2>3 DEF Registered
      <3>4. ContactTyped'
        BY <3>0, <3>2, <3>3 DEF ContactTyped
      <3>5. KnownIsHandler'
        BY <3>1, <3>3 DEF KnownIsHandler
      <3>6. NoPhantomGap' /\ DebtIsOnTheBooks'
        BY <3>2, <3>3 DEF NoPhantomGap, DebtIsOnTheBooks
      <3> QED
        BY <2>1, <3>4, <3>5, <3>6
    <2> QED
      BY <1>6, <2>2, <2>3
  <1>7. CASE UNCHANGED contactVars
    BY <1>7 DEF contactVars, trackerVars, doubtVars, ContactTyped, HeardOf,
                KnownIsHandler, LatestIsKept, NoPhantomGap, DebtIsOnTheBooks
  <1> QED
    BY <1>1, <1>2, <1>3, <1>4, <1>5, <1>6, <1>7 DEF ContactNext

(* The worker prepares to register again only when a later controller        *)
(* process than the one it registered with has answered, or contact was lost *)
(* for Silence, in whatever order the goroutines' answers are observed; but  *)
(* for a lost answer to a registration, and an answer that was overtaken by  *)
(* one of a later process.                                                   *)
THEOREM NoRegistrationForNothing == ContactSpec => []NoPhantomGap
  <1>1. ContactInv => NoPhantomGap
    BY DEF ContactInv
  <1> QED
    BY <1>1, ContactInitInv, ContactNextInv, PTL DEF ContactSpec

(* A worker that the controller has lost track of keeps the appointment,     *)
(* however many attempts fail, unless the debt was made while a registration *)
(* was being answered.                                                       *)
THEOREM DebtIsRemembered == ContactSpec => []DebtIsOnTheBooks
  <1>1. ContactInv => DebtIsOnTheBooks
    BY DEF ContactInv
  <1> QED
    BY <1>1, ContactInitInv, ContactNextInv, PTL DEF ContactSpec
-----------------------------------------------------------------------------
(* What the worker remembers of a source contains what the source named when *)
(* it last worked; for nvidia-smi that never named a device it is nothing,   *)
(* or every device nvidia-smi could name.                                    *)
MemoryCovers ==
  /\ scope \in [Source -> SUBSET ProbeDevice]
  /\ spoke \in [Source -> SUBSET ProbeDevice]
  /\ \A s \in Source : spoke[s] \subseteq scope[s]
  /\ spoke[Nvidia] = {} => scope[Nvidia] \in {{}, GpuNamed}

(* No payload names a device that the pass was in the dark about. *)
DarkIsLeftOut ==
  \A m \in wire : m.dark \subseteq ProbeDevice /\ m.dark \cap DOMAIN m.dev = {}

ProbesInv == MemoryCovers /\ DarkIsLeftOut

(* A new process remembers nothing and has sent nothing. *)
LEMMA ProbesInitInv == ProbesInit => ProbesInv
  BY ProbesAssumption
  DEF ProbesInit, ProbesInv, MemoryCovers, DarkIsLeftOut, Source

(* A failed source is understood to speak for all it last named, and         *)
(* nvidia-smi without a record for all it could name.                        *)
LEMMA FailedIsCovered ==
  ASSUME MemoryCovers, NEW s \in Source
  PROVE  /\ Covered(s) \subseteq ProbeDevice
         /\ spoke[s] \subseteq Covered(s)
         /\ s = Nvidia /\ NvidiaFailed /\ spoke[s] = {} => Covered(s) = GpuNamed
         /\ s = Nvidia /\ spoke[s] = {} => Covered(s) \in {{}, GpuNamed}
  BY ProbesAssumption DEF MemoryCovers, Covered

(* A pass leaves out of its payload every device it is in the dark about. *)
LEMMA PayloadLeavesOut ==
  ASSUME MemoryCovers, NEW cut
  PROVE  /\ Payload(cut).dark \subseteq ProbeDevice
         /\ Payload(cut).dark \cap DOMAIN Payload(cut).dev = {}
  <1>1. Payload(cut).dark \subseteq ProbeDevice
    BY DEF Payload
  <1>2. ASSUME NEW d \in Payload(cut).dark PROVE d \notin DOMAIN Payload(cut).dev
    <2>1. /\ d \in ProbeDevice /\ Facts(Working(cut), d) = {}
          /\ \E s \in Failed(cut) : \/ d \in spoke[s]
                                    \/ s = Nvidia /\ NvidiaFailed
                                       /\ spoke[s] = {} /\ d \in GpuNamed
      BY <1>2 DEF Payload
    <2>2. PICK s \in Failed(cut) : \/ d \in spoke[s]
                                   \/ s = Nvidia /\ NvidiaFailed
                                      /\ spoke[s] = {} /\ d \in GpuNamed
      BY <2>1
    <2>3. s \in Source
      BY DEF Failed
    <2>4. d \in Covered(s)
      BY <2>2, <2>3, FailedIsCovered
    <2>5. d \in Unconfirmed(cut)
      BY <2>4 DEF Unconfirmed
    <2> QED
      BY <2>1, <2>5 DEF Payload
  <1> QED
    BY <1>1, <1>2

(* A pass, whole or cut short, keeps what a failing source is remembered     *)
(* for, however often it has failed before.                                  *)
LEMMA PassKeeps ==
  ASSUME ProbesInv, NEW cut, ProbePass(cut)
  PROVE  ProbesInv'
  <1>1. MemoryCovers'
    <2>1. \A s \in Source : /\ scope'[s] = Remembered(cut)[s]
                            /\ spoke'[s] = IF s \in Working(cut)
                                           THEN report[s] \cap ProbeDevice
                                           ELSE IF s \in Failed(cut) THEN spoke[s]
                                           ELSE {}
      BY DEF ProbePass
    <2>2. scope' \in [Source -> SUBSET ProbeDevice]
      BY FailedIsCovered DEF ProbePass, Remembered, ProbesInv
    <2>3. spoke' \in [Source -> SUBSET ProbeDevice]
      BY DEF ProbePass, ProbesInv, MemoryCovers
    <2>4. \A s \in Source : spoke'[s] \subseteq scope'[s]
      BY <2>1, FailedIsCovered DEF Remembered, ProbesInv
    <2>5. spoke'[Nvidia] = {} => scope'[Nvidia] \in {{}, GpuNamed}
      <3>1. Nvidia \in Source
        BY DEF Source
      <3> QED
        BY <2>1, <3>1, FailedIsCovered DEF Remembered, ProbesInv
    <2> QED
      BY <2>2, <2>3, <2>4, <2>5 DEF MemoryCovers
  <1>2. DarkIsLeftOut'
    BY PayloadLeavesOut DEF ProbePass, ProbesInv, DarkIsLeftOut
  <1> QED
    BY <1>1, <1>2 DEF ProbesInv

(* Passes, lost and applied payloads, a restart of the worker and every      *)
(* change of the host preserve the invariant.                                *)
LEMMA ProbesNextInv == ProbesInv /\ [ProbesNext]_probeVars => ProbesInv'
  <1> SUFFICES ASSUME ProbesInv, [ProbesNext]_probeVars PROVE ProbesInv'
    OBVIOUS
  <1>1. ASSUME FullPass \/ \E cut \in DropIn : OverrunPass(cut) PROVE ProbesInv'
    BY <1>1, PassKeeps DEF FullPass, OverrunPass
  <1>2. ASSUME NEW m \in wire, ApplyDeviceFacts(m) \/ LosePayload(m)
        PROVE  ProbesInv'
    BY <1>2 DEF ApplyDeviceFacts, LosePayload, memoryVars, ProbesInv, MemoryCovers,
                DarkIsLeftOut
  <1>3. CASE RestartWorker
    BY <1>3, ProbesAssumption
    DEF RestartWorker, ProbesInv, MemoryCovers, DarkIsLeftOut, Source
  <1>4. CASE UNCHANGED <<memoryVars, wire>>
    BY <1>4 DEF memoryVars, ProbesInv, MemoryCovers, DarkIsLeftOut
  <1>5. ASSUME NEW s \in Source, NEW h, ChangeHealth(s, h)
        PROVE  UNCHANGED <<memoryVars, wire>>
    BY <1>5 DEF ChangeHealth
  <1>6. ASSUME NEW s \in Source, NEW r, ChangeReport(s, r)
        PROVE  UNCHANGED <<memoryVars, wire>>
    BY <1>6 DEF ChangeReport
  <1>7. ASSUME NEW x, ChangeDir(x) \/ FillDisk PROVE UNCHANGED <<memoryVars, wire>>
    BY <1>7 DEF ChangeDir, FillDisk
  <1>8. ASSUME NEW p, NEW b, EditSheet(p, b) PROVE UNCHANGED <<memoryVars, wire>>
    BY <1>8 DEF EditSheet
  <1>9. DropIn \subseteq Source
    BY DEF Source
  <1>10. CASE UNCHANGED probeVars
    BY <1>4, <1>10 DEF probeVars
  <1> QED
    BY <1>1, <1>2, <1>3, <1>4, <1>5, <1>6, <1>7, <1>8, <1>9, <1>10 DEF ProbesNext

(* A probe outage never clears labels: whatever payload is applied, however  *)
(* late and however many passes into the outage, the devices its pass was in *)
(* the dark about keep what is stored for them.                              *)
THEOREM LabelsSurviveOutage == ProbesSpec => OutageKeepsLabels
  <1> DEFINE Keeps == \A m \in wire : ApplyDeviceFacts(m) =>
                        \A d \in m.dark : detected'[d] = detected[d]
  <1>1. ProbesInv => Keeps
    BY DEF ProbesInv, DarkIsLeftOut, ApplyDeviceFacts
  <1>2. ProbesSpec => []ProbesInv
    BY ProbesInitInv, ProbesNextInv, PTL DEF ProbesSpec
  <1>3. ProbesSpec => [][Keeps]_probeVars
    BY <1>1, <1>2, PTL
  <1> QED
    BY <1>3 DEF OutageKeepsLabels
=============================================================================
