------------------------------- MODULE Probes -------------------------------
(***************************************************************************)
(* What a host tells the controller about its devices.  The worker runs    *)
(* its probe sources (nvidia-smi and the drop-in scripts, in name order),  *)
(* turns one pass into one payload and sends it, with a registration or    *)
(* with the periodic push; the controller replaces the labels of exactly   *)
(* the devices the payload names.  A source that works names the devices   *)
(* it has facts for.  A source that fails leaves the devices it spoke for  *)
(* unconfirmed, and an unconfirmed device without a fact is left out, so   *)
(* that its stored labels survive.                                         *)
(*                                                                         *)
(* The label of source s on a device is s itself.  The one built-in fact   *)
(* kept is the free disk space, which always can be read: a payload has a  *)
(* host fact, and labelsPayload's nil return is not reached.               *)
(***************************************************************************)
EXTENDS Naturals, FiniteSets

CONSTANTS
  ProbeDevice,  \* the devices of the host
  GpuNamed,     \* those of them named gpu<N>
  Nvidia,       \* the source nvidia-smi
  DropIn,       \* the drop-in scripts, numbered in name order
  HostKey,      \* a key without a dot
  Stranger,     \* a key that names no declared device
  Report,       \* the sets of keys each source may report
  NoSheet, Unreadable,
  MaxUpset,     \* bound: changes of the host, lost payloads, overrun passes
  MaxWire       \* bound: payloads on their way

Source == DropIn \cup {Nvidia}
Place == ProbeDevice \cup {HostKey}
Body == {NoSheet, "body"}

ASSUME ProbesAssumption ==
  /\ GpuNamed \subseteq ProbeDevice
  /\ DropIn = 1..Cardinality(DropIn) /\ Nvidia \notin DropIn
  /\ HostKey \notin ProbeDevice /\ Stranger \notin Place
  /\ Report \in [Source -> SUBSET SUBSET (Place \cup {Stranger})]
  /\ Unreadable \notin Body
  /\ MaxUpset \in Nat /\ MaxWire \in Nat \ {0}

VARIABLES
  health,    \* of each source: ok, broken, off (not executable), gone
  report,    \* the keys a source reports while it works
  dir,       \* the probe directory: ok, missing, unreadable
  free,      \* the free disk space
  sheet,     \* the usage sheet files: host.md and host.d/<device>.md
  config,    \* which declared labels worker.yaml holds
  scope,     \* Worker.probeSourceDevices; {} where there is no entry
  startup,   \* nvidiaSmiStartupChecked and nvidiaSmiSeenAtStartup
  spoke,     \* history: what each configured source named when it last worked
  wire,      \* payloads sent and not yet handled
  detected,  \* device_labels of source detected
  declared,  \* device_labels of source declared
  docs,      \* host_docs
  upsets

hostVars == <<health, report, dir, free, sheet, config>>
memoryVars == <<scope, startup, spoke>>
storedVars == <<detected, declared, docs>>
probeVars == <<hostVars, memoryVars, wire, storedVars, upsets>>

(* What the sources in `up` and the disk now say about a device. *)
Facts(up, d) == {s \in up : d \in report[s]}
HostFacts(up) == [free |-> free, from |-> Facts(up, HostKey)]

(* The host is healthy, and a previous process of the worker has stored     *)
(* what it reports.                                                         *)
ProbesInit ==
  /\ health = [s \in Source |-> "ok"]
  /\ report = [s \in Source |-> CHOOSE r \in Report[s] :
                                  \A q \in Report[s] : Cardinality(q) <= Cardinality(r)]
  /\ dir = "ok" /\ free = 0 /\ config = 0
  /\ sheet = [p \in Place |-> NoSheet]
  /\ scope = [s \in Source |-> {}]
  /\ startup = "unchecked"
  /\ spoke = [s \in Source |-> {}]
  /\ wire = {}
  /\ detected = [d \in ProbeDevice |-> [host |-> HostFacts(Source),
                                        dev |-> Facts(Source, d)]]
  /\ declared = [d \in ProbeDevice |-> 0]
  /\ docs = [p \in Place |-> NoSheet]
  /\ upsets = 0
-----------------------------------------------------------------------------
(* nvidiaLabels: on the PATH, whether or not it then works. *)
NvidiaFound == health[Nvidia] # "gone"

(* Recorded on the first pass of the process and only read after it. *)
Startup == IF startup # "unchecked" THEN startup
           ELSE IF NvidiaFound THEN "seen" ELSE "absent"

(* Any absence of nvidia-smi counts as an outage. *)
NvidiaFailed_Absent == health[Nvidia] # "ok"

(* Found and broken, or gone after this process had found it. *)
NvidiaFailed == \/ health[Nvidia] = "broken"
                \/ ~NvidiaFound /\ Startup = "seen"

(* The sources that run and whose output parses.  The pass's budget runs out *)
(* before drop-in `cut`.                                                     *)
Working(cut) ==
  {s \in Source : /\ health[s] = "ok"
                  /\ s # Nvidia => dir = "ok" /\ s < cut}

(* The sources a pass could not confirm.  A directory that cannot be read   *)
(* fails every remembered source that has not already run; a skipped        *)
(* drop-in has failed too, executable or not, while a missing directory and *)
(* a script that is gone or not executable are configuration.               *)
Failed(cut) ==
  {s \in Source :
     \/ s = Nvidia /\ NvidiaFailed
     \/ dir = "unreadable" /\ s \notin Working(cut)
     \/ s # Nvidia /\ dir = "ok" /\ \/ s < cut /\ health[s] = "broken"
                                    \/ s >= cut /\ health[s] # "gone"}

(* The devices a failed source is understood to speak for: what it named    *)
(* when it last worked, and for nvidia-smi without such a record every      *)
(* device it could ever name (nvidiaScopedDevices).                         *)
Covered(s) == IF s = Nvidia /\ NvidiaFailed /\ scope[s] = {}
              THEN GpuNamed ELSE scope[s]

Unconfirmed(cut) == UNION {Covered(s) : s \in Failed(cut)}

(* A failed source's entry is dropped with the pass. *)
Remembered_Dropped(cut) ==
  [s \in Source |-> IF s \in Working(cut) THEN report[s] \cap ProbeDevice ELSE {}]

(* The rebuilt probeSourceDevices: what a working source named (classifyKey *)
(* drops what is no device of this host), what a failed one is remembered   *)
(* for, and no entry for any other.                                         *)
Remembered(cut) ==
  [s \in Source |-> IF s \in Working(cut) THEN report[s] \cap ProbeDevice
                    ELSE IF s \in Failed(cut) THEN Covered(s)
                    ELSE {}]

(* readSheets: a missing file is an empty sheet, an unreadable one is left  *)
(* out.  A long one is cut to what the controller accepts.                  *)
Sheets == [p \in {q \in Place : sheet[q] # Unreadable} |-> sheet[p]]

(* labelsPayload, and the rest of what register and pushLabels send.        *)
(* `dark` is history: the devices nothing was learned about because a       *)
(* source that last spoke for them is out.                                  *)
Payload(cut) ==
  [host |-> HostFacts(Working(cut)),
   dev |-> [d \in {e \in ProbeDevice : \/ Facts(Working(cut), e) # {}
                                       \/ e \notin Unconfirmed(cut)}
             |-> Facts(Working(cut), d)],
   declared |-> config,
   docs |-> Sheets,
   dark |-> {d \in ProbeDevice :
               /\ Facts(Working(cut), d) = {}
               /\ \E s \in Failed(cut) : \/ d \in spoke[s]
                                         \/ s = Nvidia /\ NvidiaFailed
                                            /\ spoke[s] = {} /\ d \in GpuNamed}]

Upset == upsets < MaxUpset /\ upsets' = upsets + 1

(* One pass under probeMu, by register or by pushLabels, and its send. *)
ProbePass(cut) ==
  /\ Cardinality(wire) < MaxWire
  /\ startup' = Startup
  /\ scope' = Remembered(cut)
  /\ spoke' = [s \in Source |->
                 IF s \in Working(cut) THEN report[s] \cap ProbeDevice
                 ELSE IF s \in Failed(cut) THEN spoke[s] ELSE {}]
  /\ wire' = wire \cup {Payload(cut)}
  /\ UNCHANGED <<hostVars, storedVars>>

Whole == 1 + Cardinality(DropIn)

FullPass == ProbePass(Whole) /\ UNCHANGED upsets

(* The pass budget runs out before a drop-in. *)
OverrunPass(cut) == /\ ProbePass(cut)
                    /\ Upset

(* applyDeviceFacts for payload m, which may be an older one, or one of a   *)
(* process that is gone.                                                    *)
ApplyDeviceFacts(m) ==
  /\ detected' = [d \in ProbeDevice |->
                    IF d \in DOMAIN m.dev
                    THEN [host |-> m.host, dev |-> m.dev[d]] ELSE detected[d]]
  /\ declared' = [d \in ProbeDevice |-> m.declared]
  /\ docs' = [p \in Place |-> IF p \in DOMAIN m.docs THEN m.docs[p] ELSE docs[p]]
  /\ wire' = wire \ {m}
  /\ UNCHANGED <<hostVars, memoryVars, upsets>>

LosePayload(m) ==
  /\ Upset
  /\ wire' = wire \ {m}
  /\ UNCHANGED <<hostVars, memoryVars, storedVars>>

(* A new process knows nothing of what its predecessor saw. *)
RestartWorker ==
  /\ Upset
  /\ scope' = [s \in Source |-> {}]
  /\ spoke' = [s \in Source |-> {}]
  /\ startup' = "unchecked"
  /\ config' \in {0, 1}
  /\ UNCHANGED <<health, report, dir, free, sheet, wire, storedVars>>
-----------------------------------------------------------------------------
(* The host changes under the worker. *)
ChangeHealth(s, h) ==
  /\ Upset /\ health[s] # h
  /\ health' = [health EXCEPT ![s] = h]
  /\ UNCHANGED <<report, dir, free, sheet, config, memoryVars, wire, storedVars>>

ChangeReport(s, r) ==
  /\ Upset /\ report[s] # r
  /\ report' = [report EXCEPT ![s] = r]
  /\ UNCHANGED <<health, dir, free, sheet, config, memoryVars, wire, storedVars>>

ChangeDir(x) ==
  /\ Upset /\ dir # x
  /\ dir' = x
  /\ UNCHANGED <<health, report, free, sheet, config, memoryVars, wire, storedVars>>

FillDisk ==
  /\ Upset /\ free = 0
  /\ free' = 1
  /\ UNCHANGED <<health, report, dir, sheet, config, memoryVars, wire, storedVars>>

EditSheet(p, b) ==
  /\ Upset /\ sheet[p] # b
  /\ sheet' = [sheet EXCEPT ![p] = b]
  /\ UNCHANGED <<health, report, dir, free, config, memoryVars, wire, storedVars>>

ProbesNext ==
  \/ FullPass
  \/ \E cut \in DropIn : OverrunPass(cut)
  \/ \E m \in wire : ApplyDeviceFacts(m) \/ LosePayload(m)
  \/ RestartWorker
  \/ \E s \in Source, h \in {"ok", "broken", "gone"} : ChangeHealth(s, h)
  \/ \E s \in DropIn : ChangeHealth(s, "off")
  \/ \E s \in Source : \E r \in Report[s] : ChangeReport(s, r)
  \/ \E x \in {"ok", "missing", "unreadable"} : ChangeDir(x)
  \/ FillDisk
  \/ \E p \in Place, b \in Body \cup {Unreadable} : EditSheet(p, b)

ProbesSpec == /\ ProbesInit /\ [][ProbesNext]_probeVars
              /\ WF_probeVars(FullPass)
              /\ WF_probeVars(\E m \in wire : ApplyDeviceFacts(m))
-----------------------------------------------------------------------------
(* A probe outage never clears labels: a device that a source now failing   *)
(* spoke for, and that no other source has a fact about, keeps the labels   *)
(* stored for it, however many passes the outage lasts.  (unconfirm,        *)
(* labelsPayload, applyDeviceFacts.)                                        *)
OutageKeepsLabels ==
  [][\A m \in wire : ApplyDeviceFacts(m) =>
       \A d \in m.dark : detected'[d] = detected[d]]_probeVars

(* The sources that cannot be confirmed now, and the devices they could     *)
(* ever name.                                                               *)
Out ==
  {s \in Source : \/ health[s] = "broken" /\ (s = Nvidia \/ dir # "missing")
                  \/ s = Nvidia /\ health[s] = "gone" /\ startup = "seen"
                  \/ dir = "unreadable" /\ (s = Nvidia => health[s] # "ok")}

Clouded(d) == \E s \in Out : \/ d \in UNION Report[s]
                             \/ s = Nvidia /\ d \in GpuNamed

(* Once the sources keep still, what they report now, the declared labels   *)
(* and the sheets arrive, whatever was lost, overtaken or restarted in      *)
(* between: labels of a source that is removed, switched off or was never   *)
(* there are cleared, and a broken source freezes no device it cannot speak *)
(* for, nor keeps the host's facts from it.  (probeScopes, unconfirm,       *)
(* labelsPayload and applyDeviceFacts.)                                     *)
LabelsFollowSources ==
  <>[](/\ \A d \in ProbeDevice :
            /\ \/ Clouded(d)
               \/ /\ detected[d].dev = Facts(Working(Whole), d)
                  /\ detected[d].host = HostFacts(Working(Whole))
            /\ declared[d] = config
       /\ \A p \in Place : sheet[p] \in {Unreadable, docs[p]})
=============================================================================
