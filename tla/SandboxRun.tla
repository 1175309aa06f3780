----------------------------- MODULE SandboxRun -----------------------------
(***************************************************************************)
(* One sandbox run: _run_backend() of core/pipeline.py, which submits a    *)
(* sample to a backend, collects its artifacts, ingests them and releases  *)
(* the backend, with the three backends of sandbox/ (qemu.py, cape.py,     *)
(* replay.py) and the ingestion of recorded reports.                       *)
(*                                                                         *)
(* Any call may fail: the exception goes to the `except' block (from       *)
(* "late" once the merge has begun) and through the `finally' block.       *)
(* Ctrl-C skips the first one, the signal by which a worker ends its child *)
(* (platform/worker.py) skips both.  Removing a file that exists is        *)
(* assumed to work.                                                        *)
(***************************************************************************)
EXTENDS Naturals

CONSTANTS
    Backends,      \* those this deployment uses, of "qemu", "cape", "replay"
    Deadline       \* timeout_seconds of the policy plus the backend's allowance, in ticks

ASSUME BackendAssumption  == Backends \subseteq {"qemu", "cape", "replay"}
ASSUME DeadlineAssumption == Deadline \in Nat

VARIABLES
    backend,
    pc,            \* where the controller is
    job,           \* the controller holds a job handle
    bundle,        \* what the manifest says of each kind of artifact
    file,          \* what is at the path of each kind
    staged, store, \* runtime evidence: its kind and what it was read from
    vm,            \* the QEMU process: "none", "up", "down"
    disk,          \* what the QEMU job directory holds of the transport
    serial,        \* serial.log: "nothing", a line without its end, a report, too much
    task,          \* the task on the CAPE host
    clock,         \* since the VM was started, or since collect() was called
    raised         \* what leaves _run_backend(): "no", "exception", "interrupt"

runVars == <<backend, pc, job, bundle, file, staged, store, vm, disk, serial, task, clock, raised>>

Kinds == {"cape_report", "memory_report", "trace", "memory_dump"}

\* "own" declares this sample, "edited" does with another content; "other" is
\* refused (another sample's, nobody's or a platform's that does not fit);
\* "broken" does not parse or is too large; "gone" was there before.
Content == {"absent", "own", "edited", "other", "broken", "gone"}

\* No backend returns a bundle without artifacts.
NoBundle == [k \in Kinds |-> "absent"]

Waiting  == {"collect", "poll"}
Location == {"log", "submit", "iso", "overlay", "boot", "status", "collect", "poll", "dump", "report",
             "check", "merge", "record", "except", "late", "release", "over", "killed"} \cup Kinds

\* Every component keeps to its values, and evidence names what it came from.
SandboxTypeOK ==
    /\ backend \in Backends /\ pc \in Location /\ job \in BOOLEAN
    /\ bundle \in [Kinds -> Content] /\ file \in [Kinds -> Content]
    /\ staged \subseteq Kinds \X Content /\ store \subseteq Kinds \X Content
    /\ vm \in {"none", "up", "down"}
    /\ disk \subseteq {"payload", "iso", "overlay"}
    /\ serial \in {"nothing", "partial", "own", "other", "flood"}
    /\ task \in {"none", "pending", "completed", "failed"}
    /\ clock \in 0 .. Deadline
    /\ raised \in {"no", "exception", "interrupt"}

\* A replay run is given at least one recorded report; no backend records dumps.
RunInit ==
    /\ backend \in Backends
    /\ pc = "log" /\ job = FALSE
    /\ bundle = NoBundle
    /\ IF backend = "replay"
       THEN file \in {f \in [Kinds -> Content \ {"edited"}] : f # NoBundle /\ f["memory_dump"] = "absent"}
       ELSE file = NoBundle
    /\ staged = {} /\ store = {}
    /\ vm = "none" /\ disk = {} /\ serial = "nothing" /\ task = "none"
    /\ clock = 0 /\ raised = "no"

\* The controller goes on at l, or an exception takes it to the `except' block.
Goes(l) == pc' = l /\ UNCHANGED <<backend, raised>>
Fails   == Goes("except")

machine  == <<vm, disk, serial, task, clock>>
evidence == <<staged, store>>

-----------------------------------------------------------------------------
\* audit.log() before anything else.
SubmitLog ==
    /\ pc = "log"
    /\ Goes("submit") \/ Fails
    /\ UNCHANGED <<job, bundle, file, evidence, machine>>

\* Every backend refuses what it cannot run: a network mode, a changed image, an
\* unattested deployment, a recorded report that does not exist.
Refuse ==
    /\ pc = "submit"
    /\ backend = "replay" => \E k \in Kinds : file[k] = "gone"
    /\ Fails
    /\ UNCHANGED <<job, bundle, file, evidence, machine>>

SubmitReplay ==
    /\ pc = "submit" /\ backend = "replay"
    /\ \A k \in Kinds : file[k] # "gone"
    /\ job' = TRUE
    /\ Goes("status")
    /\ UNCHANGED <<bundle, file, evidence, machine>>

\* The task may exist on the host without an answer that names it.
SubmitCape ==
    /\ pc = "submit" /\ backend = "cape"
    /\ task' = "pending"
    /\ \/ job' = TRUE /\ Goes("status")
       \/ job' = FALSE /\ Fails
    /\ UNCHANGED <<bundle, file, evidence, vm, disk, serial, clock>>

\* QemuBackend.submit(): the plaintext payload, its ISO, the overlay, the VM.
\* The payload is written before the `try' block begins.
Stage ==
    /\ pc = "submit" /\ backend = "qemu"
    /\ disk' = {"payload"}
    /\ Goes("iso") \/ Fails
    /\ UNCHANGED <<job, bundle, file, evidence, vm, serial, task, clock>>

MakeIso ==
    /\ pc = "iso"
    /\ disk' = disk \cup {"iso"}
    /\ Goes("overlay")
    /\ UNCHANGED <<job, bundle, file, evidence, vm, serial, task, clock>>

MakeOverlay ==
    /\ pc = "overlay"
    /\ disk' = disk \cup {"overlay"}
    /\ Goes("boot")
    /\ UNCHANGED <<job, bundle, file, evidence, vm, serial, task, clock>>

Boot ==
    /\ pc = "boot"
    /\ vm' = "up"
    /\ disk' = disk \ {"payload"}
    /\ clock' = 0
    /\ job' = TRUE
    /\ Goes("status")
    /\ UNCHANGED <<bundle, file, evidence, serial, task>>

AbortLeavesOverlay ==                                                        \* mutant
    /\ pc \in {"iso", "overlay", "boot"}
    /\ disk' = disk \ {"payload", "iso"}
    /\ Fails
    /\ UNCHANGED <<job, bundle, file, evidence, vm, serial, task, clock>>

Abort ==
    /\ pc \in {"iso", "overlay", "boot"}
    /\ disk' = disk \ {"payload", "iso", "overlay"}
    /\ Fails
    /\ UNCHANGED <<job, bundle, file, evidence, vm, serial, task, clock>>

-----------------------------------------------------------------------------
\* A backend that reports failure, or does not answer, has no artifacts.
StatusOf ==
    /\ pc = "status"
    /\ IF \/ backend = "qemu" /\ vm = "down"
          \/ backend = "cape" /\ task = "failed"
       THEN Fails
       ELSE Goes("collect") \/ (backend = "cape" /\ Fails)
    /\ clock' = IF backend = "cape" THEN 0 ELSE clock
    /\ UNCHANGED <<job, bundle, file, evidence, vm, disk, serial, task>>

CollectReplay ==
    /\ pc = "collect" /\ backend = "replay"
    /\ IF \E k \in Kinds : file[k] = "gone"
       THEN Fails /\ UNCHANGED bundle
       ELSE bundle' = file /\ Goes("check")
    /\ UNCHANGED <<job, file, evidence, machine>>

\* QemuBackend.collect(): a line that begins with the marker is decoded as it is.
GivesUpNever == FALSE                                                        \* mutant

GivesUp == clock >= Deadline

ReadSerial ==
    /\ pc = "collect" /\ backend = "qemu"
    /\ \/ GivesUp /\ Fails
       \/ ~GivesUp /\ serial = "nothing" /\ Goes("poll")
       \/ ~GivesUp /\ serial \in {"partial", "other", "flood"} /\ Fails
       \/ ~GivesUp /\ serial = "partial" /\ Goes("poll")      \* within the marker
       \/ ~GivesUp /\ serial = "own" /\ Goes("dump")
    /\ UNCHANGED <<job, bundle, file, evidence, machine>>

PollVM ==
    /\ pc = "poll" /\ backend = "qemu"
    /\ IF vm = "down" THEN Fails ELSE Goes("collect")
    /\ UNCHANGED <<job, bundle, file, evidence, machine>>

\* runtime.json and, if the policy asks for it, the memory of a living guest.
Dump ==
    /\ pc = "dump"
    /\ \/ Fails /\ UNCHANGED <<bundle, file>>
       \/ /\ \/ bundle' = [NoBundle EXCEPT !["trace"] = "own"]
             \/ vm = "up" /\ bundle' = [NoBundle EXCEPT !["trace"] = "own", !["memory_dump"] = "own"]
          /\ file' = bundle'
          /\ Goes("check")
    /\ UNCHANGED <<job, evidence, machine>>

\* CAPEBackend.collect().
PollTask ==
    /\ pc = "collect" /\ backend = "cape"
    /\ \/ Fails
       \/ task = "completed" /\ Goes("report")
       \/ task = "pending" /\ ~GivesUp /\ Goes("poll")
    /\ UNCHANGED <<job, bundle, file, evidence, machine>>

AwaitTask ==
    /\ pc = "poll" /\ backend = "cape"
    /\ Goes("collect")
    /\ UNCHANGED <<job, bundle, file, evidence, machine>>

\* A report of another sample, or of none, is not written down.
FetchReport ==
    /\ pc = "report"
    /\ \/ Fails /\ UNCHANGED <<bundle, file>>
       \/ \E c \in {"own", "other"} :                 \* "other": a platform that does not fit
             /\ bundle' = [NoBundle EXCEPT !["cape_report"] = c]
             /\ file' = bundle'
             /\ Goes("check")
    /\ UNCHANGED <<job, evidence, machine>>

-----------------------------------------------------------------------------
\* Every artifact is hashed again; the ingestion opens the files once more.
Check ==
    /\ pc = "check"
    /\ IF \A k \in Kinds : bundle[k] # "absent" => file[k] = bundle[k]
       THEN Goes("cape_report") ELSE Fails
    /\ UNCHANGED <<job, bundle, file, evidence, machine>>

After(k) == CASE k = "cape_report"   -> "memory_report"
              [] k = "memory_report" -> "trace"
              [] k = "trace"         -> "memory_dump"
              [] k = "memory_dump"   -> "merge"

BoundIfDeclared(k) == file[k] \in {"own", "edited", "other"}                  \* mutant

\* The content is parsed and declares this sample.
Bound(k) == file[k] \in {"own", "edited"}

\* Nothing to ingest: no such artifact; a recorded report that is gone or that is
\* refused, with a note; a dump whose tools fail with an ordinary error.
Skips(k) ==
    \/ bundle[k] = "absent"
    \/ k \in {"cape_report", "memory_report"} /\ file[k] \in {"other", "gone"}
    \/ k = "memory_dump"

\* Evidence of a report goes to a store of its own first.
IngestDirectly(k) ==                                                         \* mutant
    /\ pc = k /\ bundle[k] # "absent" /\ Bound(k)
    /\ store' = store \cup {<<k, file[k]>>}
    /\ Goes(After(k)) \/ Fails
    /\ UNCHANGED <<job, bundle, file, staged, machine>>

Ingest(k) ==
    /\ pc = k /\ bundle[k] # "absent" /\ Bound(k)
    /\ staged' = staged \cup {<<k, file[k]>>}
    /\ Goes(After(k)) \/ Fails                        \* its audit record, later items
    /\ UNCHANGED <<job, bundle, file, store, machine>>

Skip(k) ==
    /\ pc = k /\ Skips(k)
    /\ Goes(After(k))
    /\ UNCHANGED <<job, bundle, file, evidence, machine>>

IngestFails(k) ==
    /\ pc = k /\ bundle[k] # "absent"
    /\ k \in {"cape_report", "memory_report"} => file[k] \notin {"other", "gone"}
    /\ Fails
    /\ UNCHANGED <<job, bundle, file, evidence, machine>>

Earlier(k) == CASE k = "cape_report"   -> {}
                [] k = "memory_report" -> {"cape_report"}
                [] k = "trace"         -> {"cape_report", "memory_report"}
                [] k = "memory_dump"   -> Kinds \ {"memory_dump"}

\* store.extend() of the staged store, one item after the other, here the items of
\* one artifact: EvidenceStore.append() calls the subscribers of the store, and one
\* that raises ends the merge where it is.
Merge ==
    /\ pc = "merge"
    /\ \/ staged \subseteq store /\ Goes("record") /\ UNCHANGED store
       \/ \E e \in staged \ store :
             /\ \A d \in staged \ store : d[1] \notin Earlier(e[1])
             /\ store' = store \cup {e}
             /\ Goes("merge") \/ Goes("late")
    /\ UNCHANGED <<job, bundle, file, staged, machine>>

\* audit.log() of the bundle, after the evidence was merged.
CollectLog ==
    /\ pc = "record"
    /\ Goes("release") \/ Goes("late")
    /\ UNCHANGED <<job, bundle, file, evidence, machine>>

-----------------------------------------------------------------------------
\* The `except' block; its own audit.log() may fail.
Except ==
    /\ pc \in {"except", "late"}
    /\ \/ bundle' = NoBundle /\ UNCHANGED raised
       \/ bundle' = bundle /\ raised' = "exception"
    /\ pc' = "release"
    /\ UNCHANGED <<backend, job, file, evidence, machine>>

\* The `finally' block.  CAPE tears its guest down by itself.
Release ==
    /\ pc = "release"
    /\ vm' = IF job /\ vm = "up" THEN "down" ELSE vm
    /\ disk' = IF job THEN disk \ {"iso", "overlay"} ELSE disk
    /\ pc' = "over"
    /\ raised' \in {raised} \cup (IF job THEN {"exception"} ELSE {})
    /\ UNCHANGED <<backend, job, bundle, file, evidence, serial, task, clock>>

-----------------------------------------------------------------------------
\* External: Ctrl-C reaches the VM as well, which is in the foreground group.
\* Within submit() there is no handle yet, and no `except Exception' sees it.
Interrupt ==
    /\ pc \notin {"release", "over", "killed"}
    /\ pc' = "release" /\ raised' = "interrupt"
    /\ vm' \in {vm, IF vm = "up" THEN "down" ELSE vm}
    /\ disk' = IF pc \in {"iso", "overlay", "boot"} THEN disk \ {"payload"} ELSE disk
    /\ UNCHANGED <<backend, job, bundle, file, evidence, serial, task, clock>>

\* The worker ends the process group of the attempt, VM included.
Kill ==
    /\ pc \notin {"over", "killed"}
    /\ pc' = "killed"
    /\ vm' = IF vm = "up" THEN "down" ELSE vm
    /\ UNCHANGED <<backend, job, bundle, file, evidence, disk, serial, task, clock, raised>>

TimePasses ==
    /\ pc \in Waiting /\ clock < Deadline
    /\ clock' = clock + 1
    /\ UNCHANGED <<backend, pc, job, bundle, file, evidence, vm, disk, serial, task, raised>>

\* The guest agent writes one long line, slowly; a guest may be compromised.
Guest ==
    /\ vm = "up"
    /\ \/ /\ serial' \in (CASE serial = "nothing" -> {"partial", "flood"}
                            [] serial = "partial" -> {"own", "other"}
                            [] OTHER -> {})
          /\ vm' = vm
       \/ vm' = "down" /\ serial' = serial
    /\ UNCHANGED <<backend, pc, job, bundle, file, evidence, disk, task, clock, raised>>

\* External: the CAPE host.
Analyse ==
    /\ task = "pending"
    /\ task' \in {"completed", "failed"}
    /\ UNCHANGED <<backend, pc, job, bundle, file, evidence, vm, disk, serial, clock, raised>>

\* External: somebody changes or removes a recorded report.
Edit(k) ==
    /\ backend = "replay" /\ file[k] \in {"own", "edited", "other"}
    /\ file' = [file EXCEPT ![k] = IF @ = "own" THEN "edited" ELSE IF @ = "edited" THEN "other" ELSE "gone"]
    /\ UNCHANGED <<backend, pc, job, bundle, evidence, machine, raised>>

Controller ==
    \/ SubmitLog \/ Refuse \/ SubmitReplay \/ SubmitCape
    \/ Stage \/ MakeIso \/ MakeOverlay \/ Boot \/ Abort
    \/ StatusOf \/ CollectReplay \/ ReadSerial \/ PollVM \/ Dump \/ PollTask \/ AwaitTask \/ FetchReport
    \/ Check \/ (\E k \in Kinds : Ingest(k) \/ Skip(k) \/ IngestFails(k))
    \/ Merge \/ CollectLog \/ Except \/ Release

RunNext ==
    \/ Controller
    \/ Interrupt \/ Kill
    \/ TimePasses \/ Guest \/ Analyse \/ (\E k \in Kinds : Edit(k))

RunSpec == RunInit /\ [][RunNext]_runVars

\* The controller goes on and time passes while it waits; nobody else owes
\* anything: a guest may hang, a task may stay pending.
FairRunSpec == RunSpec /\ WF_runVars(Controller) /\ WF_runVars(TimePasses)

-----------------------------------------------------------------------------
\* Whatever fails, and wherever, the VM is down and its disk and the sample's ISO
\* are gone when _run_backend() is left, and the plaintext payload too once submit()
\* has returned.  Only Ctrl-C within submit() leaves more behind: nobody holds a
\* handle then.
ReleasedWhenOver ==
    pc = "over" /\ (job \/ raised # "interrupt") =>
        /\ vm # "up"
        /\ disk \subseteq {"payload"}
        /\ job => disk = {}

\* Nothing is merged before every artifact was ingested: a run that fails before
\* that leaves no evidence, and what is merged comes with the trace of the bundle.
MergedWhenAllTaken ==
    store # {} =>
        /\ pc # "except"
        /\ bundle["trace"] # "absent" => \E c \in Content : <<"trace", c>> \in staged

\* Runtime evidence comes from reports that declare this very sample.
OnlyOwnEvidence == \A e \in store : e[2] \in {"own", "edited"}

\* A worker publishes a QEMU run if it has a bundle (platform/worker.py:57): its
\* evidence then holds the guest's trace.
PublishedRunIsObserved ==
    pc = "over" /\ raised = "no" /\ backend = "qemu" /\ bundle # NoBundle => <<"trace", "own">> \in store

\* A silent guest, a pending task and a backend that never answers end the run.
RunEnds == <>(pc \in {"over", "killed"})

\* destroy() "is always called by the controller" (sandbox/base.py:172-174), and
\* "overlay and payload ISO are removed when the backend releases the VM"
\* (docs/sandbox-deployment.md:29), also when a worker ends the attempt.
AlwaysDestroyed == pc \in {"over", "killed"} /\ job => disk \cap {"iso", "overlay"} = {}
=============================================================================
