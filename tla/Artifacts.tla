------------------------------- MODULE Artifacts -------------------------------
(***************************************************************************)
(* The versioned server and renderer of the desktop shell: pointers and    *)
(* version directories on disk, boot, crash-loop fallback, over-the-air    *)
(* update and garbage collection (shared/artifact-core, artifact-boot.cjs, *)
(* artifact-gc.cjs and their callers in main.cjs).                         *)
(*                                                                         *)
(* Every write to the disk is a step of its own, and the app may be killed *)
(* between any two.  Boots, the renderer's crash handler and the           *)
(* activation of an update each hold the pointer mutex; collecting         *)
(* garbage, writing a sentinel and clearing it do not.  One channel, one   *)
(* download at a time (the lock file) and a shelf that only advances.      *)
(***************************************************************************)
EXTENDS Integers, FiniteSets

CONSTANTS
    Releases,       \* trains on the shelf: [train, version, sha]
    Seeds,          \* what installers carry: train 0
    Threshold,      \* CRASH_LOOP_THRESHOLD
    MaxFaults,      \* bound on kills, server crashes and failed page loads
    None

Kinds    == {"server", "renderer"}
Slots    == {"current", "previous", "next"}
Known    == Releases \cup Seeds
Versions == {r.version : r \in Known}
Shas     == {r.sha : r \in Known}
Trains   == {r.train : r \in Known}

ASSUME ReleasesAssumption ==
    /\ Known \subseteq [train : Nat, version : Nat, sha : Shas]
    /\ Seeds # {}
    /\ \A r \in Seeds : r.train = 0
    /\ \A r \in Releases : r.train > 0
    /\ None \notin Known /\ None \notin Shas
ASSUME BoundsAssumption == Threshold \in Nat \ {0} /\ MaxFaults \in Nat

VARIABLES
    ptr,            \* the pointer files of each kind
    dir,            \* the sha in the receipt of each version directory
    sentinel,       \* of each kind: the train and how often it was written
    quarantine,     \* of each kind: trains
    seed,           \* what the installed app carries
    shelf,          \* the train the manifest offers
    launch,         \* where startServer is
    restarted,      \* the monitor has used its one restart
    sweep,          \* the collector: its kind and the directories it goes for
    window,         \* where the page and its crash handler are
    running,        \* the server's and the renderer's version in use, also that of a
                    \* server that outlived the app
    ota,            \* the update that the user asked for
    cs,             \* the holder of the pointer mutex and where it is
    timers,         \* the kinds that have a healthy-clear timer pending
    faults,         \* history: kills and crashes so far
    mishaps         \* history: an update was killed half activated ("torn"), or
                    \* what a boot promoted meanwhile is newer ("overtaken")

disk    == <<ptr, dir, sentinel, quarantine>>
app     == <<launch, restarted, sweep, window, running, ota, timers>>
vars    == <<disk, seed, shelf, app, cs, faults, mishaps>>

Free == [by |-> "nobody", kind |-> "server", at |-> "free", rel |-> None,
         fallback |-> FALSE, seeded |-> FALSE]
Idle == [at |-> "idle", rel |-> None]

Pointers == [Kinds -> [Slots -> Known \cup {None}]]
Sections ==
    [by : {"nobody", "launch", "window", "ota"}, kind : Kinds,
     at : {"free", "promote", "set", "clear", "judge", "demote", "absolve", "decide",
           "activate", "unpack", "place", "announce"},
     rel : Known \cup {None}, fallback : BOOLEAN, seeded : BOOLEAN]

TypeOK ==
    /\ ptr \in Pointers
    /\ dir \in [Kinds -> [Versions -> Shas \cup {None}]]
    /\ sentinel \in [Kinds -> [train : Trains, counter : 0..Threshold]]
    /\ quarantine \in [Kinds -> SUBSET {r.train : r \in Releases}]
    /\ seed \in Seeds /\ shelf \in Releases
    /\ launch \in {"off", "server", "renderer", "list", "keep", "sweep",
                   "spawn", "starting", "up", "down"}
    /\ restarted \in BOOLEAN
    /\ sweep \in [kind : Kinds, targets : SUBSET Versions]
    /\ window \in {"none", "loading", "live", "failed", "noted", "plain"}
    /\ running \in [Kinds -> Known \cup {None}]
    /\ ota \in [at : {"idle", "staged", "ready"}, rel : Releases \cup {None}]
    /\ cs \in Sections
    /\ timers \subseteq Kinds
    /\ faults \in 0..MaxFaults
    /\ mishaps \subseteq {"torn", "overtaken"}

Init ==
    /\ ptr = [k \in Kinds |-> [s \in Slots |-> None]]
    /\ dir = [k \in Kinds |-> [v \in Versions |-> None]]
    /\ sentinel = [k \in Kinds |-> [train |-> 0, counter |-> 0]]
    /\ quarantine = [k \in Kinds |-> {}]
    /\ seed \in Seeds /\ \A r \in Seeds : seed.version <= r.version
    /\ shelf \in Releases /\ \A r \in Releases : shelf.train <= r.train
    /\ launch = "off" /\ restarted = FALSE /\ sweep = [kind |-> "server", targets |-> {}]
    /\ window = "none" /\ running = [k \in Kinds |-> None]
    /\ ota = Idle /\ cs = Free
    /\ timers = {}
    /\ faults = 0 /\ mishaps = {}

Named(k, v) == {s \in Slots : ptr[k][s] # None /\ ptr[k][s].version = v}
Intact(k, r) == r # None /\ dir[k][r.version] = r.sha

\* resolveBoot: current, then previous.
Resolve(k) ==
    LET p == ptr[k] IN
    IF Intact(k, p.current) THEN p.current
    ELSE IF Intact(k, p.previous) THEN p.previous ELSE None

\* writeSentinel.  Past the threshold the counter tells nothing more.
Counted(k, train) ==
    LET n == IF sentinel[k].train = train THEN sentinel[k].counter ELSE 0
    IN  [train |-> train, counter |-> IF n < Threshold THEN n + 1 ELSE n]
Absolved == [train |-> 0, counter |-> 0]

\* decideBootAction.
TakesSeed(r, fallback) == r # None => (~fallback /\ seed.version > r.version)

------------------------------------------------------------------------------
(* The pointer mutex: who enters it, and the steps of the holder.          *)

Enter(by, kind, at, rel) ==
    /\ cs = Free
    /\ cs' = [Free EXCEPT !.by = by, !.kind = kind, !.at = at, !.rel = rel]
    /\ UNCHANGED <<disk, seed, shelf, app, faults, mishaps>>

LaunchEnters == launch \in Kinds /\ Enter("launch", launch, "promote", None)
WindowEnters == window = "failed" /\ Enter("window", "renderer", "promote", None)
OtaEnters    == ota.at = "staged" /\ Enter("ota", "server", "activate", ota.rel)

\* A step of the holder that stays in the section.
Go(from, to) == cs.at = from /\ cs' = [cs EXCEPT !.at = to]
StaysIn == UNCHANGED <<seed, shelf, app, faults, mishaps>>

PointTo(slot, r) == ptr' = [ptr EXCEPT ![cs.kind][slot] = r]

\* What a boot makes current may be newer than an update that passed its gates and
\* is on its way.
SetCurrent(r) ==
    /\ PointTo("current", r)
    /\ mishaps' = IF ota.at = "staged" /\ r.version > ota.rel.version
                  THEN mishaps \cup {"overtaken"} ELSE mishaps
    /\ UNCHANGED <<seed, shelf, app, faults>>

\* promote, write by write.
PromoteNothing ==
    /\ ptr[cs.kind].next = None
    /\ Go("promote", "judge")
    /\ UNCHANGED disk /\ StaysIn
PromoteKeeps ==
    LET p == ptr[cs.kind] IN
    /\ p.next # None
    /\ Go("promote", "set")
    /\ IF p.current = None THEN UNCHANGED ptr ELSE PointTo("previous", p.current)
    /\ UNCHANGED <<dir, sentinel, quarantine>> /\ StaysIn
PromoteSets ==
    /\ Go("set", "clear")
    /\ SetCurrent(ptr[cs.kind].next)
    /\ UNCHANGED <<dir, sentinel, quarantine>>
PromoteClears ==
    /\ Go("clear", IF cs.seeded THEN "decide" ELSE "judge")
    /\ PointTo("next", None)
    /\ UNCHANGED <<dir, sentinel, quarantine>> /\ StaysIn

\* consecutiveFailures: the counter, whatever train it was written for.
Failures(k) == sentinel[k].counter

\* Crash-loop fallback: quarantine current, demote, forgive.
NotLooping ==
    /\ Failures(cs.kind) < Threshold
    /\ Go("judge", "decide")
    /\ UNCHANGED disk /\ StaysIn

Looping ==
    LET current == ptr[cs.kind].current IN
    /\ cs.at = "judge"
    /\ Failures(cs.kind) >= Threshold
    /\ cs' = [cs EXCEPT !.at = "demote", !.fallback = TRUE]
    /\ quarantine' = IF current # None /\ current.train > 0
                     THEN [quarantine EXCEPT ![cs.kind] = @ \cup {current.train}]
                     ELSE quarantine
    /\ UNCHANGED <<ptr, dir, sentinel>> /\ StaysIn
Demote ==
    LET previous == ptr[cs.kind].previous IN
    /\ Go("demote", "absolve")
    /\ IF previous = None THEN UNCHANGED ptr /\ StaysIn ELSE SetCurrent(previous)
    /\ UNCHANGED <<dir, sentinel, quarantine>>
Absolve ==
    /\ Go("absolve", "decide")
    /\ sentinel' = [sentinel EXCEPT ![cs.kind] = Absolved]
    /\ UNCHANGED <<ptr, dir, quarantine>> /\ StaysIn

\* Mutant of Leaves: a turn that throws poisons the queue.
LeavesPoisoned ==
    /\ cs' = IF cs.at = "activate" THEN cs ELSE Free
    /\ UNCHANGED <<seed, shelf, restarted, sweep, timers, faults, mishaps>>

\* The section is left with the version to run, or with an error.
Leaves == cs' = Free /\ UNCHANGED <<seed, shelf, restarted, sweep, timers, faults, mishaps>>

Resolved(r) ==
    /\ running' = [running EXCEPT ![cs.kind] = r]
    /\ IF cs.by = "window"
       THEN window' = "noted" /\ UNCHANGED launch
       ELSE /\ launch' = IF cs.kind = "server" THEN "renderer" ELSE "list"
            /\ UNCHANGED window
    /\ Leaves /\ UNCHANGED <<disk, ota>>

\* Mutant of Throws: the staged server is not rolled back.
ThrowsTorn ==
    /\ CASE cs.by = "window" -> window' = "live" /\ UNCHANGED <<launch, ota>>
         [] cs.by = "launch" -> launch' = "down" /\ UNCHANGED <<window, ota>>
         [] cs.by = "ota"    -> ota' = Idle /\ UNCHANGED <<launch, window>>
    /\ Leaves /\ UNCHANGED <<disk, running>>

\* Left with an error.  The update that fails at the renderer takes the server's
\* next pointer back.
Throws ==
    /\ CASE cs.by = "window" -> window' = "live" /\ UNCHANGED <<launch, ota, ptr>>
         [] cs.by = "launch" -> launch' = "down" /\ UNCHANGED <<window, ota, ptr>>
         [] cs.by = "ota"    -> /\ ota' = Idle
                                /\ IF cs.kind = "renderer"
                                   THEN ptr' = [ptr EXCEPT !["server"].next = None]
                                   ELSE UNCHANGED ptr
                                /\ UNCHANGED <<launch, window>>
    /\ Leaves /\ UNCHANGED <<dir, sentinel, quarantine, running>>

\* What was resolved is run; a seed that was just put in place and is gone again,
\* because the collector took it, is an error.
Boots ==
    LET r == Resolve(cs.kind) IN
    /\ cs.at = "decide"
    /\ cs.seeded \/ ~TakesSeed(r, cs.fallback)
    /\ IF r = None THEN Throws ELSE Resolved(r)

Unpacks(r) ==
    /\ cs' = [cs EXCEPT !.at = IF dir[cs.kind][r.version] = None THEN "place" ELSE "unpack",
                        !.rel = r]
    /\ UNCHANGED disk /\ StaysIn

\* The seed replaces whatever is in its directory.
SeedActivates ==
    /\ cs.at = "decide"
    /\ ~cs.seeded /\ TakesSeed(Resolve(cs.kind), cs.fallback)
    /\ Unpacks(seed)

\* Mutant of Protected: an update replaces directories as the seed does.
ProtectedNever(k, r) == FALSE

\* activateFromArchive for an update: a directory that a pointer names is not
\* replaced, and one with other bytes than the pointer says is an error.
Protected(k, r)  == dir[k][r.version] # None /\ Named(k, r.version) # {}
Mismatched(k, r) ==
    Protected(k, r) /\ \E s \in Named(k, r.version) : ptr[k][s].sha # r.sha
OtaRefused ==
    /\ cs.at = "activate"
    /\ cs.rel.train \in quarantine[cs.kind] \/ Mismatched(cs.kind, cs.rel)
    /\ Throws

\* Mutant of OtaActivates: what the gates said before the download is believed.
OtaActivatesGated ==
    /\ cs.at = "activate"
    /\ ~Mismatched(cs.kind, cs.rel)
    /\ IF Protected(cs.kind, cs.rel)
       THEN Go("activate", "announce") /\ UNCHANGED disk /\ StaysIn
       ELSE Unpacks(cs.rel)

OtaActivates ==
    /\ cs.at = "activate"
    /\ cs.rel.train \notin quarantine[cs.kind]
    /\ ~Mismatched(cs.kind, cs.rel)
    /\ IF Protected(cs.kind, cs.rel)
       THEN Go("activate", "announce") /\ UNCHANGED disk /\ StaysIn
       ELSE Unpacks(cs.rel)

\* swapIntoPlace.  A directory that was there before the extraction is renamed
\* aside, and cannot be when it is gone by then.
Aside ==
    /\ Go("unpack", "place")
    /\ dir[cs.kind][cs.rel.version] # None
    /\ dir' = [dir EXCEPT ![cs.kind][cs.rel.version] = None]
    /\ UNCHANGED <<ptr, sentinel, quarantine>> /\ StaysIn
AsideGone ==
    /\ cs.at = "unpack"
    /\ dir[cs.kind][cs.rel.version] = None
    /\ Throws
Place ==
    /\ Go("place", "announce")
    /\ dir' = [dir EXCEPT ![cs.kind][cs.rel.version] = cs.rel.sha]
    /\ UNCHANGED <<ptr, sentinel, quarantine>> /\ StaysIn

\* The next pointer; an update goes on to the renderer.
Announce ==
    /\ cs.at = "announce"
    /\ PointTo("next", cs.rel)
    /\ IF cs.by # "ota"
       THEN cs' = [cs EXCEPT !.at = "promote", !.seeded = TRUE] /\ UNCHANGED ota
       ELSE IF cs.kind = "server"
       THEN cs' = [cs EXCEPT !.at = "activate", !.kind = "renderer"] /\ UNCHANGED ota
       ELSE cs' = Free /\ ota' = [ota EXCEPT !.at = "ready"]
    /\ UNCHANGED <<dir, sentinel, quarantine, seed, shelf, launch, restarted, sweep,
                   window, running, timers, faults, mishaps>>

Holder ==
    \/ PromoteNothing \/ PromoteKeeps \/ PromoteSets \/ PromoteClears
    \/ NotLooping \/ Looping \/ Demote \/ Absolve
    \/ Boots \/ SeedActivates
    \/ OtaRefused \/ OtaActivates \/ Aside \/ AsideGone \/ Place \/ Announce

------------------------------------------------------------------------------
(* startServer: the two boots, the collector, the server process.          *)

\* gcArtifactKind for one kind after the other, outside the mutex: the
\* directories, then the pointers, then one removal at a time.
Referenced(k) == {ptr[k][s].version : s \in {s \in Slots : ptr[k][s] # None}}

GcUnchanged == UNCHANGED <<ptr, sentinel, quarantine, seed, shelf, restarted, window,
                           running, ota, timers, cs, faults, mishaps>>
GcLists ==
    /\ launch = "list" /\ launch' = "keep"
    /\ sweep' = [sweep EXCEPT !.targets = {v \in Versions : dir[sweep.kind][v] # None}]
    /\ UNCHANGED dir /\ GcUnchanged
GcKeeps ==
    /\ launch = "keep" /\ launch' = "sweep"
    /\ sweep' = [sweep EXCEPT !.targets = @ \ Referenced(sweep.kind)]
    /\ UNCHANGED dir /\ GcUnchanged
GcRemoves ==
    /\ launch = "sweep"
    /\ \E v \in sweep.targets :
          /\ dir' = [dir EXCEPT ![sweep.kind][v] = None]
          /\ sweep' = [sweep EXCEPT !.targets = @ \ {v}]
    /\ UNCHANGED launch /\ GcUnchanged
GcDone ==
    /\ launch = "sweep" /\ sweep.targets = {}
    /\ launch' = IF sweep.kind = "server" THEN "list" ELSE "spawn"
    /\ sweep' = [kind |-> IF sweep.kind = "server" THEN "renderer" ELSE "server",
                 targets |-> {}]
    /\ UNCHANGED dir /\ GcUnchanged

\* writeBootSentinel, ahead of the spawn and ahead of a page's next load.
Registers(k) ==
    /\ sentinel' = [sentinel EXCEPT ![k] = Counted(k, running[k].train)]
    /\ UNCHANGED <<ptr, dir, quarantine, seed, shelf, restarted, sweep, running,
                   ota, timers, cs, faults, mishaps>>
Spawn ==
    /\ launch = "spawn" /\ launch' = "starting"
    /\ Registers("server")
    /\ UNCHANGED window
Ready ==
    /\ launch = "starting" /\ launch' = "up"
    /\ timers' = timers \cup {"server"}
    /\ window' = IF window \in {"none", "plain"} THEN "loading" ELSE window
    /\ UNCHANGED <<disk, seed, shelf, restarted, sweep, running, ota, cs, faults, mishaps>>

Fault == faults < MaxFaults /\ faults' = faults + 1

\* The monitor restarts a server that was up, once; one that never got ready is
\* given up.
ServerDies ==
    /\ Fault
    /\ launch \in {"starting", "up"}
    /\ launch' = IF launch = "up" /\ ~restarted THEN "server" ELSE "down"
    /\ restarted' = (restarted \/ launch = "up")
    /\ running' = [running EXCEPT !["server"] = None]
    /\ UNCHANGED <<disk, seed, shelf, sweep, window, ota, timers, cs, mishaps>>

\* The sentinel is cleared once the kind was healthy for a while - also when it
\* has crashed since: nothing cancels the timer.
HealthyClear(k) ==
    /\ k \in timers
    /\ timers' = timers \ {k}
    /\ sentinel' = [sentinel EXCEPT ![k] = Absolved]
    /\ UNCHANGED <<ptr, dir, quarantine, seed, shelf, launch, restarted, sweep, window,
                   running, ota, cs, faults, mishaps>>

------------------------------------------------------------------------------
(* The page.                                                               *)

PageLoads ==
    /\ window = "loading" /\ window' = "live"
    /\ timers' = timers \cup {"renderer"}
    /\ UNCHANGED <<disk, seed, shelf, launch, restarted, sweep, running, ota, cs, faults,
                   mishaps>>
PageFails ==
    /\ Fault
    /\ window \in {"loading", "live"} /\ window' = "failed"
    /\ UNCHANGED <<disk, seed, shelf, launch, restarted, sweep, running, ota, timers, cs,
                   mishaps>>
PageRetries ==
    /\ window = "noted" /\ window' = "loading"
    /\ Registers("renderer")
    /\ UNCHANGED launch

------------------------------------------------------------------------------
(* Updates.                                                                *)

Publish ==
    /\ \E r \in Releases : r.train > shelf.train /\ shelf' = r
    /\ UNCHANGED <<disk, seed, app, cs, faults, mishaps>>

\* Mutant of Newer: the train number decides.
NewerByTrain(r) ==
    ptr["server"].current # None => r.train > ptr["server"].current.train

\* The gates of downloadAndApplyArtifacts, ahead of the lock.
Newer(r) ==
    LET current(k) == ptr[k].current IN
    /\ current("server") # None => r.train > current("server").train
    /\ (\A k \in Kinds : current(k) # None) =>
          /\ \A k \in Kinds : r.version >= current(k).version
          /\ \E k \in Kinds : r.version > current(k).version
Download ==
    /\ ota = Idle /\ window # "none"
    /\ Newer(shelf) /\ shelf.train \notin quarantine["server"]
    /\ ota' = [at |-> "staged", rel |-> shelf]
    /\ UNCHANGED <<disk, seed, shelf, launch, restarted, sweep, window, running, timers,
                   cs, faults, mishaps>>

BothNextReady ==
    LET next(k) == ptr[k].next IN
    (\A k \in Kinds : next(k) # None) /\ next("server").train = next("renderer").train

\* runApplyNowSequence: the server is stopped and started again, unless the
\* pair is not complete or the stop is not confirmed.
Apply ==
    /\ ota.at = "ready" /\ ota' = Idle
    /\ BothNextReady /\ launch = "up"
    /\ launch' = "server" /\ restarted' = FALSE
    /\ running' = [running EXCEPT !["server"] = None]
    /\ UNCHANGED <<disk, seed, shelf, sweep, window, timers, cs, faults, mishaps>>
ApplyFails ==
    /\ ota.at = "ready" /\ ota' = Idle
    /\ UNCHANGED <<disk, seed, shelf, launch, restarted, sweep, window, running, timers,
                   cs, faults, mishaps>>

------------------------------------------------------------------------------
(* The app.                                                                *)

\* A server that outlived the app is gone by now, or is shut down because it cannot
\* be reused.
Start ==
    /\ launch = "off" /\ launch' = "server"
    /\ running' = [running EXCEPT !["server"] = None]
    /\ UNCHANGED <<disk, seed, shelf, restarted, sweep, window, ota, timers, cs, faults,
                   mishaps>>
\* One of the app's own version is reused: nothing is booted, nobody monitors it, and
\* until an update has been applied the pages are the package's, without a crash
\* handler.
Reuse ==
    /\ launch = "off" /\ running["server"] # None
    /\ running["server"].version = seed.version
    /\ launch' = "up" /\ restarted' = TRUE /\ window' = "plain"
    /\ UNCHANGED <<disk, seed, shelf, sweep, running, ota, timers, cs, faults, mishaps>>
Install ==
    /\ launch = "off"
    /\ \E r \in Seeds : r.version > seed.version /\ seed' = r
    /\ UNCHANGED <<disk, shelf, app, cs, faults, mishaps>>
\* Killed, or quit: what is in memory goes, what is on the disk stays; a server that
\* was spawned may outlive the app.
Kill ==
    /\ Fault
    /\ launch # "off" /\ launch' = "off" /\ restarted' = FALSE
    /\ sweep' = [kind |-> "server", targets |-> {}]
    /\ window' = "none"
    /\ \E left \in {None, running["server"]} :
          /\ left # None => launch \in {"starting", "up"}
          /\ running' = [running EXCEPT !["server"] = left, !["renderer"] = None]
    /\ ota' = Idle /\ cs' = Free
    /\ timers' = {}
    /\ mishaps' = IF cs.by = "ota" THEN mishaps \cup {"torn"} ELSE mishaps
    /\ UNCHANGED <<disk, seed, shelf>>

Launching == GcLists \/ GcKeeps \/ GcRemoves \/ GcDone \/ Spawn
Next ==
    \/ LaunchEnters \/ WindowEnters \/ OtaEnters \/ Holder
    \/ GcLists \/ GcKeeps \/ GcRemoves \/ GcDone \/ Spawn \/ Ready
    \/ ServerDies \/ \E k \in Kinds : HealthyClear(k)
    \/ PageLoads \/ PageFails \/ PageRetries
    \/ Publish \/ Download \/ Apply \/ ApplyFails
    \/ Start \/ Reuse \/ Install \/ Kill

\* The section and startServer go on; starting, quitting, clicking and the
\* server's readiness are up to others.  The mutex is a queue, so that updates
\* clicked again and again do not keep a boot out of it.
Fairness == WF_vars(Holder) /\ WF_vars(Launching) /\ SF_vars(LaunchEnters)

Spec == Init /\ [][Next]_vars /\ Fairness

------------------------------------------------------------------------------
(* Properties.                                                             *)

\* The directory that the server was resolved to, and then runs from, holds what
\* its pointer says until the next start: neither the collector nor an update
\* takes it away.
ServerIntact ==
    running["server"] # None => Intact("server", running["server"])

\* A quarantined train is never staged, not even when the quarantine and the
\* update's gates crossed.
QuarantineNotStaged ==
    [][\A k \in Kinds :
          LET next == ptr'[k].next IN
          next # None /\ next # ptr[k].next => next.train \notin quarantine[k]]_vars

\* An update lands for both kinds or for neither: unless it was killed half
\* activated, whoever looks outside the mutex finds the train of a staged server
\* with the renderer too - staged, promoted, given up, or pushed out by a newer seed
\* that had to be put in place twice (its first copy fell to the collector).
BothOrNeither ==
    LET staged == ptr["server"].next  mine == ptr["renderer"] IN
    "torn" \notin mishaps /\ cs.by = "nobody" /\ staged # None /\ staged.train > 0 =>
        \/ \E s \in Slots : mine[s] = staged
        \/ staged.train \in quarantine["renderer"]
        \/ mine.current # None /\ mine.current.train = 0 /\ mine.previous = mine.current

\* What a kind boots by default gets older only by the crash-loop fallback, when its
\* directory is broken, or once an update was overtaken by a boot after its gates: no
\* other update, no seed and no promotion takes it back.  An update that was killed half
\* activated may have put the directory of current in its place again, when a seed
\* already waited to replace it.
VersionForward ==
    [][\A k \in Kinds :
          LET old == ptr[k].current
              new == ptr'[k].current
          IN  Intact(k, old) /\ new # old =>
                 \/ cs.fallback \/ "overtaken" \in mishaps
                 \/ "torn" \in mishaps /\ new.train = 0
                 \/ new.version >= old.version]_vars

\* No start hangs: whatever the two boots find on the disk, and whoever else wants
\* the mutex, they come to a version to run or to an error.
BootsEnd == []<>(launch \notin Kinds)

\* writeSentinel: the counter is of one train; another train starts anew.  So the
\* train that is quarantined is the one whose failures were counted.
QuarantinesCounted ==
    [][\A k \in Kinds : quarantine'[k] \subseteq quarantine[k] \cup {sentinel[k].train}]_vars

\* artifact-gc.cjs: what a pointer references is kept from the collector, whatever
\* it is called and whoever wrote the pointer.
ReferencedKept ==
    [][GcRemoves => \A v \in Versions :
          dir'[sweep.kind][v] # dir[sweep.kind][v] => v \notin Referenced(sweep.kind)]_vars

\* ota-core.cjs:1238: "content version is never allowed to go backward", however long
\* the download took and whatever was promoted in the meantime.
NeverBackward ==
    [][\A k \in Kinds :
          LET old == ptr[k].current
              new == ptr'[k].current
          IN  Intact(k, old) /\ new # old => cs.fallback \/ new.version >= old.version]_vars

\* ota-core.cjs:1398: the desktop "writes `next` and leaves the promote for the next
\* launch" - so under a server that is up, the page is not exchanged for a newer one.
StagedForNextStart ==
    [][launch = "up" /\ running'["server"] = running["server"] =>
          LET page == running["renderer"]  other == running'["renderer"] IN
          page # None /\ other # None => other.version <= page.version]_vars
==============================================================================
