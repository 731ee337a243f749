---------------------------- MODULE Artifacts_proofs ----------------------------
(***************************************************************************)
(* What holds of the artifacts on disk for any releases and installers,    *)
(* any threshold and any number of kills and crashes.                      *)
(***************************************************************************)
EXTENDS Artifacts, TLAPS

------------------------------------------------------------------------------
(* Who is in the section, and where.                                       *)

Booting   == cs.by \in {"launch", "window"}
Updating  == cs.by = "ota"
Promoting == {"promote", "set", "clear"}
Placing   == {"unpack", "place", "announce"}

\* A holder is where its caller sent it, and its caller waits for it.
SectionOK ==
    /\ cs.by = "nobody" => cs = Free
    /\ cs.by # "nobody" => cs.at # "free"
    /\ cs.by = "launch" => launch = cs.kind
    /\ cs.by = "window" => cs.kind = "renderer" /\ window = "failed"
    /\ Booting => cs.at # "activate"
    /\ Updating => /\ cs.at \in {"activate"} \cup Placing
                   /\ ota.at = "staged" /\ cs.rel = ota.rel
    /\ ota.at = "staged" => ota.rel # None
    /\ Booting /\ cs.at \in Placing => cs.rel = seed
    /\ cs.at \in {"demote", "absolve"} => cs.fallback

\* What each stage of the start, the page and an update may count on.
AppOK ==
    /\ launch = "off" => window = "none" /\ cs = Free
    /\ ota # Idle => window # "none"
    /\ launch = "server" => running["server"] = None
    /\ launch \in {"renderer", "list", "keep", "sweep", "spawn"} => running["server"] # None
    /\ window = "noted" => running["renderer"] # None

\* The stages after both boots.
Booted == launch \in {"list", "keep", "sweep", "spawn", "starting", "up"}

\* promote as far as it has got; after it, next is free for the seed.
PromoteOK ==
    Booting =>
        LET p == ptr[cs.kind] IN
        /\ cs.at = "set"   => p.next # None /\ (p.current # None => p.previous = p.current)
        /\ cs.at = "clear" => p.next # None /\ p.current = p.next
        /\ cs.at \notin Promoting => p.next = None

\* A kind that booted has a current pointer, and keeps one.
CurrentOK ==
    /\ \A k \in Kinds : ptr[k].previous # None => ptr[k].current # None
    /\ Booted \/ window # "none" => \A k \in Kinds : ptr[k].current # None
    /\ launch = "renderer" => ptr["server"].current # None
    /\ launch = "off" /\ running["server"] # None => \A k \in Kinds : ptr[k].current # None

IsSeed(r)   == r # None /\ r.train = 0
IsUpdate(r) == r # None /\ r.train > 0

\* A seed is next only inside the boot that put it there, or when that boot was
\* killed and has not been repeated.
SeedNextOK ==
    \A k \in Kinds : IsSeed(ptr[k].next) =>
        \/ Booting /\ cs.kind = k /\ cs.at \in Promoting
        \/ /\ window \in {"none", "plain"}
           /\ \/ launch \in {"off", "server", "down", "up"}
              \/ launch = "renderer" /\ k = "renderer"

ServerOK ==
    LET mine == running["server"] IN
    mine # None =>
        /\ Intact("server", mine)
        /\ mine \in {ptr["server"].current, ptr["server"].previous}
        /\ Updating /\ cs.kind = "server" /\ cs.at \in {"unpack", "place"} =>
              cs.rel.version # mine.version
        /\ launch = "sweep" /\ sweep.kind = "server" => mine.version \notin sweep.targets

QuarantineOK ==
    /\ Updating /\ cs.at \in Placing => cs.rel.train \notin quarantine[cs.kind]
    /\ cs.at = "demote" /\ IsUpdate(ptr[cs.kind].current) =>
          ptr[cs.kind].current.train \in quarantine[cs.kind]

\* The app has not booted its renderer: it is at its start, or found a server to reuse.
NoBoot == window = "none" \/ (window = "plain" /\ launch \in {"up", "down", "server"})

\* The renderer has, or had and gave up, the update r.
Landed(r) ==
    LET p == ptr["renderer"] IN
    \/ r.train \in quarantine["renderer"]
    \/ p.next = r
    \/ p.current = r
    \/ /\ IsSeed(p.current) /\ p.previous \in {r, p.current}
       /\ ~NoBoot => p.current = seed

BothLanded ==
    "torn" \notin mishaps /\ IsUpdate(ptr["server"].next) =>
        /\ Landed(ptr["server"].next)
        /\ IsUpdate(ptr["renderer"].next) => ptr["renderer"].next = ptr["server"].next

\* So it is for everybody but the update that is at its second kind; and a seed that the
\* renderer has as next is the installed one, or is left from another app's boot.
LandedOK ==
    /\ window = "none" /\ launch \notin {"off", "server"} => ptr["server"].next = None
    /\ IsSeed(ptr["renderer"].next) /\ ~NoBoot =>
          \/ ptr["renderer"].next = seed
          \/ /\ window = "plain" /\ launch = "renderer"
             /\ (Updating /\ cs.kind = "renderer") \/ ~IsUpdate(ptr["server"].next)
    /\ IF Updating /\ cs.kind = "renderer"
       THEN ptr["server"].next = cs.rel
       ELSE BothLanded

ForwardOK ==
    /\ ota.at = "staged" /\ "overtaken" \notin mishaps =>
          \A k \in Kinds : ota.rel.version >= ptr[k].current.version
    /\ "overtaken" \notin mishaps =>
          \A k \in Kinds : IsUpdate(ptr[k].next) /\ ptr[k].current # None =>
              ptr[k].next.version >= ptr[k].current.version
    /\ \A k \in Kinds : IsSeed(ptr[k].next) /\ Intact(k, ptr[k].current) =>
              \/ ptr[k].next.version >= ptr[k].current.version
              \/ "torn" \in mishaps \/ (Updating /\ cs.kind = k /\ cs.at = "announce")
    /\ Booting /\ cs.at \in Placing /\ Intact(cs.kind, ptr[cs.kind].current) =>
          seed.version >= ptr[cs.kind].current.version

AInv ==
    /\ TypeOK /\ SectionOK /\ AppOK /\ PromoteOK /\ CurrentOK /\ SeedNextOK
    /\ ServerOK /\ QuarantineOK /\ LandedOK /\ ForwardOK

------------------------------------------------------------------------------
LEMMA TrainsKnown ==
    /\ 0 \in Trains
    /\ \A r \in Known : r.train \in Trains /\ r.version \in Versions /\ r.sha \in Shas
    /\ \A r \in Known : r.train \in Nat /\ r.version \in Nat
    /\ Known = Releases \cup Seeds
    /\ \A r \in Known : r.train > 0 => r \in Releases
    /\ None \notin Known /\ None \notin Shas
<1>1. \A r \in Known : r.train \in Nat /\ r.version \in Nat
  BY ReleasesAssumption
<1>2. \A r \in Known : r.train \in Trains /\ r.version \in Versions /\ r.sha \in Shas
  BY DEF Trains, Versions, Shas
<1>3. Known = Releases \cup Seeds
  BY DEF Known
<1>4. 0 \in Trains
  <2>1. PICK r \in Seeds : r.train = 0
    BY ReleasesAssumption
  <2>2. QED
    BY <1>2, <1>3, <2>1
<1>5. \A r \in Known : r.train > 0 => r \in Releases
  BY <1>3, ReleasesAssumption
<1>6. QED
  BY <1>1, <1>2, <1>3, <1>4, <1>5, ReleasesAssumption

LEMMA InitAInv == Init => AInv
<1> SUFFICES ASSUME Init PROVE AInv
  OBVIOUS
<1>0. "server" \in Kinds /\ "renderer" \in Kinds
  BY DEF Kinds
<1> USE DEF Init, Free, Idle
<1>1. TypeOK
  <2>1. ptr \in Pointers
    BY DEF Pointers
  <2>2. dir \in [Kinds -> [Versions -> Shas \cup {None}]]
    OBVIOUS
  <2>3. sentinel \in [Kinds -> [train : Trains, counter : 0..Threshold]]
    BY TrainsKnown, BoundsAssumption
  <2>4. quarantine \in [Kinds -> SUBSET {r.train : r \in Releases}]
    OBVIOUS
  <2>5. sweep \in [kind : Kinds, targets : SUBSET Versions]
    BY <1>0
  <2>6. running \in [Kinds -> Known \cup {None}]
    OBVIOUS
  <2>7. ota \in [at : {"idle", "staged", "ready"}, rel : Releases \cup {None}]
    OBVIOUS
  <2>8. cs \in Sections
    BY <1>0 DEF Sections
  <2>9. faults \in 0..MaxFaults
    BY BoundsAssumption
  <2>10. QED
    BY <2>1, <2>2, <2>3, <2>4, <2>5, <2>6, <2>7, <2>8, <2>9 DEF TypeOK
<1> USE DEF Kinds, Slots
<1>2. SectionOK /\ AppOK /\ PromoteOK
  BY DEF SectionOK, AppOK, PromoteOK, Booting, Updating
<1>3. CurrentOK /\ SeedNextOK /\ ServerOK /\ QuarantineOK
  BY DEF CurrentOK, SeedNextOK, ServerOK, QuarantineOK, Booted, IsSeed, IsUpdate, Updating
<1>4. LandedOK /\ ForwardOK
  BY DEF LandedOK, BothLanded, ForwardOK, IsSeed, IsUpdate, Updating, Booting, Intact
<1>5. QED
  BY <1>1, <1>2, <1>3, <1>4 DEF AInv

------------------------------------------------------------------------------
(* The steps outside of the section, and what they leave alone.            *)

Enters    == LaunchEnters \/ WindowEnters \/ OtaEnters
Collects  == GcLists \/ GcKeeps \/ GcRemoves \/ GcDone
Serves    == Spawn \/ Ready \/ ServerDies \/ \E k \in Kinds : HealthyClear(k)
Pages     == PageLoads \/ PageFails \/ PageRetries
Updates   == Publish \/ Download \/ Apply \/ ApplyFails
Elsewhere == Collects \/ Serves \/ Pages \/ Updates \/ Start \/ Reuse \/ Install

LEMMA StepCases == Next => Enters \/ Holder \/ Elsewhere \/ Kill
BY DEF Next, Enters, Elsewhere, Collects, Serves, Pages, Updates

LEMMA EntersFrame == Enters => cs = Free /\ UNCHANGED <<disk, seed, shelf, app, faults, mishaps>>
BY DEF Enters, LaunchEnters, WindowEnters, OtaEnters, Enter

LEMMA ElsewhereFrame == Elsewhere => UNCHANGED <<ptr, quarantine, cs, mishaps>>
<1>1. Collects => UNCHANGED <<ptr, quarantine, cs, mishaps>>
  BY DEF Collects, GcLists, GcKeeps, GcRemoves, GcDone, GcUnchanged
<1>2. Serves => UNCHANGED <<ptr, quarantine, cs, mishaps>>
  BY DEF Serves, Spawn, Registers, Ready, ServerDies, HealthyClear, disk
<1>3. Pages => UNCHANGED <<ptr, quarantine, cs, mishaps>>
  BY DEF Pages, PageLoads, PageFails, PageRetries, Registers, disk
<1>4. Updates => UNCHANGED <<ptr, quarantine, cs, mishaps>>
  BY DEF Updates, Publish, Download, Apply, ApplyFails, disk
<1>5. Start \/ Reuse \/ Install => UNCHANGED <<ptr, quarantine, cs, mishaps>>
  BY DEF Start, Reuse, Install, disk
<1>6. QED
  BY <1>1, <1>2, <1>3, <1>4, <1>5 DEF Elsewhere

------------------------------------------------------------------------------
(* Types.                                                                  *)

LEMMA TwoKinds == "server" \in Kinds /\ "renderer" \in Kinds
BY DEF Kinds

LEMMA PointToTyped ==
    ASSUME TypeOK, NEW slot \in Slots, NEW r \in Known \cup {None}, PointTo(slot, r)
    PROVE  ptr' \in Pointers
<1>1. cs.kind \in Kinds
  BY DEF TypeOK, Sections
<1>2. QED
  BY <1>1 DEF TypeOK, Pointers, PointTo

LEMMA HolderInside ==
    TypeOK /\ SectionOK /\ Holder => cs.by \in {"launch", "window", "ota"} /\ cs # Free
<1> SUFFICES ASSUME TypeOK, SectionOK, Holder PROVE cs.by # "nobody"
  BY DEF TypeOK, Sections, Free
<1>1. cs.at # "free"
  BY DEF Holder, Go, PromoteNothing, PromoteKeeps, PromoteSets, PromoteClears, NotLooping,
         Looping, Demote, Absolve, Boots, SeedActivates, OtaRefused, OtaActivates, Aside,
         AsideGone, Place, Announce
<1>2. QED
  BY <1>1 DEF SectionOK, Free

\* An error in each of the three callers.
LEMMA ThrowsCases ==
    TypeOK /\ cs.by \in {"launch", "window", "ota"} /\ Throws =>
        /\ cs' = Free
        /\ UNCHANGED <<dir, sentinel, quarantine, seed, shelf, restarted, sweep, running, timers,
                       faults, mishaps>>
        /\ cs.by = "window" => window' = "live" /\ UNCHANGED <<launch, ota, ptr>>
        /\ cs.by = "launch" => launch' = "down" /\ UNCHANGED <<window, ota, ptr>>
        /\ cs.by = "ota" =>
              /\ ota' = Idle /\ UNCHANGED <<launch, window>>
              /\ cs.kind = "renderer" => ptr' = [ptr EXCEPT !["server"].next = None]
              /\ cs.kind = "server" => ptr' = ptr
BY DEF Throws, Leaves

LEMMA PointersTyped == TypeOK /\ SectionOK /\ [Next]_vars => ptr' \in Pointers
<1> SUFFICES ASSUME TypeOK, SectionOK, [Next]_vars PROVE ptr' \in Pointers
  OBVIOUS
<1>1. cs.kind \in Kinds /\ cs.rel \in Known \cup {None}
  BY DEF TypeOK, Sections
<1>2. \A s \in Slots : ptr[cs.kind][s] \in Known \cup {None}
  BY <1>1 DEF TypeOK, Pointers
<1>3. CASE PromoteKeeps \/ PromoteSets \/ PromoteClears \/ Demote
  BY <1>2, <1>3, PointToTyped
  DEF PromoteKeeps, PromoteSets, PromoteClears, Demote, SetCurrent, StaysIn, TypeOK, Slots
<1>4. CASE Announce
  BY <1>1, <1>4, PointToTyped DEF Announce, Slots
<1>5. CASE Holder /\ Throws
  <2>1. UNCHANGED ptr \/ ptr' = [ptr EXCEPT !["server"].next = None]
    BY <1>1, <1>5, HolderInside, ThrowsCases DEF Kinds
  <2>2. [ptr["server"] EXCEPT !.next = None] \in [Slots -> Known \cup {None}]
    BY TwoKinds DEF TypeOK, Pointers, Slots
  <2>3. QED
    BY <2>1, <2>2, TwoKinds DEF TypeOK, Pointers
<1>6. CASE UNCHANGED ptr
  BY <1>6 DEF TypeOK
<1>7. ASSUME Holder
      PROVE  \/ PromoteKeeps \/ PromoteSets \/ PromoteClears \/ Demote \/ Announce \/ Throws
             \/ UNCHANGED ptr
  BY <1>7 DEF Holder, disk, PromoteNothing, NotLooping, Looping, Absolve, Boots, Resolved,
              SeedActivates, Unpacks, OtaRefused, OtaActivates, Aside, AsideGone, Place
<1>8. CASE Enters \/ Elsewhere \/ Kill \/ UNCHANGED vars
  BY <1>6, <1>8, EntersFrame, ElsewhereFrame DEF vars, disk, Kill
<1>9. QED
  BY <1>3, <1>4, <1>5, <1>6, <1>7, <1>8, StepCases

LEMMA SectionTyped == TypeOK /\ SectionOK /\ [Next]_vars => cs' \in Sections
<1> SUFFICES ASSUME TypeOK, SectionOK, [Next]_vars PROVE cs' \in Sections
  OBVIOUS
<1>1. cs \in Sections /\ seed \in Known /\ cs.kind \in Kinds
  BY TrainsKnown DEF TypeOK, Sections
<1>2. Free \in Sections
  BY TwoKinds DEF Free, Sections
<1>3. CASE cs' \in {cs, Free}
  BY <1>1, <1>2, <1>3
<1>4. CASE Enters
  <2>1. ASSUME NEW by \in {"launch", "window", "ota"}, NEW k \in Kinds,
               NEW at \in {"promote", "activate"}, NEW r \in Known \cup {None},
               Enter(by, k, at, r)
        PROVE  cs' \in Sections
    BY <2>1 DEF Enter, Sections, Free
  <2>2. ota.at = "staged" => ota.rel \in Known \cup {None}
    BY TrainsKnown DEF TypeOK
  <2>3. QED
    BY <1>4, <2>1, <2>2, TwoKinds DEF Enters, LaunchEnters, WindowEnters, OtaEnters
<1>5. ASSUME NEW from, NEW to \in {"promote", "set", "clear", "judge", "demote", "absolve",
             "decide", "activate", "unpack", "place", "announce"}, Go(from, to)
      PROVE  cs' \in Sections
  BY <1>1, <1>5 DEF Go, Sections
<1>6. CASE PromoteNothing \/ PromoteKeeps \/ PromoteSets \/ PromoteClears \/ NotLooping
           \/ Demote \/ Absolve \/ Aside \/ Place
  BY <1>5, <1>6 DEF PromoteNothing, PromoteKeeps, PromoteSets, PromoteClears, NotLooping,
                    Demote, Absolve, Aside, Place
<1>7. CASE Looping
  BY <1>1, <1>7 DEF Looping, Sections
<1>8. ASSUME NEW r \in Known \cup {None}, Unpacks(r)
      PROVE  cs' \in Sections
  BY <1>1, <1>8 DEF Unpacks, Sections
<1>9. CASE SeedActivates \/ OtaActivates
  BY <1>1, <1>5, <1>8, <1>9 DEF SeedActivates, OtaActivates, Sections
<1>10. CASE Announce
  BY <1>1, <1>2, <1>10, TwoKinds DEF Announce, Sections
<1>11. CASE Boots \/ OtaRefused \/ AsideGone
  BY <1>3, <1>11 DEF Boots, OtaRefused, AsideGone, Throws, Resolved, Leaves
<1>12. CASE Elsewhere \/ Kill \/ UNCHANGED vars
  BY <1>3, <1>12, ElsewhereFrame DEF Kill, vars
<1>13. QED
  BY <1>4, <1>6, <1>7, <1>9, <1>10, <1>11, <1>12, StepCases DEF Holder

\* The variables that every step but a few leaves alone.
LEMMA HolderFrame == Holder => UNCHANGED <<seed, shelf, restarted, sweep, timers, faults>>
BY DEF Holder, StaysIn, SetCurrent, Leaves, Throws, Resolved, Unpacks, app,
       PromoteNothing, PromoteKeeps, PromoteSets, PromoteClears, NotLooping, Looping, Demote,
       Absolve, Boots, SeedActivates, OtaRefused, OtaActivates, Aside, AsideGone, Place, Announce

\* What is being put in place is a release or the installer's seed.
LEMMA PlacedKnown ==
    TypeOK /\ SectionOK /\ cs.at \in {"activate", "unpack", "place", "announce"} =>
        /\ cs.by \in {"launch", "window", "ota"} /\ cs.rel \in Known
        /\ Booting => cs.rel = seed
        /\ Updating => cs.rel \in Releases
BY TrainsKnown DEF TypeOK, Sections, SectionOK, Placing, Free, Booting, Updating

LEMMA DirTyped ==
    TypeOK /\ SectionOK /\ [Next]_vars => dir' \in [Kinds -> [Versions -> Shas \cup {None}]]
<1> SUFFICES ASSUME TypeOK, SectionOK, [Next]_vars
             PROVE  dir' \in [Kinds -> [Versions -> Shas \cup {None}]]
  OBVIOUS
<1>1. cs.kind \in Kinds /\ sweep.kind \in Kinds /\ cs.rel \in Known \cup {None}
      /\ dir \in [Kinds -> [Versions -> Shas \cup {None}]]
  BY DEF TypeOK, Sections
<1>2. CASE dir' = dir
  BY <1>1, <1>2
<1>3. ASSUME NEW k \in Kinds, NEW v, NEW x \in Shas \cup {None},
             dir' = [dir EXCEPT ![k][v] = x]
      PROVE  dir' \in [Kinds -> [Versions -> Shas \cup {None}]]
  BY <1>1, <1>3
<1>4. CASE Aside
  BY <1>1, <1>3, <1>4 DEF Aside
<1>5. CASE Place
  BY <1>1, <1>3, <1>5, TrainsKnown, PlacedKnown DEF Place, Go
<1>6. CASE GcRemoves
  BY <1>1, <1>3, <1>6 DEF GcRemoves
<1>7. Aside \/ GcRemoves \/ Place \/ dir' = dir
  BY StepCases, EntersFrame DEF vars, disk, Kill, Elsewhere, Collects, Serves, Pages, Updates,
     GcLists, GcKeeps, GcDone, GcUnchanged, Spawn, Registers, Ready, ServerDies, HealthyClear,
     PageLoads, PageFails, PageRetries, Publish, Download, Apply, ApplyFails, Start, Reuse, Install,
     Holder, PromoteNothing, PromoteKeeps, PromoteSets, PromoteClears, NotLooping, Looping,
     Demote, Absolve, Boots, Resolved, Throws, SeedActivates, Unpacks, OtaRefused,
     OtaActivates, AsideGone, Announce
<1>8. QED
  BY <1>2, <1>4, <1>5, <1>6, <1>7

LEMMA SentinelTyped ==
    TypeOK /\ SectionOK /\ AppOK /\ [Next]_vars =>
        sentinel' \in [Kinds -> [train : Trains, counter : 0..Threshold]]
<1> DEFINE S == [train : Trains, counter : 0..Threshold]
<1> SUFFICES ASSUME TypeOK, SectionOK, AppOK, [Next]_vars PROVE sentinel' \in [Kinds -> S]
  OBVIOUS
<1>1. cs.kind \in Kinds /\ sentinel \in [Kinds -> S]
  BY DEF TypeOK, Sections
<1>2. Absolved \in S
  BY TrainsKnown, BoundsAssumption DEF Absolved
<1>3. \A k \in Kinds, t \in Trains : Counted(k, t) \in S
  <2> SUFFICES ASSUME NEW k \in Kinds, NEW t \in Trains PROVE Counted(k, t) \in S
    OBVIOUS
  <2>1. sentinel[k].counter \in 0..Threshold
    BY <1>1
  <2>2. QED
    BY <2>1, BoundsAssumption DEF Counted
<1>4. CASE UNCHANGED sentinel
  BY <1>1, <1>4
<1>5. ASSUME NEW k \in Kinds, NEW x \in S, sentinel' = [sentinel EXCEPT ![k] = x]
      PROVE  sentinel' \in [Kinds -> S]
  BY <1>1, <1>5
<1>6. CASE Absolve
  BY <1>1, <1>2, <1>5, <1>6 DEF Absolve
<1>7. CASE \E k \in Kinds : HealthyClear(k)
  BY <1>2, <1>5, <1>7 DEF HealthyClear
<1>8. CASE Spawn \/ PageRetries
  <2>1. \A k \in Kinds : running[k] # None => running[k].train \in Trains
    BY TrainsKnown DEF TypeOK
  <2>2. (Spawn => running["server"] # None) /\ (PageRetries => running["renderer"] # None)
    BY DEF AppOK, Spawn, PageRetries
  <2>3. QED
    BY <1>3, <1>5, <1>8, <2>1, <2>2, TwoKinds DEF Spawn, PageRetries, Registers
<1>9. \/ Absolve \/ Spawn \/ PageRetries \/ UNCHANGED sentinel
      \/ \E k \in Kinds : HealthyClear(k)
  BY StepCases, EntersFrame DEF vars, disk, Kill, Elsewhere, Collects, Serves, Pages, Updates,
     GcLists, GcKeeps, GcRemoves, GcDone, GcUnchanged, Ready, ServerDies,
     PageLoads, PageFails, Publish, Download, Apply, ApplyFails, Start, Reuse, Install,
     Holder, PromoteNothing, PromoteKeeps, PromoteSets, PromoteClears, NotLooping, Looping,
     Demote, Boots, Resolved, Throws, SeedActivates, Unpacks, OtaRefused,
     OtaActivates, Aside, AsideGone, Place, Announce
<1>10. QED
  BY <1>4, <1>6, <1>7, <1>8, <1>9

LEMMA QuarantineTyped ==
    TypeOK /\ SectionOK /\ [Next]_vars =>
        quarantine' \in [Kinds -> SUBSET {r.train : r \in Releases}]
<1> SUFFICES ASSUME TypeOK, SectionOK, [Next]_vars
             PROVE  quarantine' \in [Kinds -> SUBSET {r.train : r \in Releases}]
  OBVIOUS
<1>1. cs.kind \in Kinds /\ quarantine \in [Kinds -> SUBSET {r.train : r \in Releases}]
  BY DEF TypeOK, Sections
<1>2. CASE UNCHANGED quarantine
  BY <1>1, <1>2
<1>3. CASE Looping
  <2>1. ptr[cs.kind].current \in Known \cup {None}
    BY <1>1 DEF TypeOK, Pointers, Slots
  <2>2. ptr[cs.kind].current # None /\ ptr[cs.kind].current.train > 0 =>
           ptr[cs.kind].current.train \in {r.train : r \in Releases}
    BY <2>1, TrainsKnown
  <2>3. QED
    BY <1>1, <1>3, <2>2 DEF Looping
<1>4. Looping \/ UNCHANGED quarantine
  BY StepCases, EntersFrame, ElsewhereFrame DEF vars, disk, Kill,
     Holder, PromoteNothing, PromoteKeeps, PromoteSets, PromoteClears, NotLooping,
     Demote, Absolve, Boots, Resolved, Throws, SeedActivates, Unpacks, OtaRefused,
     OtaActivates, Aside, AsideGone, Place, Announce
<1>5. QED
  BY <1>2, <1>3, <1>4

\* What a boot returns is one of the two pointers, and is there.
LEMMA ResolveIntact ==
    ASSUME NEW k \in Kinds, Resolve(k) # None
    PROVE  /\ Intact(k, Resolve(k))
           /\ Resolve(k) = ptr[k].current \/ Resolve(k) = ptr[k].previous
           /\ Intact(k, ptr[k].current) => Resolve(k) = ptr[k].current
BY DEF Resolve, Intact

LEMMA RunningTyped ==
    TypeOK /\ SectionOK /\ [Next]_vars => running' \in [Kinds -> Known \cup {None}]
<1> SUFFICES ASSUME TypeOK, SectionOK, [Next]_vars
             PROVE  running' \in [Kinds -> Known \cup {None}]
  OBVIOUS
<1>1. cs.kind \in Kinds /\ running \in [Kinds -> Known \cup {None}]
  BY DEF TypeOK, Sections
<1>2. CASE UNCHANGED running
  BY <1>1, <1>2
<1>3. CASE ServerDies \/ Apply \/ Start
  BY <1>1, <1>3, TwoKinds DEF ServerDies, Apply, Start
<1>3a. CASE Kill
  BY <1>1, <1>3a, TwoKinds DEF Kill
<1>4. CASE Boots /\ Resolved(Resolve(cs.kind))
  <2>1. Resolve(cs.kind) \in Known \cup {None}
    BY <1>1 DEF TypeOK, Pointers, Slots, Resolve
  <2>2. QED
    BY <1>1, <1>4, <2>1 DEF Resolved
<1>5. \/ ServerDies \/ Apply \/ Start \/ Kill \/ UNCHANGED running
      \/ Boots /\ Resolved(Resolve(cs.kind))
  BY StepCases, EntersFrame DEF vars, app, disk, Elsewhere, Collects, Serves, Pages, Updates,
     GcLists, GcKeeps, GcRemoves, GcDone, GcUnchanged, Spawn, Registers, Ready, HealthyClear,
     PageLoads, PageFails, PageRetries, Publish, Download, ApplyFails, Reuse, Install,
     Holder, StaysIn, SetCurrent, PromoteNothing, PromoteKeeps, PromoteSets, PromoteClears,
     NotLooping, Looping, Demote, Absolve, Boots, Throws, SeedActivates, Unpacks, OtaRefused,
     OtaActivates, Aside, AsideGone, Place, Announce
<1>6. QED
  BY <1>2, <1>3, <1>3a, <1>4, <1>5

LEMMA OtaTyped ==
    TypeOK /\ SectionOK /\ [Next]_vars =>
        ota' \in [at : {"idle", "staged", "ready"}, rel : Releases \cup {None}]
<1> DEFINE O == [at : {"idle", "staged", "ready"}, rel : Releases \cup {None}]
<1> SUFFICES ASSUME TypeOK, SectionOK, [Next]_vars PROVE ota' \in O
  OBVIOUS
<1>1. ota \in O /\ shelf \in Releases
  BY DEF TypeOK
<1>2. Idle \in O
  BY DEF Idle
<1>3. CASE ota' \in {ota, Idle}
  BY <1>1, <1>2, <1>3
<1>4. CASE Announce \/ Download
  BY <1>1, <1>4 DEF Announce, Download
<1>5. Announce \/ Download \/ ota' \in {ota, Idle}
  <2>1. CASE Throws /\ Holder
    BY <2>1, HolderInside, ThrowsCases
  <2>2. QED
    BY <2>1, StepCases, EntersFrame DEF vars, app, disk, Kill, Elsewhere, Collects, Serves,
       Pages, Updates, GcLists, GcKeeps, GcRemoves, GcDone, GcUnchanged, Spawn, Registers,
       Ready, ServerDies, HealthyClear, PageLoads, PageFails, PageRetries, Publish, Apply,
       ApplyFails, Start, Reuse, Install, Holder, StaysIn, SetCurrent, PromoteNothing, PromoteKeeps,
       PromoteSets, PromoteClears, NotLooping, Looping, Demote, Absolve, Boots, Resolved,
       SeedActivates, Unpacks, OtaRefused, OtaActivates, Aside, AsideGone, Place
<1>6. QED
  BY <1>3, <1>4, <1>5

\* Where the start and the page are after a step of the section.
LEMMA HolderCallers ==
    TypeOK /\ SectionOK /\ Holder =>
        /\ launch' = launch \/ (cs.by = "launch" /\ cs' = Free
                                  /\ launch' \in {"renderer", "list", "down"}
                                  /\ (cs.kind = "server" => launch' # "list"))
        /\ window' = window \/ (cs.by = "window" /\ cs' = Free /\ window' \in {"live", "noted"})
<1> HAVE TypeOK /\ SectionOK /\ Holder
<1>1. cs.by \in {"launch", "window", "ota"}
  BY HolderInside
<1>2. CASE Throws
  BY <1>1, <1>2, ThrowsCases
<1>3. CASE \E r \in Known : Resolved(r) /\ cs.by # "ota"
  BY <1>1, <1>3 DEF Resolved, Leaves
<1>4. CASE Boots
  <2>1. cs.by # "ota"
    BY <1>1, <1>4 DEF Boots, SectionOK, Updating, Placing
  <2>2. Throws \/ Resolved(Resolve(cs.kind))
    BY <1>4 DEF Boots
  <2>3. QED
    BY <1>1, <1>2, <2>1, <2>2 DEF Resolved, Leaves
<1>5. CASE ~Boots /\ ~Throws
  BY <1>1, <1>5 DEF app, Holder, StaysIn, SetCurrent, PromoteNothing, PromoteKeeps,
     PromoteSets, PromoteClears, NotLooping, Looping, Demote, Absolve,
     SeedActivates, Unpacks, OtaRefused, OtaActivates, Aside, AsideGone, Place, Announce
<1>6. QED
  BY <1>2, <1>4, <1>5

LEMMA MemoryTyped ==
    TypeOK /\ SectionOK /\ [Next]_vars =>
        /\ launch' \in {"off", "server", "renderer", "list", "keep", "sweep",
                        "spawn", "starting", "up", "down"}
        /\ window' \in {"none", "loading", "live", "failed", "noted", "plain"}
        /\ restarted' \in BOOLEAN
        /\ sweep' \in [kind : Kinds, targets : SUBSET Versions]
        /\ timers' \subseteq Kinds
<1> USE DEF TypeOK
<1>1. CASE TypeOK /\ SectionOK /\ Holder
  BY <1>1, HolderFrame, HolderCallers
<1>2. CASE TypeOK /\ Collects
  <2>1. sweep' \in [kind : Kinds, targets : SUBSET Versions]
    BY <1>2 DEF Collects, GcLists, GcKeeps, GcRemoves, GcDone, Kinds
  <2>2. QED
    BY <1>2, <2>1 DEF Collects, GcLists, GcKeeps, GcRemoves, GcDone, GcUnchanged
<1>3. CASE TypeOK /\ Serves
  BY <1>3 DEF Serves, Spawn, Ready, ServerDies, HealthyClear, Registers, Kinds
<1>4. CASE TypeOK /\ Pages
  BY <1>4 DEF Pages, PageLoads, PageFails, PageRetries, Registers, Kinds
<1>5. CASE TypeOK /\ Updates
  BY <1>5 DEF Updates, Publish, Download, Apply, ApplyFails, app
<1>6. CASE TypeOK /\ (Start \/ Reuse \/ Install \/ Kill)
  <2>1. CASE Kill
    <3>1. sweep' \in [kind : Kinds, targets : SUBSET Versions]
      BY <2>1, TwoKinds DEF Kill
    <3>2. QED
      BY <2>1, <3>1 DEF Kill
  <2>2. CASE Start \/ Reuse \/ Install
    BY <1>6, <2>2 DEF Start, Reuse, Install, app
  <2>3. QED
    BY <1>6, <2>1, <2>2
<1>7. CASE TypeOK /\ (Enters \/ UNCHANGED vars)
  BY <1>7, EntersFrame DEF vars, app
<1>8. QED
  BY <1>1, <1>2, <1>3, <1>4, <1>5, <1>6, <1>7, StepCases DEF Elsewhere

LEMMA RestTyped ==
    TypeOK /\ SectionOK /\ [Next]_vars =>
        /\ seed' \in Seeds /\ shelf' \in Releases
        /\ faults' \in 0..MaxFaults
        /\ mishaps' \subseteq {"torn", "overtaken"}
<1> SUFFICES ASSUME TypeOK, SectionOK, [Next]_vars
             PROVE  /\ seed' \in Seeds /\ shelf' \in Releases
                    /\ faults' \in 0..MaxFaults
                    /\ mishaps' \subseteq {"torn", "overtaken"}
  OBVIOUS
<1>1. seed' \in Seeds /\ shelf' \in Releases
  <2>1. Publish \/ Install \/ UNCHANGED <<seed, shelf>>
    BY StepCases, EntersFrame, HolderFrame DEF vars, Kill, Elsewhere, Collects, Serves, Pages,
       Updates, GcLists, GcKeeps, GcRemoves, GcDone, GcUnchanged, Spawn, Registers, Ready,
       ServerDies, HealthyClear, PageLoads, PageFails, PageRetries, Download, Apply,
       ApplyFails, Start, Reuse
  <2>2. QED
    BY <2>1 DEF TypeOK, Publish, Install
<1>2. faults' \in 0..MaxFaults
  <2>1. Fault \/ UNCHANGED faults
    BY StepCases, EntersFrame, HolderFrame DEF vars, Kill, Elsewhere, Collects, Serves, Pages,
       Updates, GcLists, GcKeeps, GcRemoves, GcDone, GcUnchanged, Spawn, Registers, Ready,
       ServerDies, HealthyClear, PageLoads, PageFails, PageRetries, Publish, Download, Apply,
       ApplyFails, Start, Reuse, Install
  <2>2. QED
    BY <2>1, BoundsAssumption DEF TypeOK, Fault
<1>3. mishaps' \subseteq {"torn", "overtaken"}
  <2>1. \/ mishaps' = mishaps \cup {"overtaken"} \/ mishaps' = mishaps \cup {"torn"}
        \/ UNCHANGED mishaps
    BY StepCases, EntersFrame, ElsewhereFrame DEF vars, Kill, Holder, StaysIn, SetCurrent,
       PromoteNothing, PromoteKeeps, PromoteSets, PromoteClears, NotLooping, Looping, Demote,
       Absolve, Boots, Resolved, Throws, Leaves, SeedActivates, Unpacks, OtaRefused,
       OtaActivates, Aside, AsideGone, Place, Announce
  <2>2. QED
    BY <2>1 DEF TypeOK
<1>4. QED
  BY <1>1, <1>2, <1>3

LEMMA StepTypeOK == TypeOK /\ SectionOK /\ AppOK /\ [Next]_vars => TypeOK'
BY PointersTyped, SectionTyped, DirTyped, SentinelTyped, QuarantineTyped, RunningTyped,
   OtaTyped, MemoryTyped, RestTyped DEF TypeOK

------------------------------------------------------------------------------
(* The section and its callers.                                            *)

\* Nothing outside of the section moves a caller that waits in it.
LEMMA ElsewhereCallers ==
    AppOK /\ Elsewhere =>
        /\ launch \in Kinds => launch' = launch
        /\ window = "failed" => window' = window
        /\ ota.at = "staged" => ota' = ota
        /\ launch # "off" => seed' = seed
<1> HAVE AppOK /\ Elsewhere
<1>1. Collects \/ Serves \/ Pages \/ Updates \/ Start \/ Reuse \/ Install =>
         /\ launch \in Kinds => launch' = launch
         /\ window = "failed" => window' = window
  BY DEF AppOK, Collects, GcLists, GcKeeps, GcRemoves, GcDone, GcUnchanged,
         Serves, Spawn, Ready, ServerDies, HealthyClear, Registers,
         Pages, PageLoads, PageFails, PageRetries, Updates, Publish, Download, Apply, ApplyFails,
         Start, Reuse, Install, app, Kinds
<1>2. Collects \/ Serves \/ Pages \/ Updates \/ Start \/ Reuse \/ Install =>
         /\ ota.at = "staged" => ota' = ota
         /\ launch # "off" => seed' = seed
  BY DEF Collects, GcLists, GcKeeps, GcRemoves, GcDone, GcUnchanged,
         Serves, Spawn, Ready, ServerDies, HealthyClear, Registers,
         Pages, PageLoads, PageFails, PageRetries, Updates, Publish, Download, Apply, ApplyFails,
         Start, Reuse, Install, app, Idle
<1>3. QED
  BY <1>1, <1>2 DEF Elsewhere

\* A step of the section that does not leave it: the caller stays, and waits.
LEMMA HolderStays ==
    TypeOK /\ SectionOK /\ Holder /\ cs' # Free =>
        /\ cs'.by = cs.by /\ cs'.at # "free"
        /\ cs'.kind = cs.kind \/ (Announce /\ Updating /\ cs'.kind = "renderer")
        /\ cs'.rel = cs.rel \/ SeedActivates \/ OtaActivates
        /\ cs'.fallback = cs.fallback \/ Looping
        /\ UNCHANGED app
<1> HAVE TypeOK /\ SectionOK /\ Holder /\ cs' # Free
<1>1. cs \in Sections
  BY DEF TypeOK
<1>2. ASSUME NEW from, NEW to \in {"promote", "set", "clear", "judge", "demote", "absolve",
             "decide", "activate", "unpack", "place", "announce"}, Go(from, to)
      PROVE  cs' = [cs EXCEPT !.at = to] /\ cs'.by = cs.by /\ cs'.at # "free"
             /\ cs'.kind = cs.kind /\ cs'.rel = cs.rel /\ cs'.fallback = cs.fallback
  BY <1>1, <1>2 DEF Go, Sections
<1>3. CASE PromoteNothing \/ PromoteKeeps \/ PromoteSets \/ PromoteClears \/ NotLooping
           \/ Demote \/ Absolve \/ Aside \/ Place
  BY <1>2, <1>3 DEF PromoteNothing, PromoteKeeps, PromoteSets, PromoteClears, NotLooping,
                    Demote, Absolve, Aside, Place, StaysIn, SetCurrent, app
<1>4. CASE Looping
  BY <1>1, <1>4 DEF Looping, Sections, StaysIn
<1>5. CASE SeedActivates
  BY <1>1, <1>5 DEF SeedActivates, Unpacks, Sections, StaysIn
<1>6. CASE OtaActivates
  BY <1>1, <1>2, <1>6 DEF OtaActivates, Unpacks, Sections, StaysIn
<1>7. CASE Announce
  BY <1>1, <1>7 DEF Announce, Sections, app, Updating
<1>8. CASE Boots \/ OtaRefused \/ AsideGone
  BY <1>8 DEF Boots, OtaRefused, AsideGone, Throws, Resolved, Leaves
<1>9. QED
  BY <1>3, <1>4, <1>5, <1>6, <1>7, <1>8 DEF Holder

LEMMA StepSectionOK == TypeOK /\ SectionOK /\ AppOK /\ [Next]_vars => SectionOK'
<1> SUFFICES ASSUME TypeOK, SectionOK, AppOK, [Next]_vars PROVE SectionOK'
  OBVIOUS
<1>1. CASE Enters
  <2>1. UNCHANGED <<launch, window, ota, seed>>
    BY <1>1, EntersFrame DEF app
  <2>2. CASE LaunchEnters
    BY <2>1, <2>2 DEF LaunchEnters, Enter, Free, SectionOK, Booting, Updating, Placing
  <2>3. CASE WindowEnters
    BY <2>1, <2>3 DEF WindowEnters, Enter, Free, SectionOK, Booting, Updating, Placing
  <2>4. CASE OtaEnters
    BY <2>1, <2>4 DEF OtaEnters, Enter, Free, SectionOK, Booting, Updating, Placing
  <2>5. QED
    BY <1>1, <2>2, <2>3, <2>4 DEF Enters
<1>2. CASE Holder /\ cs' = Free
  <2>1. ota' = ota \/ ota'.at # "staged"
    <3>1. CASE Announce
      BY <3>1 DEF Announce, TypeOK
    <3>2. CASE Boots \/ OtaRefused \/ AsideGone
      BY <1>2, <3>2, HolderInside, ThrowsCases DEF Boots, OtaRefused, AsideGone, Resolved, Idle
    <3>3. CASE ~Announce /\ ~Boots /\ ~OtaRefused /\ ~AsideGone
      BY <1>2, <3>3 DEF app, Holder, StaysIn, SetCurrent, PromoteNothing, PromoteKeeps,
         PromoteSets, PromoteClears, NotLooping, Looping, Demote, Absolve, SeedActivates,
         Unpacks, OtaActivates, Aside, Place
    <3>4. QED
      BY <3>1, <3>2, <3>3
  <2>2. QED
    BY <1>2, <2>1 DEF SectionOK, Booting, Updating, Free, Placing
<1>3. CASE Holder /\ cs' # Free
  <2>1. cs.by \in {"launch", "window", "ota"} /\ cs.at # "free"
    BY <1>3, HolderInside DEF SectionOK
  <2>2. UNCHANGED <<launch, window, ota, seed>>
    BY <1>3, HolderStays, HolderFrame DEF app
  <2>3. cs'.at \in Placing /\ Booting => cs'.rel = seed
    <3>1. CASE SeedActivates
      BY <3>1 DEF SeedActivates, Unpacks, TypeOK, Sections
    <3>2. CASE OtaActivates
      BY <3>2 DEF OtaActivates, SectionOK
    <3>3. CASE cs.at \in Placing
      BY <1>3, <3>3, HolderStays DEF SectionOK, SeedActivates, OtaActivates, Placing
    <3>4. CASE cs.at \notin Placing /\ ~SeedActivates /\ ~OtaActivates
      <4>1. cs'.at \notin Placing
        BY <1>3, <3>4 DEF Holder, PromoteNothing, PromoteKeeps, PromoteSets, PromoteClears,
           NotLooping, Looping, Demote, Absolve, Boots, OtaRefused, AsideGone, Throws,
           Resolved, Leaves, Aside, Place, Announce, Go, TypeOK, Sections, Placing
      <4>2. QED
        BY <4>1
    <3>5. QED
      BY <3>1, <3>2, <3>3, <3>4
  <2>4. Booting => cs'.at # "activate"
    BY <1>3 DEF Holder, PromoteNothing, PromoteKeeps, PromoteSets, PromoteClears,
       NotLooping, Looping, Demote, Absolve, Boots, OtaRefused, AsideGone, Throws, Booting,
       Resolved, Leaves, Aside, Place, Announce, Go, TypeOK, Sections, SeedActivates, Unpacks,
       OtaActivates, SectionOK
  <2>5. Updating => cs'.at \in {"activate"} \cup Placing /\ cs'.rel = ota.rel
    BY <1>3, HolderStays DEF Holder, PromoteNothing, PromoteKeeps, PromoteSets, PromoteClears,
       NotLooping, Looping, Demote, Absolve, Boots, OtaRefused, AsideGone, Throws, Updating,
       Resolved, Leaves, Aside, Place, Announce, Go, TypeOK, Sections, SeedActivates, Unpacks,
       OtaActivates, SectionOK, Placing
  <2>6. cs'.at \in {"demote", "absolve"} => cs'.fallback
    BY <1>3, HolderStays DEF Holder, PromoteNothing, PromoteKeeps, PromoteSets, PromoteClears,
       NotLooping, Looping, Demote, Absolve, Boots, OtaRefused, AsideGone, Throws,
       Resolved, Leaves, Aside, Place, Announce, Go, TypeOK, Sections, SeedActivates, Unpacks,
       OtaActivates, SectionOK
  <2>7. cs'.by = cs.by /\ cs'.at # "free"
        /\ (cs'.kind = cs.kind \/ (cs'.kind = "renderer" /\ Updating))
    BY <1>3, HolderStays
  <2>8. QED
    BY <2>1, <2>2, <2>3, <2>4, <2>5, <2>6, <2>7 DEF SectionOK, Booting, Updating
<1>4. CASE Elsewhere
  <2>1. cs' = cs
    BY <1>4, ElsewhereFrame
  <2>2. cs.by = "launch" => launch' = cs.kind
    BY <1>4, ElsewhereCallers DEF SectionOK, TypeOK, Sections
  <2>3. cs.by = "window" => window' = "failed"
    BY <1>4, ElsewhereCallers DEF SectionOK
  <2>4. Updating => ota' = ota
    BY <1>4, ElsewhereCallers DEF SectionOK
  <2>5. Booting => seed' = seed
    BY <1>4, ElsewhereCallers DEF AppOK, Booting, Free
  <2>6. ota'.at = "staged" => ota'.rel # None
    <3>1. ota' = ota \/ ota' = Idle \/ Download
      BY <1>4 DEF Elsewhere, Collects, GcLists, GcKeeps, GcRemoves, GcDone, GcUnchanged, app,
         Serves, Spawn, Ready, ServerDies, HealthyClear, Registers, Pages, PageLoads, PageFails,
         PageRetries, Updates, Publish, Apply, ApplyFails, Start, Reuse, Install
    <3>2. QED
      BY <3>1, TrainsKnown DEF SectionOK, Idle, Download, TypeOK
  <2>7. QED
    BY <2>1, <2>2, <2>3, <2>4, <2>5, <2>6 DEF SectionOK, Booting, Updating
<1>5. CASE Kill
  BY <1>5 DEF Kill, SectionOK, Booting, Updating, Free, Idle
<1>6. CASE UNCHANGED vars
  BY <1>6 DEF vars, app, SectionOK, Booting, Updating
<1>7. QED
  BY <1>1, <1>2, <1>3, <1>4, <1>5, <1>6, StepCases

\* The end of a boot.
LEMMA BootsCases ==
    TypeOK /\ SectionOK /\ Boots =>
        LET r == Resolve(cs.kind) IN
        /\ Booting /\ cs' = Free /\ UNCHANGED <<disk, seed, ota, mishaps, sweep>>
        /\ cs.by = "window" =>
              /\ cs.kind = "renderer" /\ window = "failed" /\ launch' = launch
              /\ window' = IF r = None THEN "live" ELSE "noted"
        /\ cs.by = "launch" =>
              /\ launch = cs.kind /\ window' = window
              /\ launch' = IF r = None THEN "down"
                           ELSE IF cs.kind = "server" THEN "renderer" ELSE "list"
        /\ running' = IF r = None THEN running ELSE [running EXCEPT ![cs.kind] = r]
<1> HAVE TypeOK /\ SectionOK /\ Boots
<1>1. Booting
  BY HolderInside DEF Holder, Boots, SectionOK, Booting, Updating, Placing
<1>2. /\ cs.by = "window" => cs.kind = "renderer" /\ window = "failed"
      /\ cs.by = "launch" => launch = cs.kind
  BY DEF SectionOK
<1>3. CASE Resolve(cs.kind) = None
  <2>1. Throws
    BY <1>3 DEF Boots
  <2>2. QED
    BY <1>1, <1>2, <1>3, <2>1, ThrowsCases DEF Booting, disk
<1>4. CASE Resolve(cs.kind) # None
  <2>1. Resolved(Resolve(cs.kind))
    BY <1>4 DEF Boots
  <2>2. QED
    BY <1>1, <1>2, <1>4, <2>1 DEF Booting, Resolved, Leaves, disk
<1>5. QED
  BY <1>3, <1>4

LEMMA HolderRunning ==
    TypeOK /\ SectionOK /\ Holder => UNCHANGED running \/ (Boots /\ Resolve(cs.kind) # None)
<1>1. TypeOK /\ SectionOK /\ Throws /\ Holder => UNCHANGED running
  BY HolderInside, ThrowsCases
<1>2. Holder /\ ~Throws /\ ~Boots => UNCHANGED running
  BY DEF app, Holder, StaysIn, SetCurrent, PromoteNothing, PromoteKeeps, PromoteSets,
     PromoteClears, NotLooping, Looping, Demote, Absolve, SeedActivates, Unpacks, OtaRefused,
     OtaActivates, Aside, AsideGone, Place, Announce
<1>3. QED
  BY <1>1, <1>2 DEF Boots

LEMMA HolderOta ==
    TypeOK /\ SectionOK /\ Holder =>
        \/ UNCHANGED ota
        \/ Updating /\ cs' = Free /\ (ota' = Idle \/ (Announce /\ ota' = [ota EXCEPT !.at = "ready"]))
<1>1. TypeOK /\ SectionOK /\ Throws /\ Holder => UNCHANGED ota \/ (Updating /\ cs' = Free /\ ota' = Idle)
  BY HolderInside, ThrowsCases DEF Updating
<1>2. TypeOK /\ SectionOK /\ Announce =>
         UNCHANGED ota \/ (Updating /\ cs' = Free /\ ota' = [ota EXCEPT !.at = "ready"])
  BY DEF Announce, Updating
<1>3. Holder /\ ~Throws /\ ~Announce => UNCHANGED ota
  BY DEF app, Holder, StaysIn, SetCurrent, PromoteNothing, PromoteKeeps, PromoteSets, Boots,
     Resolved, PromoteClears, NotLooping, Looping, Demote, Absolve, SeedActivates, Unpacks,
     OtaRefused, OtaActivates, Aside, AsideGone, Place
<1>4. QED
  BY <1>1, <1>2, <1>3

LEMMA StepAppOK == TypeOK /\ SectionOK /\ AppOK /\ [Next]_vars => AppOK'
<1> SUFFICES ASSUME TypeOK, SectionOK, AppOK, [Next]_vars PROVE AppOK'
  OBVIOUS
<1>0. running \in [Kinds -> Known \cup {None}]
  BY DEF TypeOK
<1>1. CASE Enters
  <2>1. UNCHANGED app
    BY <1>1, EntersFrame
  <2>2. launch # "off"
    BY <1>1 DEF AppOK, Enters, LaunchEnters, WindowEnters, OtaEnters, Kinds, Idle
  <2>3. QED
    BY <2>1, <2>2 DEF AppOK, app
<1>2. CASE Holder
  <2>1. launch # "off"
    BY <1>2, HolderInside DEF AppOK
  <2>2. launch' # "off" /\ (window = "none" <=> window' = "none")
    BY <1>2, <2>1, HolderCallers DEF SectionOK
  <2>3. ota' # Idle => window' # "none"
    BY <1>2, <2>2, HolderOta DEF AppOK, Updating, SectionOK, Idle
  <2>4. CASE Boots
    <3>1. cs.kind \in {"server", "renderer"}
      BY DEF TypeOK, Sections, Kinds
    <3>2. running'["server"] # None \/ (running'["server"] = running["server"]
                                         /\ (cs.by = "launch" => cs.kind = "renderer"
                                                                 \/ launch' = "down"))
      BY <1>0, <2>4, <3>1, BootsCases, TwoKinds
    <3>3. cs.by = "launch" /\ launch' # "down" =>
             launch' \in {"renderer", "list"} /\ running'["server"] # None
      BY <2>4, <3>1, <3>2, BootsCases DEF AppOK
    <3>4. running'["server"] = running["server"] \/ (cs.by = "launch" /\ launch' # "down")
      BY <1>0, <2>4, <3>1, BootsCases, TwoKinds DEF Booting
    <3>5. window' = "noted" => running'["renderer"] # None
      BY <1>0, <2>4, <3>1, BootsCases, TwoKinds DEF Booting, AppOK
    <3>6. QED
      BY <2>2, <2>3, <2>4, <3>3, <3>4, <3>5, BootsCases DEF AppOK, Booting
  <2>5. CASE ~Boots
    <3>1. running' = running
      BY <1>2, <2>5, HolderRunning
    <3>2. launch' \in {launch, "down"} /\ window' \in {window, "live"}
      <4>1. CASE Throws
        BY <1>2, <4>1, HolderInside, ThrowsCases
      <4>2. CASE ~Throws
        BY <1>2, <2>5, <4>2 DEF app, Holder, StaysIn, SetCurrent, PromoteNothing,
           PromoteKeeps, PromoteSets, PromoteClears, NotLooping, Looping, Demote, Absolve,
           SeedActivates, Unpacks, OtaRefused, OtaActivates, Aside, AsideGone, Place, Announce
      <4>3. QED
        BY <4>1, <4>2
    <3>3. QED
      BY <2>2, <2>3, <3>1, <3>2 DEF AppOK
  <2>6. QED
    BY <2>4, <2>5
<1>3. CASE Collects
  BY <1>3 DEF AppOK, Collects, GcLists, GcKeeps, GcRemoves, GcDone, GcUnchanged
<1>4. CASE Serves
  BY <1>0, <1>4, TwoKinds
  DEF AppOK, Serves, Spawn, Registers, Ready, ServerDies, HealthyClear
<1>5. CASE Pages
  BY <1>5 DEF AppOK, Pages, PageLoads, PageFails, PageRetries, Registers
<1>6. CASE Updates
  BY <1>0, <1>6, TwoKinds DEF AppOK, Updates, Publish, Download, Apply, ApplyFails, app, Idle
<1>7. CASE Start \/ Reuse \/ Install
  BY <1>0, <1>7, TwoKinds DEF AppOK, Start, Reuse, Install, app
<1>8. CASE Kill
  BY <1>8, TwoKinds DEF AppOK, Kill
<1>9. CASE UNCHANGED vars
  BY <1>9 DEF AppOK, vars, app
<1>10. QED
  BY <1>1, <1>2, <1>3, <1>4, <1>5, <1>6, <1>7, <1>8, <1>9, StepCases DEF Elsewhere

------------------------------------------------------------------------------
(* The steps of the section, field by field.                               *)

LEMMA PointToEffect ==
    ASSUME TypeOK, NEW slot \in Slots, NEW r, PointTo(slot, r)
    PROVE  /\ \A k \in Kinds : k # cs.kind => ptr'[k] = ptr[k]
           /\ slot = "current" => /\ ptr'[cs.kind].current = r
                                  /\ ptr'[cs.kind].previous = ptr[cs.kind].previous
                                  /\ ptr'[cs.kind].next = ptr[cs.kind].next
           /\ slot = "previous" => /\ ptr'[cs.kind].current = ptr[cs.kind].current
                                   /\ ptr'[cs.kind].previous = r
                                   /\ ptr'[cs.kind].next = ptr[cs.kind].next
           /\ slot = "next" => /\ ptr'[cs.kind].current = ptr[cs.kind].current
                               /\ ptr'[cs.kind].previous = ptr[cs.kind].previous
                               /\ ptr'[cs.kind].next = r
<1>1. cs.kind \in Kinds
  BY DEF TypeOK, Sections
<1>2. QED
  BY <1>1 DEF TypeOK, Pointers, PointTo, Slots

LEMMA DirEffect ==
    ASSUME TypeOK, NEW k \in Kinds, NEW v, NEW x, dir' = [dir EXCEPT ![k][v] = x]
    PROVE  /\ \A j \in Kinds, w \in Versions : j # k \/ w # v => dir'[j][w] = dir[j][w]
           /\ v \in Versions => dir'[k][v] = x
BY DEF TypeOK

LEMMA GoEffect ==
    ASSUME TypeOK, NEW from, NEW to, Go(from, to)
    PROVE  /\ cs.at = from /\ cs'.at = to
           /\ cs'.by = cs.by /\ cs'.kind = cs.kind /\ cs'.rel = cs.rel
           /\ cs'.fallback = cs.fallback /\ cs'.seeded = cs.seeded
BY DEF Go, TypeOK, Sections

\* Only the steps of these lemmas, and an update that fails, write a pointer.
LEMMA KeepsEffect ==
    TypeOK /\ PromoteKeeps =>
        LET p == ptr[cs.kind] q == ptr'[cs.kind] IN
        /\ cs.at = "promote" /\ cs'.at = "set" /\ p.next # None
        /\ cs'.by = cs.by /\ cs'.kind = cs.kind /\ cs'.fallback = cs.fallback
        /\ \A k \in Kinds : k # cs.kind => ptr'[k] = ptr[k]
        /\ q.current = p.current /\ q.next = p.next
        /\ q.previous = IF p.current = None THEN p.previous ELSE p.current
        /\ UNCHANGED <<dir, sentinel, quarantine, seed, app, mishaps>>
<1> SUFFICES ASSUME TypeOK, PromoteKeeps
             PROVE  LET p == ptr[cs.kind] q == ptr'[cs.kind] IN
                    /\ p.next # None
                    /\ \A k \in Kinds : k # cs.kind => ptr'[k] = ptr[k]
                    /\ q.current = p.current /\ q.next = p.next
                    /\ q.previous = IF p.current = None THEN p.previous ELSE p.current
  BY GoEffect DEF PromoteKeeps, StaysIn
<1>1. CASE ptr[cs.kind].current = None
  BY <1>1 DEF PromoteKeeps
<1>2. CASE ptr[cs.kind].current # None
  BY <1>2, PointToEffect DEF PromoteKeeps, Slots
<1>3. QED
  BY <1>1, <1>2

LEMMA SetCurrentEffect ==
    ASSUME TypeOK, NEW r, SetCurrent(r)
    PROVE  LET p == ptr[cs.kind] q == ptr'[cs.kind] IN
        /\ \A k \in Kinds : k # cs.kind => ptr'[k] = ptr[k]
        /\ q.current = r /\ q.previous = p.previous /\ q.next = p.next
        /\ UNCHANGED <<seed, shelf, app, faults>>
        /\ mishaps' = IF ota.at = "staged" /\ r.version > ota.rel.version
                      THEN mishaps \cup {"overtaken"} ELSE mishaps
BY PointToEffect DEF SetCurrent, Slots

LEMMA SetsEffect ==
    TypeOK /\ PromoteSets =>
        LET p == ptr[cs.kind] q == ptr'[cs.kind] IN
        /\ cs.at = "set" /\ cs'.at = "clear"
        /\ cs'.by = cs.by /\ cs'.kind = cs.kind /\ cs'.fallback = cs.fallback
        /\ \A k \in Kinds : k # cs.kind => ptr'[k] = ptr[k]
        /\ q.current = p.next /\ q.previous = p.previous /\ q.next = p.next
        /\ UNCHANGED <<dir, sentinel, quarantine, seed, app>>
        /\ mishaps' = IF ota.at = "staged" /\ p.next.version > ota.rel.version
                      THEN mishaps \cup {"overtaken"} ELSE mishaps
<1> HAVE TypeOK /\ PromoteSets
<1>1. Go("set", "clear") /\ SetCurrent(ptr[cs.kind].next)
      /\ UNCHANGED <<dir, sentinel, quarantine>>
  BY DEF PromoteSets
<1>2. cs.at = "set" /\ cs'.at = "clear"
      /\ cs'.by = cs.by /\ cs'.kind = cs.kind /\ cs'.fallback = cs.fallback
  BY <1>1, GoEffect
<1>3. QED
  BY <1>1, <1>2, SetCurrentEffect

LEMMA DemoteEffect ==
    TypeOK /\ Demote =>
        LET p == ptr[cs.kind] q == ptr'[cs.kind] IN
        /\ cs.at = "demote" /\ cs'.at = "absolve"
        /\ cs'.by = cs.by /\ cs'.kind = cs.kind /\ cs'.fallback = cs.fallback
        /\ \A k \in Kinds : k # cs.kind => ptr'[k] = ptr[k]
        /\ q.current = IF p.previous = None THEN p.current ELSE p.previous
        /\ q.previous = p.previous /\ q.next = p.next
        /\ UNCHANGED <<dir, sentinel, quarantine, seed, app>>
        /\ mishaps' = IF p.previous # None /\ ota.at = "staged"
                         /\ p.previous.version > ota.rel.version
                      THEN mishaps \cup {"overtaken"} ELSE mishaps
<1> HAVE TypeOK /\ Demote
<1>1. Go("demote", "absolve") /\ UNCHANGED <<dir, sentinel, quarantine>>
  BY DEF Demote
<1>2. cs.at = "demote" /\ cs'.at = "absolve"
      /\ cs'.by = cs.by /\ cs'.kind = cs.kind /\ cs'.fallback = cs.fallback
  BY <1>1, GoEffect
<1>3. CASE ptr[cs.kind].previous = None
  BY <1>1, <1>2, <1>3 DEF Demote, StaysIn
<1>4. CASE ptr[cs.kind].previous # None
  <2>1. SetCurrent(ptr[cs.kind].previous)
    BY <1>4 DEF Demote
  <2>2. QED
    BY <1>1, <1>2, <1>4, <2>1, SetCurrentEffect
<1>5. QED
  BY <1>3, <1>4

LEMMA ClearsEffect ==
    TypeOK /\ PromoteClears =>
        LET p == ptr[cs.kind] q == ptr'[cs.kind] IN
        /\ cs.at = "clear" /\ cs'.at \in {"decide", "judge"}
        /\ cs'.by = cs.by /\ cs'.kind = cs.kind /\ cs'.fallback = cs.fallback
        /\ \A k \in Kinds : k # cs.kind => ptr'[k] = ptr[k]
        /\ q.current = p.current /\ q.previous = p.previous /\ q.next = None
        /\ UNCHANGED <<dir, sentinel, quarantine, seed, app, mishaps>>
BY GoEffect, PointToEffect DEF PromoteClears, StaysIn, Slots

LEMMA AnnounceEffect ==
    TypeOK /\ SectionOK /\ Announce =>
        LET p == ptr[cs.kind] q == ptr'[cs.kind] IN
        /\ cs.at = "announce" /\ cs.rel \in Known
        /\ Booting => /\ cs.rel = seed /\ cs'.at = "promote" /\ cs'.by = cs.by
                      /\ cs'.kind = cs.kind /\ cs'.fallback = cs.fallback /\ ota' = ota
        /\ Updating => /\ cs.rel = ota.rel /\ cs.rel \in Releases
                       /\ cs.kind = "server" => /\ cs' = [cs EXCEPT !.at = "activate", !.kind = "renderer"]
                                                /\ ota' = ota
                       /\ cs.kind = "renderer" => cs' = Free /\ ota' = [ota EXCEPT !.at = "ready"]
        /\ \A k \in Kinds : k # cs.kind => ptr'[k] = ptr[k]
        /\ q.current = p.current /\ q.previous = p.previous /\ q.next = cs.rel
        /\ UNCHANGED <<dir, sentinel, quarantine, seed, launch, window, running, mishaps>>
<1> HAVE TypeOK /\ SectionOK /\ Announce
<1>1. cs.at = "announce" /\ PointTo("next", cs.rel)
  BY DEF Announce
<1>2. cs.rel \in Known /\ (Booting => cs.rel = seed) /\ (Updating => cs.rel \in Releases)
  BY <1>1, PlacedKnown
<1>3. Updating => cs.rel = ota.rel
  BY DEF SectionOK
<1>4. Booting => /\ cs'.at = "promote" /\ cs'.by = cs.by
                 /\ cs'.kind = cs.kind /\ cs'.fallback = cs.fallback /\ ota' = ota
  BY DEF Announce, Booting, TypeOK, Sections
<1>5. Updating => /\ cs.kind = "server" => /\ cs' = [cs EXCEPT !.at = "activate", !.kind = "renderer"]
                                           /\ ota' = ota
                  /\ cs.kind = "renderer" => cs' = Free /\ ota' = [ota EXCEPT !.at = "ready"]
  BY DEF Announce, Updating
<1>6. UNCHANGED <<dir, sentinel, quarantine, seed, launch, window, running, mishaps>>
  BY DEF Announce
<1>7. QED
  BY <1>1, <1>2, <1>3, <1>4, <1>5, <1>6, PointToEffect DEF Slots

\* An update that fails at the renderer takes the server's next back.
LEMMA FailsEffect ==
    TypeOK /\ SectionOK /\ Holder /\ Throws =>
        /\ cs' = Free
        /\ \/ UNCHANGED ptr /\ (Updating => cs.kind = "server")
           \/ /\ Updating /\ cs.kind = "renderer" /\ ptr'["renderer"] = ptr["renderer"]
              /\ ptr'["server"].current = ptr["server"].current
              /\ ptr'["server"].previous = ptr["server"].previous
              /\ ptr'["server"].next = None
        /\ UNCHANGED <<dir, sentinel, quarantine, seed, running, mishaps>>
<1> HAVE TypeOK /\ SectionOK /\ Holder /\ Throws
<1>1. cs.by \in {"launch", "window", "ota"} /\ cs.kind \in Kinds
  BY HolderInside DEF TypeOK, Sections
<1>2. cs' = Free /\ UNCHANGED <<dir, sentinel, quarantine, seed, running, mishaps>>
  BY <1>1, ThrowsCases
<1>3. CASE Updating /\ cs.kind = "renderer"
  <2>1. ptr' = [ptr EXCEPT !["server"].next = None]
    BY <1>1, <1>3, ThrowsCases DEF Updating
  <2>2. /\ ptr'["renderer"] = ptr["renderer"]
        /\ ptr'["server"].current = ptr["server"].current
        /\ ptr'["server"].previous = ptr["server"].previous
        /\ ptr'["server"].next = None
    BY <2>1, TwoKinds DEF TypeOK, Pointers, Slots
  <2>3. QED
    BY <1>2, <1>3, <2>2
<1>4. CASE ~(Updating /\ cs.kind = "renderer")
  BY <1>1, <1>2, <1>4, ThrowsCases DEF Updating, Kinds
<1>5. QED
  BY <1>3, <1>4

LEMMA PtrWriters ==
    Holder => \/ PromoteKeeps \/ PromoteSets \/ PromoteClears \/ Demote \/ Announce
              \/ Throws
              \/ UNCHANGED ptr
BY DEF Holder, disk, PromoteNothing, NotLooping, Looping, Absolve, Boots, Resolved,
       SeedActivates, Unpacks, OtaRefused, OtaActivates, Aside, AsideGone, Place

\* The other steps of a boot, and of an update.
LEMMA OtherSteps ==
    TypeOK /\ SectionOK /\ Holder /\ ~PromoteKeeps /\ ~PromoteSets /\ ~PromoteClears /\ ~Demote
    /\ ~Announce /\ ~Throws =>
        /\ UNCHANGED <<ptr, seed, mishaps>>
        /\ \/ PromoteNothing /\ cs.at = "promote" /\ cs'.at = "judge" /\ ptr[cs.kind].next = None
           \/ NotLooping /\ cs.at = "judge" /\ cs'.at = "decide"
           \/ Looping /\ cs.at = "judge" /\ cs'.at = "demote"
           \/ Absolve /\ cs.at = "absolve" /\ cs'.at = "decide"
           \/ SeedActivates /\ cs.at = "decide" /\ cs'.at \in {"unpack", "place"} /\ cs'.rel = seed
           \/ OtaActivates /\ cs.at = "activate" /\ cs'.at \in {"unpack", "place", "announce"}
                           /\ cs'.rel = cs.rel
           \/ Aside /\ cs.at = "unpack" /\ cs'.at = "place" /\ cs'.rel = cs.rel
           \/ Place /\ cs.at = "place" /\ cs'.at = "announce" /\ cs'.rel = cs.rel
           \/ Boots /\ cs.at = "decide" /\ cs' = Free
<1> HAVE TypeOK /\ SectionOK /\ Holder /\ ~PromoteKeeps /\ ~PromoteSets /\ ~PromoteClears
         /\ ~Demote /\ ~Announce /\ ~Throws
<1>1. CASE PromoteNothing
  BY <1>1, GoEffect DEF PromoteNothing, disk, StaysIn
<1>2. CASE NotLooping
  BY <1>2, GoEffect DEF NotLooping, disk, StaysIn
<1>3. CASE Looping
  BY <1>3 DEF Looping, StaysIn, TypeOK, Sections
<1>4. CASE Absolve
  BY <1>4, GoEffect DEF Absolve, StaysIn
<1>5. CASE SeedActivates
  BY <1>5 DEF SeedActivates, Unpacks, StaysIn, TypeOK, Sections, disk
<1>6. CASE OtaActivates
  <2>1. CASE Unpacks(cs.rel)
    BY <1>6, <2>1 DEF OtaActivates, Unpacks, StaysIn, TypeOK, Sections, disk
  <2>2. CASE Go("activate", "announce") /\ UNCHANGED disk /\ StaysIn
    BY <1>6, <2>2, GoEffect DEF StaysIn, disk
  <2>3. QED
    BY <1>6, <2>1, <2>2 DEF OtaActivates
<1>7. CASE Aside
  BY <1>7, GoEffect DEF Aside, StaysIn
<1>8. CASE Place
  BY <1>8, GoEffect DEF Place, StaysIn
<1>9. CASE Boots
  BY <1>9 DEF Boots, Resolved, Leaves, disk
<1>10. QED
  BY <1>1, <1>2, <1>3, <1>4, <1>5, <1>6, <1>7, <1>8, <1>9 DEF Holder, OtaRefused, AsideGone

------------------------------------------------------------------------------
(* Promotion, and what a kind that booted can count on.                    *)

LEMMA StepPromoteOK == TypeOK /\ SectionOK /\ PromoteOK /\ [Next]_vars => PromoteOK'
<1> SUFFICES ASSUME TypeOK, SectionOK, PromoteOK, [Next]_vars PROVE PromoteOK'
  OBVIOUS
<1>1. CASE UNCHANGED <<ptr, cs>>
  BY <1>1 DEF PromoteOK, Booting
<1>2. CASE cs' = Free
  BY <1>2 DEF PromoteOK, Booting, Free
<1>3. CASE Enters
  BY <1>3, EntersFrame
  DEF Enters, LaunchEnters, WindowEnters, OtaEnters, Enter, Free, PromoteOK, Booting, Promoting,
      disk
<1>4. CASE PromoteKeeps
  BY <1>4, KeepsEffect DEF PromoteOK, Booting, Promoting
<1>5. CASE PromoteSets
  BY <1>5, SetsEffect DEF PromoteOK, Booting, Promoting
<1>6. CASE PromoteClears
  BY <1>6, ClearsEffect DEF PromoteOK, Booting, Promoting
<1>7. CASE Demote
  BY <1>7, DemoteEffect DEF PromoteOK, Booting, Promoting
<1>8. CASE Announce
  <2>1. CASE Booting
    BY <1>8, <2>1, AnnounceEffect DEF PromoteOK, Booting, Promoting
  <2>2. CASE Updating
    BY <1>2, <1>8, <2>2 DEF Announce, PromoteOK, Booting, Updating, TypeOK, Sections
  <2>3. QED
    BY <1>8, <2>1, <2>2, HolderInside DEF Holder, Booting, Updating
<1>9. CASE Holder /\ ~PromoteKeeps /\ ~PromoteSets /\ ~PromoteClears /\ ~Demote
           /\ ~Announce /\ ~Throws
  <2>1. CASE cs' # Free
    BY <1>9, <2>1, HolderStays, OtherSteps DEF PromoteOK, Booting, Promoting
  <2>2. QED
    BY <1>2, <2>1
<1>10. CASE Throws
  BY <1>2, <1>10 DEF Throws, Leaves
<1>11. CASE Elsewhere \/ Kill \/ UNCHANGED vars
  BY <1>1, <1>2, <1>11, ElsewhereFrame DEF vars, disk, Kill
<1>12. QED
  BY <1>3, <1>4, <1>5, <1>6, <1>7, <1>8, <1>9, <1>10, <1>11, StepCases

\* Only a boot reaches the steps that promote or demote.
LEMMA BootsPromote ==
    TypeOK /\ SectionOK /\ cs.at \in Promoting \cup {"judge", "demote", "absolve", "decide"} =>
        Booting
BY DEF TypeOK, Sections, SectionOK, Booting, Updating, Promoting, Placing, Free

LEMMA CurrentStays ==
    TypeOK /\ SectionOK /\ PromoteOK /\ CurrentOK /\ [Next]_vars =>
        \A k \in Kinds :
            /\ ptr[k].current # None => ptr'[k].current # None
            /\ ptr'[k].previous # None => ptr'[k].current # None
<1> SUFFICES ASSUME TypeOK, SectionOK, PromoteOK, CurrentOK, [Next]_vars, NEW k \in Kinds
             PROVE  /\ ptr[k].current # None => ptr'[k].current # None
                    /\ ptr'[k].previous # None => ptr'[k].current # None
  OBVIOUS
<1>1. CASE UNCHANGED ptr
  BY <1>1 DEF CurrentOK
<1>2. CASE PromoteKeeps
  BY <1>2, KeepsEffect DEF CurrentOK
<1>3. CASE PromoteSets
  BY <1>3, SetsEffect, BootsPromote DEF CurrentOK, PromoteOK, Promoting
<1>4. CASE PromoteClears
  BY <1>4, ClearsEffect DEF CurrentOK
<1>5. CASE Demote
  BY <1>5, DemoteEffect DEF CurrentOK
<1>6. CASE Announce
  BY <1>6, AnnounceEffect DEF CurrentOK
<1>7. CASE Holder /\ Throws
  BY <1>7, FailsEffect DEF CurrentOK, Kinds
<1>8. CASE Enters \/ Elsewhere \/ Kill \/ UNCHANGED vars
  BY <1>1, <1>8, EntersFrame, ElsewhereFrame DEF vars, disk, Kill
<1>9. QED
  BY <1>1, <1>2, <1>3, <1>4, <1>5, <1>6, <1>7, <1>8, StepCases, PtrWriters

LEMMA StepCurrentOK ==
    TypeOK /\ SectionOK /\ PromoteOK /\ CurrentOK /\ [Next]_vars => CurrentOK'
<1> SUFFICES ASSUME TypeOK, SectionOK, PromoteOK, CurrentOK, [Next]_vars PROVE CurrentOK'
  OBVIOUS
<1>1. \A k \in Kinds : /\ ptr[k].current # None => ptr'[k].current # None
                       /\ ptr'[k].previous # None => ptr'[k].current # None
  BY CurrentStays
<1> DEFINE Has == \/ Booted \/ window # "none"
                  \/ launch = "off" /\ running["server"] # None
<1>0. running \in [Kinds -> Known \cup {None}] /\ {"server", "renderer"} = Kinds
  BY TwoKinds DEF TypeOK, Kinds
<1>2. CASE (Has' => Has) /\ (launch' = "renderer" => launch = "renderer")
  BY <1>1, <1>2, TwoKinds DEF CurrentOK
<1>3. CASE Boots
  <2>1. cs.kind \in Kinds /\ Booting
    BY <1>3, BootsCases DEF TypeOK, Sections
  <2>2. CASE Resolve(cs.kind) = None \/ cs.by = "window"
    BY <1>2, <1>3, <2>1, <2>2, BootsCases DEF Booting, Booted, SectionOK, Kinds
  <2>3. CASE Resolve(cs.kind) # None /\ cs.by = "launch"
    <3>1. ptr[cs.kind].current # None
      BY <2>1, <2>3 DEF Resolve, CurrentOK, Intact
    <3>2. UNCHANGED ptr
      BY <1>3, BootsCases DEF disk
    <3>3. launch = cs.kind /\ window' = window
          /\ launch' = IF cs.kind = "server" THEN "renderer" ELSE "list"
      BY <1>3, <2>3, BootsCases
    <3>4. QED
      BY <2>1, <3>1, <3>2, <3>3 DEF CurrentOK, Booted, Kinds
  <2>4. QED
    BY <2>1, <2>2, <2>3 DEF Booting
<1>4. CASE Holder /\ ~Boots
  <2>1. launch' \in {launch, "down"} /\ (window' # "none" => window # "none")
    <3>1. CASE Throws
      BY <1>4, <3>1, HolderInside, ThrowsCases DEF SectionOK
    <3>2. CASE ~Throws
      BY <1>4, <3>2 DEF app, Holder, StaysIn, SetCurrent, PromoteNothing,
         PromoteKeeps, PromoteSets, PromoteClears, NotLooping, Looping, Demote, Absolve,
         SeedActivates, Unpacks, OtaRefused, OtaActivates, Aside, AsideGone, Place, Announce
    <3>3. QED
      BY <3>1, <3>2
  <2>2. running' = running
    BY <1>4, HolderRunning
  <2>3. QED
    BY <1>2, <2>1, <2>2 DEF Booted
<1>5. CASE Enters \/ UNCHANGED vars
  BY <1>2, <1>5, EntersFrame DEF vars, app, Booted
<1>6. CASE Collects
  BY <1>2, <1>6 DEF Booted, Collects, GcLists, GcKeeps, GcRemoves, GcDone, GcUnchanged
<1>7. CASE Serves
  BY <1>0, <1>2, <1>7 DEF Booted, Serves, Spawn, Registers, Ready, ServerDies, HealthyClear
<1>8. CASE Pages
  BY <1>2, <1>8 DEF Booted, Pages, PageLoads, PageFails, PageRetries, Registers
<1>9. CASE Updates
  BY <1>0, <1>2, <1>9 DEF Booted, Updates, Publish, Download, Apply, ApplyFails, app
<1>10. CASE Start \/ Reuse \/ Install
  BY <1>2, <1>10 DEF Booted, Start, Reuse, Install, app
<1>11. CASE Kill
  <2>1. launch' = "off" /\ window' = "none"
    BY <1>11 DEF Kill
  <2>2. running'["server"] # None => Booted
    BY <1>0, <1>11 DEF Kill, Booted
  <2>3. QED
    BY <1>2, <2>1, <2>2 DEF Booted
<1>12. QED
  BY <1>3, <1>4, <1>5, <1>6, <1>7, <1>8, <1>9, <1>10, <1>11, StepCases DEF Elsewhere

\* Where the start and the page are, as far as a seed in next is concerned.
LEMMA ElsewhereUnbooted ==
    Elsewhere /\ window \in {"none", "plain"} =>
        /\ launch \in {"off", "server", "down", "up"} =>
              window' \in {"none", "plain"} /\ launch' \in {"off", "server", "down", "up"}
        /\ launch = "renderer" => window' = window /\ launch' = "renderer"
BY DEF Elsewhere, Collects, GcLists, GcKeeps, GcRemoves, GcDone, GcUnchanged,
       Serves, Spawn, Ready, ServerDies, HealthyClear, Registers,
       Pages, PageLoads, PageFails, PageRetries, Updates, Publish, Download, Apply, ApplyFails,
       Start, Reuse, Install, app

LEMMA StepSeedNextOK ==
    TypeOK /\ SectionOK /\ AppOK /\ PromoteOK /\ SeedNextOK /\ [Next]_vars => SeedNextOK'
<1> DEFINE Unbooted(k) ==
        /\ window \in {"none", "plain"}
        /\ \/ launch \in {"off", "server", "down", "up"}
           \/ launch = "renderer" /\ k = "renderer"
<1> SUFFICES ASSUME TypeOK, SectionOK, AppOK, PromoteOK, SeedNextOK, [Next]_vars,
                    NEW k \in Kinds, IsSeed(ptr'[k].next)
             PROVE  \/ Booting' /\ cs'.kind = k /\ cs'.at \in Promoting
                    \/ Unbooted(k)'
  BY DEF SeedNextOK, IsSeed
<1>1. cs.kind \in {"server", "renderer"} /\ k \in {"server", "renderer"}
  BY DEF TypeOK, Sections, Kinds
<1>2. IsSeed(ptr[k].next) => (Booting /\ cs.kind = k /\ cs.at \in Promoting) \/ Unbooted(k)
  BY DEF SeedNextOK
<1>3. CASE Enters
  <2>1. ~Booting /\ UNCHANGED <<ptr, launch, window>>
    BY <1>3, EntersFrame DEF Booting, Free, disk, app
  <2>2. QED
    BY <1>2, <2>1
<1>4. CASE PromoteKeeps
  BY <1>2, <1>4, KeepsEffect DEF app, Promoting, Booting
<1>5. CASE PromoteSets
  BY <1>2, <1>5, SetsEffect DEF app, Promoting, Booting
<1>6. CASE PromoteClears
  BY <1>1, <1>2, <1>6, ClearsEffect DEF app, Promoting, Booting, IsSeed
<1>7. CASE Demote
  BY <1>2, <1>7, DemoteEffect DEF app, Promoting, Booting
<1>8. CASE Announce
  <2>1. CASE Booting
    BY <1>2, <1>8, <2>1, AnnounceEffect DEF Booting, Promoting
  <2>2. CASE Updating
    <3>1. window # "none" /\ cs.rel.train # 0
      BY <1>8, <2>2, AnnounceEffect, ReleasesAssumption DEF SectionOK, AppOK, Idle, Updating
    <3>2. QED
      BY <1>1, <1>2, <1>8, <2>2, <3>1, AnnounceEffect DEF IsSeed, Booting, Updating
  <2>3. QED
    BY <1>8, <2>1, <2>2, HolderInside DEF Holder, Booting, Updating
<1>9. CASE Holder /\ Throws
  <2>1. CASE Booting
    <3>1. cs.at \notin Promoting
      BY <1>9, <2>1 DEF Holder, Throws, Leaves, PromoteNothing, PromoteKeeps, PromoteSets,
         PromoteClears, Go, Promoting, Boots, OtaRefused, AsideGone, NotLooping, Looping, Demote,
         Absolve, SeedActivates, OtaActivates, Unpacks, Aside, Place, Announce, TypeOK, Sections,
         Free
    <3>2. UNCHANGED ptr /\ IsSeed(ptr[k].next)
      BY <1>9, <2>1, FailsEffect DEF Booting, Updating
    <3>3. Unbooted(k)
      BY <1>2, <3>1, <3>2
    <3>4. cs.by = "launch"
      BY <2>1, <3>3 DEF Booting, SectionOK
    <3>5. QED
      BY <1>9, <3>3, <3>4, ThrowsCases
  <2>2. CASE Updating
    <3>1. IsSeed(ptr[k].next) /\ UNCHANGED <<launch, window>>
      BY <1>1, <1>9, <2>2, FailsEffect, ThrowsCases DEF IsSeed, Updating
    <3>2. QED
      BY <1>2, <2>2, <3>1 DEF Updating, Booting
  <2>3. QED
    BY <1>9, <2>1, <2>2, HolderInside DEF Booting, Updating
<1>10. CASE Boots /\ ~Throws
  <2>1. Booting /\ UNCHANGED ptr /\ cs.at = "decide" /\ Resolve(cs.kind) # None
    BY <1>10, BootsCases DEF Boots, disk
  <2>2. ptr[cs.kind].next = None
    BY <2>1 DEF PromoteOK, Promoting
  <2>3. Unbooted(k) /\ k # cs.kind
    BY <1>2, <2>1, <2>2 DEF IsSeed, Promoting
  <2>4. cs.by = "launch" /\ launch = cs.kind
    BY <1>10, <2>1, <2>3, BootsCases DEF Booting
  <2>5. QED
    BY <1>1, <1>10, <2>1, <2>3, <2>4, BootsCases
<1>11. CASE Holder /\ ~PromoteKeeps /\ ~PromoteSets /\ ~PromoteClears /\ ~Demote
           /\ ~Announce /\ ~Throws /\ ~Boots
  <2>1. cs' # Free /\ UNCHANGED ptr
    BY <1>11, OtherSteps DEF Free
  <2>2. UNCHANGED app /\ cs'.kind = cs.kind /\ cs'.by = cs.by
    BY <1>11, <2>1, HolderStays
  <2>3. cs.at \in Promoting => ptr[cs.kind].next = None
    BY <1>11, OtherSteps DEF Promoting
  <2>4. QED
    BY <1>2, <2>1, <2>2, <2>3 DEF IsSeed, app
<1>12. CASE Elsewhere
  <2>1. UNCHANGED <<ptr, cs>>
    BY <1>12, ElsewhereFrame
  <2>2. CASE Unbooted(k)
    BY <1>12, <2>2, ElsewhereUnbooted
  <2>3. QED
    BY <1>2, <2>1, <2>2 DEF Booting
<1>13. CASE Kill
  BY <1>13 DEF Kill
<1>14. CASE UNCHANGED vars
  BY <1>2, <1>14 DEF vars, disk, app, Booting
<1>15. QED
  BY <1>3, <1>4, <1>5, <1>6, <1>7, <1>8, <1>9, <1>10, <1>11, <1>12, <1>13, <1>14, StepCases

------------------------------------------------------------------------------
(* The directory of the server in use.                                     *)

\* What this conjunct of the invariant says, for the steps that leave the server
\* and its two pointers alone.
ServerHeld ==
    LET mine == running["server"] IN
    Intact("server", mine) /\ mine \in {ptr["server"].current, ptr["server"].previous}

LEMMA ServerKept ==
    TypeOK /\ SectionOK /\ AppOK /\ ServerOK /\ [Next]_vars
    /\ running'["server"] # None /\ ~Boots =>
        running'["server"] = running["server"] /\ ServerHeld'
<1> SUFFICES ASSUME TypeOK, SectionOK, AppOK, ServerOK, [Next]_vars,
                    running'["server"] # None, ~Boots
             PROVE  running'["server"] = running["server"] /\ ServerHeld'
  OBVIOUS
<1> DEFINE mine == running["server"]
<1>1. running'["server"] = mine
  <2>1. CASE Holder
    BY <2>1, HolderRunning
  <2>2. CASE ~Holder
    BY <2>2, StepCases, EntersFrame, TwoKinds DEF TypeOK, vars, app, Kill, Elsewhere, Collects,
       Serves, Pages, Updates, GcLists, GcKeeps, GcRemoves, GcDone, GcUnchanged, Spawn,
       Registers, Ready, ServerDies, HealthyClear, PageLoads, PageFails, PageRetries,
       Publish, Download, Apply, ApplyFails, Start, Reuse, Install
  <2>3. QED
    BY <2>1, <2>2
<1>2. mine \in Known /\ mine.version \in Versions /\ mine.sha # None
  BY <1>1, TwoKinds, TrainsKnown DEF TypeOK
<1>3. Intact("server", mine) /\ mine \in {ptr["server"].current, ptr["server"].previous}
  BY <1>1 DEF ServerOK
\* A boot of the server is not in the section: it has not got to a version yet.
<1>4. Booting => cs.kind = "renderer"
  BY <1>1 DEF SectionOK, AppOK, Booting, TypeOK, Sections, Kinds
<1>5. mine \in {ptr'["server"].current, ptr'["server"].previous}
  <2>1. CASE UNCHANGED ptr
    BY <1>3, <2>1
  <2>2. CASE PromoteKeeps \/ PromoteSets \/ PromoteClears \/ Demote
    <3>1. Booting
      BY <2>2, BootsPromote DEF PromoteKeeps, PromoteSets, PromoteClears, Demote, Go, Promoting
    <3>2. ptr'["server"] = ptr["server"]
      BY <1>4, <2>2, <3>1, TwoKinds, KeepsEffect, SetsEffect, ClearsEffect, DemoteEffect
    <3>3. QED
      BY <1>3, <3>2
  <2>3. CASE Announce
    <3>1. ptr'["server"].current = ptr["server"].current
          /\ ptr'["server"].previous = ptr["server"].previous
      BY <2>3, AnnounceEffect, TwoKinds
    <3>2. QED
      BY <1>3, <3>1
  <2>4. CASE Holder /\ Throws
    BY <1>3, <2>4, FailsEffect
  <2>5. CASE Enters \/ Elsewhere \/ Kill \/ UNCHANGED vars
    BY <2>1, <2>5, EntersFrame, ElsewhereFrame DEF vars, disk, Kill
  <2>6. QED
    BY <2>1, <2>2, <2>3, <2>4, <2>5, StepCases, PtrWriters
<1>6. dir'["server"][mine.version] = dir["server"][mine.version]
  <2>1. CASE Aside \/ Place
    <3>1. cs.kind = "server" => cs.rel.version # mine.version
      BY <1>1, <1>4, <2>1, PlacedKnown DEF ServerOK, Aside, Place, Go, Booting, Updating
    <3>2. QED
      BY <1>2, <2>1, <3>1, TwoKinds, DirEffect DEF Aside, Place, TypeOK, Sections
  <2>2. CASE GcRemoves
    BY <1>1, <1>2, <2>2, TwoKinds, DirEffect DEF ServerOK, GcRemoves, TypeOK
  <2>3. CASE UNCHANGED dir
    BY <2>3
  <2>4. Aside \/ GcRemoves \/ Place \/ UNCHANGED dir
    BY StepCases, EntersFrame DEF vars, disk, Kill, Elsewhere, Collects, Serves, Pages, Updates,
       GcLists, GcKeeps, GcDone, GcUnchanged, Spawn, Registers, Ready, ServerDies, HealthyClear,
       PageLoads, PageFails, PageRetries, Publish, Download, Apply, ApplyFails, Start, Reuse, Install,
       Holder, PromoteNothing, PromoteKeeps, PromoteSets, PromoteClears, NotLooping, Looping,
       Demote, Absolve, Boots, Resolved, Throws, SeedActivates, Unpacks, OtaRefused,
       OtaActivates, AsideGone, Announce
  <2>5. QED
    BY <2>1, <2>2, <2>3, <2>4
<1>7. QED
  BY <1>1, <1>3, <1>5, <1>6 DEF ServerHeld, Intact

LEMMA StepServerOK ==
    TypeOK /\ SectionOK /\ AppOK /\ ServerOK /\ [Next]_vars => ServerOK'
<1> SUFFICES ASSUME TypeOK, SectionOK, AppOK, ServerOK, [Next]_vars, running'["server"] # None
             PROVE  LET mine == running'["server"] IN
                    /\ ServerHeld'
                    /\ Updating' /\ cs'.kind = "server" /\ cs'.at \in {"unpack", "place"} =>
                          cs'.rel.version # mine.version
                    /\ launch' = "sweep" /\ sweep'.kind = "server" =>
                          mine.version \notin sweep'.targets
  BY DEF ServerOK, ServerHeld
<1>1. CASE Boots
  <2>1. /\ UNCHANGED <<disk, sweep>> /\ cs' = Free
        /\ launch' # "sweep" \/ (cs.by = "window" /\ cs.kind = "renderer" /\ launch' = launch)
    BY <1>1, BootsCases DEF Booting
  <2>2. CASE cs.kind = "server" /\ Resolve("server") # None
    <3>1. running'["server"] = Resolve("server")
      BY <1>1, <2>2, BootsCases DEF TypeOK, Kinds
    <3>2. ServerHeld'
      BY <2>1, <2>2, <3>1, ResolveIntact, TwoKinds DEF ServerHeld, disk, Intact
    <3>3. QED
      BY <2>1, <2>2, <3>2 DEF Updating, Free
  <2>3. CASE cs.kind = "renderer" \/ Resolve(cs.kind) = None
    <3>1. running'["server"] = running["server"]
      BY <1>1, <2>3, BootsCases DEF TypeOK, Kinds
    <3>2. ServerHeld'
      BY <2>1, <3>1 DEF ServerOK, ServerHeld, disk, Intact
    <3>3. QED
      BY <2>1, <3>1, <3>2 DEF ServerOK, Updating, Free
  <2>4. QED
    BY <2>2, <2>3 DEF TypeOK, Sections, Kinds
<1>2. CASE ~Boots
  <2> DEFINE mine == running["server"]
  <2>1. running'["server"] = mine /\ ServerHeld'
    BY <1>2, ServerKept
  <2>2. mine \in Known /\ mine.version \in Versions /\ mine.sha # None
        /\ mine.sha = dir["server"][mine.version]
        /\ mine \in {ptr["server"].current, ptr["server"].previous}
    BY <2>1, TwoKinds, TrainsKnown DEF TypeOK, ServerOK, Intact
  <2>3. ASSUME Updating', cs'.kind = "server", cs'.at \in {"unpack", "place"}
        PROVE  cs'.rel.version # mine.version
    <3>1. CASE OtaActivates /\ cs.kind = "server"
      <4>1. Unpacks(cs.rel) /\ ~Protected("server", cs.rel)
        BY <2>3, <3>1 DEF OtaActivates, Go, TypeOK, Sections
      <4>2. cs'.rel = cs.rel
        BY <4>1 DEF Unpacks, TypeOK, Sections
      <4>3. cs.rel.version = mine.version => Named("server", mine.version) # {}
        BY <2>1, <2>2 DEF Named, Slots
      <4>4. QED
        BY <2>2, <4>1, <4>2, <4>3 DEF Protected
    <3>2. CASE Holder /\ ~OtaActivates
      <4>1. cs' # Free
        BY <2>3 DEF Free
      <4>2. cs'.rel = cs.rel /\ Updating /\ cs.kind = "server" /\ cs.at = "unpack"
        BY <2>3, <3>2, <4>1, HolderStays, OtherSteps, KeepsEffect, SetsEffect, ClearsEffect,
           DemoteEffect DEF Updating, Announce, SeedActivates, Throws, Leaves, SectionOK, Placing,
           TypeOK, Sections
      <4>3. QED
        BY <2>1, <4>2 DEF ServerOK
    <3>3. CASE OtaActivates /\ cs.kind = "renderer"
      BY <2>3, <3>3, HolderStays DEF Holder, Announce, Free, OtaActivates
    <3>4. CASE Enters
      BY <2>3, <3>4 DEF Enters, LaunchEnters, WindowEnters, OtaEnters, Enter, Free
    <3>5. CASE Elsewhere \/ UNCHANGED vars
      BY <2>1, <2>3, <3>5, ElsewhereFrame DEF vars, ServerOK, Updating
    <3>6. CASE Kill
      BY <2>3, <3>6 DEF Kill, Free
    <3>7. QED
      BY <3>1, <3>2, <3>3, <3>4, <3>5, <3>6, StepCases DEF TypeOK, Sections, Kinds
  <2>4. ASSUME launch' = "sweep", sweep'.kind = "server"
        PROVE  mine.version \notin sweep'.targets
    <3>1. CASE GcKeeps
      BY <2>2, <2>4, <3>1, TrainsKnown DEF GcKeeps, Referenced, Slots, TypeOK
    <3>2. CASE GcRemoves
      BY <2>1, <2>4, <3>2 DEF GcRemoves, ServerOK, TypeOK
    <3>3. CASE launch = "sweep" /\ sweep' = sweep
      BY <2>1, <2>4, <3>3 DEF ServerOK
    <3>4. GcKeeps \/ GcRemoves \/ (launch = "sweep" /\ sweep' = sweep)
      <4>1. CASE Holder
        BY <2>4, <4>1, HolderFrame, HolderCallers
      <4>2. CASE ~Holder
        BY <2>4, <4>2, StepCases, EntersFrame DEF vars, app, Kill, Elsewhere, Collects, Serves,
           Pages, Updates, GcLists, GcDone, GcUnchanged, Spawn, Registers, Ready, ServerDies,
           HealthyClear, PageLoads, PageFails, PageRetries, Publish, Download, Apply,
           ApplyFails, Start, Reuse, Install
      <4>3. QED
        BY <4>1, <4>2
    <3>5. QED
      BY <3>1, <3>2, <3>3, <3>4
  <2>5. QED
    BY <2>1, <2>3, <2>4
<1>3. QED
  BY <1>1, <1>2

------------------------------------------------------------------------------
(* The quarantine.                                                         *)

LEMMA QuarantineWriter == [Next]_vars => Looping \/ UNCHANGED quarantine
BY StepCases, EntersFrame, ElsewhereFrame DEF vars, disk, Kill, Holder, PromoteNothing,
   PromoteKeeps, PromoteSets, PromoteClears, NotLooping, Demote, Absolve, Boots, Resolved,
   Throws, SeedActivates, Unpacks, OtaRefused, OtaActivates, Aside, AsideGone, Place, Announce

LEMMA StepQuarantineOK == TypeOK /\ SectionOK /\ QuarantineOK /\ [Next]_vars => QuarantineOK'
<1> SUFFICES ASSUME TypeOK, SectionOK, QuarantineOK, [Next]_vars PROVE QuarantineOK'
  OBVIOUS
<1>1. Looping \/ UNCHANGED quarantine
  BY QuarantineWriter
<1>2. CASE Looping
  <2>1. /\ cs'.at = "demote" /\ cs'.kind = cs.kind /\ cs.kind \in Kinds /\ UNCHANGED ptr
        /\ quarantine \in [Kinds -> SUBSET {r.train : r \in Releases}]
    BY <1>2 DEF Looping, TypeOK, Sections
  <2>2. ~Updating'
    BY <1>2, BootsPromote DEF Looping, Booting, Updating, TypeOK, Sections
  <2>3. IsUpdate(ptr[cs.kind].current) => ptr[cs.kind].current.train \in quarantine'[cs.kind]
    BY <1>2, <2>1 DEF Looping, IsUpdate
  <2>4. QED
    BY <2>1, <2>2, <2>3 DEF QuarantineOK, IsUpdate, Updating, Placing
<1>3. CASE UNCHANGED quarantine
  <2>1. CASE Enters
    BY <2>1 DEF Enters, LaunchEnters, WindowEnters, OtaEnters, Enter, Free, QuarantineOK, Placing,
                Updating
  <2>2. CASE cs' = Free
    BY <2>2 DEF QuarantineOK, Updating, Free
  <2>3. CASE Holder /\ cs' # Free
    <3>1. ASSUME Updating', cs'.at \in Placing
          PROVE  cs'.rel.train \notin quarantine[cs'.kind]
      <4>1. CASE OtaActivates
        BY <2>3, <4>1, HolderStays, OtherSteps DEF OtaActivates, Announce, Throws, Leaves, TypeOK,
           Sections, PromoteKeeps, PromoteSets, PromoteClears, Demote, Go
      <4>2. CASE ~OtaActivates
        <5>1. cs'.rel = cs.rel /\ Updating /\ cs'.kind = cs.kind /\ cs.at \in Placing
          BY <2>3, <3>1, <4>2, HolderStays, OtherSteps, KeepsEffect, SetsEffect, ClearsEffect,
             DemoteEffect DEF Updating, Announce, SeedActivates, Throws, Leaves, SectionOK, Placing,
             TypeOK, Sections
        <5>2. QED
          BY <5>1 DEF QuarantineOK
      <4>3. QED
        BY <4>1, <4>2
    <3>2. cs'.at # "demote" \/ Looping
      BY <2>3, OtherSteps, KeepsEffect, SetsEffect, ClearsEffect, DemoteEffect
      DEF Announce, Throws, Leaves, TypeOK, Sections
    <3>3. QED
      BY <1>2, <3>1, <3>2, <1>3 DEF QuarantineOK, Updating
  <2>4. CASE Elsewhere \/ Kill \/ UNCHANGED vars
    BY <1>3, <2>2, <2>4, ElsewhereFrame DEF vars, disk, Kill, QuarantineOK, Updating, IsUpdate
  <2>5. QED
    BY <2>1, <2>2, <2>3, <2>4, StepCases
<1>4. QED
  BY <1>1, <1>2, <1>3

\* Only the last step of an activation makes something next.
LEMMA NextWriter ==
    TypeOK /\ SectionOK /\ [Next]_vars =>
        \A k \in Kinds : ptr'[k].next \in {None, ptr[k].next} \/ (Announce /\ k = cs.kind)
<1> SUFFICES ASSUME TypeOK, SectionOK, [Next]_vars, NEW k \in Kinds
             PROVE  ptr'[k].next \in {None, ptr[k].next} \/ (Announce /\ k = cs.kind)
  OBVIOUS
<1>1. CASE PromoteKeeps \/ PromoteSets \/ PromoteClears \/ Demote
  BY <1>1, KeepsEffect, SetsEffect, ClearsEffect, DemoteEffect
<1>2. CASE Announce
  BY <1>2, AnnounceEffect
<1>3. CASE Holder /\ Throws
  BY <1>3, FailsEffect DEF Kinds
<1>4. CASE UNCHANGED ptr
  BY <1>4
<1>5. QED
  BY <1>1, <1>2, <1>3, <1>4, StepCases, PtrWriters, EntersFrame, ElsewhereFrame
  DEF vars, disk, Kill

LEMMA QuarantineHolds ==
    TypeOK /\ SectionOK /\ QuarantineOK /\ [Next]_vars =>
        \A k \in Kinds :
            LET next == ptr'[k].next IN
            next # None /\ next # ptr[k].next => next.train \notin quarantine[k]
<1> SUFFICES ASSUME TypeOK, SectionOK, QuarantineOK, [Next]_vars, NEW k \in Kinds,
                    ptr'[k].next # None, ptr'[k].next # ptr[k].next
             PROVE  ptr'[k].next.train \notin quarantine[k]
  OBVIOUS
<1>1. Announce /\ k = cs.kind
  BY NextWriter
<1>2. ptr'[k].next = cs.rel /\ cs.at = "announce"
  BY <1>1, AnnounceEffect
<1>3. CASE Booting
  <2>1. cs.rel.train = 0
    BY <1>1, <1>3, AnnounceEffect, ReleasesAssumption DEF TypeOK
  <2>2. quarantine[k] \subseteq {r.train : r \in Releases}
    BY DEF TypeOK
  <2>3. 0 \notin {r.train : r \in Releases}
    BY ReleasesAssumption
  <2>4. QED
    BY <1>2, <2>1, <2>2, <2>3
<1>4. CASE Updating
  BY <1>1, <1>2, <1>4 DEF QuarantineOK, Placing
<1>5. QED
  BY <1>1, <1>3, <1>4, HolderInside DEF Holder, Booting, Updating

------------------------------------------------------------------------------
(* An update for both kinds.                                               *)

LEMMA SeedOrUpdate == TypeOK => \A k \in Kinds, s \in Slots :
    LET r == ptr[k][s] IN (r = None \/ IsSeed(r) \/ IsUpdate(r)) /\ ~(IsSeed(r) /\ IsUpdate(r))
BY TrainsKnown DEF TypeOK, Pointers, IsSeed, IsUpdate

\* Nobody leaves the section half-way through a promotion.
LEMMA ThrowsAt ==
    TypeOK /\ Holder /\ Throws => cs.at \notin Promoting \cup {"judge", "demote", "absolve"}
<1> SUFFICES ASSUME TypeOK, Holder, Throws,
                    cs.at \in Promoting \cup {"judge", "demote", "absolve"}
             PROVE  FALSE
  OBVIOUS
<1>1. cs'.at = "free"
  BY DEF Throws, Leaves, Free
<1>2. ~Looping
  BY <1>1 DEF Looping, TypeOK, Sections
<1>3. ASSUME NEW from, NEW to, Go(from, to) PROVE cs'.at = to
  BY <1>3, GoEffect
<1>4. PromoteNothing \/ PromoteKeeps \/ PromoteSets \/ PromoteClears \/ NotLooping \/ Demote
      \/ Absolve
  BY <1>2 DEF Holder, Promoting, Boots, OtaRefused, AsideGone, SeedActivates, OtaActivates, Go,
              Aside, Place, Announce
<1>5. QED
  BY <1>1, <1>3, <1>4 DEF PromoteNothing, PromoteKeeps, PromoteSets, PromoteClears, NotLooping,
                          Demote, Absolve

\* The server's boot leaves nothing staged for it.
LEMMA ServerBooted ==
    TypeOK /\ SectionOK /\ PromoteOK /\ Holder /\ cs' = Free
    /\ cs.by = "launch" /\ cs.kind = "server"
    => UNCHANGED ptr /\ ptr["server"].next = None
<1> SUFFICES ASSUME TypeOK, SectionOK, PromoteOK, Holder, cs' = Free,
                    cs.by = "launch", cs.kind = "server"
             PROVE  UNCHANGED ptr /\ ptr["server"].next = None
  OBVIOUS
<1>1. Booting
  BY DEF Booting
<1>2. (Boots /\ cs.at = "decide" /\ UNCHANGED ptr) \/ Throws
  <2>1. ~PromoteKeeps /\ ~PromoteSets /\ ~PromoteClears /\ ~Demote /\ ~Announce
    BY <1>1, KeepsEffect, SetsEffect, ClearsEffect, DemoteEffect, AnnounceEffect DEF Free
  <2>2. QED
    BY <1>1, <2>1, OtherSteps DEF Free
<1>3. UNCHANGED ptr /\ cs.at \notin Promoting
  BY <1>1, <1>2, ThrowsAt, FailsEffect DEF Promoting, Booting, Updating
<1>4. QED
  BY <1>1, <1>3 DEF PromoteOK

LEMMA NothingStagedEarly ==
    TypeOK /\ SectionOK /\ AppOK /\ PromoteOK /\ LandedOK /\ [Next]_vars =>
        (window' = "none" /\ launch' \notin {"off", "server"} => ptr'["server"].next = None)
<1> SUFFICES ASSUME TypeOK, SectionOK, AppOK, PromoteOK, LandedOK, [Next]_vars,
                    window' = "none", launch' \notin {"off", "server"}
             PROVE  ptr'["server"].next = None
  OBVIOUS
<1>1. window = "none" \/ Kill
  <2>1. CASE Holder
    BY <2>1, HolderCallers
  <2>2. CASE ~Holder
    BY <2>2, StepCases, EntersFrame DEF vars, app, Elsewhere, Collects, Serves, Pages, Updates,
       GcLists, GcKeeps, GcRemoves, GcDone, GcUnchanged, Spawn, Registers, Ready, ServerDies,
       HealthyClear, PageLoads, PageFails, PageRetries, Publish, Download, Apply,
       ApplyFails, Start, Reuse, Install
  <2>3. QED
    BY <2>1, <2>2
<1>2. ~Kill
  BY DEF Kill
<1>3. ~Updating
  BY <1>1, <1>2 DEF SectionOK, AppOK, Idle, Updating
<1>4. CASE launch \notin {"off", "server"}
  <2>1. ptr["server"].next = None
    BY <1>1, <1>2, <1>4 DEF LandedOK
  <2>2. ~(Announce /\ cs.kind = "server")
    BY <1>1, <1>2, <1>3, <1>4, HolderInside DEF SectionOK, Holder, Updating
  <2>3. QED
    BY <2>1, <2>2, NextWriter, TwoKinds
<1>5. CASE launch \in {"off", "server"}
  <2>1. Holder
    BY <1>2, <1>5, StepCases, EntersFrame DEF vars, app, Elsewhere, Collects, Serves, Pages,
       Updates, GcLists, GcKeeps, GcRemoves, GcDone, GcUnchanged, Spawn, Registers, Ready,
       ServerDies, HealthyClear, PageLoads, PageFails, PageRetries, Publish, Download, Apply,
       ApplyFails, Start, Reuse, Install
  <2>2. cs.by = "launch" /\ cs' = Free /\ cs.kind = "server"
    BY <1>5, <2>1, HolderCallers DEF SectionOK, TypeOK, Sections, Kinds
  <2>3. QED
    BY <2>1, <2>2, ServerBooted
<1>6. QED
  BY <1>4, <1>5

\* How an app comes to boot its renderer: there is no server to reuse, or the reused one
\* has made way for an update.
LEMMA BootedBefore ==
    TypeOK /\ SectionOK /\ AppOK /\ [Next]_vars /\ NoBoot /\ ~NoBoot' =>
        \/ Ready /\ window = "none"
        \/ /\ Holder /\ cs' = Free /\ cs.by = "launch" /\ cs.kind = "server"
           /\ window' = "plain" /\ launch' = "renderer"
<1> HAVE TypeOK /\ SectionOK /\ AppOK /\ [Next]_vars /\ NoBoot /\ ~NoBoot'
<1>1. CASE Holder
  BY <1>1, HolderCallers DEF NoBoot, SectionOK, TypeOK, Sections, Kinds
<1>2. CASE Enters \/ Kill \/ UNCHANGED vars
  BY <1>2, EntersFrame DEF NoBoot, Kill, vars, app
<1>3. CASE Elsewhere
  BY <1>3 DEF NoBoot, Elsewhere,
     Collects, Serves, Pages, Updates, GcLists, GcKeeps, GcRemoves, GcDone, GcUnchanged,
     Spawn, Registers, Ready, ServerDies, HealthyClear, PageLoads, PageFails, PageRetries,
     Publish, Download, Apply, ApplyFails, Start, Reuse, Install, app
<1>4. QED
  BY <1>1, <1>2, <1>3, StepCases

\* A seed in the renderer's next is then the installed one; one that an earlier app left
\* is gone before an update is staged again.
SeedIsOurs ==
    IsSeed(ptr["renderer"].next) /\ ~NoBoot =>
        \/ ptr["renderer"].next = seed
        \/ /\ window = "plain" /\ launch = "renderer"
           /\ (Updating /\ cs.kind = "renderer") \/ ~IsUpdate(ptr["server"].next)

LEMMA StagedSeedIsOurs ==
    TypeOK /\ SectionOK /\ AppOK /\ PromoteOK /\ SeedNextOK /\ LandedOK /\ [Next]_vars
    => SeedIsOurs'
<1> SUFFICES ASSUME TypeOK, SectionOK, AppOK, PromoteOK, SeedNextOK, LandedOK, [Next]_vars,
                    IsSeed(ptr'["renderer"].next), ~NoBoot'
             PROVE  \/ ptr'["renderer"].next = seed'
                    \/ /\ window' = "plain" /\ launch' = "renderer"
                       /\ \/ (Updating /\ cs.kind = "renderer")'
                          \/ ~IsUpdate(ptr'["server"].next)
  BY DEF SeedIsOurs, IsSeed, IsUpdate
<1>1. CASE Announce /\ cs.kind = "renderer"
  <2>1. CASE Booting
    BY <1>1, <2>1, AnnounceEffect
  <2>2. CASE Updating
    BY <1>1, <2>2, AnnounceEffect, ReleasesAssumption DEF IsSeed
  <2>3. QED
    BY <1>1, <2>1, <2>2, HolderInside DEF Holder, Booting, Updating
<1>2. CASE ptr'["renderer"].next = ptr["renderer"].next /\ NoBoot
  <2>1. ~(Ready /\ window = "none")
    BY <1>2, TwoKinds DEF Ready, SeedNextOK, SectionOK, Booting, TypeOK, Sections, Kinds
  <2>2. /\ Holder /\ cs' = Free /\ cs.by = "launch" /\ cs.kind = "server"
        /\ window' = "plain" /\ launch' = "renderer"
    BY <1>2, <2>1, BootedBefore
  <2>3. UNCHANGED ptr /\ ptr["server"].next = None
    BY <2>2, ServerBooted
  <2>4. QED
    BY <2>2, <2>3 DEF IsUpdate
<1>3. CASE ptr'["renderer"].next = ptr["renderer"].next /\ ~NoBoot
  <2>1. seed' = seed
    BY <1>3, StepCases, EntersFrame, HolderFrame, ElsewhereCallers
    DEF Kill, vars, NoBoot, AppOK
  <2>2. CASE ptr["renderer"].next = seed
    BY <1>3, <2>1, <2>2
  <2>3. CASE /\ window = "plain" /\ launch = "renderer"
             /\ (Updating /\ cs.kind = "renderer") \/ ~IsUpdate(ptr["server"].next)
    <3>1. SeedNextOK'
      BY StepSeedNextOK
    <3>2. window' = "plain"
      BY <2>3, StepCases, EntersFrame, HolderCallers
      DEF SectionOK, vars, app, Kill, NoBoot, Elsewhere,
         Collects, Serves, Pages, Updates, GcLists, GcKeeps, GcRemoves, GcDone, GcUnchanged,
         Spawn, Registers, Ready, ServerDies, HealthyClear, PageLoads, PageFails, PageRetries,
         Publish, Download, Apply, ApplyFails, Start, Reuse, Install
    <3>3. launch' = "renderer"
      <4>1. SectionOK'
        BY StepSectionOK
      <4>2. \/ Booting' /\ cs'.kind = "renderer"
            \/ launch' \in {"off", "server", "down", "up", "renderer"}
        BY <3>1, TwoKinds DEF SeedNextOK, IsSeed
      <4>3. launch' # "off"
        BY <2>3, StepCases, EntersFrame, HolderCallers
        DEF Kill, vars, app, NoBoot, Elsewhere,
         Collects, Serves, Pages, Updates, GcLists, GcKeeps, GcRemoves, GcDone, GcUnchanged,
         Spawn, Registers, Ready, ServerDies, HealthyClear, PageLoads, PageFails, PageRetries,
         Publish, Download, Apply, ApplyFails, Start, Reuse, Install
      <4>4. QED
        BY <3>2, <4>1, <4>2, <4>3 DEF SectionOK, NoBoot, Booting
    <3>4. CASE Updating /\ cs.kind = "renderer"
      <4>1. CASE Holder /\ cs' = Free
        <5>1. Throws \/ Announce
          BY <3>4, <4>1, OtherSteps, BootsPromote, KeepsEffect, SetsEffect, ClearsEffect,
             DemoteEffect DEF Free, Updating, Booting, Promoting, Boots, SectionOK, Placing
        <5>2. CASE Throws
          BY <3>2, <3>3, <3>4, <4>1, <5>2, FailsEffect DEF Updating, IsUpdate
        <5>3. QED
          BY <1>1, <3>4, <5>1, <5>2
      <4>2. CASE ~(Holder /\ cs' = Free)
        BY <3>2, <3>3, <3>4, <4>2, StepCases, EntersFrame, HolderStays, ElsewhereFrame
        DEF Updating, Free, Kill, vars, NoBoot
      <4>3. QED
        BY <4>1, <4>2
    <3>5. CASE ~IsUpdate(ptr["server"].next)
      <4>1. CASE Announce /\ cs.kind = "server" /\ Updating
        BY <3>2, <3>3, <4>1, AnnounceEffect DEF Updating, TypeOK, Sections
      <4>2. CASE Announce /\ cs.kind = "server" /\ Booting
        BY <2>3, <4>2 DEF SectionOK, Booting
      <4>3. CASE \/ ptr'["server"].next = ptr["server"].next
                \/ ptr'["server"].next = None
        BY <3>2, <3>3, <3>5, <4>3 DEF IsUpdate
      <4>4. QED
        BY <4>1, <4>2, <4>3, NextWriter, TwoKinds, HolderInside
        DEF Holder, Booting, Updating
    <3>6. QED
      BY <2>3, <3>4, <3>5
  <2>4. QED
    BY <1>3, <2>2, <2>3 DEF LandedOK
<1>4. QED
  BY <1>1, <1>2, <1>3, NextWriter, TwoKinds DEF IsSeed

\* Nothing of it is disturbed by a step that leaves the pointers alone.
LEMMA LandedFrame ==
    UNCHANGED ptr /\ mishaps \subseteq mishaps'
    /\ quarantine["renderer"] \subseteq quarantine'["renderer"] /\ BothLanded
    /\ (~NoBoot' => ~NoBoot /\ seed' = seed) => BothLanded'
BY DEF BothLanded, Landed, IsSeed, IsUpdate

\* Nor by a boot of the server.
LEMMA LandedServer ==
    ptr'["renderer"] = ptr["renderer"] /\ UNCHANGED <<quarantine, launch, window, seed>>
    /\ mishaps \subseteq mishaps' /\ BothLanded
    /\ (ptr'["server"].next = ptr["server"].next \/ ~IsUpdate(ptr'["server"].next))
    => BothLanded'
BY DEF BothLanded, Landed, IsSeed, IsUpdate, NoBoot

\* A boot of the renderer: what it promotes is the update, or the seed over it.
LEMMA LandedRenderer ==
    TypeOK /\ SectionOK /\ AppOK /\ PromoteOK /\ QuarantineOK /\ LandedOK /\ BothLanded
    /\ Booting /\ cs.kind = "renderer"
    /\ (PromoteKeeps \/ PromoteSets \/ PromoteClears \/ Demote \/ Announce) => BothLanded'
<1> DEFINE p == ptr["renderer"]
           q == ptr'["renderer"]
           r == ptr["server"].next
<1> SUFFICES ASSUME TypeOK, SectionOK, AppOK, PromoteOK, QuarantineOK, LandedOK, BothLanded,
                    Booting, cs.kind = "renderer",
                    PromoteKeeps \/ PromoteSets \/ PromoteClears \/ Demote \/ Announce
             PROVE  BothLanded'
  OBVIOUS
<1>a. ptr'["server"] = ptr["server"]
  BY TwoKinds, KeepsEffect, SetsEffect, ClearsEffect, DemoteEffect, AnnounceEffect
<1>b. UNCHANGED <<seed, quarantine>> /\ NoBoot' = NoBoot
  BY KeepsEffect, SetsEffect, ClearsEffect, DemoteEffect, AnnounceEffect DEF app, NoBoot
<1> SUFFICES ASSUME "torn" \notin mishaps', IsUpdate(r)
             PROVE  Landed(r)' /\ (IsUpdate(q.next) => q.next = r)
  BY <1>a DEF BothLanded, IsUpdate
<1>1. "torn" \notin mishaps
  BY KeepsEffect, SetsEffect, ClearsEffect, DemoteEffect, AnnounceEffect
<1>2. Landed(r) /\ (IsUpdate(p.next) => p.next = r)
  BY <1>1 DEF BothLanded
\* At the start of the app no update is staged by then.
<1>3. ~NoBoot
  BY DEF LandedOK, Booting, SectionOK, IsUpdate, NoBoot
<1>4. IsSeed(p.next) => p.next = seed
  BY <1>3 DEF LandedOK, Booting, Updating
<1>5. /\ p.next = None \/ IsSeed(p.next) \/ IsUpdate(p.next)
      /\ p.current = None \/ IsSeed(p.current) \/ IsUpdate(p.current)
      /\ ~(IsSeed(p.current) /\ IsUpdate(p.current))
  BY SeedOrUpdate, TwoKinds DEF Slots
<1>6. CASE PromoteKeeps
  <2>1. p.next # None /\ q.current = p.current /\ q.next = p.next
        /\ q.previous = IF p.current = None THEN p.previous ELSE p.current
    BY <1>6, KeepsEffect
  <2>2. QED
    BY <1>a, <1>b, <1>2, <1>3, <1>4, <1>5, <2>1 DEF Landed, IsSeed
<1>7. CASE PromoteSets
  <2>1. p.next # None /\ (p.current # None => p.previous = p.current)
    BY <1>7, SetsEffect DEF PromoteOK
  <2>2. q.current = p.next /\ q.previous = p.previous /\ q.next = p.next
    BY <1>7, SetsEffect
  <2>3. QED
    BY <1>a, <1>b, <1>2, <1>3, <1>4, <1>5, <2>1, <2>2 DEF Landed, IsSeed, IsUpdate
<1>8. CASE PromoteClears
  <2>1. p.current = p.next
    BY <1>8, ClearsEffect DEF PromoteOK
  <2>2. q.current = p.current /\ q.previous = p.previous /\ q.next = None
    BY <1>8, ClearsEffect
  <2>3. QED
    BY <1>a, <1>b, <1>2, <1>3, <2>1, <2>2 DEF Landed, IsSeed, IsUpdate
<1>9. CASE Demote
  <2>1. p.next = None /\ (IsUpdate(p.current) => p.current.train \in quarantine["renderer"])
    BY <1>9, DemoteEffect DEF PromoteOK, QuarantineOK, Promoting
  <2>2. q.current = (IF p.previous = None THEN p.current ELSE p.previous)
        /\ q.previous = p.previous /\ q.next = p.next
    BY <1>9, DemoteEffect
  <2>3. QED
    BY <1>a, <1>b, <1>2, <1>3, <2>1, <2>2 DEF Landed, IsSeed, IsUpdate
<1>10. CASE Announce
  <2>1. p.next = None
    BY <1>10, AnnounceEffect DEF PromoteOK, Promoting
  <2>2. q.current = p.current /\ q.previous = p.previous /\ q.next = seed /\ seed.train = 0
    BY <1>10, AnnounceEffect, ReleasesAssumption DEF TypeOK
  <2>3. QED
    BY <1>a, <1>b, <1>2, <1>3, <2>1, <2>2 DEF Landed, IsSeed, IsUpdate
<1>11. QED
  BY <1>6, <1>7, <1>8, <1>9, <1>10

\* The page starts when no update is staged, and the installer's seed changes when
\* there is no page.
LEMMA ElsewhereLanded ==
    TypeOK /\ AppOK /\ LandedOK /\ BothLanded /\ Elsewhere => BothLanded'
<1> SUFFICES ASSUME TypeOK, AppOK, LandedOK, BothLanded, Elsewhere PROVE BothLanded'
  OBVIOUS
<1>1. UNCHANGED <<ptr, quarantine, cs, mishaps>>
  BY ElsewhereFrame
<1>2. CASE Ready /\ window = "none"
  BY <1>1, <1>2 DEF Ready, LandedOK, BothLanded, IsUpdate
<1>3. CASE ~(Ready /\ window = "none")
  <2>1. NoBoot => NoBoot'
    BY <1>3 DEF NoBoot, Elsewhere, Collects, Serves, Pages, Updates, GcLists, GcKeeps, GcRemoves,
       GcDone, GcUnchanged, Spawn, Registers, Ready, ServerDies, HealthyClear, PageLoads,
       PageFails, PageRetries, Publish, Download, Apply, ApplyFails, Start, Reuse, Install, app
  <2>2. ~NoBoot => seed' = seed
    BY ElsewhereCallers DEF AppOK, NoBoot
  <2>3. QED
    BY <1>1, <2>1, <2>2, LandedFrame
<1>4. QED
  BY <1>2, <1>3

LEMMA HolderLanded ==
    TypeOK /\ SectionOK /\ AppOK /\ PromoteOK /\ QuarantineOK /\ LandedOK /\ BothLanded
    /\ Holder /\ ~(Updating /\ cs.kind = "renderer") /\ ~(Announce /\ Updating)
    => BothLanded'
<1> SUFFICES ASSUME TypeOK, SectionOK, AppOK, PromoteOK, QuarantineOK, LandedOK, BothLanded,
                    Holder, ~(Updating /\ cs.kind = "renderer"), ~(Announce /\ Updating)
             PROVE  BothLanded'
  OBVIOUS
<1>1. cs.kind \in {"server", "renderer"} /\ (Booting \/ Updating)
  BY HolderInside DEF TypeOK, Sections, Kinds, Booting, Updating
<1>2. CASE PromoteKeeps \/ PromoteSets \/ PromoteClears \/ Demote \/ Announce
  <2>1. Booting
    BY <1>1, <1>2, BootsPromote DEF PromoteKeeps, PromoteSets, PromoteClears, Demote, Go,
       Promoting
  <2>2. CASE cs.kind = "renderer"
    BY <1>2, <2>1, <2>2, LandedRenderer
  <2>3. CASE cs.kind = "server"
    <3>1. ptr'["renderer"] = ptr["renderer"]
      BY <1>2, <2>3, TwoKinds, KeepsEffect, SetsEffect, ClearsEffect, DemoteEffect,
         AnnounceEffect
    <3>2. UNCHANGED <<quarantine, launch, window, seed>> /\ mishaps \subseteq mishaps'
      BY <1>2, KeepsEffect, SetsEffect, ClearsEffect, DemoteEffect, AnnounceEffect DEF app
    <3>3. ptr'["server"].next = ptr["server"].next \/ ~IsUpdate(ptr'["server"].next)
      BY <1>2, <2>1, <2>3, KeepsEffect, SetsEffect, ClearsEffect, DemoteEffect,
         AnnounceEffect, ReleasesAssumption DEF IsUpdate, TypeOK
    <3>4. QED
      BY <3>1, <3>2, <3>3, LandedServer
  <2>4. QED
    BY <1>1, <2>2, <2>3
<1>3. CASE ~PromoteKeeps /\ ~PromoteSets /\ ~PromoteClears /\ ~Demote /\ ~Announce
  <2>1. UNCHANGED <<ptr, seed, mishaps>>
    BY <1>1, <1>3, OtherSteps, FailsEffect
  <2>2. quarantine["renderer"] \subseteq quarantine'["renderer"]
    BY TwoKinds, QuarantineWriter DEF Next, Looping, TypeOK
  <2>3. CASE ~NoBoot' => ~NoBoot
    BY <2>1, <2>2, <2>3, LandedFrame
  <2>4. CASE NoBoot /\ ~NoBoot'
    <3>1. cs' = Free /\ cs.by = "launch" /\ cs.kind = "server"
      BY <1>1, <2>4, HolderCallers DEF NoBoot, SectionOK
    <3>2. ptr["server"].next = None
      BY <3>1, ServerBooted
    <3>3. QED
      BY <2>1, <3>2 DEF BothLanded, IsUpdate
  <2>5. QED
    BY <2>3, <2>4
<1>4. QED
  BY <1>2, <1>3

LEMMA StepLandedOK ==
    TypeOK /\ SectionOK /\ AppOK /\ PromoteOK /\ SeedNextOK /\ QuarantineOK /\ LandedOK
    /\ [Next]_vars => LandedOK'
<1> SUFFICES ASSUME TypeOK, SectionOK, AppOK, PromoteOK, SeedNextOK, QuarantineOK, LandedOK,
                    [Next]_vars
             PROVE  IF Updating' /\ cs'.kind = "renderer"
                    THEN ptr'["server"].next = cs'.rel
                    ELSE BothLanded'
  BY NothingStagedEarly, StagedSeedIsOurs DEF LandedOK, BothLanded, SeedIsOurs, IsSeed
<1> DEFINE Second == Updating /\ cs.kind = "renderer"
<1>1. CASE Enters
  <2>1. ~Second /\ UNCHANGED <<ptr, quarantine, mishaps, launch, window, seed>>
    BY <1>1, EntersFrame DEF disk, app, Free, Updating
  <2>2. ~Second'
    BY <1>1 DEF Enters, LaunchEnters, WindowEnters, OtaEnters, Enter, Free, Updating
  <2>3. QED
    BY <2>1, <2>2, LandedFrame DEF LandedOK, BothLanded, NoBoot
<1>2. CASE Holder /\ Second
  <2>1. ptr["server"].next = cs.rel
    BY <1>2 DEF LandedOK
  <2>2. CASE Throws
    BY <1>2, <2>2, FailsEffect DEF Free, Updating, BothLanded, IsUpdate
  <2>3. CASE Announce
    <3>1. /\ cs' = Free /\ cs.rel \in Known
          /\ ptr'["server"].next = cs.rel /\ ptr'["renderer"].next = cs.rel
      BY <1>2, <2>1, <2>3, AnnounceEffect, TwoKinds
    <3>2. QED
      BY <3>1 DEF Free, Updating, BothLanded, Landed
  <2>4. CASE ~Throws /\ ~Announce
    <3>1. ~Booting
      BY <1>2 DEF Updating, Booting
    <3>2. ~PromoteKeeps /\ ~PromoteSets /\ ~PromoteClears /\ ~Demote
      BY <3>1, BootsPromote DEF PromoteKeeps, PromoteSets, PromoteClears, Demote, Go, Promoting
    <3>3. OtaActivates \/ Aside \/ Place
      BY <1>2, <2>4, <3>1, <3>2, OtherSteps, BootsPromote DEF Promoting
    <3>4. UNCHANGED ptr /\ cs'.rel = cs.rel /\ cs' # Free
      BY <1>2, <2>4, <3>1, <3>2, OtherSteps, BootsPromote DEF Promoting, Free
    <3>5. cs'.by = cs.by /\ cs'.kind = cs.kind
      BY <1>2, <2>4, <3>4, HolderStays
    <3>6. QED
      BY <1>2, <2>1, <3>4, <3>5 DEF Updating
  <2>5. QED
    BY <2>2, <2>3, <2>4
<1>3. CASE Holder /\ ~Second
  <2>1. BothLanded
    BY <1>3 DEF LandedOK, BothLanded
  <2>2. CASE Announce /\ Updating
    <3>1. cs.kind = "server"
      BY <1>3, <2>2 DEF TypeOK, Sections, Kinds
    <3>2. /\ cs' = [cs EXCEPT !.at = "activate", !.kind = "renderer"]
          /\ ptr'["server"].next = cs.rel
      BY <2>2, <3>1, AnnounceEffect
    <3>3. cs'.by = cs.by /\ cs'.kind = "renderer" /\ cs'.rel = cs.rel
      BY <3>2 DEF TypeOK, Sections
    <3>4. QED
      BY <2>2, <3>2, <3>3 DEF Updating
  <2>3. CASE ~(Announce /\ Updating)
    <3>1. BothLanded'
      BY <1>3, <2>1, <2>3, HolderLanded
    <3>2. ~Second'
      BY <1>3, <2>3, HolderStays DEF Updating, Free
    <3>3. QED
      BY <3>1, <3>2
  <2>4. QED
    BY <2>2, <2>3
<1>4. CASE Elsewhere
  <2>1. UNCHANGED <<ptr, cs>>
    BY <1>4, ElsewhereFrame
  <2>2. CASE Second
    BY <2>1, <2>2 DEF LandedOK, Updating
  <2>3. CASE ~Second
    <3>1. BothLanded
      BY <2>3 DEF LandedOK, BothLanded
    <3>2. QED
      BY <1>4, <2>1, <2>3, <3>1, ElsewhereLanded DEF Updating
  <2>4. QED
    BY <2>2, <2>3
<1>5. CASE Kill
  <2>1. /\ cs' = Free /\ window' = "none" /\ UNCHANGED <<ptr, quarantine, seed>>
        /\ mishaps \subseteq mishaps' /\ (Updating => "torn" \in mishaps')
    BY <1>5 DEF Kill, disk, Updating
  <2>2. CASE Updating
    BY <2>1, <2>2 DEF Updating, Free, BothLanded
  <2>3. CASE ~Updating
    BY <2>1, <2>3, LandedFrame DEF LandedOK, BothLanded, Updating, Free, NoBoot
  <2>4. QED
    BY <2>2, <2>3
<1>6. CASE UNCHANGED vars
  BY <1>6, LandedFrame DEF vars, disk, app, LandedOK, BothLanded, Updating, NoBoot
<1>7. QED
  BY <1>1, <1>2, <1>3, <1>4, <1>5, <1>6, StepCases

------------------------------------------------------------------------------
(* Versions.                                                               *)

\* Only these two steps make another version current.
LEMMA CurrentWriter ==
    TypeOK /\ SectionOK /\ [Next]_vars =>
        \A k \in Kinds : \/ ptr'[k].current = ptr[k].current
                         \/ (PromoteSets \/ Demote) /\ k = cs.kind
<1> SUFFICES ASSUME TypeOK, SectionOK, [Next]_vars, NEW k \in Kinds
             PROVE  \/ ptr'[k].current = ptr[k].current
                    \/ (PromoteSets \/ Demote) /\ k = cs.kind
  OBVIOUS
<1>1. CASE PromoteKeeps \/ PromoteSets \/ PromoteClears \/ Demote
  BY <1>1, KeepsEffect, SetsEffect, ClearsEffect, DemoteEffect
<1>2. CASE Announce
  BY <1>2, AnnounceEffect
<1>3. CASE Holder /\ Throws
  BY <1>3, FailsEffect DEF Kinds
<1>4. CASE UNCHANGED ptr
  BY <1>4
<1>5. QED
  BY <1>1, <1>2, <1>3, <1>4, StepCases, PtrWriters, EntersFrame, ElsewhereFrame
  DEF vars, disk, Kill

LEMMA MishapsStay == [Next]_vars => mishaps \subseteq mishaps'
BY StepCases, EntersFrame, ElsewhereFrame DEF vars, Kill, Holder, StaysIn, SetCurrent,
   PromoteNothing, PromoteKeeps, PromoteSets, PromoteClears, NotLooping, Looping, Demote,
   Absolve, Boots, Resolved, Throws, Leaves, SeedActivates, Unpacks, OtaRefused,
   OtaActivates, Aside, AsideGone, Place, Announce

\* A directory changes to what is being put in place, or is removed.
LEMMA DirWriter ==
    TypeOK /\ SectionOK /\ [Next]_vars =>
        \A k \in Kinds, v \in Versions :
            \/ dir'[k][v] \in {None, dir[k][v]}
            \/ Place /\ cs.at = "place" /\ k = cs.kind /\ v = cs.rel.version
<1> SUFFICES ASSUME TypeOK, SectionOK, [Next]_vars, NEW k \in Kinds, NEW v \in Versions
             PROVE  \/ dir'[k][v] \in {None, dir[k][v]}
                    \/ Place /\ cs.at = "place" /\ k = cs.kind /\ v = cs.rel.version
  OBVIOUS
<1>1. CASE Aside \/ Place
  <2>1. cs.kind \in Kinds
    BY DEF TypeOK, Sections
  <2>2. CASE Aside
    BY <2>1, <2>2, DirEffect DEF Aside, Go
  <2>3. CASE Place
    <3>1. /\ cs.at = "place"
          /\ dir' = [dir EXCEPT ![cs.kind][cs.rel.version] = cs.rel.sha]
      BY <2>3 DEF Place, Go
    <3>2. QED
      BY <2>1, <2>3, <3>1, DirEffect
  <2>4. QED
    BY <1>1, <2>2, <2>3
<1>2. CASE GcRemoves
  <2>1. sweep.kind \in Kinds
    BY DEF TypeOK
  <2>2. QED
    BY <1>2, <2>1, DirEffect DEF GcRemoves
<1>3. CASE UNCHANGED dir
  BY <1>3
<1>4. Aside \/ GcRemoves \/ Place \/ UNCHANGED dir
  BY StepCases, EntersFrame DEF vars, disk, Kill, Elsewhere, Collects, Serves, Pages, Updates,
     GcLists, GcKeeps, GcDone, GcUnchanged, Spawn, Registers, Ready, ServerDies, HealthyClear,
     PageLoads, PageFails, PageRetries, Publish, Download, Apply, ApplyFails, Start, Reuse, Install,
     Holder, PromoteNothing, PromoteKeeps, PromoteSets, PromoteClears, NotLooping, Looping,
     Demote, Absolve, Boots, Resolved, Throws, SeedActivates, Unpacks, OtaRefused,
     OtaActivates, AsideGone, Announce
<1>5. QED
  BY <1>1, <1>2, <1>3, <1>4

\* A version that stays current is intact after a step only when it was before, or
\* when it was just put there.
LEMMA IntactWriter ==
    TypeOK /\ SectionOK /\ [Next]_vars =>
        \A k \in Kinds : \A r \in Known :
            dir'[k][r.version] = r.sha =>
                \/ Intact(k, r)
                \/ Place /\ cs.at = "place" /\ k = cs.kind /\ r.version = cs.rel.version
BY DirWriter, TrainsKnown DEF Intact

LEMMA UpdateAhead ==
    TypeOK /\ SectionOK /\ AppOK /\ PromoteOK /\ CurrentOK /\ ForwardOK /\ [Next]_vars =>
        (ota'.at = "staged" /\ "overtaken" \notin mishaps' =>
            \A k \in Kinds : ota'.rel.version >= ptr'[k].current.version)
<1> SUFFICES ASSUME TypeOK, SectionOK, AppOK, PromoteOK, CurrentOK, ForwardOK, [Next]_vars,
                    ota'.at = "staged", "overtaken" \notin mishaps', NEW k \in Kinds
             PROVE  ota'.rel.version >= ptr'[k].current.version
  OBVIOUS
<1>1. "overtaken" \notin mishaps
  BY MishapsStay
<1>2. CASE Download
  <2>1. UNCHANGED ptr /\ ota'.rel = shelf /\ window # "none" /\ Newer(shelf)
    BY <1>2 DEF Download, disk
  <2>2. \A j \in Kinds : ptr[j].current # None
    BY <2>1 DEF CurrentOK
  <2>3. QED
    BY <2>1, <2>2 DEF Newer
<1>3. CASE ota' = ota
  <2>1. ota.rel.version >= ptr[k].current.version
    BY <1>1, <1>3 DEF ForwardOK
  <2>2. CASE ptr'[k].current = ptr[k].current
    BY <1>3, <2>1, <2>2
  <2>3. CASE (PromoteSets \/ Demote) /\ k = cs.kind /\ ptr'[k].current # ptr[k].current
    <3>1. ~(ptr'[k].current.version > ota.rel.version)
      BY <1>3, <2>3, SetsEffect, DemoteEffect
    <3>2. ptr'[k].current \in Known \cup {None} /\ ptr'[k].current # None
      <4>1. ptr'[k].current \in Known \cup {None}
        BY PointersTyped DEF Pointers, Slots
      <4>2. QED
        BY <1>3, <4>1, CurrentStays DEF AppOK, CurrentOK, Idle
    <3>3. ota.rel \in Known
      BY <1>3, TrainsKnown DEF SectionOK, TypeOK
    <3>4. QED
      BY <1>3, <3>1, <3>2, <3>3, TrainsKnown
  <2>4. QED
    BY <2>2, <2>3, CurrentWriter
<1>4. ota' = ota \/ Download
  <2>1. CASE Holder
    BY <2>1, HolderOta, HolderInside DEF Idle, TypeOK
  <2>2. CASE ~Holder
    BY <2>2, StepCases, EntersFrame DEF vars, app, Kill, Elsewhere, Collects, Serves, Pages,
       Updates, GcLists, GcKeeps, GcRemoves, GcDone, GcUnchanged, Spawn, Registers, Ready,
       ServerDies, HealthyClear, PageLoads, PageFails, PageRetries, Publish, Apply,
       ApplyFails, Start, Reuse, Install, Idle
  <2>3. QED
    BY <2>1, <2>2
<1>5. QED
  BY <1>2, <1>3, <1>4

LEMMA StagedUpdateAhead ==
    TypeOK /\ SectionOK /\ PromoteOK /\ ForwardOK /\ [Next]_vars =>
        ("overtaken" \notin mishaps' =>
            \A k \in Kinds : IsUpdate(ptr'[k].next) /\ ptr'[k].current # None =>
                ptr'[k].next.version >= ptr'[k].current.version)
<1> SUFFICES ASSUME TypeOK, SectionOK, PromoteOK, ForwardOK, [Next]_vars,
                    "overtaken" \notin mishaps', NEW k \in Kinds, IsUpdate(ptr'[k].next),
                    ptr'[k].current # None
             PROVE  ptr'[k].next.version >= ptr'[k].current.version
  OBVIOUS
<1>1. "overtaken" \notin mishaps
  BY MishapsStay
<1>2. CASE ptr'[k].next = ptr[k].next /\ ptr'[k].current = ptr[k].current
  BY <1>1, <1>2 DEF ForwardOK, IsUpdate
<1>3. CASE PromoteSets /\ k = cs.kind
  <2>1. ptr'[k].current = ptr'[k].next
    BY <1>3, SetsEffect
  <2>2. ptr'[k].next \in Known
    BY PointersTyped DEF IsUpdate, Pointers, Slots
  <2>3. QED
    BY <2>1, <2>2, TrainsKnown
<1>4. CASE Demote /\ k = cs.kind
  BY <1>4, DemoteEffect, BootsPromote DEF PromoteOK, IsUpdate, Promoting
<1>5. CASE Announce /\ k = cs.kind
  <2>1. ptr'[k].next = cs.rel /\ ptr'[k].current = ptr[k].current /\ cs.rel.train > 0
    BY <1>5, AnnounceEffect DEF IsUpdate
  <2>2. Updating
    BY <1>5, <2>1, AnnounceEffect, HolderInside, ReleasesAssumption
    DEF Holder, Booting, Updating, TypeOK
  <2>3. QED
    BY <1>1, <2>1, <2>2 DEF ForwardOK, SectionOK
<1>6. QED
  BY <1>2, <1>3, <1>4, <1>5, CurrentWriter, NextWriter DEF IsUpdate

LEMMA StagedSeedAhead ==
    TypeOK /\ SectionOK /\ AppOK /\ PromoteOK /\ SeedNextOK /\ ForwardOK /\ [Next]_vars =>
        \A k \in Kinds : IsSeed(ptr'[k].next) /\ Intact(k, ptr[k].current)' =>
            \/ ptr'[k].next.version >= ptr'[k].current.version
            \/ "torn" \in mishaps' \/ (Updating /\ cs.kind = k /\ cs.at = "announce")'
<1> DEFINE Excused(k) ==
        "torn" \in mishaps \/ (Updating /\ cs.kind = k /\ cs.at = "announce")
<1> SUFFICES ASSUME TypeOK, SectionOK, AppOK, PromoteOK, SeedNextOK, ForwardOK, [Next]_vars,
                    NEW k \in Kinds, IsSeed(ptr'[k].next), ptr'[k].current # None,
                    dir'[k][ptr'[k].current.version] = ptr'[k].current.sha
             PROVE  ptr'[k].next.version >= ptr'[k].current.version \/ Excused(k)'
  BY DEF Intact
<1>0. ptr'[k].next \in Known /\ ptr'[k].current \in Known
  BY PointersTyped DEF IsSeed, Pointers, Slots
<1>1. CASE PromoteSets /\ k = cs.kind
  BY <1>0, <1>1, SetsEffect, TrainsKnown
<1>2. CASE Demote /\ k = cs.kind
  BY <1>2, DemoteEffect, BootsPromote DEF PromoteOK, IsSeed, Promoting
<1>3. CASE ptr'[k].current = ptr[k].current /\ ptr'[k].next = ptr[k].next
  <2>1. CASE Place /\ cs.at = "place" /\ k = cs.kind
    <3>1. ~Booting
      BY <1>3, <2>1 DEF PromoteOK, IsSeed, Promoting
    <3>2. Updating
      BY <2>1, <3>1, HolderInside DEF Holder, Booting, Updating
    <3>3. cs' = [cs EXCEPT !.at = "announce"]
      BY <2>1 DEF Place, Go
    <3>4. QED
      BY <2>1, <3>2, <3>3 DEF Updating, TypeOK, Sections
  <2>2. CASE ~(Place /\ cs.at = "place" /\ k = cs.kind)
    <3>1. Intact(k, ptr[k].current)
      BY <1>0, <1>3, <2>2, IntactWriter
    <3>2. ptr[k].next.version >= ptr[k].current.version \/ Excused(k)
      BY <1>3, <3>1 DEF ForwardOK
    <3>3. Excused(k) => Excused(k)'
      <4>1. CASE "torn" \in mishaps
        BY <4>1, MishapsStay
      <4>2. CASE Updating /\ cs.kind = k /\ cs.at = "announce"
        <5>1. CASE Holder
          <6>1. Announce
            BY <4>2, <5>1 DEF Holder, PromoteNothing, PromoteKeeps, PromoteSets, PromoteClears,
               NotLooping, Looping, Demote, Absolve, Boots, SeedActivates, OtaRefused,
               OtaActivates, Aside, AsideGone, Place, Go
          <6>2. ptr'[k].next = cs.rel /\ cs.rel.train # 0
            BY <4>2, <6>1, AnnounceEffect, ReleasesAssumption DEF SectionOK, TypeOK, Updating
          <6>3. QED
            BY <6>2 DEF IsSeed
        <5>2. CASE Kill
          BY <4>2, <5>2 DEF Kill, Updating
        <5>3. CASE ~Holder /\ ~Kill
          BY <4>2, <5>3, StepCases, EntersFrame, ElsewhereFrame DEF vars, Updating, Free
        <5>4. QED
          BY <5>1, <5>2, <5>3
      <4>3. QED
        BY <4>1, <4>2
    <3>4. QED
      BY <1>3, <3>2, <3>3
  <2>3. QED
    BY <2>1, <2>2
<1>4. CASE Announce /\ k = cs.kind
  <2>1. /\ ptr'[k].next = cs.rel /\ ptr'[k].current = ptr[k].current /\ UNCHANGED dir
        /\ cs.at = "announce"
    BY <1>4, AnnounceEffect
  <2>2. Booting
    BY <1>4, <2>1, AnnounceEffect, HolderInside, ReleasesAssumption
    DEF Holder, Booting, Updating, IsSeed
  <2>3. cs.rel = seed
    BY <1>4, <2>2, AnnounceEffect
  <2>4. QED
    BY <1>4, <2>1, <2>2, <2>3 DEF ForwardOK, Placing, Intact
<1>5. QED
  BY <1>1, <1>2, <1>3, <1>4, CurrentWriter, NextWriter DEF IsSeed

LEMMA PlacedSeedAhead ==
    TypeOK /\ SectionOK /\ AppOK /\ ForwardOK /\ [Next]_vars =>
        (Booting' /\ cs'.at \in Placing /\ Intact(cs.kind, ptr[cs.kind].current)' =>
            seed'.version >= ptr'[cs'.kind].current.version)
<1> SUFFICES ASSUME TypeOK, SectionOK, AppOK, ForwardOK, [Next]_vars, Booting', cs'.at \in Placing,
                    ptr'[cs'.kind].current # None,
                    dir'[cs'.kind][ptr'[cs'.kind].current.version] = ptr'[cs'.kind].current.sha
             PROVE  seed'.version >= ptr'[cs'.kind].current.version
  BY DEF Intact
<1>1. cs' # Free
  BY DEF Booting, Free
<1>2. ~Enters /\ ~Kill
  BY <1>1 DEF Enters, LaunchEnters, WindowEnters, OtaEnters, Enter, Free, Kill, Placing
<1>3. Booting /\ cs'.kind = cs.kind /\ cs.kind \in Kinds
  BY <1>1, <1>2, StepCases, HolderStays, ElsewhereFrame
  DEF Booting, Updating, vars, TypeOK, Sections
<1>4. seed' = seed
  BY <1>2, <1>3, StepCases, HolderFrame, ElsewhereCallers DEF vars, AppOK, Booting, Free
<1>5. CASE SeedActivates
  <2>1. /\ UNCHANGED <<ptr, dir>> /\ Intact(cs.kind, ptr[cs.kind].current)
        /\ TakesSeed(Resolve(cs.kind), cs.fallback)
    BY <1>3, <1>5 DEF SeedActivates, Unpacks, disk, Intact
  <2>2. Resolve(cs.kind) = ptr[cs.kind].current /\ ptr[cs.kind].current # None
    BY <2>1 DEF Resolve, Intact
  <2>3. seed.version > ptr[cs.kind].current.version
    BY <2>1, <2>2 DEF TakesSeed
  <2>4. ptr[cs.kind].current \in Known /\ seed \in Known
    BY <1>3, <2>2, TrainsKnown DEF TypeOK, Pointers, Slots
  <2>5. QED
    BY <1>3, <1>4, <2>1, <2>3, <2>4, TrainsKnown
<1>6. CASE ~SeedActivates
  <2>1. cs.at \in {"unpack", "place"} \/ cs' = cs
    BY <1>1, <1>2, <1>3, <1>6, StepCases, OtherSteps, ElsewhereFrame, KeepsEffect, SetsEffect,
       ClearsEffect, DemoteEffect, AnnounceEffect, BootsPromote
    DEF Placing, Throws, Leaves, OtaActivates, SectionOK, vars, Promoting
  <2>2. cs.at \in Placing
    BY <2>1 DEF Placing
  <2>3. UNCHANGED ptr
    <3>1. CASE Holder
      <4>1. ~PromoteKeeps /\ ~PromoteSets /\ ~PromoteClears /\ ~Demote
        BY <2>2, KeepsEffect, SetsEffect, ClearsEffect, DemoteEffect DEF Placing
      <4>2. ~Announce
        BY <1>3, <2>1, AnnounceEffect
      <4>3. ~Throws
        BY <1>1 DEF Throws, Leaves
      <4>4. QED
        BY <3>1, <4>1, <4>2, <4>3, PtrWriters
    <3>2. CASE ~Holder
      BY <1>2, <3>2, StepCases, ElsewhereFrame DEF vars, disk
    <3>3. QED
      BY <3>1, <3>2
  <2>4. ptr[cs.kind].current \in Known /\ seed \in Known /\ cs.rel = seed
    BY <1>3, <2>2, <2>3, TrainsKnown DEF TypeOK, Pointers, Slots, SectionOK
  <2>5. Intact(cs.kind, ptr[cs.kind].current) \/ ptr[cs.kind].current.version = seed.version
    BY <1>3, <2>3, <2>4, IntactWriter
  <2>6. QED
    BY <1>3, <1>4, <2>2, <2>3, <2>4, <2>5, TrainsKnown DEF ForwardOK
<1>7. QED
  BY <1>5, <1>6

LEMMA StepForwardOK ==
    TypeOK /\ SectionOK /\ AppOK /\ PromoteOK /\ CurrentOK /\ SeedNextOK /\ ForwardOK
    /\ [Next]_vars => ForwardOK'
BY UpdateAhead, StagedUpdateAhead, StagedSeedAhead, PlacedSeedAhead
DEF ForwardOK, IsUpdate, IsSeed

LEMMA VersionsHold ==
    TypeOK /\ SectionOK /\ PromoteOK /\ ForwardOK /\ [Next]_vars =>
        \A k \in Kinds :
            LET old == ptr[k].current
                new == ptr'[k].current
            IN  Intact(k, old) /\ new # old =>
                   \/ cs.fallback \/ "overtaken" \in mishaps
                   \/ "torn" \in mishaps /\ new.train = 0
                   \/ new.version >= old.version
<1> SUFFICES ASSUME TypeOK, SectionOK, PromoteOK, ForwardOK, [Next]_vars, NEW k \in Kinds,
                    Intact(k, ptr[k].current), ptr'[k].current # ptr[k].current,
                    ~cs.fallback, "overtaken" \notin mishaps
             PROVE  \/ "torn" \in mishaps /\ ptr'[k].current.train = 0
                    \/ ptr'[k].current.version >= ptr[k].current.version
  OBVIOUS
<1>1. ~Demote
  BY DEF Demote, Go, SectionOK
<1>2. PromoteSets /\ k = cs.kind
  BY <1>1, CurrentWriter
<1>3. ptr'[k].current = ptr[k].next /\ ptr[k].next # None /\ ptr[k].current # None
  BY <1>2, SetsEffect, BootsPromote DEF PromoteOK, Promoting, Intact
<1>4. IsSeed(ptr[k].next) \/ IsUpdate(ptr[k].next)
  BY <1>3, SeedOrUpdate DEF Slots
<1>5. cs.at = "set"
  BY <1>2 DEF PromoteSets, Go
<1>6. QED
  BY <1>3, <1>4, <1>5 DEF ForwardOK, IsSeed

------------------------------------------------------------------------------
(* What holds in every run.                                                *)

LEMMA StepAInv == AInv /\ [Next]_vars => AInv'
BY StepTypeOK, StepSectionOK, StepAppOK, StepPromoteOK, StepCurrentOK, StepSeedNextOK,
   StepServerOK, StepQuarantineOK, StepLandedOK, StepForwardOK DEF AInv

LEMMA AInvInvariant == Spec => []AInv
BY InitAInv, StepAInv, PTL DEF Spec

\* Pointers, directories, sentinels and the section have the form that the readers in
\* shared/artifact-core expect, after every write and every kill.
THEOREM TypeCorrect == Spec => []TypeOK
<1>1. AInv => TypeOK
  BY DEF AInv
<1>2. QED
  BY <1>1, AInvInvariant, PTL

\* The directory the server runs from is neither replaced by an activation nor swept
\* by the collector, whichever updates, seeds and kills meet (activation.cjs,
\* artifact-gc.cjs).
THEOREM ServerStaysIntact == Spec => []ServerIntact
<1>1. AInv => ServerIntact
  BY DEF AInv, ServerOK, ServerIntact
<1>2. QED
  BY <1>1, AInvInvariant, PTL

\* An update that was not killed half activated has both its kinds, or neither, for
\* whoever takes the mutex next (downloadAndApplyArtifacts, ota-core.cjs).
THEOREM UpdatesLandWhole == Spec => []BothOrNeither
<1>1. AInv => BothOrNeither
  <2> SUFFICES ASSUME AInv, "torn" \notin mishaps, cs.by = "nobody",
                      ptr["server"].next # None, ptr["server"].next.train > 0
               PROVE  LET staged == ptr["server"].next  mine == ptr["renderer"] IN
                      \/ \E s \in Slots : mine[s] = staged
                      \/ staged.train \in quarantine["renderer"]
                      \/ mine.current # None /\ mine.current.train = 0
                         /\ mine.previous = mine.current
    BY DEF BothOrNeither
  <2>1. BothLanded
    BY DEF AInv, LandedOK, Updating
  <2>2. Landed(ptr["server"].next)
    BY <2>1 DEF BothLanded, IsUpdate
  <2>3. QED
    BY <2>2 DEF Landed, IsSeed, Slots
<1>2. QED
  BY <1>1, AInvInvariant, PTL

\* No activation makes a quarantined train the next one, though the gates looked at the
\* quarantine before the download and outside the mutex.
THEOREM QuarantineRespected == Spec => QuarantineNotStaged
<1>1. AInv /\ [Next]_vars =>
         [\A k \in Kinds :
             LET next == ptr'[k].next IN
             next # None /\ next # ptr[k].next => next.train \notin quarantine[k]]_vars
  BY QuarantineHolds DEF AInv
<1>2. QED
  BY <1>1, AInvInvariant, PTL DEF Spec, QuarantineNotStaged

\* What a kind boots gets older only by the fallback, over a broken directory, when an
\* update was overtaken while it was downloaded, or by a seed that waited when an update
\* was killed half activated.
THEOREM VersionsGoForward == Spec => VersionForward
<1>1. AInv /\ [Next]_vars =>
         [\A k \in Kinds :
             LET old == ptr[k].current
                 new == ptr'[k].current
             IN  Intact(k, old) /\ new # old =>
                    \/ cs.fallback \/ "overtaken" \in mishaps
                    \/ "torn" \in mishaps /\ new.train = 0
                    \/ new.version >= old.version]_vars
  BY VersionsHold DEF AInv
<1>2. QED
  BY <1>1, AInvInvariant, PTL DEF Spec, VersionForward
==============================================================================
