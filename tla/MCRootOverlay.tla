---------------------------- MODULE MCRootOverlay ----------------------------
(* Instances of RootOverlay with the programs of RootScripts.              *)
EXTENDS RootOverlay, RootScripts

AllItems ==
  ToSet(IntelKexts \o IntelBundles \o StagedIntel \o GVA \o PolarisItems
        \o StagedAccel \o AlignedItems \o AuxStashNames)
AllStaged  == ToSet(StagedIntel \o StagedAccel)
AllSources == {"BigSur", "Monterey", "11.7.10", "13.5.2", "12.5", "12.5-23",
               "stash", "aligned"}

\* Bundles of every kind the scripts treat alike: Intel and AMD kexts, their copies
\* in /Library, user-space bundles, a framework, a controller, a stashed plug-in.
SomeItems  == {"AppleIntelFramebufferCapri", "L/AppleIntelFramebufferCapri",
               "AppleIntelGraphicsShared", "AppleGVA", "AMDRadeonX4000",
               "L/AMDRadeonX4000", "AMDMTLBronzeDriver", "AMDShared", "AMDSupport",
               "AMDRadeonX4000HWLibs"}

\* The complete programs follow the rules of RootOverlay, not only their commands
\* on SomeItems.
ASSUME CompleteProgramsAssumption ==
  \A s \in ScriptNames : LET P == ScriptProgram(s) IN
    /\ SavesFirst(P, AllItems \ AllStaged) /\ CopiesOnce(P) /\ BlessesLast(P)
    /\ CopiesWhatItWrites(P) /\ FinishesBundles(P)

SystemItems == Items \ AllStaged

Relevant(c) == c.item \in Items \cup {NoItem}
ProgramOf   == [s \in Scripts |-> SelectSeq(ScriptProgram(s), Relevant)]
NeedsOf     == [s \in Scripts |-> ScriptNeeds(s) \cap Items]
StashOf     == [s \in Scripts |->
                  SelectSeq(ScriptStashNames(s), LAMBDA i : i \in Items)]

StashWith(S, owner) ==
  [dir |-> "present", owner |-> [i \in Items |-> IF i \in S THEN owner ELSE "none"]]

\* No stash, or one that holds every auxiliary kext.
FullStashes == {NoStash, StashWith(Items, "user"), StashWith(Items, "root")}
\* ... or one that lacks the Intel kexts.
AnyStashes == FullStashes \cup {StashWith(ToSet(AccelKexts), "user")}
=============================================================================
