---------------------------- MODULE InstallProofs ----------------------------
(***************************************************************************)
(* What the agent keeps on disk: one process moves the list of plugins to  *)
(* its database, for any number of processes, loads and faults; what an    *)
(* update executes is whole, for any versions, offers and crashes; and a   *)
(* registered instance has its own key, whatever fails or is killed.       *)
(***************************************************************************)
EXTENDS PluginStore, UpdatePrep, Hybrid, TLAPS

(***************************************************************************)
(* PluginStore.                                                            *)
(***************************************************************************)
Steps == {"idle", "open", "json", "exclusive", "create", "flock", "flock_new", "migrate",
          "opened"}
Holders == {"migrate", "opened"}      \* of the lock of the file
Migrators == {"flock_new", "migrate"}

StoreTyped ==
    /\ exists \in BOOLEAN /\ copies \in Nat
    /\ at \in [Processes -> Steps] /\ seen \in [Processes -> Nat \cup {-1}]
    /\ loads \in 0 .. MaxLoads /\ faults \in 0 .. MaxFaults

\* Who holds the lock holds it alone.
Locked == \A p, q \in Processes : at[p] \in Holders /\ at[q] \in Holders => p = q

\* O_EXCL: of all processes ever, one may migrate, and once.
OneMigrator ==
    /\ \A p, q \in Processes : at[p] \in Migrators /\ at[q] \in Migrators => p = q
    /\ \A p \in Processes : at[p] \in Migrators => exists /\ copies = 0
    /\ ~exists => copies = 0
    /\ copies <= 1

\* Without faults the one that may migrate is on the way to it, or has done it; nobody
\* else creates the file where there are plugins to migrate.
OnTheWay ==
    /\ Json = "plugins" /\ exists => copies > 0 \/ \E p \in Processes : at[p] \in Migrators
    /\ \A p \in Processes : Json = "plugins" /\ at[p] = "create" => exists

LEMMA StoreStep ==
    ASSUME ConstantsAssumption, StoreTyped, [Next]_vars
    PROVE  /\ StoreTyped'
           /\ Locked => Locked'
           /\ OneMigrator => OneMigrator'
<1>1. ASSUME NEW p \in Processes, Starts(p) \/ OpensExisting(p) \/ ReadsJson(p)
      PROVE  StoreTyped' /\ (Locked => Locked') /\ (OneMigrator => OneMigrator')
  BY <1>1 DEF Starts, OpensExisting, ReadsJson, Goto, StoreTyped, Steps, Locked, OneMigrator,
     Holders, Migrators, ConstantsAssumption
<1>2. ASSUME NEW p \in Processes, CreatesExclusively(p)
      PROVE  StoreTyped' /\ (Locked => Locked') /\ (OneMigrator => OneMigrator')
  BY <1>2 DEF CreatesExclusively, Goto, StoreTyped, Steps, Locked, OneMigrator,
     Holders, Migrators
<1>3. ASSUME NEW p \in Processes, Creates(p)
      PROVE  StoreTyped' /\ (Locked => Locked') /\ (OneMigrator => OneMigrator')
  BY <1>3 DEF Creates, Goto, StoreTyped, Steps, Locked, OneMigrator, Holders, Migrators
<1>4. ASSUME NEW p \in Processes, Locks(p)
      PROVE  StoreTyped' /\ (Locked => Locked') /\ (OneMigrator => OneMigrator')
  BY <1>4 DEF Locks, Unlocked, Goto, StoreTyped, Steps, Locked, OneMigrator, Holders, Migrators
<1>5. ASSUME NEW p \in Processes, Migrates(p)
      PROVE  StoreTyped' /\ (Locked => Locked') /\ (OneMigrator => OneMigrator')
  BY <1>5 DEF Migrates, Goto, StoreTyped, Steps, Locked, OneMigrator, Holders, Migrators
<1>6. ASSUME NEW p \in Processes, MigrationFails(p) \/ Finds(p) \/ Killed(p)
      PROVE  StoreTyped' /\ (Locked => Locked') /\ (OneMigrator => OneMigrator')
  BY <1>6 DEF MigrationFails, Finds, Killed, Goto, StoreTyped, Steps, Locked, OneMigrator,
     Holders, Migrators, ConstantsAssumption
<1>7. CASE UNCHANGED vars
  BY <1>7 DEF vars, StoreTyped, Locked, OneMigrator
<1> QED
  BY <1>1, <1>2, <1>3, <1>4, <1>5, <1>6, <1>7 DEF Next

LEMMA StoreInit ==
    ConstantsAssumption /\ Init => StoreTyped /\ Locked /\ OneMigrator /\ OnTheWay
<1> SUFFICES ASSUME ConstantsAssumption, Init
             PROVE  StoreTyped /\ Locked /\ OneMigrator /\ OnTheWay
  OBVIOUS
<1>1. StoreTyped
  <2>1. at \in [Processes -> Steps]
    BY DEF Init, Steps
  <2>2. seen \in [Processes -> Nat \cup {-1}]
    BY DEF Init
  <2>3. copies \in Nat /\ loads \in 0 .. MaxLoads /\ faults \in 0 .. MaxFaults
    BY DEF ConstantsAssumption, Init
  <2>4. exists \in BOOLEAN
    BY DEF Init
  <2> QED
    BY <2>1, <2>2, <2>3, <2>4 DEF StoreTyped
<1>2. Locked /\ OneMigrator /\ OnTheWay
  BY DEF Init, Locked, OneMigrator, OnTheWay, Holders, Migrators
<1> QED
  BY <1>1, <1>2

\* The plugins are migrated by one process, once, whatever the order of the steps of several
\* and whichever of them is killed or fails (LoadInstalledPlugins, step 3).
THEOREM MigrationIsOnce == ASSUME ConstantsAssumption PROVE Spec => []MigratedOnce
<1>1. OneMigrator => MigratedOnce
  BY DEF OneMigrator, MigratedOnce
<1> QED
  BY <1>1, StoreInit, StoreStep, PTL DEF Spec

\* The types, and that bolt.Open lets one process in at a time.
THEOREM StoreTypes == ASSUME ConstantsAssumption PROVE Spec => []TypeOK
<1>1. StoreTyped /\ Locked /\ OneMigrator => TypeOK
  BY DEF StoreTyped, Locked, OneMigrator, TypeOK, Steps, Holders
<1> QED
  BY <1>1, StoreInit, StoreStep, PTL DEF Spec

\* Without faults nobody finds a database that the plugins of the JSON file never reach.
THEOREM MigrationIsKept ==
    ASSUME ConstantsAssumption, MaxFaults = 0 PROVE Spec => []MigrationKeeps
<1> DEFINE Inv == StoreTyped /\ Locked /\ OneMigrator /\ OnTheWay
<1>1. Inv /\ [Next]_vars => Inv'
  <2> SUFFICES ASSUME Inv, [Next]_vars PROVE OnTheWay'
    BY StoreStep
  <2>1. CASE UNCHANGED vars
    BY <2>1 DEF vars, OnTheWay
  <2>2. ASSUME NEW p \in Processes,
               Starts(p) \/ OpensExisting(p) \/ ReadsJson(p) \/ Finds(p)
        PROVE  OnTheWay'
    BY <2>2 DEF Starts, OpensExisting, ReadsJson, Finds, Goto, StoreTyped, OnTheWay, Migrators
  <2>3. ASSUME NEW p \in Processes, CreatesExclusively(p) \/ Creates(p) PROVE OnTheWay'
    BY <2>3 DEF CreatesExclusively, Creates, Goto, StoreTyped, OnTheWay, Migrators
  <2>4. ASSUME NEW p \in Processes, Locks(p) PROVE OnTheWay'
    BY <2>4 DEF Locks, Goto, StoreTyped, OnTheWay, Migrators
  <2>5. ASSUME NEW p \in Processes, Migrates(p) PROVE OnTheWay'
    BY <2>5 DEF Migrates, Goto, StoreTyped, OnTheWay, Migrators
  <2>6. ASSUME NEW p \in Processes, MigrationFails(p) \/ Killed(p) PROVE OnTheWay'
    BY <2>6 DEF MigrationFails, Killed, StoreTyped
  <2> QED
    BY <2>1, <2>2, <2>3, <2>4, <2>5, <2>6 DEF Next
<1>2. Inv => MigrationKeeps
  BY DEF OnTheWay, MigrationKeeps, Migrators
<1>3. Init => Inv
  BY StoreInit
<1> QED
  BY <1>1, <1>2, <1>3, PTL DEF Spec

(***************************************************************************)
(* UpdatePrep.  The version that is prepared is not the one that runs, so  *)
(* that nothing which happens to the former's directory, or to those that  *)
(* are older than the latter's, is about the latter's; and an extraction   *)
(* writes good files only, for the checksum of the package was right.      *)
(***************************************************************************)
Kept == {"none", "half", "good"}
Phases == {"idle", "fetch", "local", "download", "md5", "remove", "extract", "validate",
           "execute", "new"}
Underway == Phases \ {"idle", "fetch", "new"}

PrepTyped ==
    /\ disk \in [Versions -> [Files -> Kept]]
    /\ package \in [Versions -> {"none", "bad", "good"}]
    /\ current \in Versions /\ offer \in Versions /\ target \in Versions
    /\ phase \in Phases
    /\ todo \subseteq Files /\ writing \subseteq todo
PrepBounded ==
    limit \in 0 .. MaxDownload /\ offers \in 0 .. MaxOffers /\ troubles \in 0 .. MaxTroubles

PreparesAnother == phase \in Underway => target # current
PackageIsGood == phase \in {"remove", "extract"} => package[target] = "good"
ExtractedIsGood == phase = "extract" => \A f \in Files \ todo : disk[target][f] = "good"
ReadyIsWhole == phase \in {"validate", "execute"} => Whole(target)

PrepInv == /\ PrepTyped /\ PreparesAnother /\ PackageIsGood /\ ExtractedIsGood
           /\ ReadyIsWhole /\ CurrentIsWhole

\* The steps that leave the disk alone, up to the removal of old versions.
LEMMA ChecksStep ==
    ASSUME PrepAssumption, PrepInv,
           Check \/ FetchUpdateInfo \/ Download \/ CompareFileMD5 \/ ServiceOffers \/ Crash
    PROVE  PrepInv'
<1> USE DEF PrepInv, PrepTyped, PreparesAnother, PackageIsGood, ExtractedIsGood, ReadyIsWhole,
        CurrentIsWhole, Whole, Phases, Underway
<1>1. CASE Check
  BY <1>1 DEF Check
<1>2. CASE FetchUpdateInfo
  BY <1>2 DEF FetchUpdateInfo, Proceed
<1>3. CASE Download
  BY <1>3 DEF Download, Proceed
<1>4. CASE CompareFileMD5
  BY <1>4 DEF CompareFileMD5, Ends, CleanUp
<1>5. CASE ServiceOffers
  BY <1>5 DEF ServiceOffers, check
<1>6. CASE Crash
  BY <1>6 DEF Crash
<1> QED
  BY <1>1, <1>2, <1>3, <1>4, <1>5, <1>6

\* checkLocalDirectory takes the hash file from a directory that is not whole.
LEMMA LocalStep ==
    ASSUME PrepAssumption, PrepInv, CheckLocalDirectory PROVE PrepInv'
<1>1. CASE Whole(target)
  BY <1>1 DEF CheckLocalDirectory, PrepInv, PrepTyped, PreparesAnother, PackageIsGood,
     ExtractedIsGood, ReadyIsWhole, CurrentIsWhole, Whole, Phases, Underway
<1>2. CASE ~Whole(target)
  <2>1. /\ disk' = [disk EXCEPT ![target]["hash"] = "none"]
        /\ phase' \in {"download", "idle"} /\ target # current
        /\ UNCHANGED <<package, current, offer, target, limit, todo, writing, offers>>
    BY <1>2 DEF CheckLocalDirectory, Proceed, PrepInv, PreparesAnother, Underway, Phases
  <2>2. disk' \in [Versions -> [Files -> Kept]] /\ disk'[current] = disk[current]
    BY <2>1 DEF PrepInv, PrepTyped, Files, Kept
  <2> QED
    BY <2>1, <2>2 DEF PrepInv, PrepTyped, PreparesAnother, PackageIsGood, ExtractedIsGood,
       ReadyIsWhole, CurrentIsWhole, Whole, Phases, Underway
<1> QED
  BY <1>1, <1>2

\* RemoveOldVersion spares the version that runs.
LEMMA RemoveStep ==
    ASSUME PrepAssumption, PrepInv, RemoveOldVersion PROVE PrepInv'
<1>1. disk' \in [Versions -> [Files -> Kept]] /\ disk'[current] = disk[current]
  <2>1. current \in Versions /\ ~(current < current)
    BY DEF PrepInv, PrepTyped, PrepAssumption
  <2> QED
    BY <2>1 DEF RemoveOldVersion, Removed, NoFiles, PrepInv, PrepTyped, Kept
<1>2. /\ phase = "remove" /\ UNCHANGED <<current, offer, target, writing>>
      /\ \/ phase' = "extract" /\ todo' = Files /\ UNCHANGED package
         \/ phase' = "idle" /\ UNCHANGED todo /\ CleanUp
  BY DEF RemoveOldVersion, Ends
<1> QED
  BY <1>1, <1>2 DEF CleanUp, PrepInv, PrepTyped, PreparesAnother, PackageIsGood,
     ExtractedIsGood, ReadyIsWhole, CurrentIsWhole, Whole, Phases, Underway

\* ExtractPackage writes to the directory of another version than the one that runs.
LEMMA ExtractStep ==
    ASSUME PrepAssumption, PrepInv,
           ExtractOpens \/ ExtractCopies \/ ExtractFails \/ ExtractDone
    PROVE  PrepInv'
<1>1. CASE ExtractOpens
  <2>1. PICK f \in todo : writing' = {f} /\ disk' = [disk EXCEPT ![target][f] = "half"]
    BY <1>1 DEF ExtractOpens
  <2>2. /\ phase = "extract" /\ target # current
        /\ UNCHANGED <<package, current, offer, phase, target, todo>>
    BY <1>1 DEF ExtractOpens, PrepInv, PreparesAnother, Underway, Phases
  <2>3. /\ disk' \in [Versions -> [Files -> Kept]] /\ disk'[current] = disk[current]
        /\ \A g \in Files \ {f} : disk'[target][g] = disk[target][g]
    BY <2>1, <2>2 DEF PrepInv, PrepTyped, Kept
  <2> QED
    BY <2>1, <2>2, <2>3 DEF PrepInv, PrepTyped, PreparesAnother, PackageIsGood,
       ExtractedIsGood, ReadyIsWhole, CurrentIsWhole, Whole
<1>2. CASE ExtractCopies
  <2>1. PICK f \in writing : todo' = todo \ {f} /\ writing' = {}
                             /\ disk' = [disk EXCEPT ![target][f] = "good"]
    BY <1>2 DEF ExtractCopies, PrepInv, PackageIsGood
  <2>2. /\ phase = "extract" /\ target # current
        /\ UNCHANGED <<package, current, offer, phase, target>>
    BY <1>2 DEF ExtractCopies, PrepInv, PreparesAnother, Underway, Phases
  <2>3. /\ disk' \in [Versions -> [Files -> Kept]] /\ disk'[current] = disk[current]
        /\ \A g \in Files \ {f} : disk'[target][g] = disk[target][g]
        /\ disk'[target][f] = "good"
    BY <2>1, <2>2 DEF PrepInv, PrepTyped, Kept
  <2> QED
    BY <2>1, <2>2, <2>3 DEF PrepInv, PrepTyped, PreparesAnother, PackageIsGood,
       ExtractedIsGood, ReadyIsWhole, CurrentIsWhole, Whole
<1>3. CASE ExtractFails
  BY <1>3 DEF ExtractFails, Ends, CleanUp, PrepInv, PrepTyped, PreparesAnother, PackageIsGood,
     ExtractedIsGood, ReadyIsWhole, CurrentIsWhole, Whole, Phases, Underway
<1>4. CASE ExtractDone
  BY <1>4 DEF ExtractDone, Ends, CleanUp, PrepInv, PrepTyped, PreparesAnother, PackageIsGood,
     ExtractedIsGood, ReadyIsWhole, CurrentIsWhole, Whole, Phases, Underway
<1> QED
  BY <1>1, <1>2, <1>3, <1>4

\* The new agent is validated, and the script makes it the one that runs.
LEMMA ReadyStep ==
    ASSUME PrepAssumption, PrepInv, Validate \/ ExecuteUpdateScript PROVE PrepInv'
<1> USE DEF PrepInv, PrepTyped, PreparesAnother, PackageIsGood, ExtractedIsGood, ReadyIsWhole,
        CurrentIsWhole, Whole, Phases, Underway
<1>1. CASE Validate
  BY <1>1 DEF Validate, Proceed, CleanUp
<1>2. CASE ExecuteUpdateScript
  BY <1>2 DEF ExecuteUpdateScript
<1> QED
  BY <1>1, <1>2

LEMMA PrepStep == PrepAssumption /\ PrepInv /\ [PrepNext]_prepVars => PrepInv'
<1> SUFFICES ASSUME PrepAssumption, PrepInv, [PrepNext]_prepVars PROVE PrepInv'
  OBVIOUS
<1>1. CASE UNCHANGED prepVars
  BY <1>1 DEF prepVars, check, PrepInv, PrepTyped, PreparesAnother, PackageIsGood,
     ExtractedIsGood, ReadyIsWhole, CurrentIsWhole, Whole
<1> QED
  BY <1>1, ChecksStep, LocalStep, RemoveStep, ExtractStep, ReadyStep DEF PrepNext, Step

LEMMA PrepStarts == PrepAssumption /\ PrepInit => PrepInv
  BY DEF PrepAssumption, PrepInit, PrepInv, PrepTyped, PreparesAnother, PackageIsGood,
     ExtractedIsGood, ReadyIsWhole, CurrentIsWhole, Whole, Phases, Underway, Kept

\* safeUpdate executes no script that an earlier check, a crash or a damaged package left
\* incomplete, and neither RemoveOldVersion nor an extraction touches the version that runs,
\* for any versions, any order in which the service offers them and any number of crashes.
THEOREM WhatRunsStaysWhole == ASSUME PrepAssumption PROVE PrepSpec => []WhatRunsIsWhole
<1>1. PrepInv => WhatRunsIsWhole
  BY DEF PrepInv, ReadyIsWhole, ScriptIsWhole, WhatRunsIsWhole
<1> QED
  BY <1>1, PrepStarts, PrepStep, PTL DEF PrepSpec

\* The types, and that the timeout of a download is one: what is left of the preparation, but
\* for the five seconds of a report, is not negative and within MaxDownload.
THEOREM PrepTypes == ASSUME PrepAssumption PROVE PrepSpec => []PrepTypeOK
<1>1. PrepInit => PrepBounded
  BY DEF PrepInit, PrepBounded, PrepAssumption
<1>2. PrepInv /\ PrepBounded /\ [PrepNext]_prepVars => PrepBounded'
  <2> SUFFICES ASSUME PrepInv, PrepBounded, [PrepNext]_prepVars PROVE PrepBounded'
    OBVIOUS
  <2> USE DEF PrepAssumption, PrepBounded, Trouble
  <2>1. CASE UNCHANGED prepVars
    BY <2>1 DEF prepVars, check
  <2>2. CASE Check \/ FetchUpdateInfo \/ CheckLocalDirectory \/ ServiceOffers \/ Crash
    BY <2>2 DEF Check, FetchUpdateInfo, CheckLocalDirectory, ServiceOffers, Crash, Proceed,
       check
  <2>3. CASE Download
    <3>1. PICK e \in Elapsed :
             LET time == Smaller(Preparation - e, MaxDownload) - 5
             IN  \/ phase' = "idle" /\ Trouble /\ UNCHANGED <<package, limit>>
                 \/ ~(e >= Preparation \/ time < 0) /\ limit' = time
                    /\ (Trouble \/ UNCHANGED troubles)
      BY <2>3 DEF Download, Proceed
    <3> QED
      BY <2>3, <3>1 DEF Download, Smaller
  <2>4. CASE CompareFileMD5 \/ RemoveOldVersion \/ ExtractOpens \/ ExtractCopies
    BY <2>4 DEF CompareFileMD5, RemoveOldVersion, ExtractOpens, ExtractCopies, Ends
  <2>5. CASE ExtractFails \/ ExtractDone \/ Validate \/ ExecuteUpdateScript
    BY <2>5 DEF ExtractFails, ExtractDone, Validate, ExecuteUpdateScript, Ends, Proceed
  <2> QED
    BY <2>1, <2>2, <2>3, <2>4, <2>5 DEF PrepNext, Step
<1>3. PrepInv /\ PrepBounded => PrepTypeOK
  BY DEF PrepInv, PrepTyped, PrepBounded, PrepTypeOK, Kept, Phases
<1> QED
  BY <1>1, <1>2, <1>3, PrepStarts, PrepStep, PTL DEF PrepSpec

(***************************************************************************)
(* Hybrid, where one command runs at a time.  KeyOfInstance is not         *)
(* inductive: that the keys lie there before the instance says so needs    *)
(* what each file holds while a command is at the next one, and a command  *)
(* that removes files must have told the server of this very instance.     *)
(***************************************************************************)
\* The places of the files in the two orders.
LEMMA Orders ==
    /\ Len(Order) = 6 /\ Len(Written) = 6
    /\ Order[3] = "pri-key" /\ Order[4] = "region-id" /\ Order[5] = "instance-id"
    /\ \A i \in 1 .. 6 : Order[i] \in Names /\ \A j \in 1 .. 6 : Order[i] = Order[j] => i = j
    /\ Len(RemovalOrder) = 5
    /\ \A i \in 1 .. 5 : RemovalOrder[i] \in Names /\ (RemovalOrder[i] = "instance-id" => i = 4)
    /\ RemovalOrder[5] = "machine-id"
<1>1. DOMAIN Written = 1 .. 6 /\ Len(Written) = 6
  BY DEF Written
<1>2. \A i \in 1 .. 6 : Written[i] \in Names
  BY <1>1 DEF Names
<1>3. \A i \in 1 .. 6 : \A j \in 1 .. 6 : Written[i] = Written[j] => i = j
  BY DEF Written
<1>4. Written[2] = "pub-key" /\ Written[3] = "pri-key" /\ Written[4] = "region-id"
      /\ Written[5] = "instance-id" /\ Written[6] = "machine-id"
  BY DEF Written
<1>5. {"pub-key", "pri-key", "region-id", "instance-id", "machine-id"} \subseteq Names
  BY <1>2, <1>4
<1>6. Len(RemovalOrder) = 5
      /\ \A i \in 1 .. 5 : /\ RemovalOrder[i] \in {"pub-key", "pri-key", "region-id",
                                                  "instance-id", "machine-id"}
                           /\ RemovalOrder[i] = "instance-id" => i = 4
      /\ RemovalOrder[5] = "machine-id"
  BY DEF RemovalOrder
<1> QED
  BY <1>1, <1>2, <1>3, <1>4, <1>5, <1>6 DEF Order

CmdSet == [at : {"idle", "check", "post", "create", "write", "sign", "depost", "remove"},
           reg : Absent .. MaxRegs, file : 1 .. 6]
FilesTyped ==
    /\ files \in [Names -> Absent .. MaxRegs]
    /\ server \subseteq 1 .. MaxRegs /\ regs \in 0 .. MaxRegs
    /\ failures \in 0 .. MaxFailures
    /\ registered \subseteq Empty .. MaxRegs /\ released \subseteq Absent .. MaxRegs
    /\ unwritten \subseteq Empty .. MaxRegs

\* Register comes to its files with a registration of its own, while there is no instance.
BeforeInstance(m) ==
    m.at = "post" \/ (m.at = "create" /\ m.file <= 5) \/ (m.at = "write" /\ m.file < 5)
Registering(m) ==
    /\ m.at \in {"create", "write"} => m.reg \in 1 .. MaxRegs
    /\ BeforeInstance(m) => files["instance-id"] = Absent
    /\ m.at = "write" => files[Order[m.file]] = Empty
    /\ m.at \in {"create", "write"} => \A i \in {3, 4} :
          i < m.file => files[Order[i]] = m.reg \/ m.reg \in unwritten

\* UnRegister removes the files of the instance it has told the server of.
Unregistering(m) ==
    /\ m.at = "depost" => m.file = 1 /\ m.reg = files["instance-id"]
    /\ m.at = "remove" => /\ m.file <= 5 /\ m.reg \in released
                          /\ m.file <= 4 => m.reg = files["instance-id"]

Situation(m) ==
    m \in CmdSet /\ (m.at = "idle" => m = Idle) /\ Registering(m) /\ Unregistering(m)
HybridInv ==
    /\ FilesTyped /\ cmd \in [Cmds -> CmdSet]
    /\ \A c \in Cmds : Situation(cmd[c])
    /\ KeyOfInstance

OneCommand == \A c, d \in Cmds : c = d

\* The command that takes a step is the only one.
LEMMA CommandMoves ==
    ASSUME OneCommand, cmd \in [Cmds -> CmdSet], NEW c \in Cmds, NEW m, Situation(m)',
           cmd' = [cmd EXCEPT ![c] = m], FilesTyped', KeyOfInstance'
    PROVE  HybridInv'
<1>1. m \in CmdSet
  BY DEF Situation
<1>2. cmd' \in [Cmds -> CmdSet]
  BY <1>1
<1>3. ASSUME NEW d \in Cmds PROVE cmd'[d] = m
  BY <1>3 DEF OneCommand
<1>4. ASSUME NEW d \in Cmds PROVE Situation(cmd[d])'
  BY <1>3, <1>4 DEF Situation, Registering, BeforeInstance, Unregistering
<1> QED
  BY <1>2, <1>4 DEF HybridInv

\* A command that ends or is killed disturbs nothing that the files keep.
LEMMA CommandStops ==
    ASSUME OneCommand, cmd \in [Cmds -> CmdSet], NEW c \in Cmds, MaxRegs \in Nat,
           CommandEnds(c), FilesTyped', KeyOfInstance'
    PROVE  HybridInv'
<1>1. Idle \in CmdSet /\ Idle.at = "idle"
  BY DEF Idle, CmdSet, Absent
<1>2. Situation(Idle)'
  BY <1>1 DEF Situation, Registering, BeforeInstance, Unregistering
<1> QED
  BY <1>2, CommandMoves DEF CommandEnds

\* What is written or told leaves the files of the instance in place.
LEMMA FilesStay ==
    ASSUME KeyOfInstance, UNCHANGED files, released \subseteq released',
           unwritten \subseteq unwritten'
    PROVE  KeyOfInstance'
  BY DEF KeyOfInstance, Filled

\* WriteStringToFile, whether it makes the file, writes it or fails.
LEMMA FileIsWritten ==
    ASSUME HybridAssumption, OneCommand, HybridInv, NEW c \in Cmds, CreatesFile(c) \/ Writes(c)
    PROVE  HybridInv'
<1> USE DEF Absent, Empty
<1>1. PICK a \in {"create", "write"}, r \in 1 .. MaxRegs, k \in 1 .. 6 :
          cmd[c] = [at |-> a, reg |-> r, file |-> k]
  <2>1. cmd[c] \in CmdSet /\ Registering(cmd[c])
    BY DEF HybridInv, Situation
  <2>2. cmd[c].at \in {"create", "write"}
    BY DEF CreatesFile, Writes
  <2>3. cmd[c].reg \in 1 .. MaxRegs
    BY <2>1, <2>2 DEF Registering
  <2>4. cmd[c] = [at |-> cmd[c].at, reg |-> cmd[c].reg, file |-> cmd[c].file]
        /\ cmd[c].file \in 1 .. 6
    BY <2>1 DEF CmdSet
  <2> QED
    BY <2>2, <2>3, <2>4
<1>2. MaxRegs \in Nat /\ FilesTyped /\ cmd \in [Cmds -> CmdSet]
  BY DEF HybridAssumption, HybridInv
<1>3. /\ (a = "create" /\ k <= 5) \/ (a = "write" /\ k < 5) => files["instance-id"] = -1
      /\ a = "write" => files[Order[k]] = 0
      /\ \A i \in {3, 4} : i < k => files[Order[i]] = r \/ r \in unwritten
  BY <1>1 DEF HybridInv, Situation, Registering, BeforeInstance
<1> DEFINE next == [at |-> "create", reg |-> r, file |-> k + 1]
<1>n. k < 6 => next \in CmdSet
  BY <1>2 DEF CmdSet
<1>4. GoesOn(c) => IF k < 6 THEN cmd' = [cmd EXCEPT ![c] = next] /\ UNCHANGED registered
                   ELSE CommandEnds(c) /\ registered' = registered \cup {r}
  BY <1>1, Orders DEF GoesOn
<1>5. CASE FailsToWrite(c) /\ UNCHANGED <<server, regs, released>>
  <2>1. FilesTyped' /\ KeyOfInstance'
    <3>1. /\ UNCHANGED <<files, server, regs, released>> /\ unwritten' = unwritten \cup {r}
          /\ failures < MaxFailures /\ failures' = failures + 1
          /\ registered' \in {registered, registered \cup {r}}
      BY <1>1, <1>4, <1>5 DEF FailsToWrite, Failure
    <3>2. failures' \in 0 .. MaxFailures
      BY <1>2, <3>1 DEF FilesTyped, HybridAssumption
    <3>3. FilesTyped'
      BY <1>2, <3>1, <3>2 DEF FilesTyped
    <3> QED
      BY <3>1, <3>3, FilesStay DEF HybridInv
  <2>2. CASE k < 6
    <3>1. Situation(next)'
      <4>1. Registering(next)'
        BY <1>1, <1>3, <1>5, <2>2 DEF FailsToWrite, Registering, BeforeInstance
      <4> QED
        BY <1>n, <2>2, <4>1 DEF Situation, Unregistering
    <3> HIDE DEF next
    <3> QED
      BY <1>2, <1>4, <1>5, <2>1, <2>2, <3>1, CommandMoves DEF FailsToWrite
  <2>3. CASE ~(k < 6)
    BY <1>2, <1>4, <1>5, <2>1, <2>3, CommandStops DEF FailsToWrite
  <2> QED
    BY <2>2, <2>3
<1>6. CASE a = "create" /\ CreatesFile(c) /\ ~FailsToWrite(c)
  <2> DEFINE m == [at |-> "write", reg |-> r, file |-> k]
  <2>1. /\ files' = [files EXCEPT ![Order[k]] = 0]
        /\ cmd' = [cmd EXCEPT ![c] = m]
        /\ UNCHANGED <<server, regs, failures, registered, released, unwritten>>
    <3>1. [cmd[c] EXCEPT !.at = "write"] = m
      BY <1>1
    <3>2. [cmd EXCEPT ![c].at = "write"] = [cmd EXCEPT ![c] = [cmd[c] EXCEPT !.at = "write"]]
      BY <1>2
    <3> HIDE DEF m
    <3> QED
      BY <1>1, <1>6, <3>1, <3>2 DEF CreatesFile, Goes
  <2>2. FilesTyped'
    BY <1>2, <2>1, Orders DEF FilesTyped
  <2>3. \A i \in 1 .. 6 : files'[Order[i]] = IF i = k THEN 0 ELSE files[Order[i]]
    BY <1>2, <2>1, Orders DEF FilesTyped
  <2>4. KeyOfInstance'
    BY <1>3, <1>6, <2>1, <2>3, Orders DEF HybridInv, KeyOfInstance, Filled
  <2>5. Registering(m)'
    BY <1>3, <1>6, <2>1, <2>3, Orders DEF Registering, BeforeInstance
  <2>6. Situation(m)'
    BY <1>2, <2>5 DEF Situation, Unregistering, CmdSet
  <2> HIDE DEF m
  <2> QED
    BY <1>2, <2>1, <2>2, <2>4, <2>6, CommandMoves
<1>7. CASE a = "write" /\ Writes(c) /\ ~FailsToWrite(c)
  <2>1. /\ files' = [files EXCEPT ![Order[k]] = r] /\ GoesOn(c)
        /\ UNCHANGED <<server, regs, failures, released, unwritten>>
    BY <1>1, <1>7 DEF Writes
  <2>2. FilesTyped'
    <3>1. files' \in [Names -> -1 .. MaxRegs]
      BY <1>2, <2>1, Orders DEF FilesTyped
    <3>2. registered' \subseteq 0 .. MaxRegs
      <4>1. registered' \in {registered, registered \cup {r}}
        BY <1>4, <2>1
      <4> QED
        BY <1>2, <4>1 DEF FilesTyped
    <3> QED
      BY <1>2, <2>1, <3>1, <3>2 DEF FilesTyped
  <2>3. \A i \in 1 .. 6 : files'[Order[i]] = IF i = k THEN r ELSE files[Order[i]]
    BY <1>2, <2>1, Orders DEF FilesTyped
  <2>4. KeyOfInstance'
    BY <1>3, <1>7, <2>1, <2>3, Orders DEF HybridInv, KeyOfInstance, Filled
  <2>5. CASE k < 6
    <3>1. Registering(next)'
      BY <1>3, <1>7, <2>1, <2>3, <2>5, Orders DEF Registering, BeforeInstance
    <3>2. Situation(next)'
      BY <1>n, <2>5, <3>1 DEF Situation, Unregistering
    <3> HIDE DEF next
    <3> QED
      BY <1>2, <1>4, <2>1, <2>2, <2>4, <2>5, <3>2, CommandMoves
  <2>6. CASE ~(k < 6)
    BY <1>2, <1>4, <2>1, <2>2, <2>4, <2>6, CommandStops
  <2> QED
    BY <2>5, <2>6
<1> QED
  BY <1>1, <1>5, <1>6, <1>7 DEF CreatesFile, Writes

\* clean_unregister_data.
LEMMA FileIsRemoved ==
    ASSUME HybridAssumption, OneCommand, HybridInv, NEW c \in Cmds, Removes(c)
    PROVE  HybridInv'
<1> USE DEF Absent, Empty
<1>0. MaxRegs \in Nat /\ FilesTyped /\ cmd \in [Cmds -> CmdSet] /\ Situation(cmd[c])
  BY DEF HybridAssumption, HybridInv
<1>1. PICK r \in -1 .. MaxRegs, k \in 1 .. 5 : cmd[c] = [at |-> "remove", reg |-> r, file |-> k]
  <2>1. cmd[c].at = "remove" /\ cmd[c].file <= 5
    BY <1>0 DEF Removes, Situation, Unregistering
  <2>2. /\ cmd[c] = [at |-> cmd[c].at, reg |-> cmd[c].reg, file |-> cmd[c].file]
        /\ cmd[c].reg \in -1 .. MaxRegs /\ cmd[c].file \in 1 .. 6
    BY <1>0 DEF CmdSet, Situation
  <2> QED
    BY <2>1, <2>2
<1>2. r \in released /\ (k <= 4 => r = files["instance-id"])
  BY <1>0, <1>1 DEF Situation, Unregistering
<1> DEFINE next == [at |-> "remove", reg |-> r, file |-> k + 1]
<1>3. IF k < 5 THEN cmd' = [cmd EXCEPT ![c] = next] ELSE CommandEnds(c)
  <2>1. [cmd[c] EXCEPT !.file = @ + 1] = next
    BY <1>1
  <2>2. [cmd EXCEPT ![c].file = @ + 1] = [cmd EXCEPT ![c] = [cmd[c] EXCEPT !.file = @ + 1]]
    BY <1>0
  <2> HIDE DEF next
  <2> QED
    BY <1>1, <2>1, <2>2, Orders DEF Removes
<1>4. /\ \/ files' = [files EXCEPT ![RemovalOrder[k]] = -1] /\ failures' = failures
         \/ UNCHANGED files /\ failures < MaxFailures /\ failures' = failures + 1
      /\ UNCHANGED <<server, regs, registered, released, unwritten>>
  BY <1>1 DEF Removes, Failure, history
<1>5. FilesTyped'
  <2>1. failures' \in 0 .. MaxFailures
    BY <1>0, <1>4 DEF FilesTyped, HybridAssumption
  <2>2. files' \in [Names -> -1 .. MaxRegs]
    BY <1>0, <1>4, Orders DEF FilesTyped
  <2> QED
    BY <1>0, <1>4, <2>1, <2>2 DEF FilesTyped
<1>6. \A f \in Names : files'[f] = files[f] \/ (f = RemovalOrder[k] /\ files'[f] = -1)
  BY <1>0, <1>4, Orders DEF FilesTyped
<1>7. {"instance-id", "pri-key", "region-id"} \subseteq Names
  BY Orders
<1>8. KeyOfInstance'
  <2>1. CASE k <= 4
    BY <1>2, <1>4, <1>6, <1>7, <2>1 DEF HybridInv, KeyOfInstance, Filled
  <2>2. CASE k = 5
    BY <1>4, <1>6, <1>7, <2>2, Orders DEF HybridInv, KeyOfInstance, Filled
  <2> QED
    BY <2>1, <2>2
<1>9. CASE k < 5
  <2>1. Unregistering(next)'
    BY <1>2, <1>4, <1>6, <1>7, <1>9, Orders DEF Unregistering
  <2>2. Situation(next)'
    BY <1>9, <2>1 DEF Situation, Registering, BeforeInstance, CmdSet
  <2> HIDE DEF next
  <2> QED
    BY <1>0, <1>3, <1>5, <1>8, <1>9, <2>2, CommandMoves
<1>10. CASE ~(k < 5)
  BY <1>0, <1>3, <1>5, <1>8, <1>10, CommandStops
<1> QED
  BY <1>9, <1>10

\* The requests to the server, and what comes before them.
LEMMA CommandAsks ==
    ASSUME HybridAssumption, OneCommand, HybridInv, NEW c \in Cmds,
           Run(c) \/ Checks(c) \/ Posts(c) \/ Signs(c) \/ Deposts(c) \/ CommandCrashes(c)
    PROVE  HybridInv'
<1> USE DEF Absent, Empty
<1>0. MaxRegs \in Nat /\ FilesTyped /\ cmd \in [Cmds -> CmdSet] /\ Situation(cmd[c])
  BY DEF HybridAssumption, HybridInv
<1>1. PICK a \in {"idle", "check", "post", "create", "write", "sign", "depost", "remove"},
           r \in -1 .. MaxRegs, k \in 1 .. 6 : cmd[c] = [at |-> a, reg |-> r, file |-> k]
  BY <1>0 DEF Situation, CmdSet
<1>2. UNCHANGED files
  BY DEF Run, Runs, Checks, Posts, Signs, Deposts, CommandCrashes
<1>3. released \subseteq released' /\ UNCHANGED unwritten
  BY DEF Run, Runs, Checks, Posts, Signs, Deposts, CommandCrashes, history
<1>4. KeyOfInstance'
  BY <1>2, <1>3, FilesStay DEF HybridInv
<1>5. FilesTyped'
  <2>1. regs' \in 0 .. MaxRegs /\ server' \subseteq 1 .. MaxRegs
    BY <1>0 DEF FilesTyped, Run, Runs, Checks, Posts, Signs, Deposts, CommandCrashes
  <2>2. failures' \in 0 .. MaxFailures
    BY <1>0 DEF FilesTyped, HybridAssumption, Failure, Run, Runs, Checks, Posts, Signs, Deposts,
       CommandCrashes
  <2>3. released' \subseteq -1 .. MaxRegs /\ UNCHANGED registered
    BY <1>0, <1>1 DEF FilesTyped, Run, Runs, Checks, Posts, Signs, Deposts, CommandCrashes,
       history
  <2> QED
    BY <1>0, <1>2, <1>3, <2>1, <2>2, <2>3 DEF FilesTyped
<1>6. ASSUME NEW b, [cmd[c] EXCEPT !.at = b] = [at |-> b, reg |-> r, file |-> k]
      PROVE  [cmd EXCEPT ![c].at = b] = [cmd EXCEPT ![c] = [at |-> b, reg |-> r, file |-> k]]
  BY <1>0, <1>6
<1>7. ASSUME NEW b, Goes(c, b)
      PROVE  cmd' = [cmd EXCEPT ![c] = [at |-> b, reg |-> r, file |-> k]]
  <2>1. [cmd[c] EXCEPT !.at = b] = [at |-> b, reg |-> r, file |-> k]
    BY <1>1
  <2> QED
    BY <1>6, <1>7, <2>1 DEF Goes
<1>8. CASE CommandEnds(c)
  BY <1>0, <1>4, <1>5, <1>8, CommandStops
<1>9. ASSUME NEW b \in {"check", "sign", "post"}, Goes(c, b),
             b = "post" => files["instance-id"] = -1
      PROVE  HybridInv'
  <2> DEFINE m == [at |-> b, reg |-> r, file |-> k]
  <2>1. Situation(m)'
    BY <1>2, <1>9 DEF Situation, Registering, BeforeInstance, Unregistering, CmdSet
  <2>2. cmd' = [cmd EXCEPT ![c] = m]
    BY <1>7, <1>9
  <2> HIDE DEF m
  <2> QED
    BY <1>0, <1>4, <1>5, <2>1, <2>2, CommandMoves
<1>10. CASE Run(c) \/ Checks(c) \/ CommandCrashes(c)
  BY <1>8, <1>9, <1>10 DEF Run, Runs, Checks, CommandCrashes, IsHybrid
<1>11. CASE Posts(c) /\ ~CommandEnds(c)
  <2>1. cmd' = [cmd EXCEPT ![c] = [at |-> "create", reg |-> regs + 1, file |-> 1]]
        /\ cmd[c].at = "post" /\ regs < MaxRegs
    BY <1>11 DEF Posts
  <2>2. regs + 1 \in 1 .. MaxRegs
    BY <1>0, <2>1 DEF FilesTyped
  <2> PICK n \in 1 .. MaxRegs : n = regs + 1
    BY <2>2
  <2>3. files["instance-id"] = -1
    BY <1>0, <2>1 DEF Situation, Registering, BeforeInstance
  <2> DEFINE m == [at |-> "create", reg |-> n, file |-> 1]
  <2>4. Situation(m)'
    BY <1>0, <1>2, <2>3 DEF Situation, Registering, BeforeInstance, Unregistering, CmdSet
  <2>5. cmd' = [cmd EXCEPT ![c] = m]
    BY <2>1
  <2> HIDE DEF m
  <2> QED
    BY <1>0, <1>4, <1>5, <2>4, <2>5, CommandMoves
<1>12. CASE Signs(c)
  <2>1. files["instance-id"] \in -1 .. MaxRegs
    BY <1>0, Orders DEF FilesTyped
  <2> PICK n \in -1 .. MaxRegs : n = files["instance-id"]
    BY <2>1
  <2> DEFINE m == [at |-> "depost", reg |-> n, file |-> 1]
  <2>2. cmd' = [cmd EXCEPT ![c] = m]
    BY <1>12 DEF Signs
  <2>3. Situation(m)'
    BY <1>2, <2>1 DEF Situation, Registering, BeforeInstance, Unregistering, CmdSet
  <2> HIDE DEF m
  <2> QED
    BY <1>0, <1>4, <1>5, <2>2, <2>3, CommandMoves
<1>13. CASE Deposts(c) /\ ~CommandEnds(c)
  <2> DEFINE m == [at |-> "remove", reg |-> r, file |-> k]
  <2>1. Goes(c, "remove") /\ released' = released \cup {r} /\ cmd[c].at = "depost"
    BY <1>1, <1>13 DEF Deposts, Goes
  <2>2. cmd' = [cmd EXCEPT ![c] = m]
    BY <1>7, <2>1
  <2>3. k = 1 /\ r = files["instance-id"]
    BY <1>0, <1>1, <2>1 DEF Situation, Unregistering
  <2>4. Situation(m)'
    BY <1>2, <2>1, <2>3 DEF Situation, Registering, BeforeInstance, Unregistering, CmdSet
  <2> HIDE DEF m
  <2> QED
    BY <1>0, <1>4, <1>5, <2>2, <2>4, CommandMoves
<1> QED
  BY <1>8, <1>10, <1>11, <1>12, <1>13

LEMMA HybridStep ==
    ASSUME HybridAssumption, OneCommand, HybridInv, [HybridNext]_hybridVars PROVE HybridInv'
<1>1. ASSUME NEW c \in Cmds, Run(c) \/ Register(c) \/ UnRegister(c) \/ CommandCrashes(c)
      PROVE  HybridInv'
  BY <1>1, CommandAsks, FileIsWritten, FileIsRemoved DEF Register, UnRegister
<1>2. CASE UNCHANGED hybridVars
  BY <1>2 DEF hybridVars, HybridInv, FilesTyped, Situation, Registering, BeforeInstance,
     Unregistering, KeyOfInstance, Filled
<1> QED
  BY <1>1, <1>2 DEF HybridNext

LEMMA HybridStarts == HybridAssumption /\ HybridInit => HybridInv
<1> SUFFICES ASSUME HybridAssumption, HybridInit PROVE HybridInv
  OBVIOUS
<1> USE DEF Absent, Empty
<1>1. Idle \in CmdSet
  BY DEF HybridAssumption, Idle, CmdSet
<1>2. FilesTyped
  BY DEF HybridAssumption, HybridInit, FilesTyped
<1>3. KeyOfInstance
  BY Orders DEF HybridInit, KeyOfInstance, Filled
<1>4. Situation(Idle)
  BY <1>1 DEF Situation, Registering, BeforeInstance, Unregistering, Idle
<1> QED
  BY <1>1, <1>2, <1>3, <1>4 DEF HybridInit, HybridInv

\* Whatever is killed, cannot be written or removed, or gets no answer, and whenever:
\* what signs for an instance is the key it was registered with (Register, UnRegister),
\* provided that commands do not run at a time.
THEOREM InstanceHasItsKey ==
    ASSUME HybridAssumption, OneCommand PROVE HybridSpec => []KeyOfInstance
<1>1. HybridInv => KeyOfInstance
  BY DEF HybridInv
<1>2. HybridInit => HybridInv
  BY HybridStarts
<1>3. HybridInv /\ [HybridNext]_hybridVars => HybridInv'
  BY HybridStep
<1> QED
  BY <1>1, <1>2, <1>3, PTL DEF HybridSpec

\* The files hold registrations that the server gave, and a command is at one of them.
THEOREM HybridTypes ==
    ASSUME HybridAssumption, OneCommand PROVE HybridSpec => []HybridTypeOK
<1>1. HybridInv => HybridTypeOK
  BY Orders DEF HybridInv, FilesTyped, Situation, CmdSet, HybridTypeOK
<1>2. HybridInit => HybridInv
  BY HybridStarts
<1>3. HybridInv /\ [HybridNext]_hybridVars => HybridInv'
  BY HybridStep
<1> QED
  BY <1>1, <1>2, <1>3, PTL DEF HybridSpec

\* Register never takes the place of an instance that the server still has ("error, agent
\* already register, deregister first"), provided that commands do not run at a time.
THEOREM RegistrationIsKept ==
    ASSUME HybridAssumption, OneCommand PROVE HybridSpec => NoneReplaced
<1> DEFINE KeepsInstance == files["instance-id"] \in server =>
                        files'["instance-id"] \in {files["instance-id"], Absent}
<1>1. ASSUME HybridInv, NEW c \in Cmds, CreatesFile(c) \/ Writes(c) PROVE KeepsInstance
  <2> USE DEF Absent, Empty
  <2>1. /\ FilesTyped /\ cmd[c] \in CmdSet /\ Registering(cmd[c])
        /\ cmd[c].at \in {"create", "write"}
    BY <1>1 DEF HybridInv, Situation, CreatesFile, Writes
  <2>2. PICK k \in 1 .. 6 : cmd[c].file = k
    BY <2>1 DEF CmdSet
  <2>3. \/ UNCHANGED files
        \/ \E x : files' = [files EXCEPT ![Order[k]] = x]
    BY <1>1, <2>2 DEF CreatesFile, Writes, FailsToWrite
  <2>4. CASE k = 5
    <3>1. files["instance-id"] \in {-1, 0}
      BY <2>1, <2>2, <2>4, Orders DEF Registering, BeforeInstance
    <3>2. files["instance-id"] \notin server
      BY <2>1, <3>1 DEF FilesTyped
    <3> QED
      BY <3>2
  <2>5. CASE k # 5
    BY <2>1, <2>3, <2>5, Orders DEF FilesTyped
  <2> QED
    BY <2>4, <2>5
<1>2. ASSUME HybridInv, NEW c \in Cmds, Removes(c) PROVE KeepsInstance
  BY <1>2, Orders DEF HybridInv, FilesTyped, Situation, Unregistering, Removes
<1>3. ASSUME NEW c \in Cmds,
             Run(c) \/ Checks(c) \/ Posts(c) \/ Signs(c) \/ Deposts(c) \/ CommandCrashes(c)
      PROVE  UNCHANGED files
  BY <1>3 DEF Run, Runs, Checks, Posts, Signs, Deposts, CommandCrashes
<1>4. HybridInv /\ HybridNext => KeepsInstance
  BY <1>1, <1>2, <1>3 DEF HybridNext, Register, UnRegister
<1>5. HybridInv /\ [HybridNext]_hybridVars => [KeepsInstance]_hybridVars
  BY <1>4
<1>6. HybridInit => HybridInv
  BY HybridStarts
<1>7. HybridInv /\ [HybridNext]_hybridVars => HybridInv'
  BY HybridStep
<1>8. NoneReplaced <=> [][KeepsInstance]_hybridVars
  BY DEF NoneReplaced
<1> HIDE DEF KeepsInstance
<1> QED
  BY <1>5, <1>6, <1>7, <1>8, PTL DEF HybridSpec

\* Both: an instance and its key stay together, and are not replaced (hybrid.go).
THEOREM InstanceStays ==
    ASSUME HybridAssumption, OneCommand PROVE HybridSpec => InstanceIsKept
BY InstanceHasItsKey, RegistrationIsKept, PTL DEF InstanceIsKept
=============================================================================
