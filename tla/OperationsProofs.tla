---------------------------- MODULE OperationsProofs ----------------------------
(***************************************************************************)
(* Proofs about what operates the system and what judges its logs:         *)
(* ModelStore, Launcher, Seed, Scorer and LogIntake, for every number of   *)
(* trainings, list of containers, size of the seed's data, anomaly score   *)
(* and port.  The five do not interact; each has its own variables here,   *)
(* and the names of the instances of MCTelemetry.                          *)
(***************************************************************************)
EXTENDS Integers, Sequences, FiniteSets, FiniteSetTheorems, TLAPS

CONSTANTS
    MaxTrainings,                                   \* of ModelStore
    Container, MaxStarts,                           \* of Launcher
    Seeded, Guest, Key, Amount, MaxRows, MaxRuns,   \* of Seed
    Estimate, DestPort,                             \* of Scorer
    RawPort, GivenType, Claimed, Outlier            \* of LogIntake

VARIABLES
    phase, memory, loaded, disk, step, trainings, broken,
    docker, container, app, start, at, stop, starts, overlap, survived,
    users, settings, keys, rows, stage, left, runs, disturbed,
    event,
    entry, reached, threat, alarm

Models == INSTANCE ModelStore

Launch == INSTANCE Launcher

Seeding == INSTANCE Seed

Scores == INSTANCE Scorer WITH
    Anomaly <- Estimate, Port <- DestPort, Threshold <- 60, log <- event

Intake == INSTANCE LogIntake WITH
    Given <- GivenType, Anomaly <- Outlier, log <- entry, stage <- reached, alert <- alarm

-------------------------------------------------------------------------------
(* The steps of a training that are done: the parts fitted so far are of   *)
(* the training under way, and so are, once it saves, the files written.   *)
TrainingIsUnderWay ==
    /\ step # 0 => trainings \in Models!Training
    /\ \A i \in 1..4 : i < step => memory[Models!FitOrder[i]] = trainings
    /\ \A i \in 1..4 : i + 4 < step => disk[Models!SaveOrder[i]] = trainings

(* Between trainings the files are of one training, or there are none,     *)
(* unless a save was cut short since one ended.                            *)
DiskIsOneTraining ==
    "disk" \notin broken /\ ~Models!Saving => \A p, q \in Models!Part : disk[p] = disk[q]

FilesFit ==
    /\ Models!ModelTypeOK
    /\ phase = "down" => ~loaded /\ step = 0
    /\ TrainingIsUnderWay
    /\ DiskIsOneTraining
    /\ Models!UncutIsOneTraining

-------------------------------------------------------------------------------
(* Both orders name every part once. *)
LEMMA Orders ==
    /\ Models!Part = {"scaler", "forest", "svm", "meta"}
    /\ Models!FitOrder[1] = "scaler" /\ Models!FitOrder[2] = "forest"
    /\ Models!FitOrder[3] = "svm" /\ Models!FitOrder[4] = "meta"
    /\ Models!SaveOrder[1] = "forest" /\ Models!SaveOrder[2] = "svm"
    /\ Models!SaveOrder[3] = "scaler" /\ Models!SaveOrder[4] = "meta"
<1>1. /\ Models!FitOrder[1] = "scaler" /\ Models!FitOrder[2] = "forest"
      /\ Models!FitOrder[3] = "svm" /\ Models!FitOrder[4] = "meta"
  BY DEF Models!FitOrder
<1>2. 1..4 = {1, 2, 3, 4}
  OBVIOUS
<1>3. Models!Part = {"scaler", "forest", "svm", "meta"}
  BY <1>1, <1>2 DEF Models!Part
<1>4. QED
  BY <1>1, <1>3 DEF Models!SaveOrder

LEMMA FilesInit == ASSUME MaxTrainings \in Nat PROVE Models!Init => FilesFit
<1> SUFFICES ASSUME Models!Init PROVE FilesFit
  OBVIOUS
<1>1. Models!ModelTypeOK
  <2>1. loaded \in BOOLEAN
    BY DEF Models!Init
  <2>2. QED
    BY <2>1 DEF Models!Init, Models!ModelTypeOK
<1>2. TrainingIsUnderWay /\ DiskIsOneTraining
  BY DEF Models!Init, TrainingIsUnderWay, DiskIsOneTraining
<1>3. QED
  BY <1>1, <1>2 DEF Models!Init, FilesFit, Models!UncutIsOneTraining

(* What Load leaves: a detector that counts as loaded holds the files.     *)
LEMMA LoadedFiles ==
    ASSUME Models!ModelTypeOK, Models!Load
    PROVE  /\ memory' \in [Models!Part -> Models!Training \cup {Models!None, Models!Unfitted}]
           /\ loaded' \in BOOLEAN
           /\ broken' \subseteq {"memory", "disk"}
           /\ "disk" \in broken' <=> "disk" \in broken
           /\ "disk" \in broken => "memory" \in broken'
           /\ loaded' => memory' = disk /\ \A p \in Models!Part : disk[p] \in Models!Training
<1> DEFINE there == \A p \in Models!Part : disk[p] # Models!None
<1>1. ASSUME NEW p \in Models!Part, NEW i \in 1..4, p = Models!SaveOrder[i], Models!Readable(i)
      PROVE  disk[p] # Models!Torn
  BY <1>1 DEF Models!Readable
<1>2. memory' \in [Models!Part -> Models!Training \cup {Models!None, Models!Unfitted}]
  BY <1>1 DEF Models!Load, Models!ModelTypeOK
<1>3. loaded' => there /\ \A i \in 1..4 : disk[Models!SaveOrder[i]] # Models!Torn
  BY DEF Models!Load, Models!Readable
<1>4. \A p \in Models!Part : \E i \in 1..4 : p = Models!SaveOrder[i]
  BY Orders
<1>5. loaded' => \A p \in Models!Part : disk[p] \in Models!Training
  BY <1>3, <1>4 DEF Models!ModelTypeOK
<1>6. loaded' => \A i \in 1..4 : Models!Readable(i)
  BY <1>3 DEF Models!Readable
<1>7. loaded' => memory' = [p \in Models!Part |-> disk[p]]
  BY <1>3, <1>4, <1>6 DEF Models!Load
<1>8. loaded' => memory' = disk
  BY <1>7 DEF Models!ModelTypeOK
<1>9. QED
  BY <1>2, <1>5, <1>8 DEF Models!Load, Models!ModelTypeOK

LEMMA LifespanKeeps == ASSUME MaxTrainings \in Nat, FilesFit, Models!Start PROVE FilesFit'
<1> USE DEF FilesFit
<1>1. /\ phase = "down" /\ step = 0 /\ Models!Load /\ disk' = disk
      /\ IF loaded' THEN phase' = "serving" /\ step' = step /\ trainings' = trainings
                    ELSE phase' = "starting" /\ Models!Begin
  BY DEF Models!Start
<1>2. Models!ModelTypeOK'
  BY <1>1, LoadedFiles DEF Models!ModelTypeOK, Models!Begin, Models!Training
<1>3. TrainingIsUnderWay'
  BY <1>1, Orders DEF TrainingIsUnderWay, Models!Begin, Models!Training, Models!ModelTypeOK
<1>4. DiskIsOneTraining'
  BY <1>1, LoadedFiles DEF DiskIsOneTraining, Models!Saving, Models!Begin, Models!ModelTypeOK
<1>5. Models!UncutIsOneTraining'
  <2> SUFFICES ASSUME loaded', step' = 0, "memory" \notin broken'
               PROVE  /\ \E t \in Models!Training : \A p \in Models!Part : memory'[p] = t
                      /\ memory' = disk'
    BY <1>1, LoadedFiles DEF Models!UncutIsOneTraining
  <2>1. memory' = disk /\ \A p \in Models!Part : disk[p] \in Models!Training
    BY <1>1, LoadedFiles
  <2>2. \A p, q \in Models!Part : disk[p] = disk[q]
    BY <1>1, LoadedFiles DEF DiskIsOneTraining, Models!Saving
  <2>3. QED
    BY <1>1, <2>1, <2>2, Orders
<1>6. QED
  BY <1>1, <1>2, <1>3, <1>4, <1>5

LEMMA TrainKeeps == ASSUME MaxTrainings \in Nat, FilesFit, Models!TrainModels PROVE FilesFit'
  BY DEF FilesFit, Models!ModelTypeOK, Models!TrainModels, Models!Begin, TrainingIsUnderWay, DiskIsOneTraining,
         Models!UncutIsOneTraining, Models!Saving, Models!Training

LEMMA FitKeeps == ASSUME FilesFit, Models!Fit PROVE FilesFit'
<1> USE DEF FilesFit
<1>1. /\ step \in 1..4 /\ step' = step + 1 /\ trainings' = trainings /\ trainings \in Models!Training
      /\ Models!FitOrder[step] \in Models!Part
      /\ memory' = [memory EXCEPT ![Models!FitOrder[step]] = trainings]
      /\ phase' = phase /\ loaded' = loaded /\ disk' = disk
  BY DEF Models!Fit, Models!Fitting, TrainingIsUnderWay, Models!Part
<1>2. Models!ModelTypeOK'
  BY <1>1 DEF Models!ModelTypeOK, Models!Fit
<1>3. TrainingIsUnderWay'
  <2>1. \A i \in 1..4 : i < step => Models!FitOrder[i] # Models!FitOrder[step]
    BY <1>1, Orders
  <2>2. ASSUME NEW i \in 1..4, i < step' PROVE memory'[Models!FitOrder[i]] = trainings'
    BY <1>1, <2>1, <2>2 DEF TrainingIsUnderWay, Models!ModelTypeOK, Models!Part
  <2>3. QED
    BY <1>1, <2>2 DEF TrainingIsUnderWay
<1>4. DiskIsOneTraining'
  BY <1>1 DEF DiskIsOneTraining, Models!Saving, Models!Fit
<1>5. QED
  BY <1>1, <1>2, <1>3, <1>4 DEF Models!UncutIsOneTraining, Models!ModelTypeOK

LEMMA SaveKeeps == ASSUME FilesFit, Models!Save PROVE FilesFit'
<1> USE DEF FilesFit
<1>1. /\ step \in 5..8 /\ trainings' = trainings /\ trainings \in Models!Training
      /\ memory' = memory /\ Models!SaveOrder[step - 4] \in Models!Part
      /\ \A p \in Models!Part : memory[p] = trainings
      /\ step' = IF step < 8 THEN step + 1 ELSE 0
  BY Orders DEF Models!Save, Models!Saving, TrainingIsUnderWay
<1>2. disk' = [disk EXCEPT ![Models!SaveOrder[step - 4]] = trainings]
  BY <1>1 DEF Models!Save
<1>3. Models!ModelTypeOK'
  <2>1. loaded' \in BOOLEAN
    BY DEF Models!ModelTypeOK, Models!Save
  <2>2. broken' \subseteq {"memory", "disk"}
    BY DEF Models!ModelTypeOK, Models!Save
  <2>3. /\ phase' \in {"down", "starting", "serving"}
        /\ phase' = "starting" => step' # 0
    BY <1>1 DEF Models!ModelTypeOK, Models!Save
  <2>4. disk' \in [Models!Part -> Models!Training \cup {Models!None, Models!Torn}]
    BY <1>1, <1>2 DEF Models!ModelTypeOK
  <2>5. QED
    BY <1>1, <2>1, <2>2, <2>3, <2>4 DEF Models!ModelTypeOK
<1>4. ASSUME NEW i \in 1..4, i + 4 <= step PROVE disk'[Models!SaveOrder[i]] = trainings
  <2>1. Models!SaveOrder[i] \in Models!Part
    BY Orders
  <2>2. i + 4 < step => disk[Models!SaveOrder[i]] = trainings
    BY DEF TrainingIsUnderWay
  <2>3. QED
    BY <1>1, <1>2, <1>4, <2>1, <2>2 DEF Models!ModelTypeOK
<1>5. TrainingIsUnderWay'
  BY <1>1, <1>4, Orders DEF TrainingIsUnderWay
<1>6. step = 8 => \A p \in Models!Part : disk'[p] = trainings
  BY <1>4, Orders
<1>7. DiskIsOneTraining'
  BY <1>1, <1>6 DEF DiskIsOneTraining, Models!Saving
<1>8. step = 8 => memory' = disk'
  BY <1>1, <1>3, <1>6 DEF Models!ModelTypeOK
<1>9. Models!UncutIsOneTraining'
  BY <1>1, <1>8 DEF Models!UncutIsOneTraining
<1>10. QED
  BY <1>1, <1>3, <1>5, <1>7, <1>9 DEF Models!Save

(* A save that is cut short spoils one file at most, and is noted. *)
LEMMA CutShortFiles ==
    ASSUME Models!ModelTypeOK, Models!CutShort
    PROVE  /\ disk' \in [Models!Part -> Models!Training \cup {Models!None, Models!Torn}]
           /\ broken' \subseteq {"memory", "disk"}
           /\ broken \subseteq broken'
           /\ Models!Saving => "disk" \in broken'
           /\ ~Models!Saving => disk' = disk /\ broken' = broken
  BY DEF Models!ModelTypeOK, Models!CutShort

LEMMA RaisesKeeps == ASSUME FilesFit, Models!Raises PROVE FilesFit'
<1> USE DEF FilesFit
<1>1. /\ step # 0 /\ step' = 0 /\ trainings' = trainings
  BY DEF Models!Raises
<1>2. CASE phase = "starting"
  <2>1. Models!End /\ Models!CutShort
    BY <1>2 DEF Models!Raises
  <2>2. Models!ModelTypeOK'
    <3>1. loaded' \in BOOLEAN
      BY <2>1 DEF Models!End
    <3>2. QED
      BY <1>1, <2>1, <3>1, CutShortFiles DEF Models!ModelTypeOK, Models!End
  <2>3. DiskIsOneTraining'
    BY <1>1, <2>1, CutShortFiles DEF DiskIsOneTraining, Models!Saving
  <2>4. QED
    BY <1>1, <2>1, <2>2, <2>3 DEF Models!End, TrainingIsUnderWay, Models!UncutIsOneTraining
<1>3. CASE phase # "starting" /\ Models!Fitting
  <2>1. /\ phase' = phase /\ loaded' = loaded /\ disk' = disk
        /\ broken' = broken \cup {"memory"} /\ ~Models!Saving
    BY <1>3 DEF Models!Raises, Models!Fitting, Models!Saving, Models!ModelTypeOK
  <2>2. memory' \in [Models!Part -> Models!Training \cup {Models!None, Models!Unfitted}]
    BY <1>3 DEF Models!Raises, Models!ModelTypeOK
  <2>3. Models!ModelTypeOK'
    BY <1>1, <1>3, <2>1, <2>2 DEF Models!ModelTypeOK
  <2>4. QED
    BY <1>1, <1>3, <2>1, <2>3
       DEF TrainingIsUnderWay, Models!UncutIsOneTraining, DiskIsOneTraining, Models!Saving, Models!ModelTypeOK
<1>4. CASE phase # "starting" /\ ~Models!Fitting
  <2>1. /\ phase' = phase /\ loaded' = loaded /\ memory' = memory /\ Models!CutShort /\ Models!Saving
    BY <1>1, <1>4 DEF Models!Raises, Models!Fitting, Models!Saving, Models!ModelTypeOK
  <2>2. \A p \in Models!Part : memory[p] = trainings
    BY <2>1, Orders DEF TrainingIsUnderWay, Models!Saving
  <2>3. Models!ModelTypeOK'
    BY <1>1, <1>4, <2>1, CutShortFiles DEF Models!ModelTypeOK
  <2>4. trainings \in Models!Training /\ "disk" \in broken'
    BY <1>1, <2>1, CutShortFiles DEF TrainingIsUnderWay
  <2>5. QED
    BY <1>1, <1>4, <2>1, <2>2, <2>3, <2>4
       DEF TrainingIsUnderWay, Models!UncutIsOneTraining, DiskIsOneTraining
<1>5. QED
  BY <1>2, <1>3, <1>4

LEMMA CrashKeeps == ASSUME FilesFit, Models!Crash PROVE FilesFit'
<1> USE DEF FilesFit
<1>1. /\ Models!End /\ Models!CutShort /\ step' = 0 /\ trainings' = trainings
  BY DEF Models!Crash
<1>2. Models!ModelTypeOK'
  <2>1. loaded' \in BOOLEAN
    BY <1>1 DEF Models!End
  <2>2. QED
    BY <1>1, <2>1, CutShortFiles DEF Models!ModelTypeOK, Models!End
<1>3. DiskIsOneTraining'
  BY <1>1, CutShortFiles DEF DiskIsOneTraining, Models!Saving
<1>4. QED
  BY <1>1, <1>2, <1>3 DEF Models!End, TrainingIsUnderWay, Models!UncutIsOneTraining

LEMMA FilesNext ==
    ASSUME MaxTrainings \in Nat PROVE FilesFit /\ [Models!Next]_(Models!vars) => FilesFit'
<1> SUFFICES ASSUME FilesFit, [Models!Next]_(Models!vars) PROVE FilesFit'
  OBVIOUS
<1>1. CASE UNCHANGED Models!vars
  BY <1>1 DEF Models!vars, FilesFit, Models!ModelTypeOK, TrainingIsUnderWay, DiskIsOneTraining,
              Models!UncutIsOneTraining, Models!Saving
<1>2. QED
  BY <1>1, LifespanKeeps, TrainKeeps, FitKeeps, SaveKeeps, RaisesKeeps, CrashKeeps DEF Models!Next

(* No part is of a later training than the last, and a training that is    *)
(* under way, or was cut short, has not yet placed its statistics.         *)
MetaIsLast ==
    /\ \A p \in Models!Part : memory[p] <= trainings /\ disk[p] <= trainings
    /\ Models!Fitting => memory["meta"] # trainings
    /\ step # 0 => disk["meta"] # trainings
    /\ Models!NewestIsWhole(memory) /\ Models!NewestIsWhole(disk)
    /\ loaded => \A p \in Models!Part : memory[p] # Models!None

LEMMA MetaInit == ASSUME MaxTrainings \in Nat, Models!Init PROVE MetaIsLast
  BY Orders DEF Models!Init, MetaIsLast, Models!None, Models!NewestIsWhole, Models!Fitting

LEMMA MetaNext ==
    ASSUME MaxTrainings \in Nat, FilesFit, MetaIsLast, [Models!Next]_(Models!vars) PROVE MetaIsLast'
<1> USE DEF FilesFit, MetaIsLast, Models!NewestIsWhole, Models!None, Models!Torn, Models!Unfitted
<1>0. trainings \in Nat /\ "meta" \in Models!Part
  BY Orders DEF Models!ModelTypeOK
<1>1. CASE UNCHANGED Models!vars
  BY <1>1 DEF Models!vars, Models!Fitting
<1>2. CASE Models!Start
  <2>1. Models!Load /\ step = 0 /\ disk' = disk
    BY <1>2 DEF Models!Start
  <2>2. \A p \in Models!Part : memory'[p] \in {disk[p], 0}
    BY <2>1 DEF Models!Load
  <2>3. loaded' => memory' = disk /\ \A p \in Models!Part : disk[p] # 0
    BY <2>1, LoadedFiles DEF Models!Training
  <2>4. CASE loaded'
    BY <1>0, <1>2, <2>1, <2>3, <2>4 DEF Models!Start, Models!Fitting
  <2>5. CASE ~loaded'
    <3>1. trainings' = trainings + 1 /\ step' = 1
      BY <1>2, <2>5 DEF Models!Start, Models!Begin
    <3>2. \A p \in Models!Part : /\ memory'[p] <= trainings' /\ memory'[p] # trainings'
                                     /\ disk'[p] <= trainings' /\ disk'[p] # trainings'
      BY <1>0, <2>1, <2>2, <3>1 DEF Models!ModelTypeOK, Models!Training
    <3> QED BY <1>0, <2>5, <3>2
  <2> QED BY <2>4, <2>5
<1>3. CASE Models!TrainModels
  <2>1. /\ trainings' = trainings + 1 /\ memory' = memory /\ disk' = disk /\ loaded' = loaded
    BY <1>3 DEF Models!TrainModels, Models!Begin
  <2>2. \A p \in Models!Part : /\ memory'[p] <= trainings' /\ memory'[p] # trainings'
                                   /\ disk'[p] <= trainings' /\ disk'[p] # trainings'
    BY <1>0, <2>1 DEF Models!ModelTypeOK, Models!Training
  <2>3. \A p \in Models!Part : loaded' => memory'[p] # Models!None
    BY <2>1
  <2> QED BY <1>0, <2>2, <2>3
<1>4. CASE Models!Fit
  <2>1. /\ step \in 1..4 /\ step' = step + 1 /\ trainings' = trainings /\ disk' = disk
        /\ loaded' = loaded /\ memory' = [memory EXCEPT ![Models!FitOrder[step]] = trainings]
    BY <1>4 DEF Models!Fit, Models!Fitting
  <2>2. trainings # 0
    BY <1>4 DEF Models!Fit, Models!Fitting, TrainingIsUnderWay, Models!Training
  <2>3. step = 4 => \A p \in Models!Part : memory'[p] = trainings
    BY <2>1, Orders DEF TrainingIsUnderWay, Models!ModelTypeOK
  <2>4. step # 4 => memory'["meta"] = memory["meta"]
    BY <2>1, Orders DEF Models!ModelTypeOK
  <2>5. \A p \in Models!Part : memory'[p] \in {memory[p], trainings}
    BY <2>1 DEF Models!ModelTypeOK
  <2> QED BY <1>0, <2>1, <2>2, <2>3, <2>4, <2>5 DEF Models!Fitting
<1>5. CASE Models!Save
  <2>1. /\ step \in 5..8 /\ trainings' = trainings /\ memory' = memory
        /\ step' = IF step < 8 THEN step + 1 ELSE 0
    BY <1>5 DEF Models!Save, Models!Saving
  <2>2. \A p \in Models!Part : memory[p] = trainings
    BY <2>1, Orders DEF TrainingIsUnderWay
  <2>3. trainings # 0
    BY <2>1 DEF TrainingIsUnderWay, Models!Training
  <2>4. disk' = [disk EXCEPT ![Models!SaveOrder[step - 4]] = trainings]
    <3>1. disk' = [disk EXCEPT ![Models!SaveOrder[step - 4]] = memory[Models!SaveOrder[step - 4]]]
      BY <1>5 DEF Models!Save
    <3>2. Models!SaveOrder[step - 4] \in Models!Part
      BY <2>1, Orders
    <3> QED BY <2>2, <3>1, <3>2
  <2>5. step = 8 => \A p \in Models!Part : disk'[p] = trainings
    BY <2>1, <2>4, Orders DEF TrainingIsUnderWay, Models!ModelTypeOK
  <2>6. step # 8 => disk'["meta"] = disk["meta"]
    BY <2>1, <2>4, Orders DEF Models!ModelTypeOK
  <2>7. \A p \in Models!Part : disk'[p] \in {disk[p], trainings}
    BY <2>4 DEF Models!ModelTypeOK
  <2> QED BY <1>0, <2>1, <2>2, <2>3, <2>5, <2>6, <2>7 DEF Models!Fitting
<1>6. ASSUME Models!CutShort, step # 0
      PROVE  \A p \in Models!Part : disk'[p] = disk[p] \/ (disk'[p] = Models!Torn /\ disk["meta"] # trainings)
  BY <1>6 DEF Models!CutShort, Models!ModelTypeOK
<1>7. ASSUME Models!CutShort, step = 0 PROVE disk' = disk
  BY <1>7 DEF Models!CutShort, Models!Saving
<1>8. CASE Models!End /\ Models!CutShort /\ step' = 0 /\ trainings' = trainings
  <2>1. \A p \in Models!Part : memory'[p] = 0 /\ ~loaded'
    BY <1>8 DEF Models!End
  <2>2. ~Models!Fitting'
    BY <1>8 DEF Models!Fitting
  <2>3. trainings # 0 \/ \A p \in Models!Part : disk[p] <= 0
    BY <1>0
  <2> QED BY <1>0, <1>6, <1>7, <1>8, <2>1, <2>2
<1>9. CASE Models!Raises /\ phase # "starting"
  <2>1. step # 0 /\ step' = 0 /\ trainings' = trainings /\ loaded' = loaded
    BY <1>9 DEF Models!Raises
  <2>2. trainings # 0
    BY <2>1 DEF TrainingIsUnderWay, Models!Training
  <2>3. CASE Models!Fitting
    <3>1. disk' = disk /\ memory' = IF step = 4 THEN memory
                                   ELSE [memory EXCEPT ![Models!FitOrder[step]] = Models!Unfitted]
      BY <1>9, <2>3 DEF Models!Raises
    <3>2. memory'["meta"] = memory["meta"]
      BY <2>3, <3>1, Orders DEF Models!ModelTypeOK, Models!Fitting
    <3>3. \A p \in Models!Part : memory'[p] \in {memory[p], -1}
      BY <3>1 DEF Models!ModelTypeOK
    <3> QED BY <1>0, <2>1, <2>2, <2>3, <3>1, <3>2, <3>3 DEF Models!Fitting
  <2>4. CASE ~Models!Fitting
    BY <1>0, <1>6, <1>9, <2>1, <2>4 DEF Models!Raises, Models!Fitting
  <2> QED BY <2>3, <2>4
<1> QED BY <1>1, <1>2, <1>3, <1>4, <1>5, <1>8, <1>9 DEF Models!Next, Models!Raises, Models!Crash

ModelInv == FilesFit /\ MetaIsLast

LEMMA ModelInit == ASSUME MaxTrainings \in Nat PROVE Models!Init => ModelInv
  BY FilesInit, MetaInit DEF ModelInv

LEMMA ModelNext ==
    ASSUME MaxTrainings \in Nat PROVE ModelInv /\ [Models!Next]_(Models!vars) => ModelInv'
  BY FilesNext, MetaNext DEF ModelInv

-------------------------------------------------------------------------------
(* The detector's state, its files and the steps of a training have their  *)
(* types (anomaly_detector.py).                                            *)
THEOREM ModelTypeCorrect == ASSUME MaxTrainings \in Nat PROVE Models!Spec => []Models!ModelTypeOK
<1>1. ModelInv => Models!ModelTypeOK
  BY DEF ModelInv, FilesFit
<1>2. QED
  BY ModelInit, ModelNext, <1>1, PTL DEF Models!Spec

(* Wherever trainings were cut short: every part predict asserts is there, *)
(* the statistics of the newest training come with the parts of no other   *)
(* one, in memory as in the files, and a loaded detector is of one         *)
(* training and the one a restart would load unless a training was cut     *)
(* short since one ended (anomaly_detector.py, main.py).                   *)
THEOREM OneTrainingLoaded ==
    ASSUME MaxTrainings \in Nat PROVE Models!Spec => []Models!LoadedIsOneTraining
<1>1. ModelInv => Models!LoadedIsOneTraining
  BY DEF ModelInv, FilesFit, MetaIsLast, Models!LoadedIsOneTraining
<1>2. QED
  BY ModelInit, ModelNext, <1>1, PTL DEF Models!Spec

-------------------------------------------------------------------------------
(* Launcher.  A run of the start script opens one window of each; it still *)
(* will while it is at these steps.                                        *)
Before(a) ==
    {"docker", "compose", "containers", "backend"} \cup
        (IF a = "backend" THEN {} ELSE {"wait backend", "frontend"})

WindowsCounted ==
    \A a \in Launch!App :
        /\ app[a].windows <= starts
        /\ start \in Before(a) => app[a].windows < starts

(* Only the daemon, which nobody ends, keeps containers. *)
ContainersNeedDocker ==
    docker # "on" => \A c \in Launch!Containers : container[c] = "down"

(* The steps of the stop script after the windows of an app are closed.    *)
Closed(a) ==
    {a, "docker", "done"} \cup (IF a = "backend" THEN {} ELSE {"backend window", "backend"})

(* A stop that nothing overlaps keeps what it has achieved, and what it    *)
(* has not achieved is noted.                                              *)
StopProgress ==
    stop # "idle" /\ ~overlap =>
        /\ start = "idle"
        /\ \A a \in Launch!App \ survived :
              stop \in Closed(a) =>
                  /\ app[a].windows = 0
                  /\ stop # a => app[a] = Launch!Idle
        /\ stop = "done" => \A c \in Launch!Containers \ survived : container[c] = "down"

LaunchInv ==
    /\ Launch!LauncherTypeOK
    /\ WindowsCounted
    /\ ContainersNeedDocker
    /\ StopProgress

LaunchAssumption == Container \in Seq(Launch!Containers) /\ MaxStarts \in Nat

LEMMA LaunchInit == ASSUME LaunchAssumption PROVE Launch!Init => LaunchInv
<1> SUFFICES ASSUME Launch!Init PROVE LaunchInv
  OBVIOUS
<1>1. Launch!LauncherTypeOK
  <2>1. overlap \in BOOLEAN
    BY DEF Launch!Init
  <2>2. at \in 1..Len(Container) + 1
    BY DEF Launch!Init, LaunchAssumption
  <2>3. app \in [Launch!App -> [windows : 0..MaxStarts, listener : Launch!Listener]]
    BY DEF Launch!Init, Launch!Idle, Launch!Listener, LaunchAssumption
  <2> QED BY <2>1, <2>2, <2>3 DEF Launch!Init, Launch!LauncherTypeOK, LaunchAssumption
<1>2. WindowsCounted
  BY DEF WindowsCounted, Before, Launch!Init, Launch!Idle, Launch!App
<1> QED BY <1>1, <1>2 DEF LaunchInv, ContainersNeedDocker, StopProgress, Launch!Init

(* What is known of an app. *)
LEMMA AppTyped ==
  ASSUME LaunchAssumption, LaunchInv, NEW a \in Launch!App
  PROVE  /\ app[a].windows \in Nat /\ starts \in Nat /\ MaxStarts \in Nat
         /\ app[a].windows <= starts /\ starts <= MaxStarts
         /\ app[a].listener \in Launch!Listener
         /\ app[a] = [windows |-> app[a].windows, listener |-> app[a].listener]
<1>1. /\ app[a] \in [windows : 0..MaxStarts, listener : Launch!Listener]
      /\ starts \in 0..MaxStarts /\ MaxStarts \in Nat
  BY DEF LaunchInv, Launch!LauncherTypeOK, LaunchAssumption
<1>2. app[a].windows <= starts
  BY DEF LaunchInv, WindowsCounted
<1> QED BY <1>1, <1>2

(* What a step of one app leaves. *)
LEMMA AppBecomes ==
  ASSUME LaunchAssumption, LaunchInv, NEW a \in Launch!App, NEW w, NEW l,
         Launch!Becomes(a, w, l), w \in Nat, w <= starts, l \in Launch!Listener
  PROVE  /\ app' \in [Launch!App -> [windows : 0..MaxStarts, listener : Launch!Listener]]
         /\ app'[a] = [windows |-> w, listener |-> l]
         /\ app'[a].windows = w
         /\ \A b \in Launch!App : b # a => app'[b] = app[b]
<1>1. app \in [Launch!App -> [windows : 0..MaxStarts, listener : Launch!Listener]]
  BY DEF LaunchInv, Launch!LauncherTypeOK
<1>2. w \in 0..MaxStarts
  <2>1. starts \in Nat /\ MaxStarts \in Nat /\ starts <= MaxStarts
    BY AppTyped
  <2> QED BY <2>1
<1>3. [windows |-> w, listener |-> l] \in [windows : 0..MaxStarts, listener : Launch!Listener]
  BY <1>2
<1> QED BY <1>1, <1>3 DEF Launch!Becomes

(* A step that opens no window and goes back to no step before one.        *)
LEMMA CountKept ==
  ASSUME WindowsCounted, starts' = starts, starts \in Nat, start' = start,
         \A a \in Launch!App : /\ app'[a].windows <= app[a].windows
                               /\ app'[a].windows \in Nat /\ app[a].windows \in Nat
  PROVE  WindowsCounted'
<1> SUFFICES ASSUME NEW a \in Launch!App
             PROVE  /\ app'[a].windows <= starts'
                    /\ start' \in Before(a) => app'[a].windows < starts'
  BY DEF WindowsCounted
<1>1. /\ app[a].windows <= starts
      /\ start \in Before(a) => app[a].windows < starts
  BY DEF WindowsCounted
<1> QED BY <1>1

(* A step of the machine: a daemon that comes up, a container that heals,   *)
(* an app that listens, ends or is started by hand.                        *)
LEMMA MachineKeeps ==
  ASSUME LaunchAssumption, LaunchInv,
         \/ Launch!DockerUp \/ \E c \in Launch!Containers : Launch!Heal(c)
         \/ \E a \in Launch!App : Launch!Listens(a) \/ Launch!Ends(a) \/ Launch!ByHand(a)
  PROVE  LaunchInv'
<1>0. /\ Launch!LauncherTypeOK /\ WindowsCounted /\ ContainersNeedDocker /\ StopProgress
      /\ starts \in 0..MaxStarts /\ MaxStarts \in Nat
  BY DEF LaunchInv, Launch!LauncherTypeOK, LaunchAssumption
<1>1. CASE Launch!DockerUp
  <2>1. Launch!LauncherTypeOK'
    BY <1>0, <1>1 DEF Launch!DockerUp, Launch!LauncherTypeOK
  <2> QED BY <1>0, <1>1, <2>1 DEF LaunchInv, Launch!DockerUp, WindowsCounted,
       ContainersNeedDocker, StopProgress
<1>2. ASSUME NEW c \in Launch!Containers, Launch!Heal(c) PROVE LaunchInv'
  <2>1. Launch!LauncherTypeOK'
    BY <1>0, <1>2 DEF Launch!Heal, Launch!LauncherTypeOK
  <2>2. docker = "on"
    BY <1>0, <1>2 DEF Launch!Heal, ContainersNeedDocker
  <2>3. stop = "done" /\ ~overlap => c \in survived
    BY <1>0, <1>2 DEF Launch!Heal, StopProgress
  <2> QED BY <1>0, <1>2, <2>1, <2>2, <2>3 DEF LaunchInv, Launch!Heal, WindowsCounted,
       ContainersNeedDocker, StopProgress
<1>3. ASSUME NEW a \in Launch!App, NEW w, NEW l, Launch!Becomes(a, w, l),
             w \in Nat, w <= app[a].windows, l \in Launch!Listener,
             UNCHANGED <<docker, container, start, at, stop, starts, survived>>,
             overlap' \in BOOLEAN,
             overlap' \/ (overlap' = overlap
                            /\ (stop # "idle" /\ stop \in Closed(a) => w < app[a].windows \/ l = "none"))
      PROVE  LaunchInv'
  <2>0. app[a].windows \in Nat /\ starts \in Nat /\ app[a].windows <= starts
    BY AppTyped
  <2>1. w <= starts /\ app[a].windows \in Nat
    BY <1>3, <2>0
  <2>2. Launch!LauncherTypeOK'
    BY <1>0, <1>3, <2>1, AppBecomes DEF Launch!LauncherTypeOK
  <2>3. WindowsCounted'
    <3>1. \A b \in Launch!App : app[b].windows \in Nat
      BY AppTyped
    <3>2. /\ app'[a].windows = w
          /\ \A b \in Launch!App : b # a => app'[b] = app[b]
      BY <1>3, <2>1, AppBecomes
    <3>3. \A b \in Launch!App : /\ app'[b].windows <= app[b].windows
                                /\ app'[b].windows \in Nat
      BY <1>3, <3>1, <3>2
    <3> QED BY <1>0, <1>3, <2>0, <3>1, <3>3, CountKept
  <2>4. StopProgress'
    <3> SUFFICES ASSUME stop # "idle", ~overlap'
                 PROVE  /\ start = "idle"
                        /\ \A b \in Launch!App \ survived : stop \in Closed(b) =>
                              app'[b].windows = 0 /\ (stop # b => app'[b] = Launch!Idle)
                        /\ stop = "done" => \A c \in Launch!Containers \ survived : container[c] = "down"
      BY <1>3 DEF StopProgress
    <3>1. ~overlap
      BY <1>3
    <3>2. /\ start = "idle"
          /\ \A b \in Launch!App \ survived : stop \in Closed(b) =>
                app[b].windows = 0 /\ (stop # b => app[b] = Launch!Idle)
          /\ stop = "done" => \A c \in Launch!Containers \ survived : container[c] = "down"
      BY <1>0, <3>1 DEF StopProgress
    <3>3. stop \in Closed(a) /\ a \notin survived => w = 0 /\ l = "none"
      BY <1>3, <3>2
    <3>4. /\ app'[a] = [windows |-> w, listener |-> l] /\ app'[a].windows = w
          /\ \A b \in Launch!App : b # a => app'[b] = app[b]
      BY <1>3, <2>1, AppBecomes
    <3> QED BY <3>2, <3>3, <3>4 DEF Launch!Idle
  <2> QED BY <1>0, <1>3, <2>2, <2>3, <2>4 DEF LaunchInv, ContainersNeedDocker
<1>4. ASSUME NEW a \in Launch!App, Launch!Listens(a) PROVE LaunchInv'
  <2>0. app[a].windows \in Nat /\ app[a].listener \in Launch!Listener
    BY AppTyped
  <2>1. app[a].windows - 1 \in Nat /\ app[a].windows - 1 < app[a].windows
    BY <1>4, <2>0 DEF Launch!Listens
  <2>2. overlap' \in BOOLEAN
    BY <1>0, <1>4 DEF Launch!Listens, Launch!LauncherTypeOK
  <2>3. (IF app[a].listener = "none" THEN "window" ELSE app[a].listener) \in Launch!Listener
    BY <2>0 DEF Launch!Listener
  <2>4. overlap' = overlap
    BY <1>4 DEF Launch!Listens
  <2>5. app[a].windows - 1 <= app[a].windows
    BY <2>0
  <2> QED BY <1>3, <1>4, <2>1, <2>2, <2>3, <2>4, <2>5 DEF Launch!Listens
<1>5. ASSUME NEW a \in Launch!App, Launch!Ends(a) PROVE LaunchInv'
  <2>a. app[a].windows \in Nat
    BY AppTyped
  <2>0. app[a].windows \in Nat /\ app[a].windows <= app[a].windows
    BY <2>a
  <2>1. overlap' \in BOOLEAN
    BY <1>0, <1>5 DEF Launch!Ends, Launch!LauncherTypeOK
  <2>2. overlap' = overlap
    BY <1>5 DEF Launch!Ends
  <2>3. "none" \in Launch!Listener
    BY DEF Launch!Listener
  <2> QED BY <1>3, <1>5, <2>0, <2>1, <2>2, <2>3 DEF Launch!Ends
<1>6. ASSUME NEW a \in Launch!App, Launch!ByHand(a) PROVE LaunchInv'
  <2>a. app[a].windows \in Nat
    BY AppTyped
  <2>0. app[a].windows \in Nat /\ app[a].windows <= app[a].windows
    BY <2>a
  <2>1. overlap'
    BY <1>6 DEF Launch!ByHand
  <2>2. overlap' \in BOOLEAN
    BY <1>6 DEF Launch!ByHand
  <2>3. "hand" \in Launch!Listener
    BY DEF Launch!Listener
  <2> QED BY <1>3, <1>6, <2>0, <2>1, <2>2, <2>3 DEF Launch!ByHand
<1> QED BY <1>1, <1>2, <1>4, <1>5, <1>6

(* A step of start-all.ps1. *)
LEMMA StartScriptKeeps ==
  ASSUME LaunchAssumption, LaunchInv,
         \/ Launch!StartAll \/ Launch!Docker \/ Launch!Compose \/ Launch!AwaitContainer
         \/ Launch!AskMl \/ Launch!Ready
         \/ \E a \in Launch!App : Launch!Open(a) \/ Launch!AwaitApp(a)
  PROVE  LaunchInv'
<1>0. /\ Launch!LauncherTypeOK /\ WindowsCounted /\ ContainersNeedDocker
      /\ starts \in 0..MaxStarts /\ MaxStarts \in Nat /\ Len(Container) \in Nat
      /\ stop # "idle" /\ ~overlap => start = "idle"
  <2>1. stop # "idle" /\ ~overlap => start = "idle"
    BY DEF LaunchInv, StopProgress
  <2>2. Container \in Seq(Launch!Containers) /\ MaxStarts \in Nat
    BY DEF LaunchAssumption
  <2>3. Launch!LauncherTypeOK /\ WindowsCounted /\ ContainersNeedDocker
    BY DEF LaunchInv
  <2>4. starts \in 0..MaxStarts
    BY <2>3 DEF Launch!LauncherTypeOK
  <2>5. Len(Container) \in Nat
    BY <2>2
  <2> QED BY <2>1, <2>2, <2>3, <2>4, <2>5
<1>1. CASE Launch!StartAll
  <2>1. Launch!LauncherTypeOK'
    <3>1. starts' \in 0..MaxStarts /\ at' \in 1..Len(Container) + 1
      BY <1>0, <1>1 DEF Launch!StartAll
    <3> QED BY <1>0, <1>1, <3>1 DEF Launch!StartAll, Launch!LauncherTypeOK
  <2>2. WindowsCounted'
    <3> SUFFICES ASSUME NEW b \in Launch!App
                 PROVE  app[b].windows < starts + 1 /\ app[b].windows <= starts + 1
      BY <1>1 DEF Launch!StartAll, WindowsCounted
    <3>1. app[b].windows \in Nat /\ starts \in Nat /\ app[b].windows <= starts
      BY AppTyped
    <3> QED BY <3>1
  <2> QED BY <1>0, <1>1, <2>1, <2>2
       DEF LaunchInv, Launch!StartAll, ContainersNeedDocker, StopProgress
<1>2. CASE Launch!Docker
  <2>1. Launch!LauncherTypeOK'
    BY <1>0, <1>2 DEF Launch!Docker, Launch!LauncherTypeOK
  <2>2. WindowsCounted'
    BY <1>0, <1>2 DEF Launch!Docker, WindowsCounted, Before
  <2> QED BY <1>0, <1>2, <2>1, <2>2
       DEF LaunchInv, Launch!Docker, ContainersNeedDocker, StopProgress
<1>3. CASE Launch!Compose
  <2>1. Launch!LauncherTypeOK'
    BY <1>0, <1>3 DEF Launch!Compose, Launch!LauncherTypeOK
  <2>2. WindowsCounted'
    BY <1>0, <1>3 DEF Launch!Compose, WindowsCounted, Before
  <2> QED BY <1>0, <1>3, <2>1, <2>2
       DEF LaunchInv, Launch!Compose, ContainersNeedDocker, StopProgress
<1>4. CASE Launch!AwaitContainer
  <2>0. at \in 1..Len(Container) + 1
    BY <1>0 DEF Launch!LauncherTypeOK
  <2>1. at' \in 1..Len(Container) + 1
    BY <1>0, <1>4, <2>0 DEF Launch!AwaitContainer
  <2>2. Launch!LauncherTypeOK'
    BY <1>0, <1>4, <2>1 DEF Launch!AwaitContainer, Launch!LauncherTypeOK
  <2> QED BY <1>0, <1>4, <2>2 DEF LaunchInv, Launch!AwaitContainer, WindowsCounted,
       ContainersNeedDocker, StopProgress
<1>5. CASE Launch!AskMl
  <2>1. Launch!LauncherTypeOK'
    BY <1>0, <1>5 DEF Launch!AskMl, Launch!LauncherTypeOK
  <2>2. WindowsCounted'
    BY <1>0, <1>5 DEF Launch!AskMl, WindowsCounted, Before
  <2> QED BY <1>0, <1>5, <2>1, <2>2
       DEF LaunchInv, Launch!AskMl, ContainersNeedDocker, StopProgress
<1>6. CASE Launch!Ready
  <2>1. Launch!LauncherTypeOK'
    BY <1>0, <1>6 DEF Launch!Ready, Launch!LauncherTypeOK
  <2>2. WindowsCounted'
    BY <1>0, <1>6 DEF Launch!Ready, WindowsCounted, Before
  <2> QED BY <1>0, <1>6, <2>1, <2>2
       DEF LaunchInv, Launch!Ready, ContainersNeedDocker, StopProgress
<1>7. ASSUME NEW a \in Launch!App, Launch!Open(a), app[a].listener # "none" PROVE LaunchInv'
  <2>1. Launch!LauncherTypeOK'
    BY <1>0, <1>7 DEF Launch!Open, Launch!LauncherTypeOK, Launch!After, Launch!App
  <2>2. WindowsCounted'
    BY <1>0, <1>7 DEF Launch!Open, WindowsCounted, Before, Launch!After, Launch!App
  <2>3. start # "idle" /\ overlap' = overlap
    BY <1>7 DEF Launch!Open, Launch!App
  <2> QED BY <1>0, <1>7, <2>1, <2>2, <2>3
       DEF LaunchInv, Launch!Open, ContainersNeedDocker, StopProgress
<1>8. ASSUME NEW a \in Launch!App, Launch!Open(a), app[a].listener = "none" PROVE LaunchInv'
  <2>1. /\ Launch!Becomes(a, app[a].windows + 1, "none")
        /\ start = a /\ start' = Launch!Wait(a)
        /\ UNCHANGED <<docker, container, at, stop, starts, survived>>
    BY <1>8 DEF Launch!Open
  <2>2. app[a].windows < starts
    BY <1>0, <2>1 DEF WindowsCounted, Before, Launch!App
  <2>3. app[a].windows + 1 \in Nat /\ app[a].windows + 1 <= starts
    <3>1. app[a].windows \in Nat /\ starts \in Nat
      BY AppTyped
    <3> QED BY <2>2, <3>1
  <2>4. /\ app' \in [Launch!App -> [windows : 0..MaxStarts, listener : Launch!Listener]]
        /\ app'[a].windows = app[a].windows + 1
        /\ \A b \in Launch!App : b # a => app'[b] = app[b]
    BY <2>1, <2>3, AppBecomes DEF Launch!Listener
  <2>5. overlap'
    BY <1>8 DEF Launch!Open
  <2>6. overlap' \in BOOLEAN
    BY <1>8 DEF Launch!Open
  <2>7. Launch!LauncherTypeOK'
    BY <1>0, <2>1, <2>4, <2>6 DEF Launch!LauncherTypeOK, Launch!Wait
  <2>8. WindowsCounted'
    <3> SUFFICES ASSUME NEW b \in Launch!App
                 PROVE  /\ app'[b].windows <= starts
                        /\ start' \in Before(b) => app'[b].windows < starts
      BY <2>1 DEF WindowsCounted
    <3>1. CASE b = a
      <4>1. start' \notin Before(b)
        BY <2>1, <3>1 DEF Launch!Wait, Before, Launch!App
      <4> QED BY <2>3, <2>4, <3>1, <4>1
    <3>2. CASE b # a
      <4>1. start' \in Before(b) => start \in Before(b)
        BY <2>1, <3>2 DEF Launch!Wait, Before, Launch!App
      <4> QED BY <1>0, <2>4, <3>2, <4>1 DEF WindowsCounted
    <3> QED BY <3>1, <3>2
  <2> QED BY <1>0, <2>1, <2>5, <2>7, <2>8 DEF LaunchInv, ContainersNeedDocker, StopProgress
<1>9. ASSUME NEW a \in Launch!App, Launch!AwaitApp(a) PROVE LaunchInv'
  <2>1. Launch!LauncherTypeOK'
    BY <1>0, <1>9 DEF Launch!AwaitApp, Launch!LauncherTypeOK, Launch!After, Launch!App
  <2>2. WindowsCounted'
    BY <1>0, <1>9
       DEF Launch!AwaitApp, WindowsCounted, Before, Launch!After, Launch!Wait, Launch!App
  <2>3. start # "idle" /\ overlap' = overlap
    BY <1>9 DEF Launch!AwaitApp, Launch!Wait
  <2> QED BY <1>0, <1>9, <2>1, <2>2, <2>3
       DEF LaunchInv, Launch!AwaitApp, ContainersNeedDocker, StopProgress
<1> QED BY <1>1, <1>2, <1>3, <1>4, <1>5, <1>6, <1>7, <1>8, <1>9

(* A step of stop-all.ps1. *)
LEMMA StopScriptKeeps ==
  ASSUME LaunchAssumption, LaunchInv,
         \/ Launch!StopAll \/ Launch!ComposeDown
         \/ \E a \in Launch!App : Launch!KillWindows(a) \/ Launch!StopPortListener(a)
  PROVE  LaunchInv'
<1>0. /\ Launch!LauncherTypeOK /\ WindowsCounted /\ ContainersNeedDocker /\ StopProgress
      /\ starts \in 0..MaxStarts /\ MaxStarts \in Nat
  BY DEF LaunchInv, Launch!LauncherTypeOK, LaunchAssumption
<1>1. CASE Launch!StopAll
  <2>1. overlap' \in BOOLEAN
    BY <1>1 DEF Launch!StopAll
  <2>2. Launch!LauncherTypeOK'
    BY <1>0, <1>1, <2>1 DEF Launch!StopAll, Launch!LauncherTypeOK
  <2>3. StopProgress'
    BY <1>1 DEF Launch!StopAll, StopProgress, Closed, Launch!App
  <2> QED BY <1>0, <1>1, <2>2, <2>3
       DEF LaunchInv, Launch!StopAll, WindowsCounted, ContainersNeedDocker
<1>2. CASE Launch!ComposeDown
  <2>0. PICK remains \in SUBSET Launch!Containers :
           /\ docker # "on" => remains = Launch!Containers
           /\ container' = [c \in Launch!Containers |->
                              IF c \in remains THEN container[c] ELSE "down"]
           /\ survived' = survived \cup
                {c \in remains : docker = "on" /\ container[c] # "down"}
    BY <1>2 DEF Launch!ComposeDown
  <2>a. survived \subseteq survived' /\ survived' \subseteq Launch!App \cup Launch!Containers
    BY <1>0, <2>0 DEF Launch!LauncherTypeOK
  <2>1. Launch!LauncherTypeOK'
    BY <1>0, <1>2, <2>0, <2>a DEF Launch!ComposeDown, Launch!LauncherTypeOK
  <2>2. \A c \in Launch!Containers \ survived' : container'[c] = "down"
    BY <1>0, <2>0 DEF ContainersNeedDocker
  <2>4. docker # "on" => \A c \in Launch!Containers : container'[c] = "down"
    BY <1>0, <2>0 DEF ContainersNeedDocker
  <2>3. StopProgress'
    BY <1>0, <1>2, <2>2, <2>a DEF Launch!ComposeDown, StopProgress, Closed, Launch!App
  <2> QED BY <1>0, <1>2, <2>1, <2>3, <2>4
       DEF LaunchInv, Launch!ComposeDown, WindowsCounted, ContainersNeedDocker
(* The windows, or the process at the port, of an app are ended. *)
<1>3. ASSUME NEW a \in Launch!App, NEW w, NEW l, Launch!Becomes(a, w, l),
             w \in Nat, w <= app[a].windows, l \in Launch!Listener,
             UNCHANGED <<docker, container, start, at, starts, overlap>>,
             survived' = survived \/ survived' = survived \cup {a},
             \/ /\ stop = Launch!Windows(a) /\ stop' = a
                /\ w # 0 => a \in survived'
             \/ /\ stop = a /\ stop' = Launch!Step(a) /\ w = app[a].windows
                /\ l # "none" => a \in survived'
      PROVE  LaunchInv'
  <2>0. app[a].windows \in Nat /\ starts \in Nat /\ app[a].windows <= starts
    BY AppTyped
  <2>1. w <= starts /\ app[a].windows \in Nat
    BY <1>3, <2>0
  <2>2. Launch!LauncherTypeOK'
    <3>1. stop' \in {"idle", "frontend window", "frontend", "backend window", "backend", "docker",
                     "done"}
      BY <1>3 DEF Launch!App, Launch!Step
    <3>2. app' \in [Launch!App -> [windows : 0..MaxStarts, listener : Launch!Listener]]
      BY <1>3, <2>1, AppBecomes
    <3>3. survived' \subseteq Launch!App \cup Launch!Containers
      BY <1>0, <1>3 DEF Launch!LauncherTypeOK
    <3> QED BY <1>0, <1>3, <3>1, <3>2, <3>3 DEF Launch!LauncherTypeOK
  <2>3. WindowsCounted'
    <3>1. \A b \in Launch!App : app[b].windows \in Nat
      BY AppTyped
    <3>2. /\ app'[a].windows = w
          /\ \A b \in Launch!App : b # a => app'[b] = app[b]
      BY <1>3, <2>1, AppBecomes
    <3>3. \A b \in Launch!App : /\ app'[b].windows <= app[b].windows
                                /\ app'[b].windows \in Nat
      BY <1>3, <3>1, <3>2
    <3> QED BY <1>0, <1>3, <2>0, <3>1, <3>3, CountKept
  <2>4. stop # "idle" /\ stop' # "idle" /\ stop' # "done"
    BY <1>3 DEF Launch!App, Launch!Windows, Launch!Step
  <2>5. StopProgress'
    <3> SUFFICES ASSUME ~overlap'
                 PROVE  /\ start' = "idle"
                        /\ \A b \in Launch!App \ survived' : stop' \in Closed(b) =>
                              app'[b].windows = 0 /\ (stop' # b => app'[b] = Launch!Idle)
      BY <2>4 DEF StopProgress
    <3>1. ~overlap
      BY <1>3
    <3>2. /\ start = "idle"
          /\ \A b \in Launch!App \ survived : stop \in Closed(b) =>
                app[b].windows = 0 /\ (stop # b => app[b] = Launch!Idle)
      BY <1>0, <2>4, <3>1 DEF StopProgress
    <3> SUFFICES ASSUME NEW b \in Launch!App \ survived', stop' \in Closed(b)
                 PROVE  app'[b].windows = 0 /\ (stop' # b => app'[b] = Launch!Idle)
      BY <1>3, <3>2
    <3>3. CASE b = a
      <4>1. stop = a => app[a].windows = 0
        BY <1>3, <3>2, <3>3 DEF Closed
      <4>2. w = 0 /\ (stop' # a => l = "none")
        BY <1>3, <3>3, <4>1
      <4>3. app'[a] = [windows |-> w, listener |-> l] /\ app'[a].windows = w
        BY <1>3, <2>1, AppBecomes
      <4> QED BY <3>3, <4>2, <4>3 DEF Launch!Idle
    <3>4. CASE b # a
      <4>1. stop \in Closed(b) /\ stop # b
        BY <1>3, <3>4 DEF Launch!App, Launch!Windows, Launch!Step, Closed
      <4>2. app'[b] = app[b]
        BY <1>3, <2>1, <3>4, AppBecomes
      <4>3. b \in Launch!App \ survived
        BY <1>3
      <4> QED BY <3>2, <4>1, <4>2, <4>3
    <3> QED BY <3>3, <3>4
  <2> QED BY <1>0, <1>3, <2>2, <2>3, <2>5 DEF LaunchInv, ContainersNeedDocker
<1>4. ASSUME NEW a \in Launch!App, Launch!KillWindows(a) PROVE LaunchInv'
  <2>1. app[a].windows \in Nat /\ {app[a].listener, "none"} \subseteq Launch!Listener
    BY AppTyped DEF Launch!Listener
  <2>2. PICK w \in 0..app[a].windows, l \in {app[a].listener, "none"} :
           /\ Launch!Becomes(a, w, l)
           /\ survived' = survived \cup {x \in {a} : w > 0 \/ l = "window"}
    BY <1>4 DEF Launch!KillWindows
  <2>3. w \in Nat /\ w <= app[a].windows /\ l \in Launch!Listener
    BY <2>1, <2>2
  <2>4. /\ survived' = survived \/ survived' = survived \cup {a}
        /\ w # 0 => a \in survived'
    BY <2>2, <2>3
  <2> QED BY <1>3, <1>4, <2>2, <2>3, <2>4 DEF Launch!KillWindows
<1>5. ASSUME NEW a \in Launch!App, Launch!StopPortListener(a) PROVE LaunchInv'
  <2>1. app[a].windows \in Nat /\ {app[a].listener, "none"} \subseteq Launch!Listener
    BY AppTyped DEF Launch!Listener
  <2>2. PICK l \in {app[a].listener, "none"} :
           /\ Launch!Becomes(a, app[a].windows, l)
           /\ survived' = survived \cup {x \in {a} : l # "none"}
    BY <1>5 DEF Launch!StopPortListener
  <2>3. app[a].windows <= app[a].windows /\ l \in Launch!Listener
    BY <2>1, <2>2
  <2>4. /\ survived' = survived \/ survived' = survived \cup {a}
        /\ l # "none" => a \in survived'
    BY <2>2
  <2> QED BY <1>3, <1>5, <2>1, <2>2, <2>3, <2>4 DEF Launch!StopPortListener
<1> QED BY <1>1, <1>2, <1>4, <1>5

LEMMA LaunchNext ==
  ASSUME LaunchAssumption, LaunchInv, [Launch!Next]_(Launch!vars)
  PROVE  LaunchInv'
<1>1. CASE UNCHANGED Launch!vars
  BY <1>1 DEF Launch!vars, LaunchInv, Launch!LauncherTypeOK, WindowsCounted,
              ContainersNeedDocker, StopProgress, Closed
<1> QED BY <1>1, MachineKeeps, StartScriptKeeps, StopScriptKeeps DEF Launch!Next

(* A stop that is done. *)
LEMMA LaunchShown == LaunchInv => Launch!StopStopsAll
  BY DEF LaunchInv, StopProgress, Closed, Launch!StopStopsAll, Launch!App

(* When the stop script reports that everything is stopped, whatever still *)
(* runs is something that one of its own steps failed to end, unless       *)
(* something was started while it worked (stop-all.ps1).                   *)
THEOREM AllStops == ASSUME LaunchAssumption PROVE Launch!Spec => []Launch!StopStopsAll
  BY LaunchInit, LaunchNext, LaunchShown, PTL DEF Launch!Spec

-------------------------------------------------------------------------------
(* Seed.  The parts of the databases, which are named like the stages that *)
(* fill them; no stage fills the reports.                                  *)
Stored == Seeding!Table \cup {"users", "settings", "keys"}

(* The order of the stages; the reports would come after the end. *)
At(s) ==
    CASE s = "clean" -> 1
      [] s = "cleanUsers" -> 2
      [] s = "cleanLogs" -> 3
      [] s = "users" -> 4
      [] s = "log" -> 5
      [] s = "alert" -> 6
      [] s = "threatScore" -> 7
      [] s = "blockedIP" -> 8
      [] s = "auditLog" -> 9
      [] s = "settings" -> 10
      [] s = "keys" -> 11
      [] s = "done" -> 12
      [] s = "report" -> 13

(* The stage that empties a part, and the piece of its work that does. *)
Emptying(x) ==
    CASE x = "users" -> "cleanUsers"
      [] x = "log" -> "cleanLogs"
      [] OTHER -> "clean"
Piece(x) == IF x \in {"users", "log"} THEN Emptying(x) ELSE x

IsEmpty(x) ==
    CASE x = "users" -> users = {}
      [] x = "settings" -> settings = {}
      [] x = "keys" -> keys = {}
      [] OTHER -> rows[x] = 0

(* The seed has made all of a part but the rest. *)
IsFilled(x, rest) ==
    CASE x = "users" -> users = Seeded \ rest
      [] x = "settings" -> settings = Seeded \ rest
      [] x = "keys" -> keys = Key \ rest
      [] OTHER -> rows[x] + Cardinality(rest) = Amount[x]

(* A seed under way, or just ended, that nobody disturbs: a part is as it  *)
(* was before its turn, empty until it is filled, and then complete.       *)
SeedProgress ==
    stage # "off" /\ ~disturbed => \A x \in Stored :
        /\ At(Emptying(x)) < At(stage) /\ At(stage) < At(x) => IsEmpty(x)
        /\ stage = Emptying(x) /\ Piece(x) \notin left => IsEmpty(x)
        /\ stage = x => IsFilled(x, left)
        /\ At(x) < At(stage) => IsFilled(x, {})

SeedInv ==
    /\ Seeding!SeedTypeOK
    /\ stage = "off" => left = {}
    /\ stage # "off" => left \subseteq Seeding!Work(stage)
    /\ SeedProgress

SeedAssumption ==
    /\ Amount \in [Seeding!Table -> Nat] /\ Amount["report"] = 0
    /\ MaxRows \in Nat /\ MaxRuns \in Nat

(* The stages, and which follows which. *)
StageName ==
    {"clean", "cleanUsers", "cleanLogs", "users", "log", "alert", "threatScore",
     "blockedIP", "auditLog", "settings", "keys", "done"}

LEMMA Numbered ==
  /\ At("clean") = 1 /\ At("cleanUsers") = 2 /\ At("cleanLogs") = 3 /\ At("users") = 4
  /\ At("log") = 5 /\ At("alert") = 6 /\ At("threatScore") = 7 /\ At("blockedIP") = 8
  /\ At("auditLog") = 9 /\ At("settings") = 10 /\ At("keys") = 11 /\ At("done") = 12
  /\ At("report") = 13
<1>1. At("clean") = 1 /\ At("cleanUsers") = 2 /\ At("cleanLogs") = 3 /\ At("users") = 4
  BY DEF At
<1>2. At("log") = 5 /\ At("alert") = 6 /\ At("threatScore") = 7 /\ At("blockedIP") = 8
  BY DEF At
<1>3. At("auditLog") = 9 /\ At("settings") = 10 /\ At("keys") = 11 /\ At("done") = 12
  BY DEF At
<1>4. At("report") = 13
  BY DEF At
<1> QED BY <1>1, <1>2, <1>3, <1>4

LEMMA StagesNamed ==
  /\ DOMAIN Seeding!Stages = 1..12
  /\ Seeding!Stages[1] = "clean" /\ Seeding!Stages[12] = "done"
  /\ \A i \in 1..12 : Seeding!Stages[i] \in StageName /\ At(Seeding!Stages[i]) = i
  /\ \A s \in StageName : At(s) \in 1..12 /\ Seeding!Stages[At(s)] = s
<1>1. DOMAIN Seeding!Stages = 1..12
  BY DEF Seeding!Stages
<1>2. 1..12 = {1, 2, 3, 4, 5, 6, 7, 8, 9, 10, 11, 12}
  OBVIOUS
<1>3. /\ Seeding!Stages[1] = "clean" /\ Seeding!Stages[2] = "cleanUsers"
      /\ Seeding!Stages[3] = "cleanLogs" /\ Seeding!Stages[4] = "users"
      /\ Seeding!Stages[5] = "log" /\ Seeding!Stages[6] = "alert"
      /\ Seeding!Stages[7] = "threatScore" /\ Seeding!Stages[8] = "blockedIP"
      /\ Seeding!Stages[9] = "auditLog" /\ Seeding!Stages[10] = "settings"
      /\ Seeding!Stages[11] = "keys" /\ Seeding!Stages[12] = "done"
  BY DEF Seeding!Stages
<1>4. ASSUME NEW s \in StageName PROVE At(s) \in 1..12 /\ Seeding!Stages[At(s)] = s
  <2>1. CASE s \in {"clean", "cleanUsers", "cleanLogs", "users", "log", "alert"}
    BY <1>3, <2>1, Numbered
  <2>2. CASE s \in {"threatScore", "blockedIP", "auditLog", "settings", "keys", "done"}
    BY <1>3, <2>2, Numbered
  <2> QED BY <2>1, <2>2 DEF StageName
<1>5. \A i \in 1..12 : Seeding!Stages[i] \in StageName
  BY <1>2, <1>3 DEF StageName
<1>6. \A i \in 1..12 : At(Seeding!Stages[i]) = i
  BY <1>2, <1>3, Numbered
<1> QED BY <1>1, <1>3, <1>4, <1>5, <1>6

(* The parts, and how each is emptied. *)
LEMMA PartsNamed ==
  /\ Stored = {"users", "log", "alert", "threatScore", "blockedIP", "auditLog", "settings",
               "keys", "report"}
  /\ Emptying("users") = "cleanUsers" /\ Emptying("log") = "cleanLogs"
  /\ \A x \in Stored \ {"users", "log"} : Emptying(x) = "clean"
  /\ \A x \in Stored : Piece(x) = IF x \in {"users", "log"} THEN Emptying(x) ELSE x
  BY DEF Stored, Seeding!Table, Emptying, Piece

(* A part is emptied before it is filled, by a piece of the work of that   *)
(* stage, and no other stage has its number.                               *)
LEMMA PartsAtStages ==
  ASSUME NEW x \in Stored
  PROVE  /\ At(Emptying(x)) \in 1..3 /\ At(x) \in 4..13
         /\ Piece(x) \in Seeding!Work(Emptying(x))
         /\ Emptying(x) \in StageName
         /\ \A s \in StageName : /\ At(s) = At(x) => s = x
                                 /\ At(s) = At(Emptying(x)) => s = Emptying(x)
         /\ \A y \in Stored : Emptying(x) = Emptying(y) /\ Piece(x) = Piece(y) => x = y
<1>0. x \in {"users", "log"} \/ x \in {"alert", "threatScore", "blockedIP", "auditLog",
                                      "settings", "keys", "report"}
  BY PartsNamed
<1>1. At(x) \in 4..13
  BY <1>0, Numbered
<1>2. /\ x = "users" => Emptying(x) = "cleanUsers" /\ Piece(x) = "cleanUsers"
      /\ x = "log" => Emptying(x) = "cleanLogs" /\ Piece(x) = "cleanLogs"
      /\ x \notin {"users", "log"} => Emptying(x) = "clean" /\ Piece(x) = x
  BY PartsNamed
<1>3. Piece(x) \in Seeding!Work(Emptying(x))
  <2>1. CASE x \in {"users", "log"}
    BY <1>2, <2>1 DEF Seeding!Work, Seeding!Table
  <2>2. CASE x \notin {"users", "log"}
    <3>1. x \in Seeding!Cleaned
      BY <1>0, <2>2 DEF Seeding!Cleaned
    <3>2. Seeding!Work("clean") = Seeding!Cleaned
      BY DEF Seeding!Work, Seeding!Table
    <3> QED BY <1>2, <2>2, <3>1, <3>2
  <2> QED BY <2>1, <2>2
<1>4. Emptying(x) \in StageName /\ At(Emptying(x)) \in 1..3
  BY <1>2, Numbered DEF StageName
<1>5. ASSUME NEW s \in StageName
      PROVE  /\ At(s) = At(x) => s = x
             /\ At(s) = At(Emptying(x)) => s = Emptying(x)
  <2>1. At(s) \in 1..12 /\ Seeding!Stages[At(s)] = s
    BY StagesNamed
  <2>2. Seeding!Stages[At(Emptying(x))] = Emptying(x)
    BY <1>4, StagesNamed
  <2>3. x = "report" \/ x \in StageName
    BY <1>0 DEF StageName
  <2>4. x \in StageName => Seeding!Stages[At(x)] = x
    BY StagesNamed
  <2>5. x = "report" => At(x) = 13
    BY Numbered
  <2> QED BY <2>1, <2>2, <2>3, <2>4, <2>5
<1>6. ASSUME NEW y \in Stored, Emptying(x) = Emptying(y), Piece(x) = Piece(y) PROVE x = y
  BY <1>6, PartsNamed
<1> QED BY <1>1, <1>3, <1>4, <1>5, <1>6

LEMMA SeedInit == ASSUME SeedAssumption PROVE Seeding!Init => SeedInv
<1> SUFFICES ASSUME Seeding!Init PROVE SeedInv
  OBVIOUS
<1>1. disturbed \in BOOLEAN
  BY DEF Seeding!Init
<1>2. stage = "off" /\ left = {}
  BY DEF Seeding!Init
<1>3. Seeding!SeedTypeOK
  <2>1. rows \in [Seeding!Table -> 0..MaxRows]
    BY DEF Seeding!Init, SeedAssumption
  <2>2. runs \in 0..MaxRuns
    BY DEF Seeding!Init, SeedAssumption
  <2> QED BY <1>1, <1>2, <2>1, <2>2 DEF Seeding!Init, Seeding!SeedTypeOK
<1> QED BY <1>2, <1>3 DEF SeedInv, SeedProgress

(* The backend writes, and a seed under way is disturbed. *)
LEMMA BackendDisturbs ==
  ASSUME SeedAssumption, SeedInv,
         \/ \E e \in Seeded \cup Guest : Seeding!Register(e) \/ Seeding!OpenSettings(e)
         \/ \E k \in Key : Seeding!SetKey(k)
         \/ \E t \in Seeding!Table : Seeding!Write(t)
  PROVE  SeedInv'
<1>1. disturbed' = (disturbed \/ stage # "off")
  BY DEF Seeding!Register, Seeding!OpenSettings, Seeding!SetKey, Seeding!Write, Seeding!Disturb
<1>2. UNCHANGED <<stage, left, runs>>
  BY DEF Seeding!Register, Seeding!OpenSettings, Seeding!SetKey, Seeding!Write
<1>3. /\ users' \subseteq Seeded \cup Guest /\ settings' \subseteq users' /\ keys' \subseteq Key
  BY DEF SeedInv, Seeding!SeedTypeOK, Seeding!Register, Seeding!OpenSettings, Seeding!SetKey,
     Seeding!Write
<1>4. rows' \in [Seeding!Table -> 0..MaxRows]
  <2>1. rows \in [Seeding!Table -> 0..MaxRows] /\ MaxRows \in Nat
    BY DEF SeedInv, Seeding!SeedTypeOK, SeedAssumption
  <2>2. CASE rows' = rows
    BY <2>1, <2>2
  <2>3. ASSUME NEW t \in Seeding!Table, Seeding!Write(t)
        PROVE  rows' \in [Seeding!Table -> 0..MaxRows]
    <3>1. rows[t] < MaxRows /\ rows' = [rows EXCEPT ![t] = rows[t] + 1]
      BY <2>3 DEF Seeding!Write
    <3>2. rows[t] \in 0..MaxRows
      BY <2>1
    <3>3. rows[t] + 1 \in 0..MaxRows
      BY <2>1, <3>1, <3>2
    <3> QED BY <2>1, <3>1, <3>3
  <2> QED BY <2>2, <2>3 DEF Seeding!Register, Seeding!OpenSettings, Seeding!SetKey
<1>5. disturbed' \in BOOLEAN
  BY <1>1
<1>6. Seeding!SeedTypeOK'
  BY <1>2, <1>3, <1>4, <1>5 DEF SeedInv, Seeding!SeedTypeOK
<1>7. SeedProgress'
  BY <1>1, <1>2 DEF SeedProgress
<1> QED BY <1>2, <1>6, <1>7 DEF SeedInv

LEMMA StartKeepsSeed == ASSUME SeedAssumption, SeedInv, Seeding!Start PROVE SeedInv'
<1>1. /\ stage' = "clean" /\ left' = Seeding!Work("clean") /\ runs' = runs + 1
      /\ runs < MaxRuns /\ UNCHANGED <<users, settings, keys, rows>>
  BY DEF Seeding!Start
<1>2. disturbed' \in BOOLEAN
  BY DEF Seeding!Start
<1>3. Seeding!SeedTypeOK'
  <2>1. runs' \in 0..MaxRuns
    BY <1>1 DEF SeedInv, Seeding!SeedTypeOK, SeedAssumption
  <2>2. stage' \in {Seeding!Stages[i] : i \in DOMAIN Seeding!Stages}
    <3>1. Seeding!Stages[1] = "clean" /\ 1 \in DOMAIN Seeding!Stages
      BY StagesNamed
    <3> QED BY <1>1, <3>1
  <2> QED BY <1>1, <1>2, <2>1, <2>2 DEF SeedInv, Seeding!SeedTypeOK
<1>4. SeedProgress'
  <2> SUFFICES ASSUME NEW x \in Stored
               PROVE  /\ ~(At(Emptying(x)) < At("clean")) /\ ~(At(x) < At("clean"))
                      /\ "clean" = Emptying(x) => Piece(x) \in left'
                      /\ "clean" # x
    BY <1>1 DEF SeedProgress
  <2>1. At("clean") = 1
    BY Numbered
  <2> QED BY <1>1, <2>1, PartsAtStages
<1> QED BY <1>1, <1>3, <1>4 DEF SeedInv

LEMMA FailKeepsSeed == ASSUME SeedAssumption, SeedInv, Seeding!Fail PROVE SeedInv'
<1>1. stage' = "off" /\ left' = {} /\ UNCHANGED <<users, settings, keys, rows, runs>>
  BY DEF Seeding!Fail
<1>2. disturbed' = disturbed
  BY DEF Seeding!Fail
<1> QED BY <1>1, <1>2 DEF SeedInv, SeedProgress, Seeding!SeedTypeOK

(* What is empty is what a seed that has all to do has made. *)
LEMMA EmptyIsUnfilled ==
  ASSUME SeedAssumption, NEW x \in Stored, x # "report", IsEmpty(x)
  PROVE  IsFilled(x, Seeding!Work(x))
<1>1. CASE x \in {"users", "settings"}
  <2>1. Seeding!Work(x) = Seeded
    BY <1>1 DEF Seeding!Work, Seeding!Table
  <2> QED BY <1>1, <2>1 DEF IsEmpty, IsFilled
<1>2. CASE x = "keys"
  <2>1. Seeding!Work(x) = Key
    BY <1>2 DEF Seeding!Work, Seeding!Table
  <2> QED BY <1>2, <2>1 DEF IsEmpty, IsFilled
<1>3. CASE x \notin {"users", "settings", "keys"}
  <2>1. x \in Seeding!Table
    BY <1>3 DEF Stored
  <2>2. Seeding!Work(x) = 1..Amount[x]
    BY <2>1 DEF Seeding!Work, Seeding!Table
  <2>3. Amount[x] \in Nat
    BY <2>1 DEF SeedAssumption
  <2>4. Cardinality(1..Amount[x]) = Amount[x]
    BY <2>3, FS_Interval
  <2>5. rows[x] = 0
    BY <1>3 DEF IsEmpty
  <2> QED BY <1>3, <2>2, <2>3, <2>4, <2>5 DEF IsFilled
<1> QED BY <1>1, <1>2, <1>3

LEMMA ProceedKeepsSeed == ASSUME SeedAssumption, SeedInv, Seeding!Proceed PROVE SeedInv'
<1>1. /\ Seeding!Running /\ left = {} /\ UNCHANGED <<users, settings, keys, rows, runs>>
  BY DEF Seeding!Proceed
<1>2. disturbed' = disturbed
  BY DEF Seeding!Proceed
<1>3. PICK i \in 1..12 : /\ Seeding!Stages[i] = stage /\ stage' = Seeding!Stages[i + 1]
                         /\ left' = Seeding!Work(Seeding!Stages[i + 1])
  BY StagesNamed DEF Seeding!Proceed
<1>4. i \in 1..11 /\ i + 1 \in 1..12
  <2>1. stage # "done" /\ Seeding!Stages[12] = "done"
    BY <1>1, StagesNamed DEF Seeding!Running
  <2>2. i # 12
    BY <1>3, <2>1
  <2> QED BY <2>2
<1>5. /\ stage \in StageName /\ stage' \in StageName
      /\ At(stage) = i /\ At(stage') = i + 1 /\ left' = Seeding!Work(stage')
  BY <1>3, <1>4, StagesNamed
<1>6. stage # "off" /\ stage' # "off"
  BY <1>5 DEF StageName
<1>7. Seeding!SeedTypeOK'
  <2>1. stage' \in {Seeding!Stages[j] : j \in DOMAIN Seeding!Stages}
    BY <1>3, <1>4, StagesNamed
  <2> QED BY <1>1, <1>2, <2>1 DEF SeedInv, Seeding!SeedTypeOK
<1>8. SeedProgress'
  <2> SUFFICES ASSUME ~disturbed, NEW x \in Stored
               PROVE  /\ At(Emptying(x)) < At(stage') /\ At(stage') < At(x) => IsEmpty(x)
                      /\ stage' = Emptying(x) => Piece(x) \in left'
                      /\ stage' = x => IsFilled(x, left')
                      /\ At(x) < At(stage') => IsFilled(x, {})
    <3>1. \A x \in Stored : (IsEmpty(x)' <=> IsEmpty(x))
                            /\ \A rest : IsFilled(x, rest)' <=> IsFilled(x, rest)
      BY <1>1 DEF IsEmpty, IsFilled
    <3> QED BY <1>2, <3>1 DEF SeedProgress
  <2>1. /\ At(Emptying(x)) < At(stage) /\ At(stage) < At(x) => IsEmpty(x)
        /\ stage = Emptying(x) => IsEmpty(x)
        /\ stage = x => IsFilled(x, {})
        /\ At(x) < At(stage) => IsFilled(x, {})
    BY <1>1, <1>6 DEF SeedInv, SeedProgress
  <2>2. /\ At(Emptying(x)) \in 1..3 /\ At(x) \in 4..13
        /\ At(stage) = At(x) => stage = x
        /\ At(stage) = At(Emptying(x)) => stage = Emptying(x)
        /\ Piece(x) \in Seeding!Work(Emptying(x))
    BY <1>5, PartsAtStages
  <2>3. i < At(x) /\ At(Emptying(x)) < i + 1 => IsEmpty(x)
    BY <1>4, <1>5, <2>1, <2>2
  <2>4. At(x) < i + 1 => IsFilled(x, {})
    BY <1>4, <1>5, <2>1, <2>2
  <2>5. ASSUME stage' = x PROVE IsFilled(x, left')
    <3>1. At(x) = i + 1
      BY <1>5, <2>5
    <3>2. x # "report"
      BY <1>5, <2>5 DEF StageName
    <3>3. IsEmpty(x)
      BY <1>4, <2>2, <2>3, <3>1
    <3> QED BY <1>5, <2>5, <3>2, <3>3, EmptyIsUnfilled
  <2> QED BY <1>4, <1>5, <2>2, <2>3, <2>4, <2>5
<1> QED BY <1>5, <1>6, <1>7, <1>8 DEF SeedInv

(* An insert or a deletion is about one part: it makes one row of those    *)
(* left, or empties the part.                                              *)
Others(p) ==
    \A y \in Stored \ {p} : /\ IsEmpty(y)' <=> IsEmpty(y)
                           /\ \A rest : IsFilled(y, rest)' <=> IsFilled(y, rest)

LEMMA OthersStay ==
  ASSUME SeedInv
  PROVE  /\ UNCHANGED <<settings, keys, rows>> => Others("users")
         /\ UNCHANGED <<users, keys, rows>> => Others("settings")
         /\ UNCHANGED <<users, settings, rows>> => Others("keys")
         /\ \A t \in Seeding!Table : \A n : rows' = [rows EXCEPT ![t] = n] /\ UNCHANGED <<users, settings, keys>>
               => Others(t) /\ rows'[t] = n
<1>1. UNCHANGED <<settings, keys, rows>> => Others("users")
  BY DEF Others, IsEmpty, IsFilled
<1>2. UNCHANGED <<users, keys, rows>> => Others("settings")
  BY DEF Others, IsEmpty, IsFilled
<1>3. UNCHANGED <<users, settings, rows>> => Others("keys")
  BY DEF Others, IsEmpty, IsFilled
<1>4. ASSUME NEW t \in Seeding!Table, NEW n, rows' = [rows EXCEPT ![t] = n],
             UNCHANGED <<users, settings, keys>>
      PROVE  Others(t) /\ rows'[t] = n
  <2>1. rows'[t] = n /\ \A y \in Seeding!Table \ {t} : rows'[y] = rows[y]
    BY <1>4 DEF SeedInv, Seeding!SeedTypeOK
  <2>2. ASSUME NEW y \in Stored \ {t}
        PROVE  /\ IsEmpty(y)' <=> IsEmpty(y)
               /\ \A rest : IsFilled(y, rest)' <=> IsFilled(y, rest)
    <3>1. CASE y \in {"users", "settings", "keys"}
      BY <1>4, <3>1 DEF IsEmpty, IsFilled
    <3>2. CASE y \in Seeding!Table \ {t}
      <4>1. y \notin {"users", "settings", "keys"}
        BY <3>2 DEF Seeding!Table
      <4>2. rows'[y] = rows[y]
        BY <2>1, <3>2
      <4>3. (IsEmpty(y) <=> rows[y] = 0) /\ (IsEmpty(y)' <=> rows'[y] = 0)
        BY <4>1 DEF IsEmpty
      <4>4. ASSUME NEW rest PROVE IsFilled(y, rest)' <=> IsFilled(y, rest)
        BY <4>1, <4>2 DEF IsFilled
      <4>5. IsEmpty(y)' <=> IsEmpty(y)
        BY <4>2, <4>3
      <4> QED BY <4>4, <4>5
    <3> QED BY <3>1, <3>2 DEF Stored
  <2> QED BY <2>1, <2>2 DEF Others
<1> QED BY <1>1, <1>2, <1>3, <1>4

(* An insert into a table. *)
LEMMA InsertFills ==
  ASSUME SeedAssumption, SeedInv, NEW t \in Seeding!Table, stage = t, NEW x \in left,
         Seeding!Insert(t), left' = left \ {x}
  PROVE  /\ Others(t) /\ (IsFilled(t, left) => IsFilled(t, left)')
         /\ rows' \in [Seeding!Table -> 0..MaxRows]
<1>1. rows \in [Seeding!Table -> 0..MaxRows] /\ MaxRows \in Nat
  BY DEF SeedInv, Seeding!SeedTypeOK, SeedAssumption
<1>2. /\ rows[t] < MaxRows /\ rows' = [rows EXCEPT ![t] = rows[t] + 1]
      /\ UNCHANGED <<users, settings, keys>>
  BY DEF Seeding!Insert
<1>3. Others(t) /\ rows'[t] = rows[t] + 1
  BY <1>2, OthersStay
<1>4. left \subseteq 1..Amount[t] /\ Amount[t] \in Nat
  <2>1. t # "off" /\ Seeding!Work(t) = 1..Amount[t]
    BY DEF Seeding!Work, Seeding!Table
  <2> QED BY <2>1 DEF SeedInv, SeedAssumption
<1>5. IsFiniteSet(left)
  <2>1. IsFiniteSet(1..Amount[t])
    BY <1>4, FS_Interval
  <2> QED BY <1>4, <2>1, FS_Subset
<1>6. Cardinality(left \ {x}) = Cardinality(left) - 1 /\ Cardinality(left) \in Nat
  BY <1>5, FS_RemoveElement, FS_CardinalityType
<1>7. rows[t] \in Nat /\ rows[t] + 1 \in 0..MaxRows
  <2>1. rows[t] \in 0..MaxRows
    BY <1>1
  <2> QED BY <1>1, <1>2, <2>1
<1>8. IsFilled(t, left) => IsFilled(t, left)'
  <2>1. t \notin {"users", "settings", "keys"}
    BY DEF Seeding!Table
  <2> SUFFICES ASSUME rows[t] + Cardinality(left) = Amount[t]
               PROVE  rows'[t] + Cardinality(left') = Amount[t]
    BY <2>1 DEF IsFilled
  <2> QED BY <1>3, <1>6, <1>7
<1> QED BY <1>1, <1>2, <1>3, <1>7, <1>8

(* What one piece of a stage does. *)
LEMMA DoIsOnePart ==
  ASSUME SeedAssumption, SeedInv, NEW x \in left, Seeding!Do(x)
  PROVE  /\ users' \subseteq Seeded \cup Guest /\ settings' \subseteq users' /\ keys' \subseteq Key
         /\ rows' \in [Seeding!Table -> 0..MaxRows]
         /\ \E p \in Stored :
               /\ Others(p)
               /\ \/ stage = p /\ (IsFilled(p, left) => IsFilled(p, left)')
                  \/ stage = Emptying(p) /\ x = Piece(p) /\ IsEmpty(p)'
<1>0. /\ users \subseteq Seeded \cup Guest /\ settings \subseteq users /\ keys \subseteq Key
      /\ rows \in [Seeding!Table -> 0..MaxRows] /\ MaxRows \in Nat
  BY DEF SeedInv, Seeding!SeedTypeOK, SeedAssumption
<1>1. left' = left \ {x} /\ x \in Seeding!Work(stage) /\ stage \in StageName \ {"done"}
  <2>1. left' = left \ {x} /\ stage # "off" /\ x \in Seeding!Work(stage)
    BY DEF Seeding!Do, SeedInv
  <2>2. stage \in StageName
    <3>1. \E i \in 1..12 : stage = Seeding!Stages[i]
      BY <2>1, StagesNamed DEF SeedInv, Seeding!SeedTypeOK
    <3> QED BY <3>1, StagesNamed
  <2>3. Seeding!Work("done") = {}
    BY DEF Seeding!Work, Seeding!Table
  <2> QED BY <2>1, <2>2, <2>3
<1>2. CASE stage = "users"
  <2>1. Seeding!CreateUser(x) /\ x \in Seeded
    <3>1. Seeding!Work("users") = Seeded
      BY DEF Seeding!Work, Seeding!Table
    <3> QED BY <1>1, <1>2, <3>1 DEF Seeding!Do
  <2>2. users' = users \cup {x} /\ UNCHANGED <<settings, keys, rows>>
    BY <2>1 DEF Seeding!CreateUser
  <2>3. IsFilled("users", left) => IsFilled("users", left)'
    BY <1>1, <2>1, <2>2 DEF IsFilled
  <2>4. "users" \in Stored /\ Others("users")
    BY <2>2, OthersStay DEF Stored
  <2> QED BY <1>0, <1>2, <2>1, <2>2, <2>3, <2>4
<1>3. CASE stage = "settings"
  <2>1. Seeding!CreateNotificationSetting(x) /\ x \in Seeded
    <3>1. Seeding!Work("settings") = Seeded
      BY DEF Seeding!Work, Seeding!Table
    <3> QED BY <1>1, <1>3, <3>1 DEF Seeding!Do
  <2>2. x \in users /\ settings' = settings \cup {x} /\ UNCHANGED <<users, keys, rows>>
    BY <2>1 DEF Seeding!CreateNotificationSetting
  <2>3. IsFilled("settings", left) => IsFilled("settings", left)'
    BY <1>1, <2>1, <2>2 DEF IsFilled
  <2>4. "settings" \in Stored /\ Others("settings")
    BY <2>2, OthersStay DEF Stored
  <2> QED BY <1>0, <1>3, <2>2, <2>3, <2>4
<1>4. CASE stage = "keys"
  <2>1. Seeding!CreatePlatformSetting(x) /\ x \in Key
    <3>1. Seeding!Work("keys") = Key
      BY DEF Seeding!Work, Seeding!Table
    <3> QED BY <1>1, <1>4, <3>1 DEF Seeding!Do
  <2>2. keys' = keys \cup {x} /\ UNCHANGED <<users, settings, rows>>
    BY <2>1 DEF Seeding!CreatePlatformSetting
  <2>3. IsFilled("keys", left) => IsFilled("keys", left)'
    BY <1>1, <2>1, <2>2 DEF IsFilled
  <2>4. "keys" \in Stored /\ Others("keys")
    BY <2>2, OthersStay DEF Stored
  <2> QED BY <1>0, <1>4, <2>1, <2>2, <2>3, <2>4
<1>5. CASE stage \in {"log", "alert", "threatScore", "blockedIP", "auditLog"}
  <2>1. stage \in Seeding!Table /\ stage \in Stored
    BY <1>5 DEF Seeding!Table, Stored
  <2>2. Seeding!Insert(stage)
    BY <1>5 DEF Seeding!Do, Seeding!InsertLogs, Seeding!CreateAlert, Seeding!CreateThreatScore,
       Seeding!BlockIP, Seeding!CreateAuditLog
  <2>3. UNCHANGED <<users, settings, keys>>
    BY <2>2 DEF Seeding!Insert
  <2> QED BY <1>0, <1>1, <2>1, <2>2, <2>3, InsertFills
<1>6. CASE stage \in {"clean", "cleanUsers", "cleanLogs"}
  <2>1. Seeding!Clean(x)
    BY <1>6 DEF Seeding!Do
  <2>2. CASE stage = "cleanUsers"
    <3>1. x = "cleanUsers"
      BY <1>1, <2>2 DEF Seeding!Work, Seeding!Table
    <3>2. /\ users = {} \/ settings = {}
          /\ users' = {} /\ UNCHANGED <<settings, keys, rows>>
      BY <2>1, <3>1 DEF Seeding!Clean
    <3>3. "users" \in Stored /\ Others("users") /\ IsEmpty("users")'
      BY <3>2, OthersStay DEF Stored, IsEmpty
    <3> QED BY <1>0, <2>2, <3>1, <3>2, <3>3, PartsNamed
  <2>3. CASE stage = "cleanLogs"
    <3>1. x = "cleanLogs"
      BY <1>1, <2>3 DEF Seeding!Work, Seeding!Table
    <3>2. rows' = [rows EXCEPT !["log"] = 0] /\ UNCHANGED <<users, settings, keys>>
      BY <2>1, <3>1 DEF Seeding!Clean
    <3>3. "log" \in Stored /\ "log" \in Seeding!Table
      BY DEF Stored, Seeding!Table
    <3>4. Others("log") /\ IsEmpty("log")'
      BY <3>2, <3>3, OthersStay DEF IsEmpty
    <3> QED BY <1>0, <2>3, <3>1, <3>2, <3>3, <3>4, PartsNamed
  <2>4. CASE stage = "clean"
    <3>1. x \in Seeding!Cleaned
      <4>1. Seeding!Work("clean") = Seeding!Cleaned
        BY DEF Seeding!Work, Seeding!Table
      <4> QED BY <1>1, <2>4, <4>1
    <3>2. x \in Stored /\ Emptying(x) = "clean" /\ Piece(x) = x
      BY <3>1, PartsNamed DEF Seeding!Cleaned
    <3>3. CASE x = "settings"
      <4>1. settings' = {} /\ UNCHANGED <<users, keys, rows>>
        BY <2>1, <3>3 DEF Seeding!Clean
      <4>2. Others("settings") /\ IsEmpty("settings")'
        BY <4>1, OthersStay DEF IsEmpty
      <4> QED BY <1>0, <2>4, <3>2, <3>3, <4>1, <4>2
    <3>4. CASE x = "keys"
      <4>1. keys' = {} /\ UNCHANGED <<users, settings, rows>>
        BY <2>1, <3>4 DEF Seeding!Clean
      <4>2. Others("keys") /\ IsEmpty("keys")'
        BY <4>1, OthersStay DEF IsEmpty
      <4> QED BY <1>0, <2>4, <3>2, <3>4, <4>1, <4>2
    <3>5. CASE x \notin {"settings", "keys"}
      <4>1. x \in Seeding!Table /\ x \notin {"users", "settings", "keys"}
        BY <3>1, <3>5 DEF Seeding!Cleaned, Seeding!Table
      <4>2. rows' = [rows EXCEPT ![x] = 0] /\ UNCHANGED <<users, settings, keys>>
        BY <2>1, <3>1, <3>5 DEF Seeding!Clean, Seeding!Cleaned
      <4>3. Others(x) /\ rows'[x] = 0
        BY <4>1, <4>2, OthersStay
      <4>4. IsEmpty(x)'
        BY <4>1, <4>3 DEF IsEmpty
      <4>5. rows' \in [Seeding!Table -> 0..MaxRows]
        BY <1>0, <4>1, <4>2
      <4>6. /\ users' \subseteq Seeded \cup Guest /\ settings' \subseteq users' /\ keys' \subseteq Key
        BY <1>0, <4>2
      <4>7. stage = Emptying(x) /\ x = Piece(x) /\ IsEmpty(x)' /\ Others(x)
        BY <2>4, <3>2, <4>3, <4>4
      <4> QED BY <3>2, <4>5, <4>6, <4>7
    <3> QED BY <3>3, <3>4, <3>5
  <2> QED BY <1>6, <2>2, <2>3, <2>4
<1> QED BY <1>1, <1>2, <1>3, <1>4, <1>5, <1>6 DEF StageName

LEMMA DoKeepsSeed ==
  ASSUME SeedAssumption, SeedInv, NEW x \in left, Seeding!Do(x)
  PROVE  SeedInv'
<1>1. stage' = stage /\ left' = left \ {x} /\ runs' = runs
  BY DEF Seeding!Do
<1>2. disturbed' = disturbed
  BY DEF Seeding!Do
<1>3. Seeding!SeedTypeOK'
  BY <1>1, <1>2, DoIsOnePart DEF SeedInv, Seeding!SeedTypeOK
<1>4. SeedProgress'
  <2> SUFFICES ASSUME stage # "off", ~disturbed, NEW y \in Stored
               PROVE  /\ At(Emptying(y)) < At(stage) /\ At(stage) < At(y) => IsEmpty(y)'
                      /\ stage = Emptying(y) /\ Piece(y) \notin left' => IsEmpty(y)'
                      /\ stage = y => IsFilled(y, left)'
                      /\ At(y) < At(stage) => IsFilled(y, {})'
    BY <1>1, <1>2 DEF SeedProgress
  <2>1. /\ At(Emptying(y)) < At(stage) /\ At(stage) < At(y) => IsEmpty(y)
        /\ stage = Emptying(y) /\ Piece(y) \notin left => IsEmpty(y)
        /\ stage = y => IsFilled(y, left)
        /\ At(y) < At(stage) => IsFilled(y, {})
    BY DEF SeedInv, SeedProgress
  <2>2. PICK p \in Stored :
          /\ Others(p)
          /\ \/ stage = p /\ (IsFilled(p, left) => IsFilled(p, left)')
             \/ stage = Emptying(p) /\ x = Piece(p) /\ IsEmpty(p)'
    BY DoIsOnePart
  <2>3. At(Emptying(y)) \in 1..3 /\ At(y) \in 4..13
        /\ At(Emptying(p)) \in 1..3 /\ At(p) \in 4..13
        /\ (Emptying(p) = Emptying(y) /\ Piece(p) = Piece(y) => p = y)
    BY PartsAtStages
  <2>4. CASE y # p
    <3>1. (IsEmpty(y)' <=> IsEmpty(y)) /\ \A rest : IsFilled(y, rest)' <=> IsFilled(y, rest)
      BY <2>2, <2>4 DEF Others
    <3>2. stage # y
      <4>1. stage = p \/ stage = Emptying(p)
        BY <2>2
      <4>2. Emptying(p) # y
        BY <2>3
      <4> QED BY <2>4, <4>1, <4>2
    <3>3. stage = Emptying(y) /\ Piece(y) \notin left' => Piece(y) \notin left
      <4> SUFFICES ASSUME stage = Emptying(y), Piece(y) = x PROVE FALSE
        BY <1>1
      <4>1. stage # p
        BY <2>3
      <4> QED BY <2>2, <2>3, <2>4, <4>1
    <3> QED BY <2>1, <3>1, <3>2, <3>3
  <2>5. CASE y = p
    BY <2>1, <2>2, <2>3, <2>5
  <2> QED BY <2>4, <2>5
<1> QED BY <1>1, <1>3, <1>4 DEF SeedInv

LEMMA SeedNext ==
  ASSUME SeedAssumption, SeedInv, [Seeding!Next]_(Seeding!vars)
  PROVE  SeedInv'
<1>1. CASE UNCHANGED Seeding!vars
  BY <1>1 DEF Seeding!vars, SeedInv, Seeding!SeedTypeOK, SeedProgress, IsEmpty, IsFilled
<1> QED BY <1>1, BackendDisturbs, StartKeepsSeed, DoKeepsSeed, ProceedKeepsSeed, FailKeepsSeed
        DEF Seeding!Next

(* A seed that has ended. *)
LEMMA SeedShown == ASSUME SeedAssumption, SeedInv PROVE Seeding!SeedConverges
<1> SUFFICES ASSUME stage = "done", ~disturbed
             PROVE  users = Seeded /\ settings = Seeded /\ keys = Key /\ rows = Amount
  BY DEF Seeding!SeedConverges
<1>1. \A x \in Stored \ {"report"} : IsFilled(x, {})
  BY PartsNamed, Numbered DEF SeedInv, SeedProgress
<1>2. IsEmpty("report")
  BY PartsNamed, Numbered DEF SeedInv, SeedProgress
<1>3. users = Seeded /\ settings = Seeded /\ keys = Key
  BY <1>1 DEF Stored, IsFilled
<1>4. rows \in [Seeding!Table -> Int] /\ Amount \in [Seeding!Table -> Nat]
  BY DEF SeedInv, Seeding!SeedTypeOK, SeedAssumption
<1>5. ASSUME NEW t \in Seeding!Table PROVE rows[t] = Amount[t]
  <2>1. CASE t = "report"
    BY <1>2, <2>1 DEF IsEmpty, SeedAssumption
  <2>2. CASE t # "report"
    <3>1. IsFilled(t, {}) /\ t \notin {"users", "settings", "keys"}
      BY <1>1, <2>2 DEF Stored, Seeding!Table
    <3>2. rows[t] + Cardinality({}) = Amount[t]
      BY <3>1 DEF IsFilled
    <3>3. Cardinality({}) = 0
      BY FS_EmptySet
    <3> QED BY <1>4, <3>2, <3>3
  <2> QED BY <2>1, <2>2
<1> QED BY <1>3, <1>4, <1>5

(* A seed that has ended undisturbed leaves exactly the seeded data,       *)
(* whatever was there before and however many seeds were cut short         *)
(* (seed.ts main).                                                         *)
THEOREM SeedEndsWell == ASSUME SeedAssumption PROVE Seeding!Spec => []Seeding!SeedConverges
  BY SeedInit, SeedNext, SeedShown, PTL DEF Seeding!Spec

-------------------------------------------------------------------------------
(* Scorer.  A log without a reason to name stays below the threshold: it   *)
(* comes to 44 at most.                                                    *)
ScoresAssumption == Estimate \subseteq 0..100 /\ DestPort \subseteq Nat

LEMMA ScoresInit == Scores!Init => Scores!ScorerTypeOK
<1> SUFFICES ASSUME Scores!Init PROVE Scores!ScorerTypeOK
  OBVIOUS
<1>1. PICK a \in Estimate, p \in DestPort :
        event = [failure |-> FALSE, country |-> "OTHER", port |-> p, severity |-> "LOW",
                 oddHour |-> FALSE, stopped |-> FALSE, risky |-> FALSE, anomaly |-> a,
                 shap |-> 0]
  BY DEF Scores!Init
<1>2. FALSE \in BOOLEAN
  OBVIOUS
<1>3. DOMAIN event = DOMAIN Scores!Domain
  BY <1>1 DEF Scores!Domain
<1>4. /\ event.failure \in BOOLEAN /\ event.country \in {"RISKY", "UNKNOWN", "OTHER"}
      /\ event.port \in DestPort /\ event.severity \in Scores!Severity \cup {"OTHER"}
      /\ event.oddHour \in BOOLEAN /\ event.stopped \in BOOLEAN /\ event.risky \in BOOLEAN
      /\ event.anomaly \in Estimate /\ event.shap \in {0, 3}
  BY <1>1, <1>2 DEF Scores!Severity
<1>5. \A f \in DOMAIN Scores!Domain : event[f] \in Scores!Domain[f]
  BY <1>4 DEF Scores!Domain
<1> QED BY <1>3, <1>5 DEF Scores!ScorerTypeOK

LEMMA ScoresNext == Scores!ScorerTypeOK /\ [Scores!Next]_event => Scores!ScorerTypeOK'
<1> SUFFICES ASSUME Scores!ScorerTypeOK, [Scores!Next]_event PROVE Scores!ScorerTypeOK'
  OBVIOUS
<1>1. CASE Scores!Next
  <2>1. PICK f \in DOMAIN Scores!Domain : \E v \in Scores!Domain[f] : Scores!Change(f, v)
    BY <1>1 DEF Scores!Next
  <2>2. PICK v \in Scores!Domain[f] : event' = [event EXCEPT ![f] = v]
    BY <2>1 DEF Scores!Change
  <2>3. DOMAIN event' = DOMAIN event
        /\ \A g \in DOMAIN event : event'[g] = IF g = f THEN v ELSE event[g]
    BY <2>2
  <2> QED BY <2>3 DEF Scores!ScorerTypeOK, Scores!Domain
<1>2. CASE UNCHANGED event
  BY <1>2 DEF Scores!ScorerTypeOK, Scores!Domain
<1> QED BY <1>1, <1>2

(* Every weight of the scorer. *)
LEMMA PortWeighs == \A p \in Nat : Scores!PortRisk(p) \in 10..90
<1> SUFFICES ASSUME NEW p \in Nat PROVE Scores!PortRisk(p) \in 10..90
  OBVIOUS
<1>1. CASE p \in DOMAIN Scores!KnownPorts
  BY <1>1 DEF Scores!PortRisk, Scores!KnownPorts
<1>2. CASE p \notin DOMAIN Scores!KnownPorts /\ p <= 1024
  BY <1>2 DEF Scores!PortRisk
<1>3. CASE p \notin DOMAIN Scores!KnownPorts /\ p > 1024
  <2> DEFINE falling == 50 - (100 * (p - 1024)) \div 65535
  <2>1. falling \in Int /\ falling <= 50
    BY <1>3
  <2>2. Scores!PortRisk(p) = IF falling > 10 THEN falling ELSE 10
    BY <1>3 DEF Scores!PortRisk
  <2> HIDE DEF falling
  <2> QED BY <2>1, <2>2
<1> QED BY <1>1, <1>2, <1>3

LEMMA OthersWeigh ==
    /\ \A c : Scores!CountryRisk(c) \in {10, 30, 100}
    /\ \A c : c # "RISKY" => Scores!CountryRisk(c) <= 30
    /\ \A s : Scores!SeverityRisk(s) \in {10, 30, 70, 100}
    /\ \A s : s \notin {"HIGH", "CRITICAL"} => Scores!SeverityRisk(s) <= 30
  BY DEF Scores!CountryRisk, Scores!SeverityRisk

LEMMA Rounds ==
    \A r \in Nat : /\ Scores!Rounded(r) \in Nat
                   /\ 100 * Scores!Rounded(r) <= r + 50
  BY DEF Scores!Rounded

LEMMA ScoresFit ==
  ASSUME ScoresAssumption, Scores!ScorerTypeOK PROVE Scores!AlertHasCause
<1>1. /\ event.failure \in BOOLEAN /\ event.port \in Nat /\ event.anomaly \in 0..100
      /\ event.shap \in {0, 3}
  BY DEF ScoresAssumption, Scores!ScorerTypeOK, Scores!Domain
<1>2. Scores!IsAnomaly <=> Scores!NeedsAlert(Scores!ThreatScore)
  BY DEF Scores!IsAnomaly, Scores!NeedsAlert, Scores!AlertThreshold
<1>3. ASSUME Scores!Heuristics = {} PROVE Scores!ThreatScore \in 0..44
  <2>1. /\ ~event.failure /\ event.country # "RISKY" /\ ~(Scores!PortRisk(event.port) >= 70)
        /\ event.severity \notin {"HIGH", "CRITICAL"} /\ ~(event.anomaly >= 70)
    BY <1>3 DEF Scores!Heuristics, Scores!Cause, Scores!Holds
  <2> DEFINE c == Scores!CountryRisk(event.country)
             p == Scores!PortRisk(event.port)
             s == Scores!SeverityRisk(event.severity)
  <2>2. c \in 0..30 /\ p \in 0..69 /\ s \in 0..30 /\ event.anomaly \in 0..69
    BY <1>1, <2>1, PortWeighs, OthersWeigh
  <2>3. Scores!Raw = 35 * event.anomaly + 0 + 15 * (c + p + s)
    BY <2>1 DEF Scores!Raw
  <2> HIDE DEF c, p, s
  <2>4. Scores!Raw \in Nat /\ Scores!Raw <= 4350
    BY <2>2, <2>3
  <2>5. Scores!Rounded(Scores!Raw) \in Nat /\ Scores!Rounded(Scores!Raw) <= 44
    BY <2>4, Rounds
  <2> QED BY <2>5 DEF Scores!ThreatScore
<1>4. IsFiniteSet(Scores!Heuristics)
  <2>1. IsFiniteSet({"country"} \cup {"failure"} \cup {"hour"} \cup {"port"} \cup {"action"}
                      \cup {"severity"} \cup {"anomaly"} \cup {"protocol"})
    BY FS_Singleton, FS_Union
  <2>2. Scores!Heuristics \subseteq {"country"} \cup {"failure"} \cup {"hour"} \cup {"port"}
                      \cup {"action"} \cup {"severity"} \cup {"anomaly"} \cup {"protocol"}
    BY DEF Scores!Heuristics, Scores!Cause
  <2> QED BY <2>1, <2>2, FS_Subset
<1>5. ASSUME Scores!Heuristics # {} PROVE Scores!NamedReasons \in 1..5
  <2>1. Scores!Cardinality(Scores!Heuristics) = Cardinality(Scores!Heuristics)
    BY DEF Scores!Cardinality, Cardinality
  <2>2. Scores!Cardinality(Scores!Heuristics) \in Nat \ {0}
    BY <1>4, <1>5, <2>1, FS_CardinalityType, FS_EmptySet
  <2> QED BY <1>1, <2>2 DEF Scores!NamedReasons
<1> QED BY <1>2, <1>3, <1>5 DEF Scores!AlertHasCause, Scores!NeedsAlert, Scores!AlertThreshold

-------------------------------------------------------------------------------
(* LogIntake.  A log of the collector is what an event was normalized to,  *)
(* one of the form passes the backend, and an alert is of the score that   *)
(* the service gave to a log it could read.                                *)
EventId == UNION {Intake!Queried[channel] : channel \in DOMAIN Intake!Queried}

Collected(l) ==
    \E id \in EventId, logon \in DOMAIN Intake!LogonPort, p \in RawPort \cup {Intake!NoPort} :
       l = Intake!Normalized(id, logon, p)

Fields == {"from", "eventType", "action", "severity", "source", "port", "sourcePort",
           "country", "blank", "claimed"}

LogFits ==
    /\ entry.from # "nobody" => DOMAIN entry = Fields
    /\ entry.from \in {"nobody", "collector", "form", "upload", "client"}
    /\ entry.from = "collector" => Collected(entry)
    /\ entry.from = "form" => Intake!Accepted(entry)
    /\ entry.from = "form" => entry.claimed = 0

StageFits ==
    /\ reached \in {"none", "posted"} => alarm = Intake!NoAlert
    /\ reached = "refused" => ~Intake!Accepted(entry)
    /\ reached # "none" => entry.from # "nobody"
    /\ reached \in {"stored", "stumbled"} => threat = entry.claimed
    /\ reached \in {"unjudged", "unanswered"} => threat = 0
    /\ reached = "unjudged" => ~Intake!EntryValid(entry)

AlertFits ==
    alarm # Intake!NoAlert =>
        /\ reached = "judged"
        /\ Intake!NeedsAlert(threat)
        /\ \E a \in Outlier : threat = Intake!ThreatOf(entry, a)
        /\ alarm = [type |-> Intake!AlertTypeOf(entry.eventType),
                    severity |-> Intake!SeverityOf(threat)]

IntakeInv == LogFits /\ StageFits /\ AlertFits

IntakeAssumption == Outlier \subseteq 0..100

(* A composite score, of the weights of Scorer. *)
Fails(l) == IF l.eventType \in {"LOGIN_FAILURE", "Login_Failure"} THEN 2000 ELSE 0
Weights(l) == Scores!CountryRisk(l.country) + Scores!PortRisk(l.port)
                + Scores!SeverityRisk(l.severity)
Rates(r, score) == \E n \in Nat : /\ 100 * n <= r + 50
                                  /\ score = IF n > 100 THEN 100 ELSE n

LEMMA ThreatIs ==
  ASSUME NEW l, l.port \in Nat, NEW a \in 0..100
  PROVE  /\ Weights(l) \in 30..290 /\ Fails(l) \in {0, 2000}
         /\ Rates(35 * a + Fails(l) + 15 * Weights(l), Intake!ThreatOf(l, a))
<1> DEFINE s == Intake!Seen(l, a)
           c == Scores!CountryRisk(l.country)
           p == Scores!PortRisk(l.port)
           w == Scores!SeverityRisk(l.severity)
           r == 35 * a + Fails(l) + 15 * Weights(l)
<1>1. /\ Intake!Verdict(s)!CountryRisk(l.country) = c
      /\ Intake!Verdict(s)!SeverityRisk(l.severity) = w
      /\ Intake!Verdict(s)!PortRisk(l.port) = p
      /\ Intake!Verdict(s)!Rounded(r) = Scores!Rounded(r)
  BY DEF Intake!Verdict!CountryRisk, Intake!Verdict!SeverityRisk, Intake!Verdict!PortRisk,
     Intake!Verdict!KnownPorts, Intake!Verdict!Rounded, Scores!CountryRisk,
     Scores!SeverityRisk, Scores!PortRisk, Scores!KnownPorts, Scores!Rounded
<1>2. /\ s.anomaly = a /\ s.country = l.country /\ s.port = l.port /\ s.severity = l.severity
  BY DEF Intake!Seen
<1>3. /\ c \in {10, 30, 100} /\ p \in 10..90 /\ w \in {10, 30, 70, 100}
      /\ Weights(l) = c + p + w
  BY OthersWeigh, PortWeighs DEF Weights
<1> HIDE DEF c, p, w
<1>4. Weights(l) \in 30..290
  BY <1>3
<1>5. Fails(l) \in {0, 2000}
  BY DEF Fails
<1>6. Fails(l) = IF s.failure THEN 2000 ELSE 0
  <2> DEFINE b == l.eventType \in {"LOGIN_FAILURE", "Login_Failure"}
  <2>1. b \in BOOLEAN /\ Fails(l) = IF b THEN 2000 ELSE 0
    BY DEF Fails
  <2> HIDE DEF b
  <2>2. s.failure = b
    BY Zenon DEF Intake!Seen, b
  <2> HIDE DEF s
  <2>3. CASE b
    <3>1. s.failure = TRUE
      BY Zenon, <2>1, <2>2, <2>3
    <3> QED BY <2>1, <2>3, <3>1
  <2>4. CASE ~b
    <3>1. s.failure = FALSE
      BY Zenon, <2>1, <2>2, <2>4
    <3> QED BY <2>1, <2>4, <3>1
  <2> QED BY <2>3, <2>4
<1> HIDE DEF s
<1>7. Intake!Verdict(s)!Raw = r
  <2>1. Intake!Verdict(s)!Raw =
          35 * s.anomaly + (IF s.failure THEN 2000 ELSE 0)
            + 15 * (Intake!Verdict(s)!CountryRisk(s.country)
                      + Intake!Verdict(s)!PortRisk(s.port)
                      + Intake!Verdict(s)!SeverityRisk(s.severity))
    BY Zenon DEF Intake!Verdict!Raw
  <2>2. Intake!Verdict(s)!Raw = 35 * a + Fails(l) + 15 * (c + p + w)
    BY <1>1, <1>2, <1>6, <2>1
  <2> QED BY <1>3, <2>2
<1>8. r \in Nat
  BY <1>4, <1>5
<1> HIDE DEF r
<1>9. Scores!Rounded(r) \in Nat /\ 100 * Scores!Rounded(r) <= r + 50
  BY <1>8, Rounds
<1>10. Intake!ThreatOf(l, a) = Intake!Verdict(s)!ThreatScore
  BY DEF Intake!ThreatOf, s
<1>11. Intake!ThreatOf(l, a) = IF Scores!Rounded(r) > 100 THEN 100 ELSE Scores!Rounded(r)
  BY <1>1, <1>7, <1>10 DEF Intake!Verdict!ThreatScore
<1>12. Rates(r, Intake!ThreatOf(l, a))
  BY <1>9, <1>11 DEF Rates
<1> QED BY <1>4, <1>5, <1>12 DEF r

(* The kinds of events of the collector. *)
KindFits(w) ==
    /\ w.action \in Intake!Action /\ w.severity \in Intake!Severity
    /\ w.source \in Intake!Source
    /\ w.eventType \notin {"absent", "Login_Failure"}

KindScores(id, w) ==
    /\ w.eventType \notin {"absent", "Login_Failure"}
    /\ id = 4624 => w.severity = "LOW"
    /\ id = 4625 => w.severity = "HIGH"
    /\ id = 4625 => w.eventType = "LOGIN_FAILURE"
    /\ id # 4625 => w.eventType # "LOGIN_FAILURE"

KindAlerts(w) ==
    w.severity = "CRITICAL" =>
          Intake!AlertTypeOf(w.eventType) =
              IF w.source = "ANTIVIRUS" THEN "MALWARE" ELSE "SUSPICIOUS_LOGIN"

LEMMA WindowsKinds ==
  ASSUME NEW id \in EventId
  PROVE  /\ KindFits(Intake!Windows[id]) /\ KindScores(id, Intake!Windows[id])
         /\ KindAlerts(Intake!Windows[id])
<1> DEFINE w == Intake!Windows[id]
<1>1. id \in {4624, 4625, 4634, 4648, 4672, 4688, 4720, 4726, 4740, 1116, 1117, 1000, 1001,
              1006, 1007, 1008, 1119, 5007, 7045, 7036, 10016, 41}
  BY DEF EventId, Intake!Queried
<1>2. id \in UNION {Intake!Queried[channel] : channel \in DOMAIN Intake!Queried}
  BY DEF EventId
<1>3. CASE id = 4624
  <2>1. w = Intake!Means("LOGIN_SUCCESS", "ALLOW", "LOW", "WINDOWS_SECURITY")
    BY <1>2, <1>3 DEF Intake!Windows
  <2>2. w.eventType = "LOGIN_SUCCESS" /\ w.action = "ALLOW" /\ w.severity = "LOW" /\ w.source = "WINDOWS_SECURITY"
    BY <2>1 DEF Intake!Means
  <2> HIDE DEF w
  <2>3. KindFits(w)
    BY <2>2 DEF KindFits, Intake!Action, Intake!Severity, Intake!Source
  <2>4. KindScores(id, w) /\ KindAlerts(w)
    BY <1>3, <2>2 DEF KindScores, KindAlerts, Intake!AlertTypeOf
  <2> QED BY <2>3, <2>4 DEF w
<1>4. CASE id = 4625
  <2>1. w = Intake!Means("LOGIN_FAILURE", "DENY", "HIGH", "WINDOWS_SECURITY")
    BY <1>2, <1>4 DEF Intake!Windows
  <2>2. w.eventType = "LOGIN_FAILURE" /\ w.action = "DENY" /\ w.severity = "HIGH" /\ w.source = "WINDOWS_SECURITY"
    BY <2>1 DEF Intake!Means
  <2> HIDE DEF w
  <2>3. KindFits(w)
    BY <2>2 DEF KindFits, Intake!Action, Intake!Severity, Intake!Source
  <2>4. KindScores(id, w) /\ KindAlerts(w)
    BY <1>4, <2>2 DEF KindScores, KindAlerts, Intake!AlertTypeOf
  <2> QED BY <2>3, <2>4 DEF w
<1>5. CASE id = 4634
  <2>1. w = Intake!Means("LOGOFF", "ALLOW", "LOW", "WINDOWS_SECURITY")
    BY <1>2, <1>5 DEF Intake!Windows
  <2>2. w.eventType = "LOGOFF" /\ w.action = "ALLOW" /\ w.severity = "LOW" /\ w.source = "WINDOWS_SECURITY"
    BY <2>1 DEF Intake!Means
  <2> HIDE DEF w
  <2>3. KindFits(w)
    BY <2>2 DEF KindFits, Intake!Action, Intake!Severity, Intake!Source
  <2>4. KindScores(id, w) /\ KindAlerts(w)
    BY <1>5, <2>2 DEF KindScores, KindAlerts, Intake!AlertTypeOf
  <2> QED BY <2>3, <2>4 DEF w
<1>6. CASE id = 4648
  <2>1. w = Intake!Means("EXPLICIT_CREDENTIAL_LOGON", "ALERT", "MEDIUM", "WINDOWS_SECURITY")
    BY <1>2, <1>6 DEF Intake!Windows
  <2>2. w.eventType = "EXPLICIT_CREDENTIAL_LOGON" /\ w.action = "ALERT" /\ w.severity = "MEDIUM" /\ w.source = "WINDOWS_SECURITY"
    BY <2>1 DEF Intake!Means
  <2> HIDE DEF w
  <2>3. KindFits(w)
    BY <2>2 DEF KindFits, Intake!Action, Intake!Severity, Intake!Source
  <2>4. KindScores(id, w) /\ KindAlerts(w)
    BY <1>6, <2>2 DEF KindScores, KindAlerts, Intake!AlertTypeOf
  <2> QED BY <2>3, <2>4 DEF w
<1>7. CASE id = 4672
  <2>1. w = Intake!Means("PRIVILEGE_ASSIGNED", "ALLOW", "MEDIUM", "WINDOWS_SECURITY")
    BY <1>2, <1>7 DEF Intake!Windows
  <2>2. w.eventType = "PRIVILEGE_ASSIGNED" /\ w.action = "ALLOW" /\ w.severity = "MEDIUM" /\ w.source = "WINDOWS_SECURITY"
    BY <2>1 DEF Intake!Means
  <2> HIDE DEF w
  <2>3. KindFits(w)
    BY <2>2 DEF KindFits, Intake!Action, Intake!Severity, Intake!Source
  <2>4. KindScores(id, w) /\ KindAlerts(w)
    BY <1>7, <2>2 DEF KindScores, KindAlerts, Intake!AlertTypeOf
  <2> QED BY <2>3, <2>4 DEF w
<1>8. CASE id = 4688
  <2>1. w = Intake!Means("PROCESS_CREATION", "ALLOW", "LOW", "WINDOWS_SECURITY")
    BY <1>2, <1>8 DEF Intake!Windows
  <2>2. w.eventType = "PROCESS_CREATION" /\ w.action = "ALLOW" /\ w.severity = "LOW" /\ w.source = "WINDOWS_SECURITY"
    BY <2>1 DEF Intake!Means
  <2> HIDE DEF w
  <2>3. KindFits(w)
    BY <2>2 DEF KindFits, Intake!Action, Intake!Severity, Intake!Source
  <2>4. KindScores(id, w) /\ KindAlerts(w)
    BY <1>8, <2>2 DEF KindScores, KindAlerts, Intake!AlertTypeOf
  <2> QED BY <2>3, <2>4 DEF w
<1>9. CASE id = 4720
  <2>1. w = Intake!Means("ACCOUNT_CREATED", "ALERT", "HIGH", "WINDOWS_SECURITY")
    BY <1>2, <1>9 DEF Intake!Windows
  <2>2. w.eventType = "ACCOUNT_CREATED" /\ w.action = "ALERT" /\ w.severity = "HIGH" /\ w.source = "WINDOWS_SECURITY"
    BY <2>1 DEF Intake!Means
  <2> HIDE DEF w
  <2>3. KindFits(w)
    BY <2>2 DEF KindFits, Intake!Action, Intake!Severity, Intake!Source
  <2>4. KindScores(id, w) /\ KindAlerts(w)
    BY <1>9, <2>2 DEF KindScores, KindAlerts, Intake!AlertTypeOf
  <2> QED BY <2>3, <2>4 DEF w
<1>10. CASE id = 4726
  <2>1. w = Intake!Means("ACCOUNT_DELETED", "ALERT", "HIGH", "WINDOWS_SECURITY")
    BY <1>2, <1>10 DEF Intake!Windows
  <2>2. w.eventType = "ACCOUNT_DELETED" /\ w.action = "ALERT" /\ w.severity = "HIGH" /\ w.source = "WINDOWS_SECURITY"
    BY <2>1 DEF Intake!Means
  <2> HIDE DEF w
  <2>3. KindFits(w)
    BY <2>2 DEF KindFits, Intake!Action, Intake!Severity, Intake!Source
  <2>4. KindScores(id, w) /\ KindAlerts(w)
    BY <1>10, <2>2 DEF KindScores, KindAlerts, Intake!AlertTypeOf
  <2> QED BY <2>3, <2>4 DEF w
<1>11. CASE id = 4740
  <2>1. w = Intake!Means("ACCOUNT_LOCKED", "DENY", "CRITICAL", "WINDOWS_SECURITY")
    BY <1>2, <1>11 DEF Intake!Windows
  <2>2. w.eventType = "ACCOUNT_LOCKED" /\ w.action = "DENY" /\ w.severity = "CRITICAL" /\ w.source = "WINDOWS_SECURITY"
    BY <2>1 DEF Intake!Means
  <2> HIDE DEF w
  <2>3. KindFits(w)
    BY <2>2 DEF KindFits, Intake!Action, Intake!Severity, Intake!Source
  <2>4. KindScores(id, w) /\ KindAlerts(w)
    BY <1>11, <2>2 DEF KindScores, KindAlerts, Intake!AlertTypeOf
  <2> QED BY <2>3, <2>4 DEF w
<1>12. CASE id = 1116
  <2>1. w = Intake!Means("MALWARE_DETECTED", "ALERT", "CRITICAL", "ANTIVIRUS")
    BY <1>2, <1>12 DEF Intake!Windows
  <2>2. w.eventType = "MALWARE_DETECTED" /\ w.action = "ALERT" /\ w.severity = "CRITICAL" /\ w.source = "ANTIVIRUS"
    BY <2>1 DEF Intake!Means
  <2> HIDE DEF w
  <2>3. KindFits(w)
    BY <2>2 DEF KindFits, Intake!Action, Intake!Severity, Intake!Source
  <2>4. KindScores(id, w) /\ KindAlerts(w)
    BY <1>12, <2>2 DEF KindScores, KindAlerts, Intake!AlertTypeOf
  <2> QED BY <2>3, <2>4 DEF w
<1>13. CASE id = 1117
  <2>1. w = Intake!Means("MALWARE_DETECTED", "DROP", "CRITICAL", "ANTIVIRUS")
    BY <1>2, <1>13 DEF Intake!Windows
  <2>2. w.eventType = "MALWARE_DETECTED" /\ w.action = "DROP" /\ w.severity = "CRITICAL" /\ w.source = "ANTIVIRUS"
    BY <2>1 DEF Intake!Means
  <2> HIDE DEF w
  <2>3. KindFits(w)
    BY <2>2 DEF KindFits, Intake!Action, Intake!Severity, Intake!Source
  <2>4. KindScores(id, w) /\ KindAlerts(w)
    BY <1>13, <2>2 DEF KindScores, KindAlerts, Intake!AlertTypeOf
  <2> QED BY <2>3, <2>4 DEF w
<1>14. CASE id = 5007
  <2>1. w = Intake!Means("CONFIG_CHANGE", "ALERT", "MEDIUM", "ANTIVIRUS")
    BY <1>2, <1>14 DEF Intake!Windows
  <2>2. w.eventType = "CONFIG_CHANGE" /\ w.action = "ALERT" /\ w.severity = "MEDIUM" /\ w.source = "ANTIVIRUS"
    BY <2>1 DEF Intake!Means
  <2> HIDE DEF w
  <2>3. KindFits(w)
    BY <2>2 DEF KindFits, Intake!Action, Intake!Severity, Intake!Source
  <2>4. KindScores(id, w) /\ KindAlerts(w)
    BY <1>14, <2>2 DEF KindScores, KindAlerts, Intake!AlertTypeOf
  <2> QED BY <2>3, <2>4 DEF w
<1>15. CASE id = 7045
  <2>1. w = Intake!Means("SERVICE_INSTALLED", "ALERT", "HIGH", "WINDOWS_SECURITY")
    BY <1>2, <1>15 DEF Intake!Windows
  <2>2. w.eventType = "SERVICE_INSTALLED" /\ w.action = "ALERT" /\ w.severity = "HIGH" /\ w.source = "WINDOWS_SECURITY"
    BY <2>1 DEF Intake!Means
  <2> HIDE DEF w
  <2>3. KindFits(w)
    BY <2>2 DEF KindFits, Intake!Action, Intake!Severity, Intake!Source
  <2>4. KindScores(id, w) /\ KindAlerts(w)
    BY <1>15, <2>2 DEF KindScores, KindAlerts, Intake!AlertTypeOf
  <2> QED BY <2>3, <2>4 DEF w
<1>16. CASE id = 10016
  <2>1. w = Intake!Means("PERMISSION_DENIED", "DENY", "MEDIUM", "WINDOWS_SECURITY")
    BY <1>2, <1>16 DEF Intake!Windows
  <2>2. w.eventType = "PERMISSION_DENIED" /\ w.action = "DENY" /\ w.severity = "MEDIUM" /\ w.source = "WINDOWS_SECURITY"
    BY <2>1 DEF Intake!Means
  <2> HIDE DEF w
  <2>3. KindFits(w)
    BY <2>2 DEF KindFits, Intake!Action, Intake!Severity, Intake!Source
  <2>4. KindScores(id, w) /\ KindAlerts(w)
    BY <1>16, <2>2 DEF KindScores, KindAlerts, Intake!AlertTypeOf
  <2> QED BY <2>3, <2>4 DEF w
<1>17. CASE id = 7036
  <2>1. w = Intake!Means("SERVICE_STATUS_CHANGE", "ALLOW", "LOW", "SERVER")
    BY <1>2, <1>17 DEF Intake!Windows
  <2>2. w.eventType = "SERVICE_STATUS_CHANGE" /\ w.action = "ALLOW" /\ w.severity = "LOW" /\ w.source = "SERVER"
    BY <2>1 DEF Intake!Means
  <2> HIDE DEF w
  <2>3. KindFits(w)
    BY <2>2 DEF KindFits, Intake!Action, Intake!Severity, Intake!Source
  <2>4. KindScores(id, w) /\ KindAlerts(w)
    BY <1>17, <2>2 DEF KindScores, KindAlerts, Intake!AlertTypeOf
  <2> QED BY <2>3, <2>4 DEF w
<1>18. CASE id = 41
  <2>1. w = Intake!Means("SYSTEM_SHUTDOWN", "ALERT", "MEDIUM", "SERVER")
    BY <1>2, <1>18 DEF Intake!Windows
  <2>2. w.eventType = "SYSTEM_SHUTDOWN" /\ w.action = "ALERT" /\ w.severity = "MEDIUM" /\ w.source = "SERVER"
    BY <2>1 DEF Intake!Means
  <2> HIDE DEF w
  <2>3. KindFits(w)
    BY <2>2 DEF KindFits, Intake!Action, Intake!Severity, Intake!Source
  <2>4. KindScores(id, w) /\ KindAlerts(w)
    BY <1>18, <2>2 DEF KindScores, KindAlerts, Intake!AlertTypeOf
  <2> QED BY <2>3, <2>4 DEF w
<1>19. CASE id \in {1000, 1001}
  <2>1. w = Intake!Means("ANTIVIRUS_SCAN", "ALLOW", "LOW", "ANTIVIRUS")
    BY <1>2, <1>19 DEF Intake!Windows
  <2>2. w.eventType = "ANTIVIRUS_SCAN" /\ w.action = "ALLOW" /\ w.severity = "LOW" /\ w.source = "ANTIVIRUS"
    BY <2>1 DEF Intake!Means
  <2> HIDE DEF w
  <2>3. KindFits(w)
    BY <2>2 DEF KindFits, Intake!Action, Intake!Severity, Intake!Source
  <2>4. KindScores(id, w) /\ KindAlerts(w)
    BY <1>19, <2>2 DEF KindScores, KindAlerts, Intake!AlertTypeOf
  <2> QED BY <2>3, <2>4 DEF w
<1>20. CASE id \in {1006, 1007, 1008, 1119}
  <2>1. w = Intake!Means("ANTIVIRUS_EVENT", "ALLOW", "LOW", "ANTIVIRUS")
    BY <1>2, <1>20 DEF Intake!Windows
  <2>2. w.eventType = "ANTIVIRUS_EVENT" /\ w.action = "ALLOW" /\ w.severity = "LOW" /\ w.source = "ANTIVIRUS"
    BY <2>1 DEF Intake!Means
  <2> HIDE DEF w
  <2>3. KindFits(w)
    BY <2>2 DEF KindFits, Intake!Action, Intake!Severity, Intake!Source
  <2>4. KindScores(id, w) /\ KindAlerts(w)
    BY <1>20, <2>2 DEF KindScores, KindAlerts, Intake!AlertTypeOf
  <2> QED BY <2>3, <2>4 DEF w
<1> QED BY <1>1, <1>3, <1>4, <1>5, <1>6, <1>7, <1>8, <1>9, <1>10, <1>11, <1>12, <1>13, <1>14, <1>15, <1>16, <1>17, <1>18, <1>19, <1>20

(* What a log of the collector says, and what it can score. *)
LEMMA CollectedShape ==
  ASSUME NEW l, Collected(l)
  PROVE  /\ l.from = "collector" /\ Intake!Accepted(l) /\ Intake!EntryValid(l)
         /\ Intake!Row(l) = l /\ l.claimed = 0 /\ DOMAIN l = Fields
         /\ l.port \in Nat /\ l.country = "UNKNOWN"
         /\ \E id \in EventId :
               /\ KindScores(id, l) /\ KindAlerts(l)
               /\ l.port \in {0, 445, 3389}
               /\ id \notin {4624, 4625} => l.port = 0
<1>1. PICK id \in EventId, logon \in DOMAIN Intake!LogonPort,
           p \in RawPort \cup {Intake!NoPort} :
              l = Intake!Normalized(id, logon, p)
  BY DEF Collected
<1> DEFINE w == Intake!Windows[id]
           q == IF id \in {4624, 4625} THEN Intake!LogonPort[logon] ELSE 0
           sp == Intake!SanitizedPort(p)
<1>2. KindFits(w) /\ KindScores(id, w) /\ KindAlerts(w)
  BY WindowsKinds
<1>3. l = [from |-> "collector", eventType |-> w.eventType, action |-> w.action,
           severity |-> w.severity, source |-> w.source, port |-> q, sourcePort |-> sp,
           country |-> "UNKNOWN", blank |-> FALSE, claimed |-> 0]
  BY <1>1 DEF Intake!Normalized
<1>4. sp \in 0..65535
  BY DEF Intake!SanitizedPort, Intake!PortNumber
<1>5. q \in {0, 445, 3389} /\ (id \notin {4624, 4625} => q = 0)
  BY DEF Intake!LogonPort
<1> HIDE DEF w, q, sp
<1>6. /\ l.eventType = w.eventType /\ l.action = w.action /\ l.severity = w.severity
      /\ l.source = w.source /\ l.sourcePort = sp /\ l.blank = FALSE
      /\ l.from = "collector" /\ l.country = "UNKNOWN" /\ l.claimed = 0
      /\ l.port = q
  BY <1>3
<1>7. KindScores(id, l) /\ KindAlerts(l)
  <2>1. KindScores(id, l)
    BY <1>2, <1>6 DEF KindScores
  <2>2. KindAlerts(l)
    BY <1>2, <1>6 DEF KindAlerts
  <2> QED BY <2>1, <2>2
<1>8. Intake!Accepted(l)
  BY <1>2, <1>6 DEF Intake!Accepted, KindFits
<1>9. Intake!EntryValid(l)
  BY <1>4, <1>5, <1>6 DEF Intake!EntryValid, Intake!PortNumber
<1>10. Intake!Row(l) = l
  <2>1. Intake!NumberOr0(q) = q /\ Intake!NumberOr0(sp) = sp
    <3>1. q \in Nat /\ sp \in Nat
      <4>1. q \in Nat
        BY <1>5
      <4>2. sp \in Nat
        BY <1>4
      <4> QED BY <4>1, <4>2
    <3>2. Intake!NoPort \notin Nat
      BY DEF Intake!NoPort
    <3>3. q # Intake!NoPort /\ sp # Intake!NoPort
      BY <3>1, <3>2
    <3> QED BY <3>3 DEF Intake!NumberOr0
  <2>2. Intake!Row(l) = [l EXCEPT !.port = q, !.sourcePort = sp]
    BY <1>6, <2>1 DEF Intake!Row
  <2> QED BY <1>3, <2>2
<1>11. l.port \in Nat
  BY <1>5, <1>6
<1>12. DOMAIN l = Fields
  BY <1>3 DEF Fields
<1> QED BY <1>5, <1>6, <1>7, <1>8, <1>9, <1>10, <1>11, <1>12

LEMMA CollectedScore ==
  ASSUME NEW l, Collected(l), NEW a \in 0..100
  PROVE  LET t == Intake!ThreatOf(l, a) IN
         /\ t \in Nat
         /\ l.eventType = "LOGIN_FAILURE" => t < 85
         /\ l.eventType # "LOGIN_FAILURE" => /\ l.severity = "CRITICAL" \/ t < 60
                                             /\ t < 70 /\ (a <= 97 => t < 60)
<1> DEFINE t == Intake!ThreatOf(l, a)
           p == Scores!PortRisk(l.port)
           v == Scores!SeverityRisk(l.severity)
<1>1. PICK id \in EventId : /\ KindScores(id, l) /\ l.port \in {0, 445, 3389}
                            /\ id \notin {4624, 4625} => l.port = 0
  BY CollectedShape
<1>2. l.port \in Nat /\ l.country = "UNKNOWN"
  BY CollectedShape
<1>3. PICK n \in Nat : /\ 100 * n <= 35 * a + Fails(l) + 15 * Weights(l) + 50
                       /\ Intake!ThreatOf(l, a) = IF n > 100 THEN 100 ELSE n
  <2>1. Rates(35 * a + Fails(l) + 15 * Weights(l), Intake!ThreatOf(l, a))
    BY <1>2, ThreatIs
  <2> QED BY <2>1 DEF Rates
<1>4. Weights(l) = 30 + p + v
  BY <1>2 DEF Weights, Scores!CountryRisk
<1>5. /\ p \in {40, 80} /\ (l.port = 0 => p = 40)
  BY <1>1 DEF Scores!PortRisk, Scores!KnownPorts
<1>6. /\ v \in {10, 30, 70, 100} /\ (l.severity = "LOW" => v = 10)
      /\ (l.severity = "HIGH" => v = 70) /\ (l.severity # "CRITICAL" => v <= 70)
  BY OthersWeigh DEF Scores!SeverityRisk
<1>7. t = IF n > 100 THEN 100 ELSE n
  BY <1>3
<1>8. /\ id = 4624 => l.severity = "LOW"
      /\ id = 4625 => l.severity = "HIGH"
      /\ id = 4625 => l.eventType = "LOGIN_FAILURE" /\ Fails(l) = 2000
      /\ id # 4625 => l.eventType # "LOGIN_FAILURE" /\ Fails(l) = 0
  BY <1>1 DEF KindScores, Fails
<1> HIDE DEF t, p, v
<1>9. CASE id = 4625
  <2>1. n <= 82
    BY <1>3, <1>4, <1>5, <1>6, <1>8, <1>9
  <2> QED BY <1>7, <1>8, <1>9, <2>1 DEF t
<1>10. CASE id = 4624
  <2>1. n <= 53
    BY <1>3, <1>4, <1>5, <1>6, <1>8, <1>10
  <2> QED BY <1>7, <1>8, <1>10, <2>1 DEF t
<1>11. CASE id \notin {4624, 4625}
  <2>1. p = 40 /\ Fails(l) = 0
    BY <1>1, <1>5, <1>8, <1>11
  <2>2. n <= 61 /\ (a <= 97 => n <= 59) /\ (v <= 70 => n <= 56)
    BY <1>3, <1>4, <1>6, <2>1
  <2> QED BY <1>6, <1>7, <1>8, <1>11, <2>2 DEF t
<1> QED BY <1>9, <1>10, <1>11

LEMMA IntakeInit == Intake!Init => IntakeInv
  BY DEF Intake!Init, IntakeInv, LogFits, StageFits, AlertFits, Intake!NoLog, Intake!NoAlert

(* The senders. *)
LEMMA SenderKeeps ==
  ASSUME IntakeInv,
         Intake!Collect \/ Intake!SubmitForm \/ Intake!Upload \/ Intake!PostDirectly
  PROVE  IntakeInv'
<1>1. ASSUME NEW l, Intake!Send(l), DOMAIN l = Fields, l.from \in {"collector", "form", "upload", "client"},
             l.from = "collector" => Collected(l),
             l.from = "form" => Intake!Accepted(l) /\ l.claimed = 0
      PROVE  IntakeInv'
  <2>1. reached = "none" /\ entry' = l /\ reached' = "posted" /\ alarm' = alarm
    BY <1>1 DEF Intake!Send
  <2>2. alarm = Intake!NoAlert
    BY <2>1 DEF IntakeInv, StageFits
  <2>3. LogFits'
    BY <1>1, <2>1 DEF LogFits
  <2>4. StageFits'
    BY <1>1, <2>1, <2>2 DEF StageFits
  <2>5. AlertFits'
    BY <2>1, <2>2 DEF AlertFits
  <2> QED BY <2>3, <2>4, <2>5 DEF IntakeInv
<1>2. CASE Intake!Collect
  <2>1. PICK channel \in DOMAIN Intake!Queried : \E id \in Intake!Queried[channel],
             logon \in DOMAIN Intake!LogonPort, p \in RawPort \cup {Intake!NoPort} :
                Intake!Send(Intake!Normalized(id, logon, p))
    BY <1>2 DEF Intake!Collect
  <2>2. PICK id \in Intake!Queried[channel], logon \in DOMAIN Intake!LogonPort,
             p \in RawPort \cup {Intake!NoPort} : Intake!Send(Intake!Normalized(id, logon, p))
    BY <2>1
  <2> DEFINE l == Intake!Normalized(id, logon, p)
  <2>3. Collected(l)
    BY DEF Collected, EventId
  <2> HIDE DEF l
  <2>4. Intake!Send(l)
    BY <2>2 DEF l
  <2>5. l.from = "collector" /\ DOMAIN l = Fields
    BY <2>3, CollectedShape
  <2> QED BY <1>1, <2>3, <2>4, <2>5
<1>3. CASE Intake!SubmitForm
  <2>1. PICK l \in Intake!FormLogs : Intake!Send(l)
    BY <1>3 DEF Intake!SubmitForm
  <2>2. /\ l.from = "form" /\ l.eventType \in Intake!FormEvents /\ l.action \in Intake!Action
        /\ l.severity \in Intake!Severity /\ l.source \in Intake!Source /\ l.blank = FALSE
        /\ l.claimed = 0 /\ DOMAIN l = Fields
    BY DEF Intake!FormLogs, Fields
  <2>3. l.eventType # "absent"
    BY <2>2 DEF Intake!FormEvents
  <2>4. Intake!Accepted(l)
    BY <2>2, <2>3 DEF Intake!Accepted
  <2> QED BY <1>1, <2>1, <2>2, <2>4
<1>4. CASE Intake!Upload
  <2>1. PICK w \in Intake!Written : Intake!Send(Intake!Cleaned(w))
    BY <1>4 DEF Intake!Upload
  <2>2. DOMAIN w = Fields
    BY DEF Intake!Written, Fields
  <2>3. Intake!Cleaned(w).from = "upload" /\ DOMAIN Intake!Cleaned(w) = Fields
    BY <2>2 DEF Intake!Cleaned, Fields
  <2> QED BY <1>1, <2>1, <2>3
<1>5. CASE Intake!PostDirectly
  <2>1. PICK w \in Intake!Written : Intake!Send(w)
    BY <1>5 DEF Intake!PostDirectly
  <2>2. w.from = "client" /\ DOMAIN w = Fields
    BY DEF Intake!Written, Fields
  <2> QED BY <1>1, <2>1, <2>2
<1> QED BY <1>2, <1>3, <1>4, <1>5

(* The backend and the worker. *)
LEMMA WorkerKeeps ==
  ASSUME IntakeInv,
         \/ Intake!Receive \/ Intake!GoWithout \/ Intake!Stumble \/ Intake!TakeNext
         \/ \E a \in Outlier : Intake!Judge(a)
  PROVE  IntakeInv'
<1>1. CASE Intake!Receive
  <2>1. reached = "posted" /\ alarm' = alarm /\ alarm = Intake!NoAlert
    BY <1>1 DEF Intake!Receive, IntakeInv, StageFits
  <2>2. CASE ~Intake!Accepted(entry) /\ reached' = "refused" /\ UNCHANGED <<entry, threat>>
    BY <2>1, <2>2 DEF IntakeInv, LogFits, StageFits, AlertFits
  <2>3. CASE /\ Intake!Accepted(entry) /\ reached' = "stored" /\ entry' = Intake!Row(entry)
             /\ threat' = entry.claimed
    <3>1. entry.from # "nobody" /\ DOMAIN entry = Fields
      BY <2>1 DEF IntakeInv, LogFits, StageFits
    <3> DEFINE row == Intake!Row(entry)
    <3>2. /\ DOMAIN row = Fields /\ row.from = entry.from /\ row.claimed = entry.claimed
          /\ row.eventType = entry.eventType /\ row.action = entry.action
          /\ row.severity = entry.severity /\ row.source = entry.source
          /\ row.blank = entry.blank
      BY <3>1 DEF Intake!Row, Fields
    <3>3. entry.from = "collector" => row = entry
      BY CollectedShape DEF IntakeInv, LogFits
    <3> HIDE DEF row
    <3>4. Intake!Accepted(row)
      BY <2>3, <3>2 DEF Intake!Accepted
    <3>5. entry' = row
      BY <2>3 DEF row
    <3>6. LogFits'
      BY <3>1, <3>2, <3>3, <3>4, <3>5 DEF IntakeInv, LogFits
    <3>7. StageFits'
      BY <2>3, <3>1, <3>2, <3>5 DEF StageFits
    <3>8. AlertFits'
      BY <2>1 DEF AlertFits
    <3> QED BY <3>6, <3>7, <3>8 DEF IntakeInv
  <2> QED BY <1>1, <2>2, <2>3 DEF Intake!Receive
<1>2. CASE Intake!GoWithout
  <2>1. /\ reached = "stored" /\ threat' = 0 /\ entry' = entry /\ alarm' = alarm
        /\ reached' \in {"unanswered", "unjudged"}
        /\ reached' = "unjudged" => ~Intake!EntryValid(entry)
    BY <1>2 DEF Intake!GoWithout
  <2>2. alarm = Intake!NoAlert
    BY <2>1 DEF IntakeInv, AlertFits
  <2> QED BY <2>1, <2>2 DEF IntakeInv, LogFits, StageFits, AlertFits
<1>3. CASE Intake!Stumble
  <2>1. /\ reached = "stored" /\ reached' = "stumbled" /\ threat' = threat /\ entry' = entry
        /\ alarm' = alarm
    BY <1>3 DEF Intake!Stumble
  <2>2. alarm = Intake!NoAlert
    BY <2>1 DEF IntakeInv, AlertFits
  <2> QED BY <2>1, <2>2 DEF IntakeInv, LogFits, StageFits, AlertFits
<1>4. CASE Intake!TakeNext
  BY <1>4 DEF Intake!TakeNext, Intake!NoLog, IntakeInv, LogFits, StageFits, AlertFits
<1>5. ASSUME NEW a \in Outlier, Intake!Judge(a) PROVE IntakeInv'
  <2>1. /\ reached = "stored" /\ reached' = "judged" /\ entry' = entry
        /\ threat' = Intake!ThreatOf(entry, a)
        /\ \/ alarm' = alarm
           \/ /\ Intake!NeedsAlert(threat')
              /\ alarm' = [type |-> Intake!AlertTypeOf(entry.eventType),
                           severity |-> Intake!SeverityOf(threat')]
    BY <1>5 DEF Intake!Judge
  <2>2. alarm = Intake!NoAlert
    BY <2>1 DEF IntakeInv, AlertFits
  <2>3. LogFits' /\ StageFits'
    BY <2>1 DEF IntakeInv, LogFits, StageFits
  <2>4. AlertFits'
    BY <2>1, <2>2 DEF AlertFits
  <2> QED BY <2>3, <2>4 DEF IntakeInv
<1> QED BY <1>1, <1>2, <1>3, <1>4, <1>5

LEMMA IntakeNext == IntakeInv /\ [Intake!Next]_(Intake!vars) => IntakeInv'
<1> SUFFICES ASSUME IntakeInv, [Intake!Next]_(Intake!vars) PROVE IntakeInv'
  OBVIOUS
<1>1. CASE Intake!Next
  BY <1>1, SenderKeeps, WorkerKeeps DEF Intake!Next
<1>2. CASE UNCHANGED Intake!vars
  BY <1>2 DEF Intake!vars, IntakeInv, LogFits, StageFits, AlertFits
<1> QED BY <1>1, <1>2

(* What the run checks follows. *)
LEMMA IntakeFits ==
  ASSUME IntakeAssumption, IntakeInv
  PROVE  Intake!SendersFitValidators /\ Intake!WindowsAlerts /\ Intake!ClaimsDoNotAlert
<1>1. Intake!SendersFitValidators
  <2>1. entry.from = "collector" => reached \notin {"refused", "unjudged"}
    BY CollectedShape DEF IntakeInv, LogFits, StageFits
  <2>2. entry.from = "form" => reached # "refused"
    BY DEF IntakeInv, LogFits, StageFits
  <2>3. reached = "unjudged" => ~(/\ entry.port \in Intake!PortNumber
                                  /\ entry.sourcePort \in Intake!PortNumber)
    BY DEF IntakeInv, StageFits, Intake!EntryValid
  <2> QED BY <2>1, <2>2, <2>3 DEF Intake!SendersFitValidators
<1>2. Intake!ClaimsDoNotAlert
  <2>1. alarm # Intake!NoAlert => reached = "judged" /\ Intake!NeedsAlert(threat)
    BY DEF IntakeInv, AlertFits
  <2>2. ASSUME reached \in {"unjudged", "unanswered", "stumbled"}, threat > 0
        PROVE  reached = "stumbled" /\ entry.from \in {"upload", "client"}
    <3>1. reached = "stumbled"
      BY <2>2 DEF IntakeInv, StageFits
    <3>2. threat = entry.claimed /\ entry.from # "nobody"
      BY <3>1 DEF IntakeInv, StageFits
    <3>3. entry.from \in {"collector", "form"} => entry.claimed = 0
      BY CollectedShape DEF IntakeInv, LogFits
    <3>4. entry.from \notin {"collector", "form"}
      BY <2>2, <3>2, <3>3
    <3> QED BY <3>1, <3>2, <3>4 DEF IntakeInv, LogFits
  <2> QED BY <2>1, <2>2 DEF Intake!ClaimsDoNotAlert
<1>3. Intake!WindowsAlerts
  <2> SUFFICES ASSUME entry.from = "collector", alarm # Intake!NoAlert
               PROVE  IF entry.eventType = "LOGIN_FAILURE"
                      THEN alarm.type = "BRUTE_FORCE" /\ alarm.severity # "CRITICAL"
                      ELSE /\ entry.severity = "CRITICAL" /\ alarm.severity = "MEDIUM"
                           /\ alarm.type = IF entry.source = "ANTIVIRUS" THEN "MALWARE"
                                           ELSE "SUSPICIOUS_LOGIN"
                           /\ \A a \in Outlier :
                                 a <= 97 => ~Intake!NeedsAlert(Intake!ThreatOf(entry, a))
    BY DEF Intake!WindowsAlerts
  <2>1. Collected(entry)
    BY DEF IntakeInv, LogFits
  <2>2. PICK a \in Outlier : threat = Intake!ThreatOf(entry, a)
    BY DEF IntakeInv, AlertFits
  <2>3. /\ threat >= 60
        /\ alarm = [type |-> Intake!AlertTypeOf(entry.eventType),
                    severity |-> Intake!SeverityOf(threat)]
    BY DEF IntakeInv, AlertFits, Intake!NeedsAlert, Intake!AlertThreshold
  <2>4. alarm.type = Intake!AlertTypeOf(entry.eventType)
        /\ alarm.severity = Intake!SeverityOf(threat)
    BY <2>3
  <2>5. \A b \in Outlier : b \in 0..100
    BY DEF IntakeAssumption
  <2>6. /\ threat \in Nat
        /\ entry.eventType = "LOGIN_FAILURE" => threat < 85
        /\ entry.eventType # "LOGIN_FAILURE" => /\ entry.severity = "CRITICAL" \/ threat < 60
                                                /\ threat < 70
    BY <2>1, <2>2, <2>5, CollectedScore
  <2>7. CASE entry.eventType = "LOGIN_FAILURE"
    <3>1. Intake!AlertTypeOf(entry.eventType) = "BRUTE_FORCE"
      BY <2>7 DEF Intake!AlertTypeOf
    <3>2. Intake!SeverityOf(threat) # "CRITICAL"
      BY <2>6, <2>7 DEF Intake!SeverityOf
    <3> QED BY <2>4, <2>7, <3>1, <3>2
  <2>8. CASE entry.eventType # "LOGIN_FAILURE"
    <3>1. entry.severity = "CRITICAL"
      BY <2>3, <2>6, <2>8
    <3>2. Intake!SeverityOf(threat) = "MEDIUM"
      BY <2>6, <2>8 DEF Intake!SeverityOf
    <3>3. Intake!AlertTypeOf(entry.eventType) =
            IF entry.source = "ANTIVIRUS" THEN "MALWARE" ELSE "SUSPICIOUS_LOGIN"
      BY <2>1, <3>1, CollectedShape DEF KindAlerts
    <3>4. ASSUME NEW b \in Outlier, b <= 97
          PROVE  ~Intake!NeedsAlert(Intake!ThreatOf(entry, b))
      <4>1. Intake!ThreatOf(entry, b) \in Nat /\ Intake!ThreatOf(entry, b) < 60
        BY <2>1, <2>5, <2>8, <3>4, CollectedScore
      <4> QED BY <4>1 DEF Intake!NeedsAlert, Intake!AlertThreshold
    <3> QED BY <2>4, <2>8, <3>1, <3>2, <3>3, <3>4
  <2> QED BY <2>7, <2>8
<1> QED BY <1>1, <1>2, <1>3

(* The types.  A score is the service's, or what a sender claimed. *)
IntakeTyped ==
    /\ Intake!IntakeTypeOK
    /\ entry # Intake!NoLog => entry.claimed \in Intake!Score \cup Claimed

LEMMA ZeroIsAScore == 0 \in Intake!Score \cup Claimed
  BY DEF Intake!Score

LEMMA IntakeTypedInit == Intake!Init => IntakeTyped
<1> SUFFICES ASSUME Intake!Init PROVE IntakeTyped
  OBVIOUS
<1>1. entry = Intake!NoLog /\ reached = "none" /\ threat = 0 /\ alarm = Intake!NoAlert
  BY DEF Intake!Init
<1> QED BY <1>1, ZeroIsAScore DEF IntakeTyped, Intake!IntakeTypeOK, Intake!Stage

LEMMA SenderTyped ==
  ASSUME IntakeTyped,
         Intake!Collect \/ Intake!SubmitForm \/ Intake!Upload \/ Intake!PostDirectly
  PROVE  IntakeTyped'
<1>1. ASSUME NEW l, Intake!Send(l), DOMAIN l = Fields, l.claimed \in Intake!Score \cup Claimed
      PROVE  IntakeTyped'
  <2>1. entry' = l /\ reached' = "posted" /\ threat' = threat /\ alarm' = alarm
    BY <1>1 DEF Intake!Send
  <2>2. threat \in Intake!Score \cup Claimed
    BY DEF IntakeTyped, Intake!IntakeTypeOK
  <2>3. alarm = Intake!NoAlert \/ alarm.severity \in Intake!Severity
    BY DEF IntakeTyped, Intake!IntakeTypeOK
  <2>4. Intake!IntakeTypeOK'
    BY <1>1, <2>1, <2>2, <2>3 DEF Intake!IntakeTypeOK, Intake!Stage, Fields
  <2> QED BY <1>1, <2>1, <2>4 DEF IntakeTyped
<1>2. CASE Intake!Collect
  <2>1. PICK channel \in DOMAIN Intake!Queried : \E id \in Intake!Queried[channel],
             logon \in DOMAIN Intake!LogonPort, p \in RawPort \cup {Intake!NoPort} :
                Intake!Send(Intake!Normalized(id, logon, p))
    BY <1>2 DEF Intake!Collect
  <2>2. PICK id \in Intake!Queried[channel], logon \in DOMAIN Intake!LogonPort,
             p \in RawPort \cup {Intake!NoPort} : Intake!Send(Intake!Normalized(id, logon, p))
    BY <2>1
  <2> DEFINE l == Intake!Normalized(id, logon, p)
  <2>3. Collected(l)
    BY DEF Collected, EventId
  <2> HIDE DEF l
  <2>4. l.claimed = 0 /\ DOMAIN l = Fields
    BY <2>3, CollectedShape
  <2>5. Intake!Send(l)
    BY <2>2 DEF l
  <2> QED BY <1>1, <2>4, <2>5, ZeroIsAScore
<1>3. CASE Intake!SubmitForm
  <2>1. PICK l \in Intake!FormLogs : Intake!Send(l)
    BY <1>3 DEF Intake!SubmitForm
  <2>2. l.claimed = 0 /\ DOMAIN l = Fields
    BY DEF Intake!FormLogs, Fields
  <2> QED BY <1>1, <2>1, <2>2, ZeroIsAScore
<1>4. ASSUME NEW w \in Intake!Written
      PROVE  /\ DOMAIN w = Fields /\ w.claimed \in Claimed
             /\ DOMAIN Intake!Cleaned(w) = Fields /\ Intake!Cleaned(w).claimed = w.claimed
  <2>1. DOMAIN w = Fields /\ w.claimed \in Claimed
    BY DEF Intake!Written, Fields
  <2> QED BY <2>1 DEF Intake!Cleaned, Fields
<1>5. CASE Intake!Upload
  <2>1. PICK w \in Intake!Written : Intake!Send(Intake!Cleaned(w))
    BY <1>5 DEF Intake!Upload
  <2> QED BY <1>1, <1>4, <2>1
<1>6. CASE Intake!PostDirectly
  <2>1. PICK w \in Intake!Written : Intake!Send(w)
    BY <1>6 DEF Intake!PostDirectly
  <2> QED BY <1>1, <1>4, <2>1
<1> QED BY <1>2, <1>3, <1>5, <1>6

LEMMA WorkerTyped ==
  ASSUME IntakeAssumption, IntakeInv, IntakeTyped,
         \/ Intake!Receive \/ Intake!GoWithout \/ Intake!Stumble \/ Intake!TakeNext
         \/ \E a \in Outlier : Intake!Judge(a)
  PROVE  IntakeTyped'
<1>1. entry = Intake!NoLog \/ Fields = DOMAIN entry
  BY DEF IntakeTyped, Intake!IntakeTypeOK, Fields
<1>2. threat \in Intake!Score \cup Claimed /\ reached \in Intake!Stage
  BY DEF IntakeTyped, Intake!IntakeTypeOK
<1>3. alarm = Intake!NoAlert \/ alarm.severity \in Intake!Severity
  BY DEF IntakeTyped, Intake!IntakeTypeOK
<1>4. CASE Intake!Receive
  <2>1. reached = "posted" /\ alarm' = alarm
    BY <1>4 DEF Intake!Receive
  <2>2. entry.from # "nobody"
    BY <2>1 DEF IntakeInv, StageFits
  <2>3. entry # Intake!NoLog /\ DOMAIN entry = Fields
    BY <1>1, <2>2 DEF Intake!NoLog
  <2>4. entry.claimed \in Intake!Score \cup Claimed
    BY <2>3 DEF IntakeTyped
  <2>5. CASE reached' = "refused" /\ UNCHANGED <<entry, threat>>
    BY <1>2, <1>3, <2>1, <2>3, <2>4, <2>5 DEF IntakeTyped, Intake!IntakeTypeOK, Intake!Stage, Fields
  <2>6. CASE reached' = "stored" /\ entry' = Intake!Row(entry) /\ threat' = entry.claimed
    <3>1. DOMAIN Intake!Row(entry) = Fields /\ Intake!Row(entry).claimed = entry.claimed
      BY <2>3 DEF Intake!Row, Fields
    <3> QED BY <1>3, <2>1, <2>4, <2>6, <3>1 DEF IntakeTyped, Intake!IntakeTypeOK, Intake!Stage, Fields
  <2> QED BY <1>4, <2>5, <2>6 DEF Intake!Receive
<1>5. CASE Intake!GoWithout
  <2>1. /\ threat' = 0 /\ entry' = entry /\ alarm' = alarm
        /\ reached' \in {"unanswered", "unjudged"}
    BY <1>5 DEF Intake!GoWithout
  <2> QED BY <2>1, ZeroIsAScore DEF IntakeTyped, Intake!IntakeTypeOK, Intake!Stage
<1>6. CASE Intake!Stumble
  <2>1. reached' = "stumbled" /\ threat' = threat /\ entry' = entry /\ alarm' = alarm
    BY <1>6 DEF Intake!Stumble
  <2> QED BY <2>1 DEF IntakeTyped, Intake!IntakeTypeOK, Intake!Stage
<1>7. CASE Intake!TakeNext
  <2>1. entry' = Intake!NoLog /\ reached' = "none" /\ threat' = 0 /\ alarm' = Intake!NoAlert
    BY <1>7 DEF Intake!TakeNext
  <2> QED BY <2>1, ZeroIsAScore DEF IntakeTyped, Intake!IntakeTypeOK, Intake!Stage
<1>8. ASSUME NEW a \in Outlier, Intake!Judge(a) PROVE IntakeTyped'
  <2>1. /\ Intake!EntryValid(entry) /\ reached' = "judged" /\ entry' = entry
        /\ threat' = Intake!ThreatOf(entry, a)
        /\ \/ alarm' = alarm
           \/ alarm' = [type |-> Intake!AlertTypeOf(entry.eventType),
                        severity |-> Intake!SeverityOf(threat')]
    BY <1>8 DEF Intake!Judge
  <2>2. entry.port \in Nat /\ a \in 0..100
    <3>1. entry.port \in Intake!PortNumber
      BY <2>1 DEF Intake!EntryValid
    <3>2. \A p \in Intake!PortNumber : p \in Nat
      BY DEF Intake!PortNumber
    <3>3. entry.port \in Nat
      BY <3>1, <3>2
    <3>4. a \in 0..100
      BY DEF IntakeAssumption
    <3> QED BY <3>3, <3>4
  <2>3. PICK n \in Nat : Intake!ThreatOf(entry, a) = IF n > 100 THEN 100 ELSE n
    <3>1. Rates(35 * a + Fails(entry) + 15 * Weights(entry), Intake!ThreatOf(entry, a))
      BY <2>2, ThreatIs
    <3> QED BY <3>1 DEF Rates
  <2>4. threat' \in Intake!Score
    BY <2>1, <2>3 DEF Intake!Score
  <2>5. Intake!SeverityOf(threat') \in Intake!Severity
    BY <2>4 DEF Intake!SeverityOf, Intake!Severity, Intake!Score
  <2>6. alarm' = Intake!NoAlert \/ alarm'.severity \in Intake!Severity
    BY <1>3, <2>1, <2>5
  <2>7. Intake!IntakeTypeOK'
    BY <1>1, <2>1, <2>4, <2>6 DEF Intake!IntakeTypeOK, Intake!Stage, Fields
  <2> QED BY <2>1, <2>7 DEF IntakeTyped
<1> QED BY <1>4, <1>5, <1>6, <1>7, <1>8

LEMMA IntakeTypedNext ==
  ASSUME IntakeAssumption, IntakeInv, IntakeTyped, [Intake!Next]_(Intake!vars)
  PROVE  IntakeTyped'
<1>1. CASE Intake!Next
  BY <1>1, SenderTyped, WorkerTyped DEF Intake!Next
<1>2. CASE UNCHANGED Intake!vars
  BY <1>2 DEF Intake!vars, IntakeTyped, Intake!IntakeTypeOK
<1> QED BY <1>1, <1>2

===============================================================================
