-------------------------------- MODULE ModelStore --------------------------------
(***************************************************************************)
(* The anomaly detector of the ML service and its four files               *)
(* (app/services/anomaly_detector.py; lifespan and train_models of         *)
(* app/main.py).  A training fits the parts in memory one after the other  *)
(* and then writes them one after the other; it holds the only worker, so  *)
(* no request comes in between, but it may fail or the process may end at  *)
(* any of these steps.  A part is known by the training it is from.        *)
(***************************************************************************)
EXTENDS Integers, FiniteSets

CONSTANT MaxTrainings   \* bound: trainings started

VARIABLES
    phase,      \* of the process: down, starting (lifespan), serving
    memory,     \* memory[p]: the part the detector holds
    loaded,     \* _loaded
    disk,       \* disk[p]: what the file of part p holds
    step,       \* 0, or the step of the training under way
    trainings,  \* trainings started; the last is the one under way
    broken      \* history: where a training was cut short and none finished since

vars == <<phase, memory, loaded, disk, step, trainings, broken>>

FitOrder == <<"scaler", "forest", "svm", "meta">>
SaveOrder == <<"forest", "svm", "scaler", "meta">>
Part == {FitOrder[i] : i \in 1..4}

None == 0          \* no object, no file
Unfitted == -1     \* an object whose fit has failed
Torn == -2         \* a file cut short, which cannot be loaded
Training == 1..MaxTrainings

Fitting == step \in 1..4
Saving == step \in 5..8

ModelTypeOK ==
    /\ phase \in {"down", "starting", "serving"}
    /\ memory \in [Part -> Training \cup {None, Unfitted}]
    /\ loaded \in BOOLEAN
    /\ disk \in [Part -> Training \cup {None, Torn}]
    /\ step \in 0..8
    /\ trainings \in 0..MaxTrainings
    /\ broken \subseteq {"memory", "disk"}
    /\ phase = "starting" => step # 0

Init ==
    /\ phase = "down"
    /\ memory = [p \in Part |-> None]
    /\ loaded = FALSE
    /\ disk = [p \in Part |-> None]
    /\ step = 0 /\ trainings = 0
    /\ broken = {}

-------------------------------------------------------------------------------
Begin ==
    /\ trainings < MaxTrainings
    /\ trainings' = trainings + 1
    /\ step' = 1

(* _try_load: the files in the order they were written, none if one is     *)
(* missing, up to the first that cannot be loaded.                         *)
Readable(i) == \A j \in 1..i : disk[SaveOrder[j]] # Torn

Load ==
    LET there == \A p \in Part : disk[p] # None IN
    /\ memory' = [p \in Part |->
           IF there /\ \E i \in 1..4 : p = SaveOrder[i] /\ Readable(i) THEN disk[p] ELSE None]
    /\ loaded' = (there /\ Readable(4))
    /\ broken' = IF "disk" \in broken THEN broken \cup {"memory"} ELSE broken \ {"memory"}

(* lifespan: a detector without models trains itself before it serves. *)
Start ==
    /\ phase = "down"
    /\ Load
    /\ IF loaded' THEN phase' = "serving" /\ UNCHANGED <<step, trainings>>
                  ELSE phase' = "starting" /\ Begin
    /\ UNCHANGED disk

(* POST /api/v1/train *)
TrainModels ==
    /\ phase = "serving" /\ step = 0
    /\ Begin
    /\ UNCHANGED <<phase, memory, loaded, disk, broken>>

(* Mutant: the scaler is only made where there is none. *)
FitKeepsScaler ==
    /\ Fitting
    /\ memory' = IF step = 1 /\ memory["scaler"] # None THEN memory
                 ELSE [memory EXCEPT ![FitOrder[step]] = trainings]
    /\ broken' = IF step = 4 THEN broken \ {"memory"} ELSE broken
    /\ step' = step + 1
    /\ UNCHANGED <<phase, loaded, disk, trainings>>

Fit ==
    /\ Fitting
    /\ memory' = [memory EXCEPT ![FitOrder[step]] = trainings]
    /\ broken' = IF step = 4 THEN broken \ {"memory"} ELSE broken
    /\ step' = step + 1
    /\ UNCHANGED <<phase, loaded, disk, trainings>>

Save ==
    /\ Saving
    /\ disk' = [disk EXCEPT ![SaveOrder[step - 4]] = memory[SaveOrder[step - 4]]]
    /\ IF step < 8
         THEN step' = step + 1 /\ UNCHANGED <<phase, loaded, broken>>
         ELSE step' = 0 /\ phase' = "serving" /\ loaded' = TRUE /\ broken' = broken \ {"disk"}
    /\ UNCHANGED <<memory, trainings>>

(* What a write that does not end leaves of the file. *)
CutShort ==
    IF Saving
      THEN /\ disk' \in {disk, [disk EXCEPT ![SaveOrder[step - 4]] = Torn]}
           /\ broken' = broken \cup {"disk"}
      ELSE UNCHANGED <<disk, broken>>

End ==
    /\ phase' = "down"
    /\ memory' = [p \in Part |-> None]
    /\ loaded' = FALSE

(* A step of the training raises.  A new estimator is in place before it is *)
(* fitted; meta is assigned as a whole.  The request is answered with 500   *)
(* and _loaded stays as it was; at startup the process ends.                *)
Raises ==
    /\ step # 0
    /\ step' = 0
    /\ IF phase = "starting" THEN End /\ CutShort
       ELSE /\ UNCHANGED <<phase, loaded>>
            /\ IF Fitting
                 THEN /\ memory' = IF step = 4 THEN memory
                                   ELSE [memory EXCEPT ![FitOrder[step]] = Unfitted]
                      /\ broken' = broken \cup {"memory"}
                      /\ UNCHANGED disk
                 ELSE CutShort /\ UNCHANGED memory
    /\ UNCHANGED trainings

Crash ==
    /\ phase # "down"
    /\ End
    /\ CutShort
    /\ step' = 0
    /\ UNCHANGED trainings

Next == Start \/ TrainModels \/ Fit \/ Save \/ Raises \/ Crash

Spec == Init /\ [][Next]_vars

-------------------------------------------------------------------------------
(* The detector that answers /detect is of one training, all of it fitted, *)
(* and it is the one a restart would load, unless a training was cut short *)
(* since the last that finished: after that it may mix the parts of        *)
(* several trainings, or have one that is not fitted, while /health calls  *)
(* it loaded.                                                              *)
UncutIsOneTraining ==
    loaded /\ step = 0 =>
        /\ "memory" \notin broken => \E t \in Training : \A p \in Part : memory[p] = t
        /\ broken = {} => memory = disk

(* The statistics of a training are the last of its parts to be held and   *)
(* the last to be written.                                                 *)
NewestIsWhole(held) == held["meta"] = trainings => \A p \in Part : held[p] = trainings

(* Wherever a training was cut short and whatever was started since, every *)
(* part predict asserts is there, and neither memory nor files pair the    *)
(* statistics of the newest training with parts of an older one; none cut  *)
(* short, they are of one training (anomaly_detector.py).                  *)
LoadedIsOneTraining ==
    /\ UncutIsOneTraining
    /\ loaded => \A p \in Part : memory[p] # None
    /\ NewestIsWhole(memory) /\ NewestIsWhole(disk)

===============================================================================
