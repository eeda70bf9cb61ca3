----------------------------- MODULE Classifier -----------------------------
(***************************************************************************)
(* The risk classifier: a model that is trained or loaded in place, and two *)
(* explainers built for it when they are first needed.  Several processes   *)
(* (the CLI that trains, the pipelines that score) share one model file.    *)
(* Models are numbered by the training that fitted them.                    *)
(***************************************************************************)
EXTENDS Naturals

CONSTANTS
    Classifiers,  \* processes that hold a classifier
    MaxTrainings  \* bound: trainings

ASSUME ClassifierAssumption == MaxTrainings \in Nat

VARIABLES
    model,      \* classifier -> _model
    shap,       \* classifier -> the model its SHAP explainer was built for
    lime,       \* classifier -> likewise LIME, with the data it samples from
    data,       \* classifier -> _training_data, by training
    score,      \* classifier -> what the last RiskScore was made of
    file,       \* the model file
    writers,    \* classifiers that are writing it
    trainings   \* trainings begun

classifierVars == <<model, shap, lime, data, score, file, writers, trainings>>

None == 0
Unfitted == MaxTrainings + 1   \* an XGBClassifier that was only constructed
Torn == MaxTrainings + 2       \* a file that does not load
NoLime == [model |-> None, data |-> None]
NoScore == [probability |-> None, shap |-> None, lime |-> None]
Fitted == 1..MaxTrainings

ClassifierInit ==
    /\ model = [c \in Classifiers |-> None]
    /\ shap = [c \in Classifiers |-> None]
    /\ lime = [c \in Classifiers |-> NoLime]
    /\ data = [c \in Classifiers |-> None]
    /\ score = [c \in Classifiers |-> NoScore]
    /\ file = None
    /\ writers = {}
    /\ trainings = 0

ResetExplainers(c) ==
    /\ shap' = [shap EXCEPT ![c] = None]
    /\ lime' = [lime EXCEPT ![c] = NoLime]

-----------------------------------------------------------------------------
(* Training: the data is kept first, the model is replaced before it is fitted *)

TrainingBegins(c) ==
    /\ c \notin writers /\ trainings < MaxTrainings
    /\ trainings' = trainings + 1
    /\ data' = [data EXCEPT ![c] = trainings + 1]
    /\ UNCHANGED <<score, file, writers>>

\* Mutant: the explainers of the previous model are kept.
Train_keeps(c) ==
    /\ TrainingBegins(c)
    /\ model' = [model EXCEPT ![c] = trainings + 1]
    /\ UNCHANGED <<shap, lime>>

\* The evaluation that follows may still raise; the new model stays.
Train(c) ==
    /\ TrainingBegins(c)
    /\ model' = [model EXCEPT ![c] = trainings + 1]
    /\ ResetExplainers(c)

\* The split, SMOTE or the parameter search raises.
TrainFailsEarly(c) == TrainingBegins(c) /\ UNCHANGED <<model, shap, lime>>

FitFails(c) ==
    /\ TrainingBegins(c)
    /\ model' = [model EXCEPT ![c] = Unfitted]
    /\ UNCHANGED <<shap, lime>>

-----------------------------------------------------------------------------
(* The model file, written in place *)

WriteBegins(c) ==
    /\ model[c] \in Fitted /\ c \notin writers
    /\ writers' = writers \cup {c}
    /\ file' = Torn
    /\ UNCHANGED <<model, shap, lime, data, score, trainings>>

\* The last of two writers decides; with another one still at work the file is
\* not whole.
WriteEnds(c) ==
    /\ c \in writers
    /\ writers' = writers \ {c}
    /\ file' = IF writers = {c} THEN model[c] ELSE Torn
    /\ UNCHANGED <<model, shap, lime, data, score, trainings>>

\* The process goes away and comes back without a model.
Restart(c) ==
    /\ model' = [model EXCEPT ![c] = None]
    /\ ResetExplainers(c)
    /\ data' = [data EXCEPT ![c] = None]
    /\ score' = [score EXCEPT ![c] = NoScore]
    /\ writers' = writers \ {c}
    /\ UNCHANGED <<file, trainings>>

\* A missing file is refused before anything changes (and skipped by __init__).
LoadModel(c) ==
    /\ c \notin writers /\ file \in Fitted
    /\ model' = [model EXCEPT ![c] = file]
    /\ ResetExplainers(c)
    /\ UNCHANGED <<data, score, file, writers, trainings>>

\* The file does not load: _model is an empty classifier by then.
LoadFails(c) ==
    /\ c \notin writers /\ file = Torn
    /\ model' = [model EXCEPT ![c] = Unfitted]
    /\ UNCHANGED <<shap, lime, data, score, file, writers, trainings>>

-----------------------------------------------------------------------------
(* Prediction: probability, SHAP, LIME.  An unfitted model raises at the first. *)

ShapOf(c) == IF shap[c] = None THEN model[c] ELSE shap[c]
LimeOf(c) == IF lime[c] = NoLime THEN [model |-> model[c], data |-> data[c]] ELSE lime[c]

Predict(c) ==
    /\ c \notin writers /\ model[c] \in Fitted
    /\ shap' = [shap EXCEPT ![c] = ShapOf(c)]
    /\ lime' = [lime EXCEPT ![c] = LimeOf(c)]
    /\ score' = [score EXCEPT ![c] =
                    [probability |-> model[c], shap |-> ShapOf(c), lime |-> LimeOf(c).model]]
    /\ UNCHANGED <<model, data, file, writers, trainings>>

\* LIME may fail on a record: alone it raises, in a batch it leaves an empty
\* explanation.
LimeFails(c) ==
    /\ c \notin writers /\ model[c] \in Fitted
    /\ shap' = [shap EXCEPT ![c] = ShapOf(c)]
    /\ lime' = [lime EXCEPT ![c] = LimeOf(c)]
    /\ \/ UNCHANGED score
       \/ score' = [score EXCEPT ![c] =
                       [probability |-> model[c], shap |-> ShapOf(c), lime |-> None]]
    /\ UNCHANGED <<model, data, file, writers, trainings>>

\* get_shap_values and get_lime_explanation on their own ask only that there is
\* a model; SHAP needs it fitted only to build its explainer, LIME always.
ExplainAlone(c) ==
    /\ c \notin writers /\ model[c] # None
    /\ \/ shap' = [shap EXCEPT ![c] = IF model[c] = Unfitted THEN @ ELSE ShapOf(c)]
          /\ UNCHANGED lime
       \/ lime' = [lime EXCEPT ![c] = LimeOf(c)] /\ UNCHANGED shap
    /\ UNCHANGED <<model, data, score, file, writers, trainings>>

ClassifierNext ==
    \E c \in Classifiers :
        \/ Train(c) \/ TrainFailsEarly(c) \/ FitFails(c)
        \/ WriteBegins(c) \/ WriteEnds(c) \/ Restart(c) \/ LoadModel(c) \/ LoadFails(c)
        \/ Predict(c) \/ LimeFails(c) \/ ExplainAlone(c)

ClassifierSpec == ClassifierInit /\ [][ClassifierNext]_classifierVars

-----------------------------------------------------------------------------
(* Properties *)

\* The probability of a risk score and its two explanations come from one model,
\* although trainings and loads that fail half way leave the explainers of the
\* model before.
ScoresAreOneModel ==
    \A c \in Classifiers :
        /\ score[c].shap = score[c].probability
        /\ score[c].lime \in {score[c].probability, None}
=============================================================================
