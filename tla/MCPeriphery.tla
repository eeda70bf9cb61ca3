---------------------------- MODULE MCPeriphery ----------------------------
(***************************************************************************)
(* The components at the edge of the system that share no state with each   *)
(* other.  A behaviour is one of one of them, chosen at the start; the       *)
(* others stay as they began, so that their states add up and do not        *)
(* multiply.                                                                *)
(***************************************************************************)
EXTENDS
    KeyCache, ModelStore, Classifier, DlpScan, Provisioning, LiveMonitor, ReportFiles,
    TrainingData

CONSTANTS one, two

VARIABLE unit

peripheryVars ==
    <<unit, keyVars, modelVars, classifierVars, dlpVars, provisioningVars, monitorVars,
      reportVars, trainingVars>>

Pair == {one, two}
MCKeySets == <<{1}, {1, 2}, {2}>>
MCVersions == {1}
MCPages == <<{"common", "known"}, {"exploited", "unrated"}>>
MCKev == {"known", "unlisted"}
MCMsf == {"exploited"}
MCUnrated == {"unrated"}

PeripheryInit ==
    /\ unit \in {"keys", "models", "classifier", "dlp", "setup", "monitor",
                "report", "training"}
    /\ KeyInit /\ ModelInit /\ ClassifierInit /\ ProvisioningInit /\ MonitorInit
    /\ DlpInit /\ ReportInit /\ TrainingInit
    /\ unit # "dlp" => \A r \in Batch : cveOf[r] = one /\ text[r] = "blank"

Keys == /\ unit = "keys" /\ KeyNext
        /\ UNCHANGED <<unit, modelVars, classifierVars, dlpVars, provisioningVars,
                       monitorVars, reportVars, trainingVars>>

Models == /\ unit = "models" /\ ModelNext
          /\ UNCHANGED <<unit, keyVars, classifierVars, dlpVars, provisioningVars,
                         monitorVars, reportVars, trainingVars>>

Scores == /\ unit = "classifier" /\ ClassifierNext
          /\ UNCHANGED <<unit, keyVars, modelVars, dlpVars, provisioningVars,
                         monitorVars, reportVars, trainingVars>>

Dlp == /\ unit = "dlp" /\ DlpNext
       /\ UNCHANGED <<unit, keyVars, modelVars, classifierVars, provisioningVars,
                      monitorVars, reportVars, trainingVars>>

Setup == /\ unit = "setup" /\ ProvisioningNext
         /\ UNCHANGED <<unit, keyVars, modelVars, classifierVars, dlpVars,
                        monitorVars, reportVars, trainingVars>>

Monitor == /\ unit = "monitor" /\ MonitorNext
           /\ UNCHANGED <<unit, keyVars, modelVars, classifierVars, dlpVars,
                          provisioningVars, reportVars, trainingVars>>

Report == /\ unit = "report" /\ ReportNext
          /\ UNCHANGED <<unit, keyVars, modelVars, classifierVars, dlpVars,
                         provisioningVars, monitorVars, trainingVars>>

Training == /\ unit = "training" /\ TrainingNext
            /\ UNCHANGED <<unit, keyVars, modelVars, classifierVars, dlpVars,
                           provisioningVars, monitorVars, reportVars>>

PeripheryNext ==
    Keys \/ Models \/ Scores \/ Dlp \/ Setup \/ Monitor \/ Report \/ Training

PeripherySpec == PeripheryInit /\ [][PeripheryNext]_peripheryVars
=============================================================================
