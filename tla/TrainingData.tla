---------------------------- MODULE TrainingData ----------------------------
(***************************************************************************)
(* scripts/train-xgboost.py: five downloads, each kept in a file that later *)
(* runs use for ever, a data set built from them, a model.  One run follows *)
(* the other, and each may raise or die anywhere.                           *)
(*                                                                          *)
(* A file that was cut off parses if it is CSV and raises if it is JSON.    *)
(* An element stands for CVEs of one kind, many enough to be split.         *)
(***************************************************************************)
EXTENDS Naturals, Sequences

CONSTANTS
    Pages,      \* NVD: the CVEs of each page the bulk download would list
    Kev,        \* the known exploited CVEs; NVD answers for each of them
    Msf,        \* CVEs with a Metasploit module
    Unrated     \* CVEs without a CVSS v3 score: they get no row

VARIABLES
    task,       \* what the run is doing
    writing,    \* whether it has the file of this task open
    page,       \* pages of the bulk download behind it
    gotten,     \* source -> what it works with
    rows,       \* the NVD records it works with
    missed,     \* known exploited CVEs it asked NVD for in vain
    files,      \* source -> its cache file
    nvd,        \* the NVD cache file
    risk,       \* the model file: what the model in it was trained on
    skipped     \* history: CVEs on NVD pages that some run was not given

runState == <<task, writing, page, gotten, rows, missed>>
trainingVars == <<runState, files, nvd, risk, skipped>>

Sources == {"kev", "exploitdb", "msf", "epss"}
Optional == {"exploitdb", "msf"}
CsvFiles == {"exploitdb", "epss"}
Listed == UNION {Pages[i] : i \in DOMAIN Pages}

ASSUME TrainingAssumption == Pages \in Seq(SUBSET Listed)

NothingYet == [s \in Sources |-> "none"]

AtRest ==
    /\ task' = "off" /\ writing' = FALSE /\ page' = 0
    /\ gotten' = NothingYet /\ rows' = {} /\ missed' = {}

TrainingInit ==
    /\ task = "off" /\ writing = FALSE /\ page = 0
    /\ gotten = NothingYet /\ rows = {} /\ missed = {}
    /\ files = [s \in Sources |-> "absent"]
    /\ nvd = [state |-> "absent", cves |-> {}]
    /\ risk = [state |-> "absent"]
    /\ skipped = {}

\* main, in the order of its calls.
FollowingTask(s) ==
    CASE s = "off" -> "kev" [] s = "kev" -> "exploitdb" [] s = "exploitdb" -> "msf"
      [] s = "msf" -> "epss" [] s = "epss" -> "nvd" [] s = "nvd" -> "missing"
      [] s = "missing" -> "train" [] s = "train" -> "save"

Advance == task' = FollowingTask(task)

TrainingStarts ==
    /\ task = "off"
    /\ Advance
    /\ UNCHANGED <<writing, page, gotten, rows, missed, files, nvd, risk, skipped>>

\* An exception, or the process dies: a file being written stays as it is.
TrainingStops ==
    /\ task # "off"
    /\ AtRest
    /\ UNCHANGED <<files, nvd, risk, skipped>>

-----------------------------------------------------------------------------
(* download_cisa_kev, download_exploitdb_cves, download_metasploit_cves and *)
(* download_epss_scores                                                     *)

WorkWith(s, what) ==
    /\ gotten' = [gotten EXCEPT ![s] = what]
    /\ Advance
    /\ UNCHANGED <<page, rows, missed, nvd, risk, skipped>>

\* A JSON file that was cut off raises instead.
UseCached(s) ==
    /\ task = s /\ ~ writing
    /\ files[s] = "whole" \/ (files[s] = "torn" /\ s \in CsvFiles)
    /\ WorkWith(s, files[s])
    /\ UNCHANGED <<writing, files>>

\* An HTTP error: two of the sources are done without.
DownloadFails(s) ==
    /\ task = s /\ ~ writing
    /\ files[s] = "absent" /\ s \in Optional
    /\ WorkWith(s, "none")
    /\ UNCHANGED <<writing, files>>

DownloadBegun(s) ==
    /\ task = s /\ ~ writing
    /\ files[s] = "absent"
    /\ writing' = TRUE
    /\ files' = [files EXCEPT ![s] = "torn"]
    /\ UNCHANGED <<task, page, gotten, rows, missed, nvd, risk, skipped>>

DownloadWritten(s) ==
    /\ task = s /\ writing
    /\ writing' = FALSE
    /\ files' = [files EXCEPT ![s] = "whole"]
    /\ WorkWith(s, "whole")

-----------------------------------------------------------------------------
(* download_nvd_cves and fetch_missing_kev_cves *)

UseCachedNvd ==
    /\ task = "nvd" /\ page = 0 /\ ~ writing
    /\ nvd.state = "whole"
    /\ rows' = nvd.cves
    /\ Advance
    /\ UNCHANGED <<writing, page, gotten, missed, files, nvd, risk, skipped>>

AsksForPage ==
    /\ task = "nvd" /\ ~ writing
    /\ nvd.state = "absent"
    /\ page < Len(Pages)
    /\ UNCHANGED <<task, writing, gotten, missed, files, nvd, risk>>

PageArrives ==
    /\ AsksForPage
    /\ rows' = rows \cup Pages[page + 1]
    /\ page' = page + 1
    /\ UNCHANGED skipped

\* 403: the loop waits and goes on with the page after it.
PageRateLimited ==
    /\ AsksForPage
    /\ page' = page + 1
    /\ skipped' = skipped \cup Pages[page + 1]
    /\ UNCHANGED rows

\* Any other HTTP error, or a page without records: the loop breaks, and what
\* there is counts as all.
PageFails ==
    /\ AsksForPage
    /\ page' = Len(Pages)
    /\ skipped' = skipped \cup UNION {Pages[i] : i \in (page + 1)..Len(Pages)}
    /\ UNCHANGED rows

OpenNvdCache ==
    /\ writing' = TRUE
    /\ nvd' = [state |-> "torn", cves |-> {}]
    /\ UNCHANGED <<task, page, gotten, files, risk, skipped>>

NvdBegun ==
    /\ task = "nvd" /\ ~ writing
    /\ nvd.state = "absent"
    /\ page = Len(Pages)
    /\ OpenNvdCache
    /\ UNCHANGED <<rows, missed>>

\* Mutant: only a fresh bulk download is completed with the known exploited CVEs.
NoneMissing_cached ==
    /\ task = "missing" /\ ~ writing
    /\ Kev \subseteq rows \/ page = 0
    /\ Advance
    /\ UNCHANGED <<writing, page, gotten, rows, missed, files, nvd, risk, skipped>>

NoneMissing ==
    /\ task = "missing" /\ ~ writing
    /\ Kev \subseteq rows
    /\ Advance
    /\ UNCHANGED <<writing, page, gotten, rows, missed, files, nvd, risk, skipped>>

\* Each missing CVE is asked for by its name; a failure passes unnoticed.
FetchMissingKev ==
    /\ task = "missing" /\ ~ writing
    /\ ~ (Kev \subseteq rows)
    /\ \E found \in SUBSET (Kev \ rows) :
          /\ rows' = rows \cup found
          /\ missed' = (Kev \ rows) \ found
    /\ OpenNvdCache

NvdWritten ==
    /\ task \in {"nvd", "missing"} /\ writing
    /\ writing' = FALSE
    /\ nvd' = [state |-> "whole", cves |-> rows]
    /\ Advance
    /\ UNCHANGED <<page, gotten, rows, missed, files, risk, skipped>>

-----------------------------------------------------------------------------
(* build_dataset, train_exploitation_model and save_model *)

Dataset == rows \ Unrated

\* The label: known exploited, or with a Metasploit module.
Positives ==
    Dataset \cap (Kev \cup (IF gotten["msf"] = "whole" THEN Msf ELSE {}))

\* A stratified split needs both labels; without them it raises.
TrainModel ==
    /\ task = "train"
    /\ Positives \notin {{}, Dataset}
    /\ Advance
    /\ UNCHANGED <<writing, page, gotten, rows, missed, files, nvd, risk, skipped>>

SaveBegun ==
    /\ task = "save" /\ ~ writing
    /\ writing' = TRUE
    /\ risk' = [state |-> "torn"]
    /\ UNCHANGED <<task, page, gotten, rows, missed, files, nvd, skipped>>

SaveEnds ==
    /\ task = "save" /\ writing
    /\ risk' = [state |-> "whole", rows |-> Dataset, positives |-> Positives,
                missed |-> missed, sources |-> gotten]
    /\ AtRest
    /\ UNCHANGED <<files, nvd, skipped>>

TrainingNext ==
    \/ TrainingStarts \/ TrainingStops
    \/ \E s \in Sources :
          UseCached(s) \/ DownloadFails(s) \/ DownloadBegun(s) \/ DownloadWritten(s)
    \/ UseCachedNvd \/ PageArrives \/ PageRateLimited \/ PageFails \/ NvdBegun
    \/ NoneMissing \/ FetchMissingKev \/ NvdWritten
    \/ TrainModel \/ SaveBegun \/ SaveEnds

TrainingSpec == TrainingInit /\ [][TrainingNext]_trainingVars

-----------------------------------------------------------------------------
(* Property *)

\* What a trained model has not seen can be told from what went wrong.  Every
\* known exploited CVE is in its data unless its own run asked for it in vain,
\* whatever the cache it started from lacks; any other listed CVE is missing
\* only if NVD refused its page, or a page before it, to some run or sent that page
\* empty.  A model works with part of the
\* scores or of the exploits only if the file was cut off, and it still is, for
\* nothing repairs it; and a CVE with a Metasploit module is labelled
\* unexploited only if the model's own run did without Metasploit's list.
ModelGapsAreExplained ==
    risk.state = "whole" =>
        /\ Kev \ risk.rows \subseteq Unrated \cup risk.missed
        /\ Listed \ risk.rows \subseteq Unrated \cup skipped
        /\ (Msf \cap risk.rows) \ risk.positives # {} => risk.sources["msf"] = "none"
        /\ \A s \in Sources : risk.sources[s] = "torn" => s \in CsvFiles /\ files[s] = "torn"
=============================================================================
