---------------------------- MODULE ReportFiles ----------------------------
(***************************************************************************)
(* The files of a report: GenerateReportUseCase writes the PDF, then the    *)
(* JSON and the CSV metrics.  The runs of one thread name the metrics       *)
(* files alike, so a later run replaces what an earlier one published; each *)
(* PDF has a name of its own.  A write may fail half-way, and the process   *)
(* may die anywhere.                                                        *)
(***************************************************************************)
EXTENDS Naturals

CONSTANT MaxReports  \* bound: runs of the thread that reach the output node

ASSUME ReportsAssumption == MaxReports \in Nat

VARIABLES
    report,   \* the run that reports, by number
    at,       \* the channel it is at and how far it is
    pdf,      \* run -> its PDF file
    tmp,      \* metrics file -> its .tmp file
    target,   \* metrics file -> the published file
    paths,    \* channels for which the run has a path to return
    noted     \* what has an entry in the run's errors: a channel, or the output node

reportVars == <<report, at, pdf, tmp, target, paths, noted>>

Metrics == {"json", "csv"}
NoFile == [by |-> 0, whole |-> TRUE]
Stage(channel, stage) == [channel |-> channel, stage |-> stage]
NoChannel == {"none", "finished", "died"}

ReportInit ==
    /\ report = 0
    /\ at = Stage("none", "begin")
    /\ pdf = [r \in 1..MaxReports |-> "absent"]
    /\ tmp = [k \in Metrics |-> NoFile]
    /\ target = [k \in Metrics |-> NoFile]
    /\ paths = {} /\ noted = {}

\* The channels in the order of execute(); each survives the failure of the others.
NextChannel(c) ==
    CASE c = "pdf" -> "json" [] c = "json" -> "csv" [] c = "csv" -> "finished"

EndChannel(c) == at' = Stage(NextChannel(c), "begin")

ReportBegins ==
    /\ at.channel \in NoChannel
    /\ report < MaxReports
    /\ report' = report + 1
    /\ at' = Stage("pdf", "begin")
    /\ paths' = {} /\ noted' = {}
    /\ UNCHANGED <<pdf, tmp, target>>

\* The node itself gives up: a port is missing, or the output directory cannot be
\* made.  The result names no file then, and the errors have one entry for all.
OutputFails ==
    /\ at = Stage("pdf", "begin")
    /\ at' = Stage("finished", "begin")
    /\ paths' = {} /\ noted' = {"output"}
    /\ UNCHANGED <<report, pdf, tmp, target>>

\* Any exception of a channel ends it with an entry in the errors: the layout
\* or the serialization, a disk that refuses to go on, or a target that cannot
\* be replaced.
ChannelFails(c) ==
    /\ at.channel = c
    /\ noted' = noted \cup {c}
    /\ EndChannel(c)
    /\ UNCHANGED <<report, pdf, tmp, target, paths>>

-----------------------------------------------------------------------------
PdfBegun ==
    /\ at = Stage("pdf", "begin")
    /\ pdf' = [pdf EXCEPT ![report] = "torn"]
    /\ at' = Stage("pdf", "writing")
    /\ UNCHANGED <<report, tmp, target, paths, noted>>

PdfWritten ==
    /\ at = Stage("pdf", "writing")
    /\ pdf' = [pdf EXCEPT ![report] = "whole"]
    /\ paths' = paths \cup {"pdf"}
    /\ EndChannel("pdf")
    /\ UNCHANGED <<report, tmp, target, noted>>

-----------------------------------------------------------------------------
(* export_json and export_csv: a temporary file takes the target's place *)

\* Mutant: the target itself is opened for writing.
TmpBegun_inPlace(k) ==
    /\ at = Stage(k, "begin")
    /\ target' = [target EXCEPT ![k] = [by |-> report, whole |-> FALSE]]
    /\ tmp' = [tmp EXCEPT ![k] = [by |-> report, whole |-> FALSE]]
    /\ at' = Stage(k, "writing")
    /\ UNCHANGED <<report, pdf, paths, noted>>

TmpBegun(k) ==
    /\ at = Stage(k, "begin")
    /\ tmp' = [tmp EXCEPT ![k] = [by |-> report, whole |-> FALSE]]
    /\ at' = Stage(k, "writing")
    /\ UNCHANGED <<report, pdf, target, paths, noted>>

TmpWritten(k) ==
    /\ at = Stage(k, "writing")
    /\ tmp' = [tmp EXCEPT ![k].whole = TRUE]
    /\ at' = Stage(k, "written")
    /\ UNCHANGED <<report, pdf, target, paths, noted>>

\* os.replace
Replace(k) ==
    /\ at = Stage(k, "written")
    /\ target' = [target EXCEPT ![k] = tmp[k]]
    /\ tmp' = [tmp EXCEPT ![k] = NoFile]
    /\ paths' = paths \cup {k}
    /\ EndChannel(k)
    /\ UNCHANGED <<report, pdf, noted>>

ReporterDies ==
    /\ at.channel \notin NoChannel
    /\ at' = Stage("died", "begin")
    /\ UNCHANGED <<report, pdf, tmp, target, paths, noted>>

ReportNext ==
    \/ ReportBegins \/ OutputFails
    \/ \E c \in {"pdf"} \cup Metrics : ChannelFails(c)
    \/ PdfBegun \/ PdfWritten
    \/ \E k \in Metrics : TmpBegun(k) \/ TmpWritten(k) \/ Replace(k)
    \/ ReporterDies

ReportSpec == ReportInit /\ [][ReportNext]_reportVars

-----------------------------------------------------------------------------
(* Property *)

\* A published metrics file is never cut off, whatever failed or died while it
\* was written or replaced, and the result of a finished run accounts for every
\* channel: a path to a whole file with this run's data, or else an error, its own
\* or the one of an output node that gave up.  (A metrics file of an earlier run
\* may then still stand under the name of the failed one.)
ReportsAreWhole ==
    /\ \A k \in Metrics : target[k].whole
    /\ at.channel = "finished" =>
          /\ IF "output" \in noted THEN paths = {}
             ELSE paths \cup noted = {"pdf"} \cup Metrics
          /\ "pdf" \in paths => pdf[report] = "whole"
          /\ \A k \in Metrics : k \in paths <=> target[k].by = report
=============================================================================
