--------------------------- MODULE PeripheryProofs ---------------------------
(***************************************************************************)
(* Proofs about the components at the edge of the system: the key cache,    *)
(* the classifier, the DLP node, the set-up scripts, the files SIOPV writes *)
(* and reads back, and the batch check of the authorization adapter.  They  *)
(* share no state; each has its own specification, for any value of its     *)
(* constants.                                                               *)
(***************************************************************************)
EXTENDS
    KeyCache, Classifier, DlpScan, Provisioning, ReportFiles, TrainingData, ModelStore,
    BatchCheck, FiniteSetTheorems, WellFoundedInduction, TLAPS

-----------------------------------------------------------------------------
(* Provisioning *)

\* An attempt looks for the client only once somebody has created it, and
\* nothing takes it away.
SetupInv ==
    /\ DOMAIN step = Attempts
    /\ SetupCanBeRepeated
    /\ \A a \in Attempts : step[a] = "lookup" => client

\* The clean-up after a failed setup is to run it again (setup-keycloak.py,
\* setup-openfga.py): for any number of attempts, one fails only over a request
\* of its own or for want of a model file.
THEOREM SetupIsRepeatable == ProvisioningSpec => []SetupCanBeRepeated
<1>1. ProvisioningInit => SetupInv
  BY DEF ProvisioningInit, SetupInv, SetupCanBeRepeated
<1>2. ASSUME SetupInv, [ProvisioningNext]_provisioningVars PROVE SetupInv'
  <2>. USE <1>2 DEF SetupInv, SetupCanBeRepeated, Goto
  <2>1. CASE UNCHANGED provisioningVars
    BY <2>1 DEF provisioningVars
  <2>2. ASSUME NEW a \in Attempts, Begin(a) PROVE SetupInv'
    BY <2>2 DEF Begin
  <2>3. ASSUME NEW a \in Attempts, Refused(a) PROVE SetupInv'
    BY <2>3 DEF Refused
  <2>4. ASSUME NEW a \in Attempts, AdminToken(a) PROVE SetupInv'
    BY <2>4 DEF AdminToken
  <2>5. ASSUME NEW a \in Attempts, CreateRealm(a) PROVE SetupInv'
    BY <2>5 DEF CreateRealm, Answer
  <2>6. ASSUME NEW a \in Attempts, CreateClient(a) PROVE SetupInv'
    BY <2>6 DEF CreateClient, Answer
  <2>7. ASSUME NEW a \in Attempts, FindClient(a) PROVE SetupInv'
    BY <2>7 DEF FindClient
  <2>8. ASSUME NEW a \in Attempts, GetSecret(a) PROVE SetupInv'
    BY <2>8 DEF GetSecret
  <2>9. ASSUME NEW a \in Attempts, CreateStore(a) PROVE SetupInv'
    BY <2>9 DEF CreateStore, Answer
  <2>10. ASSUME NEW a \in Attempts, UploadModel(a) PROVE SetupInv'
    BY <2>10 DEF UploadModel, Answer
  <2>11. ASSUME NEW a \in Attempts, NoModelFile(a) PROVE SetupInv'
    BY <2>11 DEF NoModelFile
  <2>. QED
    BY <1>2, <2>1, <2>2, <2>3, <2>4, <2>5, <2>6, <2>7, <2>8, <2>9, <2>10, <2>11
    DEF ProvisioningNext
<1>3. SetupInv => SetupCanBeRepeated
  BY DEF SetupInv
<1>. QED BY <1>1, <1>2, <1>3, PTL DEF ProvisioningSpec

-----------------------------------------------------------------------------
(* KeyCache *)

\* An answer under way was given since the token was presented, and only one
\* that was overtaken is older than the cached copy.
KeyInv ==
    /\ edition \in Nat /\ cached \in Nat /\ cached <= edition
    /\ since \in [Tokens -> Nat] /\ served \in [Tokens -> Nat]
    /\ DOMAIN stage = Tokens /\ DOMAIN kid = Tokens
    /\ \A t \in Tokens :
          /\ since[t] <= edition /\ served[t] <= edition
          /\ served[t] # 0 =>
                /\ stage[t] \in {"fetch", "fetch_again"}
                /\ since[t] <= served[t]
                /\ t \notin overtaken => cached <= served[t]
    /\ PublishedKeyIsKnown

LEMMA KeysBegin == KeyInit => KeyInv
BY DEF KeyInit, KeyInv, PublishedKeyIsKnown

LEMMA KeysGoOn == KeyInv /\ [KeyNext]_keyVars => KeyInv'
<1>. SUFFICES ASSUME KeyInv, [KeyNext]_keyVars PROVE KeyInv'
  OBVIOUS
<1>. USE DEF KeyInv, PublishedKeyIsKnown
<1>1. CASE UNCHANGED keyVars
  BY <1>1 DEF keyVars
<1>2. ASSUME NEW t \in Tokens, ValidateToken(t) PROVE KeyInv'
  BY <1>2 DEF ValidateToken, Lookup
<1>3. ASSUME NEW t \in Tokens, RefuseHeader(t) PROVE KeyInv'
  BY <1>3 DEF RefuseHeader
<1>4. ASSUME NEW t \in Tokens, ProviderAnswers(t) PROVE KeyInv'
  BY <1>4 DEF ProviderAnswers
<1>5. ASSUME NEW t \in Tokens, FetchJwks(t) PROVE KeyInv'
  BY <1>5 DEF FetchJwks, Lookup, UnderWay
<1>6. ASSUME NEW t \in Tokens, FetchFails(t) PROVE KeyInv'
  BY <1>6 DEF FetchFails
<1>7. ASSUME NEW t \in Tokens, JudgeClaims(t) PROVE KeyInv'
  BY <1>7 DEF JudgeClaims
<1>8. CASE PublishEdition
  BY <1>8 DEF PublishEdition
<1>9. CASE TtlPasses
  BY <1>9 DEF TtlPasses
<1>. QED
  BY <1>1, <1>2, <1>3, <1>4, <1>5, <1>6, <1>7, <1>8, <1>9 DEF KeyNext

\* A key published all the while is found (_find_signing_key after the second
\* _fetch_jwks of keycloak_oidc_adapter.py), for any number of validations at
\* once and any history of editions.
THEOREM KeyIsKnown == KeySpec => []PublishedKeyIsKnown
<1>1. KeyInv => PublishedKeyIsKnown
  BY DEF KeyInv
<1>. QED BY <1>1, KeysBegin, KeysGoOn, PTL DEF KeySpec

\* The cache steps back only through an answer another one overtook: with one
\* fetch at a time it never does.
THEOREM SteppingBackNeedsOvertaking == KeySpec => OlderKeysNeedOvertaking
<1>1. ASSUME KeyInv, [KeyNext]_keyVars
      PROVE  [cached' < cached =>
                 \E t \in overtaken : served[t] = cached' /\ served'[t] = 0]_keyVars
  <2>. SUFFICES ASSUME cached' < cached
                PROVE  \E t \in overtaken : served[t] = cached' /\ served'[t] = 0
    OBVIOUS
  <2>1. cached' # cached
    BY <1>1 DEF KeyInv
  <2>2. PICK t \in Tokens : FetchJwks(t)
    BY <1>1, <2>1 DEF KeyNext, keyVars, ValidateToken, RefuseHeader, ProviderAnswers,
       FetchFails, JudgeClaims, PublishEdition, TtlPasses
  <2>3. served[t] # 0 /\ cached' = served[t] /\ served'[t] = 0
    BY <1>1, <2>2 DEF FetchJwks, KeyInv
  <2>4. t \in overtaken
    BY <1>1, <2>3 DEF KeyInv
  <2>. QED BY <2>3, <2>4
<1>. QED BY <1>1, KeysBegin, KeysGoOn, PTL DEF KeySpec, OlderKeysNeedOvertaking

-----------------------------------------------------------------------------
(* Classifier *)

\* The explainers of a fitted model are its own.  Those of an unfitted one may
\* be anybody's: nothing is scored with it, and what replaces it resets them.
ClassifierInv ==
    /\ DOMAIN model = Classifiers /\ DOMAIN shap = Classifiers
    /\ DOMAIN lime = Classifiers /\ DOMAIN score = Classifiers
    /\ \A c \in Classifiers : model[c] \in Fitted =>
          /\ shap[c] \in {None, model[c]}
          /\ lime[c] = NoLime \/ lime[c].model = model[c]
    /\ ScoresAreOneModel

\* A risk score and its explanations speak of one model (xgboost_classifier.py),
\* for any number of processes, trainings and failures.
THEOREM OneModelPerScore == ClassifierSpec => []ScoresAreOneModel
<1>. USE ClassifierAssumption
<1>1. ClassifierInit => ClassifierInv
  BY DEF ClassifierInit, ClassifierInv, ScoresAreOneModel, NoScore, NoLime
<1>2. ASSUME ClassifierInv, [ClassifierNext]_classifierVars PROVE ClassifierInv'
  <2>. USE <1>2 DEF ClassifierInv, ScoresAreOneModel
  <2>1. CASE UNCHANGED classifierVars
    BY <2>1 DEF classifierVars
  <2>2. ASSUME NEW c \in Classifiers, Train(c) PROVE ClassifierInv'
    BY <2>2 DEF Train, TrainingBegins, ResetExplainers
  <2>3. ASSUME NEW c \in Classifiers, TrainFailsEarly(c) PROVE ClassifierInv'
    BY <2>3 DEF TrainFailsEarly, TrainingBegins
  <2>4. ASSUME NEW c \in Classifiers, FitFails(c) PROVE ClassifierInv'
    BY <2>4 DEF FitFails, TrainingBegins, Unfitted, Fitted
  <2>5. ASSUME NEW c \in Classifiers, WriteBegins(c) \/ WriteEnds(c) PROVE ClassifierInv'
    BY <2>5 DEF WriteBegins, WriteEnds
  <2>6. ASSUME NEW c \in Classifiers, Restart(c) PROVE ClassifierInv'
    BY <2>6 DEF Restart, ResetExplainers, NoScore
  <2>7. ASSUME NEW c \in Classifiers, LoadModel(c) PROVE ClassifierInv'
    BY <2>7 DEF LoadModel, ResetExplainers
  <2>8. ASSUME NEW c \in Classifiers, LoadFails(c) PROVE ClassifierInv'
    BY <2>8 DEF LoadFails, Unfitted, Fitted
  <2>9. ASSUME NEW c \in Classifiers, model[c] \in Fitted
        PROVE  ShapOf(c) = model[c] /\ LimeOf(c).model = model[c]
    BY <2>9 DEF ShapOf, LimeOf
  <2>10. ASSUME NEW c \in Classifiers, Predict(c) PROVE ClassifierInv'
    BY <2>9, <2>10 DEF Predict
  <2>11. ASSUME NEW c \in Classifiers, LimeFails(c) PROVE ClassifierInv'
    BY <2>9, <2>11 DEF LimeFails
  <2>12. ASSUME NEW c \in Classifiers, ExplainAlone(c) PROVE ClassifierInv'
    BY <2>9, <2>12 DEF ExplainAlone, Unfitted, Fitted
  <2>. QED
    BY <1>2, <2>1, <2>2, <2>3, <2>4, <2>5, <2>6, <2>7, <2>8, <2>10, <2>11, <2>12
    DEF ClassifierNext
<1>3. ClassifierInv => ScoresAreOneModel
  BY DEF ClassifierInv
<1>. QED BY <1>1, <1>2, <1>3, PTL DEF ClassifierSpec

-----------------------------------------------------------------------------
(* DlpScan *)

\* A nonempty set of record numbers has a last one.
LEMMA LastExists ==
    ASSUME NEW n \in Nat, NEW S \in SUBSET (1..n), S # {}
    PROVE  \E q \in S : \A r \in S : r <= q
<1>. DEFINE T == {n - r : r \in S}
<1>1. T \subseteq Nat
  <2>. SUFFICES ASSUME NEW r \in S PROVE n - r \in Nat
    OBVIOUS
  <2>1. r \in 1..n
    OBVIOUS
  <2>. QED BY <2>1
<1>2. T # {}
  OBVIOUS
<1>3. PICK x \in T : \A y \in T : ~ (<<y, x>> \in OpToRel(<, Nat))
  BY <1>1, <1>2, NatLessThanWellFounded, WFMin, Zenon
<1>4. \A y \in T : ~ (y < x)
  BY <1>1, <1>3 DEF OpToRel
<1>5. PICK q \in S : x = n - q
  OBVIOUS
<1>6. ASSUME NEW r \in S PROVE r <= q
  <2>1. ~ (n - r < n - q)
    BY <1>4, <1>5
  <2>. QED BY <2>1
<1>. QED BY <1>6

\* The entry of a screened text tells what a pattern layer recognizes in it,
\* unless the model failed on it.
DlpInv ==
    /\ cveOf \in [Batch -> CVEs] /\ text \in [Batch -> Texts]
    /\ DOMAIN screen = Batch /\ DOMAIN entry = Batch
    /\ \A r \in Batch :
          /\ screen[r] = "haiku" => text[r] \notin {"blank", "pii"}
          /\ scan # "skipped" /\ screen[r] = "done" =>
                /\ text[r] = "pii" => entry[r].redacted
                /\ text[r] = "hint" => ~ entry[r].semantic_passed \/ r \in failed
    /\ scan = "done" => \A r \in Batch : screen[r] = "done"
    /\ MissedTextsAreExplained

LEMMA DlpGoesOn == DlpInv /\ [DlpNext]_dlpVars => DlpInv'
<1>. SUFFICES ASSUME DlpInv, [DlpNext]_dlpVars PROVE DlpInv'
  OBVIOUS
<1>1. CASE UNCHANGED dlpVars
  BY <1>1 DEF DlpInv, dlpVars, MissedTextsAreExplained
<1>2. ASSUME NEW r \in Batch, screen[r] # "done",
             NEW redacted \in BOOLEAN, NEW passed \in BOOLEAN, Result(r, redacted, passed),
             text[r] = "pii" => redacted,
             text[r] = "hint" => ~ passed \/ r \in failed',
             failed \subseteq failed', UNCHANGED <<cveOf, text, scan, perCve>>
      PROVE  DlpInv'
  <2>1. /\ screen' = [screen EXCEPT ![r] = "done"]
        /\ entry' = [entry EXCEPT ![r] = [redacted |-> redacted, semantic_passed |-> passed]]
    BY <1>2 DEF Result
  <2>2. scan # "done"
    BY <1>2 DEF DlpInv
  <2>3. entry'[r].redacted = redacted /\ entry'[r].semantic_passed = passed
    BY <2>1 DEF DlpInv
  <2>4. /\ text[r] = "pii" => entry'[r].redacted
        /\ text[r] = "hint" => ~ entry'[r].semantic_passed \/ r \in failed'
    BY <1>2, <2>3
  <2>. QED BY <1>2, <2>1, <2>2, <2>4 DEF DlpInv, MissedTextsAreExplained
<1>3. ASSUME NEW r \in Batch, PresidioScreens(r) PROVE DlpInv'
  <2>1. CASE text[r] = "pii"
    <3>1. Result(r, TRUE, TRUE)
      BY <1>3, <2>1, Zenon DEF PresidioScreens
    <3>. QED BY <1>2, <1>3, <2>1, <3>1 DEF PresidioScreens
  <2>2. CASE text[r] = "blank"
    <3>1. Result(r, FALSE, TRUE)
      BY <1>3, <2>2 DEF PresidioScreens
    <3>. QED BY <1>2, <1>3, <2>2, <3>1 DEF PresidioScreens
  <2>3. CASE text[r] \notin {"pii", "blank"}
    BY <1>3, <2>3 DEF DlpInv, MissedTextsAreExplained, PresidioScreens
  <2>. QED BY <2>1, <2>2, <2>3
<1>4. ASSUME NEW r \in Batch, PresidioFails(r) PROVE DlpInv'
  BY <1>4 DEF DlpInv, MissedTextsAreExplained, PresidioFails
<1>5. ASSUME NEW r \in Batch, HaikuAnswers(r) PROVE DlpInv'
  <2>1. PICK passed \in BOOLEAN : Result(r, FALSE, passed) /\ (text[r] = "hint" => ~ passed)
    BY <1>5 DEF HaikuAnswers
  <2>2. text[r] # "pii" /\ screen[r] # "done"
    BY <1>5 DEF DlpInv, HaikuAnswers
  <2>. QED BY <1>2, <1>5, <2>1, <2>2 DEF HaikuAnswers
<1>6. ASSUME NEW r \in Batch, HaikuFails(r) PROVE DlpInv'
  BY <1>6 DEF DlpInv, MissedTextsAreExplained, HaikuFails, Result
<1>7. CASE DlpNodeEnds
  <2>1. ASSUME NEW r \in Batch,
               text[r] \in {"pii", "hint"},
               ~ perCve'[cveOf[r]].redacted, perCve'[cveOf[r]].semantic_passed
        PROVE  \/ text[r] = "hint" /\ r \in failed
               \/ \E q \in Batch : q > r /\ cveOf[q] = cveOf[r]
    <3>. DEFINE last == LastRecord(cveOf[r])
    <3>1. RecordsOf(cveOf[r]) \in SUBSET (1..Records) /\ r \in RecordsOf(cveOf[r])
      BY DEF RecordsOf, Batch
    <3>2. last \in RecordsOf(cveOf[r]) /\ r <= last
      BY <3>1, LastExists, DlpAssumption DEF LastRecord
    <3>3. perCve'[cveOf[r]] = entry[last]
      BY <1>7 DEF DlpNodeEnds
    <3>4. last \in Batch /\ cveOf[last] = cveOf[r] /\ screen[last] = "done"
      BY <1>7, <3>2 DEF RecordsOf, DlpNodeEnds
    <3>. HIDE DEF last
    <3>5. CASE last = r
      BY <1>7, <2>1, <3>3, <3>4, <3>5 DEF DlpInv, DlpNodeEnds
    <3>6. CASE last # r
      BY <3>1, <3>2, <3>4, <3>6 DEF Batch
    <3>. QED BY <3>5, <3>6
  <2>. QED BY <1>7, <2>1 DEF DlpInv, MissedTextsAreExplained, DlpNodeEnds
<1>8. CASE DlpNodeSkips
  BY <1>8 DEF DlpInv, MissedTextsAreExplained, DlpNodeSkips
<1>. QED BY <1>1, <1>3, <1>4, <1>5, <1>6, <1>7, <1>8 DEF DlpNext

\* The audit calls a CVE clean against what a pattern layer recognizes only if
\* the model failed on that text or a later record took its place (dlp_node and
\* the two adapters), for any number of records.
THEOREM MissesAreExplained == DlpSpec => []MissedTextsAreExplained
<1>1. DlpInit => DlpInv
  BY DEF DlpInit, DlpInv, MissedTextsAreExplained
<1>2. DlpInv => MissedTextsAreExplained
  BY DEF DlpInv
<1>. QED BY <1>1, <1>2, DlpGoesOn, PTL DEF DlpSpec

-----------------------------------------------------------------------------
(* ReportFiles *)

Channels == {"pdf"} \cup Metrics
File == [by : Nat, whole : BOOLEAN]

\* What the channels before c have left behind.
Done(c) ==
    CASE c = "pdf" -> {} [] c = "json" -> {"pdf"} [] c = "csv" -> {"pdf", "json"}
      [] OTHER -> Channels

ReportTypeOK ==
    /\ report \in 0..MaxReports
    /\ at \in [channel : Channels \cup NoChannel,
               stage : {"begin", "writing", "written"}]
    /\ at.channel # "none" => report # 0
    /\ pdf \in [1..MaxReports -> {"absent", "torn", "whole"}]
    /\ tmp \in [Metrics -> File]
    /\ target \in [Metrics -> File]
    /\ paths \subseteq Channels /\ noted \subseteq Channels \cup {"output"}

\* Only the run at work is behind a file of its number, and a file becomes
\* public once it is whole.
ReportInv ==
    /\ ReportTypeOK
    /\ \A k \in Metrics :
          /\ target[k].whole
          /\ target[k].by <= report
          /\ at.channel # "died" /\ k \in paths => target[k].by = report
          /\ at.channel \notin {"none", "died"} /\ k \notin paths => target[k].by # report
          /\ at.channel = k /\ at.stage \in {"writing", "written"} => tmp[k].by = report
          /\ at.channel = k /\ at.stage = "written" => tmp[k].whole
    /\ at.channel \in Channels \cup {"finished"} =>
          /\ \/ paths \cup noted = Done(at.channel)
             \/ at.channel = "finished" /\ paths = {} /\ noted = {"output"}
          /\ "pdf" \in paths => pdf[report] = "whole"

\* A finished report's result accounts for every channel and a published
\* metrics file is never cut off (generate_report.py,
\* metrics_exporter_adapter.py), for any number of runs of the thread.
THEOREM PublishedReportsAreWhole == ReportSpec => []ReportsAreWhole
<1>. USE ReportsAssumption
<1>1. ReportInit => ReportInv
  BY DEF ReportInit, ReportInv, ReportTypeOK, Stage, NoFile, File, Metrics, Channels,
     NoChannel
<1>2. ASSUME ReportInv, [ReportNext]_reportVars PROVE ReportInv'
  <2>. USE <1>2 DEF ReportInv, ReportTypeOK, Stage, File, Metrics, Channels, NoChannel,
       Done, NextChannel, EndChannel
  <2>1. CASE UNCHANGED reportVars
    BY <2>1 DEF reportVars
  <2>2. CASE ReportBegins
    BY <2>2 DEF ReportBegins
  <2>10. CASE OutputFails
    BY <2>10 DEF OutputFails
  <2>3. ASSUME NEW c \in Channels, ChannelFails(c) PROVE ReportInv'
    BY <2>3 DEF ChannelFails
  <2>4. CASE PdfBegun
    BY <2>4 DEF PdfBegun
  <2>5. CASE PdfWritten
    BY <2>5 DEF PdfWritten
  <2>6. ASSUME NEW k \in Metrics, TmpBegun(k) PROVE ReportInv'
    BY <2>6 DEF TmpBegun
  <2>7. ASSUME NEW k \in Metrics, TmpWritten(k) PROVE ReportInv'
    <3>. tmp' = [tmp EXCEPT ![k] = [tmp[k] EXCEPT !.whole = TRUE]]
      BY <2>7, Zenon DEF TmpWritten
    <3>1. tmp' \in [Metrics -> File] /\ tmp'[k].by = report /\ tmp'[k].whole
      <4>. DEFINE new == [tmp[k] EXCEPT !.whole = TRUE]
      <4>0. tmp[k] \in [by : Nat, whole : BOOLEAN]
        OBVIOUS
      <4>. HIDE <1>2
      <4>1. new \in File /\ new.whole /\ new.by = tmp[k].by
        BY <4>0 DEF File
      <4>2. tmp[k].by = report
        BY <1>2, <2>7 DEF TmpWritten
      <4>. QED BY <1>2, <4>1, <4>2
    <3>2. \A j \in Metrics : j # k => tmp'[j] = tmp[j]
      BY <2>7 DEF TmpWritten
    <3>. QED BY <2>7, <3>1, <3>2 DEF TmpWritten
  <2>8. ASSUME NEW k \in Metrics, Replace(k) PROVE ReportInv'
    BY <2>8 DEF Replace, NoFile
  <2>9. CASE ReporterDies
    BY <2>9 DEF ReporterDies
  <2>. QED
    BY <1>2, <2>1, <2>2, <2>3, <2>4, <2>5, <2>6, <2>7, <2>8, <2>9, <2>10 DEF ReportNext
<1>3. ReportInv => ReportsAreWhole
  BY DEF ReportInv, ReportTypeOK, ReportsAreWhole, Done, Channels, Metrics
<1>. QED BY <1>1, <1>2, <1>3, PTL DEF ReportSpec

-----------------------------------------------------------------------------
(* TrainingData *)

Tasks == {"off", "nvd", "missing", "train", "save"} \cup Sources

TrainingTypeOK ==
    /\ task \in Tasks /\ writing \in BOOLEAN
    /\ gotten \in [Sources -> {"none", "torn", "whole"}]
    /\ files \in [Sources -> {"absent", "torn", "whole"}]

\* The pages behind the run: what it lacks of them was not given to it.
PagesInv ==
    /\ page \in 0..Len(Pages)
    /\ \A i \in 1..page : Pages[i] \ rows \subseteq skipped

\* The NVD records, in memory or in the cache: what they lack was not given to
\* some run, and past the completion what they lack of the known exploited CVEs
\* was asked for in vain.
RecordsInv ==
    /\ nvd.state = "whole" => Listed \ nvd.cves \subseteq skipped
    /\ task = "nvd" /\ writing => page = Len(Pages)
    /\ task \in {"missing", "train", "save"} => Listed \ rows \subseteq skipped
    /\ task \in {"train", "save"} \/ (task = "missing" /\ writing) =>
          Kev \ rows \subseteq missed

\* A file that was used cut off is never written again.
SourcesInv ==
    /\ \A s \in Sources : gotten[s] = "torn" => s \in CsvFiles /\ files[s] = "torn"
    /\ task = "off" => ~ writing
    /\ task \in Sources /\ writing /\ risk.state = "whole" => risk.sources[task] # "torn"

TrainingInv == TrainingTypeOK /\ PagesInv /\ RecordsInv /\ SourcesInv /\ ModelGapsAreExplained

LEMMA PageCount == Len(Pages) \in Nat /\ DOMAIN Pages = 1..Len(Pages)
BY TrainingAssumption

LEMMA TrainingIsInit == TrainingInit => TrainingInv
<1>. SUFFICES ASSUME TrainingInit PROVE TrainingInv
  OBVIOUS
<1>. USE DEF TrainingInit, Tasks, Sources, NothingYet
<1>1. TrainingTypeOK
  <2>1. task \in Tasks /\ writing \in BOOLEAN
    OBVIOUS
  <2>2. gotten \in [Sources -> {"none", "torn", "whole"}]
    OBVIOUS
  <2>3. files \in [Sources -> {"absent", "torn", "whole"}]
    OBVIOUS
  <2>. QED BY <2>1, <2>2, <2>3 DEF TrainingTypeOK
<1>2. PagesInv
  BY PageCount DEF PagesInv
<1>3. RecordsInv
  BY DEF RecordsInv
<1>4. SourcesInv
  BY DEF SourcesInv
<1>5. ModelGapsAreExplained
  BY DEF ModelGapsAreExplained
<1>. QED BY <1>1, <1>2, <1>3, <1>4, <1>5 DEF TrainingInv

LEMMA PagesBehind == PagesInv /\ [TrainingNext]_trainingVars => PagesInv'
<1>. SUFFICES ASSUME PagesInv, [TrainingNext]_trainingVars PROVE PagesInv'
  OBVIOUS
<1>. Len(Pages) \in Nat
  BY PageCount
<1>. USE DEF PagesInv
<1>1. CASE UNCHANGED <<page, rows, skipped>>
  BY <1>1
<1>2. CASE TrainingStops \/ SaveEnds
  BY <1>2 DEF TrainingStops, SaveEnds, AtRest
<1>3. CASE PageArrives
  BY <1>3 DEF PageArrives, AsksForPage
<1>4. CASE PageRateLimited
  BY <1>4 DEF PageRateLimited, AsksForPage
<1>5. CASE PageFails
  BY <1>5 DEF PageFails, AsksForPage
<1>6. CASE UseCachedNvd
  BY <1>6 DEF UseCachedNvd
<1>7. CASE FetchMissingKev
  BY <1>7 DEF FetchMissingKev, OpenNvdCache
<1>. QED
  BY <1>1, <1>2, <1>3, <1>4, <1>5, <1>6, <1>7
  DEF TrainingNext, trainingVars, runState, TrainingStarts, UseCached, DownloadFails, DownloadBegun,
      DownloadWritten, WorkWith, NvdBegun, OpenNvdCache, NoneMissing, NvdWritten,
      TrainModel, SaveBegun, Advance

LEMMA TrainingGoesOn == TrainingInv /\ [TrainingNext]_trainingVars => TrainingInv'
<1>. SUFFICES ASSUME TrainingInv, [TrainingNext]_trainingVars
              PROVE  TrainingTypeOK' /\ RecordsInv' /\ SourcesInv' /\ ModelGapsAreExplained'
  BY PagesBehind DEF TrainingInv
<1>. TrainingTypeOK /\ RecordsInv /\ SourcesInv /\ ModelGapsAreExplained
  BY DEF TrainingInv
<1>. DEFINE Goal == TrainingTypeOK /\ RecordsInv /\ SourcesInv /\ ModelGapsAreExplained
<1>. USE DEF TrainingTypeOK, RecordsInv, SourcesInv, ModelGapsAreExplained, Tasks, Sources,
     Advance, FollowingTask
<1>1. CASE UNCHANGED trainingVars
  BY <1>1 DEF trainingVars, runState
<1>2. CASE TrainingStarts
  BY <1>2 DEF TrainingStarts
<1>3. CASE TrainingStops
  BY <1>3 DEF TrainingStops, AtRest, NothingYet
<1>4. ASSUME NEW s \in Sources, UseCached(s) PROVE Goal'
  BY <1>4 DEF UseCached, WorkWith
<1>5. ASSUME NEW s \in Sources, DownloadFails(s) PROVE Goal'
  BY <1>5 DEF DownloadFails, WorkWith
<1>6. ASSUME NEW s \in Sources, DownloadBegun(s) PROVE Goal'
  BY <1>6 DEF DownloadBegun
<1>7. ASSUME NEW s \in Sources, DownloadWritten(s) PROVE Goal'
  BY <1>7 DEF DownloadWritten, WorkWith
<1>8. CASE UseCachedNvd
  BY <1>8 DEF UseCachedNvd
<1>9. CASE PageArrives
  BY <1>9 DEF PageArrives, AsksForPage
<1>10. CASE PageRateLimited
  BY <1>10 DEF PageRateLimited, AsksForPage
<1>11. CASE PageFails
  BY <1>11 DEF PageFails, AsksForPage
<1>12. CASE NvdBegun
  BY <1>12 DEF NvdBegun, OpenNvdCache
<1>13. CASE NoneMissing
  BY <1>13 DEF NoneMissing
<1>14. CASE FetchMissingKev
  BY <1>14 DEF FetchMissingKev, OpenNvdCache
<1>15. CASE NvdWritten
  <2>1. Listed \ rows \subseteq skipped
    <3>1. CASE task = "nvd"
      <4>1. page = Len(Pages)
        BY <1>15, <3>1 DEF NvdWritten
      <4>2. \A i \in DOMAIN Pages : Pages[i] \ rows \subseteq skipped
        BY <4>1, PageCount DEF TrainingInv, PagesInv
      <4>. QED BY <4>2 DEF Listed
    <3>. QED BY <1>15, <3>1 DEF NvdWritten
  <2>. QED BY <1>15, <2>1 DEF NvdWritten
<1>16. CASE TrainModel
  BY <1>16 DEF TrainModel
<1>17. CASE SaveBegun
  BY <1>17 DEF SaveBegun
<1>18. CASE SaveEnds
  <2>1. (Msf \cap Dataset) \ Positives # {} => gotten["msf"] = "none"
    BY DEF Dataset, Positives, CsvFiles
  <2>2. Kev \ Dataset \subseteq Unrated \cup missed
    BY <1>18 DEF SaveEnds, Dataset
  <2>3. Listed \ Dataset \subseteq Unrated \cup skipped
    BY <1>18 DEF SaveEnds, Dataset
  <2>4. TrainingTypeOK' /\ RecordsInv' /\ SourcesInv'
    BY <1>18 DEF SaveEnds, AtRest, NothingYet
  <2>5. ModelGapsAreExplained'
    BY <1>18, <2>1, <2>2, <2>3 DEF SaveEnds
  <2>. QED BY <2>4, <2>5
<1>. QED
  BY <1>1, <1>2, <1>3, <1>4, <1>5, <1>6, <1>7, <1>8, <1>9, <1>10,
     <1>11, <1>12, <1>13, <1>14, <1>15, <1>16, <1>17, <1>18 DEF TrainingNext

\* What a trained model has not seen is explained by what went wrong in its own
\* run or by a page some run was refused (train-xgboost.py), for any catalogue
\* and any number of runs that stop anywhere.
THEOREM GapsAreExplained == TrainingSpec => []ModelGapsAreExplained
<1>1. TrainingInv => ModelGapsAreExplained
  BY DEF TrainingInv
<1>. QED BY <1>1, TrainingIsInit, TrainingGoesOn, PTL DEF TrainingSpec

-----------------------------------------------------------------------------
(* ModelStore *)

Contents == 0..(MaxSaves + 1)
Complete == 1..MaxSaves
FileNames == {"model", "metadata"}
SaveSteps == {"model", "hash", "metadata"}
Writer ==
    [step : {"none", "delete"} \cup SaveSteps, version : Versions \cup {0},
     save : 0..MaxSaves, alone : BOOLEAN, hash : Contents, key : SigningKey,
     left : SUBSET (Versions \X FileNames)]
Load ==
    [version : Versions \cup {0}, step : {"none", "size", "metadata", "verify", "load"} \cup Outcomes,
     key : SigningKey, verify : BOOLEAN, hash : Contents, signed : SigningKey]

StoreTypeOK ==
    /\ modelFile \in [Versions -> Contents]
    /\ metadataFile \in
          [Versions -> [is : {"missing", "torn", "whole"}, hash : Contents, key : SigningKey]]
    /\ saver \in [ModelWriters -> Writer]
    /\ saves \in 0..MaxSaves
    /\ loader \in Load
    /\ suspect \subseteq Versions /\ touched \in BOOLEAN

\* A writer at work knows its version, a save its number, a deletion its files.
WritersInv ==
    \A s \in ModelWriters :
        /\ saver[s].step # "none" => saver[s].version \in Versions
        /\ saver[s].step \in SaveSteps => saver[s].save \in Complete /\ saver[s].left = {}

\* Writers that meet at a version have made it suspect, and know it.
MeetInv ==
    \A s \in ModelWriters :
        /\ \A o \in ModelWriters \ {s} : At(s) \cap At(o) \subseteq suspect
        /\ saver[s].alone => \A o \in ModelWriters \ {s} : At(s) \cap At(o) = {}
        /\ saver[s].step \in SaveSteps /\ ~saver[s].alone => saver[s].version \in suspect

\* What a version looks like that only s is at work on.
InWork(v, s) ==
    /\ saver[s].step = "hash" => modelFile[v] \in Complete
    /\ saver[s].step = "metadata" =>
          modelFile[v] \in Complete /\ saver[s].hash = modelFile[v]
    /\ saver[s].step = "delete" =>
          /\ <<v, "model">> \notin saver[s].left => modelFile[v] = Missing
          /\ <<v, "metadata">> \notin saver[s].left => metadataFile[v].is = "missing"

\* A version at rest is whole or gone.
Settled(v) ==
    \/ modelFile[v] = Missing /\ metadataFile[v].is = "missing"
    \/ /\ modelFile[v] \in Complete /\ metadataFile[v].is = "whole"
       /\ metadataFile[v].hash = modelFile[v]

VersionsInv ==
    \A v \in Versions :
        /\ v \notin suspect /\ (\A s \in ModelWriters : v \notin At(s)) => Settled(v)
        /\ \A s \in ModelWriters :
              v \in At(s) /\ (v \notin suspect \/ saver[s].alone) => InWork(v, s)

\* A load that meets nobody sees one whole version all the way, or none at all.
LoaderInv ==
    LET v == loader.version IN
    /\ loader.step # "none" => v \in Versions
    /\ loader.step # "none" /\ ~touched => \A s \in ModelWriters : v \notin At(s)
    /\ loader.step # "none" /\ ~touched /\ v \notin suspect =>
          /\ loader.step # "no_model" => modelFile[v] \in Complete
          /\ loader.step = "no_model" => modelFile[v] = Missing
          /\ loader.step \in {"verify", "load", "loaded"} => loader.hash = modelFile[v]
          /\ loader.step = "verify" => loader.verify /\ loader.signed = metadataFile[v].key
          /\ loader.step \in {"bad_metadata", "unreadable"} => FALSE
          /\ loader.step = "integrity" =>
                \/ modelFile[v] \in TooLarge
                \/ loader.verify /\ ~SignatureFits(loader.key, metadataFile[v].key)

StoreInv == StoreTypeOK /\ WritersInv /\ MeetInv /\ VersionsInv /\ LoaderInv

\* The loader and the versions the writers are not at are left alone.
LEMMA LoaderStays ==
    ASSUME StoreInv, NEW vs \in SUBSET Versions, Touch(vs), UNCHANGED loader,
           \A v \in Versions \ vs : modelFile'[v] = modelFile[v] /\ metadataFile'[v] = metadataFile[v],
           suspect \ suspect' \subseteq vs,
           \A v \in Versions \ vs, s \in ModelWriters : v \in At(s)' => v \in At(s)
    PROVE  LoaderInv'
<1>. DEFINE v == loader.version
<1>1. CASE loader.step # "none" /\ ~touched'
  <2>1. v \in Versions \ vs /\ ~touched
    BY <1>1 DEF Touch, StoreInv, LoaderInv, StoreTypeOK
  <2>2. /\ modelFile'[v] = modelFile[v] /\ metadataFile'[v] = metadataFile[v]
        /\ \A s \in ModelWriters : v \notin At(s) /\ v \notin At(s)'
        /\ v \notin suspect' => v \notin suspect
    BY <1>1, <2>1 DEF StoreInv, LoaderInv
  <2>. HIDE DEF v
  <2>. QED BY <1>1, <2>1, <2>2 DEF StoreInv, LoaderInv, v
<1>2. CASE loader.step = "none" \/ touched'
  BY <1>2 DEF StoreInv, LoaderInv, Touch
<1>. QED BY <1>1, <1>2 DEF Touch, StoreInv, StoreTypeOK

\* One writer moves on at v, where it is, or leaves; the others stay.
LEMMA WriterMoves ==
    ASSUME StoreInv, NEW s \in ModelWriters, NEW v \in At(s), NEW state \in Writer,
           saver' = [saver EXCEPT ![s] = state],
           state.alone = saver[s].alone \/ state = NoSave,
           state.step # "none" => state.version \in Versions,
           state.step \in SaveSteps =>
               /\ state.save \in Complete /\ state.left = {}
               /\ saver[s].step \in SaveSteps /\ state.version = saver[s].version,
           At(s)' \subseteq At(s), Touch({v}) \/ UNCHANGED touched,
           suspect \subseteq suspect' \/ (suspect' = suspect \ {v} /\ saver[s].alone),
           suspect' \subseteq Versions,
           Touch({v}) \/ (suspect \subseteq suspect' /\ UNCHANGED <<modelFile, metadataFile>>),
           modelFile' \in [Versions -> Contents],
           metadataFile' \in
               [Versions -> [is : {"missing", "torn", "whole"}, hash : Contents, key : SigningKey]],
           \A u \in Versions \ {v} :
               modelFile'[u] = modelFile[u] /\ metadataFile'[u] = metadataFile[u],
           \A u \in At(s)' : u \notin suspect' \/ saver[s].alone => InWork(u, s)',
           \A u \in (At(s) \ At(s)') \ suspect' : Settled(u)',
           UNCHANGED <<saves, loader>>
    PROVE  StoreInv'
<1>. DEFINE others == ModelWriters \ {s}
<1>1. /\ \A o \in others : saver'[o] = saver[o] /\ At(o)' = At(o)
      /\ saver'[s] = state /\ saver' \in [ModelWriters -> Writer]
  BY DEF At, StoreInv, StoreTypeOK
<1>2. v \in Versions
  BY DEF At, StoreInv, StoreTypeOK, WritersInv, Writer
<1>3. StoreTypeOK'
  BY <1>1 DEF StoreInv, StoreTypeOK, Touch
<1>4. WritersInv'
  BY <1>1 DEF StoreInv, WritersInv
<1>5. MeetInv'
  <2>1. ASSUME NEW o \in others PROVE At(s)' \cap At(o)' \subseteq suspect'
    BY <1>1, <2>1 DEF StoreInv, MeetInv
  <2>2. ASSUME NEW o \in others, NEW p \in others \ {o} PROVE At(o)' \cap At(p)' \subseteq suspect'
    <3>1. At(o)' \cap At(p)' \subseteq suspect
      BY <1>1 DEF StoreInv, MeetInv
    <3>2. CASE saver[s].alone /\ suspect' = suspect \ {v}
      BY <1>1, <3>1, <3>2 DEF StoreInv, MeetInv
    <3>. QED BY <3>1, <3>2
  <2>3. ASSUME NEW o \in ModelWriters, saver'[o].alone, NEW p \in ModelWriters \ {o}
        PROVE  At(o)' \cap At(p)' = {}
    <3>1. CASE o = s
      <4>1. state = NoSave => At(s)' = {}
        BY <1>1 DEF At, NoSave
      <4>. QED BY <1>1, <2>3, <3>1, <4>1 DEF StoreInv, MeetInv
    <3>2. CASE o # s
      <4>1. saver[o].alone /\ At(o)' = At(o) /\ At(p)' \subseteq At(p)
        BY <1>1, <2>3, <3>2
      <4>. QED BY <2>3, <4>1 DEF StoreInv, MeetInv
    <3>. QED BY <3>1, <3>2
  <2>4. ASSUME NEW o \in ModelWriters, saver'[o].step \in SaveSteps, ~saver'[o].alone
        PROVE  saver'[o].version \in suspect'
    <3>1. CASE o = s
      BY <1>1, <2>4, <3>1 DEF StoreInv, MeetInv, NoSave, SaveSteps
    <3>2. CASE o # s
      <4>1. saver[o].version \in suspect /\ saver[o].version \in At(o)
        BY <1>1, <2>4, <3>2 DEF StoreInv, MeetInv, At, SaveSteps
      <4>2. saver[s].alone => saver[o].version # v
        BY <1>1, <3>2, <4>1 DEF StoreInv, MeetInv
      <4>. QED BY <1>1, <3>2, <4>1, <4>2
    <3>. QED BY <3>1, <3>2
  <2>. QED BY <2>1, <2>2, <2>3, <2>4 DEF MeetInv
<1>6. VersionsInv'
  <2>0. state = NoSave => At(s)' = {}
    BY <1>1 DEF At, NoSave
  <2>1. ASSUME NEW u \in Versions, u \notin suspect', \A o \in ModelWriters : u \notin At(o)'
        PROVE  Settled(u)'
    <3>1. CASE u \in At(s)
      BY <2>1, <3>1
    <3>2. CASE u \notin At(s)
      <4>1. u # v /\ u \notin suspect
        BY <2>1, <3>2
      <4>2. Settled(u)
        BY <1>1, <2>1, <3>2, <4>1 DEF StoreInv, VersionsInv
      <4>. QED BY <4>1, <4>2 DEF Settled
    <3>. QED BY <3>1, <3>2
  <2>2. ASSUME NEW u \in Versions, NEW o \in ModelWriters, u \in At(o)',
               u \notin suspect' \/ saver'[o].alone
        PROVE  InWork(u, o)'
    <3>1. CASE o = s
      BY <1>1, <2>0, <2>2, <3>1
    <3>2. CASE o # s
      <4>1. u \in At(o) /\ saver'[o] = saver[o]
        BY <1>1, <2>2, <3>2
      <4>2. u \notin At(s)
        BY <2>2, <3>2, <4>1 DEF StoreInv, MeetInv
      <4>3. u # v /\ (u \notin suspect \/ saver[o].alone)
        BY <2>2, <4>1, <4>2
      <4>4. InWork(u, o)
        BY <2>2, <4>1, <4>3 DEF StoreInv, VersionsInv
      <4>. QED BY <4>1, <4>3, <4>4 DEF InWork
    <3>. QED BY <3>1, <3>2
  <2>. QED BY <2>1, <2>2 DEF VersionsInv
<1>7. LoaderInv'
  <2>1. \A u \in Versions, o \in ModelWriters : u \in At(o)' => u \in At(o)
    BY <1>1
  <2>2. CASE Touch({v})
    BY <1>2, <2>1, <2>2, LoaderStays
  <2>3. CASE UNCHANGED touched /\ suspect \subseteq suspect' /\ UNCHANGED <<modelFile, metadataFile>>
    <3>1. Touch({})
      BY <2>3 DEF Touch, StoreInv, StoreTypeOK
    <3>. QED BY <2>1, <2>3, <3>1, LoaderStays
  <2>. QED BY <2>2, <2>3
<1>. QED BY <1>3, <1>4, <1>5, <1>6, <1>7 DEF StoreInv

\* A writer sets to work on vs.
LEMMA WriterSetsTo ==
    ASSUME StoreInv, NEW s \in ModelWriters, NEW vs \in SUBSET Versions, NEW state \in Writer,
           SetsTo(s, vs, state),
           state.step \in {"model", "delete"}, state.version \in Versions,
           vs = {state.version} \cup {pair[1] : pair \in state.left},
           state.step = "model" => state.save \in Complete /\ state.left = {},
           state.step = "delete" =>
               \A u \in vs :
                   /\ <<u, "model">> \notin state.left => modelFile'[u] = Missing
                   /\ <<u, "metadata">> \notin state.left => metadataFile'[u].is = "missing",
           modelFile' \in [Versions -> Contents],
           metadataFile' \in
               [Versions -> [is : {"missing", "torn", "whole"}, hash : Contents, key : SigningKey]],
           \A u \in Versions \ vs :
               modelFile'[u] = modelFile[u] /\ metadataFile'[u] = metadataFile[u],
           saves' \in 0..MaxSaves, UNCHANGED loader
    PROVE  StoreInv'
<1>. DEFINE others == {o \in ModelWriters \ {s} : At(o) \cap vs # {}}
            met == {v \in vs : \E o \in others : v \in At(o)}
            new == [state EXCEPT !.alone = (others = {})]
<1>0. /\ saver[s].step = "none" /\ suspect' = suspect \cup met /\ Touch(vs)
      /\ saver' = [o \in ModelWriters |->
            IF o = s THEN new
            ELSE IF o \in others THEN [saver[o] EXCEPT !.alone = FALSE] ELSE saver[o]]
  BY DEF SetsTo
<1>1. /\ saver'[s] \in Writer /\ saver'[s].step = state.step /\ saver'[s].version = state.version
      /\ saver'[s].left = state.left /\ saver'[s].save = state.save
      /\ saver'[s].alone <=> others = {}
  <2>1. saver'[s] = new
    BY <1>0
  <2>2. (others = {}) \in BOOLEAN
    OBVIOUS
  <2>. HIDE DEF others
  <2>. QED BY <2>1, <2>2 DEF Writer
<1>2. ASSUME NEW o \in ModelWriters \ {s}
      PROVE  /\ saver'[o] \in Writer /\ saver'[o].step = saver[o].step
             /\ saver'[o].version = saver[o].version /\ saver'[o].left = saver[o].left
             /\ saver'[o].save = saver[o].save /\ saver'[o].hash = saver[o].hash
             /\ saver'[o].alone <=> saver[o].alone /\ o \notin others
  <2>1. saver[o] \in Writer
    BY DEF StoreInv, StoreTypeOK
  <2>2. saver'[o] = IF o \in others THEN [saver[o] EXCEPT !.alone = FALSE] ELSE saver[o]
    BY <1>0
  <2>. HIDE DEF others
  <2>3. CASE o \in others
    <3>1. saver'[o] = [saver[o] EXCEPT !.alone = FALSE]
      BY <2>2, <2>3
    <3>. QED BY <2>1, <2>3, <3>1 DEF Writer
  <2>4. CASE o \notin others
    BY <2>1, <2>2, <2>4
  <2>. QED BY <2>3, <2>4
<1>3. At(s) = {} /\ At(s)' = vs /\ \A o \in ModelWriters \ {s} : At(o)' = At(o)
  <2>1. saver[s].step = "none" /\ state.step # "none"
    BY <1>0
  <2>. HIDE DEF others
  <2>. QED BY <1>1, <1>2, <2>1 DEF At
<1>. HIDE DEF new
<1>4. met \subseteq vs /\ \A o \in ModelWriters \ {s} : At(o) \cap vs \subseteq met
  OBVIOUS
<1>5. StoreTypeOK'
  <2>1. saver' \in [ModelWriters -> Writer]
    <3>1. saver' = [o \in ModelWriters |-> saver'[o]]
      BY <1>0
    <3>. QED BY <1>1, <1>2, <3>1
  <2>2. suspect' \subseteq Versions /\ touched' \in BOOLEAN
    BY <1>0, <1>4 DEF Touch, StoreInv, StoreTypeOK
  <2>. HIDE DEF others, met
  <2>. QED BY <2>1, <2>2 DEF StoreInv, StoreTypeOK
<1>6. WritersInv'
  <2>. HIDE DEF others, met
  <2>. QED BY <1>1, <1>2 DEF StoreInv, WritersInv, SaveSteps
<1>7. MeetInv'
  <2>1. ASSUME NEW o \in ModelWriters, NEW p \in ModelWriters \ {o}
        PROVE  At(o)' \cap At(p)' \subseteq suspect'
    BY <1>0, <1>3, <1>4 DEF StoreInv, MeetInv
  <2>2. ASSUME NEW o \in ModelWriters, saver'[o].alone, NEW p \in ModelWriters \ {o}
        PROVE  At(o)' \cap At(p)' = {}
    <3>1. CASE o = s
      BY <1>1, <1>3, <2>2, <3>1
    <3>2. CASE o # s /\ p = s
      BY <1>2, <1>3, <2>2, <3>2
    <3>3. CASE o # s /\ p # s
      <4>1. saver[o].alone /\ At(o)' = At(o) /\ At(p)' = At(p)
        BY <1>2, <1>3, <2>2, <3>3
      <4>. QED BY <4>1 DEF StoreInv, MeetInv
    <3>. QED BY <3>1, <3>2, <3>3
  <2>3. ASSUME NEW o \in ModelWriters, saver'[o].step \in SaveSteps, ~saver'[o].alone
        PROVE  saver'[o].version \in suspect'
    <3>1. CASE o = s
      <4>1. state.step = "model" /\ vs = {state.version} /\ others # {}
        BY <1>1, <2>3, <3>1 DEF SaveSteps
      <4>2. state.version \in met
        BY <4>1
      <4>. QED BY <1>0, <1>1, <3>1, <4>2
    <3>2. CASE o # s /\ o \notin others
      BY <1>0, <1>2, <2>3, <3>2 DEF StoreInv, MeetInv
    <3>3. CASE o # s /\ o \in others
      <4>1. saver[o].step \in SaveSteps /\ saver[o].left = {}
        BY <1>2, <2>3, <3>3 DEF StoreInv, WritersInv
      <4>2. At(o) = {saver[o].version}
        BY <4>1 DEF At, SaveSteps
      <4>3. saver[o].version \in met
        BY <3>3, <4>2
      <4>. QED BY <1>0, <1>2, <3>3, <4>3
    <3>. QED BY <3>1, <3>2, <3>3
  <2>. HIDE DEF others, met
  <2>. QED BY <2>1, <2>2, <2>3 DEF MeetInv
<1>8. VersionsInv'
  <2>1. ASSUME NEW u \in Versions, u \notin suspect', \A o \in ModelWriters : u \notin At(o)'
        PROVE  Settled(u)'
    <3>1. u \notin vs /\ u \notin suspect /\ \A o \in ModelWriters : u \notin At(o)
      BY <1>0, <1>3, <2>1
    <3>2. Settled(u)
      BY <3>1 DEF StoreInv, VersionsInv
    <3>. QED BY <3>1, <3>2 DEF Settled
  <2>2. ASSUME NEW u \in Versions, NEW o \in ModelWriters, u \in At(o)',
               u \notin suspect' \/ saver'[o].alone
        PROVE  InWork(u, o)'
    <3>1. CASE o = s
      BY <1>1, <1>3, <2>2, <3>1 DEF InWork
    <3>2. CASE o # s
      <4>1. u \in At(o)
        BY <1>3, <2>2, <3>2
      <4>2. u \notin vs
        BY <1>0, <1>2, <1>4, <2>2, <3>2, <4>1
      <4>3. u \notin suspect \/ saver[o].alone
        BY <1>0, <1>2, <2>2, <3>2
      <4>4. InWork(u, o)
        BY <2>2, <4>1, <4>3 DEF StoreInv, VersionsInv
      <4>. HIDE DEF others, met
      <4>. QED BY <1>2, <3>2, <4>2, <4>4 DEF InWork
    <3>. QED BY <3>1, <3>2
  <2>. QED BY <2>1, <2>2 DEF VersionsInv
<1>9. LoaderInv'
  <2>1. suspect \ suspect' \subseteq vs
    BY <1>0
  <2>2. \A v \in Versions \ vs, o \in ModelWriters : v \in At(o)' => v \in At(o)
    BY <1>3
  <2>. QED BY <1>0, <2>1, <2>2, LoaderStays
<1>. QED BY <1>5, <1>6, <1>7, <1>8, <1>9 DEF StoreInv

LEMMA SaverMoves ==
    ASSUME StoreInv, NEW s \in ModelWriters,
           ModelWritten(s) \/ MetadataBegun(s) \/ MetadataWritten(s)
    PROVE  StoreInv'
<1>. DEFINE r == saver[s]
<1>0. PICK v : v = r.version
  OBVIOUS
<1>1. /\ r \in Writer /\ r.step \in SaveSteps /\ v \in Versions /\ r.save \in Complete
      /\ r.left = {} /\ At(s) = {v}
  <2>1. r \in Writer /\ r.step \in SaveSteps
    BY DEF StoreInv, StoreTypeOK, ModelWritten, MetadataBegun, MetadataWritten, SaveSteps
  <2>. QED BY <1>0, <2>1 DEF StoreInv, WritersInv, At, SaveSteps
<1>2. v \notin suspect => r.alone
  BY <1>0, <1>1 DEF StoreInv, MeetInv
<1>3. r.alone => InWork(v, s)
  BY <1>1 DEF StoreInv, VersionsInv
<1>4. /\ modelFile \in [Versions -> Contents] /\ suspect \subseteq Versions
      /\ metadataFile \in
            [Versions -> [is : {"missing", "torn", "whole"}, hash : Contents, key : SigningKey]]
      /\ DOMAIN saver = ModelWriters
  BY DEF StoreInv, StoreTypeOK
<1>. USE ModelStoreAssumption
<1>5. CASE ModelWritten(s)
  <2>. DEFINE state == [r EXCEPT !.step = "hash"]
  <2>1. PICK content \in Leaves(s, r.save, TornFile, modelFile[v]) :
            modelFile' = [modelFile EXCEPT ![v] = content]
    BY <1>0, <1>5 DEF ModelWritten
  <2>2. content \in Contents /\ (r.alone => content \in Complete)
    <3>1. r.save \in Contents /\ TornFile \in Contents /\ modelFile[v] \in Contents
      BY <1>1, <1>4 DEF Contents, Complete, TornFile
    <3>2. content \in IF r.alone THEN {r.save} ELSE {r.save, TornFile, modelFile[v]}
      BY <2>1 DEF Leaves
    <3>. QED BY <1>1, <3>1, <3>2
  <2>3. /\ state \in Writer /\ state.step = "hash" /\ state.version = v /\ state.left = {}
        /\ state.save = r.save /\ state.alone = r.alone
    BY <1>0, <1>1 DEF Writer, SaveSteps
  <2>. HIDE DEF state
  <2>4. saver' = [saver EXCEPT ![s] = state] /\ saver'[s] = state
    BY <1>4, <1>5 DEF ModelWritten, state
  <2>5. At(s)' = {v}
    BY <2>3, <2>4 DEF At
  <2>6. /\ Touch({v}) /\ suspect' = suspect /\ metadataFile' = metadataFile
        /\ UNCHANGED <<saves, loader>>
    BY <1>0, <1>5 DEF ModelWritten
  <2>7. r.alone => InWork(v, s)'
    <3>1. modelFile'[v] = content /\ saver'[s].step = "hash"
      BY <1>1, <1>4, <2>1, <2>3, <2>4
    <3>. QED BY <2>2, <3>1 DEF InWork
  <2>8. modelFile' \in [Versions -> Contents] /\ \A u \in Versions \ {v} : modelFile'[u] = modelFile[u]
    BY <1>4, <2>1, <2>2
  <2>. QED
    BY <1>1, <1>2, <1>4, <2>3, <2>4, <2>5, <2>6, <2>7, <2>8, <1>0, WriterMoves DEF SaveSteps
<1>6. CASE MetadataBegun(s)
  <2>. DEFINE state == [[r EXCEPT !.step = "metadata"] EXCEPT !.hash = modelFile[v]]
  <2>1. /\ modelFile[v] # Missing /\ modelFile' = modelFile /\ modelFile[v] \in Contents
        /\ metadataFile' = [metadataFile EXCEPT ![v] = TornMetadata]
        /\ r.step = "hash"
    BY <1>0, <1>1, <1>4, <1>6 DEF MetadataBegun
  <2>2. TornMetadata \in [is : {"missing", "torn", "whole"}, hash : Contents, key : SigningKey]
    BY DEF TornMetadata, Metadata, Contents, Missing, SigningKey
  <2>3. /\ state \in Writer /\ state.step = "metadata" /\ state.version = v /\ state.left = {}
        /\ state.save = r.save /\ state.alone = r.alone /\ state.hash = modelFile[v]
    BY <1>0, <1>1, <2>1 DEF Writer, SaveSteps
  <2>4. saver' = [saver EXCEPT ![s] = state] /\ saver'[s] = state
    BY <1>0, <1>4, <1>6 DEF MetadataBegun, state
  <2>. HIDE DEF state
  <2>5. At(s)' = {v}
    BY <2>3, <2>4 DEF At
  <2>6. Touch({v}) /\ suspect' = suspect /\ UNCHANGED <<saves, loader>>
    BY <1>0, <1>6 DEF MetadataBegun
  <2>7. r.alone => InWork(v, s)'
    BY <1>3, <2>1, <2>3, <2>4 DEF InWork
  <2>8. /\ metadataFile' \in
              [Versions -> [is : {"missing", "torn", "whole"}, hash : Contents, key : SigningKey]]
        /\ \A u \in Versions \ {v} : metadataFile'[u] = metadataFile[u]
    BY <1>4, <2>1, <2>2
  <2>9. modelFile' \in [Versions -> Contents] /\ \A u \in Versions : modelFile'[u] = modelFile[u]
    BY <1>4, <2>1
  <2>10. /\ v \in At(s) /\ At(s)' \subseteq At(s) /\ At(s) \ At(s)' = {}
         /\ \A u \in At(s)' : u \notin suspect' \/ r.alone => InWork(u, s)'
    BY <1>1, <1>2, <2>5, <2>6, <2>7
  <2>11. /\ r.step \in SaveSteps /\ state.step # "none" /\ state.version = r.version
         /\ suspect \subseteq suspect' /\ suspect' \subseteq Versions
    BY <1>0, <1>1, <1>4, <2>3, <2>6
  <2>12. state.version \in Versions /\ state.save \in Complete /\ state.left = {}
    BY <1>0, <1>1, <2>3
  <2>13. UNCHANGED touched \/ Touch({v})
    BY <2>6
  <2>14. state.alone = r.alone \/ state = NoSave
    BY <2>3
  <2>15. /\ \A u \in Versions \ {v} :
              modelFile'[u] = modelFile[u] /\ metadataFile'[u] = metadataFile[u]
         /\ \A u \in (At(s) \ At(s)') \ suspect' : Settled(u)'
    BY <2>8, <2>9, <2>10
  <2>16. state \in Writer /\ state.step # "none" /\ v \in At(s)
    BY <2>3, <2>10, <2>11
  <2>. HIDE DEF r
  <2>. QED
    BY <2>4, <2>6, <2>8, <2>9, <2>10, <2>11, <2>12, <2>13, <2>14, <2>15, <2>16,
       WriterMoves DEF r
<1>7. CASE MetadataWritten(s)
  <2>. DEFINE own == Metadata("whole", r.hash, r.key)
              M == [is : {"missing", "torn", "whole"}, hash : Contents, key : SigningKey]
  <2>1. PICK content \in Leaves(s, own, TornMetadata, metadataFile[v]) :
            metadataFile' = [metadataFile EXCEPT ![v] = content]
    BY <1>0, <1>7 DEF MetadataWritten
  <2>2. /\ content \in [is : {"missing", "torn", "whole"}, hash : Contents, key : SigningKey]
        /\ r.alone => content = own
    <3>1. own \in M /\ TornMetadata \in M /\ metadataFile[v] \in M
      <4>1. r.hash \in Contents /\ r.key \in SigningKey
        BY <1>1 DEF Writer
      <4>2. own \in M
        BY <4>1 DEF Metadata
      <4>3. TornMetadata \in M
        BY DEF TornMetadata, Metadata, Contents, Missing, SigningKey
      <4>. QED BY <1>1, <1>4, <4>2, <4>3
    <3>. HIDE DEF own
    <3>. QED BY <2>1, <3>1 DEF Leaves
  <2>3. NoSave \in Writer /\ NoSave.step = "none"
    BY DEF NoSave, Writer, Contents, Missing, SigningKey
  <2>4. saver' = [saver EXCEPT ![s] = NoSave] /\ saver'[s] = NoSave
    BY <1>4, <1>7 DEF MetadataWritten
  <2>5. At(s)' = {}
    BY <2>3, <2>4 DEF At
  <2>6. /\ Touch({v}) /\ suspect' = (IF r.alone THEN suspect \ {v} ELSE suspect)
        /\ UNCHANGED <<modelFile, saves, loader>> /\ r.step = "metadata"
    BY <1>0, <1>7 DEF MetadataWritten
  <2>7. v \notin suspect' => Settled(v)'
    <3>1. SUFFICES ASSUME v \notin suspect' PROVE Settled(v)'
      OBVIOUS
    <3>2. r.alone /\ content = own /\ metadataFile'[v] = own
      BY <1>1, <1>2, <1>4, <2>1, <2>2, <2>6, <3>1
    <3>3. modelFile[v] \in Complete /\ r.hash = modelFile[v]
      BY <1>3, <2>6, <3>2 DEF InWork
    <3>. QED BY <2>6, <3>2, <3>3 DEF Settled, Metadata
  <2>8. /\ metadataFile' \in
              [Versions -> [is : {"missing", "torn", "whole"}, hash : Contents, key : SigningKey]]
        /\ \A u \in Versions \ {v} : metadataFile'[u] = metadataFile[u]
    BY <1>4, <2>1, <2>2
  <2>. QED
    BY <1>1, <1>4, <2>3, <2>4, <2>5, <2>6, <2>7, <2>8, <1>0, WriterMoves DEF SaveSteps
<1>. QED BY <1>5, <1>6, <1>7

LEMMA WritersGoOn ==
    ASSUME StoreInv, NEW s \in ModelWriters,
           \/ \E v \in Versions, k \in SigningKey : SaveBegins(s, v, k)
           \/ \E vs \in SUBSET Versions : DeleteModel(s, vs)
           \/ \E v \in Versions, f \in FileNames : FileDeleted(s, v, f)
           \/ WriterStops(s)
    PROVE  StoreInv'
<1>. USE ModelStoreAssumption
<1>0. /\ modelFile \in [Versions -> Contents] /\ suspect \subseteq Versions
      /\ metadataFile \in
            [Versions -> [is : {"missing", "torn", "whole"}, hash : Contents, key : SigningKey]]
      /\ saver \in [ModelWriters -> Writer] /\ saves \in 0..MaxSaves
  BY DEF StoreInv, StoreTypeOK
<1>1. NoSave \in Writer /\ NoSave.step = "none" /\ NoSave.left = {}
  BY DEF NoSave, Writer, Contents, Missing, SigningKey
<1>6. NoMetadata \in [is : {"missing", "torn", "whole"}, hash : Contents, key : SigningKey]
      /\ NoMetadata.is = "missing"
  BY DEF NoMetadata, Metadata, Contents, Missing, SigningKey
<1>2. ASSUME NEW v \in Versions, NEW k \in SigningKey, SaveBegins(s, v, k) PROVE StoreInv'
  <2>. DEFINE state == [NoSave EXCEPT !.step = "model", !.version = v,
                                      !.save = saves + 1, !.key = k]
  <2>1. saves + 1 \in Complete /\ saves' = saves + 1
    <3>1. saves < MaxSaves /\ saves' = saves + 1
      BY <1>2 DEF SaveBegins
    <3>. QED BY <1>0, <3>1 DEF Complete
  <2>2. /\ state \in Writer /\ state.step = "model" /\ state.version = v
        /\ state.save = saves + 1 /\ state.left = {}
    <3>1. saves + 1 \in 0..MaxSaves
      BY <2>1 DEF Complete
    <3>. QED BY <1>1, <3>1 DEF Writer, SaveSteps
  <2>3. SetsTo(s, {v}, state)
    BY <1>2 DEF SaveBegins
  <2>. HIDE DEF state
  <2>4. /\ modelFile' \in [Versions -> Contents] /\ UNCHANGED <<metadataFile, loader>>
        /\ \A u \in Versions \ {v} : modelFile'[u] = modelFile[u]
    <3>1. TornFile \in Contents
      BY DEF TornFile, Contents
    <3>. QED BY <1>0, <1>2, <3>1 DEF SaveBegins
  <2>5. {v} = {state.version} \cup {pair[1] : pair \in state.left}
    BY <2>2
  <2>6. saves' \in 0..MaxSaves
    BY <2>1 DEF Complete
  <2>. QED BY <1>0, <2>1, <2>2, <2>3, <2>4, <2>5, <2>6, WriterSetsTo
<1>3. ASSUME NEW vs \in SUBSET Versions, DeleteModel(s, vs) PROVE StoreInv'
  <2>. DEFINE left == {pair \in vs \X {"model", "metadata"} : pair[2] \in Files(pair[1])}
              all == {pair[1] : pair \in left}
              first == CHOOSE v \in vs : v \in all
              state == [NoSave EXCEPT !.step = "delete", !.left = left, !.version = first]
  <2>1. left # {} /\ SetsTo(s, all, state)
        /\ UNCHANGED <<modelFile, metadataFile, saves, loader>>
    BY <1>3 DEF DeleteModel
  <2>2. left \in SUBSET (Versions \X FileNames) /\ all \in SUBSET vs
    BY DEF FileNames
  <2>3. \E v \in vs : v \in all
    BY <2>1, <2>2
  <2>4. first \in vs /\ first \in all
    BY <2>3
  <2>5. \A u \in all :
           /\ <<u, "model">> \notin left => modelFile[u] = Missing
           /\ <<u, "metadata">> \notin left => metadataFile[u].is = "missing"
    BY <2>2 DEF Files
  <2>. HIDE DEF left, first
  <2>6. /\ state \in Writer /\ state.step = "delete" /\ state.version = first
        /\ state.left = left
    BY <1>1, <2>2, <2>4 DEF Writer
  <2>. HIDE DEF state
  <2>7. all = {state.version} \cup {pair[1] : pair \in state.left}
    BY <2>4, <2>6
  <2>. HIDE DEF all
  <2>8. all \in SUBSET Versions /\ state.version \in Versions
    BY <2>2, <2>4, <2>6
  <2>. QED BY <1>0, <2>1, <2>5, <2>6, <2>7, <2>8, WriterSetsTo
<1>4. ASSUME NEW v \in Versions, NEW f \in FileNames, FileDeleted(s, v, f) PROVE StoreInv'
  <2>. DEFINE r == saver[s]
              rest == r.left \ {<<v, f>>}
              state == IF r.left = {<<v, f>>} THEN NoSave ELSE [r EXCEPT !.left = rest]
  <2>1. /\ r \in Writer /\ r.step = "delete" /\ <<v, f>> \in r.left
        /\ saver' = [saver EXCEPT ![s] = state] /\ saver'[s] = state
        /\ Touch({v}) /\ UNCHANGED <<saves, loader, suspect>>
    <3>1. /\ r.step = "delete" /\ <<v, f>> \in r.left /\ Touch({v})
          /\ saver' = [saver EXCEPT ![s] = state] /\ UNCHANGED <<saves, loader, suspect>>
      <4>1. /\ r.step = "delete" /\ <<v, f>> \in r.left /\ Touch({v})
            /\ UNCHANGED <<saves, loader, suspect>>
        BY <1>4 DEF FileDeleted
      <4>2. saver' = [saver EXCEPT ![s] = state]
        BY <1>4, Zenon DEF FileDeleted
      <4>. HIDE DEF r, state
      <4>. QED BY <4>1, <4>2
    <3>2. r \in Writer /\ DOMAIN saver = ModelWriters
      BY <1>0
    <3>. HIDE DEF r, state
    <3>. QED BY <3>1, <3>2
  <2>2. r.version \in Versions
    BY <2>1 DEF StoreInv, WritersInv
  <2>3. \/ state = NoSave /\ rest = {}
        \/ /\ state \in Writer /\ state.step = "delete" /\ state.version = r.version
           /\ state.left = rest /\ state.alone = r.alone
    BY <2>1 DEF Writer
  <2>. HIDE DEF state
  <2>4. v \in At(s) /\ At(s) = {r.version} \cup {pair[1] : pair \in r.left}
    BY <2>1 DEF At
  <2>5. At(s)' = IF state = NoSave THEN {} ELSE {r.version} \cup {pair[1] : pair \in rest}
    BY <1>1, <2>1, <2>3 DEF At
  <2>6. /\ modelFile' \in [Versions -> Contents]
        /\ metadataFile' \in
              [Versions -> [is : {"missing", "torn", "whole"}, hash : Contents, key : SigningKey]]
        /\ \A u \in Versions \ {v} :
              modelFile'[u] = modelFile[u] /\ metadataFile'[u] = metadataFile[u]
        /\ f = "model" => modelFile'[v] = Missing /\ metadataFile' = metadataFile
        /\ f = "metadata" => metadataFile'[v].is = "missing" /\ modelFile' = modelFile
    <3>1. \/ /\ f = "model" /\ modelFile' = [modelFile EXCEPT ![v] = Missing]
             /\ metadataFile' = metadataFile
          \/ /\ f = "metadata" /\ metadataFile' = [metadataFile EXCEPT ![v] = NoMetadata]
             /\ modelFile' = modelFile
      BY <1>4 DEF FileDeleted
    <3>2. Missing \in Contents
      BY DEF Contents, Missing
    <3>. QED BY <1>0, <1>6, <3>1, <3>2
  <2>7. ASSUME NEW u \in Versions, InWork(u, s)
        PROVE  /\ <<u, "model">> \notin rest => modelFile'[u] = Missing
               /\ <<u, "metadata">> \notin rest => metadataFile'[u].is = "missing"
    BY <2>1, <2>6, <2>7 DEF InWork, FileNames
  <2>8. ASSUME NEW u \in At(s), u \notin suspect \/ r.alone
        PROVE  InWork(u, s) /\ u \in Versions
    <3>1. u \in Versions
      BY <2>1, <2>2, <2>4 DEF Writer
    <3>. QED BY <2>8, <3>1 DEF StoreInv, VersionsInv
  <2>9. At(s)' \subseteq At(s)
    BY <2>4, <2>5
  <2>10. ASSUME NEW u \in At(s)', u \notin suspect' \/ r.alone PROVE InWork(u, s)'
    <3>1. state # NoSave
      BY <2>5
    <3>2. u \in At(s) /\ (u \notin suspect \/ r.alone)
      BY <2>1, <2>9, <2>10
    <3>. HIDE DEF r, rest
    <3>. QED BY <2>1, <2>3, <2>7, <2>8, <3>1, <3>2 DEF InWork
  <2>11. ASSUME NEW u \in (At(s) \ At(s)') \ suspect' PROVE Settled(u)'
    <3>1. u \in At(s) /\ u \notin suspect
      BY <2>1, <2>11
    <3>2. <<u, "model">> \notin rest /\ <<u, "metadata">> \notin rest
      <4>1. rest = {} \/ u \notin {pair[1] : pair \in rest}
        BY <1>1, <2>3, <2>5, <2>11
      <4>2. <<u, "model">>[1] = u /\ <<u, "metadata">>[1] = u
        OBVIOUS
      <4>. HIDE DEF rest
      <4>. QED BY <4>1, <4>2
    <3>. QED BY <2>7, <2>8, <3>1, <3>2 DEF Settled
  <2>12. /\ state \in Writer /\ (state.alone = r.alone \/ state = NoSave)
         /\ state.step # "none" => state.version \in Versions
         /\ state.step \notin SaveSteps
    BY <1>1, <2>2, <2>3 DEF SaveSteps
  <2>. HIDE DEF r, rest
  <2>. QED
    BY <1>0, <2>1, <2>4, <2>6, <2>9, <2>10, <2>11, <2>12, WriterMoves DEF r
<1>5. CASE WriterStops(s)
  <2>1. /\ saver[s].step # "none" /\ saver' = [saver EXCEPT ![s] = NoSave]
        /\ suspect' = suspect \cup At(s)
        /\ UNCHANGED <<modelFile, metadataFile, saves, loader, touched>>
    BY <1>5 DEF WriterStops
  <2>2. saver[s].version \in At(s) /\ At(s) \subseteq Versions
    BY <1>0, <2>1 DEF StoreInv, WritersInv, At, Writer
  <2>3. At(s)' = {}
    BY <1>0, <1>1, <2>1 DEF At
  <2>4. PICK v : v = saver[s].version
    OBVIOUS
  <2>5. NoSave.step \notin SaveSteps
    BY <1>1 DEF SaveSteps
  <2>. QED BY <1>0, <1>1, <2>1, <2>2, <2>3, <2>4, <2>5, WriterMoves
<1>. QED BY <1>2, <1>3, <1>4, <1>5

\* The steps of the load itself.
LEMMA LoadGoesOn ==
    ASSUME StoreInv,
           \/ \E v \in Versions, k \in SigningKey, verify \in BOOLEAN : LoadBegins(v, k, verify)
           \/ CheckSize \/ ReadMetadata \/ VerifyModelIntegrity \/ LoadVerified
    PROVE  StoreInv'
<1>. DEFINE v == loader.version
<1>0. /\ modelFile \in [Versions -> Contents]
      /\ metadataFile \in
            [Versions -> [is : {"missing", "torn", "whole"}, hash : Contents, key : SigningKey]]
      /\ loader \in Load
  BY DEF StoreInv, StoreTypeOK
<1>1. ASSUME UNCHANGED <<modelFile, metadataFile, saver, saves, suspect>>,
             loader' \in Load, touched' \in BOOLEAN, LoaderInv'
      PROVE  StoreInv'
  <2>1. \A s : At(s)' = At(s)
    BY <1>1 DEF At
  <2>2. StoreTypeOK' /\ WritersInv' /\ MeetInv'
    BY <1>1, <2>1 DEF StoreInv, StoreTypeOK, WritersInv, MeetInv
  <2>3. VersionsInv'
    BY <1>1, <2>1 DEF StoreInv, VersionsInv, Settled, InWork
  <2>. QED BY <1>1, <2>2, <2>3 DEF StoreInv
\* A version that nobody is at and that is not suspect is at rest.
<1>2. ASSUME NEW u \in Versions, u \notin suspect, \A s \in ModelWriters : u \notin At(s)
      PROVE  Settled(u)
  BY <1>2 DEF StoreInv, VersionsInv
<1>3. ASSUME NEW u \in Versions, NEW k \in SigningKey, NEW verify \in BOOLEAN,
             LoadBegins(u, k, verify)
      PROVE  StoreInv'
  <2>. DEFINE next == IF modelFile[u] = Missing THEN "no_model" ELSE "size"
  <2>1. NoLoad.hash \in Contents /\ NoLoad \in Load
    BY ModelStoreAssumption DEF NoLoad, Load, Contents, Missing, SigningKey
  <2>2. /\ UNCHANGED <<modelFile, metadataFile, saver, saves, suspect>>
        /\ loader' = [NoLoad EXCEPT !.version = u, !.key = k, !.verify = verify, !.step = next]
        /\ touched' = (\E s \in ModelWriters : u \in At(s))
    BY <1>3 DEF LoadBegins
  <2>3. loader' \in Load /\ loader'.version = u /\ loader'.step = next
    BY <2>1, <2>2 DEF Load, Outcomes
  <2>4. \A s : At(s)' = At(s)
    BY <2>2 DEF At
  <2>5. ~touched' /\ u \notin suspect => Settled(u)
    BY <1>2, <2>2
  <2>6. LoaderInv'
    BY <2>2, <2>3, <2>4, <2>5 DEF LoaderInv, Settled, Complete, Missing
  <2>7. touched' \in BOOLEAN
    BY <2>2
  <2>. QED BY <1>1, <2>2, <2>3, <2>6, <2>7
\* The load goes on: what it finds of a version at rest.
<1>4. ASSUME NEW phase \in {"size", "metadata", "verify", "load"}, Loading(phase),
             loader' \in Load, loader'.version = v, loader'.step # "none",
             ~touched /\ v \notin suspect /\ Settled(v) =>
                 /\ loader'.step # "no_model"
                 /\ loader'.step \in {"verify", "load", "loaded"} => loader'.hash = modelFile[v]
                 /\ loader'.step = "verify" =>
                       loader'.verify /\ loader'.signed = metadataFile[v].key
                 /\ loader'.step \notin {"bad_metadata", "unreadable"}
                 /\ loader'.step = "integrity" =>
                       \/ modelFile[v] \in TooLarge
                       \/ loader'.verify /\ ~SignatureFits(loader'.key, metadataFile[v].key)
      PROVE  StoreInv'
  <2>1. loader.step = phase /\ UNCHANGED <<modelFile, metadataFile, saver, saves, suspect, touched>>
    BY <1>4 DEF Loading
  <2>2. v \in Versions
    BY <1>4, <2>1 DEF StoreInv, LoaderInv
  <2>3. ~touched => \A s \in ModelWriters : v \notin At(s)
    BY <1>4, <2>1 DEF StoreInv, LoaderInv
  <2>4. ~touched /\ v \notin suspect => Settled(v) /\ modelFile[v] \in Complete
    BY <1>2, <1>4, <2>1, <2>2, <2>3 DEF StoreInv, LoaderInv
  <2>5. \A s : At(s)' = At(s)
    BY <2>1 DEF At
  <2>. HIDE DEF v
  <2>6. LoaderInv'
    BY <1>4, <2>1, <2>2, <2>3, <2>4, <2>5 DEF LoaderInv
  <2>7. touched' \in BOOLEAN
    BY <2>1 DEF StoreInv, StoreTypeOK
  <2>. QED BY <1>1, <1>4, <2>1, <2>6, <2>7
<1>6. CASE CheckSize
  <2>1. PICK next \in {"no_model", "integrity", "metadata"} :
           /\ next = "no_model" <=> modelFile[v] = Missing
           /\ modelFile[v] # TornFile => (next = "integrity" <=> modelFile[v] \in TooLarge)
           /\ loader' = [loader EXCEPT !.step = next]
    BY <1>6 DEF CheckSize
  <2>2. loader' \in Load /\ loader'.version = v /\ loader'.step = next
    BY <1>0, <2>1 DEF Load, Outcomes
  <2>3. Loading("size")
    BY <1>6 DEF CheckSize
  <2>4. ~touched /\ v \notin suspect => modelFile[v] \in Complete
    BY <2>3 DEF Loading, StoreInv, LoaderInv
  <2>5. modelFile[v] \in Complete => modelFile[v] # Missing /\ modelFile[v] # TornFile
    BY ModelStoreAssumption DEF Complete, Missing, TornFile
  <2>. HIDE DEF v
  <2>. QED BY <1>4, <2>1, <2>2, <2>3, <2>4, <2>5
<1>7. CASE ReadMetadata
  <2>. DEFINE found == metadataFile[v]
              next == IF found.is = "torn" THEN "bad_metadata"
                      ELSE IF found.is = "whole" /\ loader.verify THEN "verify" ELSE "load"
  <2>1. Loading("metadata")
        /\ loader' = [loader EXCEPT !.hash = found.hash, !.signed = found.key, !.step = next]
    BY <1>7 DEF ReadMetadata
  <2>2. v \in Versions
    BY <2>1 DEF Loading, StoreInv, LoaderInv
  <2>3. found.hash \in Contents /\ found.key \in SigningKey
    BY <1>0, <2>2
  <2>4. /\ loader' \in Load /\ loader'.version = v /\ loader'.step = next
        /\ loader'.hash = found.hash /\ loader'.signed = found.key
        /\ loader'.verify = loader.verify
    BY <1>0, <2>1, <2>3 DEF Load, Outcomes
  <2>5. ~touched /\ v \notin suspect => modelFile[v] \in Complete
    BY <2>1 DEF Loading, StoreInv, LoaderInv
  <2>6. modelFile[v] \in Complete => modelFile[v] # Missing
    BY ModelStoreAssumption DEF Complete, Missing
  <2>7. Settled(v) /\ modelFile[v] # Missing => found.is = "whole" /\ found.hash = modelFile[v]
    BY DEF Settled
  <2>8. loader.verify \in BOOLEAN
    BY <1>0 DEF Load
  <2>9. next \in {"bad_metadata", "verify", "load"}
    OBVIOUS
  <2>10. found.is = "whole" =>
            next = (IF loader.verify THEN "verify" ELSE "load")
    OBVIOUS
  <2>. HIDE DEF v, found, next
  <2>. QED BY <1>4, <2>1, <2>4, <2>5, <2>6, <2>7, <2>8, <2>9, <2>10 DEF found
<1>8. CASE VerifyModelIntegrity
  <2>1. PICK next \in {"no_model", "integrity", "load"} :
           /\ next = "no_model" <=> modelFile[v] = Missing
           /\ next = "integrity" =>
                 \/ modelFile[v] # loader.hash \/ modelFile[v] = TornFile
                 \/ ~SignatureFits(loader.key, loader.signed)
           /\ loader' = [loader EXCEPT !.step = next]
    BY <1>8 DEF VerifyModelIntegrity
  <2>2. /\ loader' \in Load /\ loader'.version = v /\ loader'.step = next
        /\ loader'.hash = loader.hash /\ loader'.key = loader.key
        /\ loader'.verify = loader.verify
    BY <1>0, <2>1 DEF Load, Outcomes
  <2>3. Loading("verify")
    BY <1>8 DEF VerifyModelIntegrity
  <2>4. ~touched /\ v \notin suspect =>
           /\ modelFile[v] \in Complete /\ loader.hash = modelFile[v]
           /\ loader.verify /\ loader.signed = metadataFile[v].key
    BY <2>3 DEF Loading, StoreInv, LoaderInv
  <2>5. modelFile[v] \in Complete => modelFile[v] # Missing /\ modelFile[v] # TornFile
    BY ModelStoreAssumption DEF Complete, Missing, TornFile
  <2>. HIDE DEF v
  <2>. QED BY <1>4, <2>1, <2>2, <2>3, <2>4, <2>5
<1>9. CASE LoadVerified
  <2>. DEFINE content == modelFile[v]
              next == IF content \in {Missing, TornFile} THEN "unreadable" ELSE "loaded"
              hash == IF loader.hash = content THEN loader.hash ELSE Missing
  <2>1. Loading("load") /\ loader' = [loader EXCEPT !.step = next, !.hash = hash]
    BY <1>9 DEF LoadVerified
  <2>2. hash \in Contents
    BY <1>0, ModelStoreAssumption DEF Load, Contents, Missing
  <2>3. loader' \in Load /\ loader'.version = v /\ loader'.step = next /\ loader'.hash = hash
    BY <1>0, <2>1, <2>2 DEF Load, Outcomes
  <2>4. ~touched /\ v \notin suspect => content \in Complete /\ loader.hash = content
    BY <2>1 DEF Loading, StoreInv, LoaderInv
  <2>5. content \in Complete => next = "loaded"
    BY ModelStoreAssumption DEF Complete, Missing, TornFile
  <2>6. next \in {"unreadable", "loaded"} /\ (loader.hash = content => hash = content)
    OBVIOUS
  <2>. HIDE DEF next, hash
  <2>. QED BY <1>4, <2>1, <2>3, <2>4, <2>5, <2>6
<1>. QED BY <1>3, <1>6, <1>7, <1>8, <1>9

\* A load that fails or takes another model than the metadata names met a writer
\* of the version, one that stopped half way, or two that met there; or it is
\* refused for the model's size or the key it was signed with
\* (model_persistence.py), for any number of versions, writers and saves.
THEOREM UndisturbedLoadIsGood == ModelSpec => []BadLoadNeedsDisturbance
<1>1. ModelInit => StoreInv
  <2>. SUFFICES ASSUME ModelInit PROVE StoreInv
    OBVIOUS
  <2>. USE ModelStoreAssumption DEF ModelInit
  <2>1. StoreTypeOK
    <3>1. NoSave \in Writer
      BY DEF NoSave, Writer, Contents, Missing, SigningKey
    <3>2. NoMetadata \in [is : {"missing", "torn", "whole"}, hash : Contents, key : SigningKey]
      BY DEF NoMetadata, Metadata, Contents, Missing, SigningKey
    <3>3. NoLoad \in Load
      BY DEF NoLoad, Load, Contents, Missing, SigningKey
    <3>4. Missing \in Contents /\ 0 \in 0..MaxSaves
      BY DEF Missing, Contents
    <3>. QED BY <3>1, <3>2, <3>3, <3>4 DEF StoreTypeOK
  <2>2. \A s \in ModelWriters :
           At(s) = {} /\ saver[s].step = "none" /\ saver[s].step \notin SaveSteps
    BY DEF At, NoSave, SaveSteps
  <2>3. \A v \in Versions : Settled(v)
    BY DEF Settled, NoMetadata, Metadata
  <2>4. WritersInv /\ MeetInv /\ VersionsInv
    BY <2>2, <2>3 DEF WritersInv, MeetInv, VersionsInv
  <2>5. LoaderInv
    BY DEF LoaderInv, NoLoad
  <2>. QED BY <2>1, <2>4, <2>5 DEF StoreInv
<1>2. StoreInv /\ [ModelNext]_modelVars => StoreInv'
  <2>. SUFFICES ASSUME StoreInv, [ModelNext]_modelVars PROVE StoreInv'
    OBVIOUS
  <2>1. CASE UNCHANGED modelVars
    <3>1. \A s : At(s)' = At(s)
      BY <2>1 DEF modelVars, At
    <3>. QED
      BY <2>1, <3>1
      DEF modelVars, StoreInv, StoreTypeOK, WritersInv, MeetInv, VersionsInv, LoaderInv,
          Settled, InWork
  <2>2. \A vs \in {Versions} \cup {{v} : v \in Versions} : vs \in SUBSET Versions
    OBVIOUS
  <2>3. CASE ModelNext
    BY <2>2, <2>3, WritersGoOn, SaverMoves, LoadGoesOn DEF ModelNext, FileNames
  <2>. QED BY <2>1, <2>3
<1>3. StoreInv => BadLoadNeedsDisturbance
  <2>. SUFFICES ASSUME StoreInv, loader.step \in Outcomes, ~touched,
                       loader.version \notin suspect
                PROVE  \/ loader.step = "loaded" /\ loader.hash # Missing
                       \/ loader.step = "no_model" /\ Files(loader.version) = {}
                       \/ loader.step = "integrity" /\ modelFile[loader.version] \in TooLarge
                       \/ /\ loader.step = "integrity" /\ loader.verify
                          /\ ~SignatureFits(loader.key, metadataFile[loader.version].key)
    BY DEF BadLoadNeedsDisturbance
  <2>. DEFINE v == loader.version
  <2>1. loader.step # "none"
    BY DEF Outcomes
  <2>2. v \in Versions /\ Settled(v)
    BY <2>1 DEF StoreInv, LoaderInv, VersionsInv
  <2>3. CASE loader.step = "no_model"
    <3>1. modelFile[v] = Missing
      BY <2>3 DEF StoreInv, LoaderInv
    <3>2. metadataFile[v].is = "missing"
      BY <2>2, <3>1, ModelStoreAssumption DEF Settled, Complete, Missing
    <3>. QED BY <2>3, <3>1, <3>2 DEF Files
  <2>4. CASE loader.step # "no_model"
    <3>1. modelFile[v] # Missing
      BY <2>1, <2>4, ModelStoreAssumption DEF StoreInv, LoaderInv, Complete, Missing
    <3>. QED BY <2>1, <2>4, <3>1 DEF StoreInv, LoaderInv, Outcomes
  <2>. QED BY <2>3, <2>4
<1>. QED BY <1>1, <1>2, <1>3, PTL DEF ModelSpec

-----------------------------------------------------------------------------
(* BatchCheck *)

\* Induction, in the form the provers take it: a set of numbers that holds 0 and
\* the successor of each of its members below n holds every number up to n.
LEMMA UpTo ==
    ASSUME NEW n \in Nat, NEW T, 0 \in T, \A k \in 0..(n - 1) : k \in T => k + 1 \in T
    PROVE  \A k \in 0..n : k \in T
<1>. DEFINE B == {k \in 0..n : k \notin T}
<1>. SUFFICES ASSUME B # {} PROVE FALSE
  OBVIOUS
<1>1. B \subseteq Nat
  OBVIOUS
<1>2. PICK k \in B : \A j \in B : ~(<<j, k>> \in OpToRel(<, Nat))
  BY <1>1, NatLessThanWellFounded, WFMin, Zenon
<1>3. \A j \in B : ~(j < k)
  BY <1>1, <1>2 DEF OpToRel
<1>4. k # 0 /\ k - 1 \in 0..(n - 1) /\ k - 1 \notin B
  BY <1>3
<1>. QED BY <1>4

\* What the recursion of FlattenSeq unfolds to.
Unfolds(f, parts, n) ==
    f = [i \in 1..n |-> IF i = 1 THEN parts[i] ELSE f[i - 1] \o parts[i]]

\* One place of the unfolded recursion.
LEMMA UnfoldsAt ==
    ASSUME NEW f, NEW parts, NEW n \in Nat, Unfolds(f, parts, n), NEW i \in 1..n
    PROVE  f[i] = IF i = 1 THEN parts[i] ELSE f[i - 1] \o parts[i]
<1>. DEFINE F(j) == IF j = 1 THEN parts[j] ELSE f[j - 1] \o parts[j]
<1>1. f = [j \in 1..n |-> F(j)]
  BY DEF Unfolds
<1>. HIDE DEF F
<1>2. f[i] = F(i)
  BY <1>1
<1>. QED BY <1>2 DEF F

\* A function that unfolds so exists for every length.
LEMMA FlatteningUnfolds ==
    ASSUME NEW parts, NEW n \in Nat
    PROVE  \E f : Unfolds(f, parts, n)
<1>. DEFINE T == {k \in Nat : \E f : Unfolds(f, parts, k)}
<1>1. 0 \in T
  <2>1. Unfolds([i \in 1..0 |-> 0], parts, 0)
    BY DEF Unfolds
  <2>. QED BY <2>1
<1>2. ASSUME NEW k \in Nat, NEW f, Unfolds(f, parts, k) PROVE \E g : Unfolds(g, parts, k + 1)
  <2>. DEFINE g == [i \in 1..(k + 1) |-> IF i <= k THEN f[i]
                                          ELSE IF i = 1 THEN parts[i] ELSE f[i - 1] \o parts[i]]
  <2>1. ASSUME NEW i \in 1..(k + 1)
        PROVE  g[i] = IF i = 1 THEN parts[i] ELSE g[i - 1] \o parts[i]
    <3>1. CASE i <= k
      <4>1. g[i] = f[i] /\ (i # 1 => g[i - 1] = f[i - 1])
        BY <3>1
      <4>2. f[i] = IF i = 1 THEN parts[i] ELSE f[i - 1] \o parts[i]
        BY <1>2, <3>1, UnfoldsAt
      <4>. QED BY <4>1, <4>2
    <3>2. CASE i = k + 1
      <4>1. i # 1 => g[i - 1] = f[i - 1]
        BY <3>2
      <4>. QED BY <3>2, <4>1
    <3>. QED BY <3>1, <3>2
  <2>2. g = [i \in 1..(k + 1) |-> IF i = 1 THEN parts[i] ELSE g[i - 1] \o parts[i]]
    <3>. DEFINE h == [i \in 1..(k + 1) |-> IF i = 1 THEN parts[i] ELSE g[i - 1] \o parts[i]]
    <3>. HIDE DEF g
    <3>1. \A i \in 1..(k + 1) : h[i] = g[i]
      BY <2>1
    <3>2. DOMAIN h = 1..(k + 1)
      OBVIOUS
    <3>3. g = [i \in 1..(k + 1) |-> g[i]]
      BY DEF g
    <3>. QED BY <2>1, <3>3
  <2>. HIDE DEF g
  <2>3. Unfolds(g, parts, k + 1)
    BY <2>2 DEF Unfolds
  <2>. QED BY <2>3
<1>3. \A k \in 0..(n - 1) : k \in T => k + 1 \in T
  BY <1>2
<1>. HIDE DEF T
<1>4. \A k \in 0..n : k \in T
  BY <1>1, <1>3, UpTo
<1>5. n \in T
  BY <1>4
<1>. QED BY <1>5 DEF T

\* FlattenSeq is the last place of one.
LEMMA FlattenSeqUnfolds ==
    ASSUME NEW parts, NEW n \in Nat \ {0}, Len(parts) = n
    PROVE  \E f : Unfolds(f, parts, n) /\ FlattenSeq(parts) = f[n]
<1>. DEFINE f == CHOOSE f : f = [i \in 1..n |-> IF i = 1 THEN parts[i] ELSE f[i - 1] \o parts[i]]
<1>1. Unfolds(f, parts, n)
  BY FlatteningUnfolds DEF Unfolds
<1>2. FlattenSeq(parts) = f[n]
  BY DEF FlattenSeq
<1>. QED BY <1>1, <1>2

\* A function on 1..n is a sequence of n elements.
LEMMA SequenceOf ==
    ASSUME NEW n \in Nat, NEW S, NEW s \in [1..n -> S]
    PROVE  s \in Seq(S) /\ Len(s) = n
OBVIOUS

\* Flattening parts of which all before the i-th have one element puts the first
\* element of the i-th in the i-th place.
LEMMA FirstsKeepTheirPlace ==
    ASSUME NEW n \in Nat \ {0}, NEW S, NEW parts \in [1..n -> Seq(S)],
           \A i \in 1..n : parts[i] # <<>>
    PROVE  \A i \in 1..n : (\A j \in 1..(i - 1) : Len(parts[j]) = 1) =>
               i <= Len(FlattenSeq(parts)) /\ FlattenSeq(parts)[i] = parts[i][1]
<1>. DEFINE Single(i) == \A j \in 1..(i - 1) : Len(parts[j]) = 1
            InPlace(s, k) ==
                /\ s \in Seq(S)
                /\ \A i \in 1..k : Single(i) => i <= Len(s) /\ s[i] = parts[i][1]
                /\ Single(k + 1) => Len(s) = k
<1>1. PICK f : Unfolds(f, parts, n) /\ FlattenSeq(parts) = f[n]
  <2>1. Len(parts) = n
    BY SequenceOf
  <2>. QED BY <2>1, FlattenSeqUnfolds
<1>. DEFINE T == {k \in 0..n : k = 0 \/ InPlace(f[k], k)}
<1>2. ASSUME NEW k \in 1..(n - 1), InPlace(f[k], k) PROVE InPlace(f[k + 1], k + 1)
  <2>. DEFINE s == f[k]  p == parts[k + 1]
  <2>0. k + 1 \in 1..n /\ s \in Seq(S) /\ p \in Seq(S) /\ p # <<>>
    BY <1>2
  <2>1. f[k + 1] = s \o p
    <3>1. f[k + 1] = IF k + 1 = 1 THEN parts[k + 1] ELSE f[k + 1 - 1] \o parts[k + 1]
      <4>. HIDE DEF s, p
      <4>1. \A i \in 1..n : f[i] = IF i = 1 THEN parts[i] ELSE f[i - 1] \o parts[i]
        BY <1>1, UnfoldsAt, Zenon
      <4>. QED BY <2>0, <4>1
    <3>2. k + 1 # 1 /\ k + 1 - 1 = k
      OBVIOUS
    <3>. QED BY <3>1, <3>2
  <2>2. /\ s \o p \in Seq(S) /\ Len(s \o p) = Len(s) + Len(p) /\ Len(p) >= 1
        /\ \A i \in 1..Len(s) : (s \o p)[i] = s[i]
        /\ (s \o p)[Len(s) + 1] = p[1]
    <3>. HIDE DEF s, p
    <3>. QED BY <2>0
  <2>3. ASSUME NEW i \in 1..(k + 1), Single(i)
        PROVE  i <= Len(s \o p) /\ (s \o p)[i] = parts[i][1]
    <3>1. CASE i = k + 1
      <4>1. Len(s) = k
        BY <1>2, <2>3, <3>1
      <4>2. Len(p) \in Nat /\ p = parts[i]
        BY <2>0, <3>1
      <4>. HIDE DEF s, p
      <4>. QED BY <2>2, <3>1, <4>1, <4>2
    <3>2. CASE i \in 1..k
      <4>1. i <= Len(s) /\ s[i] = parts[i][1]
        BY <1>2, <2>3, <3>2
      <4>2. Len(s) \in Nat /\ Len(p) \in Nat
        BY <2>0
      <4>. HIDE DEF s, p
      <4>. QED BY <2>2, <3>2, <4>1, <4>2
    <3>3. i = k + 1 \/ i \in 1..k
      OBVIOUS
    <3>. HIDE DEF s, p
    <3>. QED BY <3>1, <3>2, <3>3
  <2>4. Single(k + 2) => Len(s \o p) = k + 1
    <3>. HAVE Single(k + 2)
    <3>1. Single(k + 1) /\ Len(p) = 1
      <4>1. k + 1 \in 1..(k + 2 - 1) /\ 1..(k + 1 - 1) \subseteq 1..(k + 2 - 1)
        OBVIOUS
      <4>. QED BY <4>1
    <3>. QED BY <1>2, <2>2, <3>1
  <2>. HIDE DEF s, p, Single
  <2>5. f[k + 1] \in Seq(S) /\ k + 1 + 1 = k + 2
    BY <2>1, <2>2
  <2>. QED BY <2>1, <2>3, <2>4, <2>5
<1>3. InPlace(f[1], 1)
  <2>1. f[1] = parts[1] /\ parts[1] \in Seq(S) /\ parts[1] # <<>>
    BY <1>1, UnfoldsAt
  <2>2. Single(2) => Len(parts[1]) = 1
    OBVIOUS
  <2>. QED BY <2>1, <2>2
<1>4. \A k \in 0..(n - 1) : k \in T => k + 1 \in T
  <2>. SUFFICES ASSUME NEW k \in 0..(n - 1), k = 0 \/ InPlace(f[k], k)
                PROVE  InPlace(f[k + 1], k + 1)
    <3>. HIDE DEF InPlace
    <3>. QED OBVIOUS
  <2>1. CASE k = 0
    <3>. HIDE DEF InPlace
    <3>. QED BY <1>3, <2>1
  <2>2. CASE k # 0
    <3>. HIDE DEF InPlace
    <3>. QED BY <1>2, <2>2
  <2>. QED BY <2>1, <2>2
<1>5. n \in T
  <2>1. 0 \in T
    OBVIOUS
  <2>. HIDE DEF T
  <2>2. n \in Nat /\ \A k \in 0..(n - 1) : k \in T => k + 1 \in T
    BY <1>4
  <2>3. \A k \in 0..n : k \in T
    BY <2>1, <2>2, UpTo
  <2>. QED BY <2>3
<1>6. InPlace(f[n], n)
  BY <1>5
<1>. QED BY <1>1, <1>6

\* The relations an action maps to: some, and finitely many.
BatchSetting == \A w \in Wants : IsFiniteSet(w) /\ w # {}

\* Every context before the i-th resolves to one relation.
OneEachBefore(i) == \A j \in 1..(i - 1) : \E r : contexts[j].wanted = {r}

\* The i-th item is the i-th context's as long as none before needed several,
\* and the results are the answers to the items in their order.
BatchInv ==
    /\ \E n \in Nat \ {0} : contexts \in [1..n -> Contexts]
    /\ items # <<>> => \A i \in DOMAIN contexts : OneEachBefore(i) =>
          items[i].user = contexts[i].user /\ items[i].relation \in contexts[i].wanted
    /\ results # <<>> => items # <<>> /\ \A i \in DOMAIN contexts : results[i] = Allowed(items[i])

\* Up to the first context that resolves to several relations the results of a
\* batch are right, and that one's is only ever wrong by denying.
RightUntilTheFirst ==
    results # <<>> =>
        \A i \in DOMAIN contexts : OneEachBefore(i) =>
            LET held == \E r \in contexts[i].wanted : <<contexts[i].user, r>> \in tuples IN
            /\ results[i] => held
            /\ (\E r : contexts[i].wanted = {r}) => (results[i] <=> held)

\* The expansion puts the i-th context's first item in the i-th place.
LEMMA ExpandedInPlace ==
    ASSUME BatchSetting, BatchInv, BuildBatchCheckItems, NEW i \in DOMAIN contexts, OneEachBefore(i)
    PROVE  items'[i].user = contexts[i].user /\ items'[i].relation \in contexts[i].wanted
<1>1. PICK n \in Nat \ {0} : contexts \in [1..n -> Contexts]
  BY DEF BatchInv
<1>2. PICK parts \in [DOMAIN contexts -> UNION {ItemsOf(c) : c \in Contexts}] :
          /\ \A j \in DOMAIN contexts : parts[j] \in ItemsOf(contexts[j])
          /\ items' = FlattenSeq(parts)
  BY DEF BuildBatchCheckItems
<1>. DEFINE S == [user : Users, relation : UNION Wants]
<1>3. ASSUME NEW c \in Contexts, NEW p \in ItemsOf(c)
      PROVE  /\ p \in Seq(S) /\ p # <<>>
             /\ (\E r : c.wanted = {r}) => Len(p) = 1
             /\ p[1].user = c.user /\ p[1].relation \in c.wanted
  <2>. DEFINE m == Cardinality(c.wanted)
  <2>0. c.user \in Users /\ c.wanted \in Wants
    BY DEF Contexts
  <2>1. IsFiniteSet(c.wanted) /\ m \in Nat \ {0}
    <3>1. IsFiniteSet(c.wanted) /\ c.wanted # {}
      BY <2>0 DEF BatchSetting
    <3>. QED BY <3>1, FS_CardinalityType, FS_EmptySet
  <2>2. (\E r : c.wanted = {r}) => m = 1
    BY FS_Singleton
  <2>3. PICK order \in [1..m -> c.wanted] :
            p = [j \in DOMAIN order |-> [user |-> c.user, relation |-> order[j]]]
    BY <1>3 DEF ItemsOf, SetToSeqs
  <2>4. p = [j \in 1..m |-> [user |-> c.user, relation |-> order[j]]]
    BY <2>3
  <2>. HIDE DEF m
  <2>5. p \in [1..m -> S]
    BY <2>0, <2>3, <2>4
  <2>6. p \in Seq(S) /\ Len(p) = m
    <3>. HIDE DEF S
    <3>. QED BY <2>1, <2>5, SequenceOf
  <2>7. p[1] = [user |-> c.user, relation |-> order[1]] /\ order[1] \in c.wanted
    BY <2>1, <2>3, <2>4
  <2>8. p # <<>>
    BY <2>1, <2>6
  <2>9. p[1].user = c.user /\ p[1].relation \in c.wanted
    BY <2>7
  <2>. HIDE DEF S
  <2>. QED BY <2>1, <2>2, <2>6, <2>8, <2>9
<1>4. \A j \in 1..n : contexts[j] \in Contexts /\ parts[j] \in ItemsOf(contexts[j])
  BY <1>1, <1>2
<1>5. /\ parts \in [1..n -> Seq(S)]
      /\ \A j \in 1..n : parts[j] # <<>>
  <2>1. DOMAIN parts = 1..n /\ parts = [j \in DOMAIN parts |-> parts[j]]
    BY <1>1
  <2>2. \A j \in 1..n : parts[j] \in Seq(S) /\ parts[j] # <<>>
    BY <1>3, <1>4
  <2>. QED BY <2>1, <2>2
<1>6. i \in 1..n /\ \A j \in 1..(i - 1) : Len(parts[j]) = 1
  <2>1. i \in 1..n
    BY <1>1
  <2>2. ASSUME NEW j \in 1..(i - 1) PROVE Len(parts[j]) = 1
    <3>1. j \in 1..n
      BY <2>1
    <3>2. \E r : contexts[j].wanted = {r}
      BY DEF OneEachBefore
    <3>3. contexts[j] \in Contexts /\ parts[j] \in ItemsOf(contexts[j])
      BY <1>4, <3>1
    <3>. QED BY <1>3, <3>2, <3>3
  <2>. QED BY <2>1, <2>2
<1>7. items'[i] = parts[i][1]
  BY <1>2, <1>5, <1>6, FirstsKeepTheirPlace
<1>. QED BY <1>3, <1>4, <1>6, <1>7

\* A batch check goes wrong only behind a context with several relations (finding
\* about batch_check of openfga_adapter.py): for batches of any length the result
\* of every context up to the first such one is right, and that one's never lets
\* a user in who holds none of the relations.
THEOREM BatchesStartRight ==
    ASSUME BatchSetting
    PROVE  BatchSpec => []RightUntilTheFirst
<1>1. BatchInit => BatchInv
  <2>. SUFFICES ASSUME BatchInit PROVE BatchInv
    OBVIOUS
  <2>1. PICK n \in 1..MaxContexts : contexts \in [1..n -> Contexts]
    BY DEF BatchInit
  <2>2. n \in Nat \ {0}
    OBVIOUS
  <2>. QED BY <2>1, <2>2 DEF BatchInit, BatchInv
<1>2. BatchInv /\ [BatchNext]_batchVars => BatchInv'
  <2>. SUFFICES ASSUME BatchInv, [BatchNext]_batchVars PROVE BatchInv'
    OBVIOUS
  <2>1. CASE BuildBatchCheckItems
    <3>1. \A i \in DOMAIN contexts : OneEachBefore(i)' <=> OneEachBefore(i)
      BY <2>1 DEF BuildBatchCheckItems, OneEachBefore
    <3>2. results = <<>>
      BY <2>1 DEF BuildBatchCheckItems, BatchInv
    <3>3. UNCHANGED <<tuples, contexts, results>>
      BY <2>1 DEF BuildBatchCheckItems
    <3>. QED BY <2>1, <3>1, <3>2, <3>3, ExpandedInPlace DEF BatchInv
  <2>2. CASE ProcessBatchResponse
    BY <2>2 DEF ProcessBatchResponse, BatchInv, OneEachBefore, Allowed
  <2>3. CASE UNCHANGED batchVars
    BY <2>3 DEF batchVars, BatchInv, OneEachBefore, Allowed
  <2>. QED BY <2>1, <2>2, <2>3 DEF BatchNext
<1>3. BatchInv => RightUntilTheFirst
  BY DEF BatchInv, RightUntilTheFirst, Allowed
<1>. QED BY <1>1, <1>2, <1>3, PTL DEF BatchSpec
=============================================================================
