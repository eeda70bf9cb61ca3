------------------------------ MODULE DlpScan ------------------------------
(***************************************************************************)
(* The DLP node: the descriptions of a report are screened all at once, in  *)
(* two layers.  Presidio redacts what its rules recognize; a text it finds  *)
(* nothing in goes to the language model, whose "clean" is overruled by a   *)
(* few patterns of the adapter's own.  The model may fail, and then the     *)
(* text counts as clean.  One entry per CVE is kept for the audit.          *)
(***************************************************************************)
EXTENDS Naturals

CONSTANTS
    Records,  \* number of records in the report
    CVEs      \* what their identifiers can be

ASSUME DlpAssumption == Records \in Nat

\* What a description holds: nothing, something only the model may tell, what
\* Presidio's rules find, or one of the adapter's own patterns, in the part the
\* model is shown or beyond it.
Texts == {"blank", "plain", "pii", "hint", "late_hint"}

VARIABLES
    cveOf,     \* record -> its CVE
    text,      \* record -> what its description holds
    screen,    \* record -> where its sanitize call stands
    entry,     \* record -> its result
    failed,    \* history: records the model failed on
    scan,      \* "running", "done", "skipped" or "raised"
    perCve     \* per_cve of the scan's result

dlpVars == <<cveOf, text, screen, entry, failed, scan, perCve>>

Batch == 1..Records
NoEntry == [redacted |-> FALSE, semantic_passed |-> TRUE]
Ended == {"done", "raised"}

DlpInit ==
    /\ cveOf \in [Batch -> CVEs]
    /\ text \in [Batch -> Texts]
    /\ screen = [r \in Batch |-> "presidio"]
    /\ entry = [r \in Batch |-> NoEntry]
    /\ failed = {}
    /\ scan = "running"
    /\ perCve = [c \in {} |-> NoEntry]

Result(r, redacted, passed) ==
    /\ screen' = [screen EXCEPT ![r] = "done"]
    /\ entry' = [entry EXCEPT ![r] = [redacted |-> redacted, semantic_passed |-> passed]]

-----------------------------------------------------------------------------
(* sanitize, layer by layer *)

\* An empty text is safe; what Presidio redacts is not shown to the model.
PresidioScreens(r) ==
    /\ screen[r] = "presidio"
    /\ IF text[r] \in {"blank", "pii"} THEN Result(r, text[r] = "pii", TRUE)
       ELSE /\ screen' = [screen EXCEPT ![r] = "haiku"]
            /\ UNCHANGED entry
    /\ UNCHANGED <<cveOf, text, failed, scan, perCve>>

\* SanitizationError leaves gather, and the node with it; the calls of the
\* other records run on and nobody reads what they return.
PresidioFails(r) ==
    /\ screen[r] = "presidio" /\ text[r] # "blank"
    /\ screen' = [screen EXCEPT ![r] = "raised"]
    /\ scan' = IF scan = "running" THEN "raised" ELSE scan
    /\ UNCHANGED <<cveOf, text, entry, failed, perCve>>

\* Mutant: a model that answers "clean" is believed.
HaikuAnswers_trusting(r) ==
    /\ screen[r] = "haiku"
    /\ \E contains_sensitive \in BOOLEAN : Result(r, FALSE, ~contains_sensitive)
    /\ UNCHANGED <<cveOf, text, failed, scan, perCve>>

\* _parse_haiku_response with the heuristic over the part that was shown.
HaikuAnswers(r) ==
    /\ screen[r] = "haiku"
    /\ \E contains_sensitive \in BOOLEAN :
          Result(r, FALSE, ~contains_sensitive /\ text[r] # "hint")
    /\ UNCHANGED <<cveOf, text, failed, scan, perCve>>

\* No answer, or one that is not the JSON asked for: fail open.
HaikuFails(r) ==
    /\ screen[r] = "haiku"
    /\ Result(r, FALSE, TRUE)
    /\ failed' = failed \cup {r}
    /\ UNCHANGED <<cveOf, text, scan, perCve>>

-----------------------------------------------------------------------------
(* dlp_node *)

RecordsOf(c) == {r \in Batch : cveOf[r] = c}
LastRecord(c) == CHOOSE r \in RecordsOf(c) : \A q \in RecordsOf(c) : q <= r

\* Every call is in: the pairs of gather become a dictionary, in the order of
\* the records.
DlpNodeEnds ==
    /\ scan = "running" /\ \A r \in Batch : screen[r] = "done"
    /\ scan' = "done"
    /\ perCve' = [c \in {cveOf[r] : r \in Batch} |-> entry[LastRecord(c)]]
    /\ UNCHANGED <<cveOf, text, screen, entry, failed>>

\* No DLP port is configured.
DlpNodeSkips ==
    /\ scan = "running" /\ \A r \in Batch : screen[r] = "presidio"
    /\ scan' = "skipped"
    /\ screen' = [r \in Batch |-> "done"]
    /\ UNCHANGED <<cveOf, text, entry, failed, perCve>>

DlpNext ==
    \/ \E r \in Batch :
          \/ PresidioScreens(r) \/ PresidioFails(r)
          \/ HaikuAnswers(r) \/ HaikuFails(r)
    \/ DlpNodeEnds \/ DlpNodeSkips

DlpSpec == DlpInit /\ [][DlpNext]_dlpVars

-----------------------------------------------------------------------------
(* Properties *)

\* The audit shows a CVE clean although a text of it holds what one of the two
\* pattern layers recognizes only if the model failed on that text or a later
\* record of the same CVE took its place.
MissedTextsAreExplained ==
    scan = "done" =>
        \A r \in Batch :
            /\ text[r] \in {"pii", "hint"}
            /\ ~perCve[cveOf[r]].redacted /\ perCve[cveOf[r]].semantic_passed
            => \/ text[r] = "hint" /\ r \in failed
               \/ \E q \in Batch : q > r /\ cveOf[q] = cveOf[r]
=============================================================================
