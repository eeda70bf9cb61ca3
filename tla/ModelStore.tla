----------------------------- MODULE ModelStore -----------------------------
(***************************************************************************)
(* Model persistence.  A version is a directory with the model file and its *)
(* metadata, which holds the model's hash and perhaps a signature of it.    *)
(* They are written one after the other, in place, and nothing keeps other  *)
(* processes from saving, deleting or loading the same version meanwhile; a *)
(* writer can stop anywhere.  Contents are numbered by the save that wrote  *)
(* them; a file that is written to is torn until the write is done.         *)
(***************************************************************************)
EXTENDS Naturals, FiniteSets

CONSTANTS
    Versions,      \* version numbers
    ModelWriters,  \* the processes that save and delete
    SigningKeys,   \* the keys a process may be configured with
    TooLarge,      \* the saves whose file exceeds the loader's limit
    MaxSaves       \* bound: saves

Unsigned == "unsigned"

ASSUME ModelStoreAssumption ==
    Versions \subseteq Nat \ {0} /\ MaxSaves \in Nat /\ Unsigned \notin SigningKeys

VARIABLES
    modelFile,    \* version -> content of model.json
    metadataFile, \* version -> metadata.json: its state, the hash and the key in it
    saver,        \* per writer: the save or deletion at work
    saves,        \* saves begun
    loader,       \* the load at work
    suspect,      \* history: versions where a writer stopped half way or met another
    touched       \* history: the load's version was written to while it was at work

modelVars == <<modelFile, metadataFile, saver, saves, loader, suspect, touched>>

Missing == 0
TornFile == MaxSaves + 1
SigningKey == SigningKeys \cup {Unsigned}
Metadata(is, hash, key) == [is |-> is, hash |-> hash, key |-> key]
NoMetadata == Metadata("missing", Missing, Unsigned)
TornMetadata == Metadata("torn", Missing, Unsigned)
NoSave == [step |-> "none", version |-> 0, save |-> 0, alone |-> TRUE,
           hash |-> Missing, key |-> Unsigned, left |-> {}]
NoLoad == [version |-> 0, step |-> "none", key |-> Unsigned, verify |-> TRUE,
           hash |-> Missing, signed |-> Unsigned]

ModelInit ==
    /\ modelFile = [v \in Versions |-> Missing]
    /\ metadataFile = [v \in Versions |-> NoMetadata]
    /\ saver = [s \in ModelWriters |-> NoSave]
    /\ saves = 0
    /\ loader = NoLoad
    /\ suspect = {}
    /\ touched = FALSE

-----------------------------------------------------------------------------
(* save_model_with_metadata and delete_model *)

\* The versions a writer is at work on.
At(s) == IF saver[s].step = "none" THEN {}
         ELSE {saver[s].version} \cup {file[1] : file \in saver[s].left}

Touch(vs) == touched' = (touched \/ loader.version \in vs)

\* s sets to work on vs; whoever is there already has met it.
SetsTo(s, vs, state) ==
    LET others == {o \in ModelWriters \ {s} : At(o) \cap vs # {}} IN
    /\ saver[s].step = "none"
    /\ saver' = [o \in ModelWriters |->
                    IF o = s THEN [state EXCEPT !.alone = (others = {})]
                    ELSE IF o \in others THEN [saver[o] EXCEPT !.alone = FALSE]
                    ELSE saver[o]]
    /\ suspect' = suspect \cup {v \in vs : \E o \in others : v \in At(o)}
    /\ Touch(vs)

\* What a finished write leaves of a file that now holds `now`: its own content,
\* unless another writer truncated, wrote or unlinked the file meanwhile.
Leaves(s, own, torn, now) == IF saver[s].alone THEN {own} ELSE {own, torn, now}

SaveBegins(s, v, k) ==
    /\ saves < MaxSaves
    /\ saves' = saves + 1
    /\ SetsTo(s, {v}, [NoSave EXCEPT !.step = "model", !.version = v,
                                     !.save = saves + 1, !.key = k])
    /\ modelFile' = [modelFile EXCEPT ![v] = TornFile]
    /\ UNCHANGED <<metadataFile, loader>>

ModelWritten(s) ==
    LET v == saver[s].version IN
    /\ saver[s].step = "model"
    /\ saver' = [saver EXCEPT ![s].step = "hash"]
    /\ \E content \in Leaves(s, saver[s].save, TornFile, modelFile[v]) :
          modelFile' = [modelFile EXCEPT ![v] = content]
    /\ Touch({v})
    /\ UNCHANGED <<metadataFile, saves, loader, suspect>>

\* The hash is that of the file as it is on disk; metadata.json is truncated.
MetadataBegun(s) ==
    LET v == saver[s].version IN
    /\ saver[s].step = "hash" /\ modelFile[v] # Missing
    /\ saver' = [saver EXCEPT ![s].step = "metadata", ![s].hash = modelFile[v]]
    /\ metadataFile' = [metadataFile EXCEPT ![v] = TornMetadata]
    /\ Touch({v})
    /\ UNCHANGED <<modelFile, saves, loader, suspect>>

\* Mutant: the metadata keeps the hash of the previous save.
MetadataWritten_stale(s) ==
    LET v == saver[s].version IN
    /\ saver[s].step = "metadata"
    /\ saver' = [saver EXCEPT ![s] = NoSave]
    /\ metadataFile' = [metadataFile EXCEPT ![v] =
            Metadata("whole", IF saver[s].hash > 1 THEN saver[s].hash - 1 ELSE 1, saver[s].key)]
    /\ suspect' = IF saver[s].alone THEN suspect \ {v} ELSE suspect
    /\ Touch({v})
    /\ UNCHANGED <<modelFile, saves, loader>>

MetadataWritten(s) ==
    LET v == saver[s].version
        own == Metadata("whole", saver[s].hash, saver[s].key)
    IN
    /\ saver[s].step = "metadata"
    /\ saver' = [saver EXCEPT ![s] = NoSave]
    /\ \E content \in Leaves(s, own, TornMetadata, metadataFile[v]) :
          metadataFile' = [metadataFile EXCEPT ![v] = content]
    /\ suspect' = IF saver[s].alone THEN suspect \ {v} ELSE suspect
    /\ Touch({v})
    /\ UNCHANGED <<modelFile, saves, loader>>

Files(v) == {f \in {"model", "metadata"} :
                IF f = "model" THEN modelFile[v] # Missing ELSE metadataFile[v].is # "missing"}

\* One version, or the model with all of them.
DeleteModel(s, vs) ==
    LET left == {file \in vs \X {"model", "metadata"} : file[2] \in Files(file[1])} IN
    /\ left # {}
    /\ SetsTo(s, {file[1] : file \in left},
              [NoSave EXCEPT !.step = "delete", !.left = left,
                             !.version = CHOOSE v \in vs : v \in {file[1] : file \in left}])
    /\ UNCHANGED <<modelFile, metadataFile, saves, loader>>

\* shutil.rmtree unlinks one file after the other.
FileDeleted(s, v, f) ==
    LET r == saver[s] IN
    /\ r.step = "delete" /\ <<v, f>> \in r.left /\ f \in Files(v)
    /\ saver' = [saver EXCEPT ![s] = IF r.left = {<<v, f>>} THEN NoSave
                                     ELSE [r EXCEPT !.left = r.left \ {<<v, f>>}]]
    /\ \/ /\ f = "model"
          /\ modelFile' = [modelFile EXCEPT ![v] = Missing] /\ UNCHANGED metadataFile
       \/ /\ f = "metadata"
          /\ metadataFile' = [metadataFile EXCEPT ![v] = NoMetadata] /\ UNCHANGED modelFile
    /\ Touch({v})
    /\ UNCHANGED <<saves, loader, suspect>>

\* A writer dies, or raises: the disk is full, the file or the directory is gone.
WriterStops(s) ==
    /\ saver[s].step # "none"
    /\ suspect' = suspect \cup At(s)
    /\ saver' = [saver EXCEPT ![s] = NoSave]
    /\ UNCHANGED <<modelFile, metadataFile, saves, loader, touched>>

-----------------------------------------------------------------------------
(* load_model_with_metadata *)

Outcomes == {"loaded", "no_model", "bad_metadata", "integrity", "unreadable"}

Loading(step) ==
    /\ loader.step = step
    /\ UNCHANGED <<modelFile, metadataFile, saver, saves, suspect, touched>>

\* A given version, or the last by name.
LoadBegins(v, k, verify) ==
    /\ loader.step \in {"none"} \cup Outcomes
    /\ loader' = [NoLoad EXCEPT !.version = v, !.key = k, !.verify = verify,
                     !.step = IF modelFile[v] = Missing THEN "no_model" ELSE "size"]
    /\ touched' = (\E s \in ModelWriters : v \in At(s))
    /\ UNCHANGED <<modelFile, metadataFile, saver, saves, suspect>>

\* A torn file has any size.
CheckSize ==
    LET content == modelFile[loader.version] IN
    /\ Loading("size")
    /\ \E step \in {"no_model", "integrity", "metadata"} :
          /\ step = "no_model" <=> content = Missing
          /\ content # TornFile => (step = "integrity" <=> content \in TooLarge)
          /\ loader' = [loader EXCEPT !.step = step]

\* Without metadata there is nothing to verify against.
ReadMetadata ==
    LET found == metadataFile[loader.version] IN
    /\ Loading("metadata")
    /\ loader' = [loader EXCEPT !.hash = found.hash, !.signed = found.key,
                     !.step = IF found.is = "torn" THEN "bad_metadata"
                              ELSE IF found.is = "whole" /\ loader.verify THEN "verify"
                              ELSE "load"]

\* The key counts when both the loader and the metadata have one.
SignatureFits(key, signed) == Unsigned \in {key, signed} \/ key = signed

\* The hash of a torn file may be that of another torn state of it.
VerifyModelIntegrity ==
    LET content == modelFile[loader.version] IN
    /\ Loading("verify")
    /\ \E step \in {"no_model", "integrity", "load"} :
          /\ step = "no_model" <=> content = Missing
          /\ step = "load" => content = loader.hash /\ SignatureFits(loader.key, loader.signed)
          /\ step = "integrity" =>
                content # loader.hash \/ content = TornFile
                \/ ~SignatureFits(loader.key, loader.signed)
          /\ loader' = [loader EXCEPT !.step = step]

\* The file is opened once more to be loaded.
LoadVerified ==
    LET content == modelFile[loader.version] IN
    /\ Loading("load")
    /\ loader' = [loader EXCEPT
                     !.step = IF content \in {Missing, TornFile} THEN "unreadable" ELSE "loaded",
                     !.hash = IF @ = content THEN @ ELSE Missing]

ModelNext ==
    \/ \E s \in ModelWriters :
          \/ \E v \in Versions, k \in SigningKey : SaveBegins(s, v, k)
          \/ \E vs \in {Versions} \cup {{v} : v \in Versions} : DeleteModel(s, vs)
          \/ \E v \in Versions, f \in {"model", "metadata"} : FileDeleted(s, v, f)
          \/ ModelWritten(s) \/ MetadataBegun(s) \/ MetadataWritten(s) \/ WriterStops(s)
    \/ \E v \in Versions, k \in SigningKey, verify \in BOOLEAN : LoadBegins(v, k, verify)
    \/ CheckSize \/ ReadMetadata \/ VerifyModelIntegrity \/ LoadVerified

ModelSpec == ModelInit /\ [][ModelNext]_modelVars

-----------------------------------------------------------------------------
(* Properties *)

\* A load that fails, or takes a model that is not the one the metadata names,
\* met a writer of that version at work, or one that stopped half way or met
\* another; or there is no such version, its model is too large, or it was signed
\* with another key.
BadLoadNeedsDisturbance ==
    LET v == loader.version IN
    loader.step \in Outcomes =>
        \/ loader.step = "loaded" /\ loader.hash # Missing
        \/ touched \/ v \in suspect
        \/ loader.step = "no_model" /\ Files(v) = {}
        \/ loader.step = "integrity" /\ modelFile[v] \in TooLarge
        \/ /\ loader.step = "integrity" /\ loader.verify
           /\ ~SignatureFits(loader.key, metadataFile[v].key)
=============================================================================
