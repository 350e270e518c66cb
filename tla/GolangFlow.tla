----------------------------- MODULE GolangFlow -----------------------------
(***************************************************************************)
(* newPackageFlow and its subflow newPackageAnalysisFlow: golang packages  *)
(* are ingested without an analysis in the database.  The tasks put their  *)
(* results on S3 themselves and only log when that fails, then the data    *)
(* importer is told by name what to read.  The subflow runs on the         *)
(* package, the rest of the flow on the version.                           *)
(***************************************************************************)
EXTENDS Naturals

CONSTANTS GoFlows,      \* flows of versions of one package
          MaxGoLosses   \* bound: uploads that are lost, nodes that fail

VARIABLES gfPc,         \* the node that a flow has come to
          gfLink,       \* GolangUtils finds a GitHub link for the package
          gfObjects,    \* objects on S3: version records, metadata, github_details
          gfLogged,     \* objects whose upload failed, and was logged
          gfImports,    \* names that the importer was told, with their version
          gfLosses

gfVars == <<gfPc, gfLink, gfObjects, gfLogged, gfImports, gfLosses>>

(* github_details.json has no version in its key.                          *)
GoObject(name, f) == <<name, IF name = "github_details" THEN 0 ELSE f>>

GolangInit == /\ gfPc = [f \in GoFlows |-> "NewInitPackageFlow"]
              /\ gfLink \in BOOLEAN
              /\ gfObjects = {} /\ gfLogged = {} /\ gfImports = {} /\ gfLosses = 0

GolangStep(f, node, next) == gfPc[f] = node /\ gfPc' = [gfPc EXCEPT ![f] = next]

(* store_data_to_s3 never raises.                                          *)
StoreData(objects) ==
    \E lost \in SUBSET objects :
        /\ lost # {} => gfLosses < MaxGoLosses
        /\ gfLosses' = IF lost = {} THEN gfLosses ELSE gfLosses + 1
        /\ gfObjects' = gfObjects \cup (objects \ lost)
        /\ gfLogged' = gfLogged \cup lost

(* The task checks the ecosystem and that the package is public.           *)
NewInitPackage(f) ==
    /\ GolangStep(f, "NewInitPackageFlow", "NewMetaDataTask")
    /\ UNCHANGED <<gfLink, gfObjects, gfLogged, gfImports, gfLosses>>

NewMetaData(f) ==
    /\ GolangStep(f, "NewMetaDataTask", "NewInitPackageAnlysisFlow")
    /\ StoreData({GoObject("record", f), GoObject("metadata", f)})
    /\ UNCHANGED <<gfLink, gfImports>>

NewInitPackageAnlysis(f) ==
    /\ GolangStep(f, "NewInitPackageAnlysisFlow", "NewGithubDetails")
    /\ UNCHANGED <<gfLink, gfObjects, gfLogged, gfImports, gfLosses>>

(* Without a link the task returns before it has stored anything.          *)
NewGithubDetails(f) ==
    /\ GolangStep(f, "NewGithubDetails", "NewPackageAnalysisGraphImporterTask")
    /\ IF gfLink THEN StoreData({GoObject("github_details", f)})
       ELSE UNCHANGED <<gfObjects, gfLogged, gfLosses>>
    /\ UNCHANGED <<gfLink, gfImports>>

(* Variant: the flow ends with its subflow.                                *)
ImportDetailsAndEnd(f) ==
    /\ GolangStep(f, "NewPackageAnalysisGraphImporterTask", "done")
    /\ gfImports' = gfImports \cup {GoObject("github_details", f)}
    /\ UNCHANGED <<gfLink, gfObjects, gfLogged, gfLosses>>

ImportDetails(f) ==
    /\ GolangStep(f, "NewPackageAnalysisGraphImporterTask", "NewPackageGraphImporterTask")
    /\ gfImports' = gfImports \cup {GoObject("github_details", f)}
    /\ UNCHANGED <<gfLink, gfObjects, gfLogged, gfLosses>>

ImportMetadata(f) ==
    /\ GolangStep(f, "NewPackageGraphImporterTask", "done")
    /\ gfImports' = gfImports \cup {GoObject("metadata", f)}
    /\ UNCHANGED <<gfLink, gfObjects, gfLogged, gfLosses>>

(* No node has a fallback: the subflow fails with its node, the flow with  *)
(* its subflow.                                                            *)
GolangFails(f) ==
    /\ gfPc[f] \notin {"done", "failed"} /\ gfLosses < MaxGoLosses
    /\ gfPc' = [gfPc EXCEPT ![f] = "failed"]
    /\ gfLosses' = gfLosses + 1
    /\ UNCHANGED <<gfLink, gfObjects, gfLogged, gfImports>>

GolangNext == \E f \in GoFlows :
    \/ NewInitPackage(f) \/ NewMetaData(f) \/ NewInitPackageAnlysis(f) \/ NewGithubDetails(f)
    \/ ImportDetails(f) \/ ImportMetadata(f) \/ GolangFails(f)
GolangSpec == GolangInit /\ [][GolangNext]_gfVars
-----------------------------------------------------------------------------
(* The importer is told to read an object that is not there only when its  *)
(* upload was lost in the log, or the package has no GitHub repository.    *)
ImportReadsUpload ==
    \A o \in gfImports :
        o \in gfObjects \/ o \in gfLogged \/ (o[1] = "github_details" /\ ~gfLink)

(* Metadata stay out of the graph only when a node has failed after them:  *)
(* a failed look at GitHub takes the metadata of the version with it.      *)
MetadataLeftHasCause ==
    \A f \in GoFlows :
        GoObject("metadata", f) \in gfObjects \ gfImports => gfPc[f] # "done"

(* What the importer is told and what is on S3 differ only by failures.    *)
GolangImportsRead == ImportReadsUpload /\ MetadataLeftHasCause
=============================================================================
