------------------------------ MODULE Moderation ------------------------------
(***************************************************************************)
(* Reports of blobs and what moderators do about them, beside uploads of   *)
(* the same blobs: several decisions may be taken on one report, or on     *)
(* several reports of one blob; a decision deletes the blob, marks its     *)
(* hash as removed, may ban its uploader, and says so in the report.  What *)
(* an upload looks at before it saves depends on the way it takes: the     *)
(* blocklist once, more often or never, the ban or not, and the removed    *)
(* hashes only by PUT /upload and PUT /mirror.  The accounting of the      *)
(* deletion is in BlobSweeps.                                              *)
(***************************************************************************)
EXTENDS Integers

CONSTANTS
    ModPubkeys, ModNobody,
    Names, ModHashes,          \* hashes as reports write them, and those blobs may have
    Reports, About,            \* the reports that may be made, and the name in each
    Signed,                    \* those of them that come as signed events
    Decisions,                 \* identities of decisions: the bound on their number
    ModUploads, ModKey, Blob,  \* identities of uploads, and the key and hash of each
    ModFaults                  \* {"db"} where statements may fail

\* A hash written in capitals passes the check of the format and is kept as it
\* is written: a name that no blob has.
ModerationAssumption ==
    /\ ModHashes \subseteq Names /\ ModNobody \notin ModPubkeys
    /\ About \in [Reports -> Names] /\ Signed \subseteq Reports
    /\ ModKey \in [ModUploads -> ModPubkeys] /\ Blob \in [ModUploads -> ModHashes]
    /\ ModFaults \subseteq {"db"}

Decided == {"removed", "user_banned", "dismissed"}
ModFails == "db" \in ModFaults

\* The ways of an upload: PUT /upload, and PUT /mirror which goes the same way;
\* one file of POST /batch/upload, and PUT /media; a tus upload, made, sent and
\* finalized by requests of its own; a chunked session; and the proxy of remote
\* media, which stores what it fetches under a key of its own.
Ways == {"upload", "batch", "tus", "chunked", "remote"}
FirstCheck(w) == IF w = "remote" THEN "save" ELSE IF w = "chunked" THEN "quota" ELSE "idle"
AfterQuota(w) == IF w = "upload" THEN "check" ELSE IF w = "tus" THEN "patch" ELSE "save"

VARIABLES
    report, acted,      \* reports.status and reports.action_taken
    uploader,           \* blobs.pubkey of each hash, ModNobody where there is no row
    modRemoved,         \* table removed_blobs
    blocklist, banned,  \* table blocklist, and users.is_banned
    \* each decision: the step it makes next, its report and action, and the
    \* uploader it has found
    dpc, on, action, modSeen,
    way, modUpc,        \* each upload: the way it takes, and the step it makes next
    \* history: uploads that passed the check of removed hashes before any report
    \* of the blob was acted on; the blobs that such uploads saved beside a decision,
    \* and those saved by a way that does not ask, since they were last deleted;
    \* names that a failed statement has left stored, unmarked or unchecked
    early, slipped, unasked, erred

modReports == <<report, acted>>
users == <<blocklist, banned>>
decisions == <<dpc, on, action, modSeen>>
uploads == <<way, modUpc, early>>
modRows == <<uploader, slipped, unasked>>
modVars == <<modReports, modRows, modRemoved, users, decisions, uploads, erred>>

ModInit ==
    /\ report = [r \in Reports |-> "none"] /\ acted = [r \in Reports |-> "none"]
    /\ uploader = [h \in ModHashes |-> ModNobody] /\ modRemoved = {} /\ blocklist = {} /\ banned = {}
    /\ dpc = [d \in Decisions |-> "idle"] /\ modSeen = [d \in Decisions |-> ModNobody]
    /\ on \in [Decisions -> Reports] /\ action \in [Decisions -> Decided]
    /\ way \in [ModUploads -> Ways] /\ modUpc = [u \in ModUploads |-> FirstCheck(way[u])]
    /\ early = {} /\ slipped = {} /\ unasked = {} /\ erred = {}

------------------------------------------------------------------------------
\* The statements.
CreateReport(r) ==
    /\ report' = [report EXCEPT ![r] = "pending"]
    /\ UNCHANGED acted
UpdateReportStatus(r, s, a) ==
    /\ report' = [report EXCEPT ![r] = s]
    /\ acted' = [acted EXCEPT ![r] = a]
GetReport(r) == report[r] # "none"
AddToBlocklist(p) == blocklist' = blocklist \cup {p}
RemoveFromBlocklist(p) == blocklist' = blocklist \ {p}
IsBlocked(p) == p \in blocklist
BanUser(p) == banned' = banned \cup {p}
UnbanUser(p) == banned' = banned \ {p}
AddRemovedBlob(n) == modRemoved' = modRemoved \cup {n}
IsHashRemoved(h) == h \in modRemoved
Errs(n) == ModFails /\ erred' = erred \cup {n}
GetFromHash(n) == IF n \in ModHashes THEN uploader[n] ELSE ModNobody

------------------------------------------------------------------------------
\* POST /report, and one hash of the signed event of PUT /report: each of its
\* hashes is a report of its own, and one that fails is skipped.
SubmitReport(r) ==
    /\ r \notin Signed /\ report[r] = "none" /\ CreateReport(r)
    /\ UNCHANGED <<modRows, modRemoved, users, decisions, uploads, erred>>

SubmitReportBUD09(r) ==
    /\ r \in Signed /\ report[r] = "none" /\ CreateReport(r)
    /\ UNCHANGED <<modRows, modRemoved, users, decisions, uploads, erred>>

------------------------------------------------------------------------------
\* A decision: POST /admin/api/reports/:id/action.
ModIn(d, l) == dpc[d] = l
ModGoto(d, l) == dpc' = [dpc EXCEPT ![d] = l]
Stay == UNCHANGED <<on, action, uploads>>
Name(d) == About[on[d]]

ActionReport(d) ==
    /\ ModIn(d, "idle") /\ GetReport(on[d])
    /\ ModGoto(d, IF action[d] = "dismissed" THEN "review" ELSE "find")
    /\ Stay /\ UNCHANGED <<modReports, modRows, modRemoved, users, modSeen, erred>>

\* A blob that is not there, or cannot be read, leaves nobody to ban and nothing
\* to delete; the hash is marked all the same.
MutantNothingToDo == "review"
NotFound == "mark"

FindBlob(d) ==
    /\ ModIn(d, "find")
    /\ \/ /\ modSeen' = [modSeen EXCEPT ![d] = GetFromHash(Name(d))]
          /\ ModGoto(d, IF modSeen'[d] = ModNobody THEN NotFound
                        ELSE IF action[d] = "user_banned" THEN "ban" ELSE "delete")
          /\ UNCHANGED erred
       \/ Errs(Name(d)) /\ ModGoto(d, NotFound) /\ UNCHANGED modSeen
    /\ Stay /\ UNCHANGED <<modReports, modRows, modRemoved, users>>

\* Errors on the way are logged, and the decision goes on.
Ban(d) ==
    /\ ModIn(d, "ban")
    /\ BanUser(modSeen[d]) \/ (ModFails /\ UNCHANGED banned)
    /\ ModGoto(d, "block")
    /\ Stay /\ UNCHANGED <<modReports, modRows, modRemoved, blocklist, modSeen, erred>>

Block(d) ==
    /\ ModIn(d, "block")
    /\ AddToBlocklist(modSeen[d]) \/ (ModFails /\ UNCHANGED blocklist)
    /\ ModGoto(d, "delete")
    /\ Stay /\ UNCHANGED <<modReports, modRows, modRemoved, banned, modSeen, erred>>

DeleteBlob(d) ==
    /\ ModIn(d, "delete")
    /\ \/ /\ uploader' = [uploader EXCEPT ![Name(d)] = ModNobody]
          /\ slipped' = slipped \ {Name(d)} /\ unasked' = unasked \ {Name(d)}
          /\ UNCHANGED erred
       \/ Errs(Name(d)) /\ UNCHANGED modRows
    /\ ModGoto(d, "mark")
    /\ Stay /\ UNCHANGED <<modReports, modRemoved, users, modSeen>>

ModMark(d) ==
    /\ ModIn(d, "mark")
    /\ \/ AddRemovedBlob(Name(d)) /\ UNCHANGED erred
       \/ Errs(Name(d)) /\ UNCHANGED modRemoved
    /\ ModGoto(d, "review")
    /\ Stay /\ UNCHANGED <<modReports, modRows, users, modSeen>>

\* ReviewReport, whatever the report says already.
ReviewReport(d) ==
    /\ ModIn(d, "review")
    /\ \/ IF action[d] = "dismissed" THEN UpdateReportStatus(on[d], "dismissed", "none")
          ELSE UpdateReportStatus(on[d], "actioned", action[d])
       \/ ModFails /\ UNCHANGED modReports
    /\ ModGoto(d, "done")
    /\ Stay /\ UNCHANGED <<modRows, modRemoved, users, modSeen, erred>>

Decide(d) ==
    \/ ActionReport(d) \/ FindBlob(d) \/ Ban(d) \/ Block(d)
    \/ DeleteBlob(d) \/ ModMark(d) \/ ReviewReport(d)

------------------------------------------------------------------------------
\* What operators do to keys, without a report.
banUser(p) == BanUser(p) /\ UNCHANGED blocklist
unbanUser(p) == UnbanUser(p) /\ UNCHANGED blocklist
addToBlocklist(p) == AddToBlocklist(p) /\ UNCHANGED banned
removeFromBlocklist(p) == RemoveFromBlocklist(p) /\ UNCHANGED banned

Operate(p) ==
    /\ banUser(p) \/ unbanUser(p) \/ addToBlocklist(p) \/ removeFromBlocklist(p)
    /\ UNCHANGED <<modReports, modRows, modRemoved, decisions, uploads, erred>>

------------------------------------------------------------------------------
\* An upload.
ModRefuse(u, l, cond) ==
    /\ modUpc' = [modUpc EXCEPT ![u] = IF cond THEN "done" ELSE l]
    /\ UNCHANGED <<modReports, modRows, modRemoved, users, decisions, way>>

\* refuseBlockedUploader, and CheckQuota: a lookup that fails refuses.
CheckBlocked(u) ==
    /\ modUpc[u] = "idle"
    /\ ModRefuse(u, "quota", IsBlocked(ModKey[u])) \/ (ModFails /\ ModRefuse(u, "quota", TRUE))
    /\ UNCHANGED <<early, erred>>

CheckBanned(u) ==
    /\ modUpc[u] = "quota"
    /\ \/ ModRefuse(u, AfterQuota(way[u]), ModKey[u] \in banned)
       \/ ModFails /\ ModRefuse(u, "quota", TRUE)
    /\ UNCHANGED <<early, erred>>

\* The PATCH that ends a tus upload asks twice whether the key is blocked: when it
\* begins and when it finalizes.  A key that is loses the upload; a lookup that
\* fails leaves the upload to another PATCH (in the first case it has changed
\* nothing, which is no step).
PatchTus(u) ==
    /\ modUpc[u] = "patch" /\ ModRefuse(u, "final", IsBlocked(ModKey[u]))
    /\ UNCHANGED <<early, erred>>

FinalizeTus(u) ==
    /\ modUpc[u] = "final"
    /\ ModRefuse(u, "save", IsBlocked(ModKey[u])) \/ (ModFails /\ ModRefuse(u, "patch", FALSE))
    /\ UNCHANGED <<early, erred>>

\* A lookup of the removed hashes that fails lets the upload pass.
ActedOn(h) == \E r \in Reports : About[r] = h /\ report[r] = "actioned"

ModCheckRemoved(u) ==
    /\ modUpc[u] = "check"
    /\ \/ ModRefuse(u, "save", IsHashRemoved(Blob[u])) /\ UNCHANGED erred
       \/ ModRefuse(u, "save", FALSE) /\ Errs(Blob[u])
    /\ early' = IF ActedOn(Blob[u]) THEN early ELSE early \cup {u}

\* SaveWithDedup: the first uploader stays the row's.
Beside(h) == \E d \in Decisions : Name(d) = h /\ dpc[d] # "idle"

ModSave(u) ==
    /\ modUpc[u] = "save"
    /\ modUpc' = [modUpc EXCEPT ![u] = "done"]
    /\ uploader' = [uploader EXCEPT ![Blob[u]] = IF @ = ModNobody THEN ModKey[u] ELSE @]
    /\ slipped' = IF u \in early /\ Beside(Blob[u]) THEN slipped \cup {Blob[u]} ELSE slipped
    /\ unasked' = IF way[u] = "upload" THEN unasked ELSE unasked \cup {Blob[u]}
    /\ UNCHANGED <<modReports, modRemoved, users, decisions, way, early, erred>>

ModUpload(u) ==
    \/ CheckBlocked(u) \/ CheckBanned(u) \/ PatchTus(u) \/ FinalizeTus(u)
    \/ ModCheckRemoved(u) \/ ModSave(u)

ModNext ==
    \/ \E r \in Reports : SubmitReport(r) \/ SubmitReportBUD09(r)
    \/ \E d \in Decisions : Decide(d)
    \/ \E p \in ModPubkeys : Operate(p)
    \/ \E u \in ModUploads : ModUpload(u)

ModSpec == ModInit /\ [][ModNext]_modVars

------------------------------------------------------------------------------
\* The state's types; a report that says actioned names its action.
ModTypeOK ==
    /\ report \in [Reports -> {"none", "pending", "actioned", "dismissed"}]
    /\ acted \in [Reports -> {"none", "removed", "user_banned"}]
    /\ \A r \in Reports : report[r] = "actioned" <=> acted[r] # "none"
    /\ uploader \in [ModHashes -> ModPubkeys \cup {ModNobody}]
    /\ modRemoved \subseteq Names /\ blocklist \subseteq ModPubkeys /\ banned \subseteq ModPubkeys
    /\ dpc \in [Decisions -> {"idle", "find", "ban", "block", "delete", "mark", "review", "done"}]
    /\ on \in [Decisions -> Reports] /\ action \in [Decisions -> Decided]
    /\ modSeen \in [Decisions -> ModPubkeys \cup {ModNobody}]
    /\ way \in [ModUploads -> Ways]
    /\ modUpc \in [ModUploads -> {"idle", "quota", "patch", "final", "check", "save", "done"}]
    /\ slipped \cup unasked \subseteq ModHashes /\ erred \subseteq Names

\* A blob whose report says that it was acted on is not stored, whatever else
\* moderators decide at once and however often PUT /upload and PUT /mirror bring
\* it again (UploadBlob: "Removed blobs cannot be re-uploaded"), until an upload
\* stores it that takes a way which does not ask for the removed hashes; except
\* where a statement failed that was to find, delete, mark or look up the hash,
\* whose error is only logged, and by an upload that had looked at the removed
\* hashes before the report said so and saved beside the decision: the check and
\* the save are not one step.
ActionedIsGone ==
    \A r \in Reports : (report[r] = "actioned" /\ About[r] \in ModHashes) =>
        (uploader[About[r]] = ModNobody \/ About[r] \in slipped \cup unasked \cup erred)

\* The same of an upload by any way, as IsHashRemoved has it ("a blob hash has
\* been removed and cannot be re-uploaded") and ActionReport ("Add to removed
\* blobs to prevent re-upload").  It does not hold: batch, media, tus and chunked
\* uploads and the media proxy save without asking.
RemovedStaysOut ==
    \A r \in Reports : (report[r] = "actioned" /\ About[r] \in ModHashes) =>
        (uploader[About[r]] = ModNobody \/ About[r] \in slipped \cup erred)
==============================================================================
