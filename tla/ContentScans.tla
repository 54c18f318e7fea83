----------------------------- MODULE ContentScans -----------------------------
(***************************************************************************)
(* AI moderation of one blob: a scan looks at the cache, at the list of    *)
(* removed hashes, then asks the providers in turn and combines what they  *)
(* detect.  Uploads scan before they store; queued scans act on the result *)
(* themselves; a quarantined blob is reviewed by an operator.  What a      *)
(* provider's own service says is external.  (No command registers a       *)
(* provider or starts the workers: the model is of the service with them.) *)
(***************************************************************************)
EXTENDS Integers, Sequences

CONSTANTS
    Scans, ScanQueued,  \* identities of scans, and those that come from the queue
    Registered,         \* the names of the providers, in the order they were registered
    Configured,         \* the providers that have what they need to be called
    MimeType,           \* the blob's type
    Detections,         \* what may be detected: records with category and confidence
    Critical, Severe,   \* categories: IsCriticalCategory; explicit and violent content
    BlockHighConfidence, QuarantineMedium, FlagLowConfidence, CacheResults,
    Reviews,            \* how often the operator reviews
    ScanFaults          \* {"provider"} where a custom provider's service may fail

Actions == <<"allow", "flag", "quarantine", "block">>
ActionNames == {"allow", "flag", "quarantine", "block"}

\* SupportedMimeTypes of each provider; a custom one is given its own.
SupportedMimeTypes ==
    [hash_blocklist  |-> {"jpeg", "png", "gif", "webp", "video"},
     aws_rekognition |-> {"jpeg", "png"},
     google_vision   |-> {"jpeg", "png", "gif", "webp"},
     custom          |-> {"jpeg", "png", "gif", "webp", "video"}]

ScansAssumption ==
    /\ Registered \in Seq(DOMAIN SupportedMimeTypes)
    /\ ScanQueued \subseteq Scans
    /\ \A d \in Detections : d.confidence \in 0..100
    /\ {BlockHighConfidence, QuarantineMedium, FlagLowConfidence, CacheResults} \subseteq BOOLEAN
    /\ Reviews \in Nat /\ ScanFaults \subseteq {"provider"}

VARIABLES
    verdict,      \* what each provider detects in the blob, by its place
    cache,        \* the cached action, "none" where there is none
    scanRemoved,  \* the hash is on the list of removed blobs
    scanReports,  \* reports made of the blob, by scans
    scanHeld,     \* the blob's status in quarantine, "none" where it is not there
    reviewed,     \* reviews so far
    \* each scan: the step it makes next, the provider it is at, the detections
    \* it was given, and its answer
    scanPc, scanAt, found, scanAnswer

scanVars == <<verdict, cache, scanRemoved, scanReports, scanHeld, reviewed, scanPc, scanAt,
          found, scanAnswer>>
scanList == <<scanRemoved, scanReports>>

\* HashBlocklistProvider.Scan: whether the hash is on the list, whatever the bytes.
ListScan(listed) == IF listed THEN {[category |-> "csam", confidence |-> 100]} ELSE {}

\* AWSRekognitionProvider.Scan and GoogleVisionProvider.Scan call nothing yet:
\* with credentials or without, they detect nothing.
RekognitionScan == {}
VisionScan == {}

\* What each provider may say of a blob.
Verdicts ==
    [hash_blocklist  |-> {ListScan(listed) : listed \in BOOLEAN},
     aws_rekognition |-> {RekognitionScan},
     google_vision   |-> {VisionScan},
     custom          |-> SUBSET Detections]

ScanInit ==
    /\ verdict \in [DOMAIN Registered -> UNION {Verdicts[p] : p \in DOMAIN Verdicts}]
    /\ \A i \in DOMAIN Registered : verdict[i] \in Verdicts[Registered[i]]
    /\ cache = "none" /\ scanRemoved = FALSE /\ scanReports = {} /\ scanHeld = "none" /\ reviewed = 0
    /\ scanPc = [s \in Scans |-> "idle"] /\ scanAt = [s \in Scans |-> 1]
    /\ found = [s \in Scans |-> {}] /\ scanAnswer = [s \in Scans |-> "none"]

------------------------------------------------------------------------------
ScanIn(s, l) == scanPc[s] = l
ScanGoto(s, l) == scanPc' = [scanPc EXCEPT ![s] = l]

ScanAnswer(s, a) ==
    /\ scanAnswer' = [scanAnswer EXCEPT ![s] = a]
    /\ ScanGoto(s, "act")

\* determineActionFromDetections: what one detection calls for, if anything.
ScanCalls(d) ==
    IF d.category \in Critical /\ d.confidence >= 80 THEN "block"
    ELSE IF \/ d.confidence >= 80 /\ d.category \in Severe /\ BlockHighConfidence
            \/ d.confidence >= 50 /\ QuarantineMedium THEN "quarantine"
    ELSE IF d.confidence >= 20 /\ FlagLowConfidence THEN "flag"
    ELSE "none"

\* aggregateResults: the most confident detection that calls for anything
\* decides; of equal ones any.
Decisive(D) ==
    LET C == {d \in D : ScanCalls(d) # "none"} IN
    {d \in C : \A e \in C : e.confidence <= d.confidence}

\* ScanContent: the cache, then the removed hashes.
ScanLookUp(s) ==
    /\ ScanIn(s, "idle")
    /\ IF CacheResults /\ cache # "none" THEN ScanAnswer(s, cache)
       ELSE ScanGoto(s, "list") /\ UNCHANGED scanAnswer
    /\ UNCHANGED <<verdict, cache, scanList, scanHeld, reviewed, scanAt, found>>

ScanCheckRemoved(s) ==
    /\ ScanIn(s, "list")
    /\ IF scanRemoved THEN ScanAnswer(s, "block") ELSE ScanGoto(s, "scan") /\ UNCHANGED scanAnswer
    /\ UNCHANGED <<verdict, cache, scanList, scanHeld, reviewed, scanAt, found>>

\* A critical detection of one provider is enough.
MutantWaitsForAll(D) == FALSE
Enough(D) == \E d \in D : d.category \in Critical /\ d.confidence >= 80

Result(s, a) ==
    /\ ScanAnswer(s, a)
    /\ cache' = IF CacheResults THEN a ELSE cache

\* providerSupportsType and IsAvailable.
Asked(p) == MimeType \in SupportedMimeTypes[p] /\ p \in Configured \cup {"hash_blocklist"}

\* CustomAPIProvider.Scan: a service that fails is a result without detections,
\* not an error; a queued scan sends the hash but no bytes to look at.
Scanned(s, i) ==
    {verdict[i]} \cup
    {D \in {{}} : Registered[i] = "custom" /\ ("provider" \in ScanFaults \/ s \in ScanQueued)}

AskProvider(s) ==
    /\ ScanIn(s, "scan") /\ scanAt[s] <= Len(Registered)
    /\ scanAt' = [scanAt EXCEPT ![s] = @ + 1]
    /\ \/ /\ Asked(Registered[scanAt[s]])
          /\ \E D \in Scanned(s, scanAt[s]) :
               /\ found' = [found EXCEPT ![s] = @ \cup D]
               /\ IF Enough(D) THEN Result(s, "block") ELSE UNCHANGED <<scanPc, scanAnswer, cache>>
       \/ ~Asked(Registered[scanAt[s]]) /\ UNCHANGED <<found, scanPc, scanAnswer, cache>>
    /\ UNCHANGED <<verdict, scanList, scanHeld, reviewed>>

Combine(s) ==
    /\ ScanIn(s, "scan") /\ scanAt[s] > Len(Registered)
    /\ \/ Decisive(found[s]) = {} /\ Result(s, "allow")
       \/ \E d \in Decisive(found[s]) : Result(s, ScanCalls(d))
    /\ UNCHANGED <<verdict, scanList, scanHeld, reviewed, scanAt, found>>

\* What follows: processQueueItem for a queued scan; the upload handler only
\* refuses, or puts the blob in quarantine, over any entry there is.
Act(s) ==
    /\ ScanIn(s, "act")
    /\ scanRemoved' = (scanRemoved \/ (s \in ScanQueued /\ scanAnswer[s] = "block"))
    /\ scanHeld' = IF scanAnswer[s] = "quarantine" THEN "pending" ELSE scanHeld
    /\ scanReports' = IF s \in ScanQueued /\ scanAnswer[s] = "flag" THEN scanReports \cup {s} ELSE scanReports
    /\ ScanGoto(s, IF s \in ScanQueued \/ scanAnswer[s] \in {"block", "quarantine"} THEN "done" ELSE "stored")
    /\ UNCHANGED <<verdict, cache, reviewed, scanAt, found, scanAnswer>>

------------------------------------------------------------------------------
\* ReviewQuarantinedBlob, for an entry whatever its status.
Review(approved) ==
    /\ scanHeld # "none" /\ reviewed < Reviews
    /\ scanHeld' = IF approved THEN "approved" ELSE "rejected"
    /\ scanRemoved' = (scanRemoved \/ ~approved)
    /\ reviewed' = reviewed + 1
    /\ UNCHANGED <<verdict, cache, scanReports, scanPc, scanAt, found, scanAnswer>>

\* CacheTTL passes.
ScanLapseCache ==
    /\ cache # "none" /\ cache' = "none"
    /\ UNCHANGED <<verdict, scanList, scanHeld, reviewed, scanPc, scanAt, found, scanAnswer>>

Scan(s) == ScanLookUp(s) \/ ScanCheckRemoved(s) \/ AskProvider(s) \/ Combine(s) \/ Act(s)

ScanNext == (\E s \in Scans : Scan(s)) \/ (\E approved \in BOOLEAN : Review(approved)) \/ ScanLapseCache

ScanSpec == ScanInit /\ [][ScanNext]_scanVars

------------------------------------------------------------------------------
AtLeast(a, b) == \E i, j \in 1..4 : Actions[i] = a /\ Actions[j] = b /\ i >= j

\* The state's types.
ScanTypeOK ==
    /\ \A i \in DOMAIN Registered : verdict[i] \in Verdicts[Registered[i]]
    /\ cache \in ActionNames \cup {"none"} /\ scanRemoved \in BOOLEAN /\ scanReports \subseteq Scans
    /\ scanHeld \in {"none", "pending", "approved", "rejected"} /\ reviewed \in 0..Reviews
    /\ scanAt \in [Scans -> 1..Len(Registered) + 1]
    /\ scanAnswer \in [Scans -> ActionNames \cup {"none"}]

\* The settings, all on by default (DefaultAIModerationConfig), under which what
\* a detection calls for grows with its confidence.  With uncertain content let
\* through but explicit content held, a merely flagged detection that is more
\* confident hides an explicit one.
MediumQuarantined == QuarantineMedium \/ ~BlockHighConfidence \/ ~FlagLowConfidence

\* No detection hides another: the answer of a scan is at least what each
\* detection it was given calls for, though only the most confident one is
\* looked at.
NotWeakened ==
    MediumQuarantined =>
        \A s \in Scans : scanAnswer[s] # "none" =>
            \A d \in found[s] : ScanCalls(d) # "none" => AtLeast(scanAnswer[s], ScanCalls(d))

\* core/ai_moderation.go: ReviewQuarantinedBlob "approves or rejects a
\* quarantined blob": no scan puts an approved blob back.
ApprovalStands == [][scanHeld = "approved" => scanHeld' # "pending"]_scanVars
==============================================================================
