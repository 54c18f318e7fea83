------------------------------ MODULE BlobListing ------------------------------
(***************************************************************************)
(* Listing blobs page by page: GET /list/<pubkey> with its filters, and    *)
(* the operator's search.  Every page is a query of its own, by position   *)
(* in the order of creation, while other requests add and remove blobs; a  *)
(* reader asks for one page after another.  A statement that fails gives   *)
(* the reader an error and changes nothing: it is left out.                *)
(***************************************************************************)
EXTENDS Integers, Sequences, FiniteSets

CONSTANTS
    PageBlobs, PageKeys,
    TypeOf, PageSizeOf,        \* blobs.type and blobs.size
    Queries,                   \* what a reader may ask for, records as in Fields; 0 and "" where unset
    Seconds,                   \* the bound on time; blobs.created has no finer unit
    ListMax,                   \* 1000, the largest limit a listing takes
    SearchDefault, SearchMax,  \* 50 and searchMaxLimit, the page of a search
    Changes                    \* the bound on the uploads and deletes of others

Fields == {"by", "key", "type", "since", "until", "minSize", "maxSize", "limit", "desc"}

ListingAssumption ==
    /\ IsFiniteSet(PageBlobs) /\ PageSizeOf \in [PageBlobs -> Nat] /\ DOMAIN TypeOf = PageBlobs
    /\ \A q \in Queries : /\ DOMAIN q = Fields /\ q.by \in {"list", "search"}
                          /\ q.key \in PageKeys \cup {""} /\ q.limit \in Int
    /\ Seconds \in Nat \ {0} /\ Changes \in Nat /\ ListMax \in Nat \ {0}
    /\ SearchMax \in Nat \ {0} /\ SearchDefault \in 1..SearchMax

VARIABLES
    created,  \* blobs: when each row was inserted, 0 where there is no row
    owners,   \* blob_references: who holds each blob
    now,
    changes,  \* uploads and deletes so far
    \* the reader: what it asked for, its next step, how many rows it has been
    \* given, which blobs they were, what matched when it began, and whether
    \* nothing has disturbed it since
    query, pagePc, pageOffset, pageSeen, began, pageSteady

store == <<created, owners>>
pageReader == <<query, pagePc, pageOffset, pageSeen, began, pageSteady>>
pageVars == <<store, now, changes, pageReader>>

Rows == {b \in PageBlobs : created[b] # 0}

\* The conditions that a listing and a search share: type LIKE, since and until.
Filtered(b, q) ==
    /\ q.type \in {"", TypeOf[b]}
    /\ q.since > 0 => created[b] >= q.since
    /\ q.until > 0 => created[b] <= q.until

Sized(b, q) ==
    /\ q.minSize > 0 => PageSizeOf[b] >= q.minSize
    /\ q.maxSize > 0 => PageSizeOf[b] <= q.maxSize

GetBlobsFromPubkey(k) == {b \in Rows : k \in owners[b]}

GetFromPubkeyWithFilter(q) == {b \in GetBlobsFromPubkey(q.key) : Filtered(b, q)}

SearchBlobs(q) ==
    {b \in (IF q.key = "" THEN Rows ELSE GetBlobsFromPubkey(q.key)) : Filtered(b, q) /\ Sized(b, q)}

Matching(q) == IF q.by = "search" THEN SearchBlobs(q) ELSE GetFromPubkeyWithFilter(q)

\* The limit that counts: a listing ignores one out of its range, and then has
\* every row; a search bounds it.
parseBlobFilter(limit) == IF limit \in 1..ListMax THEN limit ELSE 0

parseSearchFilter(limit) ==
    IF limit <= 0 THEN SearchDefault ELSE IF limit > SearchMax THEN SearchMax ELSE limit

Limit(q) == IF q.by = "search" THEN parseSearchFilter(q.limit) ELSE parseBlobFilter(q.limit)

\* ORDER BY created: the rows of one second come in any order, another in each
\* query.
MutantUnordered(b, c, desc) == FALSE
Before(b, c, desc) == IF desc THEN created[b] > created[c] ELSE created[b] < created[c]

Orders(S, desc) ==
    {s \in [1..Cardinality(S) -> S] :
        \A i, j \in DOMAIN s : i < j => s[i] # s[j] /\ ~Before(s[j], s[i], desc)}

\* LIMIT and OFFSET; without a limit the offset is not looked at.
Page(s, limit, o) ==
    IF limit = 0 THEN s
    ELSE SubSeq(s, o + 1, IF o + limit < Len(s) THEN o + limit ELSE Len(s))

\* COUNT(*) OVER() comes with each row: no row, no count.
Total(page, S) == IF page = <<>> THEN 0 ELSE Cardinality(S)

------------------------------------------------------------------------------
\* A reader of whatever there is begins.
PageInit ==
    /\ now \in 1..Seconds /\ changes = 0
    /\ created \in [PageBlobs -> 0..now]
    /\ owners \in [PageBlobs -> SUBSET PageKeys]
    /\ \A b \in PageBlobs : owners[b] = {} <=> created[b] = 0
    /\ query \in Queries /\ pagePc = "read" /\ pageOffset = 0
    /\ pageSeen = {} /\ began = Matching(query) /\ pageSteady = TRUE

Tied(S) == \E b, c \in S : b # c /\ created[b] = created[c]

\* One page; a reader goes on from the rows it has until it has all there are.
ReadPage ==
    /\ pagePc = "read"
    /\ \E s \in Orders(Matching(query), query.desc) :
         LET page == Page(s, Limit(query), pageOffset) IN
         /\ pageOffset' = pageOffset + Len(page)
         /\ pageSeen' = pageSeen \cup {page[i] : i \in DOMAIN page}
         /\ pagePc' = IF pageOffset' >= Total(page, Matching(query)) THEN "done" ELSE "read"
    /\ pageSteady' = (pageSteady /\ ~Tied(Matching(query)))
    /\ UNCHANGED <<store, now, changes, query, began>>

------------------------------------------------------------------------------
\* A first upload inserts the row; another key's adds its reference to it,
\* wherever in the order the row is.
PageUpload(b, k) ==
    /\ changes < Changes /\ changes' = changes + 1
    /\ k \notin owners[b]
    /\ created' = IF b \in Rows THEN created ELSE [created EXCEPT ![b] = now]
    /\ owners' = [owners EXCEPT ![b] = @ \cup {k}]
    /\ UNCHANGED <<now, pageReader>>

\* Without k's reference the reader's listing has b no more.
Unlisted(b, k) == query.key = k \/ owners[b] = {k}

\* A delete takes the key's reference, the last one with the row.
PageDelete(b, k) ==
    /\ changes < Changes /\ changes' = changes + 1
    /\ k \in owners[b]
    /\ owners' = [owners EXCEPT ![b] = @ \ {k}]
    /\ created' = IF owners[b] = {k} THEN [created EXCEPT ![b] = 0] ELSE created
    /\ pageSteady' = (pageSteady /\ ~(pagePc = "read" /\ b \in Matching(query) /\ Unlisted(b, k)))
    /\ UNCHANGED <<now, query, pagePc, pageOffset, pageSeen, began>>

Tick == now < Seconds /\ now' = now + 1 /\ UNCHANGED <<store, changes, pageReader>>

PageNext ==
    \/ ReadPage \/ Tick
    \/ \E b \in PageBlobs, k \in PageKeys : PageUpload(b, k) \/ PageDelete(b, k)

PageSpec == PageInit /\ [][PageNext]_pageVars

------------------------------------------------------------------------------
\* The state's types.
PageTypeOK ==
    /\ created \in [PageBlobs -> 0..Seconds] /\ owners \in [PageBlobs -> SUBSET PageKeys]
    /\ \A b \in PageBlobs : owners[b] = {} <=> created[b] = 0
    /\ now \in 1..Seconds /\ changes \in 0..Changes /\ query \in Queries /\ pagePc \in {"read", "done"}
    /\ pageOffset \in Nat /\ pageSeen \subseteq PageBlobs /\ began \subseteq PageBlobs
    /\ pageSteady \in BOOLEAN

\* Pages by position add up: a reader of GET /list or of the search, in either
\* order, misses no blob that was there when it began, whatever uploads come
\* between two pages; unless a blob it lists is deleted meanwhile or two of
\* them are of the same second.
PagesComplete == pagePc = "done" /\ pageSteady => began \subseteq pageSeen
==============================================================================
