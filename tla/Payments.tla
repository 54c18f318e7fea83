------------------------------- MODULE Payments -------------------------------
(***************************************************************************)
(* Paid uploads (BUD-07): the middleware in front of PUT /upload and       *)
(* PUT /mirror, the table of payment requests, and the free tier.  Each    *)
(* statement on the database and each question to the Lightning node or    *)
(* the mint is one step of an upload; uploads run concurrently.  The node  *)
(* and the mint are external: invoices are settled and tokens are spent    *)
(* there at any time.                                                      *)
(***************************************************************************)
EXTENDS Integers, FiniteSets, Functions

CONSTANTS
    PayPubkeys,
    PayUploads,                 \* identities of uploads: the bound on their number
    PayRequests,                \* payment requests that can be made
    PayNoRequest,
    Tokens, Worth,              \* Cashu tokens, and the sats in each
    PaySizes,                   \* Content-Lengths an upload may have
    FreeBytesLimit,             \* bytes each key may upload free
    PriceSats, PriceBytes, MinPaymentSats,  \* PriceSats for each PriceBytes
    Methods,                    \* payment methods enabled, a subset of MethodNames
    Called,                     \* operations of the service that no handler or worker of the
                                \* program calls, and here are called: a subset of UncalledNames
    PayFaults                   \* what may fail, a subset of PayFaultNames

MethodNames == {"lightning", "cashu"}
PayFaultNames == {"db", "node"}
UncalledNames == {"consume", "cleanup"}

PaymentsAssumption ==
    /\ PaySizes \subseteq Nat \ {0}
    /\ Worth \in [Tokens -> Nat]
    /\ FreeBytesLimit \in Nat /\ MinPaymentSats \in Nat
    /\ PriceSats \in Nat /\ PriceBytes \in Nat \ {0}
    /\ PayRequests \cap {PayNoRequest, "no", "free"} = {}
    /\ Methods \subseteq MethodNames /\ Called \subseteq UncalledNames
    /\ PayFaults \subseteq PayFaultNames

VARIABLES
    payStatus,   \* payment_requests.status; "none" where there is no row
    price,       \* amount_sats
    invoice,     \* requests that have a payment_hash, and so an invoice
    payOverdue,  \* requests whose expires_at has passed
    settled,     \* invoices paid, by request: the node's record
    spent,       \* tokens no longer spendable: the mint's record
    payUsed,     \* users.free_bytes_used of each key
    \* each upload: its input, the step it makes next, and what let it pass
    pubkey, paySize, method, token, request,
    payPc, passed,
    \* history: pairs of an upload and a request that had let another one pass
    \* before that upload looked it up
    later

table == <<payStatus, price, invoice, payOverdue>>
outside == <<settled, spent>>
payInput == <<pubkey, paySize, method, token, request>>
payVars == <<payStatus, price, invoice, payOverdue, settled, spent, payUsed, pubkey,
          paySize, method, token, request, payPc, passed, later>>

PayLabels == {"idle", "lookup", "expire", "validate", "mark", "free", "create", "passed", "refused",
              "consumed"}

\* CalculatePrice: rounded up to whole sats, and never below the minimum.
CalculatePrice(bytes) ==
    LET sats == (bytes * PriceSats + PriceBytes - 1) \div PriceBytes IN
    IF sats < MinPaymentSats THEN MinPaymentSats ELSE sats

PayInit ==
    /\ payStatus = [i \in PayRequests |-> "none"] /\ price = [i \in PayRequests |-> 0]
    /\ invoice = {} /\ payOverdue = {} /\ settled = {} /\ spent = {}
    /\ payUsed = [k \in PayPubkeys |-> 0]
    /\ pubkey \in [PayUploads -> PayPubkeys] /\ paySize \in [PayUploads -> PaySizes]
    /\ method \in [PayUploads -> MethodNames \cup {"none"}]
    /\ token \in [PayUploads -> Tokens] /\ request \in [PayUploads -> PayRequests \cup {PayNoRequest}]
    /\ payPc = [u \in PayUploads |-> "idle"] /\ passed = [u \in PayUploads |-> "no"]
    /\ later = {}

------------------------------------------------------------------------------
PayAt(u, l) == payPc[u] = l
PayGoto(u, l) == payPc' = [payPc EXCEPT ![u] = l]
PayMove(u, l) == PayGoto(u, l) /\ UNCHANGED <<table, outside, payUsed, payInput, passed, later>>
PayRefuse(u) == PayMove(u, "refused")
PayDbError(u) == "db" \in PayFaults /\ PayRefuse(u)
NodeError(u) == "node" \in PayFaults /\ PayRefuse(u)

Pass(u, how) ==
    /\ PayGoto(u, "passed")
    /\ passed' = [passed EXCEPT ![u] = how]

\* PaymentMiddleware: an upload with a proof is validated, one without is
\* free or needs a payment request.
PayStart(u) == PayAt(u, "idle") /\ PayMove(u, IF method[u] = "none" THEN "free" ELSE "lookup")

\* ValidatePaymentProof reads the row, looks at its status, then at the time.
Made == {i \in PayRequests : payStatus[i] # "none"}
MutantNeverPaid(i) == FALSE
AlreadyPaid(i) == payStatus[i] = "paid"

PayLookUp(u) ==
    /\ PayAt(u, "lookup")
    /\ LET i == request[u] IN
       \/ i \notin Made /\ PayRefuse(u)
       \/ /\ i \in Made
          /\ later' = later \cup {<<u, i>> : v \in {w \in PayUploads : passed[w] = i}}
          /\ PayGoto(u, IF AlreadyPaid(i) THEN "refused"
                        ELSE IF i \in payOverdue THEN "expire" ELSE "validate")
          /\ UNCHANGED <<table, outside, payUsed, payInput, passed>>
       \/ PayDbError(u)

\* MarkPaymentExpired, whatever the status is by now; its error is dropped.
MarkPaymentExpired(u) ==
    /\ PayAt(u, "expire")
    /\ payStatus' \in {[payStatus EXCEPT ![request[u]] = "expired"]}
                        \cup (IF "db" \in PayFaults THEN {payStatus} ELSE {})
    /\ PayGoto(u, "refused")
    /\ UNCHANGED <<price, invoice, payOverdue, outside, payUsed, payInput, passed, later>>

\* validateLightningProof: a preimage proves the invoice of the request was
\* paid, and so does the node.
Settled(i) == i \in invoice /\ i \in settled

\* validateCashuProof: the mint says the token is spendable, and it is worth
\* the price.  RedeemToken asks the mint once more and changes nothing.
TokenPays(u) == token[u] \notin spent /\ Worth[token[u]] >= price[request[u]]

Proves(u) ==
    /\ method[u] \in Methods
    /\ IF method[u] = "lightning" THEN Settled(request[u]) ELSE TokenPays(u)

ValidateProof(u) ==
    /\ PayAt(u, "validate")
    /\ \/ PayMove(u, IF Proves(u) THEN "mark" ELSE "refused")
       \/ NodeError(u)

\* MarkPaymentPaid, again whatever the status is by now.
Paid(i) == [payStatus EXCEPT ![i] = "paid"]

MarkPaymentPaid(u) ==
    /\ PayAt(u, "mark")
    /\ \/ /\ payStatus' = Paid(request[u])
          /\ Pass(u, request[u])
          /\ UNCHANGED <<price, invoice, payOverdue, outside, payUsed, payInput, later>>
       \/ PayDbError(u)

------------------------------------------------------------------------------
\* CanUploadFree: what is left of the key's free tier covers the upload.
CanUploadFree(u) == FreeBytesLimit > 0 /\ FreeBytesLimit - payUsed[pubkey[u]] >= paySize[u]

\* A free upload goes on with a flag that the handler is to consume the free tier.
CheckFree(u) ==
    /\ PayAt(u, "free")
    /\ \/ /\ CanUploadFree(u)
          /\ Pass(u, "free")
          /\ UNCHANGED <<table, outside, payUsed, payInput, later>>
       \/ ~CanUploadFree(u) /\ PayMove(u, "create")
       \/ PayDbError(u)

\* ConsumeFreeTier, for a handler that heeds the flag: none does, and payUsed stays
\* what it is.
Consumed(k, bytes) == [payUsed EXCEPT ![k] = @ + bytes]

ConsumeFreeTier(u) ==
    /\ "consume" \in Called
    /\ PayAt(u, "passed") /\ passed[u] = "free"
    /\ payUsed' \in {Consumed(pubkey[u], paySize[u])} \cup (IF "db" \in PayFaults THEN {payUsed} ELSE {})
    /\ PayGoto(u, "consumed")
    /\ UNCHANGED <<table, outside, payInput, passed, later>>

\* The invoice, when Lightning is enabled and the node makes one; without it a
\* Cashu request has to do.
CashuRequested == "cashu" \in Methods

InvoicedAfter(i) ==
    (IF "lightning" \in Methods THEN {invoice \cup {i}} ELSE {}) \cup
    (IF CashuRequested /\ ("lightning" \in Methods => "node" \in PayFaults) THEN {invoice} ELSE {})

\* The answer 402 tells the client what to pay.
PaymentRequired(u) == PayGoto(u, "refused")

\* CreatePaymentRequest: an invoice, a Cashu request or both, and the row.
CreatePaymentRequest(u) ==
    /\ PayAt(u, "create")
    /\ \/ \E i \in PayRequests :
            /\ payStatus[i] = "none"
            /\ payStatus' = [payStatus EXCEPT ![i] = "pending"]
            /\ price' = [price EXCEPT ![i] = CalculatePrice(paySize[u])]
            /\ invoice' \in InvoicedAfter(i)
            /\ PaymentRequired(u)
            /\ UNCHANGED <<payOverdue, outside, payUsed, payInput, passed, later>>
       \/ Methods = {} /\ PayRefuse(u)
       \/ PayDbError(u) \/ NodeError(u)

------------------------------------------------------------------------------
\* RequestExpiryMins passes.
PayLapse(i) ==
    /\ payStatus[i] # "none" /\ i \notin payOverdue
    /\ payOverdue' = payOverdue \cup {i}
    /\ UNCHANGED <<payStatus, price, invoice, outside, payUsed, payInput, payPc, passed, later>>

\* CleanupExpired: one statement for all that are pending and overdue.
CleanupExpired ==
    /\ "cleanup" \in Called
    /\ \E i \in payOverdue : payStatus[i] = "pending"
    /\ payStatus' = [i \in PayRequests |->
                       IF i \in payOverdue /\ payStatus[i] = "pending" THEN "expired" ELSE payStatus[i]]
    /\ UNCHANGED <<price, invoice, payOverdue, outside, payUsed, payInput, payPc, passed, later>>

\* Somebody pays the invoice, or spends the token elsewhere.
PaySettle(i) ==
    /\ i \in invoice \ settled
    /\ settled' = settled \cup {i}
    /\ UNCHANGED <<table, spent, payUsed, payInput, payPc, passed, later>>

Spend(t) ==
    /\ t \notin spent
    /\ spent' = spent \cup {t}
    /\ UNCHANGED <<table, settled, payUsed, payInput, payPc, passed, later>>

PayNext ==
    \/ \E u \in PayUploads :
         \/ PayStart(u) \/ PayLookUp(u) \/ MarkPaymentExpired(u) \/ ValidateProof(u)
         \/ MarkPaymentPaid(u) \/ CheckFree(u) \/ CreatePaymentRequest(u) \/ ConsumeFreeTier(u)
    \/ \E i \in PayRequests : PayLapse(i) \/ PaySettle(i)
    \/ CleanupExpired
    \/ \E t \in Tokens : Spend(t)

PaySpec == PayInit /\ [][PayNext]_payVars

------------------------------------------------------------------------------
\* The state's types.
PayTypeOK ==
    /\ payStatus \in [PayRequests -> {"none", "pending", "paid", "expired"}]
    /\ price \in [PayRequests -> Nat]
    /\ invoice \subseteq PayRequests /\ payOverdue \subseteq PayRequests /\ settled \subseteq PayRequests
    /\ spent \subseteq Tokens /\ payUsed \in [PayPubkeys -> Nat]
    /\ pubkey \in [PayUploads -> PayPubkeys] /\ paySize \in [PayUploads -> PaySizes]
    /\ method \in [PayUploads -> MethodNames \cup {"none"}]
    /\ token \in [PayUploads -> Tokens] /\ request \in [PayUploads -> PayRequests \cup {PayNoRequest}]
    /\ payPc \in [PayUploads -> PayLabels]
    /\ passed \in [PayUploads -> PayRequests \cup {"no", "free"}]
    /\ later \subseteq PayUploads \X PayRequests

\* A request that has let an upload pass lets no later one pass
\* (core.ErrPaymentAlreadyPaid, "payment already processed"): what only uploads
\* that are validated at the same time can do is share it.  The status alone
\* does not give this, since MarkPaymentExpired may overwrite "paid".
PaidForOnce == \A u \in PayUploads : <<u, passed[u]>> \notin later

PayBytesOf(S) == FoldFunctionOnSet(+, 0, paySize, S)

\* docs/reference.md: "Free tier: Configurable free bytes per pubkey before
\* payment required": no key uploads more than that without paying.
FreeTierHeld ==
    \A k \in PayPubkeys :
        PayBytesOf({u \in PayUploads : passed[u] = "free" /\ pubkey[u] = k}) <= FreeBytesLimit
==============================================================================
