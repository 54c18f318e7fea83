---------------------------- MODULE RequestProofs ----------------------------
(***************************************************************************)
(* Proofs about what lets a request pass and what it is charged: payments, *)
(* rate limits, batches and their accounts; about the pages of a listing,  *)
(* and about the decisions on reports.  For any number of keys, uploads,   *)
(* blobs, reports and decisions, and any limits.                           *)
(***************************************************************************)
EXTENDS Payments, RateLimits, Batch, BlobListing, Moderation, SumTheorems, SequenceTheorems

------------------------------------------------------------------------------
\* PAYMENTS.  A payment lets uploads pass only while it is being validated.

\* What the argument needs of the types.
PayShapes ==
    /\ payStatus \in [PayRequests -> {"none", "pending", "paid", "expired"}]
    /\ payPc \in [PayUploads -> PayLabels]
    /\ passed \in [PayUploads -> PayRequests \cup {"no", "free"}]
    /\ request \in [PayUploads -> PayRequests \cup {PayNoRequest}]
    /\ later \subseteq PayUploads \X PayRequests

\* A request that let an upload pass is paid, or too old to let another pass:
\* MarkPaymentExpired overwrites "paid", but only where the time is over.
SpentStaysSpent ==
    \A u \in PayUploads : passed[u] \in PayRequests =>
        payStatus[passed[u]] = "paid" \/ passed[u] \in payOverdue

\* An upload that marks a request expired has looked up one that is overdue.
ExpiresOverdue == \A u \in PayUploads : PayAt(u, "expire") => request[u] \in payOverdue

\* An upload that is past its validation, or that has a request to validate, has
\* looked up one.
LooksUp == \A u \in PayUploads : payPc[u] \in {"validate", "mark", "expire"} => request[u] \in PayRequests

\* Whoever looks up a request that let another upload pass is refused.
LaterRefused ==
    \A u \in PayUploads, i \in PayRequests :
        <<u, i>> \in later => i = request[u] /\ payPc[u] \in {"expire", "refused"}

\* Only uploads that went through have passed.
PassedOnly == \A u \in PayUploads : payPc[u] \notin {"passed", "consumed"} => passed[u] = "no"

PayInv == PayShapes /\ SpentStaysSpent /\ ExpiresOverdue /\ LooksUp /\ LaterRefused /\ PassedOnly

\* Nothing is paid for at first.
LEMMA PaymentsInit == ASSUME PaymentsAssumption, PayInit PROVE PayInv
BY DEF PaymentsAssumption, PayInit, PayInv, PayShapes, SpentStaysSpent, ExpiresOverdue, LooksUp,
       LaterRefused, PassedOnly, PayAt, PayLabels

\* A step of an upload that changes neither the table nor the history, and goes
\* to a label that promises nothing of its request.
LEMMA PlainMove ==
    ASSUME PaymentsAssumption, PayInv, NEW u \in PayUploads,
           NEW l \in {"lookup", "free", "create", "refused"},
           payPc[u] \notin {"passed", "consumed"}, PayMove(u, l), payPc[u] = "expire" => l = "refused",
           payPc[u] = "refused" => l = "refused"
    PROVE  PayInv'
BY DEF PaymentsAssumption, PayInv, PayShapes, SpentStaysSpent, ExpiresOverdue, LooksUp, LaterRefused,
       PassedOnly, PayAt, PayLabels, PayMove, PayGoto, table, payInput

\* Each step of an upload, of a payment and of the clock keeps the invariant.
LEMMA PaymentsStep == ASSUME PaymentsAssumption, PayInv, [PayNext]_payVars PROVE PayInv'
<1> USE DEF PayInv, PayShapes, SpentStaysSpent, ExpiresOverdue, LooksUp, LaterRefused, PassedOnly, PayAt,
            PayLabels, PayGoto, table, payInput
<1>1. CASE UNCHANGED payVars
  BY <1>1 DEF payVars
<1>2. ASSUME NEW u \in PayUploads, PayStart(u) PROVE PayInv'
  BY <1>2, PlainMove DEF PayStart
<1>3. ASSUME NEW u \in PayUploads, PayLookUp(u) PROVE PayInv'
  <2>1. CASE request[u] \notin Made /\ PayRefuse(u)
    BY <1>3, <2>1, PlainMove DEF PayLookUp, PayRefuse
  <2>2. CASE /\ request[u] \in Made
             /\ later' = later \cup {<<u, request[u]>> : v \in {w \in PayUploads : passed[w] = request[u]}}
             /\ PayGoto(u, IF AlreadyPaid(request[u]) THEN "refused"
                           ELSE IF request[u] \in payOverdue THEN "expire" ELSE "validate")
             /\ UNCHANGED <<table, outside, payUsed, payInput, passed>>
    <3>1. request[u] \in PayRequests
      BY <2>2 DEF Made
    <3>2. \A w \in PayUploads : passed[w] = request[u] =>
              AlreadyPaid(request[u]) \/ request[u] \in payOverdue
      BY <3>1 DEF AlreadyPaid
    <3>3. LaterRefused'
      BY <1>3, <2>2, <3>2 DEF PayLookUp
    <3> QED BY <1>3, <2>2, <3>1, <3>3 DEF PayLookUp
  <2>3. CASE PayDbError(u)
    BY <1>3, <2>3, PlainMove DEF PayLookUp, PayDbError, PayRefuse
  <2> QED BY <1>3, <2>1, <2>2, <2>3 DEF PayLookUp
<1>4. ASSUME NEW u \in PayUploads, MarkPaymentExpired(u) PROVE PayInv'
  <2>1. request[u] \in payOverdue /\ request[u] \in PayRequests
    BY <1>4 DEF MarkPaymentExpired
  <2>2. payStatus' = payStatus \/ payStatus' = [payStatus EXCEPT ![request[u]] = "expired"]
    BY <1>4 DEF MarkPaymentExpired
  <2>3. SpentStaysSpent'
    BY <1>4, <2>1, <2>2 DEF MarkPaymentExpired
  <2> QED BY <1>4, <2>1, <2>2, <2>3 DEF MarkPaymentExpired
<1>5. ASSUME NEW u \in PayUploads, ValidateProof(u) PROVE PayInv'
  <2>1. CASE PayMove(u, "mark")
    BY <1>5, <2>1 DEF ValidateProof, PayMove
  <2> QED BY <1>5, <2>1, PlainMove DEF ValidateProof, NodeError, PayRefuse
\* What it lets pass nobody found passed before: such an upload would have been
\* refused when it looked the request up.
<1>6. ASSUME NEW u \in PayUploads, MarkPaymentPaid(u) PROVE PayInv'
  <2>1. CASE PayDbError(u)
    BY <1>6, <2>1, PlainMove DEF MarkPaymentPaid, PayDbError, PayRefuse
  <2>2. CASE /\ payStatus' = Paid(request[u])
             /\ Pass(u, request[u])
             /\ UNCHANGED <<price, invoice, payOverdue, outside, payUsed, payInput, later>>
    <3>1. request[u] \in PayRequests
      BY <1>6 DEF MarkPaymentPaid
    <3>2. SpentStaysSpent'
      BY <2>2, <3>1 DEF Paid, Pass
    <3> QED BY <1>6, <2>2, <3>1, <3>2 DEF MarkPaymentPaid, Paid, Pass
  <2> QED BY <1>6, <2>1, <2>2 DEF MarkPaymentPaid
<1>7. ASSUME NEW u \in PayUploads, CheckFree(u) PROVE PayInv'
  <2>1. CASE Pass(u, "free") /\ UNCHANGED <<table, outside, payUsed, payInput, later>>
    BY <1>7, <2>1 DEF CheckFree, Pass, PaymentsAssumption
  <2> QED BY <1>7, <2>1, PlainMove DEF CheckFree, PayDbError, PayRefuse
<1>8. ASSUME NEW u \in PayUploads, CreatePaymentRequest(u) PROVE PayInv'
  <2>1. ASSUME NEW i \in PayRequests, payStatus[i] = "none",
               payStatus' = [payStatus EXCEPT ![i] = "pending"], PaymentRequired(u),
               UNCHANGED <<payOverdue, outside, payUsed, payInput, passed, later>>
        PROVE  PayInv'
    BY <1>8, <2>1 DEF CreatePaymentRequest, PaymentRequired
  <2> QED BY <1>8, <2>1, PlainMove DEF CreatePaymentRequest, PayDbError, NodeError, PayRefuse
<1>9. ASSUME NEW u \in PayUploads, ConsumeFreeTier(u) PROVE PayInv'
  BY <1>9 DEF ConsumeFreeTier
<1>10. ASSUME NEW i \in PayRequests, PayLapse(i) \/ PaySettle(i) PROVE PayInv'
  BY <1>10 DEF PayLapse, PaySettle
<1>11. CASE CleanupExpired
  BY <1>11 DEF CleanupExpired
<1>12. ASSUME NEW t \in Tokens, Spend(t) PROVE PayInv'
  BY <1>12 DEF Spend
<1> QED BY <1>1, <1>2, <1>3, <1>4, <1>5, <1>6, <1>7, <1>8, <1>9, <1>10, <1>11, <1>12 DEF PayNext

\* No upload passes with a request that had let another pass before it looked
\* the request up (ValidatePaymentProof), although MarkPaymentExpired may write
\* over the "paid" that refuses it.
THEOREM PaymentOnce == ASSUME PaymentsAssumption PROVE PaySpec => []PaidForOnce
<1>1. PayInit => PayInv
  BY PaymentsInit
<1>2. PayInv /\ [PayNext]_payVars => PayInv'
  BY PaymentsStep
<1>3. PayInv => PaidForOnce
  BY DEF PaymentsAssumption, PayInv, PayShapes, LaterRefused, PassedOnly, PaidForOnce
<1> QED BY <1>1, <1>2, <1>3, PTL DEF PaySpec

\* What the types say beyond PayShapes.
PayRest ==
    /\ price \in [PayRequests -> Nat]
    /\ invoice \subseteq PayRequests
    /\ payOverdue \subseteq PayRequests
    /\ settled \subseteq PayRequests
    /\ spent \subseteq Tokens /\ payUsed \in [PayPubkeys -> Nat]
    /\ pubkey \in [PayUploads -> PayPubkeys] /\ paySize \in [PayUploads -> PaySizes]
    /\ method \in [PayUploads -> MethodNames \cup {"none"}]
    /\ token \in [PayUploads -> Tokens]

\* A price is a number of sats, and never below the minimum.
LEMMA PriceIsNatural ==
    ASSUME PaymentsAssumption, NEW bytes \in Nat
    PROVE  CalculatePrice(bytes) \in Nat /\ CalculatePrice(bytes) >= MinPaymentSats
<1>1. PriceSats \in Nat /\ PriceBytes \in Nat \ {0} /\ MinPaymentSats \in Nat
  BY DEF PaymentsAssumption
<1>2. PICK n \in Nat : n = bytes * PriceSats + PriceBytes - 1
  <2>1. bytes * PriceSats \in Nat
    BY <1>1
  <2> QED BY <1>1, <2>1
<1>3. n \div PriceBytes \in Nat
  BY <1>1
<1> QED BY <1>1, <1>2, <1>3 DEF CalculatePrice

\* No step leaves the types.
LEMMA PayRestStep == ASSUME PaymentsAssumption, PayShapes, PayRest, [PayNext]_payVars PROVE PayRest'
<1> USE DEF PayRest, table, outside, payInput
<1>0. ASSUME UNCHANGED <<price, invoice, payOverdue, outside, payUsed, payInput>> PROVE PayRest'
  BY <1>0
<1>1. CASE UNCHANGED payVars
  BY <1>1 DEF payVars
<1>2. ASSUME NEW u \in PayUploads, NEW l, PayMove(u, l) PROVE PayRest'
  BY <1>2 DEF PayMove
<1>3. ASSUME NEW u \in PayUploads, PayRefuse(u) \/ PayDbError(u) \/ NodeError(u) PROVE PayRest'
  BY <1>2, <1>3 DEF PayRefuse, PayDbError, NodeError
<1>4. ASSUME NEW u \in PayUploads,
             PayStart(u) \/ PayLookUp(u) \/ MarkPaymentExpired(u) \/ ValidateProof(u)
      PROVE  PayRest'
  BY <1>0, <1>2, <1>3, <1>4 DEF PayStart, PayLookUp, MarkPaymentExpired, ValidateProof
<1>5. ASSUME NEW u \in PayUploads, MarkPaymentPaid(u) \/ CheckFree(u) PROVE PayRest'
  BY <1>0, <1>2, <1>3, <1>5 DEF MarkPaymentPaid, CheckFree
<1>6. ASSUME NEW u \in PayUploads, CreatePaymentRequest(u) PROVE PayRest'
  <2>1. paySize[u] \in Nat
    BY DEF PaymentsAssumption
  <2>2. CalculatePrice(paySize[u]) \in Nat
    BY <2>1, PriceIsNatural
  <2>3. ASSUME NEW i \in PayRequests, price' = [price EXCEPT ![i] = CalculatePrice(paySize[u])],
               invoice' \in InvoicedAfter(i), UNCHANGED <<payOverdue, outside, payUsed, payInput>>
        PROVE  PayRest'
    <3>1. price' \in [PayRequests -> Nat]
      BY <2>2, <2>3
    <3>2. invoice' \subseteq PayRequests
      BY <2>3 DEF InvoicedAfter
    <3> QED BY <2>3, <3>1, <3>2
  <2> QED BY <1>3, <1>6, <2>3 DEF CreatePaymentRequest
<1>7. ASSUME NEW u \in PayUploads, ConsumeFreeTier(u) PROVE PayRest'
  <2>1. pubkey[u] \in PayPubkeys /\ paySize[u] \in Nat
    BY DEF PaymentsAssumption
  <2>2. payUsed' \in [PayPubkeys -> Nat]
    BY <1>7, <2>1 DEF ConsumeFreeTier, Consumed
  <2> QED BY <1>7, <2>2 DEF ConsumeFreeTier
<1>8. ASSUME NEW i \in PayRequests, PayLapse(i) \/ PaySettle(i) PROVE PayRest'
  BY <1>8 DEF PayLapse, PaySettle
<1>9. CASE CleanupExpired
  BY <1>0, <1>9 DEF CleanupExpired
<1>10. ASSUME NEW t \in Tokens, Spend(t) PROVE PayRest'
  BY <1>10 DEF Spend
<1> QED BY <1>1, <1>4, <1>5, <1>6, <1>7, <1>8, <1>9, <1>10 DEF PayNext

\* The types of the payments' state; what a request asks for is a number of sats.
THEOREM PaymentTypes == ASSUME PaymentsAssumption PROVE PaySpec => []PayTypeOK
<1>1. PayInit => PayInv /\ PayRest
  BY PaymentsInit DEF PayInit, PayRest
<1>2. (PayInv /\ PayRest) /\ [PayNext]_payVars => (PayInv /\ PayRest)'
  BY PaymentsStep, PayRestStep DEF PayInv
<1>3. PayInv /\ PayRest => PayTypeOK
  BY DEF PayInv, PayShapes, PayRest, PayTypeOK
<1> QED BY <1>1, <1>2, <1>3, PTL DEF PaySpec

------------------------------------------------------------------------------
\* RATE LIMITS.

\* The day's counter is what the day let through, and an upload that began at the
\* limit does not get past the check.
DayCounted ==
    /\ count["day"] \in Int /\ let["day"] \in Int
    /\ "day" \notin forgot =>
         /\ count["day"] = let["day"]
         /\ \A u \in barred : ratePc[u] \notin {"save", "record"} /\ let["day"] >= UploadsPerDay

RateShapes ==
    /\ count \in [Counters -> Int] /\ let \in [Counters -> Int]
    /\ ratePc \in [RateUploads -> RateLabels] /\ charged \in [RateUploads -> Int]
    /\ barred \subseteq RateUploads
    /\ signer \in [RateUploads -> RatePubkeys] /\ rateSize \in [RateUploads -> RateSizes]
    /\ declared \in [RateUploads -> BOOLEAN]

RateInv == RateShapes /\ DayCounted

\* Nothing is counted at first.
LEMMA RateStart == ASSUME RateAssumption, RateInit PROVE RateInv
BY DEF RateAssumption, RateInit, RateInv, RateShapes, DayCounted, Zero, Counters, RateLabels

\* Each step keeps the day's count at what was recorded.
LEMMA RateStep == ASSUME RateAssumption, RateInv, [RateNext]_rateVars PROVE RateInv'
<1> USE DEF RateInv
<1>0. /\ "day" \in Counters
      /\ "day" \notin ByMinute
      /\ "bytes" \in Counters
      /\ UploadsPerDay \in Nat
      /\ \A u \in RateUploads : Piece(u) \in Int /\ signer[u] \in ByMinute
      /\ {"ip", "bytes"} \subseteq ByMinute /\ ByMinute \subseteq Counters
  <2>1. "day" \notin RatePubkeys /\ UploadsPerDay \in Nat /\ RateSizes \subseteq Int
    BY DEF RateAssumption
  <2>2. ASSUME NEW u \in RateUploads PROVE Piece(u) \in Int /\ signer[u] \in ByMinute
    <3>1. rateSize[u] \in RateSizes /\ signer[u] \in RatePubkeys
      BY DEF RateShapes
    <3>2. Piece(u) \in Int
      BY <2>1, <3>1 DEF Piece
    <3> QED BY <3>1, <3>2 DEF ByMinute
  <2> QED BY <2>1, <2>2 DEF Counters, ByMinute
<1>1. CASE UNCHANGED rateVars
  BY <1>1 DEF rateVars, rateInput, rateHistory, RateShapes, DayCounted
\* A step of an upload that counts nothing of the day.
<1>2. ASSUME NEW u \in RateUploads, NEW l \in RateLabels, RateGoto(u, l), UNCHANGED rateInput,
             count' \in [Counters -> Int], let' \in [Counters -> Int],
             count'["day"] = count["day"], let'["day"] = let["day"],
             charged' \in [RateUploads -> Int], barred' \subseteq RateUploads, UNCHANGED forgot,
             barred' = barred \/ (barred' = barred \cup {u} /\ let["day"] >= UploadsPerDay),
             l \notin {"save", "record"} \/ (barred' = barred /\ (ratePc[u] = "save" \/ count["day"] < UploadsPerDay))
      PROVE  RateInv'
  <2>1. /\ ratePc' \in [RateUploads -> RateLabels]
        /\ ratePc'[u] = l
        /\ \A v \in RateUploads \ {u} : ratePc'[v] = ratePc[v]
    BY <1>2 DEF RateGoto, RateShapes
  <2>2. RateShapes'
    BY <1>2, <2>1 DEF RateShapes, rateInput
  <2>3. DayCounted'
    BY <1>0, <1>2, <2>1 DEF DayCounted
  <2> QED BY <2>2, <2>3
<1>3. ASSUME NEW k \in ByMinute, NEW n \in Int
      PROVE  /\ Added(k, n) \in [Counters -> Int] /\ Added(k, n)["day"] = count["day"]
             /\ LetThrough(k, n) \in [Counters -> Int] /\ LetThrough(k, n)["day"] = let["day"]
  BY <1>0, <1>3 DEF Added, LetThrough, RateShapes
<1>4. ASSUME NEW u \in RateUploads, NEW k \in ByMinute, NEW l \in {"key", "bytes"},
             Request(u, k, l),
             barred' = barred \/ (barred' = barred \cup {u} /\ let["day"] >= UploadsPerDay)
      PROVE  RateInv'
  <2>1. /\ count' \in [Counters -> Int] /\ count'["day"] = count["day"]
        /\ let' \in [Counters -> Int] /\ let'["day"] = let["day"]
    BY <1>3, <1>4 DEF Request, RateShapes
  <2>2. /\ UNCHANGED <<rateInput, charged, forgot>>
        /\ \E m \in {"key", "bytes", "refused"} : RateGoto(u, m)
        /\ barred' \subseteq RateUploads
    BY <1>4 DEF Request, RateShapes
  <2> QED BY <1>2, <1>4, <2>1, <2>2 DEF RateLabels, RateShapes
<1>5. ASSUME NEW u \in RateUploads, RateLimitAddress(u) \/ RateLimitKey(u) PROVE RateInv'
  BY <1>0, <1>4, <1>5 DEF RateLimitAddress, RateLimitKey
<1>6. ASSUME NEW u \in RateUploads, AllowBytes(u) PROVE RateInv'
  <2>1. /\ count' \in [Counters -> Int] /\ count'["day"] = count["day"]
        /\ let' \in [Counters -> Int] /\ let'["day"] = let["day"]
    <3>1. /\ Added("bytes", Piece(u)) \in [Counters -> Int]
          /\ Added("bytes", Piece(u))["day"] = count["day"]
          /\ LetThrough("bytes", Piece(u)) \in [Counters -> Int]
          /\ LetThrough("bytes", Piece(u))["day"] = let["day"]
      BY <1>0, <1>3
    <3>2. /\ count' \in {count, Added("bytes", Piece(u))}
          /\ let' \in {let, LetThrough("bytes", Piece(u))}
      BY <1>6 DEF AllowBytes, RateMove, rateHistory
    <3> QED BY <3>1, <3>2 DEF RateShapes
  <2>2. /\ UNCHANGED <<rateInput, forgot, barred>>
        /\ \E m \in {"bytes", "check", "back", "refused"} : RateGoto(u, m)
        /\ charged' \in [RateUploads -> Int]
    BY <1>0, <1>6 DEF AllowBytes, RateCharge, RateMove, rateHistory, RateShapes
  <2> QED BY <1>2, <2>1, <2>2 DEF RateLabels, RateShapes
<1>7. ASSUME NEW u \in RateUploads, HandBack(u) PROVE RateInv'
  <2>1. HandedBack(u) \in Int
    BY <1>0 DEF HandedBack
  <2>2. /\ count' \in [Counters -> Int] /\ count'["day"] = count["day"]
    <3>1. -HandedBack(u) \in Int
      BY <2>1
    <3>2. /\ Added("bytes", -HandedBack(u)) \in [Counters -> Int]
          /\ Added("bytes", -HandedBack(u))["day"] = count["day"]
      BY <1>0, <1>3, <3>1
    <3>3. count' \in {count, Added("bytes", -HandedBack(u))}
      BY <1>7 DEF HandBack
    <3> QED BY <3>2, <3>3 DEF RateShapes
  <2> QED BY <1>2, <1>7, <2>2 DEF HandBack, RateLabels, RateShapes
<1>8. ASSUME NEW u \in RateUploads, CheckUpload(u) PROVE RateInv'
  <2>1. CASE RateMove(u, IF count["day"] < UploadsPerDay THEN "save" ELSE "refused")
    BY <1>2, <2>1 DEF RateMove, rateHistory, RateLabels, RateShapes
  <2>2. CASE forgot' = forgot \cup {"day"} /\ RateGoto(u, "save")
             /\ UNCHANGED <<count, rateInput, charged, stale, let, stuck, barred>>
    BY <2>2 DEF RateShapes, DayCounted, RateGoto, RateLabels, rateInput
  <2> QED BY <1>8, <2>1, <2>2 DEF CheckUpload
<1>9. ASSUME NEW u \in RateUploads, RateSave(u) PROVE RateInv'
  BY <1>2, <1>9 DEF RateSave, RateAt, RateMove, rateHistory, RateLabels, RateShapes
<1>10. ASSUME NEW u \in RateUploads, RecordUpload(u) PROVE RateInv'
  <2>1. /\ UNCHANGED <<rateInput, charged, barred>> /\ RateGoto(u, "done")
        /\ let' = LetThrough("day", 1) /\ count' \in {count, Added("day", 1)}
        /\ "day" \notin forgot' => forgot' = forgot /\ count' = Added("day", 1)
    BY <1>10 DEF RecordUpload, Recorded
  <2>2. /\ ratePc' \in [RateUploads -> RateLabels] /\ ratePc'[u] = "done"
        /\ \A v \in RateUploads \ {u} : ratePc'[v] = ratePc[v]
    BY <2>1 DEF RateGoto, RateShapes, RateLabels
  <2>3. /\ let' \in [Counters -> Int] /\ let'["day"] = let["day"] + 1
        /\ Added("day", 1) \in [Counters -> Int] /\ Added("day", 1)["day"] = count["day"] + 1
    BY <1>0, <2>1 DEF LetThrough, Added, RateShapes
  <2>4. RateShapes'
    BY <2>1, <2>2, <2>3 DEF RateShapes, rateInput
  <2>5. DayCounted'
    BY <1>0, <2>1, <2>2, <2>3, <2>4 DEF DayCounted, RateShapes
  <2> QED BY <2>4, <2>5
<1>11. ASSUME NEW K \in SUBSET Counters, NEW f \in [Counters -> Int]
       PROVE  Without(f, K) \in [Counters -> Int] /\ ("day" \notin K => Without(f, K)["day"] = f["day"])
              /\ ("day" \in K => Without(f, K)["day"] = 0)
  BY <1>0 DEF Without
<1>12. CASE NextMinute
  <2>1. /\ count' \in [Counters -> Int] /\ count'["day"] = count["day"]
        /\ let' \in [Counters -> Int] /\ let'["day"] = let["day"]
    BY <1>0, <1>11, <1>12 DEF NextMinute, RateShapes
  <2>2. ("day" \in forgot' <=> "day" \in forgot) /\ UNCHANGED <<rateInput, ratePc, charged, barred>>
    BY <1>0, <1>12 DEF NextMinute
  <2> QED BY <2>1, <2>2 DEF RateShapes, DayCounted, rateInput
<1>13. CASE NextDay
  <2>1. /\ count' \in [Counters -> Int] /\ count'["day"] = 0
        /\ let' \in [Counters -> Int] /\ let'["day"] = 0
    BY <1>0, <1>11, <1>13 DEF NextDay, RateShapes
  <2> QED BY <1>13, <2>1 DEF NextDay, RateShapes, DayCounted, rateInput
<1>14. ASSUME NEW K \in SUBSET Counters, Drop(K) PROVE RateInv'
  <2>1. /\ count' \in [Counters -> Int] /\ ("day" \notin K => count'["day"] = count["day"])
        /\ ("day" \in K => "day" \in forgot')
        /\ ("day" \notin K /\ "day" \notin forgot' => "day" \notin forgot)
    BY <1>11, <1>14 DEF Drop, RateShapes
  <2> QED BY <1>0, <1>14, <2>1 DEF Drop, RateShapes, DayCounted, rateInput
<1> QED BY <1>0, <1>1, <1>5, <1>6, <1>7, <1>8, <1>9, <1>10, <1>12, <1>13, <1>14
        DEF RateNext, RateHandle, RateCleanup, RateEvict

\* An upload that begins when the day's uploads have been recorded up to the limit
\* is not stored that day (CheckUpload, RecordUpload), however many there are.
THEOREM DailyLimitKept == ASSUME RateAssumption PROVE RateSpec => []DailyLimitSeen
<1>1. RateInit => RateInv
  BY RateStart
<1>2. RateInv /\ [RateNext]_rateVars => RateInv'
  BY RateStep
<1>3. RateInv => DailyLimitSeen
  BY DEF RateInv, DayCounted, DailyLimitSeen, RateAt
<1> QED BY <1>1, <1>2, <1>3, PTL DEF RateSpec

------------------------------------------------------------------------------
\* The refused bytes that a call is about to hand back to the window they were
\* charged in, byte by byte.
Owing == {u \in RateUploads : RateAt(u, "back") /\ u \notin stale}
PieceOf(u) == {u} \X (1..Piece(u))
Owed == {c \in RateUploads \X Nat : c[1] \in Owing /\ c[2] \in 1..Piece(c[1])}

\* The address's counter is what it was let through, what the cache failed to
\* take back, and what is still to be handed back.
BytesCounted ==
    /\ stuck \in Int
    /\ \A u \in stale : u \in RateUploads /\ ratePc[u] \in {"back", "refused"}
    /\ IsFiniteSet(Owed) /\ Cardinality(Owed) \in Nat
    /\ "bytes" \notin forgot => count["bytes"] = let["bytes"] + stuck + Cardinality(Owed)

BytesInv == RateShapes /\ BytesCounted

\* Nothing is charged at first.
LEMMA BytesStart == ASSUME RateAssumption, RateInit PROVE BytesInv
<1>1. RateShapes
  BY RateStart DEF RateInv
<1>2. Owed = {}
  BY DEF Owed, Owing, RateAt, RateInit
<1>3. count["bytes"] = 0 /\ let["bytes"] = 0 /\ stuck = 0 /\ stale = {}
  BY DEF RateInit, Zero, Counters, ByMinute
<1> QED BY <1>1, <1>2, <1>3, FS_EmptySet DEF BytesInv, BytesCounted

\* The bytes of one refusal, counted.
LEMMA PieceCounted ==
    ASSUME RateAssumption, RateShapes, NEW u \in RateUploads
    PROVE  /\ Piece(u) \in Nat
           /\ IsFiniteSet(PieceOf(u)) /\ Cardinality(PieceOf(u)) = Piece(u)
<1>1. Piece(u) \in Nat
  <2>1. rateSize[u] \in Nat
    BY DEF RateShapes, RateAssumption
  <2> QED BY <2>1 DEF Piece
<1>2. IsFiniteSet(1..Piece(u)) /\ Cardinality(1..Piece(u)) = Piece(u)
  BY <1>1, FS_Interval
<1>3. IsFiniteSet({u}) /\ Cardinality({u}) = 1
  BY FS_Singleton
<1>4. IsFiniteSet(PieceOf(u)) /\ Cardinality(PieceOf(u)) = 1 * Piece(u)
  BY <1>2, <1>3, FS_Product DEF PieceOf
<1> QED BY <1>1, <1>4

\* A refusal owes its bytes; handing them back ends that.
LEMMA OwedChange ==
    ASSUME RateAssumption, BytesInv, NEW u \in RateUploads, NEW l \in RateLabels, RateGoto(u, l),
           UNCHANGED <<rateInput, stale>>, u \notin stale
    PROVE  /\ l = "back" /\ ~RateAt(u, "back") =>
                IsFiniteSet(Owed') /\ Cardinality(Owed') = Cardinality(Owed) + Piece(u)
           /\ l # "back" /\ RateAt(u, "back") =>
                IsFiniteSet(Owed') /\ Cardinality(Owed') = Cardinality(Owed) - Piece(u)
           /\ l # "back" /\ ~RateAt(u, "back") => Owed' = Owed
<1>1. /\ ratePc'[u] = l /\ \A v \in RateUploads \ {u} : ratePc'[v] = ratePc[v]
      /\ \A v \in RateUploads : Piece(v)' = Piece(v)
      /\ IsFiniteSet(Owed) /\ Cardinality(Owed) \in Nat
  BY DEF RateGoto, BytesInv, BytesCounted, RateShapes, Piece, rateInput
<1>2. /\ Piece(u) \in Nat
      /\ IsFiniteSet(PieceOf(u)) /\ Cardinality(PieceOf(u)) = Piece(u)
  BY PieceCounted DEF BytesInv
<1>3. ASSUME l = "back", ~RateAt(u, "back")
      PROVE  IsFiniteSet(Owed') /\ Cardinality(Owed') = Cardinality(Owed) + Piece(u)
  <2>1. Owing' = Owing \cup {u} /\ u \notin Owing
    BY <1>1, <1>3 DEF Owing, RateAt
  <2>2. Owed' = Owed \cup PieceOf(u)
    BY <1>1, <1>2, <2>1 DEF Owed, PieceOf
  <2>3. Owed \cap PieceOf(u) = {}
    BY <2>1 DEF Owed, PieceOf
  <2>4. /\ IsFiniteSet(Owed \cup PieceOf(u))
        /\ Cardinality(Owed \cup PieceOf(u)) = Cardinality(Owed) + Cardinality(PieceOf(u)) - Cardinality({})
    BY <1>1, <1>2, <2>3, FS_Union
  <2>5. Cardinality({}) = 0
    BY FS_EmptySet
  <2> QED BY <1>1, <1>2, <2>2, <2>4, <2>5
<1>4. ASSUME l # "back", RateAt(u, "back")
      PROVE  IsFiniteSet(Owed') /\ Cardinality(Owed') = Cardinality(Owed) - Piece(u)
  <2>1. Owing' = Owing \ {u} /\ u \in Owing
    BY <1>1, <1>4 DEF Owing, RateAt
  <2>2. Owed' = Owed \ PieceOf(u)
    BY <1>1, <1>2, <2>1 DEF Owed, PieceOf
  <2>3. Owed \cap PieceOf(u) = PieceOf(u)
    BY <1>2, <2>1 DEF Owed, PieceOf
  <2>4. /\ IsFiniteSet(Owed \ PieceOf(u))
        /\ Cardinality(Owed \ PieceOf(u)) = Cardinality(Owed) - Cardinality(PieceOf(u))
    BY <1>1, <2>3, FS_Difference
  <2> QED BY <1>1, <1>2, <2>2, <2>4
<1>5. ASSUME l # "back", ~RateAt(u, "back") PROVE Owed' = Owed
  <2>1. Owing' = Owing
    BY <1>1, <1>5 DEF Owing, RateAt
  <2> QED BY <1>1, <2>1 DEF Owed
<1> QED BY <1>3, <1>4, <1>5

\* Each charge, refusal and return, and the end of a window, keeps the books.
LEMMA BytesStep == ASSUME RateAssumption, RateInv, BytesInv, [RateNext]_rateVars PROVE BytesInv'
<1>0. /\ RateShapes' /\ "bytes" \in Counters /\ "bytes" \in ByMinute
      /\ count["bytes"] \in Int /\ let["bytes"] \in Int /\ stuck \in Int
      /\ Cardinality(Owed) \in Nat
      /\ \A u \in RateUploads : Piece(u) \in Nat
  BY RateStep, PieceCounted DEF RateInv, BytesInv, BytesCounted, RateShapes, Counters, ByMinute
<1>1. CASE UNCHANGED rateVars
  <2>1. Owed' = Owed
    BY <1>1 DEF rateVars, Owed, Owing, RateAt, Piece
  <2> QED BY <1>0, <1>1, <2>1 DEF rateVars, BytesInv, BytesCounted
\* A step of an upload that owes nothing before or after it.
<1>2. ASSUME NEW u \in RateUploads, NEW l \in RateLabels \ {"back"}, RateGoto(u, l),
             ratePc[u] \notin {"back", "refused"},
             UNCHANGED <<rateInput, stale, stuck>>,
             "bytes" \notin forgot' =>
                /\ "bytes" \notin forgot
                /\ count'["bytes"] - count["bytes"] = let'["bytes"] - let["bytes"]
      PROVE  BytesInv'
  <2>1. u \notin stale
    BY <1>2 DEF BytesInv, BytesCounted
  <2>2. Owed' = Owed
    BY <1>2, <2>1, OwedChange DEF RateAt
  <2>3. \A v \in stale' : v \in RateUploads /\ ratePc'[v] \in {"back", "refused"}
    BY <1>2, <2>1 DEF BytesInv, BytesCounted, RateGoto, RateShapes
  <2>4. count'["bytes"] \in Int /\ let'["bytes"] \in Int
    BY <1>0 DEF RateShapes
  <2> QED BY <1>0, <1>2, <2>2, <2>3, <2>4 DEF BytesInv, BytesCounted
<1>3. ASSUME NEW k \in Counters \ {"bytes"}, NEW n \in Int
      PROVE  Added(k, n)["bytes"] = count["bytes"] /\ LetThrough(k, n)["bytes"] = let["bytes"]
  BY <1>0, <1>3 DEF Added, LetThrough, BytesInv, RateShapes
<1>4. ASSUME NEW n \in Int
      PROVE  /\ Added("bytes", n)["bytes"] = count["bytes"] + n
             /\ LetThrough("bytes", n)["bytes"] = let["bytes"] + n
  BY <1>0, <1>4 DEF Added, LetThrough, BytesInv, RateShapes
<1>5. ASSUME NEW u \in RateUploads, RateLimitAddress(u) \/ RateLimitKey(u) PROVE BytesInv'
  <2>1. PICK k \in Counters \ {"bytes"}, l \in {"key", "bytes"} : Request(u, k, l)
    BY <1>5 DEF RateLimitAddress, RateLimitKey, Counters, ByMinute, RateAssumption, BytesInv, RateShapes
  <2>2. ratePc[u] \in {"idle", "key"}
    BY <1>5 DEF RateLimitAddress, RateLimitKey, RateAt
  <2>3. /\ UNCHANGED <<rateInput, stale, stuck, forgot>>
        /\ count'["bytes"] = count["bytes"] /\ let'["bytes"] = let["bytes"]
        /\ RateGoto(u, l) \/ RateGoto(u, "refused")
    BY <1>3, <2>1 DEF Request
  <2> QED BY <1>0, <1>2, <2>2, <2>3 DEF RateLabels
<1>6. ASSUME NEW u \in RateUploads, AllowBytes(u) PROVE BytesInv'
  <2>0. ratePc[u] = "bytes" /\ u \notin stale
    BY <1>6 DEF AllowBytes, RateAt, BytesInv, BytesCounted
  <2>1. CASE /\ RateGoto(u, "back")
             /\ count' = Added("bytes", Piece(u))
             /\ UNCHANGED <<rateInput, stale, rateHistory>>
    <3>1. IsFiniteSet(Owed') /\ Cardinality(Owed') = Cardinality(Owed) + Piece(u)
      BY <2>0, <2>1, OwedChange DEF RateAt, RateLabels
    <3>2. count'["bytes"] = count["bytes"] + Piece(u) /\ let'["bytes"] = let["bytes"]
      BY <1>0, <1>4, <2>1 DEF rateHistory
    <3>3. \A v \in stale' : v \in RateUploads /\ ratePc'[v] \in {"back", "refused"}
      BY <2>0, <2>1 DEF BytesInv, BytesCounted, RateGoto, RateShapes
    <3>4. stuck' = stuck /\ forgot' = forgot
      BY <2>1 DEF rateHistory
    <3> QED BY <1>0, <3>1, <3>2, <3>3, <3>4 DEF BytesInv, BytesCounted
  <2>2. CASE /\ \E l \in {"check", "bytes", "refused"} : RateGoto(u, l)
             /\ UNCHANGED <<rateInput, stale, stuck, forgot>>
             /\ \/ UNCHANGED <<count, let>>
                \/ count' = Added("bytes", Piece(u)) /\ let' = LetThrough("bytes", Piece(u))
    <3>1. count'["bytes"] - count["bytes"] = let'["bytes"] - let["bytes"]
      BY <1>0, <1>4, <2>2
    <3> QED BY <1>2, <2>0, <2>2, <3>1 DEF RateLabels
  <2> QED BY <1>6, <2>1, <2>2 DEF AllowBytes, RateCharge, RateMove, rateHistory
<1>7. ASSUME NEW u \in RateUploads, HandBack(u) PROVE BytesInv'
  <2>1. /\ ratePc[u] = "back"
        /\ RateGoto(u, "refused")
        /\ UNCHANGED <<rateInput, stale, let, forgot>>
        /\ HandedBack(u) \in Int
        /\ \/ count' = Added("bytes", -HandedBack(u)) /\ UNCHANGED stuck
           \/ stuck' = stuck + HandedBack(u) /\ UNCHANGED count
    BY <1>0, <1>7 DEF HandBack, HandedBack, RateAt
  <2>2. /\ stuck' \in Int
        /\ count'["bytes"] - stuck' = count["bytes"] - stuck - HandedBack(u)
        /\ count'["bytes"] \in Int /\ let'["bytes"] = let["bytes"]
    <3>1. -HandedBack(u) \in Int
      BY <2>1
    <3>2. Added("bytes", -HandedBack(u))["bytes"] = count["bytes"] + (-HandedBack(u))
      BY <1>4, <3>1
    <3> QED BY <1>0, <2>1, <3>2
  <2>3. /\ IsFiniteSet(Owed') /\ Cardinality(Owed') = Cardinality(Owed) - HandedBack(u)
    <3>1. CASE u \in stale
      <4>1. Owing' = Owing
        BY <2>1, <3>1 DEF Owing, RateAt, RateGoto, BytesInv, RateShapes
      <4>2. Owed' = Owed
        BY <2>1, <4>1 DEF Owed, Piece, rateInput
      <4> QED BY <1>0, <3>1, <4>2 DEF HandedBack, BytesInv, BytesCounted
    <3>2. CASE u \notin stale
      BY <2>1, <3>2, OwedChange DEF HandedBack, RateAt, RateLabels
    <3> QED BY <3>1, <3>2
  <2>4. \A v \in stale' : v \in RateUploads /\ ratePc'[v] \in {"back", "refused"}
    BY <2>1 DEF BytesInv, BytesCounted, RateGoto, RateShapes
  <2>5. Cardinality(Owed') \in Nat
    BY <2>3, FS_CardinalityType
  <2>6. "bytes" \notin forgot' => count'["bytes"] = let'["bytes"] + stuck' + Cardinality(Owed')
    <3>1. "bytes" \notin forgot => count["bytes"] = let["bytes"] + stuck + Cardinality(Owed)
      BY DEF BytesInv, BytesCounted
    <3>2. "bytes" \notin forgot' => "bytes" \notin forgot
      BY <2>1
    <3> QED BY <1>0, <2>1, <2>2, <2>3, <2>5, <3>1, <3>2
  <2> QED BY <1>0, <2>2, <2>3, <2>4, <2>5, <2>6 DEF BytesInv, BytesCounted
<1>8. ASSUME NEW u \in RateUploads, CheckUpload(u) \/ RateSave(u) \/ RecordUpload(u) PROVE BytesInv'
  <2>1. ratePc[u] \in {"check", "save", "record"}
    BY <1>8 DEF CheckUpload, RateSave, RecordUpload, RateAt
  <2>2. /\ UNCHANGED <<rateInput, stale, stuck>> /\ forgot \subseteq forgot'
        /\ \E l \in {"save", "refused", "record", "done"} : RateGoto(u, l)
        /\ count' \in {count, Added("day", 1)} /\ let' \in {let, LetThrough("day", 1)}
    BY <1>8 DEF CheckUpload, RateSave, RecordUpload, Recorded, RateMove, rateHistory
  <2>3. count'["bytes"] = count["bytes"] /\ let'["bytes"] = let["bytes"]
    BY <1>3, <2>2 DEF Counters
  <2> QED BY <1>0, <1>2, <2>1, <2>2, <2>3 DEF RateLabels
<1>9. CASE NextMinute
  <2>1. Owing' = {}
    BY <1>9 DEF NextMinute, Owing, RateAt
  <2>2. Owed' = {}
    BY <2>1 DEF Owed
  <2>3. count'["bytes"] = 0 /\ let'["bytes"] = 0 /\ stuck' = 0
    BY <1>0, <1>9 DEF NextMinute, Without
  <2>4. \A v \in stale' : v \in RateUploads /\ ratePc'[v] \in {"back", "refused"}
    BY <1>9 DEF NextMinute, BytesInv, BytesCounted, RateAt
  <2> QED BY <1>0, <2>2, <2>3, <2>4, FS_EmptySet DEF BytesInv, BytesCounted
<1>10. ASSUME UNCHANGED <<rateInput, ratePc, stale, stuck>>,
              "bytes" \notin forgot' =>
                 /\ "bytes" \notin forgot
                 /\ count'["bytes"] = count["bytes"]
                 /\ let'["bytes"] = let["bytes"]
       PROVE  BytesInv'
  <2>1. Owed' = Owed
    BY <1>10 DEF Owed, Owing, RateAt, Piece, rateInput
  <2> QED BY <1>0, <1>10, <2>1 DEF BytesInv, BytesCounted
<1>11. CASE NextDay
  BY <1>0, <1>10, <1>11 DEF NextDay, Without
<1>12. ASSUME NEW K \in SUBSET Counters, Drop(K) PROVE BytesInv'
  BY <1>0, <1>10, <1>12 DEF Drop, Without
<1> QED BY <1>0, <1>1, <1>5, <1>6, <1>7, <1>8, <1>9, <1>11, <1>12
        DEF RateNext, RateHandle, RateCleanup, RateEvict, Counters

\* Once refused bytes are handed back, an address is charged in its window for
\* what it was let through and for what the cache failed to take back, in
\* whatever order uploads are refused and windows end (AllowBytes, HandBack).
THEOREM RefusedBytesHandedBack == ASSUME RateAssumption PROVE RateSpec => []RefusedBytesReturned
<1>1. RateInit => RateInv /\ BytesInv
  BY RateStart, BytesStart
<1>2. (RateInv /\ BytesInv) /\ [RateNext]_rateVars => (RateInv /\ BytesInv)'
  BY RateStep, BytesStep
<1>3. BytesInv => RefusedBytesReturned
  <2>1. ASSUME BytesInv, "bytes" \notin forgot, \A u \in RateUploads : ~RateAt(u, "back")
        PROVE  count["bytes"] = let["bytes"] + stuck
    <3>1. Owed = {}
      BY <2>1 DEF Owed, Owing
    <3>2. let["bytes"] \in Int /\ stuck \in Int
      BY <2>1 DEF BytesInv, BytesCounted, RateShapes, Counters, ByMinute
    <3> QED BY <2>1, <3>1, <3>2, FS_EmptySet DEF BytesInv, BytesCounted
  <2> QED BY <2>1 DEF RefusedBytesReturned
<1> QED BY <1>1, <1>2, <1>3, PTL DEF RateSpec

------------------------------------------------------------------------------
\* What a counter of the minute let through is within its limit and has been
\* counted; of the bytes the counter is what BytesCounted says.
Within(k) == let[k] <= LimitOf(k) /\ (k # "bytes" => let[k] <= count[k])

LimitsInv == RateTypeOK /\ \A k \in ByMinute \ forgot : Within(k)

\* Nothing is let through at first.
LEMMA LimitsStart == ASSUME RateAssumption, RateInit PROVE LimitsInv
<1>1. \A k \in Counters : LimitOf(k) \in Nat
  BY DEF RateAssumption, LimitOf
<1>2. RateTypeOK
  BY DEF RateInit, RateTypeOK, Zero, RateLabels
<1>3. \A k \in ByMinute : count[k] = 0 /\ let[k] = 0
  BY DEF RateInit, Zero, Counters
<1> QED BY <1>1, <1>2, <1>3 DEF LimitsInv, Within, Counters

\* Each step keeps the counts of what it lets through, and lets nothing through
\* beyond a limit.
LEMMA LimitsStep ==
    ASSUME RateAssumption, RateInv, RateInv', BytesInv, LimitsInv, [RateNext]_rateVars
    PROVE  LimitsInv'
<1>0. /\ ByMinute \subseteq Counters /\ {"bytes", "day", "ip"} \subseteq Counters
      /\ "day" \notin ByMinute /\ "bytes" \in ByMinute
      /\ \A k \in Counters : LimitOf(k) \in Nat
      /\ \A u \in RateUploads : Piece(u) \in Nat /\ signer[u] \in ByMinute /\ signer[u] # "bytes"
  <2>1. /\ "day" \notin RatePubkeys /\ "bytes" \notin RatePubkeys /\ RateSizes \subseteq Nat
        /\ {RequestLimit, KeyLimit, ByteLimit, UploadsPerDay} \subseteq Nat
    BY DEF RateAssumption
  <2>2. \A u \in RateUploads : Piece(u) \in Nat /\ signer[u] \in RatePubkeys
    BY <2>1 DEF RateInv, RateShapes, Piece
  <2> QED BY <2>1, <2>2 DEF ByMinute, Counters, LimitOf
<1>1. /\ count \in [Counters -> Int] /\ let \in [Counters -> Nat] /\ stuck \in Nat
      /\ forgot \subseteq Counters
      /\ charged \in [RateUploads -> Nat]
      /\ stale \subseteq RateUploads
      /\ \A k \in ByMinute \ forgot : Within(k)
  BY DEF LimitsInv, RateTypeOK
<1>2. /\ ratePc' \in [RateUploads -> RateLabels] /\ barred' \subseteq RateUploads
      /\ count' \in [Counters -> Int]
  BY DEF RateInv, RateShapes
\* A counter that counts n more and lets m of them through.
<1>3. ASSUME NEW k \in Counters, NEW n \in Int, NEW m \in Nat,
             k \in ByMinute \ forgot => LetThrough(k, m)[k] <= LimitOf(k) /\ (k = "bytes" \/ m <= n),
             count' = Added(k, n), let' = LetThrough(k, m), UNCHANGED forgot
      PROVE  let' \in [Counters -> Nat] /\ \A j \in ByMinute \ forgot' : Within(j)'
  <2>1. /\ \A j \in Counters : /\ count'[j] = IF j = k THEN count[j] + n ELSE count[j]
                               /\ let'[j] = IF j = k THEN let[j] + m ELSE let[j]
        /\ \A j \in Counters : count[j] \in Int /\ let[j] \in Nat
        /\ let' \in [Counters -> Nat]
    BY <1>1, <1>3 DEF Added, LetThrough
  <2>2. ASSUME NEW j \in ByMinute \ forgot PROVE Within(j)'
    <3>1. j \in Counters /\ Within(j) /\ LimitOf(j) \in Nat /\ LimitOf(j)' = LimitOf(j)
      BY <1>0, <1>1, <2>2 DEF LimitOf
    <3>2. CASE j # k
      BY <2>1, <3>1, <3>2 DEF Within
    <3>3. CASE j = k
      BY <1>3, <2>1, <2>2, <3>1, <3>3 DEF Within
    <3> QED BY <3>2, <3>3
  <2> QED BY <1>3, <2>1, <2>2
\* A step that lets nothing through and counts no less.
<1>5. ASSUME NEW k \in Counters, NEW n \in Int, k \in ByMinute => k = "bytes" \/ n >= 0,
             count' = Added(k, n), let' = let, forgot \subseteq forgot', forgot' \subseteq Counters
      PROVE  let' \in [Counters -> Nat] /\ \A j \in ByMinute \ forgot' : Within(j)'
  <2>1. /\ \A j \in Counters : count'[j] = IF j = k THEN count[j] + n ELSE count[j]
        /\ \A j \in Counters : count[j] \in Int /\ let[j] \in Nat
    BY <1>1, <1>5 DEF Added
  <2>2. ASSUME NEW j \in ByMinute \ forgot' PROVE Within(j)'
    <3>1. j \in Counters /\ Within(j) /\ LimitOf(j)' = LimitOf(j)
      BY <1>0, <1>1, <1>5, <2>2 DEF LimitOf
    <3>2. j # "bytes" => let[j] <= count'[j]
      BY <1>5, <2>1, <2>2, <3>1 DEF Within
    <3> QED BY <1>5, <3>1, <3>2 DEF Within
  <2> QED BY <1>1, <1>5, <2>2
<1>6. ASSUME UNCHANGED <<count, let>>, forgot \subseteq forgot', forgot' \subseteq Counters
      PROVE  let' \in [Counters -> Nat] /\ \A j \in ByMinute \ forgot' : Within(j)'
  <2>1. ASSUME NEW j \in ByMinute \ forgot' PROVE Within(j)'
    <3>1. Within(j) /\ LimitOf(j)' = LimitOf(j)
      BY <1>1, <1>6, <2>1 DEF LimitOf
    <3> QED BY <1>6, <3>1 DEF Within
  <2> QED BY <1>1, <1>6, <2>1
<1>7. ASSUME let' \in [Counters -> Nat] /\ \A j \in ByMinute \ forgot' : Within(j)',
             stuck' \in Nat, forgot' \subseteq Counters, charged' \in [RateUploads -> Nat],
             stale' \subseteq RateUploads
      PROVE  LimitsInv'
  BY <1>2, <1>7 DEF LimitsInv, RateTypeOK
<1>8. CASE UNCHANGED rateVars
  BY <1>1, <1>6, <1>7, <1>8 DEF rateVars, rateHistory
<1>9. ASSUME NEW u \in RateUploads, NEW k \in ByMinute, k # "bytes", NEW l, Request(u, k, l)
      PROVE  LimitsInv'
  <2>1. UNCHANGED <<charged, stale, stuck, forgot>>
    BY <1>9 DEF Request
  <2>2. CASE Fits(k, 1) /\ count' = Added(k, 1) /\ let' = LetThrough(k, 1)
    <3>1. k \notin forgot => LetThrough(k, 1)[k] <= LimitOf(k)
      BY <1>0, <1>1, <1>9, <2>2 DEF Fits, LetThrough, Within
    <3> QED BY <1>0, <1>1, <1>3, <1>7, <1>9, <2>1, <2>2, <3>1
  <2>3. CASE let' = let /\ count' = Added(k, 1)
    BY <1>0, <1>1, <1>5, <1>7, <1>9, <2>1, <2>3
  <2>4. CASE UNCHANGED <<count, let>>
    BY <1>1, <1>6, <1>7, <2>1, <2>4
  <2> QED BY <1>9, <2>2, <2>3, <2>4 DEF Request
<1>10. ASSUME NEW u \in RateUploads, RateLimitAddress(u) \/ RateLimitKey(u) PROVE LimitsInv'
  <2>1. "ip" \in ByMinute
    BY DEF ByMinute
  <2> QED BY <1>0, <1>9, <1>10, <2>1 DEF RateLimitAddress, RateLimitKey
<1>11. ASSUME NEW u \in RateUploads, AllowBytes(u) PROVE LimitsInv'
  <2>1. UNCHANGED <<stale, stuck, forgot>> /\ Piece(u) \in Nat
    BY <1>0, <1>11 DEF AllowBytes, RateMove, rateHistory
  <2>2. charged' \in [RateUploads -> Nat]
    BY <1>1, <1>11, <2>1 DEF AllowBytes, RateMove, RateCharge
  <2>3. CASE Fits("bytes", Piece(u)) /\ count' = Added("bytes", Piece(u))
             /\ let' = LetThrough("bytes", Piece(u))
    <3>1. ASSUME "bytes" \notin forgot PROVE LetThrough("bytes", Piece(u))["bytes"] <= LimitOf("bytes")
      <4>1. PICK n \in Nat : n = Cardinality(Owed)
        BY DEF BytesInv, BytesCounted
      <4>2. count["bytes"] = let["bytes"] + stuck + n
        BY <3>1, <4>1 DEF BytesInv, BytesCounted
      <4>3. let["bytes"] \in Nat /\ LimitOf("bytes") \in Nat
            /\ LetThrough("bytes", Piece(u))["bytes"] = let["bytes"] + Piece(u)
        BY <1>0, <1>1 DEF LetThrough
      <4>4. count["bytes"] + Piece(u) <= LimitOf("bytes")
        BY <2>3 DEF Fits
      <4> QED BY <1>1, <2>1, <4>2, <4>3, <4>4
    <3> QED BY <1>0, <1>1, <1>3, <1>7, <2>1, <2>2, <2>3, <3>1
  <2>4. CASE let' = let /\ count' = Added("bytes", Piece(u))
    BY <1>0, <1>1, <1>5, <1>7, <2>1, <2>2, <2>4
  <2>5. CASE UNCHANGED <<count, let>>
    BY <1>1, <1>6, <1>7, <2>1, <2>2, <2>5
  <2> QED BY <1>11, <2>3, <2>4, <2>5 DEF AllowBytes, RateMove, rateHistory
<1>12. ASSUME NEW u \in RateUploads, HandBack(u) PROVE LimitsInv'
  <2>1. HandedBack(u) \in Nat
    BY <1>0 DEF HandedBack
  <2>2. stuck' \in Nat /\ UNCHANGED <<charged, stale, let, forgot>>
    BY <1>1, <1>12, <2>1 DEF HandBack
  <2>3. CASE count' = Added("bytes", -HandedBack(u))
    <3>1. -HandedBack(u) \in Int
      BY <2>1
    <3> QED BY <1>0, <1>1, <1>5, <1>7, <2>2, <2>3, <3>1
  <2>4. CASE UNCHANGED count
    BY <1>1, <1>6, <1>7, <2>2, <2>4
  <2> QED BY <1>12, <2>3, <2>4 DEF HandBack
<1>13. ASSUME NEW u \in RateUploads, CheckUpload(u) \/ RateSave(u) PROVE LimitsInv'
  <2>1. UNCHANGED <<count, let, stuck, charged, stale>> /\ forgot' \in {forgot, forgot \cup {"day"}}
    BY <1>13 DEF CheckUpload, RateSave, RateMove, rateHistory
  <2> QED BY <1>0, <1>1, <1>6, <1>7, <2>1
<1>14. ASSUME NEW u \in RateUploads, RecordUpload(u) PROVE LimitsInv'
  <2>1. UNCHANGED <<charged, stale, stuck>> /\ let' = LetThrough("day", 1)
        /\ forgot' \in {forgot, forgot \cup {"day"}}
        /\ (count' = Added("day", 1) \/ UNCHANGED count)
    BY <1>14 DEF RecordUpload, Recorded
  <2>2. /\ let' \in [Counters -> Nat]
        /\ \A j \in ByMinute : count'[j] = count[j] /\ let'[j] = let[j]
    BY <1>0, <1>1, <2>1 DEF Added, LetThrough
  <2>3. ASSUME NEW j \in ByMinute \ forgot' PROVE Within(j)'
    <3>1. Within(j) /\ LimitOf(j)' = LimitOf(j)
      BY <1>1, <2>1, <2>3 DEF LimitOf
    <3> QED BY <2>2, <2>3, <3>1 DEF Within
  <2> QED BY <1>0, <1>1, <1>7, <2>1, <2>2, <2>3
\* A window that begins has let nothing through, and one whose counter is dropped
\* does not count.
<1>15. ASSUME NEW K \in SUBSET Counters, let' \in {let, Without(let, K)},
              count' = Without(count, K),
              \A k \in (K \cap ByMinute) \ forgot' : let' = Without(let, K),
              forgot \ K \subseteq forgot', forgot' \subseteq Counters,
              stuck' \in Nat, UNCHANGED charged, stale' \subseteq RateUploads
       PROVE  LimitsInv'
  <2>1. let' \in [Counters -> Nat] /\ \A j \in Counters : Without(let, K)[j] = (IF j \in K THEN 0 ELSE let[j])
        /\ Without(count, K)[j] = (IF j \in K THEN 0 ELSE count[j])
    BY <1>1, <1>15 DEF Without
  <2>2. ASSUME NEW j \in ByMinute \ forgot' PROVE Within(j)'
    <3>1. j \in Counters /\ LimitOf(j)' = LimitOf(j) /\ LimitOf(j) \in Nat
      BY <1>0, <2>2 DEF LimitOf
    <3>2. CASE j \in K
      <4>1. let'[j] = 0 /\ count'[j] = 0
        BY <1>15, <2>1, <2>2, <3>1, <3>2
      <4> QED BY <3>1, <4>1 DEF Within
    <3>3. CASE j \notin K
      <4>1. let'[j] = let[j] /\ count'[j] = count[j] /\ Within(j)
        BY <1>1, <1>15, <2>1, <2>2, <3>1, <3>3
      <4> QED BY <3>1, <4>1 DEF Within
    <3> QED BY <3>2, <3>3
  <2> QED BY <1>1, <1>7, <1>15, <2>1, <2>2
<1>16. CASE NextMinute
  <2>1. /\ stale' \subseteq RateUploads
        /\ stuck' = 0
        /\ forgot' = forgot \ ByMinute
        /\ UNCHANGED charged
    BY <1>1, <1>16 DEF NextMinute
  <2> QED BY <1>0, <1>1, <1>15, <1>16, <2>1 DEF NextMinute
<1>17. CASE NextDay
  <2>1. /\ UNCHANGED <<charged, stale, stuck>> /\ forgot' = forgot \ {"day"}
        /\ count' = Without(count, {"day"}) /\ let' = Without(let, {"day"})
    BY <1>17 DEF NextDay
  <2> QED BY <1>0, <1>1, <1>15, <2>1
<1>18. ASSUME NEW K \in SUBSET Counters, Drop(K) PROVE LimitsInv'
  BY <1>1, <1>15, <1>18 DEF Drop
<1> QED BY <1>0, <1>8, <1>10, <1>11, <1>12, <1>13, <1>14, <1>16, <1>17, <1>18
        DEF RateNext, RateHandle, RateCleanup, RateEvict

\* In no window does a limiter let more requests of an address or a key, or more
\* bytes, through than its limit, however calls interleave and refused bytes are
\* handed back, unless its counter was dropped in that window (ratelimit.go, AllowN).
THEOREM LimitsKept == ASSUME RateAssumption PROVE RateSpec => [](RateTypeOK /\ LimitsHeld)
<1>1. RateInit => RateInv /\ BytesInv /\ LimitsInv
  BY RateStart, BytesStart, LimitsStart
<1>2. (RateInv /\ BytesInv /\ LimitsInv) /\ [RateNext]_rateVars => (RateInv /\ BytesInv /\ LimitsInv)'
  BY RateStep, BytesStep, LimitsStep
<1>3. LimitsInv => RateTypeOK /\ LimitsHeld
  BY DEF LimitsInv, Within, LimitsHeld
<1> QED BY <1>1, <1>2, <1>3, PTL DEF RateSpec

------------------------------------------------------------------------------
\* BATCHES.

BatchLabels == {"idle", "quota", "save", "has", "size", "delete", "end", "done"}
BatchActive(B) == {b \in B : batchPc[b] \notin {"idle", "done"}}

\* What the batches under way have added up and not yet settled.
ToCharge == SumFunctionOnSet(sum, BatchActive(BatchUploads))
ToCredit == SumFunctionOnSet(sum, BatchActive(BatchDeletes))
Held == SumFunctionOnSet(Size, batchRefs)

BatchShapes ==
    /\ BatchTypeOK
    /\ \A b \in Batches :
         /\ batchPc[b] \in {"idle", "quota", "save", "has", "size", "delete"} => batchAt[b] \in 1..Len(items[b])
         /\ batchPc[b] \in {"idle", "quota"} => sum[b] = 0
         /\ batchPc[b] = "quota" => b \in BatchUploads
         /\ batchPc[b] = "save" => b \in BatchUploads
         /\ batchPc[b] \in {"has", "size", "delete"} => b \in BatchDeletes
         /\ batchPc[b] = "delete" => read[b] <= Size[Item(b)]

BatchBooks ==
    /\ batchUsed + lost + ToCharge >= Held + ToCredit
    /\ batchUsed + ToCharge <= granted

BatchInv == BatchShapes /\ BatchBooks

\* The sums the books are made of are sums over finite sets.
LEMMA BatchNames ==
    ASSUME BatchAssumption, BatchShapes
    PROVE  /\ \A S : BatchBytesOf(S) = SumFunctionOnSet(Size, S) /\ \A B : Uncharged(B) = SumFunctionOnSet(sum, B \cap BatchUploads)
           /\ \A B \in SUBSET Batches : Counts(sum, B) /\ SumFunctionOnSet(sum, B) \in Nat
           /\ \A S \in SUBSET BatchBlobs : Counts(Size, S) /\ SumFunctionOnSet(Size, S) \in Nat
           /\ \A b \in Batches : batchAt[b] \in 1..Len(items[b]) => Item(b) \in BatchBlobs /\ Size[Item(b)] \in Nat
<1>1. \A S : BatchBytesOf(S) = SumFunctionOnSet(Size, S) /\ \A B : Uncharged(B) = SumFunctionOnSet(sum, B \cap BatchUploads)
  BY DEF BatchBytesOf, Uncharged
<1>2. ASSUME NEW B \in SUBSET Batches PROVE Counts(sum, B) /\ SumFunctionOnSet(sum, B) \in Nat
  <2>1. Counts(sum, B)
    BY FS_Subset DEF Counts, BatchAssumption, BatchShapes, BatchTypeOK
  <2> QED BY <2>1, SumCountsUnits
<1>3. ASSUME NEW S \in SUBSET BatchBlobs PROVE Counts(Size, S) /\ SumFunctionOnSet(Size, S) \in Nat
  <2>1. Counts(Size, S)
    BY FS_Subset DEF Counts, BatchAssumption
  <2> QED BY <2>1, SumCountsUnits
<1>4. ASSUME NEW b \in Batches, batchAt[b] \in 1..Len(items[b])
      PROVE  Item(b) \in BatchBlobs /\ Size[Item(b)] \in Nat
  <2>1. items[b] \in Seq(BatchBlobs)
    BY DEF BatchAssumption, BatchShapes, BatchTypeOK
  <2> QED BY <1>4, <2>1 DEF Item, BatchAssumption
<1> QED BY <1>1, <1>2, <1>3, <1>4

\* A key starts charged for what it holds.
LEMMA BatchStarts == ASSUME BatchAssumption, BatchInit PROVE BatchInv
<1>1. /\ BatchBytesOf(batchRefs) = SumFunctionOnSet(Size, batchRefs)
      /\ SumFunctionOnSet(Size, batchRefs) \in Nat
  <2>1. Counts(Size, batchRefs)
    BY FS_Subset DEF Counts, BatchAssumption, BatchInit
  <2> QED BY <2>1, SumCountsUnits DEF BatchBytesOf
<1>2. BatchShapes
  <2>1. \A b \in Batches : 1 \in 1..Len(items[b])
    <3> SUFFICES ASSUME NEW b \in Batches PROVE 1 \in 1..Len(items[b])
      OBVIOUS
    <3>1. items[b] \in Seq(BatchBlobs) /\ items[b] # <<>>
      BY DEF BatchInit, BatchAssumption
    <3> QED BY <3>1
  <2>2. BatchTypeOK
    BY <1>1 DEF BatchInit, BatchTypeOK
  <2> QED BY <2>1, <2>2 DEF BatchInit, BatchShapes
<1>3. BatchActive(BatchUploads) = {} /\ BatchActive(BatchDeletes) = {}
  BY DEF BatchActive, BatchInit, Batches
<1>4. ToCharge = 0 /\ ToCredit = 0
  BY <1>3, SumOfNone DEF ToCharge, ToCredit
<1> QED BY <1>1, <1>2, <1>4 DEF BatchInv, BatchBooks, BatchInit, Held

\* One batch goes on, and the sums of the others stay what they are.
LEMMA OnlyOneSum ==
    ASSUME BatchAssumption, BatchShapes, BatchShapes', NEW B \in {BatchUploads, BatchDeletes},
           NEW b \in Batches,
           \A c \in Batches \ {b} : batchPc'[c] = batchPc[c] /\ sum'[c] = sum[c]
    PROVE  LET Was == IF b \in BatchActive(B) THEN sum[b] ELSE 0
               Becomes == IF b \in BatchActive(B)' THEN sum'[b] ELSE 0
           IN  SumFunctionOnSet(sum', BatchActive(B)') + Was = SumFunctionOnSet(sum, BatchActive(B)) + Becomes
<1> DEFINE R == BatchActive(B) \ {b}
<1>1. B \subseteq Batches
  BY DEF Batches
<1>2. BatchActive(B)' \ {b} = R
  BY <1>1 DEF BatchActive
<1>3. /\ BatchActive(B) \in SUBSET Batches
      /\ BatchActive(B)' \in SUBSET Batches
      /\ R \in SUBSET Batches
  BY <1>1 DEF BatchActive
<1>4. /\ Counts(sum, BatchActive(B))
      /\ Counts(sum, R)
      /\ SumFunctionOnSet(sum, R) \in Nat
      /\ Counts(sum', R)
      /\ Counts(sum', BatchActive(B)') /\ SumFunctionOnSet(sum', R) = SumFunctionOnSet(sum, R)
  <2>1. Counts(sum, BatchActive(B)) /\ Counts(sum, R) /\ SumFunctionOnSet(sum, R) \in Nat
    BY <1>3, BatchNames
  <2>2. \A C \in SUBSET Batches : Counts(sum', C)
    BY <1>3, FS_Subset DEF Counts, BatchAssumption, BatchShapes, BatchTypeOK
  <2>3. \A x \in R : sum'[x] = sum[x]
    BY <1>3
  <2> QED BY <1>3, <2>1, <2>2, <2>3, SumSame
<1>5. SumFunctionOnSet(sum, BatchActive(B)) = SumFunctionOnSet(sum, R) + (IF b \in BatchActive(B) THEN sum[b] ELSE 0)
  <2>1. CASE b \in BatchActive(B)
    BY <1>4, <2>1, SumRemove
  <2>2. CASE b \notin BatchActive(B)
    <3>1. R = BatchActive(B)
      BY <2>2
    <3>2. SumFunctionOnSet(sum, BatchActive(B)) = SumFunctionOnSet(sum, R)
      BY <3>1
    <3> HIDE DEF R
    <3> QED BY <1>4, <2>2, <3>2
  <2> QED BY <2>1, <2>2
<1>6. SumFunctionOnSet(sum', BatchActive(B)') = SumFunctionOnSet(sum, R) + (IF b \in BatchActive(B)' THEN sum'[b] ELSE 0)
  <2>1. CASE b \in BatchActive(B)'
    BY <1>2, <1>4, <2>1, SumRemove
  <2>2. CASE b \notin BatchActive(B)'
    <3>1. R = BatchActive(B)'
      BY <1>2, <2>2
    <3> QED BY <1>4, <2>2, <3>1
  <2> QED BY <2>1, <2>2
<1>7. sum[b] \in Nat /\ sum'[b] \in Nat
  BY DEF BatchShapes, BatchTypeOK
<1> QED BY <1>4, <1>5, <1>6, <1>7

\* What one batch has added up and not settled.
Pending(b) == IF batchPc[b] \in {"idle", "done"} THEN 0 ELSE sum[b]

\* A step of one batch changes what is to be charged, or to be credited, by what
\* that batch has added up and not settled.
LEMMA SumsOfStep ==
    ASSUME BatchAssumption, BatchShapes, BatchShapes', NEW b \in Batches,
           \A c \in Batches \ {b} : batchPc'[c] = batchPc[c] /\ sum'[c] = sum[c]
    PROVE  /\ ToCharge \in Nat /\ ToCredit \in Nat /\ ToCharge' \in Nat /\ ToCredit' \in Nat
           /\ Pending(b) \in Nat /\ Pending(b)' \in Nat
           /\ b \in BatchUploads => /\ ToCharge' + Pending(b) = ToCharge + Pending(b)'
                                    /\ ToCredit' = ToCredit
           /\ b \in BatchDeletes => /\ ToCredit' + Pending(b) = ToCredit + Pending(b)'
                                    /\ ToCharge' = ToCharge
<1>1. Pending(b) \in Nat /\ Pending(b)' \in Nat
  BY DEF Pending, BatchShapes, BatchTypeOK
<1>2. ToCharge \in Nat /\ ToCredit \in Nat
  <2>1. BatchActive(BatchUploads) \in SUBSET Batches /\ BatchActive(BatchDeletes) \in SUBSET Batches
    BY DEF BatchActive, Batches
  <2> QED BY <2>1, BatchNames DEF ToCharge, ToCredit
<1>3. ToCharge' \in Nat /\ ToCredit' \in Nat
  <2>1. /\ BatchActive(BatchUploads)' \in SUBSET Batches
        /\ BatchActive(BatchDeletes)' \in SUBSET Batches
    BY DEF BatchActive, Batches
  <2>2. \A B \in SUBSET Batches : Counts(sum', B) /\ SumFunctionOnSet(sum', B) \in Nat
    <3> SUFFICES ASSUME NEW B \in SUBSET Batches PROVE Counts(sum', B) /\ SumFunctionOnSet(sum', B) \in Nat
      OBVIOUS
    <3>1. Counts(sum', B)
      BY FS_Subset DEF Counts, BatchAssumption, BatchShapes, BatchTypeOK
    <3> QED BY <3>1, SumCountsUnits
  <2> QED BY <2>1, <2>2 DEF ToCharge, ToCredit
<1>4. ASSUME b \in BatchUploads
      PROVE  ToCharge' + Pending(b) = ToCharge + Pending(b)' /\ ToCredit' = ToCredit
  <2>1. /\ b \in BatchActive(BatchUploads) <=> batchPc[b] \notin {"idle", "done"}
        /\ b \in BatchActive(BatchUploads)' <=> batchPc'[b] \notin {"idle", "done"}
        /\ b \notin BatchActive(BatchDeletes) /\ b \notin BatchActive(BatchDeletes)'
    BY <1>4 DEF BatchActive, BatchAssumption
  <2>2. ToCharge' + Pending(b) = ToCharge + Pending(b)'
    BY <2>1, OnlyOneSum DEF ToCharge, Pending
  <2>3. /\ BatchActive(BatchDeletes)' = BatchActive(BatchDeletes)
        /\ \A x \in BatchActive(BatchDeletes) : sum'[x] = sum[x]
    BY <2>1 DEF BatchActive, Batches
  <2>4. Counts(sum, BatchActive(BatchDeletes))
    BY BatchNames DEF BatchActive, Batches
  <2>5. ToCredit' = ToCredit
    BY <2>3, <2>4, SumSame DEF ToCredit
  <2> QED BY <2>2, <2>5
<1>5. ASSUME b \in BatchDeletes
      PROVE  ToCredit' + Pending(b) = ToCredit + Pending(b)' /\ ToCharge' = ToCharge
  <2>1. /\ b \in BatchActive(BatchDeletes) <=> batchPc[b] \notin {"idle", "done"}
        /\ b \in BatchActive(BatchDeletes)' <=> batchPc'[b] \notin {"idle", "done"}
        /\ b \notin BatchActive(BatchUploads) /\ b \notin BatchActive(BatchUploads)'
    BY <1>5 DEF BatchActive, BatchAssumption
  <2>2. ToCredit' + Pending(b) = ToCredit + Pending(b)'
    BY <2>1, OnlyOneSum DEF ToCredit, Pending
  <2>3. /\ BatchActive(BatchUploads)' = BatchActive(BatchUploads)
        /\ \A x \in BatchActive(BatchUploads) : sum'[x] = sum[x]
    BY <2>1 DEF BatchActive, Batches
  <2>4. Counts(sum, BatchActive(BatchUploads))
    BY BatchNames DEF BatchActive, Batches
  <2>5. ToCharge' = ToCharge
    BY <2>3, <2>4, SumSame DEF ToCharge
  <2> QED BY <2>2, <2>5
<1> QED BY <1>1, <1>2, <1>3, <1>4, <1>5

\* The credit stops at zero.
LEMMA MaxOfZero ==
    ASSUME NEW n \in Int
    PROVE  Max({0, n}) = IF n >= 0 THEN n ELSE 0
<1> DEFINE m == IF n >= 0 THEN n ELSE 0
<1>1. m \in {0, n} /\ \A y \in {0, n} : m >= y
  OBVIOUS
<1>2. \A x \in {0, n} : (\A y \in {0, n} : x >= y) => x = m
  OBVIOUS
<1> QED BY <1>1, <1>2 DEF Max

\* No step of a batch, nor a crash, leaves the types.
LEMMA BatchTypesStep ==
    ASSUME BatchAssumption, BatchInv, [BatchNext]_batchVars
    PROVE  BatchShapes'
<1> USE DEF BatchInv, BatchShapes, BatchTypeOK, BatchIn, BatchGoto
<1>1. CASE UNCHANGED batchVars
  BY <1>1 DEF batchVars, Item
<1>2. CASE BatchCrash
  <2>1. Uncharged({b \in Batches : batchPc[b] # "done"}) \in Nat
    BY BatchNames DEF Batches
  <2>2. BatchTypeOK'
    BY <1>2, <2>1 DEF BatchCrash
  <2> QED BY <1>2, <2>2 DEF BatchCrash, Item
<1>3. ASSUME NEW b \in Batches, BatchRun(b) PROVE BatchShapes'
  <2>0. /\ Len(items[b]) \in Nat /\ batchPc[b] \in {"save", "has", "size", "delete", "quota", "idle"} =>
            /\ batchAt[b] \in 1..Len(items[b]) /\ Item(b) \in BatchBlobs /\ Size[Item(b)] \in Nat
    <3>1. items[b] \in Seq(BatchBlobs)
      BY DEF BatchAssumption
    <3> QED BY <3>1, BatchNames
  <2>1. CASE BatchUpload(b) \/ BatchDelete(b)
    BY <1>3, <2>1 DEF BatchUpload, BatchDelete, BatchStart, Item
  <2>2. CASE CheckQuota(b)
    BY <1>3, <2>2 DEF CheckQuota, Item
  \* On to the next item: it is on the list, or the batch is at its end.
  <2>3. ASSUME NEW l \in {"save", "has"}, NextItem(b, l), UNCHANGED items,
               batchAt[b] \in 1..Len(items[b])
        PROVE  /\ batchAt' \in [Batches -> Nat]
               /\ \A c \in Batches \ {b} : batchPc'[c] = batchPc[c] /\ batchAt'[c] = batchAt[c] /\ Item(c)' = Item(c)
               /\ batchPc' \in [Batches -> BatchLabels]
               /\ batchPc'[b] = "end" \/ (batchPc'[b] = l /\ batchAt'[b] \in 1..Len(items[b]))
    <3>1. batchAt'[b] = batchAt[b] + 1
      BY <2>3 DEF NextItem
    <3> QED BY <2>0, <2>3, <3>1 DEF NextItem, BatchLabels, Item
  <2>4. CASE SaveFile(b)
    <3>1. /\ b \in BatchUploads
          /\ UNCHANGED <<items, read>>
          /\ batchAt[b] \in 1..Len(items[b])
          /\ NextItem(b, "save")
      BY <1>3, <2>0, <2>4 DEF SaveFile, SkipItem
    <3>2. /\ batchRefs' \subseteq BatchBlobs
          /\ batchUsed' \in Nat
          /\ granted' \in Nat
          /\ lost' \in Nat
          /\ sum' \in [Batches -> Nat] /\ \A c \in Batches \ {b} : sum'[c] = sum[c]
      <4>1. CASE SkipItem(b, "save")
        BY <4>1 DEF SkipItem
      <4>2. CASE ~SkipItem(b, "save")
        BY <2>0, <2>4, <4>2 DEF SaveFile, NewReference
      <4> QED BY <4>1, <4>2
    <3> QED BY <2>3, <3>1, <3>2
  \* A delete whose item is passed over, or settled.
  <2>5. ASSUME b \in BatchDeletes, NextItem(b, "has"),
               UNCHANGED <<items, read, batchUsed, granted, lost>>,
               batchAt[b] \in 1..Len(items[b]), batchRefs' \subseteq batchRefs,
               sum' \in [Batches -> Nat], \A c \in Batches \ {b} : sum'[c] = sum[c]
        PROVE  BatchShapes'
    BY <2>3, <2>5
  <2>6. CASE HasReference(b)
    <3>1. CASE SkipItem(b, "has")
      BY <1>3, <2>0, <2>5, <2>6, <3>1 DEF HasReference, SkipItem
    <3>2. CASE ~SkipItem(b, "has")
      BY <1>3, <2>0, <2>6, <3>2 DEF HasReference, Item
    <3> QED BY <3>1, <3>2
  <2>7. CASE GetSize(b)
    <3>1. b \in BatchDeletes /\ batchAt[b] \in 1..Len(items[b]) /\ Size[Item(b)] \in Nat
      BY <2>0, <2>7 DEF GetSize
    <3>2. PICK s \in {Size[Item(b)], 0} : read' = [read EXCEPT ![b] = s]
      BY <2>7 DEF GetSize
    <3>3. /\ batchPc' = [batchPc EXCEPT ![b] = "delete"]
          /\ UNCHANGED <<batchRefs, batchUsed, items, batchAt, sum, granted, lost>>
      BY <2>7 DEF GetSize
    <3>4. /\ read' \in [Batches -> Nat] /\ read'[b] <= Size[Item(b)]
          /\ \A c \in Batches : Item(c)' = Item(c) /\ (c # b => read'[c] = read[c])
      BY <3>1, <3>2, <3>3 DEF Item
    <3> QED BY <3>1, <3>3, <3>4
  <2>8. CASE DeleteReference(b)
    <3>1. CASE SkipItem(b, "has")
      BY <1>3, <2>0, <2>5, <2>8, <3>1 DEF DeleteReference, SkipItem
    <3>2. CASE ~SkipItem(b, "has")
      <4>1. /\ b \in BatchDeletes
            /\ NextItem(b, "has")
            /\ UNCHANGED <<items, read, batchUsed, granted, lost>>
            /\ batchAt[b] \in 1..Len(items[b]) /\ batchRefs' \subseteq batchRefs
        BY <1>3, <2>0, <2>8, <3>2 DEF DeleteReference
      <4>0. sum' = [sum EXCEPT ![b] = @ + (IF Removed(b) THEN read[b] ELSE 0)]
        BY <2>8, <3>2 DEF DeleteReference
      <4>2. sum' \in [Batches -> Nat] /\ \A c \in Batches \ {b} : sum'[c] = sum[c]
        BY <4>0
      <4> QED BY <2>5, <4>1, <4>2
    <3> QED BY <3>1, <3>2
  <2>9. ASSUME BatchIn(b, "end"), BatchGoto(b, "done"), batchUsed' \in Nat, lost' \in Nat,
               UNCHANGED <<batchRefs, items, batchAt, sum, read, granted>>
        PROVE  BatchShapes'
    BY <2>9 DEF Item
  <2>10. Uncharged({b}) \in Nat
    BY BatchNames DEF Batches
  <2>11. CASE BatchCharge(b)
    BY <2>9, <2>10, <2>11 DEF BatchCharge, BatchSettle, IncrementUsage
  <2>12. CASE Credit(b)
    <3>1. PICK n \in Int : n = batchUsed - sum[b]
      OBVIOUS
    <3>2. Max({0, n}) = IF n >= 0 THEN n ELSE 0
      BY MaxOfZero
    <3> QED BY <2>9, <2>10, <2>12, <3>1, <3>2 DEF Credit, BatchSettle, DecrementUsage
  <2> QED BY <1>3, <2>1, <2>2, <2>4, <2>6, <2>7, <2>8, <2>11, <2>12 DEF BatchRun
<1> QED BY <1>1, <1>2, <1>3 DEF BatchNext

\* What goes from one side and comes to the other.
LEMMA LessMoves ==
    ASSUME NEW h \in Int, NEW n \in Int, NEW k \in Int, NEW m \in Int, NEW l \in Int, h + n <= k,
           l = m + n
    PROVE  h + l <= k + m
OBVIOUS

\* What was counted as owed is counted as charged.
LEMMA LessStays ==
    ASSUME NEW u \in Int, NEW c \in Int, NEW d \in Int, NEW s \in Nat, NEW g \in Int, d + s = c,
           u + c <= g
    PROVE  u + d <= g
OBVIOUS

\* What was counted as owed back is counted as credited: no more is taken off the
\* usage than was, and never more than the usage holds.
LEMMA LessCredited ==
    ASSUME NEW u \in Int, NEW v \in Int, NEW s \in Nat, NEW l \in Int, NEW c \in Int,
           NEW d \in Int, NEW e \in Int, NEW h \in Int, NEW g \in Int,
           v <= u, v + s >= u, e + s = d, u + l + c >= h + d, u + c <= g
    PROVE  v + l + c >= h + e /\ v + c <= g
OBVIOUS

\* No step loses sight of what is owed: what a save adds to the references it adds
\* to the charge, what a delete takes from them it adds to no more than that.
LEMMA BatchBooksStep ==
    ASSUME BatchAssumption, BatchInv, BatchShapes', [BatchNext]_batchVars
    PROVE  BatchBooks'
<1> USE DEF BatchIn, BatchGoto
<1>0. BatchShapes /\ BatchBooks /\ BatchTypeOK
  BY DEF BatchInv, BatchShapes
<1>n. /\ batchUsed \in Nat /\ granted \in Nat /\ lost \in Nat /\ Held \in Nat
      /\ \A b \in Batches : sum[b] \in Nat /\ read[b] \in Nat
  BY <1>0, BatchNames DEF BatchTypeOK, Held
<1>1. CASE UNCHANGED batchVars
  BY <1>0, <1>1 DEF batchVars, BatchBooks, ToCharge, ToCredit, Held, BatchActive
<1>2. CASE BatchCrash
  <2> DEFINE Left == {b \in Batches : batchPc[b] # "done"} \cap BatchUploads
             Act == BatchActive(BatchUploads)
  <2>1. BatchActive(BatchUploads)' = {} /\ BatchActive(BatchDeletes)' = {}
    BY <1>2 DEF BatchCrash, BatchActive, Batches
  <2>2. ToCharge' = 0 /\ ToCredit' = 0
    BY <2>1, SumOfNone DEF ToCharge, ToCredit
  <2>3. Counts(sum, Left) /\ Act \in SUBSET Left
    BY <1>0, BatchNames DEF BatchActive, Batches
  <2>4. /\ SumFunctionOnSet(sum, Act) \in Nat
        /\ SumFunctionOnSet(sum, Act) <= SumFunctionOnSet(sum, Left)
        /\ SumFunctionOnSet(sum, Left) \in Nat
    <3> HIDE DEF Left, Act
    <3> QED BY <2>3, SumPart, SumCountsUnits
  <2>5. lost' = lost + SumFunctionOnSet(sum, Left)
    BY <1>0, <1>2, BatchNames DEF BatchCrash
  <2>6. ToCharge = SumFunctionOnSet(sum, Act) /\ ToCredit \in Nat
    BY <1>0, BatchNames DEF ToCharge, ToCredit, BatchActive, Batches
  <2>7. UNCHANGED <<batchUsed, granted, Held>>
    BY <1>2 DEF BatchCrash, Held
  <2> HIDE DEF Left, Act
  <2> QED BY <1>0, <1>n, <2>2, <2>4, <2>5, <2>6, <2>7 DEF BatchBooks
<1>3. ASSUME NEW b \in Batches, BatchRun(b) PROVE BatchBooks'
  <2>0. /\ batchPc[b] \in {"save", "has", "size", "delete"} =>
            /\ batchAt[b] \in 1..Len(items[b]) /\ Item(b) \in BatchBlobs /\ Size[Item(b)] \in Nat
    BY <1>0, BatchNames DEF BatchShapes
  <2>s. ASSUME \A c \in Batches \ {b} : batchPc'[c] = batchPc[c] /\ sum'[c] = sum[c]
        PROVE  /\ ToCharge \in Nat /\ ToCredit \in Nat /\ ToCharge' \in Nat /\ ToCredit' \in Nat
               /\ Pending(b) \in Nat /\ Pending(b)' \in Nat
               /\ b \in BatchUploads => /\ ToCharge' + Pending(b) = ToCharge + Pending(b)'
                                        /\ ToCredit' = ToCredit
               /\ b \in BatchDeletes => /\ ToCredit' + Pending(b) = ToCredit + Pending(b)'
                                        /\ ToCharge' = ToCharge
    BY <1>0, <2>s, SumsOfStep
  \* The sums of the others stay, and so does what b is owed or owes.
  <2>t. ASSUME UNCHANGED <<batchUsed, granted, lost, batchRefs, sum>>,
               \A c \in Batches \ {b} : batchPc'[c] = batchPc[c],
               Pending(b)' = Pending(b) \/ sum[b] = 0
        PROVE  BatchBooks'
    <3>1. Pending(b)' = Pending(b)
      BY <2>t DEF Pending
    <3>2. ToCharge' = ToCharge /\ ToCredit' = ToCredit
      BY <2>s, <2>t, <3>1 DEF Batches
    <3> QED BY <1>0, <2>t, <3>2 DEF BatchBooks, Held
  <2>1. CASE BatchUpload(b) \/ BatchDelete(b)
    BY <1>0, <2>t, <2>1 DEF BatchUpload, BatchDelete, BatchStart, BatchShapes, BatchTypeOK
  <2>2. CASE CheckQuota(b)
    BY <1>0, <2>t, <2>2 DEF CheckQuota, BatchShapes, BatchTypeOK
  <2>3. CASE SaveFile(b)
    <3>1. CASE SkipItem(b, "save")
      BY <1>0, <2>t, <2>3, <3>1 DEF SaveFile, SkipItem, NextItem, Pending, BatchShapes, BatchTypeOK
    <3>2. CASE ~SkipItem(b, "save")
      <4>1. /\ batchRefs' = batchRefs \cup {Item(b)}
            /\ sum' = [sum EXCEPT ![b] = @ + (IF Item(b) \notin batchRefs THEN Size[Item(b)] ELSE 0)]
            /\ granted' = granted + (IF Item(b) \in batchRefs THEN 0 ELSE Size[Item(b)])
            /\ NextItem(b, "save") /\ UNCHANGED <<batchUsed, items, read, lost>>
        BY <2>3, <3>2 DEF SaveFile, NewReference
      <4>2. PICK n \in Nat : n = IF Item(b) \notin batchRefs THEN Size[Item(b)] ELSE 0
        BY <2>0, <2>3 DEF SaveFile
      <4>3. /\ granted' = granted + n
            /\ sum'[b] = sum[b] + n
            /\ \A c \in Batches \ {b} : sum'[c] = sum[c]
        BY <1>0, <4>1, <4>2 DEF BatchTypeOK
      <4>4. Held' = Held + n
        <5>1. Item(b) \in BatchBlobs /\ Size[Item(b)] \in Nat /\ Counts(Size, batchRefs)
          BY <1>0, <2>0, <2>3, BatchNames DEF SaveFile, BatchTypeOK
        <5>2. CASE Item(b) \in batchRefs
          BY <1>n, <4>1, <4>2, <5>2 DEF Held
        <5>3. CASE Item(b) \notin batchRefs
          BY <4>1, <4>2, <5>1, <5>3, SumAdd DEF Held
        <5> QED BY <5>2, <5>3
      <4>5. Pending(b) = sum[b] /\ Pending(b)' = sum[b] + n
        BY <1>0, <2>3, <4>1, <4>3 DEF SaveFile, NextItem, Pending, BatchTypeOK
      <4>6. /\ b \in BatchUploads
            /\ \A c \in Batches \ {b} : batchPc'[c] = batchPc[c] /\ sum'[c] = sum[c]
        BY <1>0, <2>3, <4>1, <4>3 DEF SaveFile, NextItem, BatchShapes
      <4>7. ToCharge' = ToCharge + n /\ ToCredit' = ToCredit /\ ToCharge \in Nat /\ ToCredit \in Nat
        BY <1>n, <2>s, <4>5, <4>6
      <4>8. /\ batchUsed' + lost' + ToCharge' = batchUsed + lost + ToCharge + n
            /\ Held' + ToCredit' = Held + ToCredit + n
            /\ batchUsed' + ToCharge' = batchUsed + ToCharge + n
        BY <1>n, <4>1, <4>4, <4>7
      <4> QED BY <1>0, <1>n, <4>3, <4>7, <4>8 DEF BatchBooks
    <3> QED BY <3>1, <3>2
  <2>4. CASE HasReference(b) \/ GetSize(b)
    BY <1>0, <2>t, <2>4 DEF HasReference, GetSize, SkipItem, NextItem, Pending, BatchShapes, BatchTypeOK
  <2>5. CASE DeleteReference(b)
    <3>1. CASE SkipItem(b, "has")
      BY <1>0, <2>t, <2>5, <3>1 DEF DeleteReference, SkipItem, NextItem, Pending, BatchShapes,
                                    BatchTypeOK
    <3>2. CASE ~SkipItem(b, "has")
      <4>1. /\ batchRefs' = batchRefs \ {Item(b)}
            /\ sum' = [sum EXCEPT ![b] = @ + (IF Item(b) \in batchRefs THEN read[b] ELSE 0)]
            /\ NextItem(b, "has") /\ UNCHANGED <<batchUsed, items, read, granted, lost>>
        BY <2>5, <3>2 DEF DeleteReference, Removed
      <4>2. PICK n \in Nat : n = IF Item(b) \in batchRefs THEN read[b] ELSE 0
        BY <1>n
      <4>3. sum'[b] = sum[b] + n /\ \A c \in Batches \ {b} : sum'[c] = sum[c]
        BY <1>0, <4>1, <4>2 DEF BatchTypeOK
      <4>4. Held' + n <= Held /\ Held' \in Nat
        <5>1. Item(b) \in BatchBlobs /\ Size[Item(b)] \in Nat /\ Counts(Size, batchRefs)
          BY <1>0, <2>0, <2>5, BatchNames DEF DeleteReference, BatchTypeOK
        <5>2. CASE Item(b) \notin batchRefs
          BY <1>n, <4>1, <4>2, <5>2 DEF Held
        <5>3. CASE Item(b) \in batchRefs
          <6>1. Held = Held' + Size[Item(b)]
            BY <4>1, <5>1, <5>3, SumRemove DEF Held
          <6>2. Held' \in Nat
            BY <4>1, <5>1, SumPart DEF Held
          <6>3. n <= Size[Item(b)]
            BY <1>0, <2>5, <4>2, <5>3 DEF DeleteReference, BatchShapes
          <6> QED BY <1>n, <5>1, <6>1, <6>2, <6>3
        <5> QED BY <5>2, <5>3
      <4>5. Pending(b) = sum[b] /\ Pending(b)' = sum[b] + n
        BY <1>0, <2>5, <4>1, <4>3 DEF DeleteReference, NextItem, Pending, BatchTypeOK
      <4>6. /\ b \in BatchDeletes
            /\ \A c \in Batches \ {b} : batchPc'[c] = batchPc[c] /\ sum'[c] = sum[c]
        BY <1>0, <2>5, <4>1, <4>3 DEF DeleteReference, NextItem, BatchShapes
      <4>7. ToCredit' = ToCredit + n /\ ToCharge' = ToCharge /\ ToCharge \in Nat /\ ToCredit \in Nat
        BY <1>n, <2>s, <4>5, <4>6
      <4>8. Held' + ToCredit' <= Held + ToCredit
        <5>1. /\ Held' \in Int /\ n \in Int /\ Held \in Int /\ ToCredit \in Int /\ ToCredit' \in Int
          BY <1>n, <4>4, <4>7
        <5>2. Held' + n <= Held
          BY <4>4
        <5>3. ToCredit' = ToCredit + n
          BY <4>7
        <5> QED BY <5>1, <5>2, <5>3, LessMoves
      <4> QED BY <1>0, <1>n, <4>1, <4>4, <4>7, <4>8 DEF BatchBooks
    <3> QED BY <3>1, <3>2
  <2>6. ASSUME BatchIn(b, "end"), BatchGoto(b, "done"), UNCHANGED <<batchRefs, sum, granted>>
        PROVE  /\ Held' = Held /\ Pending(b) = sum[b] /\ Pending(b)' = 0
               /\ \A c \in Batches \ {b} : batchPc'[c] = batchPc[c] /\ sum'[c] = sum[c]
    BY <1>0, <2>6 DEF Held, Pending, BatchTypeOK
  <2>7. CASE BatchCharge(b)
    <3>1. /\ BatchIn(b, "end") /\ BatchGoto(b, "done") /\ UNCHANGED <<batchRefs, sum, granted>>
          /\ b \in BatchUploads
      BY <2>7 DEF BatchCharge, BatchSettle
    <3>2. ToCharge' + sum[b] = ToCharge /\ ToCredit' = ToCredit /\ Held' = Held
          /\ ToCharge \in Nat /\ ToCharge' \in Nat /\ ToCredit \in Nat
      BY <1>n, <2>6, <2>s, <3>1
    <3>3. CASE batchUsed' = batchUsed + sum[b] /\ UNCHANGED lost
      <4>1. /\ batchUsed' + lost' + ToCharge' = batchUsed + lost + ToCharge
            /\ batchUsed' + ToCharge' = batchUsed + ToCharge
        BY <1>n, <3>2, <3>3
      <4> QED BY <1>0, <3>1, <3>2, <4>1 DEF BatchBooks
    <3>4. CASE lost' = lost + sum[b] /\ UNCHANGED batchUsed
      <4>1. batchUsed' + lost' + ToCharge' = batchUsed + lost + ToCharge
        BY <1>n, <3>2, <3>4
      <4>2. batchUsed + ToCharge <= granted
        BY <1>0 DEF BatchBooks
      <4>3. batchUsed + ToCharge' <= granted
        <5>1. /\ batchUsed \in Int
              /\ ToCharge \in Int
              /\ ToCharge' \in Int
              /\ sum[b] \in Nat
              /\ granted \in Int
              /\ ToCharge' + sum[b] = ToCharge /\ batchUsed + ToCharge <= granted
          BY <1>n, <3>2, <4>2
        <5> QED BY <5>1, LessStays
      <4>4. batchUsed' + ToCharge' <= granted'
        BY <3>1, <3>4, <4>3
      <4>5. batchUsed' + lost' + ToCharge' >= Held' + ToCredit'
        BY <1>0, <3>2, <4>1 DEF BatchBooks
      <4> QED BY <4>4, <4>5 DEF BatchBooks
    <3>5. Uncharged({b}) = sum[b]
      <4>1. {b} \cap BatchUploads = {} \cup {b} /\ Counts(sum, {}) /\ SumFunctionOnSet(sum, {}) = 0
        BY <1>0, <3>1, SumOfNone, BatchNames
      <4>2. SumFunctionOnSet(sum, {} \cup {b}) = 0 + sum[b]
        BY <1>n, <4>1, SumAdd
      <4>3. Uncharged({b}) = SumFunctionOnSet(sum, {b} \cap BatchUploads)
        BY <1>0, BatchNames
      <4> QED BY <1>n, <4>1, <4>2, <4>3
    <3>6. \/ IncrementUsage(sum[b]) /\ UNCHANGED lost
          \/ lost' = lost + Uncharged({b}) /\ UNCHANGED batchUsed
      BY <2>7 DEF BatchCharge, BatchSettle
    <3> QED BY <3>3, <3>4, <3>5, <3>6 DEF IncrementUsage
  <2>8. CASE Credit(b)
    <3>1. /\ BatchIn(b, "end") /\ BatchGoto(b, "done") /\ UNCHANGED <<batchRefs, sum, granted>>
          /\ b \in BatchDeletes
      BY <2>8 DEF Credit, BatchSettle
    <3>2. /\ ToCredit' + sum[b] = ToCredit /\ ToCharge' = ToCharge /\ Held' = Held
          /\ ToCharge \in Nat /\ ToCredit' \in Nat /\ ToCredit \in Nat
      BY <1>n, <2>6, <2>s, <3>1
    <3>3. PICK n \in Int : n = batchUsed - sum[b]
      BY <1>n
    <3>4. Max({0, n}) = IF n >= 0 THEN n ELSE 0
      BY MaxOfZero
    <3>5. Uncharged({b}) = 0
      <4>1. {b} \cap BatchUploads = {}
        BY <3>1 DEF BatchAssumption
      <4> QED BY <1>0, <4>1, SumOfNone, BatchNames
    <3>6. /\ batchUsed' \in Nat /\ batchUsed' <= batchUsed /\ batchUsed' + sum[b] >= batchUsed
          /\ lost' = lost
      BY <1>n, <2>8, <3>3, <3>4, <3>5 DEF Credit, BatchSettle, DecrementUsage
    <3>7. /\ batchUsed + lost + ToCharge >= Held + ToCredit
          /\ batchUsed + ToCharge <= granted
      BY <1>0 DEF BatchBooks
    <3>8. /\ batchUsed' + lost + ToCharge >= Held + ToCredit'
          /\ batchUsed' + ToCharge <= granted
      <4>1. PICK v \in Int : v = batchUsed'
        BY <3>6
      <4>2. PICK e \in Int : e = ToCredit'
        BY <3>2
      <4>3. PICK c \in Int : c = ToCharge
        BY <3>2
      <4>4. PICK d \in Int : d = ToCredit
        BY <3>2
      <4>5. /\ v <= batchUsed /\ v + sum[b] >= batchUsed
        BY <3>6, <4>1
      <4>6. e + sum[b] = d
        BY <3>2, <4>2, <4>4
      <4>7. batchUsed + lost + c >= Held + d /\ batchUsed + c <= granted
        BY <3>7, <4>3, <4>4
      <4>8. v + lost + c >= Held + e /\ v + c <= granted
        BY <1>n, <4>5, <4>6, <4>7, LessCredited
      <4> QED BY <4>1, <4>2, <4>3, <4>8
    <3>9. /\ lost' = lost /\ ToCharge' = ToCharge /\ Held' = Held /\ granted' = granted
      BY <3>1, <3>2, <3>6
    <3> QED BY <3>8, <3>9 DEF BatchBooks
  <2> QED BY <1>3, <2>1, <2>2, <2>3, <2>4, <2>5, <2>7, <2>8 DEF BatchRun
<1> QED BY <1>1, <1>2, <1>3 DEF BatchNext

\* Batches of one key, uploads and deletes side by side in any order and with any
\* items failing, leave it charged for at least the blobs it holds, less what a
\* crash or a failed charge lost, and never for more than the references it was
\* given, for any number of batches and blobs of any size.
THEOREM HoldingsCharged ==
    ASSUME BatchAssumption
    PROVE  BatchSpec => []ChargedForHoldings
<1>1. BatchInit => BatchInv
  BY BatchStarts
<1>2. BatchInv /\ [BatchNext]_batchVars => BatchInv'
  BY BatchTypesStep, BatchBooksStep DEF BatchInv
<1>3. BatchInv => ChargedForHoldings
  <2> SUFFICES ASSUME BatchInv PROVE ChargedForHoldings
    OBVIOUS
  <2>0. BatchShapes /\ BatchBooks
    BY DEF BatchInv
  <2>1. /\ batchUsed \in Nat
        /\ granted \in Nat
        /\ lost \in Nat
        /\ ToCharge \in Nat
        /\ ToCredit \in Nat
        /\ BatchBytesOf(batchRefs) = Held /\ Held \in Nat
    BY <2>0, BatchNames DEF BatchShapes, BatchTypeOK, ToCharge, ToCredit, BatchActive, Batches, Held
  <2>2. BatchQuiet => ToCharge = 0
    <3>1. BatchQuiet => BatchActive(BatchUploads) = {}
      BY DEF BatchQuiet, BatchActive, Batches
    <3> QED BY <3>1, SumOfNone DEF ToCharge
  <2> QED BY <2>0, <2>1, <2>2 DEF BatchBooks, ChargedForHoldings
<1> QED BY <1>1, <1>2, <1>3, PTL DEF BatchSpec

\* The types of the batches' state.
THEOREM BatchTypes == ASSUME BatchAssumption PROVE BatchSpec => []BatchTypeOK
<1>1. BatchInit => BatchInv
  BY BatchStarts
<1>2. BatchInv /\ [BatchNext]_batchVars => BatchInv'
  BY BatchTypesStep, BatchBooksStep DEF BatchInv
<1>3. BatchInv => BatchTypeOK
  BY DEF BatchInv, BatchShapes
<1> QED BY <1>1, <1>2, <1>3, PTL DEF BatchSpec

------------------------------------------------------------------------------
\* LISTINGS.

\* The rows a listing has before b.
Ahead(b) == {c \in Matching(query) : Before(c, b, query.desc)}
Rank(b) == Cardinality(Ahead(b))

\* A row is on a page where its rank puts it, when no two rows are of the same second.
LEMMA PositionsAreRanks ==
    ASSUME IsFiniteSet(PageBlobs), created \in [PageBlobs -> Nat],
           Matching(query) \subseteq PageBlobs,
           ~Tied(Matching(query)), NEW s \in Orders(Matching(query), query.desc), NEW b \in Matching(query)
    PROVE  \E i \in 1..Cardinality(Matching(query)) : s[i] = b /\ Rank(b) = i - 1
<1> DEFINE S == Matching(query)
           n == Cardinality(S)
<1>0. /\ IsFiniteSet(S) /\ n \in Nat /\ s \in [1..n -> S]
      /\ \A i, j \in 1..n : i < j => s[i] # s[j] /\ ~Before(s[j], s[i], query.desc)
  <2>1. DOMAIN s = 1..n
    BY DEF Orders
  <2> QED BY <2>1, FS_Subset, FS_CardinalityType DEF Orders
<1>t. \A c, d \in S : c # d => created[c] # created[d] /\ created[c] \in Nat /\ created[d] \in Nat
  BY DEF Tied
<1> HIDE DEF S, n
<1>1. \A c \in S : \E i \in 1..n : s[i] = c
  <2>1. \A i, j \in 1..n : s[i] = s[j] => i = j
    BY <1>0
  <2>2. s \in Injection(1..n, S)
    BY <1>0, <2>1 DEF Injection, IsInjective
  <2>3. IsFiniteSet(1..n) /\ Cardinality(1..n) = n
    BY <1>0, FS_Interval
  <2>4. s \in Surjection(1..n, S)
    BY <1>0, <2>2, <2>3, FS_Injection DEF n
  <2> QED BY <2>4 DEF Surjection
<1>2. PICK i \in 1..n : s[i] = b
  BY <1>1 DEF S
<1>3. \A j \in 1..n : Before(s[j], b, query.desc) <=> j < i
  <2> TAKE j \in 1..n
  <2>1. CASE j < i
    <3>1. s[j] # s[i] /\ ~Before(s[i], s[j], query.desc) /\ s[i] \in S /\ s[j] \in S
      BY <1>0, <1>2, <2>1
    <3> QED BY <1>t, <1>2, <2>1, <3>1 DEF Before
  <2>2. CASE i < j
    <3>1. ~Before(s[j], s[i], query.desc)
      BY <1>0, <2>2
    <3> QED BY <1>2, <2>2, <3>1, <1>0
  <2>3. CASE i = j
    <3>1. created[b] \in Nat
      BY DEF Before
    <3> QED BY <1>2, <2>3, <3>1 DEF Before
  <2> QED BY <1>0, <2>1, <2>2, <2>3
<1>4. Ahead(b) = {s[j] : j \in 1..(i - 1)}
  <2>1. \A j \in 1..(i - 1) : j \in 1..n /\ j < i
    BY <1>0
  <2>2. ASSUME NEW c \in Ahead(b) PROVE c \in {s[j] : j \in 1..(i - 1)}
    <3>1. c \in S /\ Before(c, b, query.desc)
      BY DEF Ahead, S
    <3>2. PICK j \in 1..n : s[j] = c
      BY <1>1, <3>1
    <3>3. j \in 1..(i - 1)
      BY <1>0, <1>3, <3>1, <3>2
    <3> QED BY <3>2, <3>3
  <2>3. ASSUME NEW j \in 1..(i - 1) PROVE s[j] \in Ahead(b)
    BY <1>0, <1>3, <2>1 DEF Ahead, S
  <2> QED BY <2>2, <2>3
<1>5. Rank(b) = i - 1
  <2> DEFINE f == [j \in 1..(i - 1) |-> s[j]]
  <2>0. \A j \in 1..(i - 1) : j \in 1..n
    BY <1>0
  <2>1. \A j, k \in 1..(i - 1) : f[j] = f[k] => j = k
    BY <1>0, <2>0
  <2>2. f \in [1..(i - 1) -> Ahead(b)] /\ \A c \in Ahead(b) : \E j \in 1..(i - 1) : f[j] = c
    BY <1>4
  <2> HIDE DEF f
  <2>3. f \in Bijection(1..(i - 1), Ahead(b))
    BY <2>1, <2>2 DEF Bijection, Injection, IsInjective, Surjection
  <2>4. ExistsBijection(1..(i - 1), Ahead(b)) /\ i - 1 \in Nat
    BY <2>3, <1>0 DEF ExistsBijection
  <2> QED BY <2>4, FS_CountingElements DEF Rank
<1> QED BY <1>2, <1>5 DEF n, S

\* The page that starts at o of a list longer than o: so many rows, from there on.
LEMMA PageRows ==
    ASSUME NEW T, NEW n \in Nat, NEW s \in [1..n -> T], NEW limit \in Nat, NEW o \in Nat, o < n
    PROVE  LET page == Page(s, limit, o) IN
           /\ page # <<>> /\ Len(page) \in Nat
           /\ \A i \in 1..n : o < i => (\E j \in DOMAIN page : page[j] = s[i]) \/ o + Len(page) < i
<1> DEFINE last == IF o + limit < n THEN o + limit ELSE n
<1>0. s \in Seq(T) /\ Len(s) = n
  BY SeqDef, LenProperties
<1>1. CASE limit = 0
  BY <1>0, <1>1, EmptySeq DEF Page
<1>2. CASE limit # 0
  <2> DEFINE page == SubSeq(s, o + 1, last)
  <2>1. o + 1 \in 1..(Len(s) + 1) /\ last \in o..Len(s) /\ last > o /\ last \in Nat
    BY <1>0, <1>2
  <2> HIDE DEF last
  <2>2. /\ page \in Seq(T) /\ Len(page) = last - o
        /\ \A i \in 1..(last - o) : page[i] = s[o + i]
    BY <1>0, <2>1, SubSeqProperties
  <2>3. page = Page(s, limit, o) /\ DOMAIN page = 1..(last - o)
    BY <1>0, <1>2, <2>2, LenProperties DEF Page, last
  <2> HIDE DEF page
  <2>4. ASSUME NEW i \in 1..n, o < i,
               ~(o + Len(page) < i) PROVE \E j \in DOMAIN page : page[j] = s[i]
    <3>1. i - o \in 1..(last - o) /\ o + (i - o) = i
      BY <2>1, <2>2, <2>4
    <3> QED BY <2>2, <2>3, <3>1
  <2>5. page # <<>> /\ Len(page) \in Nat
    BY <2>1, <2>2
  <2> QED BY <2>3, <2>4, <2>5
<1> QED BY <1>1, <1>2

------------------------------------------------------------------------------
PageTypes ==
    /\ created \in [PageBlobs -> Nat] /\ owners \in [PageBlobs -> SUBSET PageKeys]
    /\ now \in Nat /\ query \in Queries

\* Of a reader that nothing has disturbed: what it has not been given and what
\* was there when it began is still ahead of it.
StillAhead == pageSteady => \A b \in began \ pageSeen :
            /\ pagePc = "read" /\ pageOffset \in Nat
            /\ b \in Matching(query) /\ pageOffset <= Rank(b)

\* No step leaves the types.
LEMMA PageTypesStep ==
    ASSUME ListingAssumption
    PROVE  PageTypes /\ [PageNext]_pageVars => PageTypes'
\* Time goes on.
<1>0. ASSUME PageTypes, Tick PROVE now' \in Nat
  <2>1. now \in Nat /\ now' = now + 1
    BY <1>0 DEF PageTypes, Tick
  <2> QED BY <2>1
<1> SUFFICES ASSUME PageTypes, [PageNext]_pageVars PROVE PageTypes'
  OBVIOUS
<1> USE ListingAssumption DEF PageTypes, store, pageReader, ListingAssumption
<1>1. CASE UNCHANGED pageVars
  BY <1>1 DEF pageVars
<1>2. CASE ReadPage
  BY <1>2 DEF ReadPage
<1>3. CASE Tick
  BY <1>0, <1>3 DEF Tick
<1>4. ASSUME NEW b \in PageBlobs, NEW k \in PageKeys, PageUpload(b, k) PROVE PageTypes'
  BY <1>4 DEF PageUpload
<1>5. ASSUME NEW b \in PageBlobs, NEW k \in PageKeys, PageDelete(b, k) PROVE PageTypes'
  BY <1>5 DEF PageDelete
<1> QED BY <1>1, <1>2, <1>3, <1>4, <1>5 DEF PageNext

\* Rows that come do not let the rank of another shrink.
LEMMA RankGrows ==
    ASSUME IsFiniteSet(PageBlobs), Matching(query)' \subseteq PageBlobs, query' = query,
           \A c \in Matching(query) : c \in Matching(query)' /\ created'[c] = created[c],
           NEW b \in Matching(query), NEW n \in Nat, n <= Rank(b)
    PROVE  b \in Matching(query)' /\ n <= Rank(b)'
<1>1. Ahead(b) \subseteq Ahead(b)' /\ Ahead(b)' \subseteq PageBlobs
  BY DEF Ahead, Before
<1>2. PICK S, T : S = Ahead(b) /\ T = Ahead(b)'
  OBVIOUS
<1>3. /\ Cardinality(S) <= Cardinality(T) /\ Cardinality(S) \in Nat /\ Cardinality(T) \in Nat
      /\ n <= Cardinality(S)
  BY <1>1, <1>2, FS_Subset, FS_CardinalityType DEF Rank
<1>4. n <= Cardinality(T)
  BY <1>3
<1> QED BY <1>2, <1>4 DEF Rank

\* What a reader asks for are rows.
LEMMA MatchingRows == Matching(query) \subseteq PageBlobs /\ \A b \in Matching(query) : created[b] # 0
BY DEF Matching, SearchBlobs, GetFromPubkeyWithFilter, GetBlobsFromPubkey, Rows

\* Whatever limit is asked for.
LEMMA LimitTyped ==
    ASSUME ListingAssumption, NEW l \in Int
    PROVE  parseSearchFilter(l) \in Nat /\ parseBlobFilter(l) \in Nat
<1>1. SearchMax \in Nat /\ SearchDefault \in 1..SearchMax
  BY DEF ListingAssumption
<1>2. SearchMax \in Nat /\ SearchDefault \in Nat
  BY <1>1
<1>3. parseSearchFilter(l) \in Nat
  BY <1>2 DEF parseSearchFilter
<1>4. parseBlobFilter(l) \in Nat
  BY DEF parseBlobFilter
<1> QED BY <1>3, <1>4

\* No step puts a blob that the reader still waits for behind the page it is at.
LEMMA AheadStep ==
    ASSUME ListingAssumption
    PROVE  PageTypes /\ StillAhead /\ [PageNext]_pageVars => StillAhead'
<1> SUFFICES ASSUME PageTypes, StillAhead, [PageNext]_pageVars, pageSteady',
                    NEW b \in began', b \notin pageSeen'
             PROVE  /\ pagePc' = "read" /\ pageOffset' \in Nat
                    /\ b \in Matching(query)' /\ pageOffset' <= Rank(b)'
  BY DEF StillAhead
<1> USE DEF store, pageReader
<1>0. /\ IsFiniteSet(PageBlobs)
      /\ created \in [PageBlobs -> Nat]
      /\ owners \in [PageBlobs -> SUBSET PageKeys]
      /\ query.limit \in Int
      /\ query.key \in PageKeys \cup {""}
      /\ SearchDefault \in Nat
      /\ SearchMax \in Nat
  <2>1. SearchMax \in Nat /\ SearchDefault \in 1..SearchMax
    BY DEF ListingAssumption
  <2>2. SearchDefault \in Nat
    BY <2>1
  <2>3. query.limit \in Int /\ query.key \in PageKeys \cup {""}
    BY DEF PageTypes, ListingAssumption
  <2> QED BY <2>1, <2>2, <2>3 DEF PageTypes, ListingAssumption
<1>1. pageSteady /\ b \in began /\ b \notin pageSeen
  BY DEF PageNext, ReadPage, Tick, PageUpload, PageDelete, pageVars
<1>2. pagePc = "read" /\ pageOffset \in Nat /\ b \in Matching(query) /\ pageOffset <= Rank(b)
  BY <1>1 DEF StillAhead
\* The reader does not read, and no row that it lists goes.
<1>3. ASSUME UNCHANGED <<query, pagePc, pageOffset>>,
             \A c \in Matching(query) : c \in Matching(query)' /\ created'[c] = created[c]
      PROVE  /\ pagePc' = "read" /\ pageOffset' \in Nat
             /\ b \in Matching(query)' /\ pageOffset' <= Rank(b)'
  <2>1. Matching(query)' \subseteq PageBlobs
    BY MatchingRows DEF Matching, SearchBlobs, GetFromPubkeyWithFilter, GetBlobsFromPubkey, Rows
  <2> QED BY <1>0, <1>2, <1>3, <2>1, RankGrows
<1>4. CASE UNCHANGED pageVars \/ Tick
  BY <1>3, <1>4 DEF pageVars, Tick, Matching, SearchBlobs, GetFromPubkeyWithFilter, GetBlobsFromPubkey,
                    Rows,
                    Filtered, Sized
<1>5. ASSUME NEW c \in PageBlobs, NEW k \in PageKeys, PageUpload(c, k)
      PROVE  \A d \in Matching(query) : d \in Matching(query)' /\ created'[d] = created[d]
  <2>1. \A d \in Matching(query) : created'[d] = created[d] /\ owners[d] \subseteq owners'[d] /\ d \in PageBlobs
    BY <1>0, <1>5, MatchingRows DEF PageUpload, Rows
  <2> QED BY <1>5, <2>1 DEF PageUpload, Matching, SearchBlobs, GetFromPubkeyWithFilter,
                            GetBlobsFromPubkey, Rows,
                            Filtered, Sized
<1>6. ASSUME NEW c \in PageBlobs, NEW k \in PageKeys, PageDelete(c, k)
      PROVE  \A d \in Matching(query) : d \in Matching(query)' /\ created'[d] = created[d]
  <2>1. c \in Matching(query) => query.key # k /\ owners[c] # {k}
    BY <1>2, <1>6 DEF PageDelete, Unlisted
  <2>2. \A d \in Matching(query) : /\ created'[d] = created[d] /\ d \in PageBlobs
                                   /\ query.key \in owners[d] => query.key \in owners'[d]
    BY <1>0, <1>6, <2>1, MatchingRows DEF PageDelete
  <2> QED BY <1>6, <2>2 DEF PageDelete, Matching, SearchBlobs, GetFromPubkeyWithFilter,
                            GetBlobsFromPubkey, Rows,
                            Filtered, Sized
<1>7. CASE ReadPage
  <2>1. PICK s \in Orders(Matching(query), query.desc) :
          LET page == Page(s, Limit(query), pageOffset) IN
          /\ pageOffset' = pageOffset + Len(page)
          /\ pageSeen' = pageSeen \cup {page[i] : i \in DOMAIN page}
          /\ pagePc' = IF pageOffset' >= Total(page, Matching(query)) THEN "done" ELSE "read"
    BY <1>7 DEF ReadPage
  <2> DEFINE page == Page(s, Limit(query), pageOffset)
             n == Cardinality(Matching(query))
  <2>2. ~Tied(Matching(query)) /\ UNCHANGED <<created, owners, query>>
    BY <1>7 DEF ReadPage
  <2>3. Matching(query) \in SUBSET PageBlobs /\ n \in Nat
    BY <1>0, MatchingRows, FS_Subset, FS_CardinalityType
  <2>4. PICK i \in 1..n : s[i] = b /\ Rank(b) = i - 1
    BY <1>0, <1>2, <2>2, <2>3, PositionsAreRanks
  <2>5. s \in [1..n -> Matching(query)] /\ Limit(query) \in Nat
    <3>1. Limit(query) \in Nat
      <4>1. parseSearchFilter(query.limit) \in Nat /\ parseBlobFilter(query.limit) \in Nat
        BY <1>0, LimitTyped
      <4> QED BY <4>1 DEF Limit
    <3> QED BY <3>1 DEF Orders
  <2>6. pageOffset < n /\ pageOffset < i
    BY <1>2, <2>3, <2>4
  <2> HIDE DEF n
  <2>7. /\ page # <<>> /\ Len(page) \in Nat
        /\ \A j \in 1..n : pageOffset < j => (\E m \in DOMAIN page : page[m] = s[j]) \/ pageOffset + Len(page) < j
    BY <1>2, <2>3, <2>5, <2>6, PageRows
  <2> HIDE DEF page
  <2>8. b \notin {page[m] : m \in DOMAIN page}
    BY <2>1 DEF page
  <2>9. pageOffset + Len(page) < i
    BY <2>4, <2>6, <2>7, <2>8
  <2>10. Total(page, Matching(query)) = n
    BY <2>7 DEF Total, n
  <2>11. /\ pageOffset + Len(page) \in Nat
         /\ pageOffset + Len(page) < n
         /\ pageOffset + Len(page) <= Rank(b)
    BY <1>2, <2>3, <2>4, <2>7, <2>9
  <2>12. pageOffset' = pageOffset + Len(page) /\ pagePc' = "read"
    BY <2>1, <2>3, <2>10, <2>11 DEF page
  <2>13. Matching(query)' = Matching(query)
    BY <2>2 DEF Matching, SearchBlobs, GetFromPubkeyWithFilter, GetBlobsFromPubkey, Rows, Filtered,
                Sized
  <2>14. Rank(b)' = Rank(b)
    BY <2>2, <2>13 DEF Rank, Ahead, Before
  <2> QED BY <1>2, <2>11, <2>12, <2>13, <2>14
<1> QED BY <1>3, <1>4, <1>5, <1>6, <1>7 DEF PageNext, PageUpload, PageDelete

\* A reader that is given page after page by position misses no blob that was
\* there when it began, whatever is uploaded or gains an owner between two pages,
\* in either order and for pages of any size; unless a blob it lists is deleted
\* meanwhile, or two of them were created in the same second.
THEOREM ListingComplete ==
    ASSUME ListingAssumption
    PROVE  PageSpec => []PagesComplete
<1>1. PageInit => PageTypes /\ StillAhead
  <2> SUFFICES ASSUME PageInit PROVE PageTypes /\ StillAhead
    OBVIOUS
  <2>1. PageTypes
    <3>1. now \in Nat /\ \A t \in 0..now : t \in Nat
      <4>1. now \in 1..Seconds /\ Seconds \in Nat
        BY DEF PageInit, ListingAssumption
      <4> QED BY <4>1
    <3>2. created \in [PageBlobs -> Nat]
      BY <3>1 DEF PageInit
    <3> QED BY <3>1, <3>2 DEF PageInit, PageTypes
  <2>2. \A b \in Matching(query) : Rank(b) \in Nat
    BY MatchingRows, FS_Subset, FS_CardinalityType DEF Rank, Ahead, ListingAssumption
  <2> QED BY <2>1, <2>2 DEF PageInit, StillAhead
<1>2. PageTypes /\ StillAhead /\ [PageNext]_pageVars => PageTypes' /\ StillAhead'
  BY PageTypesStep, AheadStep
<1>3. StillAhead => PagesComplete
  BY DEF StillAhead, PagesComplete
<1> QED BY <1>1, <1>2, <1>3, PTL DEF PageSpec

\* A page is of rows, and has a length.
LEMMA PageTyped ==
    ASSUME NEW T, NEW n \in Nat, NEW s \in [1..n -> T], NEW limit \in Nat, NEW o \in Nat
    PROVE  /\ Len(Page(s, limit, o)) \in Nat
           /\ \A i \in DOMAIN Page(s, limit, o) : Page(s, limit, o)[i] \in T
<1>1. s \in Seq(T) /\ Len(s) = n
  BY SeqDef, LenProperties
<1>2. PICK last \in Nat : last = (IF o + limit < n THEN o + limit ELSE n) /\ last <= n
  OBVIOUS
<1>3. SubSeq(s, o + 1, last) \in Seq(T)
  <2>1. \A i \in o + 1 .. last : s[i] \in T
    BY <1>2
  <2> QED BY <2>1, SubSeqProperties
<1>4. Page(s, limit, o) \in Seq(T)
  BY <1>1, <1>2, <1>3 DEF Page
<1> QED BY <1>4

\* No step leaves the types; a blob has a row as long as somebody owns it.
LEMMA PageTypeStep == ASSUME ListingAssumption, PageTypeOK, [PageNext]_pageVars PROVE PageTypeOK'
<1> USE DEF PageTypeOK, store, pageReader
<1>0. /\ Seconds \in Nat /\ Changes \in Nat /\ now \in 1..Seconds /\ now \in 0..Seconds /\ now # 0
      /\ 0 \in 0..Seconds
  <2>1. Seconds \in Nat /\ Changes \in Nat
    BY DEF ListingAssumption
  <2>2. now \in 1..Seconds
    OBVIOUS
  <2>3. now \in 0..Seconds /\ now # 0 /\ 0 \in 0..Seconds
    BY <2>1, <2>2 DEF PageTypeOK
  <2> QED BY <2>1, <2>2, <2>3
<1>1. CASE UNCHANGED pageVars
  BY <1>1 DEF pageVars
<1>2. CASE ReadPage
  <2>1. PICK s \in Orders(Matching(query), query.desc) :
          LET page == Page(s, Limit(query), pageOffset) IN
          /\ pageOffset' = pageOffset + Len(page)
          /\ pageSeen' = pageSeen \cup {page[i] : i \in DOMAIN page}
          /\ pagePc' = IF pageOffset' >= Total(page, Matching(query)) THEN "done" ELSE "read"
    BY <1>2 DEF ReadPage
  <2>2. PICK n \in Nat : n = Cardinality(Matching(query))
    BY MatchingRows, FS_Subset, FS_CardinalityType DEF ListingAssumption
  <2>3. Limit(query) \in Nat
    <3>1. query.limit \in Int
      BY DEF ListingAssumption
    <3> QED BY <3>1, LimitTyped DEF Limit
  <2>4. s \in [1..n -> PageBlobs]
    BY <2>2, MatchingRows DEF Orders
  <2> DEFINE page == Page(s, Limit(query), pageOffset)
  <2>5. Len(page) \in Nat /\ \A i \in DOMAIN page : page[i] \in PageBlobs
    BY <2>3, <2>4, PageTyped
  <2>6. /\ pageOffset' = pageOffset + Len(page)
        /\ pageSeen' = pageSeen \cup {page[i] : i \in DOMAIN page}
    BY <2>1
  <2> HIDE DEF page
  <2>7. pageOffset' \in Nat /\ pageSeen' \subseteq PageBlobs
    BY <2>5, <2>6
  <2>8. pagePc' \in {"read", "done"}
    BY <2>1
  <2>9. pageSteady' \in BOOLEAN
    BY <1>2 DEF ReadPage
  <2> QED BY <1>2, <2>7, <2>8, <2>9 DEF ReadPage
<1>3. CASE Tick
  <2>1. now' \in 1..Seconds
    BY <1>0, <1>3 DEF Tick
  <2> QED BY <1>3, <2>1 DEF Tick
<1>4. ASSUME NEW b \in PageBlobs, NEW k \in PageKeys, PageUpload(b, k) PROVE PageTypeOK'
  <2>1. changes' \in 0..Changes
    BY <1>0, <1>4 DEF PageUpload
  <2>2. /\ created' \in [PageBlobs -> 0..Seconds] /\ owners' \in [PageBlobs -> SUBSET PageKeys]
        /\ \A c \in PageBlobs : owners'[c] = {} <=> created'[c] = 0
    BY <1>0, <1>4 DEF PageUpload, Rows
  <2> QED BY <1>4, <2>1, <2>2 DEF PageUpload
<1>5. ASSUME NEW b \in PageBlobs, NEW k \in PageKeys, PageDelete(b, k) PROVE PageTypeOK'
  <2>1. changes' \in 0..Changes
    BY <1>0, <1>5 DEF PageDelete
  <2>2. /\ created' \in [PageBlobs -> 0..Seconds] /\ owners' \in [PageBlobs -> SUBSET PageKeys]
        /\ \A c \in PageBlobs : owners'[c] = {} <=> created'[c] = 0
    BY <1>0, <1>5 DEF PageDelete
  <2>3. pageSteady' \in BOOLEAN
    BY <1>5 DEF PageDelete
  <2> QED BY <1>5, <2>1, <2>2, <2>3 DEF PageDelete
<1> QED BY <1>1, <1>2, <1>3, <1>4, <1>5 DEF PageNext

\* The types of the rows and of a reader of their pages; a blob has a row as long
\* as somebody owns it.
THEOREM ListingTypes == ASSUME ListingAssumption PROVE PageSpec => []PageTypeOK
<1>1. PageInit => PageTypeOK
  <2> SUFFICES ASSUME PageInit PROVE PageTypeOK
    OBVIOUS
  <2>0. Seconds \in Nat /\ Changes \in Nat /\ now \in 1..Seconds
    BY DEF PageInit, ListingAssumption
  <2>1. now \in 1..Seconds /\ Seconds \in Nat /\ 0 \in 0..Changes
    BY <2>0
  <2>2. 0..now \subseteq 0..Seconds
    BY <2>1
  <2>3. created \in [PageBlobs -> 0..Seconds]
    BY <2>2 DEF PageInit
  <2> QED BY <2>1, <2>3, MatchingRows DEF PageInit, PageTypeOK
<1>2. PageTypeOK /\ [PageNext]_pageVars => PageTypeOK'
  BY PageTypeStep
<1> QED BY <1>1, <1>2, PTL DEF PageSpec

------------------------------------------------------------------------------
\* MODERATION.

\* An upload about to save by the way that asks for removed hashes had looked
\* before any report of its blob was acted on, unless a lookup failed; and only a
\* tus upload is sent in parts.
PassedEarly ==
    \A u \in ModUploads :
        /\ modUpc[u] = "save" => (way[u] # "upload" \/ u \in early \/ Blob[u] \in erred)
        /\ modUpc[u] \in {"patch", "final"} => way[u] = "tus"

\* A decision that has marked the name has it on the list; so has a report that
\* was acted on.
MarkedByReview ==
    /\ \A d \in Decisions :
         dpc[d] = "review" /\ action[d] # "dismissed" => Name(d) \in modRemoved \cup erred
    /\ \A h \in ModHashes : ActedOn(h) => h \in modRemoved \cup erred

\* A decision past the deletion left no row, and nothing has brought one back
\* but an upload that slipped through or came by a way that does not ask.
DeletedByMark ==
    \A d \in Decisions :
        dpc[d] \in {"mark", "review", "done"} /\ action[d] # "dismissed" /\ Name(d) \in ModHashes
            => uploader[Name(d)] = ModNobody \/ Name(d) \in slipped \cup unasked \cup erred

\* A report that says actioned was acted on by a decision that is done.
ActedByDecision ==
    \A r \in Reports : report[r] = "actioned" =>
        \E d \in Decisions : on[d] = r /\ dpc[d] = "done" /\ action[d] # "dismissed"

DismissedDeletesNothing ==
    \A d \in Decisions : action[d] = "dismissed" => dpc[d] \in {"idle", "review", "done"}

\* A decision that bans or deletes has found an uploader.
KnownUploader == \A d \in Decisions : dpc[d] \in {"ban", "block", "delete"} => modSeen[d] # ModNobody

ModInv ==
    ModTypeOK /\ KnownUploader /\ PassedEarly /\ MarkedByReview /\ DeletedByMark /\ ActedByDecision
        /\ DismissedDeletesNothing

\* No report and no decision at first.
LEMMA ModStart == ASSUME ModerationAssumption, ModInit PROVE ModInv
<1>1. modUpc \in [ModUploads -> {"idle", "quota", "patch", "final", "check", "save", "done"}]
  BY DEF ModInit, FirstCheck
<1>2. PassedEarly
  BY DEF ModInit, PassedEarly, FirstCheck
<1>3. ModTypeOK
  BY <1>1 DEF ModerationAssumption, ModInit, ModTypeOK
<1> QED BY <1>2, <1>3
        DEF ModInit, ModInv, KnownUploader, MarkedByReview, DeletedByMark, ActedByDecision,
            DismissedDeletesNothing, ActedOn

\* What a decision does when it moves on without touching a report.
LEMMA DecisionMoves ==
    ASSUME ModerationAssumption, ModInv, NEW d \in Decisions, dpc[d] # "done",
           NEW l \in {"find", "ban", "block", "delete", "mark", "review"}, ModGoto(d, l),
           Stay, UNCHANGED modReports, ModTypeOK', KnownUploader',
           modRemoved \subseteq modRemoved', erred \subseteq erred',
           \A h \in ModHashes :
               \/ uploader'[h] = ModNobody
               \/ uploader'[h] = uploader[h] /\ (h \in slipped \cup unasked => h \in slipped' \cup unasked'),
           action[d] = "dismissed" => l = "review",
           l = "mark" /\ Name(d) \in ModHashes => uploader'[Name(d)] = ModNobody \/ Name(d) \in erred',
           l = "review" => \/ action[d] = "dismissed"
                           \/ dpc[d] = "mark" /\ Name(d) \in modRemoved' \cup erred'
    PROVE  ModInv'
<1>1. /\ dpc'[d] = l /\ \A e \in Decisions \ {d} : dpc'[e] = dpc[e]
      /\ \A e \in Decisions : Name(e)' = Name(e) /\ on'[e] = on[e] /\ action'[e] = action[e]
      /\ UNCHANGED <<way, modUpc, early, report>>
  BY DEF ModGoto, ModInv, ModTypeOK, Stay, uploads, Name, modReports
<1>2. PassedEarly'
  BY <1>1 DEF ModInv, PassedEarly
<1>3. MarkedByReview'
  BY <1>1 DEF ModInv, MarkedByReview, ActedOn
<1>4. DeletedByMark'
  BY <1>1 DEF ModInv, DeletedByMark
<1>5. ActedByDecision'
  BY <1>1 DEF ModInv, ActedByDecision
<1>6. DismissedDeletesNothing'
  BY <1>1 DEF ModInv, DismissedDeletesNothing
<1> QED BY <1>2, <1>3, <1>4, <1>5, <1>6 DEF ModInv

\* Decisions, uploads and the operator's lists keep who marked what deleted and why.
LEMMA ModStep == ASSUME ModerationAssumption, ModInv, [ModNext]_modVars PROVE ModInv'
<1>1. CASE UNCHANGED modVars
  BY <1>1 DEF modVars, modRows, modReports, users, decisions, uploads, ModInv, ModTypeOK, KnownUploader,
              PassedEarly, MarkedByReview,
              DeletedByMark, ActedByDecision, DismissedDeletesNothing, ActedOn, Name
<1>2. ASSUME NEW r \in Reports, SubmitReport(r) \/ SubmitReportBUD09(r) PROVE ModInv'
  <2>1. /\ report[r] = "none" /\ report' = [report EXCEPT ![r] = "pending"]
        /\ UNCHANGED <<acted, modRows, modRemoved, users, decisions, uploads, erred>>
    BY <1>2 DEF SubmitReport, SubmitReportBUD09, CreateReport
  <2>2. /\ report'[r] = "pending" /\ \A q \in Reports \ {r} : report'[q] = report[q]
        /\ report' \in [Reports -> {"none", "pending", "actioned", "dismissed"}]
    BY <2>1 DEF ModInv, ModTypeOK
  <2>3. ModTypeOK'
    BY <2>1, <2>2 DEF ModInv, ModTypeOK, modRows, users, decisions, uploads
  <2>4. \A h \in ModHashes : ActedOn(h)' => ActedOn(h)
    BY <2>2 DEF ActedOn
  <2>5. ActedByDecision'
    BY <2>1, <2>2 DEF ModInv, ActedByDecision, decisions
  <2> QED BY <2>1, <2>3, <2>4, <2>5
          DEF ModInv, KnownUploader, PassedEarly, MarkedByReview, DeletedByMark,
              DismissedDeletesNothing, modRows, decisions, uploads, Name
<1>3. ASSUME NEW d \in Decisions, ActionReport(d) PROVE ModInv'
  <2>1. PICK l \in {"find", "review"} : ModGoto(d, l) /\ (l = "review" <=> action[d] = "dismissed")
    BY <1>3 DEF ActionReport
  <2>2. /\ dpc[d] = "idle"
        /\ Stay
        /\ UNCHANGED <<modReports, modRows, modRemoved, users, modSeen, erred>>
    BY <1>3 DEF ActionReport, ModIn
  <2>3. ModTypeOK' /\ KnownUploader'
    BY <2>1, <2>2
       DEF ModInv, ModTypeOK, KnownUploader, ModGoto, Stay, modRows, modReports, users, uploads
  <2> QED BY <2>1, <2>2, <2>3, DecisionMoves DEF modRows
<1>4. ASSUME NEW d \in Decisions, FindBlob(d) PROVE ModInv'
  <2>1. /\ dpc[d] = "find"
        /\ Stay
        /\ UNCHANGED <<modReports, modRows, modRemoved, users>>
        /\ action[d] # "dismissed"
    BY <1>4 DEF FindBlob, ModIn, ModInv, DismissedDeletesNothing
  <2>2. PICK l \in {"mark", "ban", "delete"} :
          /\ ModGoto(d, l)
          /\ l = "mark" => GetFromHash(Name(d)) = ModNobody \/ Name(d) \in erred'
          /\ erred \subseteq erred' /\ erred' \subseteq erred \cup {Name(d)}
          /\ modSeen' \in {modSeen, [modSeen EXCEPT ![d] = GetFromHash(Name(d))]}
          /\ l # "mark" => modSeen'[d] # ModNobody
    <3>1. CASE /\ modSeen' = [modSeen EXCEPT ![d] = GetFromHash(Name(d))] /\ UNCHANGED erred
               /\ ModGoto(d, IF modSeen'[d] = ModNobody THEN NotFound
                             ELSE IF action[d] = "user_banned" THEN "ban" ELSE "delete")
      <4>1. modSeen'[d] = GetFromHash(Name(d))
        BY <3>1 DEF ModInv, ModTypeOK
      <4> QED BY <3>1, <4>1 DEF NotFound
    <3>2. CASE Errs(Name(d)) /\ ModGoto(d, NotFound) /\ UNCHANGED modSeen
      BY <3>2 DEF Errs, NotFound
    <3> QED BY <1>4, <3>1, <3>2 DEF FindBlob
  <2>3. Name(d) \in Names /\ GetFromHash(Name(d)) \in ModPubkeys \cup {ModNobody}
    BY DEF Name, ModInv, ModTypeOK, ModerationAssumption, GetFromHash
  <2>4. ModTypeOK' /\ KnownUploader'
    <3>1. ModTypeOK'
      BY <2>1, <2>2, <2>3 DEF ModInv, ModTypeOK, ModGoto, Stay, modRows, modReports, users, uploads
    <3>2. KnownUploader'
      BY <2>2 DEF ModInv, ModTypeOK, KnownUploader, ModGoto
    <3> QED BY <3>1, <3>2
  <2>5. Name(d) \in ModHashes /\ l = "mark" => uploader'[Name(d)] = ModNobody \/ Name(d) \in erred'
    BY <2>1, <2>2 DEF GetFromHash, modRows
  <2> QED BY <2>1, <2>2, <2>4, <2>5, DecisionMoves DEF modRows
<1>5. ASSUME NEW d \in Decisions, Ban(d) \/ Block(d) PROVE ModInv'
  <2>1. /\ dpc[d] \in {"ban", "block"}
        /\ Stay
        /\ UNCHANGED <<modReports, modRows, modRemoved, modSeen, erred>>
        /\ \E l \in {"block", "delete"} : ModGoto(d, l)
        /\ action[d] # "dismissed"
        /\ banned' \subseteq banned \cup {modSeen[d]}
        /\ blocklist' \subseteq blocklist \cup {modSeen[d]}
    BY <1>5 DEF Ban, Block, ModIn, BanUser, AddToBlocklist, ModInv, DismissedDeletesNothing
  <2>2. ModTypeOK' /\ KnownUploader'
    BY <1>5, <2>1 DEF ModInv, ModTypeOK, KnownUploader, ModGoto, Stay, modRows, modReports, uploads
  <2> QED BY <2>1, <2>2, DecisionMoves DEF modRows
<1>6. ASSUME NEW d \in Decisions, DeleteBlob(d) PROVE ModInv'
  <2>1. /\ dpc[d] = "delete" /\ Stay /\ UNCHANGED <<modReports, modRemoved, users, modSeen>>
        /\ ModGoto(d, "mark") /\ action[d] # "dismissed"
        /\ \/ /\ uploader' = [uploader EXCEPT ![Name(d)] = ModNobody]
              /\ slipped' = slipped \ {Name(d)} /\ unasked' = unasked \ {Name(d)} /\ UNCHANGED erred
           \/ erred' = erred \cup {Name(d)} /\ UNCHANGED <<uploader, slipped, unasked>>
    BY <1>6 DEF DeleteBlob, ModIn, Errs, ModInv, DismissedDeletesNothing, modRows
  <2>2. Name(d) \in Names
    BY DEF Name, ModInv, ModTypeOK, ModerationAssumption
  <2>3. ModTypeOK' /\ KnownUploader'
    BY <2>1, <2>2 DEF ModInv, ModTypeOK, KnownUploader, ModGoto, Stay, modReports, users, uploads
  <2>4. /\ \A h \in ModHashes :
              \/ uploader'[h] = ModNobody
              \/ uploader'[h] = uploader[h] /\ (h \in slipped \cup unasked => h \in slipped' \cup unasked')
        /\ Name(d) \in ModHashes => uploader'[Name(d)] = ModNobody \/ Name(d) \in erred'
    BY <2>1 DEF ModInv, ModTypeOK
  <2> QED BY <2>1, <2>3, <2>4, DecisionMoves
<1>7. ASSUME NEW d \in Decisions, ModMark(d) PROVE ModInv'
  <2>1. /\ dpc[d] = "mark" /\ Stay /\ UNCHANGED <<modReports, modRows, users, modSeen>>
        /\ ModGoto(d, "review") /\ action[d] # "dismissed"
        /\ \/ modRemoved' = modRemoved \cup {Name(d)} /\ UNCHANGED erred
           \/ erred' = erred \cup {Name(d)} /\ UNCHANGED modRemoved
    BY <1>7 DEF ModMark, ModIn, Errs, AddRemovedBlob, ModInv, DismissedDeletesNothing
  <2>2. Name(d) \in Names
    BY DEF Name, ModInv, ModTypeOK, ModerationAssumption
  <2>3. ModTypeOK' /\ KnownUploader'
    BY <2>1, <2>2 DEF ModInv, ModTypeOK, KnownUploader, ModGoto, Stay, modRows, modReports, users, uploads
  <2> QED BY <2>1, <2>3, DecisionMoves DEF modRows
<1>8. ASSUME NEW d \in Decisions, ReviewReport(d) PROVE ModInv'
  <2>1. /\ dpc[d] = "review" /\ dpc' = [dpc EXCEPT ![d] = "done"]
        /\ UNCHANGED <<on, action, way, modUpc, early>>
        /\ UNCHANGED <<uploader, slipped, unasked, modRemoved, users, modSeen, erred>>
        /\ \/ UNCHANGED modReports
           \/ action[d] = "dismissed" /\ UpdateReportStatus(on[d], "dismissed", "none")
           \/ action[d] # "dismissed" /\ UpdateReportStatus(on[d], "actioned", action[d])
    BY <1>8 DEF ReviewReport, ModIn, ModGoto, Stay, uploads, modRows
  <2>2. /\ on[d] \in Reports /\ action[d] \in Decided
        /\ dpc'[d] = "done" /\ \A e \in Decisions \ {d} : dpc'[e] = dpc[e]
        /\ \A e \in Decisions : Name(e)' = Name(e)
    BY <2>1 DEF ModInv, ModTypeOK, Name
  <2>3. \A q \in Reports : report'[q] \in {"none", "pending", "actioned", "dismissed"} /\
          \/ report'[q] = report[q] /\ acted'[q] = acted[q]
          \/ q = on[d] /\ action[d] = "dismissed" /\ report'[q] = "dismissed" /\ acted'[q] = "none"
          \/ q = on[d] /\ action[d] # "dismissed" /\ report'[q] = "actioned" /\ acted'[q] = action[d]
    BY <2>1, <2>2 DEF UpdateReportStatus, ModInv, ModTypeOK, modReports
  <2>4. ModTypeOK'
    <3>1. report' \in [Reports -> {"none", "pending", "actioned", "dismissed"}]
      BY <2>1, <2>2 DEF UpdateReportStatus, ModInv, ModTypeOK, modReports
    <3>2. acted' \in [Reports -> {"none", "removed", "user_banned"}]
      BY <2>1, <2>2 DEF UpdateReportStatus, ModInv, ModTypeOK, modReports, Decided
    <3>3. \A q \in Reports : report'[q] = "actioned" <=> acted'[q] # "none"
      BY <2>2, <2>3 DEF ModInv, ModTypeOK, Decided
    <3> QED BY <2>1, <3>1, <3>2, <3>3 DEF ModInv, ModTypeOK, users
  <2>5. PassedEarly'
    BY <2>1 DEF ModInv, PassedEarly
  <2>6. MarkedByReview'
    <3>1. ASSUME NEW e \in Decisions, dpc'[e] = "review", action'[e] # "dismissed"
          PROVE  Name(e)' \in modRemoved' \cup erred'
      BY <2>1, <2>2, <3>1 DEF ModInv, MarkedByReview
    <3>2. ASSUME NEW h \in ModHashes, ActedOn(h)' PROVE h \in modRemoved' \cup erred'
      <4>1. PICK q \in Reports : About[q] = h /\ report'[q] = "actioned"
        BY <3>2 DEF ActedOn
      <4>2. CASE report[q] = "actioned"
        BY <2>1, <4>1, <4>2 DEF ModInv, MarkedByReview, ActedOn
      <4>3. CASE report[q] # "actioned"
        <5>1. q = on[d] /\ action[d] # "dismissed"
          BY <2>3, <4>1, <4>3
        <5> QED BY <2>1, <4>1, <5>1 DEF ModInv, MarkedByReview, Name
      <4> QED BY <4>2, <4>3
    <3> QED BY <3>1, <3>2 DEF MarkedByReview
  <2>7. DeletedByMark'
    BY <2>1, <2>2 DEF ModInv, DeletedByMark
  <2>8. ActedByDecision'
    <3>1. ASSUME NEW q \in Reports, report'[q] = "actioned"
          PROVE  \E e \in Decisions : on'[e] = q /\ dpc'[e] = "done" /\ action'[e] # "dismissed"
      <4>1. CASE report[q] = "actioned"
        <5>1. PICK e \in Decisions : on[e] = q /\ dpc[e] = "done" /\ action[e] # "dismissed"
          BY <4>1 DEF ModInv, ActedByDecision
        <5> QED BY <2>1, <2>2, <5>1
      <4>2. CASE report[q] # "actioned"
        <5>1. q = on[d] /\ action[d] # "dismissed"
          BY <2>3, <3>1, <4>2
        <5> QED BY <2>1, <2>2, <5>1
      <4> QED BY <4>1, <4>2
    <3> QED BY <3>1 DEF ActedByDecision
  <2>9. DismissedDeletesNothing'
    BY <2>1, <2>2 DEF ModInv, DismissedDeletesNothing
  <2>10. KnownUploader'
    BY <2>1, <2>2 DEF ModInv, KnownUploader
  <2> QED BY <2>4, <2>5, <2>6, <2>7, <2>8, <2>9, <2>10 DEF ModInv
<1>9. ASSUME NEW p \in ModPubkeys, Operate(p) PROVE ModInv'
  BY <1>9 DEF Operate, banUser, unbanUser, addToBlocklist, removeFromBlocklist, BanUser, UnbanUser,
              AddToBlocklist, RemoveFromBlocklist, modRows, modReports, decisions, uploads, ModInv,
              ModTypeOK,
              KnownUploader,
              PassedEarly, MarkedByReview, DeletedByMark, ActedByDecision, DismissedDeletesNothing,
              ActedOn, Name
\* A step of an upload that stores nothing.
<1>10. ASSUME NEW u \in ModUploads, NEW l \in {"quota", "patch", "final", "check", "save", "done"},
              modUpc' = [modUpc EXCEPT ![u] = l],
              UNCHANGED <<modReports, modRows, modRemoved, users, decisions, way>>,
              early \subseteq early', erred \subseteq erred', erred' \subseteq Names,
              l = "save" => (way[u] # "upload" \/ u \in early' \/ Blob[u] \in erred'),
              l \in {"patch", "final"} => way[u] = "tus"
       PROVE  ModInv'
  <2>1. ModTypeOK'
    BY <1>10 DEF ModInv, ModTypeOK, modRows, modReports, users, decisions
  <2>2. PassedEarly'
    BY <1>10 DEF ModInv, ModTypeOK, PassedEarly
  <2> QED BY <1>10, <2>1, <2>2
          DEF ModInv, KnownUploader, MarkedByReview, DeletedByMark, ActedByDecision,
              DismissedDeletesNothing,
              ActedOn, Name, modRows, modReports, decisions
<1>11. ASSUME NEW u \in ModUploads,
              CheckBlocked(u) \/ CheckBanned(u) \/ PatchTus(u) \/ FinalizeTus(u)
       PROVE  ModInv'
  <2>1. UNCHANGED <<modReports, modRows, modRemoved, users, decisions, way, early, erred>>
    BY <1>11 DEF CheckBlocked, CheckBanned, PatchTus, FinalizeTus, ModRefuse
  <2>2. modUpc[u] \in {"patch", "final"} => way[u] = "tus"
    BY DEF ModInv, PassedEarly
  <2>3. PICK l \in {"quota", "patch", "final", "check", "save", "done"} :
          /\ modUpc' = [modUpc EXCEPT ![u] = l]
          /\ l = "save" => way[u] # "upload"
          /\ l \in {"patch", "final"} => way[u] = "tus"
    <3>1. way[u] \in Ways
      BY DEF ModInv, ModTypeOK
    <3> QED BY <1>11, <2>2, <3>1
            DEF CheckBlocked, CheckBanned, PatchTus, FinalizeTus, ModRefuse, AfterQuota, Ways
  <2> QED BY <1>10, <2>1, <2>3 DEF ModInv, ModTypeOK
<1>12. ASSUME NEW u \in ModUploads, ModCheckRemoved(u) PROVE ModInv'
  <2>1. Blob[u] \in ModHashes /\ Blob[u] \in Names
    BY DEF ModerationAssumption
  <2>2. CASE ModRefuse(u, "save", IsHashRemoved(Blob[u])) /\ UNCHANGED erred
    <3>1. ASSUME ~IsHashRemoved(Blob[u]), Blob[u] \notin erred PROVE u \in early'
      <4>1. ~ActedOn(Blob[u])
        BY <2>1, <3>1 DEF IsHashRemoved, ModInv, MarkedByReview
      <4> QED BY <1>12, <4>1 DEF ModCheckRemoved
    <3>2. early \subseteq early' /\ erred' = erred
      BY <1>12, <2>2 DEF ModCheckRemoved
    <3>3. /\ UNCHANGED <<modReports, modRows, modRemoved, users, decisions, way>>
          /\ modUpc' = [modUpc EXCEPT ![u] = IF IsHashRemoved(Blob[u]) THEN "done" ELSE "save"]
      BY <2>2 DEF ModRefuse
    <3> QED BY <1>10, <3>1, <3>2, <3>3 DEF ModInv, ModTypeOK
  <2>3. CASE ModRefuse(u, "save", FALSE) /\ Errs(Blob[u])
    <3>1. early \subseteq early' /\ erred' = erred \cup {Blob[u]}
      BY <1>12, <2>3 DEF ModCheckRemoved, Errs
    <3>2. /\ UNCHANGED <<modReports, modRows, modRemoved, users, decisions, way>>
          /\ modUpc' = [modUpc EXCEPT ![u] = "save"]
      BY <2>3 DEF ModRefuse
    <3> QED BY <1>10, <2>1, <3>1, <3>2 DEF ModInv, ModTypeOK
  <2> QED BY <1>12, <2>2, <2>3 DEF ModCheckRemoved
<1>13. ASSUME NEW u \in ModUploads, ModSave(u) PROVE ModInv'
  <2>1. /\ modUpc[u] = "save" /\ modUpc' = [modUpc EXCEPT ![u] = "done"]
        /\ uploader' = [uploader EXCEPT ![Blob[u]] = IF @ = ModNobody THEN ModKey[u] ELSE @]
        /\ slipped' = IF u \in early /\ Beside(Blob[u]) THEN slipped \cup {Blob[u]} ELSE slipped
        /\ unasked' = IF way[u] = "upload" THEN unasked ELSE unasked \cup {Blob[u]}
        /\ UNCHANGED <<modReports, modRemoved, users, decisions, way, early, erred>>
    BY <1>13 DEF ModSave
  <2>2. /\ Blob[u] \in ModHashes /\ ModKey[u] \in ModPubkeys
        /\ way[u] # "upload" \/ u \in early \/ Blob[u] \in erred
    BY <2>1 DEF ModerationAssumption, ModInv, PassedEarly
  <2>3. ModTypeOK'
    BY <2>1, <2>2 DEF ModInv, ModTypeOK, modReports, users, decisions
  <2>4. PassedEarly'
    BY <2>1 DEF ModInv, ModTypeOK, PassedEarly
  <2>5. DeletedByMark'
    <3>1. ASSUME NEW d \in Decisions, dpc[d] \in {"mark", "review", "done"},
                 action[d] # "dismissed",
                 Name(d) \in ModHashes
          PROVE  uploader'[Name(d)] = ModNobody \/ Name(d) \in slipped' \cup unasked' \cup erred'
      <4>1. CASE Name(d) = Blob[u]
        <5>1. Beside(Blob[u])
          BY <3>1, <4>1 DEF Beside
        <5> QED BY <2>1, <2>2, <4>1, <5>1
      <4>2. CASE Name(d) # Blob[u]
        <5>1. uploader'[Name(d)] = uploader[Name(d)] /\ slipped \subseteq slipped' /\ unasked \subseteq unasked'
          BY <2>1, <3>1, <4>2 DEF ModInv, ModTypeOK
        <5> QED BY <2>1, <3>1, <5>1 DEF ModInv, DeletedByMark
      <4> QED BY <4>1, <4>2
    <3>2. \A d \in Decisions : Name(d)' = Name(d) /\ dpc'[d] = dpc[d] /\ action'[d] = action[d]
      BY <2>1 DEF Name, decisions
    <3> QED BY <3>1, <3>2 DEF DeletedByMark
  <2> QED BY <2>1, <2>3, <2>4, <2>5
          DEF ModInv, KnownUploader, MarkedByReview, ActedByDecision, DismissedDeletesNothing,
              ActedOn, Name, modReports, decisions
<1> QED BY <1>1, <1>2, <1>3, <1>4, <1>5, <1>6, <1>7, <1>8, <1>9, <1>11, <1>12, <1>13
        DEF ModNext, Decide, ModUpload

\* A blob whose report says that it was acted on is not stored, however decisions,
\* operators and uploads interleave, and PUT /upload and PUT /mirror do not bring
\* it back; but where a statement failed, where such an upload had passed the
\* check before, and until an upload stores it by a way that does not ask
\* (ActionReport, UploadBlob, SaveWithDedup).
THEOREM ActionedStaysGone == ASSUME ModerationAssumption PROVE ModSpec => []ActionedIsGone
<1>1. ModInit => ModInv
  BY ModStart
<1>2. ModInv /\ [ModNext]_modVars => ModInv'
  BY ModStep
<1>3. ModInv => ActionedIsGone
  BY DEF ModInv, ActedByDecision, DeletedByMark, ActionedIsGone, Name
<1> QED BY <1>1, <1>2, <1>3, PTL DEF ModSpec

\* The types of the reports, the decisions and the uploads beside them.
THEOREM ModerationTypes == ASSUME ModerationAssumption PROVE ModSpec => []ModTypeOK
<1>1. ModInit => ModInv
  BY ModStart
<1>2. ModInv /\ [ModNext]_modVars => ModInv'
  BY ModStep
<1>3. ModInv => ModTypeOK
  BY DEF ModInv
<1> QED BY <1>1, <1>2, <1>3, PTL DEF ModSpec
==============================================================================
