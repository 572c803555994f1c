-------------------------- MODULE BackgroundProofs ---------------------------
(***************************************************************************)
(* Theorems about what goes on behind the pages of the web client: the     *)
(* upload gateway, the accounts page, the staged review, the mock's        *)
(* imports, the import hub, data & privacy and the filing wizard, for      *)
(* every number of uploads, links, jobs, files, exports and filings, and   *)
(* of the whole they make.                                                 *)
(***************************************************************************)
EXTENDS MCWebBackground, FiniteSetTheorems, SequenceTheorems, WellFoundedInduction,
        TLAPS

-----------------------------------------------------------------------------
(* The upload gateway                                                      *)

UploadSteps == {"none", "reading", "read", "checked", "stored", "claimed", "published", "answered"}

HeaderNames == {"content-type", "cookie", "authorization", "x-org-id", "upload-ticket"}

UploadState ==
  [step : UploadSteps, ticket : SUBSET GatewayTickets, headers : SUBSET HeaderNames, answer : Nat]

\* What was sent for a ticket, as the gateway stores it.
StoredFor(t) == {Downscaled(fileOf[t])}

GatewayTyped ==
  /\ upload \in [Uploads -> UploadState]
  /\ DOMAIN tmp = GatewayTickets
  /\ \A r \in Uploads : upload[r].step # "none" => \E t \in GatewayTickets : upload[r].ticket = {t}

\* What a request has done is told by its step.
StepsLeaveTraces ==
  \A r \in Uploads :
    /\ upload[r].step \in {"stored", "claimed", "published"} =>
         tmp[TicketOf(r)] = StoredFor(TicketOf(r))
    /\ upload[r].step \in {"claimed", "published"} => r \in claims
    /\ upload[r].step = "published" => \E m \in published : m.upload = r
    /\ upload[r].step # "answered" => upload[r].answer = 0

MessagesDescribeFiles ==
  \A m \in published : m.ticket \in GatewayTickets /\ {m.describes} = StoredFor(m.ticket)

GatewayInv ==
  GatewayTyped /\ StepsLeaveTraces /\ MessagesDescribeFiles /\ HandedOverWhole

\* A request names one ticket.
LEMMA OneTicket ==
  ASSUME GatewayTyped, NEW r \in Uploads, upload[r].step # "none"
  PROVE  TicketOf(r) \in GatewayTickets /\ upload[r].ticket = {TicketOf(r)}
<1>1. PICK t \in GatewayTickets : upload[r].ticket = {t}
  BY DEF GatewayTyped
<1>2. TicketOf(r) = t
  BY <1>1 DEF TicketOf
<1> QED BY <1>1, <1>2

LEMMA GatewayStart == UploadGatewayInit => GatewayInv
BY DEF UploadGatewayInit, GatewayInv, GatewayTyped, StepsLeaveTraces, MessagesDescribeFiles,
       HandedOverWhole, NoUpload, UploadSteps, UploadState

\* One request comes to another step, with an answer when it is its last.
Comes(r, step, code) ==
  /\ upload' \in [Uploads -> UploadState]
  /\ \A q \in Uploads \ {r} : upload'[q] = upload[q]
  /\ upload'[r].ticket = upload[r].ticket
  /\ upload'[r].step = step /\ upload'[r].answer = code

\* What answering makes of a request.
Ended(u, code) == [u EXCEPT !.step = "answered", !.answer = code]

LEMMA EndedTyped ==
  ASSUME NEW u \in UploadState, NEW code \in Nat
  PROVE  /\ Ended(u, code) \in UploadState /\ Ended(u, code).ticket = u.ticket
         /\ Ended(u, code).step = "answered" /\ Ended(u, code).answer = code
BY DEF Ended, UploadState, UploadSteps

LEMMA Answers ==
  ASSUME GatewayTyped, NEW r \in Uploads, NEW code \in Nat, Answer(r, code)
  PROVE  Comes(r, "answered", code)
<1> DEFINE rec == [upload[r] EXCEPT !.step = "answered", !.answer = code]
<1>1. rec \in UploadState /\ rec.ticket = upload[r].ticket /\ rec.step = "answered" /\ rec.answer = code
  BY DEF GatewayTyped, UploadState, UploadSteps
<1>2. upload' = [upload EXCEPT ![r] = rec]
  BY DEF Answer, GatewayTyped
<1> HIDE DEF rec
<1> QED BY <1>1, <1>2 DEF GatewayTyped, UploadState, Comes

LEMMA GoesOn ==
  ASSUME GatewayTyped, NEW r \in Uploads, NEW step \in UploadSteps, GoOn(r, step)
  PROVE  Comes(r, step, upload[r].answer)
<1> DEFINE rec == [upload[r] EXCEPT !.step = step]
<1>1. rec \in UploadState /\ rec.ticket = upload[r].ticket /\ rec.step = step /\ rec.answer = upload[r].answer
  BY DEF GatewayTyped, UploadState, UploadSteps
<1>2. upload' = [upload EXCEPT ![r] = rec]
  BY DEF GoOn, GatewayTyped
<1> HIDE DEF rec
<1> QED BY <1>1, <1>2 DEF GatewayTyped, UploadState, Comes

\* What holds after a request came to a step whose traces are there.
LEMMA ComesWithTraces ==
  ASSUME GatewayInv, NEW r \in Uploads, upload[r].step # "none",
         NEW step \in UploadSteps \ {"none"}, NEW code \in Nat, Comes(r, step, code),
         fileOf' = fileOf,
         DOMAIN tmp' = GatewayTickets,
         \A t \in GatewayTickets : tmp'[t] = tmp[t] \/ tmp'[t] = StoredFor(t),
         claims \subseteq claims', published \subseteq published',
         \A m \in published' \ published :
           /\ m.upload \in claims' /\ m.ticket \in GatewayTickets
           /\ {m.describes} = StoredFor(m.ticket) /\ tmp'[m.ticket] = StoredFor(m.ticket),
         step \in {"stored", "claimed", "published"} => tmp'[TicketOf(r)] = StoredFor(TicketOf(r)),
         step \in {"claimed", "published"} => r \in claims',
         step = "published" \/ code = 202 => \E m \in published' : m.upload = r,
         step # "answered" => code = 0
  PROVE  GatewayInv'
<1>1. \A q \in Uploads : TicketOf(q)' = TicketOf(q)
  BY DEF TicketOf, Comes
<1>2. \A t \in GatewayTickets : StoredFor(t)' = StoredFor(t)
  BY DEF StoredFor
<1>3. GatewayTyped'
  BY DEF GatewayInv, GatewayTyped, Comes, UploadState
<1>4. StepsLeaveTraces'
  <2> SUFFICES ASSUME NEW q \in Uploads
               PROVE  (/\ upload[q].step \in {"stored", "claimed", "published"} =>
                            tmp[TicketOf(q)] = StoredFor(TicketOf(q))
                       /\ upload[q].step \in {"claimed", "published"} => q \in claims
                       /\ upload[q].step = "published" => \E m \in published : m.upload = q
                       /\ upload[q].step # "answered" => upload[q].answer = 0)'
    BY DEF StepsLeaveTraces
  <2>1. CASE q = r
    BY <2>1, <1>1, <1>2, OneTicket DEF Comes, GatewayInv
  <2>2. CASE q # r
    <3>1. upload'[q] = upload[q]
      BY <2>2 DEF Comes
    <3>2. upload[q].step # "none" => TicketOf(q) \in GatewayTickets
      BY OneTicket DEF GatewayInv
    <3> QED BY <3>1, <3>2, <1>1, <1>2 DEF GatewayInv, StepsLeaveTraces
  <2> QED BY <2>1, <2>2
<1>5. MessagesDescribeFiles'
  BY <1>2 DEF GatewayInv, MessagesDescribeFiles
<1>6. HandedOverWhole'
  <2>1. \A q \in Uploads : upload'[q].answer = 202 => \E m \in published' : m.upload = q
    BY DEF GatewayInv, HandedOverWhole, Comes
  <2>2. \A m \in published' : m.upload \in claims' /\ tmp'[m.ticket] = {m.describes}
    BY DEF GatewayInv, HandedOverWhole, MessagesDescribeFiles
  <2> QED BY <2>1, <2>2 DEF HandedOverWhole
<1> QED BY <1>3, <1>4, <1>5, <1>6 DEF GatewayInv

\* A request that only moves on, or is refused, changes nothing else.
LEMMA OnlyMoves ==
  ASSUME GatewayInv, NEW r \in Uploads, upload[r].step # "none",
         UNCHANGED <<fileOf, tmp, claims, published>>,
         \/ \E code \in Nat \ {202} : Answer(r, code)
         \/ \E step \in {"reading", "read", "checked"} :
              GoOn(r, step) /\ upload[r].step # "answered"
  PROVE  GatewayInv'
<1> USE DEF GatewayInv
<1>1. DOMAIN tmp' = GatewayTickets
  BY DEF GatewayTyped
<1>2. ASSUME NEW code \in Nat \ {202}, Answer(r, code) PROVE GatewayInv'
  BY <1>1, <1>2, Answers, ComesWithTraces DEF UploadSteps
<1>3. ASSUME NEW step \in {"reading", "read", "checked"}, GoOn(r, step), upload[r].step # "answered"
      PROVE  GatewayInv'
  <2>1. upload[r].answer = 0
    BY <1>3 DEF StepsLeaveTraces
  <2> QED BY <1>1, <1>3, <2>1, GoesOn, ComesWithTraces DEF UploadSteps
<1> QED BY <1>2, <1>3

LEMMA Sends ==
  ASSUME GatewayInv, NEW r \in Uploads, SendFile(r)
  PROVE  GatewayInv'
<1>1. PICK t \in GatewayTickets :
        LET begun == [step |-> "reading", ticket |-> {t}, answer |-> 0,
                      headers |-> Proxied(ClientHeaders(TRUE), TRUE)]
        IN upload' = [upload EXCEPT ![r] =
                        IF Verified(t) THEN begun
                        ELSE [begun EXCEPT !.step = "answered", !.answer = 401]]
  BY ZenonT(30) DEF SendFile
<1> DEFINE h == Proxied(ClientHeaders(TRUE), TRUE)
<1>2. h \in SUBSET HeaderNames
  BY DEF Proxied, HeaderNames
<1> HIDE DEF h
<1> DEFINE begun == [step |-> "reading", ticket |-> {t}, answer |-> 0, headers |-> h]
<1>3. begun \in UploadState /\ begun.ticket = {t} /\ begun.step = "reading" /\ begun.answer = 0
  BY <1>2 DEF UploadState, UploadSteps
<1> DEFINE rec == IF Verified(t) THEN begun ELSE Ended(begun, 401)
<1>12. upload' = [upload EXCEPT ![r] = rec]
  BY <1>1 DEF h, Ended
<1> HIDE DEF begun
<1>4. /\ rec \in UploadState /\ rec.ticket = {t}
      /\ rec.step \in {"reading", "answered"} /\ rec.answer # 202
      /\ rec.step # "answered" => rec.answer = 0
  <2>1. CASE Verified(t)
    BY <1>3, <2>1
  <2>2. CASE ~ Verified(t)
    <3>1. /\ Ended(begun, 401) \in UploadState /\ Ended(begun, 401).ticket = {t}
          /\ Ended(begun, 401).step = "answered" /\ Ended(begun, 401).answer = 401
      BY <1>3, EndedTyped
    <3> QED BY <2>2, <3>1
  <2> QED BY <2>1, <2>2
<1> HIDE DEF rec
<1>5. upload' \in [Uploads -> UploadState] /\ \A q \in Uploads : upload'[q] = IF q = r THEN rec ELSE upload[q]
  BY <1>12, <1>4 DEF GatewayInv, GatewayTyped
<1>6. UNCHANGED <<fileOf, tmp, claims, published>> /\ upload[r].step = "none"
  BY DEF SendFile
<1>7. \A q \in Uploads \ {r} : TicketOf(q)' = TicketOf(q)
  BY <1>5 DEF TicketOf
<1>8. \A x : StoredFor(x)' = StoredFor(x)
  BY <1>6 DEF StoredFor
<1>9. GatewayTyped'
  BY <1>4, <1>5, <1>6 DEF GatewayInv, GatewayTyped
<1>10. StepsLeaveTraces'
  BY <1>4, <1>5, <1>6, <1>7, <1>8 DEF GatewayInv, StepsLeaveTraces
<1>11. MessagesDescribeFiles' /\ HandedOverWhole'
  BY <1>4, <1>5, <1>6, <1>8 DEF GatewayInv, MessagesDescribeFiles, HandedOverWhole
<1> QED BY <1>9, <1>10, <1>11 DEF GatewayInv

LEMMA Stores ==
  ASSUME GatewayInv, NEW r \in Uploads, StoreObject(r)
  PROVE  GatewayInv'
<1>1. upload[r].step = "checked" /\ UNCHANGED <<fileOf, claims, published>> /\ upload[r].answer = 0
  BY DEF StoreObject, GatewayInv, StepsLeaveTraces
<1>2. TicketOf(r) \in GatewayTickets
  BY <1>1, OneTicket DEF GatewayInv
<1>3. CASE GoOn(r, "stored") /\ tmp' = [tmp EXCEPT ![TicketOf(r)] = StoredFor(TicketOf(r))]
  <2>1. /\ DOMAIN tmp' = GatewayTickets
        /\ \A t \in GatewayTickets : tmp'[t] = tmp[t] \/ tmp'[t] = StoredFor(t)
        /\ tmp'[TicketOf(r)] = StoredFor(TicketOf(r))
    BY <1>2, <1>3 DEF GatewayInv, GatewayTyped
  <2>2. Comes(r, "stored", 0)
    BY <1>1, <1>3, GoesOn DEF GatewayInv, UploadSteps
  <2> QED BY <1>1, <2>1, <2>2, ComesWithTraces DEF UploadSteps
<1>4. CASE Fails("storage", r, 503) /\ UNCHANGED tmp
  BY <1>1, <1>4, OnlyMoves DEF Fails
<1> QED BY <1>3, <1>4 DEF StoreObject, StoredFor, FileSent

LEMMA Claims ==
  ASSUME GatewayInv, NEW r \in Uploads, StoreClaim(r)
  PROVE  GatewayInv'
<1>1. upload[r].step = "stored" /\ UNCHANGED <<fileOf, tmp, published>> /\ upload[r].answer = 0
  BY DEF StoreClaim, GatewayInv, StepsLeaveTraces
<1>2. CASE GoOn(r, "claimed") /\ claims' = claims \cup {r}
  <2>1. Comes(r, "claimed", 0)
    BY <1>1, <1>2, GoesOn DEF GatewayInv, UploadSteps
  <2>2. DOMAIN tmp' = GatewayTickets /\ tmp'[TicketOf(r)] = StoredFor(TicketOf(r))
    BY <1>1 DEF GatewayInv, GatewayTyped, StepsLeaveTraces
  <2> QED BY <1>1, <1>2, <2>1, <2>2, ComesWithTraces DEF UploadSteps
<1>3. CASE Fails("storage", r, 503) /\ UNCHANGED claims
  BY <1>1, <1>3, OnlyMoves DEF Fails
<1> QED BY <1>2, <1>3 DEF StoreClaim

LEMMA Publishes ==
  ASSUME GatewayInv, NEW r \in Uploads, PublishUpload(r)
  PROVE  GatewayInv'
<1>1. upload[r].step = "claimed" /\ UNCHANGED <<fileOf, tmp, claims>> /\ upload[r].answer = 0
  BY DEF PublishUpload, GatewayInv, StepsLeaveTraces
<1>2. TicketOf(r) \in GatewayTickets
  BY <1>1, OneTicket DEF GatewayInv
<1>3. /\ DOMAIN tmp' = GatewayTickets /\ tmp'[TicketOf(r)] = StoredFor(TicketOf(r)) /\ r \in claims'
  BY <1>1 DEF GatewayInv, GatewayTyped, StepsLeaveTraces
<1>4. /\ Message(r).upload = r /\ Message(r).ticket = TicketOf(r)
      /\ {Message(r).describes} = StoredFor(TicketOf(r))
  BY DEF Message, StoredFor, FileSent
<1>5. CASE published' = published \cup {Message(r)} /\ GoOn(r, "published")
  <2>1. Comes(r, "published", 0)
    BY <1>1, <1>5, GoesOn DEF GatewayInv, UploadSteps
  <2> HIDE DEF Message
  <2> QED BY <1>1, <1>2, <1>3, <1>4, <1>5, <2>1, ComesWithTraces DEF UploadSteps
<1>6. CASE Fails("kafka", r, 503) /\ UNCHANGED published
  BY <1>1, <1>6, OnlyMoves DEF Fails
<1>7. CASE Fails("kafka", r, 503) /\ published' = published \cup {Message(r)}
  <2>1. Comes(r, "answered", 503)
    BY <1>7, Answers DEF Fails, GatewayInv
  <2> QED BY <1>1, <1>2, <1>3, <1>4, <1>7, <2>1, ComesWithTraces DEF UploadSteps
<1> QED BY <1>5, <1>6, <1>7 DEF PublishUpload

\* The instance dies, or a request is cut: those in flight get no answer of the
\* gateway's.
LEMMA GetsLost ==
  ASSUME GatewayInv, UNCHANGED <<fileOf, tmp, claims, published>>,
         NEW S \in SUBSET Uploads,
         upload' = [r \in Uploads |-> IF r \in S THEN Lost(r) ELSE upload[r]]
  PROVE  GatewayInv'
<1>1. ASSUME NEW r \in Uploads
      PROVE  /\ upload'[r] \in UploadState /\ upload'[r].ticket = upload[r].ticket
             /\ \/ upload'[r] = upload[r]
                \/ /\ upload'[r].step = "answered" /\ upload'[r].answer = 502
                   /\ upload[r].step # "none"
  <2>1. Lost(r) = upload[r] \/ (InFlight(r) /\ Lost(r) = [upload[r] EXCEPT !.step = "answered", !.answer = 502])
    BY DEF Lost, Unreachable
  <2>2. upload'[r] = upload[r] \/ (InFlight(r) /\ upload'[r] = [upload[r] EXCEPT !.step = "answered", !.answer = 502])
    BY <2>1
  <2>3. upload[r] \in UploadState
    BY DEF GatewayInv, GatewayTyped
  <2>4. CASE upload'[r] = upload[r]
    BY <2>3, <2>4
  <2>5. CASE InFlight(r) /\ upload'[r] = [upload[r] EXCEPT !.step = "answered", !.answer = 502]
    <3>1. /\ Ended(upload[r], 502) \in UploadState /\ Ended(upload[r], 502).ticket = upload[r].ticket
          /\ Ended(upload[r], 502).step = "answered" /\ Ended(upload[r], 502).answer = 502
      BY <2>3, EndedTyped
    <3>2. upload'[r] = Ended(upload[r], 502) /\ upload[r].step # "none"
      BY <2>5 DEF InFlight, Ended
    <3> QED BY <3>1, <3>2
  <2> QED BY <2>2, <2>4, <2>5
<1>2. upload' \in [Uploads -> UploadState]
  BY <1>1
<1>3. \A q \in Uploads : TicketOf(q)' = TicketOf(q)
  BY <1>1 DEF TicketOf
<1>4. \A x : StoredFor(x)' = StoredFor(x)
  BY DEF StoredFor
<1>5. GatewayTyped'
  BY <1>1, <1>2 DEF GatewayInv, GatewayTyped
<1>6. StepsLeaveTraces'
  BY <1>1, <1>3, <1>4 DEF GatewayInv, StepsLeaveTraces
<1>7. MessagesDescribeFiles'
  BY <1>4 DEF GatewayInv, MessagesDescribeFiles
<1>8. HandedOverWhole'
  BY <1>1 DEF GatewayInv, HandedOverWhole
<1> QED BY <1>5, <1>6, <1>7, <1>8 DEF GatewayInv

LEMMA GatewayNext == GatewayInv /\ [UploadGatewayNext]_gatewayVars => GatewayInv'
<1> SUFFICES ASSUME GatewayInv, [UploadGatewayNext]_gatewayVars PROVE GatewayInv'
  OBVIOUS
<1>1. CASE UNCHANGED <<fileOf, upload, tmp, claims, published>>
  BY <1>1 DEF GatewayInv, GatewayTyped, StepsLeaveTraces, MessagesDescribeFiles, HandedOverWhole,
              StoredFor, TicketOf
<1>2. ASSUME NEW r \in Uploads, ReadBody(r) PROVE GatewayInv'
  BY <1>2, OnlyMoves DEF ReadBody
<1>3. ASSUME NEW r \in Uploads, CheckFile(r) PROVE GatewayInv'
  BY <1>3, OnlyMoves DEF CheckFile
<1>4. ASSUME NEW r \in Uploads, WakeCommon(r) PROVE GatewayInv'
  <2>1. /\ upload[r].step = "published" /\ Answer(r, 202)
        /\ UNCHANGED <<fileOf, tmp, claims, published>>
    BY <1>4 DEF WakeCommon
  <2>2. Comes(r, "answered", 202)
    BY <2>1, Answers DEF GatewayInv
  <2>3. DOMAIN tmp' = GatewayTickets /\ \E m \in published' : m.upload = r
    BY <2>1 DEF GatewayInv, GatewayTyped, StepsLeaveTraces
  <2> QED BY <2>1, <2>2, <2>3, ComesWithTraces DEF UploadSteps
<1>5. CASE InstanceDies
  BY <1>5, GetsLost DEF InstanceDies
<1>6. ASSUME NEW r \in Uploads, RequestCut(r) PROVE GatewayInv'
  <2>1. upload' = [q \in Uploads |-> IF q \in {r} THEN Lost(q) ELSE upload[q]]
    BY <1>6 DEF RequestCut, GatewayInv, GatewayTyped
  <2> QED BY <1>6, <2>1, GetsLost DEF RequestCut
<1>7. CASE TicketExpires \/ KafkaDisconnects
  BY <1>1, <1>7 DEF TicketExpires, KafkaDisconnects
<1> QED
  BY <1>1, <1>2, <1>3, <1>4, <1>5, <1>6, <1>7, Sends, Stores, Claims, Publishes
     DEF UploadGatewayNext, Serve, gatewayVars

\* Every step of an upload has left its trace in every state: what is past the store is stored.
THEOREM GatewayInvariant == UploadGatewaySpec => []GatewayInv
BY GatewayStart, GatewayNext, PTL DEF UploadGatewaySpec

\* HandedOverWhole, for any number of uploads, retries, tickets and files and any
\* faults: an accepted upload has its message, claim and object
\* (upload.service.ts:41-66).
THEOREM NothingHalfDone == UploadGatewaySpec => []HandedOverWhole
<1>1. GatewayInv => HandedOverWhole
  BY DEF GatewayInv
<1> QED BY <1>1, GatewayInvariant, PTL

-----------------------------------------------------------------------------
(* The upload gateway: what is a text                                      *)

LEMMA NatsHaveALeast ==
  ASSUME NEW T, T \subseteq Nat, T # {}
  PROVE  \E n \in T : \A m \in T : n <= m
<1>1. PICK n \in T : \A m \in T : ~ (<<m, n>> \in OpToRel(<, Nat))
  BY NatLessThanWellFounded, WFMin, Zenon
<1>2. \A m \in T : m \in Nat /\ n \in Nat /\ ~ (m < n)
  BY <1>1, Zenon DEF OpToRel
<1>3. \A m \in T : n <= m
  BY <1>2
<1> QED
  BY <1>1, <1>3

\* A whole character stands at i, and places from each of which a text goes on
\* with whole characters to its end.
Whole(s, i) ==
  LET w == Width(s[i])
  IN w > 0 /\ i + w - 1 <= Len(s) /\ \A k \in (i + 1)..(i + w - 1) : s[k] = "more"

GoOnFrom(s, B) ==
  /\ B \subseteq 1..(Len(s) + 1)
  /\ \A i \in B : i <= Len(s) => Whole(s, i) /\ i + Width(s[i]) \in B

LEMMA WidthsAreSmall == \A b : Width(b) \in 0..4 /\ (Width(b) = 0 <=> b = "more")
BY DEF Width

\* The last of some places up to one.
LEMMA LastUpTo ==
  ASSUME NEW B, B \subseteq Nat, 1 \in B, NEW j \in Nat, j >= 1
  PROVE  \E c \in B : c <= j /\ \A d \in B : d <= j => d <= c
<1> DEFINE T == {j - d : d \in {d \in B : d <= j}}
<1>1. T \subseteq Nat /\ T # {}
  <2>1. ASSUME NEW d \in B, d <= j PROVE j - d \in Nat
    <3>1. d \in Nat
      OBVIOUS
    <3> QED BY <2>1, <3>1
  <2>2. j - 1 \in T
    OBVIOUS
  <2> QED BY <2>1, <2>2
<1>2. PICK m \in T : \A x \in T : m <= x
  BY <1>1, NatsHaveALeast
<1>3. PICK c \in B : c <= j /\ m = j - c
  BY <1>2
<1>4. ASSUME NEW d \in B, d <= j PROVE d <= c
  <2>1. m <= j - d
    BY <1>2, <1>4
  <2>2. c \in Int /\ d \in Int /\ j \in Int /\ m = j - c
    BY <1>3
  <2> HIDE DEF T
  <2> QED BY <2>1, <2>2
<1> QED BY <1>3, <1>4

\* Where a decoder may stand: what it comes to is whether it reaches the end.
LEMMA DecodesByPlaces ==
  ASSUME NEW s, Len(s) \in Nat
  PROVE  Decodes(s) <=> \E B : GoOnFrom(s, B) /\ 1 \in B
<1> DEFINE n == Len(s)
           D == 1..(n + 1)
           Step(f, i) ==
             \/ i > n
             \/ LET w == Width(s[i])
                IN /\ w > 0 /\ i + w - 1 <= n
                   /\ \A k \in (i + 1)..(i + w - 1) : s[k] = "more"
                   /\ f[i + w]
           Eq(f) == f = [i \in D |-> Step(f, i)]
           g == [i \in D |-> \E B : GoOnFrom(s, B) /\ i \in B]
           from == CHOOSE f : Eq(f)
<1>1. Decodes(s) <=> from[1]
  BY DEF Decodes
<1>2. \A f, i : Step(f, i) <=> (i > n \/ (Whole(s, i) /\ f[i + Width(s[i])]))
  BY DEF Whole
<1> HIDE DEF Step
<1>3. Eq(g)
  <2> SUFFICES ASSUME NEW i \in D PROVE g[i] = Step(g, i)
    BY Zenon
  <2>1. g[i] \in BOOLEAN /\ Step(g, i) \in BOOLEAN
    BY DEF Step
  <2>2. ASSUME g[i] PROVE Step(g, i)
    <3>1. PICK B : GoOnFrom(s, B) /\ i \in B
      BY <2>2
    <3>2. i <= n => Whole(s, i) /\ i + Width(s[i]) \in B
      BY <3>1 DEF GoOnFrom
    <3>3. i + Width(s[i]) \in B => g[i + Width(s[i])]
      BY <3>1 DEF GoOnFrom
    <3>4. i <= n \/ i > n
      OBVIOUS
    <3> QED BY <1>2, <3>2, <3>3, <3>4
  <2>3. ASSUME Step(g, i) PROVE g[i]
    <3>1. CASE i > n
      <4>1. i = n + 1
        BY <3>1
      <4>2. GoOnFrom(s, {i})
        BY <4>1 DEF GoOnFrom
      <4> QED BY <4>2
    <3>2. CASE ~ (i > n)
      <4>1. Whole(s, i) /\ g[i + Width(s[i])]
        BY <1>2, <2>3, <3>2
      <4>2. i + Width(s[i]) \in D
        <5>1. Width(s[i]) \in Nat /\ Width(s[i]) > 0 /\ i + Width(s[i]) - 1 <= n
          BY <4>1, WidthsAreSmall DEF Whole
        <5> QED BY <5>1
      <4>3. PICK B : GoOnFrom(s, B) /\ i + Width(s[i]) \in B
        BY <4>1, <4>2
      <4>4. GoOnFrom(s, B \cup {i})
        BY <4>1, <4>3 DEF GoOnFrom
      <4> QED BY <4>4
    <3> QED BY <3>1, <3>2
  <2> QED BY <2>1, <2>2, <2>3
<1>4. Eq(from)
  BY <1>3, Zenon
<1>5. \A i \in D : from[i] = Step(from, i)
  BY <1>4, Zenon
<1> HIDE DEF from, g, Eq
<1>6. ASSUME from[1] PROVE \E B : GoOnFrom(s, B) /\ 1 \in B
  <2> DEFINE B == {i \in D : from[i]}
  <2>1. ASSUME NEW i \in B, i <= n PROVE Whole(s, i) /\ i + Width(s[i]) \in B
    <3>1. i \in D /\ Step(from, i)
      BY <1>5, <2>1
    <3>2. Whole(s, i) /\ from[i + Width(s[i])]
      BY <1>2, <2>1, <3>1
    <3>3. i + Width(s[i]) \in D
      BY <2>1, <3>1, <3>2, WidthsAreSmall DEF Whole
    <3> QED BY <3>2, <3>3
  <2>2. 1 \in B
    BY <1>6
  <2>3. GoOnFrom(s, B)
    BY <2>1 DEF GoOnFrom
  <2> QED BY <2>2, <2>3
<1>7. ASSUME NEW B, GoOnFrom(s, B), 1 \in B PROVE from[1]
  <2> DEFINE T == {n + 1 - i : i \in {i \in B : ~ from[i]}}
  <2>1. B \subseteq D
    BY <1>7 DEF GoOnFrom
  <2>2. SUFFICES ASSUME ~ from[1] PROVE FALSE
    OBVIOUS
  <2>3. T \subseteq Nat /\ T # {}
    BY <1>7, <2>1, <2>2
  <2>4. PICK m \in T : \A x \in T : m <= x
    BY <2>3, NatsHaveALeast
  <2>5. PICK i \in B : ~ from[i] /\ m = n + 1 - i
    BY <2>4
  <2>6. ~ (i > n)
    BY <1>2, <1>5, <2>1, <2>5
  <2>7. Whole(s, i) /\ i + Width(s[i]) \in B
    BY <1>7, <2>1, <2>6 DEF GoOnFrom
  <2>8. ~ from[i + Width(s[i])]
    BY <1>2, <1>5, <2>1, <2>5, <2>7
  <2>9. m <= n + 1 - (i + Width(s[i]))
    BY <2>4, <2>7, <2>8
  <2>10. Width(s[i]) \in Nat /\ Width(s[i]) > 0
    BY <2>7, WidthsAreSmall DEF Whole
  <2>11. i \in Nat /\ n \in Nat
    BY <2>1
  <2> HIDE DEF T
  <2> HIDE DEF n
  <2> QED BY <2>5, <2>9, <2>10, <2>11
<1> QED BY <1>1, <1>6, <1>7

\* The byte a character starts with is none that continues one, and the other
\* way about.
LEMMA WhereCharactersStart ==
  ASSUME NEW s, Len(s) \in Nat, NEW B, GoOnFrom(s, B), 1 \in B, NEW j \in 1..Len(s)
  PROVE  j \in B <=> s[j] # "more"
<1>1. j \in B => s[j] # "more"
  BY WidthsAreSmall DEF GoOnFrom, Whole
<1>7. B \subseteq Nat /\ j \in Nat /\ j >= 1
  BY DEF GoOnFrom
<1>2. PICK c \in B : c <= j /\ \A d \in B : d <= j => d <= c
  BY <1>7, LastUpTo
<1>3. c \in 1..Len(s) /\ j \in Nat
  BY <1>2 DEF GoOnFrom
<1>4. Whole(s, c) /\ c + Width(s[c]) \in B /\ Width(s[c]) \in Nat /\ Width(s[c]) > 0
  BY <1>2, <1>3, WidthsAreSmall DEF GoOnFrom, Whole
<1>5. ~ (c + Width(s[c]) <= j)
  BY <1>2, <1>3, <1>4
<1>6. c = j \/ j \in (c + 1)..(c + Width(s[c]) - 1)
  BY <1>2, <1>3, <1>4, <1>5
<1> QED BY <1>1, <1>2, <1>4, <1>6 DEF Whole

\* No more than three bytes continue a character.
LEMMA CharactersAreShort ==
  ASSUME NEW s, Len(s) \in Nat, NEW B, GoOnFrom(s, B), 1 \in B, NEW j \in 1..(Len(s) + 1),
         j \notin B
  PROVE  \E c \in B : c < j /\ j <= c + 3
<1>5. B \subseteq Nat /\ j \in Nat /\ j >= 1
  BY DEF GoOnFrom
<1>1. PICK c \in B : c <= j /\ \A d \in B : d <= j => d <= c
  BY <1>5, LastUpTo
<1>2. c \in 1..Len(s) /\ c < j
  BY <1>1 DEF GoOnFrom
<1>3. c + Width(s[c]) \in B /\ Width(s[c]) \in 1..4
  BY <1>1, <1>2, WidthsAreSmall DEF GoOnFrom, Whole
<1>4. ~ (c + Width(s[c]) <= j)
  BY <1>1, <1>2, <1>3
<1> QED BY <1>1, <1>2, <1>3, <1>4

\* A text cut where a character starts decodes.
LEMMA CutBetweenCharacters ==
  ASSUME NEW s \in Seq(ByteClasses), NEW B, GoOnFrom(s, B), 1 \in B,
         NEW p \in 0..Len(s), p + 1 \in B
  PROVE  Decodes(SubSeq(s, 1, p))
<1> DEFINE t == SubSeq(s, 1, p)
           C == {i \in B : i <= p + 1}
<1>1. /\ t \in Seq(ByteClasses) /\ Len(t) = p /\ Len(t) \in Nat /\ Len(s) \in Nat
      /\ \A i \in 1..p : t[i] = s[i]
  OBVIOUS
<1> HIDE DEF t
<1>2. ASSUME NEW i \in C, i <= p PROVE Whole(t, i) /\ i + Width(t[i]) \in C
  <2>1. i \in 1..p /\ t[i] = s[i] /\ i \in 1..Len(s) /\ i \in B
    BY <1>1, <1>2 DEF GoOnFrom
  <2>2. Whole(s, i) /\ i + Width(s[i]) \in B /\ Width(s[i]) \in Nat
    BY <2>1, WidthsAreSmall DEF GoOnFrom
  <2>3. i + Width(s[i]) <= p + 1
    <3> SUFFICES ASSUME i + Width(s[i]) > p + 1 PROVE FALSE
      BY <2>1, <2>2
    <3>1. p + 1 \in (i + 1)..(i + Width(s[i]) - 1) /\ p + 1 \in 1..Len(s)
      BY <1>1, <2>1, <2>2 DEF Whole
    <3>2. s[p + 1] = "more"
      BY <2>2, <3>1 DEF Whole
    <3> QED BY <1>1, <3>1, <3>2, WhereCharactersStart
  <2>4. \A k \in (i + 1)..(i + Width(s[i]) - 1) : k \in 1..p /\ t[k] = s[k]
    BY <1>1, <2>1, <2>2, <2>3
  <2>5. i + Width(t[i]) - 1 <= Len(t)
    BY <1>1, <2>1, <2>2, <2>3
  <2>6. Whole(t, i)
    BY <2>1, <2>2, <2>4, <2>5 DEF Whole
  <2> QED BY <2>1, <2>2, <2>3, <2>6
<1>5. C \subseteq 1..(Len(t) + 1)
  <2>1. B \subseteq 1..(Len(s) + 1)
    BY DEF GoOnFrom
  <2>2. \A i \in C : i \in Nat /\ i >= 1 /\ i <= p + 1
    BY <1>1, <2>1
  <2> QED BY <1>1, <2>2
<1>3. GoOnFrom(t, C)
  BY <1>1, <1>2, <1>5 DEF GoOnFrom
<1>4. 1 \in C
  BY <1>1
<1> QED BY <1>1, <1>3, <1>4, DecodesByPlaces DEF t

\* The sample of a text that decodes, cut anywhere and trimmed, decodes.
LEMMA TrimmedSamplesDecode ==
  ASSUME NEW s \in Seq(ByteClasses), Decodes(s), NEW m \in 1..Len(s)
  PROVE  Decodes(TrimPartialCodePoint(SubSeq(s, 1, m), Len(s)))
<1> DEFINE sample == SubSeq(s, 1, m)
           Stops(i) == sample[Len(sample) + 1 - i] # "more"
           back == {i \in 1..3 : i <= Len(sample) /\ Stops(i) /\ \A k \in 1..(i - 1) : ~ Stops(k)}
           last == CHOOSE i \in back : TRUE
           trimmed == TrimPartialCodePoint(sample, Len(s))
<1>1. trimmed = IF Len(sample) = Len(s) \/ back = {} THEN sample
                ELSE IF sample[Len(sample) + 1 - last] \in Leads
                       THEN SubSeq(sample, 1, Len(sample) - last) ELSE sample
  BY DEF TrimPartialCodePoint
<1>2. /\ Len(s) \in Nat /\ Len(sample) = m /\ m \in Nat /\ m >= 1 /\ m <= Len(s)
      /\ \A j \in 1..m : sample[j] = s[j]
  OBVIOUS
<1>3. \A q \in 0..m : SubSeq(sample, 1, q) = SubSeq(s, 1, q)
  OBVIOUS
<1>4. PICK B : GoOnFrom(s, B) /\ 1 \in B
  BY <1>2, DecodesByPlaces
<1>5. \A j \in 1..Len(s) : j \in B <=> s[j] # "more"
  BY <1>2, <1>4, WhereCharactersStart
<1>6. ASSUME NEW q \in 0..m, q + 1 \in B, trimmed = SubSeq(s, 1, q) PROVE Decodes(trimmed)
  <2>1. q \in 0..Len(s)
    BY <1>2
  <2> HIDE DEF trimmed
  <2>2. Decodes(SubSeq(s, 1, q))
    BY <1>4, <1>6, <2>1, CutBetweenCharacters
  <2> QED BY <1>6, <2>2
<1>7. \A i \in 1..m : Stops(i) <=> m + 1 - i \in B
  <2> SUFFICES ASSUME NEW i \in 1..m PROVE Stops(i) <=> m + 1 - i \in B
    OBVIOUS
  <2>1. m + 1 - i \in 1..m /\ m + 1 - i \in 1..Len(s)
    BY <1>2
  <2> QED BY <1>2, <1>5, <2>1
<1>8. back = {i \in 1..3 : i <= m /\ Stops(i) /\ \A k \in 1..(i - 1) : ~ Stops(k)}
  BY <1>2
<1>9. last \in back \/ back = {}
  BY Zenon
<1> SUFFICES Decodes(trimmed)
  OBVIOUS
<1> HIDE DEF trimmed, last, Stops, back
<1>10. CASE m = Len(s)
  <2>1. trimmed = sample
    BY <1>1, <1>2, <1>10
  <2>2. sample = s
    BY <1>10
  <2> QED BY <2>1, <2>2
<1>11. CASE m # Len(s) /\ back = {}
  <2>1. trimmed = SubSeq(s, 1, m)
    BY <1>1, <1>11
  <2>2. ASSUME m + 1 \notin B PROVE FALSE
    <3>1. m + 1 \in 1..(Len(s) + 1)
      BY <1>2
    <3>2. PICK c \in B : c < m + 1 /\ m + 1 <= c + 3
      BY <1>2, <1>4, <2>2, <3>1, CharactersAreShort
    <3>3. c \in Nat /\ c >= 1
      BY <1>4 DEF GoOnFrom
    <3> DEFINE T == {i \in 1..3 : i <= m /\ Stops(i)}
    <3>4. m + 1 - c \in 1..3 /\ m + 1 - c \in 1..m /\ m + 1 - (m + 1 - c) = c
      BY <1>2, <3>2, <3>3
    <3>5. m + 1 - c \in T
      BY <1>2, <1>7, <3>4
    <3>6. T \subseteq Nat /\ T # {}
      BY <3>5
    <3>7. PICK i \in T : \A x \in T : i <= x
      BY <3>6, NatsHaveALeast
    <3>8. \A k \in 1..(i - 1) : k \in 1..3 /\ k <= m /\ ~ (i <= k)
      BY <1>2, <3>7
    <3>9. i \in back
      BY <1>8, <3>7, <3>8
    <3> QED BY <1>11, <3>9
  <2>3. m \in 0..m
    BY <1>2
  <2> QED BY <1>6, <2>1, <2>2, <2>3
<1>12. CASE m # Len(s) /\ back # {}
  <2>1. /\ last \in 1..3 /\ last \in 1..m /\ Stops(last)
        /\ \A k \in 1..(last - 1) : ~ Stops(k)
    BY <1>2, <1>8, <1>9, <1>12
  <2>2. m + 1 - last \in B /\ m + 1 - last \in 1..m /\ sample[m + 1 - last] = s[m + 1 - last]
    BY <1>2, <1>7, <2>1
  <2>3. CASE sample[m + 1 - last] \in Leads
    <3>1. m - last \in 0..m /\ m - last + 1 = m + 1 - last
      BY <1>2, <2>1
    <3>2. trimmed = SubSeq(s, 1, m - last)
      BY <1>1, <1>2, <1>3, <1>12, <2>3, <3>1
    <3>3. m - last + 1 \in B
      BY <2>2, <3>1
    <3> QED BY <1>6, <3>1, <3>2, <3>3
  <2>4. CASE sample[m + 1 - last] \notin Leads
    <3>1. trimmed = SubSeq(s, 1, m)
      BY <1>1, <1>2, <1>12, <2>4
    <3>2. s[m + 1 - last] \in ByteClasses /\ s[m + 1 - last] # "more"
      BY <1>2, <1>5, <2>2
    <3>3. Width(s[m + 1 - last]) = 1
      BY <2>2, <2>4, <3>2 DEF Width, ByteClasses, Leads
    <3>4. m + 1 - last + 1 \in B
      BY <1>2, <1>4, <2>2, <3>3 DEF GoOnFrom
    <3>5. CASE last = 1
      <4>1. m + 1 \in B
        BY <1>2, <3>4, <3>5
      <4>2. m \in 0..m
        BY <1>2
      <4> QED BY <1>6, <3>1, <4>1, <4>2
    <3>6. CASE last # 1
      <4>1. last - 1 \in 1..(last - 1) /\ last - 1 \in 1..m /\ m + 1 - (last - 1) = m + 1 - last + 1
        BY <1>2, <2>1, <3>6
      <4> QED BY <1>7, <2>1, <3>4, <4>1
    <3> QED BY <3>5, <3>6
  <2> QED BY <2>3, <2>4
<1> QED BY <1>10, <1>11, <1>12

LEMMA DecodableIsText ==
  ASSUME NEW s \in Seq(ByteClasses), s # <<>>, Decodes(s), \A i \in DOMAIN s : s[i] # "zero"
  PROVE  IsText(s)
<1> DEFINE m == IF Len(s) < SampleBytes THEN Len(s) ELSE SampleBytes
<1>1. SampleBytes \in Nat \ {0}
  BY FileTypeAssumption
<1>2. Len(s) \in Nat /\ Len(s) >= 1
  OBVIOUS
<1>3. m \in 1..Len(s)
  BY <1>1, <1>2
<1>4. Decodes(TrimPartialCodePoint(SubSeq(s, 1, m), Len(s)))
  BY <1>3, TrimmedSamplesDecode
<1>5. \A i \in DOMAIN SubSeq(s, 1, m) : SubSeq(s, 1, m)[i] # "zero"
  <2>1. \A i \in 1..m : SubSeq(s, 1, m)[i] = s[i] /\ i \in DOMAIN s
    BY <1>2, <1>3
  <2>2. DOMAIN SubSeq(s, 1, m) = 1..m
    BY <1>2, <1>3
  <2> HIDE DEF m
  <2> QED BY <2>1, <2>2
<1> QED BY <1>4, <1>5, Zenon DEF IsText

\* What is refused for its content was read whole and is not what the ticket is
\* for.
RefusalsAreDeserved ==
  \A r \in Uploads :
    /\ upload[r].step = "read" => FileSent(r).size = "within"
    /\ upload[r].answer = 415 =>
         /\ upload[r].step = "answered" /\ FileSent(r).size = "within"
         /\ ~ Matches(TicketType[TicketOf(r)], Detect(FileSent(r)))

ContentInv ==
  GatewayTyped /\ StepsLeaveTraces /\ fileOf \in [GatewayTickets -> Files] /\ RefusalsAreDeserved

\* A request that is as it was, or comes to a step and an answer that say nothing
\* of the content, is refused for no worse reason than before.
LEMMA StillDeserved ==
  ASSUME ContentInv, fileOf' = fileOf,
         \A q \in Uploads :
           \/ upload'[q] = upload[q]
           \/ upload'[q].step # "read" /\ upload'[q].answer # 415
           \/ /\ upload'[q].ticket = upload[q].ticket /\ FileSent(q).size = "within"
              /\ upload'[q].answer = 415 =>
                   /\ upload'[q].step = "answered"
                   /\ ~ Matches(TicketType[TicketOf(q)], Detect(FileSent(q)))
  PROVE  RefusalsAreDeserved'
<1> SUFFICES ASSUME NEW q \in Uploads
             PROVE  (/\ upload[q].step = "read" => FileSent(q).size = "within"
                     /\ upload[q].answer = 415 =>
                          /\ upload[q].step = "answered" /\ FileSent(q).size = "within"
                          /\ ~ Matches(TicketType[TicketOf(q)], Detect(FileSent(q))))'
  BY DEF RefusalsAreDeserved
<1>1. upload'[q].ticket = upload[q].ticket => TicketOf(q)' = TicketOf(q) /\ FileSent(q)' = FileSent(q)
  BY DEF TicketOf, FileSent
<1>2. CASE upload'[q] = upload[q]
  BY <1>1, <1>2 DEF ContentInv, RefusalsAreDeserved
<1>3. CASE upload'[q].step # "read" /\ upload'[q].answer # 415
  BY <1>3
<1>4. CASE /\ upload'[q].ticket = upload[q].ticket /\ FileSent(q).size = "within"
           /\ upload'[q].answer = 415 =>
                /\ upload'[q].step = "answered"
                /\ ~ Matches(TicketType[TicketOf(q)], Detect(FileSent(q)))
  BY <1>1, <1>4
<1> QED BY <1>2, <1>3, <1>4

\* Only reading and the check of the content look at it.
LEMMA OthersDoNotLook ==
  ASSUME ContentInv, NEW r \in Uploads, fileOf' = fileOf,
         \/ \E code \in Nat \ {415} : Answer(r, code)
         \/ \E step \in UploadSteps \ {"read"} : GoOn(r, step) /\ upload[r].step # "answered"
  PROVE  RefusalsAreDeserved'
<1>1. upload'[r].step # "read" /\ upload'[r].answer # 415
  <2>1. ASSUME NEW code \in Nat \ {415}, Answer(r, code) PROVE upload'[r].step # "read" /\ upload'[r].answer # 415
    BY <2>1, Answers DEF ContentInv, Comes
  <2>2. ASSUME NEW step \in UploadSteps \ {"read"}, GoOn(r, step), upload[r].step # "answered"
        PROVE  upload'[r].step # "read" /\ upload'[r].answer # 415
    BY <2>2, GoesOn DEF ContentInv, Comes, StepsLeaveTraces
  <2> QED BY <2>1, <2>2
<1>2. \A q \in Uploads \ {r} : upload'[q] = upload[q]
  BY DEF Answer, GoOn, ContentInv, GatewayTyped
<1> QED BY <1>1, <1>2, StillDeserved

LEMMA ContentNext ==
  ASSUME ContentInv, [UploadGatewayNext]_gatewayVars
  PROVE  RefusalsAreDeserved' /\ fileOf' = fileOf
<1>1. fileOf' = fileOf
  BY DEF UploadGatewayNext, gatewayVars, TicketExpires, KafkaDisconnects, InstanceDies, SendFile, Serve,
         RequestCut, ReadBody, CheckFile, StoreObject, StoreClaim, PublishUpload, WakeCommon
<1>2. CASE UNCHANGED upload
  BY <1>1, <1>2, StillDeserved
<1>3. ASSUME NEW r \in Uploads, SendFile(r) PROVE RefusalsAreDeserved'
  <2>1. PICK t \in GatewayTickets :
          LET begun == [step |-> "reading", ticket |-> {t}, answer |-> 0,
                        headers |-> Proxied(ClientHeaders(TRUE), TRUE)]
          IN upload' = [upload EXCEPT ![r] =
                          IF Verified(t) THEN begun
                          ELSE [begun EXCEPT !.step = "answered", !.answer = 401]]
    BY <1>3, ZenonT(30) DEF SendFile
  <2>2. upload'[r].step # "read" /\ upload'[r].answer # 415
    BY <2>1 DEF ContentInv, GatewayTyped
  <2>3. \A q \in Uploads \ {r} : upload'[q] = upload[q]
    BY <2>1 DEF ContentInv, GatewayTyped
  <2> QED BY <1>1, <2>2, <2>3, StillDeserved
<1>4. ASSUME NEW r \in Uploads, ReadBody(r) PROVE RefusalsAreDeserved'
  <2>1. \/ \E code \in {413, 400} : Answer(r, code)
        \/ GoOn(r, "read") /\ FileSent(r).size \notin {"over", "empty"}
    BY <1>4 DEF ReadBody, OverLimit
  <2>2. CASE GoOn(r, "read") /\ FileSent(r).size \notin {"over", "empty"}
    <3>1. TicketOf(r) \in GatewayTickets /\ upload[r].answer = 0
      BY <1>4, OneTicket DEF ReadBody, ContentInv, StepsLeaveTraces
    <3>2. FileSent(r).size = "within"
      BY <2>2, <3>1, UploadGatewayAssumption DEF ContentInv, FileSent
    <3>3. Comes(r, "read", 0)
      BY <2>2, <3>1, GoesOn DEF ContentInv, UploadSteps
    <3> QED BY <1>1, <3>2, <3>3, StillDeserved DEF Comes
  <2> QED BY <1>1, <2>1, <2>2, OthersDoNotLook
<1>5. ASSUME NEW r \in Uploads, CheckFile(r) PROVE RefusalsAreDeserved'
  <2>1. \/ Answer(r, 415) /\ ~ Matches(TicketType[TicketOf(r)], Detect(FileSent(r)))
        \/ Answer(r, 500)
        \/ GoOn(r, "checked") /\ upload[r].step # "answered"
    BY <1>5, Zenon DEF CheckFile
  <2>2. CASE Answer(r, 415) /\ ~ Matches(TicketType[TicketOf(r)], Detect(FileSent(r)))
    <3>1. Comes(r, "answered", 415)
      BY <2>2, Answers DEF ContentInv
    <3>2. FileSent(r).size = "within"
      BY <1>5 DEF CheckFile, ContentInv, RefusalsAreDeserved
    <3> QED BY <1>1, <2>2, <3>1, <3>2, StillDeserved DEF Comes
  <2> QED BY <1>1, <2>1, <2>2, OthersDoNotLook DEF UploadSteps
<1>6. ASSUME NEW r \in Uploads, StoreObject(r) \/ StoreClaim(r) \/ PublishUpload(r) \/ WakeCommon(r)
      PROVE  RefusalsAreDeserved'
  <2>1. \/ \E code \in {503, 202} : Answer(r, code)
        \/ \E step \in {"stored", "claimed", "published"} : GoOn(r, step) /\ upload[r].step # "answered"
    BY <1>6 DEF StoreObject, StoreClaim, PublishUpload, WakeCommon, Fails
  <2> QED BY <1>1, <2>1, OthersDoNotLook DEF UploadSteps
<1>7. ASSUME \A q \in Uploads : upload'[q] \in {upload[q], Lost(q)} PROVE RefusalsAreDeserved'
  <2>1. ASSUME NEW q \in Uploads
        PROVE  upload'[q] = upload[q] \/ (upload'[q].step # "read" /\ upload'[q].answer # 415)
    <3>1. Lost(q) = upload[q] \/ Lost(q) = Ended(upload[q], 502)
      BY DEF Lost, Unreachable, Ended
    <3>2. Ended(upload[q], 502).step = "answered" /\ Ended(upload[q], 502).answer = 502
      BY EndedTyped DEF ContentInv, GatewayTyped
    <3>3. upload'[q] \in {upload[q], Lost(q)}
      BY <1>7
    <3> HIDE DEF Ended
    <3> QED BY <3>1, <3>2, <3>3
  <2> QED BY <1>1, <2>1, StillDeserved
<1>8. CASE InstanceDies
  BY <1>7, <1>8 DEF InstanceDies
<1>9. ASSUME NEW r \in Uploads, RequestCut(r) PROVE RefusalsAreDeserved'
  BY <1>7, <1>9 DEF RequestCut, ContentInv, GatewayTyped
<1>10. CASE TicketExpires \/ KafkaDisconnects
  BY <1>2, <1>10 DEF TicketExpires, KafkaDisconnects
<1>11. RefusalsAreDeserved'
  BY <1>2, <1>3, <1>4, <1>5, <1>6, <1>8, <1>9, <1>10 DEF UploadGatewayNext, Serve, gatewayVars
<1> QED BY <1>1, <1>11

\* In every state an upload is refused only for what its own file is, and read as it was sent.
THEOREM ContentInvariant == UploadGatewaySpec => []ContentInv
<1>1. UploadGatewayInit => RefusalsAreDeserved /\ fileOf \in [GatewayTickets -> Files]
  BY DEF UploadGatewayInit, RefusalsAreDeserved, NoUpload
<1>2. GatewayInv /\ RefusalsAreDeserved /\ fileOf \in [GatewayTickets -> Files]
        /\ [UploadGatewayNext]_gatewayVars
      => RefusalsAreDeserved' /\ (fileOf \in [GatewayTickets -> Files])'
  BY ContentNext DEF ContentInv, GatewayInv
<1>3. GatewayInv /\ RefusalsAreDeserved /\ fileOf \in [GatewayTickets -> Files] => ContentInv
  BY DEF ContentInv, GatewayInv
<1> QED BY <1>1, <1>2, <1>3, GatewayInvariant, PTL DEF UploadGatewaySpec

\* GoodTextIsTaken, for any texts of any length, any sample and any bytes: a text
\* is not refused for the place its sample was cut at (filetype.ts:47).
THEOREM NoGoodTextIsRefused == UploadGatewaySpec => []GoodTextIsTaken
<1>1. ASSUME ContentInv PROVE GoodTextIsTaken
  <2> SUFFICES ASSUME NEW r \in Uploads, upload[r].answer = 415,
                      TicketType[TicketOf(r)] = "csv", FileSent(r).magic = "none",
                      Decodes(FileSent(r).bytes),
                      \A i \in DOMAIN FileSent(r).bytes : FileSent(r).bytes[i] # "zero"
               PROVE  FALSE
    BY DEF GoodTextIsTaken
  <2>1. /\ upload[r].step = "answered" /\ FileSent(r).size = "within"
        /\ ~ Matches(TicketType[TicketOf(r)], Detect(FileSent(r)))
    BY <1>1 DEF ContentInv, RefusalsAreDeserved
  <2>2. FileSent(r) \in Files
    BY <1>1, <2>1, OneTicket DEF ContentInv, FileSent
  <2>3. FileSent(r).bytes \in Seq(ByteClasses) /\ FileSent(r).bytes # <<>>
    BY <2>1, <2>2, UploadGatewayAssumption
  <2>4. IsText(FileSent(r).bytes)
    BY <2>3, DecodableIsText
  <2>5. Detect(FileSent(r)) = "csv"
    BY <2>4 DEF Detect
  <2> QED BY <2>1, <2>5 DEF Matches
<1> QED BY <1>1, ContentInvariant, PTL

-----------------------------------------------------------------------------
(* The accounts page                                                       *)

LinkStatuses == {"absent", "pending", "active", "paused", "reauth_required"}
SyncStates == [link : Accounts \cup {"none"}, status : {"none", "processing", "completed"}]

AccountsTyped ==
  /\ account \in [Accounts -> LinkStatuses] /\ cards \in [Accounts -> LinkStatuses]
  /\ syncJob \in [Syncs -> SyncStates]
  /\ running \in [call : {"none", "connect", "exchange", "sync"},
                  link : Accounts \cup {"none"}, job : Syncs \cup {0}]
  /\ journey \in [open : BOOLEAN, step : Steps, link : Accounts \cup {"none"},
                  job : Syncs \cup {0}, final : Syncs \cup {0}]
  /\ unlinking \in Accounts \cup {"none"}
  /\ running.call = "connect" => running.link \in Accounts
  /\ journey.step = "consent" => journey.link \in Accounts

Unconnected == {"absent", "pending"}

\* A link beyond pending has its consent; a card does not show as linked what is
\* not; and the link that is being exchanged stays out of pending.
ConsentComesFirst ==
  /\ \A a \in Accounts : account[a] \notin Unconnected => a \in consented
  /\ \A a \in Accounts : account[a] \in Unconnected => cards[a] \in Unconnected
  /\ running.call = "exchange" => running.link \in Accounts /\ account[running.link] # "pending"

AccountsInv == AccountsTyped /\ ConsentComesFirst

LEMMA AccountsStart == AccountsPageInit => AccountsInv
BY DEF AccountsPageInit, AccountsInv, AccountsTyped, ConsentComesFirst, LinkStatuses, SyncStates,
       NoSync, NotRunning, Reset, Steps, Unconnected

\* The steps of the journey and of the page that leave links and cards alone.
LEMMA AccountsUntouched ==
  ASSUME AccountsInv, UNCHANGED <<account, consented, cards>>, AccountsTyped',
         running'.call = "exchange" => running' = running
  PROVE  AccountsInv'
BY DEF AccountsInv, ConsentComesFirst, Unconnected

\* A sync that starts is of a link that gave its consent.
SyncsConsented == \A j \in Syncs : syncJob[j] = NoSync /\ syncJob'[j] # NoSync
                    => syncJob'[j].link \in consented

LEMMA StartsConsented ==
  ASSUME AccountsInv, NEW a \in Accounts, NEW j \in Syncs, CanSync(a, j),
         syncJob' = StartedSync(a, j), account[a] # "pending"
  PROVE  SyncsConsented /\ syncJob' \in [Syncs -> SyncStates]
<1> DEFINE rec == [link |-> a, status |-> "processing"]
<1>1. rec.link = a /\ rec \in SyncStates
  BY DEF SyncStates
<1>2. syncJob' = [syncJob EXCEPT ![j] = rec]
  BY DEF StartedSync
<1> HIDE DEF rec
<1>3. a \in consented
  BY DEF CanSync, AccountsInv, ConsentComesFirst, Unconnected
<1> QED BY <1>1, <1>2, <1>3 DEF AccountsInv, AccountsTyped, SyncsConsented

LEMMA AccountsNext ==
  AccountsInv /\ [AccountsPageNext]_accountsPageVars
    => AccountsInv' /\ (UNCHANGED accountsPageVars \/ SyncsConsented)
<1> SUFFICES ASSUME AccountsInv, [AccountsPageNext]_accountsPageVars
             PROVE  AccountsInv' /\ (UNCHANGED accountsPageVars \/ SyncsConsented)
  OBVIOUS
<1> USE DEF AccountsInv
<1>1. CASE UNCHANGED accountsPageVars
  BY <1>1 DEF accountsPageVars, AccountsTyped, ConsentComesFirst
<1>2. UNCHANGED syncJob => SyncsConsented
  BY DEF SyncsConsented
<1>3. CASE RefreshCards
  BY <1>2, <1>3 DEF RefreshCards, AccountsTyped, ConsentComesFirst
<1>4. CASE OpenJourney \/ CloseJourney \/ ReviewSynced
  <2>1. AccountsTyped'
    <3>1. CASE OpenJourney
      BY <3>1 DEF OpenJourney, AccountsTyped, Reset, Steps
    <3>2. CASE CloseJourney
      BY <3>2 DEF CloseJourney, AccountsTyped, Reset, Steps
    <3>3. CASE ReviewSynced
      BY <3>3 DEF ReviewSynced, AccountsTyped
    <3> QED BY <1>4, <3>1, <3>2, <3>3
  <2> QED BY <1>2, <1>4, <2>1, AccountsUntouched DEF OpenJourney, CloseJourney, ReviewSynced
<1>5. ASSUME NEW a \in Accounts, StartConnect(a) PROVE AccountsInv' /\ SyncsConsented
  <2>1. AccountsTyped' /\ running'.call = "connect"
    BY <1>5 DEF StartConnect, AccountsTyped, NotRunning, LinkStatuses
  <2>2. ConsentComesFirst'
    BY <1>5, <2>1 DEF StartConnect, AccountsTyped, ConsentComesFirst, Unconnected
  <2> QED BY <1>2, <1>5, <2>1, <2>2 DEF StartConnect
<1>6. CASE Connected
  <2>1. AccountsTyped' /\ running'.call = "none"
    BY <1>6 DEF Connected, AccountsTyped, NotRunning, Steps
  <2> QED BY <1>2, <1>6, <2>1, AccountsUntouched DEF Connected
<1>7. CASE ApproveConsent
  <2>1. AccountsTyped' /\ journey.link \in Accounts
    BY <1>7 DEF ApproveConsent, AccountsTyped, NotRunning, LinkStatuses
  <2>2. ConsentComesFirst'
    BY <1>7, <2>1 DEF ApproveConsent, AccountsTyped, ConsentComesFirst, Unconnected, NotRunning
  <2> QED BY <1>2, <1>7, <2>1, <2>2 DEF ApproveConsent
<1>8. ASSUME NEW j \in Syncs, Exchanged(j) PROVE AccountsInv' /\ SyncsConsented
  <2>1. /\ running.link \in Accounts /\ account[running.link] # "pending"
        /\ CanSync(running.link, j) /\ syncJob' = StartedSync(running.link, j)
    BY <1>8 DEF Exchanged, ConsentComesFirst
  <2>2. SyncsConsented /\ syncJob' \in [Syncs -> SyncStates]
    BY <2>1, StartsConsented
  <2>3. AccountsTyped' /\ running'.call = "sync"
    BY <1>8, <2>2 DEF Exchanged, AccountsTyped, Steps
  <2>4. ConsentComesFirst'
    BY <1>8, <2>3 DEF Exchanged, ConsentComesFirst
  <2> QED BY <2>2, <2>3, <2>4
<1>9. CASE SyncStarted
  <2>1. AccountsTyped' /\ running'.call = "none"
    BY <1>9 DEF SyncStarted, AccountsTyped, NotRunning
  <2> QED BY <1>2, <1>9, <2>1, AccountsUntouched DEF SyncStarted
<1>10. CASE JourneyCallFails \/ SyncRefused
  <2>1. AccountsTyped' /\ running'.call = "none"
    BY <1>10 DEF JourneyCallFails, SyncRefused, AccountsTyped, NotRunning, Steps
  <2> QED BY <1>2, <1>10, <2>1, AccountsUntouched DEF JourneyCallFails, SyncRefused
<1>11. ASSUME NEW j \in Syncs, Tick(j) \/ TickFails(j) PROVE AccountsInv' /\ SyncsConsented
  <2>1. AccountsTyped'
    BY <1>11 DEF Tick, TickFails, AccountsTyped, Steps
  <2>2. ConsentComesFirst'
    BY <1>11 DEF Tick, TickFails, ConsentComesFirst
  <2> QED BY <1>2, <1>11, <2>1, <2>2 DEF Tick, TickFails
<1>12. ASSUME NEW j \in Syncs, FinishSync(j) PROVE AccountsInv' /\ SyncsConsented
  <2>1. /\ syncJob' \in [Syncs -> SyncStates]
        /\ \A i \in Syncs \ {j} : syncJob'[i] = syncJob[i]
        /\ syncJob[j] # NoSync
    BY <1>12 DEF FinishSync, AccountsTyped, SyncStates, NoSync
  <2>2. SyncsConsented
    BY <2>1 DEF SyncsConsented
  <2>3. AccountsTyped'
    BY <1>12, <2>1 DEF FinishSync, AccountsTyped
  <2> QED BY <1>12, <2>2, <2>3, AccountsUntouched DEF FinishSync
<1>13. ASSUME NEW a \in Accounts, NEW j \in Syncs, ManualSync(a, j) PROVE AccountsInv' /\ SyncsConsented
  <2>1. account[a] # "pending"
    BY <1>13 DEF ManualSync, SyncEnabled, AccountsTyped, ConsentComesFirst, Unconnected
  <2>2. SyncsConsented /\ syncJob' \in [Syncs -> SyncStates]
    BY <1>13, <2>1, StartsConsented DEF ManualSync
  <2>3. AccountsTyped' /\ ConsentComesFirst'
    BY <1>13, <2>2 DEF ManualSync, AccountsTyped, ConsentComesFirst
  <2> QED BY <2>2, <2>3
<1>14. ASSUME NEW a \in Accounts, TogglePaused(a) PROVE AccountsInv' /\ SyncsConsented
  <2>1. AccountsTyped'
    BY <1>14 DEF TogglePaused, AccountsTyped, LinkStatuses
  <2>2. ConsentComesFirst'
    BY <1>14 DEF TogglePaused, AccountsTyped, ConsentComesFirst, Unconnected
  <2> QED BY <1>2, <1>14, <2>1, <2>2 DEF TogglePaused
<1>15. ASSUME NEW a \in Accounts, AskUnlink(a) PROVE AccountsInv' /\ SyncsConsented
  <2>1. AccountsTyped'
    BY <1>15 DEF AskUnlink, AccountsTyped
  <2> QED BY <1>2, <1>15, <2>1, AccountsUntouched DEF AskUnlink
<1>16. CASE CancelUnlink
  <2>1. AccountsTyped'
    BY <1>16 DEF CancelUnlink, AccountsTyped
  <2> QED BY <1>2, <1>16, <2>1, AccountsUntouched DEF CancelUnlink
<1>17. CASE ConfirmUnlink
  <2>1. AccountsTyped' /\ unlinking \in Accounts
    BY <1>17 DEF ConfirmUnlink, AccountsTyped, LinkStatuses
  <2>2. ConsentComesFirst'
    BY <1>17, <2>1 DEF ConfirmUnlink, AccountsTyped, ConsentComesFirst, Unconnected
  <2> QED BY <1>2, <1>17, <2>1, <2>2 DEF ConfirmUnlink
<1> QED
  BY <1>1, <1>3, <1>4, <1>5, <1>6, <1>7, <1>8, <1>9, <1>10, <1>11, <1>12, <1>13, <1>14, <1>15,
     <1>16, <1>17
     DEF AccountsPageNext

\* In every state a link that is past its consent screen has had the consent.
THEOREM AccountsInvariant == AccountsPageSpec => []AccountsInv
BY AccountsStart, AccountsNext, PTL DEF AccountsPageSpec

\* OnlyConsentedLinksSync, for any number of links and syncs, whether calls fail
\* or not: a sync is only ever created for a link with consent (AccountsView.tsx,
\* approveConsent and the rule that disables the card).
THEOREM SyncsHaveConsent == AccountsPageSpec => OnlyConsentedLinksSync
<1>1. AccountsInv /\ [AccountsPageNext]_accountsPageVars => [SyncsConsented]_accountsPageVars
  BY AccountsNext
<1>2. SyncsConsented => \A j \in Syncs : syncJob[j] = NoSync /\ syncJob'[j] # NoSync
                          => syncJob'[j].link \in consented
  BY DEF SyncsConsented
<1> QED BY <1>1, <1>2, AccountsInvariant, PTL DEF AccountsPageSpec, OnlyConsentedLinksSync, SyncsConsented

-----------------------------------------------------------------------------
(* The staged review                                                       *)

Corrections == {"include", "exclude", "category"}

ReviewTyped ==
  /\ puts \in Seq(Corrections) /\ acks \in Seq(BOOLEAN)
  /\ reincluded \in BOOLEAN /\ kept \in BOOLEAN /\ asked \in BOOLEAN

\* Nothing asks for the duplicate before the user does.
TickedFirst ==
  asked = FALSE => kept = FALSE /\ \A n \in DOMAIN puts : puts[n] # "include"

ReviewInv == ReviewTyped /\ TickedFirst /\ DuplicatesOnlyByHand

\* A promise is of what the server holds, with nothing on its way to change it.
PromiseStands == promise # {} => puts = <<>> /\ acks = <<>> /\ promise = RowsFor(kept)

\* The last answer on its way, or the table when there is none, shows what the
\* server holds; before the table there is nothing on its way, and no commit.
TableFollows ==
  /\ screen = "table" => IF acks = <<>> THEN reincluded = kept ELSE acks[Len(acks)] = kept
  /\ screen = "loading" => puts = <<>> /\ acks = <<>>
  /\ committing # FALSE => screen \in {"table", "left"}

PromiseInv == ReviewTyped /\ TableFollows /\ PromiseStands

\* What is left of a sequence is of the sequence.
LEMMA Removed ==
  ASSUME NEW S, NEW s \in Seq(S), NEW n \in DOMAIN s
  PROVE  /\ RemoveAt(s, n) \in Seq(S)
         /\ \A i \in DOMAIN RemoveAt(s, n) : \E j \in DOMAIN s : RemoveAt(s, n)[i] = s[j]
         /\ n = 1 => RemoveAt(s, n) = Tail(s)
<1>1. n \in 1..Len(s) /\ Len(s) \in Nat
  OBVIOUS
<1> DEFINE front == SubSeq(s, 1, n - 1)
<1> DEFINE back == SubSeq(s, n + 1, Len(s))
<1>2. front \in Seq(S) /\ back \in Seq(S)
  BY <1>1
<1>3. /\ Len(front) = n - 1 /\ Len(back) = Len(s) - n
      /\ \A i \in 1..(n - 1) : front[i] = s[i]
      /\ \A i \in 1..(Len(s) - n) : back[i] = s[n + i]
  BY <1>1
<1>9. RemoveAt(s, n) = front \o back
  BY DEF RemoveAt
<1> HIDE DEF front, back
<1>4. RemoveAt(s, n) \in Seq(S)
  BY <1>2, <1>9
<1>5. Len(RemoveAt(s, n)) = Len(s) - 1
  BY <1>1, <1>2, <1>3, <1>9
<1>6. \A i \in 1..(Len(s) - 1) : RemoveAt(s, n)[i] = IF i < n THEN s[i] ELSE s[i + 1]
  <2> SUFFICES ASSUME NEW i \in 1..(Len(s) - 1)
               PROVE  RemoveAt(s, n)[i] = IF i < n THEN s[i] ELSE s[i + 1]
    OBVIOUS
  <2>1. CASE i < n
    BY <1>1, <1>2, <1>3, <1>9, <2>1
  <2>2. CASE ~ (i < n)
    <3>1. i - (n - 1) \in 1..(Len(s) - n) /\ n + (i - (n - 1)) = i + 1
      BY <1>1, <2>2
    <3>2. Len(front) = n - 1 /\ Len(back) = Len(s) - n /\ i > Len(front) /\ i <= Len(front) + Len(back)
      BY <1>1, <1>3, <2>2
    <3>3. (front \o back)[i] = back[i - Len(front)]
      BY SMTT(20), <1>2, <3>2
    <3>4. back[i - (n - 1)] = s[n + (i - (n - 1))]
      BY <1>3, <3>1
    <3> QED BY <1>9, <2>2, <3>1, <3>2, <3>3, <3>4
  <2> QED BY <2>1, <2>2
<1>7. \A i \in DOMAIN RemoveAt(s, n) : \E j \in DOMAIN s : RemoveAt(s, n)[i] = s[j]
  BY SMTT(20), <1>1, <1>4, <1>5, <1>6
<1>8. n = 1 => RemoveAt(s, n) = Tail(s)
  BY <1>1, <1>4, <1>5, <1>6
<1> QED BY <1>4, <1>7, <1>8

LEMMA LastIs ==
  ASSUME NEW S, NEW s \in Seq(S), NEW e \in S
  PROVE  Append(s, e) \in Seq(S) /\ Append(s, e) # <<>> /\ Append(s, e)[Len(Append(s, e))] = e
OBVIOUS

LEMMA EmptyIs == ASSUME NEW S PROVE <<>> \in Seq(S)
OBVIOUS

LEMMA ReviewStart == StagedReviewInit => ReviewInv /\ PromiseInv
<1> SUFFICES ASSUME StagedReviewInit PROVE ReviewInv /\ PromiseInv
  OBVIOUS
<1>1. /\ puts = <<>> /\ acks = <<>> /\ reincluded = FALSE /\ kept = FALSE /\ asked = FALSE
      /\ imported = {} /\ promise = {} /\ screen = "loading" /\ committing = FALSE
  BY DEF StagedReviewInit
<1>2. puts \in Seq(Corrections) /\ acks \in Seq(BOOLEAN)
  BY <1>1, EmptyIs
<1>3. ReviewTyped
  BY <1>1, <1>2 DEF ReviewTyped
<1>4. TickedFirst
  BY <1>1 DEF TickedFirst
<1>5. DuplicatesOnlyByHand
  BY <1>1 DEF DuplicatesOnlyByHand
<1>6. TableFollows
  BY <1>1 DEF TableFollows
<1>7. PromiseStands
  BY <1>1 DEF PromiseStands
<1> QED BY <1>3, <1>4, <1>5, <1>6, <1>7 DEF ReviewInv, PromiseInv

\* What a correction of the user does.
LEMMA SendsPut ==
  ASSUME ReviewTyped, NEW put \in Corrections, SendPut(put)
  PROVE  /\ ReviewTyped' /\ UNCHANGED <<kept, acks, imported, reincluded, screen, committing>> /\ promise' = {}
         /\ screen = "table"
         /\ asked' = FALSE => asked = FALSE /\ put # "include"
         /\ \A n \in DOMAIN puts' : puts'[n] = put \/ (n \in DOMAIN puts /\ puts'[n] = puts[n])
<1>1. /\ puts' = Append(puts, put) /\ asked' = (asked \/ put = "include") /\ promise' = {}
      /\ UNCHANGED <<kept, acks, imported, reincluded, screen, committing>> /\ screen = "table"
  BY DEF SendPut
<1>2. puts \in Seq(Corrections) /\ asked \in BOOLEAN
  BY DEF ReviewTyped
<1>3. /\ puts' \in Seq(Corrections)
      /\ \A n \in DOMAIN puts' : puts'[n] = put \/ (n \in DOMAIN puts /\ puts'[n] = puts[n])
  BY <1>1, <1>2
<1>4. asked' \in BOOLEAN /\ (asked' = FALSE => asked = FALSE /\ put # "include")
  BY <1>1, <1>2
<1> QED BY <1>1, <1>3, <1>4 DEF ReviewTyped

LEMMA UserSends ==
  ASSUME ReviewTyped, SetIncludeDuplicate \/ CorrectCategory \/ DiscardDuplicates
  PROVE  \E put \in Corrections : SendPut(put)
BY DEF SetIncludeDuplicate, CorrectCategory, DiscardDuplicates, Corrections

\* What the server makes of a correction.
LEMMA ServerTakes ==
  ASSUME ReviewTyped, NEW n \in DOMAIN puts, ServerCorrects(n)
  PROVE  /\ ReviewTyped' /\ UNCHANGED <<asked, imported, promise, reincluded, screen, committing>>
         /\ \A i \in DOMAIN puts' : \E j \in DOMAIN puts : puts'[i] = puts[j]
         /\ puts[n] # "include" => kept' = kept \/ kept' = FALSE
         /\ (kept' = kept /\ acks' = acks) \/ (acks' # <<>> /\ acks'[Len(acks')] = kept')
         /\ puts # <<>>
<1>1. puts' = RemoveAt(puts, n) /\ UNCHANGED <<asked, imported, promise, reincluded, screen, committing>>
  BY DEF ServerCorrects
<1>2. puts' \in Seq(Corrections) /\ \A i \in DOMAIN puts' : \E j \in DOMAIN puts : puts'[i] = puts[j]
  BY <1>1, Removed DEF ReviewTyped
<1>3. CASE stagedJob = "staged"
  <2>1. /\ kept' = CASE puts[n] = "include" -> TRUE [] puts[n] = "exclude" -> FALSE [] OTHER -> kept
        /\ acks' = Append(acks, kept')
    BY <1>3 DEF ServerCorrects
  <2>2. kept' \in BOOLEAN /\ (puts[n] # "include" => kept' = kept \/ kept' = FALSE)
    <3>1. CASE puts[n] = "include"
      BY <2>1, <3>1
    <3>2. CASE puts[n] = "exclude"
      BY <2>1, <3>2
    <3>3. CASE puts[n] \notin {"include", "exclude"}
      BY <2>1, <3>3 DEF ReviewTyped
    <3> QED BY <3>1, <3>2, <3>3
  <2>3. acks' \in Seq(BOOLEAN) /\ acks' # <<>> /\ acks'[Len(acks')] = kept'
    BY ZenonT(30), <2>1, <2>2, LastIs DEF ReviewTyped
  <2> QED BY <1>1, <1>2, <2>2, <2>3 DEF ReviewTyped
<1>4. CASE stagedJob # "staged"
  <2>1. UNCHANGED <<kept, acks>>
    BY <1>4 DEF ServerCorrects
  <2> QED BY <1>1, <1>2, <2>1 DEF ReviewTyped
<1> QED BY <1>3, <1>4

LEMMA ReviewNext == ReviewInv /\ [StagedReviewNext]_stagedReviewVars => ReviewInv'
<1> SUFFICES ASSUME ReviewInv, [StagedReviewNext]_stagedReviewVars PROVE ReviewInv'
  OBVIOUS
<1> USE DEF ReviewInv
<1>1. CASE UNCHANGED <<kept, puts, acks, asked, imported>> /\ reincluded' \in BOOLEAN
  BY <1>1 DEF ReviewTyped, TickedFirst, DuplicatesOnlyByHand
<1>2. CASE SetIncludeDuplicate \/ CorrectCategory \/ DiscardDuplicates
  <2>1. PICK put \in Corrections : SendPut(put)
    BY <1>2, UserSends
  <2>2. /\ ReviewTyped' /\ UNCHANGED <<kept, acks, imported>>
        /\ asked' = FALSE => asked = FALSE /\ put # "include"
        /\ \A n \in DOMAIN puts' : puts'[n] = put \/ (n \in DOMAIN puts /\ puts'[n] = puts[n])
    BY <2>1, SendsPut
  <2>3. TickedFirst'
    BY <2>2 DEF TickedFirst
  <2>4. DuplicatesOnlyByHand'
    BY <2>2 DEF DuplicatesOnlyByHand, ReviewTyped
  <2> QED BY <2>2, <2>3, <2>4
<1>3. ASSUME NEW n \in DOMAIN puts, ServerCorrects(n) PROVE ReviewInv'
  <2>1. /\ ReviewTyped' /\ UNCHANGED <<asked, imported>>
        /\ \A i \in DOMAIN puts' : \E j \in DOMAIN puts : puts'[i] = puts[j]
        /\ puts[n] # "include" => kept' = kept \/ kept' = FALSE
    BY <1>3, ServerTakes
  <2>2. TickedFirst'
    BY <2>1 DEF TickedFirst
  <2> QED BY <2>1, <2>2 DEF DuplicatesOnlyByHand
<1>4. CASE CorrectionFails
  <2>1. puts # <<>> /\ puts' = Tail(puts) /\ UNCHANGED <<asked, imported, kept, acks, reincluded>>
    BY <1>4 DEF CorrectionFails
  <2>2. puts' \in Seq(Corrections) /\ \A i \in DOMAIN puts' : i + 1 \in DOMAIN puts /\ puts'[i] = puts[i + 1]
    BY <2>1 DEF ReviewTyped
  <2> QED BY <2>1, <2>2 DEF ReviewTyped, TickedFirst, DuplicatesOnlyByHand
<1>5. ASSUME NEW n \in DOMAIN acks, RowArrives(n) PROVE ReviewInv'
  <2>1. acks' = RemoveAt(acks, n) /\ reincluded' \in BOOLEAN /\ UNCHANGED <<asked, imported, kept, puts>>
    BY <1>5 DEF RowArrives, ReviewTyped
  <2>2. acks' \in Seq(BOOLEAN)
    BY <2>1, Removed DEF ReviewTyped
  <2> QED BY <2>1, <2>2 DEF ReviewTyped, TickedFirst, DuplicatesOnlyByHand
<1>6. CASE ServerConfirms
  <2>1. /\ UNCHANGED <<asked, kept, puts, acks, reincluded>>
        /\ imported' = imported \/ imported' = RowsFor(kept)
    BY <1>6 DEF ServerConfirms
  <2>2. DuplicatesOnlyByHand'
    BY <2>1 DEF DuplicatesOnlyByHand, RowsFor, TickedFirst, ReviewTyped
  <2> QED BY <2>1, <2>2 DEF ReviewTyped, TickedFirst
<1> QED
  BY <1>1, <1>2, <1>3, <1>4, <1>5, <1>6
     DEF StagedReviewNext, stagedReviewVars, ReviewTyped, OpenJob, OpenFails, ConfirmReview,
         ConfirmFails, DiscardReview

\* In every state of a review nothing that is on its way ticks a duplicate the user did not tick.
THEOREM ReviewInvariant == StagedReviewSpec => []ReviewInv
BY ReviewStart, ReviewNext, PTL DEF StagedReviewSpec

\* DuplicatesOnlyByHand, for any number of corrections and whatever answers are
\* lost or overtaken: a flagged duplicate is imported only after the user ticked
\* it (flows/import.md section 2).
THEOREM TickedByHand == StagedReviewSpec => []DuplicatesOnlyByHand
<1>1. ReviewInv => DuplicatesOnlyByHand
  BY DEF ReviewInv
<1> QED BY <1>1, ReviewInvariant, PTL

LEMMA PromiseNext ==
  ASSUME "overtaken" \notin ReviewFaults, PromiseInv, ReviewTyped', [StagedReviewNext]_stagedReviewVars
  PROVE  PromiseInv' /\ (imported' # imported /\ promise # {} => imported' = promise)
<1> USE DEF PromiseInv
<1>1. CASE /\ UNCHANGED <<screen, reincluded, kept, puts, acks, promise, imported>>
           /\ committing' \in {committing, FALSE}
  BY <1>1 DEF TableFollows, PromiseStands
<1>2. CASE OpenJob
  BY <1>2 DEF OpenJob, TableFollows, PromiseStands
<1>3. CASE OpenFails \/ DiscardReview
  BY <1>3 DEF OpenFails, DiscardReview, TableFollows, PromiseStands
<1>4. CASE SetIncludeDuplicate \/ CorrectCategory \/ DiscardDuplicates
  <2>1. PICK put \in Corrections : SendPut(put)
    BY <1>4, UserSends
  <2>2. UNCHANGED <<kept, acks, imported, reincluded, screen, committing>> /\ promise' = {} /\ screen = "table"
    BY <2>1, SendsPut
  <2> QED BY <2>2 DEF TableFollows, PromiseStands
<1>5. ASSUME NEW n \in DOMAIN puts, ServerCorrects(n)
      PROVE  PromiseInv' /\ UNCHANGED imported
  <2>1. /\ UNCHANGED <<asked, imported, promise, reincluded, screen, committing>>
        /\ (kept' = kept /\ acks' = acks) \/ (acks' # <<>> /\ acks'[Len(acks')] = kept')
        /\ puts # <<>>
    BY <1>5, ServerTakes
  <2> QED BY <2>1 DEF TableFollows, PromiseStands
<1>6. CASE CorrectionFails
  <2>1. puts # <<>> /\ UNCHANGED <<screen, committing, reincluded, kept, acks, promise, imported>>
    BY <1>6 DEF CorrectionFails
  <2> QED BY <2>1 DEF TableFollows, PromiseStands
<1>7. ASSUME NEW n \in DOMAIN acks, RowArrives(n)
      PROVE  PromiseInv' /\ UNCHANGED imported
  <2>1. n = 1 /\ acks # <<>> /\ acks \in Seq(BOOLEAN)
    BY <1>7 DEF RowArrives, Arriving, ReviewTyped
  <2>2. /\ acks' = Tail(acks) /\ reincluded' = (screen = "table" /\ acks[1])
        /\ UNCHANGED <<screen, committing, kept, puts, promise, imported>>
    BY <1>7, <2>1, Removed DEF RowArrives
  <2>3. ASSUME screen = "table", Len(acks) = 1 PROVE acks' = <<>> /\ reincluded' = kept
    <3>1. acks[1] = kept /\ acks' = <<>>
      BY <2>1, <2>2, <2>3 DEF TableFollows
    <3> QED BY <2>2, <2>3, <3>1 DEF ReviewTyped
  <2>4. ASSUME screen = "table", Len(acks) # 1 PROVE acks' # <<>> /\ acks'[Len(acks')] = kept
    <3>1. Len(acks) \in Nat /\ Len(acks) > 1
      BY <2>1, <2>4
    <3>2. Len(acks') = Len(acks) - 1 /\ acks'[Len(acks) - 1] = acks[Len(acks)]
      BY <2>1, <2>2, <3>1
    <3> QED BY <2>1, <2>4, <3>1, <3>2 DEF TableFollows
  <2>5. TableFollows'
    BY <2>1, <2>2, <2>3, <2>4 DEF TableFollows
  <2> QED BY <2>1, <2>2, <2>5 DEF PromiseStands
<1>8. CASE ConfirmReview
  <2>1. /\ screen = "table" /\ UNCHANGED <<screen, reincluded, kept, puts, acks, imported>>
        /\ promise' = IF puts \o acks = <<>> THEN RowsFor(reincluded) ELSE {}
    BY <1>8 DEF ConfirmReview
  <2>2. puts \o acks = <<>> => puts = <<>> /\ acks = <<>>
    BY DEF ReviewTyped
  <2> QED BY <2>1, <2>2 DEF TableFollows, PromiseStands
<1>9. CASE ServerConfirms
  <2>1. /\ UNCHANGED <<reincluded, kept, puts, acks, promise>>
        /\ imported' = imported \/ imported' = RowsFor(kept)
    BY <1>9 DEF ServerConfirms
  <2>2. /\ committing' = FALSE /\ screen \in {"table", "left"} /\ screen' \in {"table", "left"}
        /\ screen' = "table" => screen = "table"
    BY <1>9 DEF ServerConfirms, TableFollows
  <2> QED BY <2>1, <2>2 DEF TableFollows, PromiseStands
<1>10. CASE ConfirmFails
  BY <1>1, <1>10 DEF ConfirmFails
<1> QED
  BY <1>1, <1>2, <1>3, <1>4, <1>5, <1>6, <1>7, <1>8, <1>9, <1>10
     DEF StagedReviewNext, stagedReviewVars

\* ImportsWhatItShows, for any number of corrections and lost requests, as long
\* as answers do not overtake each other: the rows the footer promised are the
\* rows that join the ledger (JobDetailView.tsx:358).
THEOREM PromiseIsKept ==
  ASSUME "overtaken" \notin ReviewFaults
  PROVE  StagedReviewSpec => ImportsWhatItShows
<1>1. StagedReviewInit => ReviewInv /\ PromiseInv
  BY ReviewStart
<1>2. ReviewInv /\ PromiseInv /\ [StagedReviewNext]_stagedReviewVars => ReviewInv' /\ PromiseInv'
  BY ReviewNext, PromiseNext DEF ReviewInv
<1>3. ReviewInv /\ PromiseInv /\ [StagedReviewNext]_stagedReviewVars
        => [imported = {} /\ imported' # {} /\ promise # {} => imported' = promise]_stagedReviewVars
  BY ReviewNext, PromiseNext DEF ReviewInv
<1> QED BY <1>1, <1>2, <1>3, PTL DEF StagedReviewSpec, ImportsWhatItShows

-----------------------------------------------------------------------------
(* The mock's imports                                                      *)

JobStates ==
  [status : {"none", "draft", "processing", "completed", "failed", "gone"},
   ticket : TicketAges \cup {"none"}, key : Keys \cup {"none"}, link : Links \cup {"none"},
   outcome : Outcomes, confirmed : BOOLEAN]

LinkStates ==
  [status : {"none", "pending", "active", "paused", "reauth_required", "gone"}, auto : BOOLEAN]

Typed ==
  /\ job \in [Jobs -> JobStates]
  /\ link \in [Links -> LinkStates]
  /\ manual \in [Links -> Nat]
  /\ purged \subseteq Links

\* Only a job that exists, or existed, has rows.
RowsHaveJobs ==
  \A r \in ledger \cup staged :
    r[1] \in Jobs /\ r \in RowsOf(r[1]) /\ job[r[1]].status # "none"

\* A job of a link starts processing at once, and a job is confirmed when it is
\* completed.
JobsRunTheirCourse ==
  \A j \in Jobs :
    /\ job[j].link # "none" => job[j].status \in {"processing", "completed", "gone"}
    /\ job[j].confirmed => job[j].status \in {"completed", "gone"}

\* A purged link does not come back, and none of its jobs can still commit.
PurgedIsOver ==
  \A l \in purged :
    /\ link[l].status = "gone"
    /\ \A j \in Jobs : job[j].link = l => job[j].status = "gone" \/ job[j].confirmed

\* As long as a link has not earned it, each confirmed sync on record was
\* confirmed by hand.
RecordIsByHand ==
  \A l \in Links : manual[l] < CleanSyncs => Cardinality(OnRecord(l)) <= manual[l]

MockInv ==
  /\ Typed /\ RowsHaveJobs /\ JobsRunTheirCourse
  /\ PurgedIsOver /\ PurgedLinkLeavesNothing
  /\ RecordIsByHand /\ AutoConfirmEarned

\* The record of a link is finite, and one that lost jobs is not longer.
LEMMA RecordShrinks ==
  ASSUME NEW A \in SUBSET Jobs, NEW B \in SUBSET A
  PROVE  Cardinality(B) \in Nat /\ Cardinality(B) <= Cardinality(A) /\ Cardinality(A) \in Nat
BY FS_Subset, FS_CardinalityType, MockImportsAssumption

LEMMA MockStart == MockImportsInit => MockInv
<1> SUFFICES ASSUME MockImportsInit PROVE MockInv
  OBVIOUS
<1>1. Unborn \in JobStates
  BY DEF Unborn, JobStates, TicketAges, Outcomes
<1>2. Seeds \subseteq LinkStates
  <2>1. \A s \in {"none", "active", "reauth_required"} : Unlinked(s) \in LinkStates
    BY DEF Unlinked, LinkStates
  <2>2. [status |-> "active", auto |-> TRUE] \in LinkStates
    BY DEF LinkStates
  <2> QED
    BY <2>1, <2>2 DEF Seeds
<1>3. Typed
  BY <1>1, <1>2, MockImportsAssumption DEF MockImportsInit, Typed
<1>4. RowsHaveJobs /\ PurgedLinkLeavesNothing /\ PurgedIsOver
  BY DEF MockImportsInit, RowsHaveJobs, PurgedLinkLeavesNothing, PurgedIsOver
<1>5. JobsRunTheirCourse
  BY DEF MockImportsInit, JobsRunTheirCourse, Unborn
<1>6. \A l \in Links : OnRecord(l) = {}
  BY DEF MockImportsInit, OnRecord, Unborn
<1>7. RecordIsByHand
  <2>1. \A l \in Links : Cardinality(OnRecord(l)) = 0
    BY <1>6, FS_EmptySet
  <2>2. \A l \in Links : manual[l] \in Nat
    BY <1>3 DEF Typed
  <2> QED
    BY <2>1, <2>2 DEF RecordIsByHand
<1>8. AutoConfirmEarned
  BY MockImportsAssumption DEF MockImportsInit, AutoConfirmEarned
<1> QED
  BY <1>3, <1>4, <1>5, <1>7, <1>8 DEF MockInv

\* Jobs that are created, uploaded, or discarded: no job gets another link, and
\* none is confirmed.
LEMMA JobsMove ==
  ASSUME MockInv, UNCHANGED <<link, manual, purged>>,
         job' \in [Jobs -> JobStates],
         ledger' \cup staged' \subseteq ledger \cup staged,
         \A i \in Jobs :
           /\ job'[i].link = job[i].link
           /\ job'[i].confirmed = job[i].confirmed
           /\ job[i].status # "none" => job'[i].status # "none"
           /\ job[i].status = "gone" => job'[i].status = "gone"
           /\ job'[i].link # "none" => job'[i].status \in {"processing", "completed", "gone"}
           /\ job'[i].confirmed => job'[i].status \in {"completed", "gone"}
  PROVE  MockInv'
<1>1. /\ Typed /\ RowsHaveJobs /\ JobsRunTheirCourse /\ PurgedIsOver /\ PurgedLinkLeavesNothing
      /\ RecordIsByHand /\ AutoConfirmEarned
  BY DEF MockInv
<1>2. Typed' /\ AutoConfirmEarned' /\ JobsRunTheirCourse'
  BY <1>1 DEF Typed, AutoConfirmEarned, JobsRunTheirCourse
<1>3. RowsHaveJobs'
  BY <1>1 DEF RowsHaveJobs
<1>4. PurgedIsOver'
  BY <1>1 DEF PurgedIsOver
<1>5. PurgedLinkLeavesNothing'
  BY <1>1 DEF PurgedLinkLeavesNothing, RowsHaveJobs
<1>6. RecordIsByHand'
  <2> SUFFICES ASSUME NEW l \in Links, manual[l] < CleanSyncs
               PROVE  Cardinality(OnRecord(l)') <= manual[l]
    BY DEF RecordIsByHand
  <2>1. OnRecord(l)' \subseteq OnRecord(l) /\ OnRecord(l) \subseteq Jobs
    BY <1>1 DEF OnRecord, Exists, JobsRunTheirCourse
  <2>2. Cardinality(OnRecord(l)) <= manual[l] /\ manual[l] \in Nat
    BY <1>1 DEF RecordIsByHand, Typed
  <2>3. Cardinality(OnRecord(l)') <= Cardinality(OnRecord(l))
        /\ Cardinality(OnRecord(l)') \in Nat /\ Cardinality(OnRecord(l)) \in Nat
    BY <2>1, RecordShrinks
  <2> QED
    BY <2>2, <2>3
<1> QED
  BY <1>2, <1>3, <1>4, <1>5, <1>6 DEF MockInv

\* Links that are created, exchanged, paused, or set to auto-confirm.
LEMMA LinksMove ==
  ASSUME MockInv, UNCHANGED <<job, staged, ledger, manual, purged>>,
         link' \in [Links -> LinkStates],
         \A l \in Links :
           /\ link[l].status = "gone" => link'[l].status = "gone"
           /\ link'[l].auto => link[l].auto \/ Cardinality(OnRecord(l)) >= CleanSyncs
  PROVE  MockInv'
<1>1. /\ Typed /\ RowsHaveJobs /\ JobsRunTheirCourse /\ PurgedIsOver /\ PurgedLinkLeavesNothing
      /\ RecordIsByHand /\ AutoConfirmEarned
  BY DEF MockInv
<1>2. Typed' /\ RowsHaveJobs' /\ JobsRunTheirCourse' /\ PurgedIsOver' /\ PurgedLinkLeavesNothing'
  BY <1>1 DEF Typed, RowsHaveJobs, JobsRunTheirCourse, PurgedIsOver, PurgedLinkLeavesNothing
<1>3. \A l \in Links : OnRecord(l)' = OnRecord(l)
  BY DEF OnRecord, Exists
<1>4. RecordIsByHand'
  BY <1>1, <1>3 DEF RecordIsByHand
<1>5. AutoConfirmEarned'
  <2> SUFFICES ASSUME NEW l \in Links, link'[l].auto PROVE manual[l] >= CleanSyncs
    BY DEF AutoConfirmEarned
  <2>1. OnRecord(l) \subseteq Jobs /\ manual[l] \in Nat /\ CleanSyncs \in Nat
    BY <1>1, MockImportsAssumption DEF OnRecord, Typed
  <2>2. Cardinality(OnRecord(l)) \in Nat
    BY <2>1, RecordShrinks
  <2> QED
    BY <1>1, <2>1, <2>2 DEF AutoConfirmEarned, RecordIsByHand
<1> QED
  BY <1>2, <1>4, <1>5 DEF MockInv

\* A sync of a link that is still known.
LEMMA SyncKeeps ==
  ASSUME MockInv, NEW l \in Links, NEW j \in Jobs, Sync(l, j)
  PROVE  MockInv'
<1>1. /\ Typed /\ RowsHaveJobs /\ JobsRunTheirCourse /\ PurgedIsOver /\ PurgedLinkLeavesNothing
      /\ RecordIsByHand /\ AutoConfirmEarned
  BY DEF MockInv
<1> DEFINE new == [Unborn EXCEPT !.status = "processing", !.link = l]
<1>2. new \in JobStates /\ new.status = "processing" /\ new.link = l /\ ~ new.confirmed
  BY DEF Unborn, JobStates, TicketAges, Outcomes
<1>3. /\ job' = [job EXCEPT ![j] = new] /\ job[j].status = "none"
      /\ link[l].status \in {"active", "pending"}
      /\ UNCHANGED <<staged, ledger, link, purged, manual>>
  BY DEF Sync, IsNext
<1> HIDE DEF new
<1>4. job'[j] = new /\ \A i \in Jobs : i # j => job'[i] = job[i]
  BY <1>1, <1>3 DEF Typed
<1>5. l \notin purged
  BY <1>1, <1>3 DEF PurgedIsOver
<1>6. Typed' /\ AutoConfirmEarned'
  BY <1>1, <1>2, <1>3 DEF Typed, AutoConfirmEarned
<1>7. RowsHaveJobs' /\ JobsRunTheirCourse' /\ PurgedIsOver'
  BY <1>1, <1>2, <1>3, <1>4, <1>5 DEF RowsHaveJobs, JobsRunTheirCourse, PurgedIsOver
<1>8. PurgedLinkLeavesNothing'
  BY <1>1, <1>3, <1>4 DEF PurgedLinkLeavesNothing, RowsHaveJobs
<1>9. RecordIsByHand'
  <2> SUFFICES ASSUME NEW k \in Links PROVE OnRecord(k)' = OnRecord(k)
    BY <1>1, <1>3 DEF RecordIsByHand
  <2> QED
    BY <1>1, <1>2, <1>3, <1>4 DEF OnRecord, Exists, JobsRunTheirCourse
<1> QED
  BY <1>6, <1>7, <1>8, <1>9 DEF MockInv

\* The poll that finishes a job; only the link of a bank feed that earned it
\* confirms at once.
LEMMA MockPollKeeps ==
  ASSUME MockInv, NEW j \in Jobs, PollMockJob(j)
  PROVE  MockInv'
<1>1. /\ Typed /\ RowsHaveJobs /\ JobsRunTheirCourse /\ PurgedIsOver /\ PurgedLinkLeavesNothing
      /\ RecordIsByHand /\ AutoConfirmEarned
  BY DEF MockInv
<1>2. /\ job[j].status = "processing" /\ ~ job[j].confirmed
      /\ job[j].link \in Links \cup {"none"} /\ job[j] \in JobStates
  BY <1>1 DEF PollMockJob, JobsRunTheirCourse, Typed, JobStates
<1>3. PICK s \in {"completed", "failed"}, b \in BOOLEAN :
        /\ job' = [job EXCEPT ![j] = [job[j] EXCEPT !.status = s, !.confirmed = b]]
        /\ b = AutoCommits(j)
        /\ job[j].link # "none" => s = "completed"
  <2>1. AutoCommits(j) \in BOOLEAN
    BY DEF AutoCommits
  <2>2. LET o == IF job[j].link # "none" THEN "rows" ELSE job[j].outcome
        IN  job' = [job EXCEPT ![j] = [job[j] EXCEPT
                      !.status = IF o = "failed" THEN "failed" ELSE "completed",
                      !.confirmed = AutoCommits(j)]]
    BY <1>1 DEF PollMockJob, Typed, JobStates
  <2> QED
    BY <2>1, <2>2
<1>4. /\ UNCHANGED <<link, purge, manual, purged>>
      /\ ledger' \cup staged' \subseteq ledger \cup staged \cup RowsOf(j)
  BY DEF PollMockJob
<1>5. /\ [job[j] EXCEPT !.status = s, !.confirmed = b] \in JobStates
      /\ job'[j].status = s /\ job'[j].confirmed = b /\ job'[j].link = job[j].link
      /\ \A i \in Jobs : i # j => job'[i] = job[i]
  BY <1>1, <1>2, <1>3 DEF Typed, JobStates
<1>6. b => job[j].link \in Links /\ link[job[j].link].auto
  BY <1>2, <1>3 DEF AutoCommits
<1>7. Typed' /\ AutoConfirmEarned'
  BY <1>1, <1>3, <1>4, <1>5 DEF Typed, AutoConfirmEarned
<1>8. JobsRunTheirCourse'
  BY <1>1, <1>3, <1>5, <1>6 DEF JobsRunTheirCourse, AutoCommits
<1>9. job[j].link \notin purged
  BY <1>1, <1>2 DEF PurgedIsOver
<1>10. PurgedIsOver'
  BY <1>1, <1>4, <1>5, <1>9 DEF PurgedIsOver
<1>11. \A r \in RowsOf(j) : r[1] = j
  BY DEF RowsOf
<1>12. RowsHaveJobs'
  BY <1>1, <1>3, <1>4, <1>5, <1>11 DEF RowsHaveJobs
<1>13. PurgedLinkLeavesNothing'
  BY <1>1, <1>4, <1>5, <1>9, <1>11 DEF PurgedLinkLeavesNothing, RowsHaveJobs
<1>14. RecordIsByHand'
  <2> SUFFICES ASSUME NEW k \in Links, manual[k] < CleanSyncs
               PROVE  Cardinality(OnRecord(k)') <= manual[k]
    BY <1>4 DEF RecordIsByHand
  <2>1. manual[k] \in Nat /\ CleanSyncs \in Nat
    BY <1>1, MockImportsAssumption DEF Typed
  <2>2. ~ link[k].auto
    BY <1>1, <2>1 DEF AutoConfirmEarned
  <2>3. OnRecord(k)' \subseteq OnRecord(k) /\ OnRecord(k) \subseteq Jobs
    BY <1>2, <1>5, <1>6, <2>2 DEF OnRecord, Exists
  <2>4. Cardinality(OnRecord(k)') <= Cardinality(OnRecord(k))
        /\ Cardinality(OnRecord(k)') \in Nat /\ Cardinality(OnRecord(k)) \in Nat
    BY <2>3, RecordShrinks
  <2> QED
    BY <1>1, <2>1, <2>4 DEF RecordIsByHand
<1> QED
  BY <1>7, <1>8, <1>10, <1>12, <1>13, <1>14 DEF MockInv

\* A confirm by hand puts one job on the record, and counts.
LEMMA ConfirmKeeps ==
  ASSUME MockInv, NEW j \in Jobs, ConfirmJob(j)
  PROVE  MockInv'
<1>1. /\ Typed /\ RowsHaveJobs /\ JobsRunTheirCourse /\ PurgedIsOver /\ PurgedLinkLeavesNothing
      /\ RecordIsByHand /\ AutoConfirmEarned
  BY DEF MockInv
<1>2. /\ job[j].status = "completed" /\ ~ job[j].confirmed
      /\ job' = [job EXCEPT ![j] = [job[j] EXCEPT !.confirmed = TRUE]]
      /\ job[j] \in JobStates /\ job[j].link \in Links \cup {"none"}
      /\ UNCHANGED <<link, purged>>
      /\ ledger' \cup staged' \subseteq ledger \cup staged
  BY <1>1 DEF ConfirmJob, Imported, Typed, JobStates
<1>3. /\ job'[j].confirmed /\ job'[j].status = "completed" /\ job'[j].link = job[j].link
      /\ job'[j] \in JobStates
      /\ \A i \in Jobs : i # j => job'[i] = job[i]
  BY <1>1, <1>2 DEF Typed, JobStates
<1>4. /\ job[j].link = "none" => manual' = manual
      /\ job[j].link # "none" => manual' = [manual EXCEPT ![job[j].link] = @ + 1]
      /\ manual' \in [Links -> Nat]
      /\ \A l \in Links : manual'[l] = manual[l] \/ (l = job[j].link /\ manual'[l] = manual[l] + 1)
  BY <1>1, <1>2 DEF ConfirmJob, Typed
<1>5. Typed'
  BY <1>1, <1>2, <1>3, <1>4 DEF Typed
<1>6. AutoConfirmEarned'
  BY <1>1, <1>2, <1>4, MockImportsAssumption DEF AutoConfirmEarned, Typed
<1>7. RowsHaveJobs' /\ JobsRunTheirCourse' /\ PurgedIsOver'
  BY <1>1, <1>2, <1>3 DEF RowsHaveJobs, JobsRunTheirCourse, PurgedIsOver
<1>8. PurgedLinkLeavesNothing'
  BY <1>1, <1>2, <1>3 DEF PurgedLinkLeavesNothing, RowsHaveJobs
<1>9. RecordIsByHand'
  <2> SUFFICES ASSUME NEW k \in Links, manual'[k] < CleanSyncs
               PROVE  Cardinality(OnRecord(k)') <= manual'[k]
    BY DEF RecordIsByHand
  <2>1. manual[k] \in Nat /\ CleanSyncs \in Nat
    BY <1>1, MockImportsAssumption DEF Typed
  <2>2. manual[k] < CleanSyncs
    BY <1>4, <2>1
  <2>3. OnRecord(k) \subseteq Jobs /\ Cardinality(OnRecord(k)) <= manual[k]
    BY <1>1, <2>2 DEF OnRecord, RecordIsByHand
  <2>4. Cardinality(OnRecord(k)) \in Nat /\ IsFiniteSet(OnRecord(k))
    BY <2>3, RecordShrinks, FS_Subset, MockImportsAssumption
  <2>5. CASE job[j].link = k
    <3>1. manual'[k] = manual[k] + 1
      BY <1>1, <1>4, <2>5, MockImportsAssumption DEF Typed
    <3>2. OnRecord(k)' = OnRecord(k) \cup {j}
      BY <1>2, <1>3, <2>5 DEF OnRecord, Exists
    <3>5. ASSUME NEW S, IsFiniteSet(S), Cardinality(S) \in Nat
          PROVE  Cardinality(S \cup {j}) <= Cardinality(S) + 1
      BY <3>5, FS_AddElement
    <3>3. Cardinality(OnRecord(k)') <= Cardinality(OnRecord(k)) + 1
      BY <2>4, <3>2, <3>5
    <3>4. Cardinality(OnRecord(k)') \in Nat
      BY <2>4, <3>2, FS_AddElement, FS_CardinalityType
    <3> QED
      BY <2>1, <2>3, <2>4, <3>1, <3>3, <3>4
  <2>6. CASE job[j].link # k
    <3>1. manual'[k] = manual[k]
      BY <1>4, <2>6
    <3>2. OnRecord(k)' = OnRecord(k)
      BY <1>2, <1>3, <2>6 DEF OnRecord, Exists
    <3> QED
      BY <2>3, <3>1, <3>2
  <2> QED
    BY <2>5, <2>6
<1> QED
  BY <1>5, <1>6, <1>7, <1>8, <1>9 DEF MockInv

\* A link is removed, with or without what came from it.
LEMMA UnlinkKeeps ==
  ASSUME MockInv, NEW l \in Links, NEW withRows \in BOOLEAN, Unlink(l, withRows)
  PROVE  MockInv'
<1>1. /\ Typed /\ RowsHaveJobs /\ JobsRunTheirCourse /\ PurgedIsOver /\ PurgedLinkLeavesNothing
      /\ RecordIsByHand /\ AutoConfirmEarned
  BY DEF MockInv
<1>2. /\ Unlinked("gone") \in LinkStates
      /\ Unlinked("gone").status = "gone" /\ ~ Unlinked("gone").auto
  BY DEF Unlinked, LinkStates
<1>3. /\ link' = [link EXCEPT ![l] = Unlinked("gone")] /\ manual' = manual
      /\ ledger' \subseteq ledger /\ staged' \subseteq staged
  BY DEF Unlink
<1>4. /\ job' \in [Jobs -> JobStates]
      /\ \A i \in Jobs :
           /\ job'[i].link = job[i].link /\ job'[i].confirmed = job[i].confirmed
           /\ job'[i].status \in {job[i].status, "gone"}
           /\ job[i].status = "none" => job'[i].status = "none"
  <2>1. CASE job' = job
    BY <1>1, <2>1 DEF Typed
  <2>2. CASE job' = [i \in Jobs |->
                       IF i \notin FromLink(l) \/ ~ Exists(i) \/ job[i].confirmed THEN job[i]
                       ELSE [job[i] EXCEPT !.status = "gone"]]
    <3>1. \A i \in Jobs : /\ [job[i] EXCEPT !.status = "gone"] \in JobStates
                          /\ [job[i] EXCEPT !.status = "gone"].link = job[i].link
                          /\ [job[i] EXCEPT !.status = "gone"].confirmed = job[i].confirmed
                          /\ [job[i] EXCEPT !.status = "gone"].status = "gone"
      BY <1>1 DEF Typed, JobStates
    <3>2. \A i \in Jobs : Exists(i) => job[i].status # "none"
      BY DEF Exists
    <3> QED
      BY <1>1, <2>2, <3>1, <3>2 DEF Typed
  <2> QED
    BY <2>1, <2>2 DEF Unlink
<1>5. purged' = purged \/ (withRows /\ purged' = purged \cup {l})
  BY DEF Unlink
<1>6. link'[l].status = "gone" /\ ~ link'[l].auto /\ \A k \in Links : k # l => link'[k] = link[k]
  BY <1>1, <1>2, <1>3 DEF Typed
<1>7. Typed' /\ AutoConfirmEarned'
  BY <1>1, <1>2, <1>3, <1>4, <1>5, <1>6 DEF Typed, AutoConfirmEarned
<1>8. RowsHaveJobs' /\ JobsRunTheirCourse'
  BY <1>1, <1>3, <1>4 DEF RowsHaveJobs, JobsRunTheirCourse
<1>9. ASSUME withRows
      PROVE  /\ \A i \in Jobs : job[i].link = l => job'[i].status = "gone" \/ job[i].confirmed
             /\ \A r \in ledger' \cup staged' : job[r[1]].link # l
  <2>1. \A i \in Jobs : job[i].link = l => job'[i].status = "gone" \/ job[i].confirmed
    <3> SUFFICES ASSUME NEW i \in Jobs, job[i].link = l, ~ job[i].confirmed
                 PROVE  job'[i].status = "gone"
      OBVIOUS
    <3>1. CASE Exists(i)
      BY <1>1, <1>9, <3>1 DEF Unlink, FromLink, Typed, JobStates
    <3>2. CASE ~ Exists(i)
      <4>1. job[i].status = "gone"
        BY <1>1, <3>2, MockImportsAssumption DEF JobsRunTheirCourse, Exists
      <4> QED
        BY <1>4, <4>1
    <3> QED
      BY <3>1, <3>2
  <2>2. \A r \in ledger' \cup staged' : r \in ledger \cup staged /\ r[1] \notin FromLink(l)
    BY <1>9 DEF Unlink
  <2>3. \A r \in ledger' \cup staged' : job[r[1]].link # l
    BY <1>1, <2>2 DEF FromLink, RowsHaveJobs
  <2> QED
    BY <2>1, <2>3
<1>10. PurgedIsOver'
  BY <1>1, <1>4, <1>5, <1>6, <1>9 DEF PurgedIsOver, Typed
<1>11. PurgedLinkLeavesNothing'
  BY <1>1, <1>3, <1>4, <1>5, <1>9 DEF PurgedLinkLeavesNothing, RowsHaveJobs
<1>12. RecordIsByHand'
  <2> SUFFICES ASSUME NEW k \in Links, manual[k] < CleanSyncs
               PROVE  Cardinality(OnRecord(k)') <= manual[k]
    BY <1>3 DEF RecordIsByHand
  <2>1. OnRecord(k)' \subseteq OnRecord(k) /\ OnRecord(k) \subseteq Jobs
    BY <1>4 DEF OnRecord, Exists
  <2>2. Cardinality(OnRecord(k)') <= Cardinality(OnRecord(k))
        /\ Cardinality(OnRecord(k)') \in Nat /\ Cardinality(OnRecord(k)) \in Nat
    BY <2>1, RecordShrinks
  <2> QED
    BY <1>1, <2>2 DEF RecordIsByHand, Typed
<1> QED
  BY <1>7, <1>8, <1>10, <1>11, <1>12 DEF MockInv

\* Every step keeps the invariant.
LEMMA MockSteps == MockInv /\ [MockImportsNext]_mockImportsVars => MockInv'
<1> SUFFICES ASSUME MockInv, [MockImportsNext]_mockImportsVars PROVE MockInv'
  OBVIOUS
<1>1. Typed /\ JobsRunTheirCourse
  BY DEF MockInv
<1>2. \A j \in Jobs : job[j] \in JobStates
  BY <1>1 DEF Typed
<1>3. ASSUME NEW j \in Jobs, NEW k \in Keys, NEW o \in Outcomes, CreateImport(j, k, o)
      PROVE  MockInv'
  <2> DEFINE new == [Unborn EXCEPT !.status = "draft", !.ticket = "live",
                                   !.key = k, !.outcome = o]
  <2>1. /\ new \in JobStates /\ new.link = "none" /\ ~ new.confirmed /\ new.status = "draft"
    BY DEF Unborn, JobStates, TicketAges
  <2>2. \A i \in Jobs : LET old == [job[i] EXCEPT !.key = "none"]
                        IN  /\ old \in JobStates /\ old.link = job[i].link
                            /\ old.confirmed = job[i].confirmed /\ old.status = job[i].status
    BY <1>2 DEF JobStates
  <2>3. job[j].status = "none" /\ job[j].link = "none" /\ ~ job[j].confirmed
    BY <1>1, <1>3 DEF CreateImport, IsNext, JobsRunTheirCourse
  <2>4. job[j].confirmed = FALSE /\ new.confirmed = FALSE
    BY <1>2, <2>1, <2>3 DEF JobStates
  <2> HIDE DEF new
  <2>5. /\ job' \in [Jobs -> JobStates]
        /\ job'[j] = new
        /\ \A i \in Jobs : i # j => job'[i] = job[i] \/ job'[i] = [job[i] EXCEPT !.key = "none"]
    BY <1>1, <1>2, <1>3, <2>1, <2>2 DEF CreateImport, new
  <2>6. \A i \in Jobs :
          /\ job'[i].link = job[i].link
          /\ job'[i].confirmed = job[i].confirmed
          /\ i # j => job'[i].status = job[i].status
    BY <2>1, <2>2, <2>3, <2>4, <2>5
  <2>7. UNCHANGED <<staged, ledger, link, manual, purged>>
    BY <1>3 DEF CreateImport
  <2> QED
    BY <1>1, <2>1, <2>3, <2>4, <2>5, <2>6, <2>7, JobsMove DEF JobsRunTheirCourse
<1>4. ASSUME NEW j \in Jobs, NEW good \in BOOLEAN, Upload(j, good) PROVE MockInv'
  <2>1. job[j].status = "draft" /\ job[j].link = "none" /\ ~ job[j].confirmed
    BY <1>1, <1>4 DEF Upload, JobsRunTheirCourse
  <2>2. job' \in [Jobs -> JobStates]
    <3>1. \A i \in Jobs :
            /\ [job[i] EXCEPT !.ticket = "none", !.status = "processing"] \in JobStates
            /\ [job[i] EXCEPT !.ticket = "none", !.status = "gone"] \in JobStates
            /\ [job[i] EXCEPT !.key = "none"] \in JobStates
      BY <1>2 DEF JobStates
    <3>2. CASE job' = Accepted(j)
      BY <1>1, <1>2, <3>1, <3>2 DEF Accepted
    <3>3. CASE job' = [job EXCEPT ![j] = [job[j] EXCEPT !.ticket = "none", !.status = "gone"]]
      BY <1>1, <3>1, <3>3 DEF Typed
    <3>4. [job EXCEPT ![j].ticket = "none", ![j].status = "gone"] =
            [job EXCEPT ![j] = [job[j] EXCEPT !.ticket = "none", !.status = "gone"]]
      BY <1>1 DEF Typed
    <3> QED
      BY <1>4, <3>2, <3>3, <3>4 DEF Upload
  <2>3. \A i \in Jobs :
          /\ job'[i].link = job[i].link
          /\ job'[i].confirmed = job[i].confirmed
          /\ i # j => job'[i].status = job[i].status
          /\ i = j => job'[i].status \in {"processing", "gone"}
    BY <1>1, <1>2, <1>4 DEF Upload, Accepted, Typed, JobStates
  <2>4. UNCHANGED <<staged, ledger, link, manual, purged>>
    BY <1>4 DEF Upload
  <2> QED
    BY <1>1, <2>1, <2>2, <2>3, <2>4, JobsMove DEF JobsRunTheirCourse
<1>5. ASSUME NEW j \in Jobs, TicketAgesOn(j) PROVE MockInv'
  <2>1. job' \in [Jobs -> JobStates]
    BY <1>1, <1>2, <1>5 DEF TicketAgesOn, Typed, JobStates, TicketAges
  <2>2. \A i \in Jobs :
          /\ job'[i].link = job[i].link
          /\ job'[i].confirmed = job[i].confirmed
          /\ job'[i].status = job[i].status
    BY <1>1, <1>2, <1>5 DEF TicketAgesOn, Typed, JobStates
  <2>3. UNCHANGED <<staged, ledger, link, manual, purged>>
    BY <1>5 DEF TicketAgesOn
  <2> QED
    BY <1>1, <2>1, <2>2, <2>3, JobsMove DEF JobsRunTheirCourse
<1>6. ASSUME NEW j \in Jobs, DiscardJob(j) PROVE MockInv'
  <2>1. job' = [job EXCEPT ![j] = [job[j] EXCEPT !.status = "gone"]]
        /\ staged' \subseteq staged /\ UNCHANGED <<ledger, link, manual, purged>>
    BY <1>1, <1>6 DEF DiscardJob, Typed
  <2>2. job' \in [Jobs -> JobStates]
    BY <1>1, <1>2, <2>1 DEF Typed, JobStates
  <2>3. \A i \in Jobs :
          /\ job'[i].link = job[i].link
          /\ job'[i].confirmed = job[i].confirmed
          /\ i # j => job'[i].status = job[i].status
          /\ i = j => job'[i].status = "gone"
    BY <1>1, <1>2, <2>1 DEF Typed, JobStates
  <2> QED
    BY <1>1, <2>1, <2>2, <2>3, JobsMove DEF JobsRunTheirCourse
<1>7. CASE UNCHANGED <<job, staged, ledger, link, manual, purged>>
  BY <1>1, <1>7, JobsMove DEF Typed, JobsRunTheirCourse
<1>8. ASSUME NEW l \in Links, CreateLink(l) \/ ExchangeLink(l) \/ PauseOrResume(l) PROVE MockInv'
  <2>1. link' \in [Links -> LinkStates]
    <3>1. CASE CreateLink(l)
      BY <1>1, <3>1 DEF CreateLink, Unlinked, Typed, LinkStates
    <3>2. CASE ExchangeLink(l)
      BY <1>1, <3>2 DEF ExchangeLink, Typed, LinkStates
    <3>3. CASE PauseOrResume(l)
      BY <1>1, <3>3 DEF PauseOrResume, Typed, LinkStates
    <3> QED
      BY <1>8, <3>1, <3>2, <3>3
  <2>2. \A k \in Links : /\ link[k].status = "gone" => link'[k].status = "gone"
                         /\ link'[k].auto => link[k].auto
    BY <1>1, <1>8
       DEF CreateLink, ExchangeLink, PauseOrResume, Unlinked, KnownLink, Typed, LinkStates
  <2>3. UNCHANGED <<job, staged, ledger, manual, purged>>
    BY <1>8 DEF CreateLink, ExchangeLink, PauseOrResume
  <2> QED
    BY <2>1, <2>2, <2>3, LinksMove
<1>9. ASSUME NEW l \in Links, NEW on \in BOOLEAN, SetAutoConfirm(l, on) PROVE MockInv'
  <2>1. link' \in [Links -> LinkStates]
    BY <1>1, <1>9 DEF SetAutoConfirm, Typed, LinkStates
  <2>2. \A k \in Links :
          /\ link[k].status = "gone" => link'[k].status = "gone"
          /\ link'[k].auto => link[k].auto \/ Cardinality(OnRecord(k)) >= CleanSyncs
    BY <1>1, <1>9 DEF SetAutoConfirm, Typed, LinkStates
  <2>3. UNCHANGED <<job, staged, ledger, manual, purged>>
    BY <1>9 DEF SetAutoConfirm
  <2> QED
    BY <2>1, <2>2, <2>3, LinksMove
<1> QED
  BY <1>3, <1>4, <1>5, <1>6, <1>7, <1>8, <1>9, SyncKeeps, MockPollKeeps, ConfirmKeeps, UnlinkKeeps
     DEF MockImportsNext, mockImportsVars, SetInclude, WindowEnds, RequestPurge,
         CancelPendingPurge

\* The inductive invariant of the mock's jobs, links and ledger holds in every state.
THEOREM MockInvariant == MockImportsSpec => []MockInv
BY MockStart, MockSteps, PTL DEF MockImportsSpec

\* MockImports.PurgedLinkLeavesNothing: what came from a link goes with it for
\* good, whatever of it was still being processed or reviewed.
THEOREM PurgeIsThorough == MockImportsSpec => []PurgedLinkLeavesNothing
BY MockInvariant, PTL DEF MockInv

\* MockImports.AutoConfirmEarned: the record of confirmed syncs a link is
\* opened with was made by hand.
THEOREM AutoConfirmIsEarned == MockImportsSpec => []AutoConfirmEarned
BY MockInvariant, PTL DEF MockInv

\* MockImports.LedgerFrozenDuringPurge: every step that writes the ledger looks
\* at the purge first.
THEOREM LedgerIsFrozen == MockImportsSpec => LedgerFrozenDuringPurge
<1>1. ASSUME MockImportsNext, purge = "pending" PROVE ledger' = ledger
  BY <1>1
     DEF MockImportsNext, CreateImport, Upload, TicketAgesOn, PollMockJob, AutoCommits, ConfirmJob,
         DiscardJob, SetInclude, CreateLink, ExchangeLink, PauseOrResume, WindowEnds,
         SetAutoConfirm, Sync, Unlink, RequestPurge, CancelPendingPurge, Writable
<1>2. [MockImportsNext]_mockImportsVars =>
        [purge = "pending" => ledger' = ledger]_mockImportsVars
  BY <1>1
<1> QED
  BY <1>2, PTL DEF MockImportsSpec, LedgerFrozenDuringPurge

\* MockImports.JobCommitsOnce: a job's rows enter the ledger in the step that
\* confirms it, and a confirmed job does not go back to processing.
THEOREM CommitsOnce == MockImportsSpec => JobCommitsOnce
<1>1. ASSUME MockInv, MockImportsNext, NEW j \in Jobs, (ledger' \ ledger) \cap RowsOf(j) # {}
      PROVE  ~ job[j].confirmed /\ job'[j].confirmed
  <2>1. Typed /\ JobsRunTheirCourse /\ \A i \in Jobs : \A r \in RowsOf(i) : r[1] = i
    BY <1>1 DEF MockInv, RowsOf
  <2>2. PICK i \in Jobs : /\ (PollMockJob(i) /\ AutoCommits(i)) \/ ConfirmJob(i)
                          /\ ledger' \subseteq ledger \cup RowsOf(i)
    BY <1>1
       DEF MockImportsNext, CreateImport, Upload, TicketAgesOn, PollMockJob, ConfirmJob, Imported,
           DiscardJob, SetInclude, CreateLink, ExchangeLink, PauseOrResume, WindowEnds,
           SetAutoConfirm, Sync, Unlink, RequestPurge, CancelPendingPurge
  <2>3. i = j
    BY <1>1, <2>1, <2>2
  <2>4. CASE PollMockJob(i) /\ AutoCommits(i)
    BY <2>1, <2>3, <2>4 DEF PollMockJob, JobsRunTheirCourse, Typed, JobStates
  <2>5. CASE ConfirmJob(i)
    BY <2>1, <2>3, <2>5 DEF ConfirmJob, Typed, JobStates
  <2> QED
    BY <2>2, <2>4, <2>5
<1>2. MockInv /\ [MockImportsNext]_mockImportsVars =>
        [\A j \in Jobs : (ledger' \ ledger) \cap RowsOf(j) # {}
           => ~ job[j].confirmed /\ job'[j].confirmed]_mockImportsVars
  BY <1>1
<1> QED
  BY <1>2, MockInvariant, PTL DEF MockImportsSpec, JobCommitsOnce

-----------------------------------------------------------------------------
(* The import hub                                                          *)

Statuses == {"none", "processing", "completed", "failed"}
Final == {"completed", "failed"}
Phases == {"none", "progress", "sweep", "complete", "error", "unmounted"}

HubTyped ==
  /\ remote \in [HubFiles -> Statuses] /\ history \in [HubFiles -> Statuses]
  /\ lists \in Seq([HubFiles -> Statuses])
  /\ polling \subseteq [file : HubFiles, status : Statuses]
  /\ active.status \in Statuses
  /\ chip \in [HubFiles -> Phases]
  /\ linked \subseteq HubFiles /\ armed \subseteq HubFiles /\ hub \in BOOLEAN

\* The server has the job of whatever is watched, and what was seen finished is.
HubSeesThePast ==
  /\ \A f \in armed : remote[f] # "none"
  /\ \A p \in polling : /\ p.status # "none" /\ remote[p.file] # "none"
                        /\ p.status \in Final => remote[p.file] \in Final
  /\ \A f \in HubFiles : history[f] \in Final => remote[f] \in Final
  /\ \A n \in DOMAIN lists, f \in HubFiles : lists[n][f] \in Final => remote[f] \in Final

\* A chip follows the history; one in its sweep is of a job the page knows.
ChipsFollow ==
  /\ ~ hub => linked = {}
  /\ \A f \in HubFiles : chip[f] = "sweep" => f \in linked
  /\ \A f \in linked : /\ chip[f] \in {"sweep", "complete", "error"}
                       /\ history[f] \in Final => chip[f] # "sweep"

\* The last list, on its way or arrived, shows the job finished.
ToldFinished(f) ==
  IF lists = <<>> THEN history[f] \in Final ELSE lists[Len(lists)][f] \in Final

LinkedAreWatched ==
  \A f \in linked : f \notin missed =>
    f \in armed \/ ToldFinished(f) \/ \E p \in polling : p.file = f

HubInv == HubTyped /\ HubSeesThePast /\ ChipsFollow /\ LinkedAreWatched

\* What the effect makes of the chips c: chips d that follow the history h of
\* the jobs l the page knows.
Follows(c, l, h, d) ==
  /\ d \in [HubFiles -> Phases]
  /\ \A f \in HubFiles \ l : d[f] = c[f]
  /\ \A f \in l : d[f] \in {c[f], "sweep", "complete", "error"}
  /\ \A f \in l : h[f] \in Final => d[f] \in {"complete", "error"}

LEMMA AdvancedFollows ==
  ASSUME NEW c \in [HubFiles -> Phases], NEW l, l \subseteq HubFiles,
         NEW h \in [HubFiles -> Statuses], NEW a, a.status \in Statuses
  PROVE  Follows(c, l, h, Advanced(c, l, h, a))
<1> DEFINE d == Advanced(c, l, h, a)
<1>1. ASSUME NEW f \in HubFiles
      PROVE  /\ KnownStatus(f, h, a) \in Statuses
             /\ h[f] \in Final => KnownStatus(f, h, a) \in Final
  BY DEF KnownStatus, Statuses, Final
<1>2. ASSUME NEW s \in Statuses, NEW phase
      PROVE  /\ PhaseOf(s, phase) \in {phase, "sweep", "complete", "error"}
             /\ s \in Final => PhaseOf(s, phase) \in {"complete", "error"}
  BY DEF PhaseOf, Statuses, Final
<1>3. d = [f \in HubFiles |-> IF f \in l THEN PhaseOf(KnownStatus(f, h, a), c[f]) ELSE c[f]]
  BY DEF Advanced
<1> HIDE DEF d
<1>4. \A f \in l : /\ d[f] \in {c[f], "sweep", "complete", "error"}
                   /\ h[f] \in Final => d[f] \in {"complete", "error"}
  <2> SUFFICES ASSUME NEW f \in l
               PROVE  /\ d[f] \in {c[f], "sweep", "complete", "error"}
                      /\ h[f] \in Final => d[f] \in {"complete", "error"}
    OBVIOUS
  <2>1. d[f] = PhaseOf(KnownStatus(f, h, a), c[f])
    BY <1>3
  <2> QED
    BY <1>1, <1>2, <2>1
<1>5. \A f \in HubFiles \ l : d[f] = c[f]
  BY <1>3
<1>6. \A f \in HubFiles : d[f] \in Phases
  <2>1. \A f \in HubFiles : c[f] \in Phases
    OBVIOUS
  <2>2. \A f \in l : d[f] \in Phases
    BY <1>4, <2>1 DEF Phases
  <2> QED
    BY <1>5, <2>1, <2>2
<1>7. d \in [HubFiles -> Phases]
  BY <1>3, <1>6
<1>8. Follows(c, l, h, d)
  BY <1>4, <1>5, <1>7 DEF Follows
<1> QED
  BY <1>8 DEF d

LEMMA HubStart == ImportHubInit => HubInv
BY DEF ImportHubInit, HubInv, HubTyped, HubSeesThePast, ChipsFollow, LinkedAreWatched,
       NoActive, Statuses, Final, Phases

\* The server's steps, and what the user drops.
LEMMA ServerKeeps ==
  ASSUME HubInv, NEW f \in HubFiles, DropFile(f) \/ ServerAccepts(f) \/ ServerFinishes(f)
  PROVE  HubInv'
<1>1. UNCHANGED <<hub, linked, history, active, armed, timer, polling, lists, missed>>
  BY DEF DropFile, ServerAccepts, ServerFinishes
<1>2. /\ remote' \in [HubFiles -> Statuses]
      /\ \A g \in HubFiles : /\ remote[g] # "none" => remote'[g] # "none"
                             /\ remote[g] \in Final => remote'[g] \in Final
  BY DEF DropFile, ServerAccepts, ServerFinishes, HubInv, HubTyped, Statuses, Final
<1>3. /\ chip' \in [HubFiles -> Phases]
      /\ \A g \in HubFiles : chip'[g] = chip[g] \/ (chip[g] = "none" /\ chip'[g] = "progress")
  BY DEF DropFile, ServerAccepts, ServerFinishes, HubInv, HubTyped, Phases
<1>4. HubTyped'
  BY <1>1, <1>2, <1>3 DEF HubInv, HubTyped
<1>5. HubSeesThePast'
  <2>1. \A p \in polling : p.file \in HubFiles
    BY DEF HubInv, HubTyped
  <2>2. armed \subseteq HubFiles
    BY DEF HubInv, HubTyped
  <2>3. \A g \in armed' : remote'[g] # "none"
    <3>1. armed' = armed
      BY <1>1
    <3>2. \A g \in armed : remote[g] # "none"
      BY DEF HubInv, HubSeesThePast
    <3>3. \A g \in HubFiles : remote[g] # "none" => remote'[g] # "none"
      BY <1>2
    <3> QED
      BY <2>2, <3>1, <3>2, <3>3
  <2>4. \A p \in polling' : /\ p.status # "none" /\ remote'[p.file] # "none"
                            /\ p.status \in Final => remote'[p.file] \in Final
    BY <1>1, <1>2, <2>1 DEF HubInv, HubSeesThePast
  <2>5. /\ \A g \in HubFiles : history'[g] \in Final => remote'[g] \in Final
        /\ \A n \in DOMAIN lists', g \in HubFiles : lists'[n][g] \in Final => remote'[g] \in Final
    BY <1>1, <1>2 DEF HubInv, HubSeesThePast
  <2> QED
    BY <2>3, <2>4, <2>5 DEF HubSeesThePast
<1>6. ChipsFollow'
  BY <1>1, <1>3 DEF HubInv, HubTyped, ChipsFollow
<1>7. LinkedAreWatched'
  BY <1>1 DEF HubInv, LinkedAreWatched, ToldFinished
<1> QED
  BY <1>4, <1>5, <1>6, <1>7 DEF HubInv

LEMMA UploadKeeps ==
  ASSUME HubInv, NEW f \in HubFiles, UploadResolves(f) \/ UploadRejects(f)
  PROVE  HubInv'
<1>1. UNCHANGED <<remote, hub, history, active, polling, lists, missed>> /\ hub /\ chip[f] = "progress"
  BY DEF UploadResolves, UploadRejects, ArmPoll
<1>2. CASE UploadResolves(f)
  <2>1. /\ linked' = linked \cup {f} /\ armed' = armed \cup {f} /\ remote[f] # "none"
        /\ chip' = Advanced([chip EXCEPT ![f] = "sweep"], linked', history, active)
    BY <1>2 DEF UploadResolves, ArmPoll
  <2> DEFINE sent == [chip EXCEPT ![f] = "sweep"]
  <2>2. /\ sent \in [HubFiles -> Phases] /\ sent[f] = "sweep"
        /\ \A g \in HubFiles \ {f} : sent[g] = chip[g]
    BY DEF HubInv, HubTyped, Phases
  <2>3. linked' \subseteq HubFiles /\ history \in [HubFiles -> Statuses] /\ active.status \in Statuses
    BY <2>1 DEF HubInv, HubTyped
  <2> HIDE DEF sent
  <2>4. Follows(sent, linked', history, chip')
    BY <2>1, <2>2, <2>3, AdvancedFollows DEF sent
  <2>5. HubTyped' /\ HubSeesThePast'
    BY <1>1, <2>1, <2>3, <2>4 DEF HubInv, HubTyped, HubSeesThePast, Follows
  <2>6. ChipsFollow'
    BY <1>1, <2>1, <2>2, <2>3, <2>4 DEF HubInv, HubTyped, ChipsFollow, Follows
  <2>7. LinkedAreWatched'
    BY <1>1, <2>1 DEF HubInv, LinkedAreWatched, ToldFinished
  <2> QED
    BY <2>5, <2>6, <2>7 DEF HubInv
<1>3. CASE UploadRejects(f)
  <2>1. UNCHANGED <<linked, armed>> /\ chip' = [chip EXCEPT ![f] = "error"]
    BY <1>3 DEF UploadRejects
  <2> QED
    BY <1>1, <2>1
    DEF HubInv, HubTyped, HubSeesThePast, ChipsFollow, LinkedAreWatched, ToldFinished, Phases
<1> QED
  BY <1>2, <1>3

LEMMA TickKeeps == ASSUME HubInv, NEW f \in HubFiles, HubTick(f) PROVE HubInv'
<1>1. /\ UNCHANGED <<remote, hub, chip, linked, history, active, lists, missed>>
      /\ armed' = armed \ {f} /\ f \in armed
      /\ polling' = polling \cup {[file |-> f, status |-> remote[f]]}
  BY DEF HubTick
<1>2. HubTyped' /\ HubSeesThePast'
  BY <1>1 DEF HubInv, HubTyped, HubSeesThePast
<1>3. ChipsFollow'
  BY <1>1 DEF HubInv, ChipsFollow
<1>4. LinkedAreWatched'
  <2> DEFINE answer == [file |-> f, status |-> remote[f]]
  <2>1. answer \in polling' /\ answer.file = f
    BY <1>1
  <2>2. polling \subseteq polling' /\ \A g \in armed : g \in armed' \/ g = f
    BY <1>1
  <2> QED
    BY <1>1, <2>1, <2>2 DEF HubInv, LinkedAreWatched, ToldFinished
<1> QED
  BY <1>2, <1>3, <1>4 DEF HubInv

LEMMA PollKeeps == ASSUME HubInv, NEW p \in polling, PollAnswers(p) PROVE HubInv'
<1>1. /\ UNCHANGED <<remote, hub, linked, history, missed>>
      /\ polling' = polling \ {p} /\ active' = (IF hub THEN p ELSE active)
      /\ chip' = Advanced(chip, linked, history, active')
  BY DEF PollAnswers
<1>2. p \in [file : HubFiles, status : Statuses] /\ active'.status \in Statuses
  BY <1>1 DEF HubInv, HubTyped
<1>3. Follows(chip, linked, history, chip')
  <2>1. /\ chip \in [HubFiles -> Phases] /\ linked \subseteq HubFiles
        /\ history \in [HubFiles -> Statuses]
    BY DEF HubInv, HubTyped
  <2> QED
    BY <1>1, <1>2, <2>1, AdvancedFollows
<1>4. ChipsFollow'
  BY <1>1, <1>3 DEF HubInv, HubTyped, ChipsFollow, Follows
<1>5. CASE p.status = "processing"
  <2>1. armed' = armed \cup {p.file} /\ lists' = lists
    BY <1>5 DEF PollAnswers, ArmPoll
  <2>3. HubTyped'
    BY <1>1, <1>2, <1>3, <2>1 DEF HubInv, HubTyped, Follows
  <2>5. remote[p.file] # "none"
    BY <1>5 DEF HubInv, HubSeesThePast
  <2>6. HubSeesThePast'
    BY <1>1, <2>1, <2>5 DEF HubInv, HubSeesThePast
  <2>4. LinkedAreWatched'
    BY <1>1, <2>1 DEF HubInv, LinkedAreWatched, ToldFinished
  <2> QED
    BY <1>4, <2>3, <2>4, <2>6 DEF HubInv
<1>6. CASE p.status # "processing"
  <2>1. lists' = Append(lists, remote) /\ armed' = armed
    BY <1>6 DEF PollAnswers
  <2>2. /\ lists' \in Seq([HubFiles -> Statuses]) /\ lists' # <<>>
        /\ lists'[Len(lists')] = remote
        /\ \A n \in DOMAIN lists' : lists'[n] = remote \/ (n \in DOMAIN lists /\ lists'[n] = lists[n])
    BY <2>1 DEF HubInv, HubTyped
  <2>3. HubTyped' /\ HubSeesThePast'
    BY <1>1, <1>2, <1>3, <2>1, <2>2 DEF HubInv, HubTyped, HubSeesThePast, Follows
  <2>4. \A f \in HubFiles : ToldFinished(f) => remote[f] \in Final
    BY DEF HubInv, HubTyped, HubSeesThePast, ToldFinished
  <2>5. remote[p.file] \in Final
    BY <1>2, <1>6 DEF HubInv, HubSeesThePast, Statuses, Final
  <2>6. \A f \in HubFiles : remote[f] \in Final => ToldFinished(f)'
    BY <1>1, <2>2 DEF ToldFinished
  <2>7. LinkedAreWatched'
    BY <1>1, <2>1, <2>4, <2>5, <2>6 DEF HubInv, HubTyped, LinkedAreWatched
  <2> QED
    BY <1>4, <2>3, <2>7 DEF HubInv
<1> QED
  BY <1>5, <1>6

LEMMA ListKeeps ==
  ASSUME HubInv, "overtaken" \notin HubFaults, NEW n \in DOMAIN lists, ListArrives(n)
  PROVE  HubInv'
<1>1. /\ UNCHANGED <<remote, hub, linked, active, armed, polling, missed>>
      /\ n = 1 /\ lists' = RemoveAt(lists, 1)
      /\ history' = (IF hub THEN lists[1] ELSE history)
      /\ chip' = Advanced(chip, linked, history', active)
  BY DEF ListArrives
<1>2. lists \in Seq([HubFiles -> Statuses]) /\ Len(lists) \in Nat /\ Len(lists) >= 1
      /\ lists[1] \in [HubFiles -> Statuses]
  BY <1>1 DEF HubInv, HubTyped
<1>3. /\ lists' \in Seq([HubFiles -> Statuses]) /\ Len(lists') = Len(lists) - 1
      /\ \A k \in 1..(Len(lists) - 1) : lists'[k] = lists[k + 1]
      /\ DOMAIN lists' = 1..(Len(lists) - 1) /\ DOMAIN lists = 1..Len(lists)
  <2>1. lists # <<>>
    BY <1>2
  <2>2. SubSeq(lists, 1, 0) = <<>> /\ SubSeq(lists, 2, Len(lists)) = Tail(lists)
    BY <1>2, <2>1, SubSeqEmpty, TailIsSubSeq
  <2>3. lists' = <<>> \o Tail(lists) /\ Tail(lists) \in Seq([HubFiles -> Statuses])
    BY <1>1, <1>2, <2>1, <2>2 DEF RemoveAt
  <2>4. lists' = Tail(lists)
    BY <2>3, ConcatEmptySeq
  <2> QED
    BY <1>2, <2>1, <2>4
<1>4. history' \in [HubFiles -> Statuses]
  BY <1>1, <1>2 DEF HubInv, HubTyped
<1>5. Follows(chip, linked, history', chip')
  <2>1. /\ chip \in [HubFiles -> Phases] /\ linked \subseteq HubFiles
        /\ active.status \in Statuses
    BY DEF HubInv, HubTyped
  <2> QED
    BY <1>1, <1>4, <2>1, AdvancedFollows
<1>6. HubTyped'
  BY <1>1, <1>3, <1>4, <1>5 DEF HubInv, HubTyped, Follows
<1>7. HubSeesThePast'
  <2>0. \A k \in 1..(Len(lists) - 1) : k + 1 \in 1..Len(lists)
    BY <1>2
  <2>1. \A k \in DOMAIN lists' : k + 1 \in DOMAIN lists /\ lists'[k] = lists[k + 1]
    BY <1>3, <2>0
  <2>2. \A f \in HubFiles : history'[f] \in Final => remote[f] \in Final
    BY <1>1, <1>2 DEF HubInv, HubSeesThePast
  <2>3. \A k \in DOMAIN lists', f \in HubFiles : lists'[k][f] \in Final => remote[f] \in Final
    BY <2>1 DEF HubInv, HubSeesThePast
  <2> QED
    BY <1>1, <2>2, <2>3 DEF HubInv, HubSeesThePast
<1>8. ChipsFollow'
  BY <1>1, <1>5 DEF HubInv, HubTyped, ChipsFollow, Follows
<1>9. LinkedAreWatched'
  <2>1. ASSUME NEW f \in linked, ToldFinished(f) PROVE ToldFinished(f)'
    <3>1. hub /\ history' = lists[1] /\ lists[Len(lists)][f] \in Final
      BY <1>1, <1>2, <2>1 DEF HubInv, HubTyped, ChipsFollow, ToldFinished
    <3>2. CASE Len(lists) = 1
      BY <1>3, <3>1, <3>2 DEF ToldFinished
    <3>3. CASE Len(lists) # 1
      <4> DEFINE size == Len(lists)
      <4>2. size \in Nat /\ size >= 1 /\ size # 1
        BY <1>2, <3>3
      <4> HIDE DEF size
      <4>3. size - 1 \in 1..(size - 1) /\ (size - 1) + 1 = size
        BY <4>2
      <4>0. Len(lists) - 1 \in 1..(Len(lists) - 1) /\ (Len(lists) - 1) + 1 = Len(lists)
        BY <4>3 DEF size
      <4>1. lists' # <<>> /\ lists'[Len(lists')] = lists[Len(lists)]
        BY <1>3, <4>0
      <4> QED
        BY <3>1, <4>1 DEF ToldFinished
    <3> QED
      BY <3>2, <3>3
  <2> QED
    BY <1>1, <2>1 DEF HubInv, LinkedAreWatched
<1> QED
  BY <1>6, <1>7, <1>8, <1>9 DEF HubInv

LEMMA LossKeeps ==
  ASSUME HubInv, (\E p \in polling : HubPollFails(p)) \/ ListFails
  PROVE  HubInv'
<1>1. UNCHANGED <<remote, hub, chip, linked, history, active, armed>>
  BY DEF HubPollFails, ListFails
<1>2. CASE \E p \in polling : HubPollFails(p)
  BY <1>1, <1>2 DEF HubPollFails, HubInv, HubTyped, HubSeesThePast, ChipsFollow,
                    LinkedAreWatched, ToldFinished
<1>3. CASE ListFails
  <2>1. lists # <<>> /\ lists' = Tail(lists) /\ missed' = HubFiles /\ UNCHANGED polling
    BY <1>3 DEF ListFails
  <2>2. /\ lists' \in Seq([HubFiles -> Statuses])
        /\ \A k \in DOMAIN lists' : k + 1 \in DOMAIN lists /\ lists'[k] = lists[k + 1]
    BY <2>1 DEF HubInv, HubTyped
  <2>3. HubTyped' /\ HubSeesThePast'
    BY <1>1, <2>1, <2>2 DEF HubInv, HubTyped, HubSeesThePast
  <2>4. ChipsFollow' /\ LinkedAreWatched'
    BY <1>1, <2>1 DEF HubInv, HubTyped, ChipsFollow, LinkedAreWatched
  <2> QED
    BY <2>3, <2>4 DEF HubInv
<1> QED
  BY <1>2, <1>3

LEMMA LeaveHubKeeps == ASSUME HubInv, LeaveHub PROVE HubInv'
<1>1. /\ UNCHANGED <<remote, polling, lists, missed>> /\ hub' = FALSE /\ linked' = {}
      /\ armed' \subseteq armed /\ active' = NoActive
      /\ history' = [f \in HubFiles |-> "none"]
      /\ chip' = [f \in HubFiles |-> IF chip[f] = "none" THEN "none" ELSE "unmounted"]
  BY DEF LeaveHub
<1>2. HubTyped' /\ HubSeesThePast'
  BY <1>1 DEF HubInv, HubTyped, HubSeesThePast, NoActive, Statuses, Final, Phases
<1>3. ChipsFollow' /\ LinkedAreWatched'
  BY <1>1 DEF ChipsFollow, LinkedAreWatched
<1> QED
  BY <1>2, <1>3 DEF HubInv

LEMMA HubInductive ==
  "overtaken" \notin HubFaults /\ HubInv /\ [ImportHubNext]_importHubVars => HubInv'
<1> SUFFICES ASSUME "overtaken" \notin HubFaults, HubInv, [ImportHubNext]_importHubVars
             PROVE  HubInv'
  OBVIOUS
<1>1. CASE ImportHubNext
  BY <1>1, ServerKeeps, UploadKeeps, TickKeeps, PollKeeps, ListKeeps, LossKeeps, LeaveHubKeeps
  DEF ImportHubNext
<1>2. CASE UNCHANGED importHubVars
  BY <1>2 DEF importHubVars, HubInv, HubTyped, HubSeesThePast, ChipsFollow, LinkedAreWatched,
              ToldFinished
<1> QED
  BY <1>1, <1>2

\* A chip in its sweep is never abandoned, however many files are uploaded at
\* once and share the one timer reference, as long as no answer about it is
\* lost and lists arrive in the order they were asked for (use-imports.ts,
\* pollJob).
THEOREM SweepsAreWatched ==
  "overtaken" \notin HubFaults /\ ImportHubSpec => []SweepIsWatched
<1>1. HubInv => SweepIsWatched
  BY DEF HubInv, ChipsFollow, LinkedAreWatched, ToldFinished, SweepIsWatched, HubTyped
<1>2. ("overtaken" \notin HubFaults) /\ ImportHubSpec => []HubInv
  <2> SUFFICES ASSUME "overtaken" \notin HubFaults PROVE ImportHubSpec => []HubInv
    OBVIOUS
  <2>1. HubInv /\ [ImportHubNext]_importHubVars => HubInv'
    BY HubInductive
  <2> QED
    BY <2>1, HubStart, PTL DEF ImportHubSpec
<1> QED
  BY <1>1, <1>2, PTL

-----------------------------------------------------------------------------
(* Data & privacy                                                          *)

Progress == {0, 48, 100}

\* The jobs are numbered without a gap, and a page, its timers and the answers
\* on their way know only jobs there are.
ExportsNumbered == \E n \in 0..MaxExports : exports \in [1..n -> Progress]
JobsThereAre ==
  /\ \A c \in privacyCalls : c.op \in {"export", "poll"} => c.job \in DOMAIN exports
  /\ exportShown.job \in {0} \cup DOMAIN exports /\ exportTimers \subseteq DOMAIN exports

PrivacyFlags ==
  /\ deletion \in {"none", "pending", "cancelled"} /\ bannerOf \in {"none", "pending"}
  /\ aiRecord \in BOOLEAN /\ consentShown \in BOOLEAN /\ phraseTyped \in BOOLEAN
  /\ pollFailed \in BOOLEAN /\ deletions \in 0..MaxDeletions

PrivacyInv == ExportsNumbered /\ JobsThereAre /\ PrivacyFlags

LEMMA PrivacyStart == PrivacyPageInit => PrivacyInv
<1> SUFFICES ASSUME PrivacyPageInit PROVE PrivacyInv
  OBVIOUS
<1> USE PrivacyPageAssumption DEF PrivacyPageInit
<1>1. exports \in [1..0 -> Progress] /\ 0 \in 0..MaxExports
  BY DEF Progress
<1>2. JobsThereAre
  BY DEF JobsThereAre, StatusRead, NoExport
<1>3. PrivacyFlags
  <2>1. deletions \in 0..MaxDeletions
    OBVIOUS
  <2>2. /\ deletion \in {"none", "pending", "cancelled"} /\ bannerOf \in {"none", "pending"}
        /\ phraseTyped \in BOOLEAN /\ pollFailed \in BOOLEAN
    OBVIOUS
  <2>3. aiRecord \in BOOLEAN /\ consentShown \in BOOLEAN
    BY Zenon
  <2> QED BY <2>1, <2>2, <2>3 DEF PrivacyFlags
<1> QED BY <1>1, <1>2, <1>3 DEF PrivacyInv, ExportsNumbered

\* Only Ask and a poll of the archive change the jobs.
LEMMA AskNumbers ==
  ASSUME PrivacyInv, Ask
  PROVE  /\ ExportsNumbered' /\ DOMAIN exports \subseteq DOMAIN exports'
         /\ \A c \in privacyCalls' \ privacyCalls : c.op = "export" /\ c.job \in DOMAIN exports'
<1> USE DEF PrivacyInv
<1>1. PICK n \in 0..MaxExports : exports \in [1..n -> Progress]
  BY DEF ExportsNumbered
<1>2. Cardinality(DOMAIN exports) = n
  BY <1>1, FS_Interval, PrivacyPageAssumption
<1>3. /\ n < MaxExports
      /\ exports' = [j \in 1..(n + 1) |-> IF j = n + 1 THEN 0 ELSE exports[j]]
      /\ privacyCalls' = privacyCalls \cup {[op |-> "export", job |-> n + 1]}
  BY <1>2 DEF Ask
<1>4. \A j \in 1..(n + 1) : j = n + 1 \/ j \in 1..n
  BY <1>1, PrivacyPageAssumption
<1>5. exports' \in [1..(n + 1) -> Progress] /\ n + 1 \in 0..MaxExports
  BY <1>1, <1>3, <1>4, PrivacyPageAssumption DEF Progress
<1>6. DOMAIN exports' = 1..(n + 1) /\ DOMAIN exports = 1..n /\ 1..n \subseteq 1..(n + 1) /\ n + 1 \in 1..(n + 1)
  BY <1>1, <1>3, PrivacyPageAssumption
<1> QED BY <1>3, <1>5, <1>6 DEF ExportsNumbered

LEMMA PollNumbers ==
  ASSUME PrivacyInv, PollExport
  PROVE  ExportsNumbered' /\ JobsThereAre'
<1> USE DEF PrivacyInv
<1>1. PICK n \in 0..MaxExports : exports \in [1..n -> Progress]
  BY DEF ExportsNumbered
<1>2. PICK j \in exportTimers :
        /\ exportTimers' = exportTimers \ {j}
        /\ exports' = [exports EXCEPT ![j] = Built(@)]
        /\ privacyCalls' = privacyCalls \cup
             {[op |-> "poll", job |-> j,
               status |-> IF Built(exports[j]) = 100 THEN "completed" ELSE "running"]}
  BY DEF PollExport
<1>3. j \in 1..n /\ exports[j] \in Progress
  BY <1>1 DEF JobsThereAre
<1>4. Built(exports[j]) \in Progress
  BY <1>3 DEF Built, Progress
<1>5. exports' \in [1..n -> Progress] /\ DOMAIN exports' = DOMAIN exports
  BY <1>1, <1>2, <1>3, <1>4
<1>6. exportShown' = exportShown /\ j \in DOMAIN exports
  BY <1>1, <1>3 DEF PollExport
<1>7. JobsThereAre'
  BY <1>2, <1>5, <1>6 DEF JobsThereAre
<1> QED BY <1>5, <1>7 DEF ExportsNumbered

LEMMA PrivacyNext == PrivacyInv /\ [PrivacyPageNext]_privacyVars => PrivacyInv'
<1> SUFFICES ASSUME PrivacyInv, [PrivacyPageNext]_privacyVars PROVE PrivacyInv'
  OBVIOUS
<1> USE DEF PrivacyInv
<1>1. CASE UNCHANGED privacyVars
  BY <1>1 DEF privacyVars, ExportsNumbered, JobsThereAre, PrivacyFlags
<1>2. ASSUME StartExport \/ ExportFirst PROVE PrivacyInv'
  <2>1. Ask /\ UNCHANGED <<pollFailed, deletion, aiRecord, bannerOf, phraseTyped, exportShown,
                           exportTimers, consentShown, deletions>>
    BY <1>2 DEF StartExport, ExportFirst
  <2>2. PrivacyFlags'
    BY <2>1 DEF PrivacyFlags
  <2>3. ExportsNumbered' /\ JobsThereAre'
    BY <2>1, AskNumbers DEF JobsThereAre
  <2> QED BY <2>2, <2>3
<1>3. CASE PollExport
  <2>1. PrivacyFlags'
    BY <1>3 DEF PollExport, PrivacyFlags
  <2> QED BY <1>3, <2>1, PollNumbers
<1>4. ASSUME exports' = exports, JobsThereAre', PrivacyFlags' PROVE PrivacyInv'
  BY <1>4 DEF ExportsNumbered
<1>5. CASE ReloadPrivacy
  <2>1. JobsThereAre'
    BY <1>5 DEF ReloadPrivacy, JobsThereAre, NoExport, StatusRead
  <2>2. PrivacyFlags'
    <3>1. deletions' \in 0..MaxDeletions
      BY <1>5, PrivacyPageAssumption DEF ReloadPrivacy, PrivacyFlags
    <3>2. consentShown' \in BOOLEAN /\ aiRecord' \in BOOLEAN
      BY <1>5, Zenon DEF ReloadPrivacy, PrivacyFlags
    <3>3. /\ deletion' \in {"none", "pending", "cancelled"} /\ bannerOf' \in {"none", "pending"}
          /\ phraseTyped' \in BOOLEAN /\ pollFailed' \in BOOLEAN
      BY <1>5 DEF ReloadPrivacy, PrivacyFlags
    <3> QED BY <3>1, <3>2, <3>3 DEF PrivacyFlags
  <2> QED BY <1>4, <1>5, <2>1, <2>2 DEF ReloadPrivacy
<1>6. CASE OpenDialog \/ TypePhrase \/ CountDown \/ CancelDialog
  BY <1>4, <1>6 DEF OpenDialog, TypePhrase, CountDown, CancelDialog, JobsThereAre, PrivacyFlags
<1>7. CASE StartPurge
  <2>1. JobsThereAre'
    BY <1>7 DEF StartPurge, JobsThereAre
  <2>2. PrivacyFlags'
    BY <1>7, PrivacyPageAssumption DEF StartPurge, PrivacyFlags
  <2> QED BY <1>4, <1>7, <2>1, <2>2 DEF StartPurge
<1>8. CASE PurgeAnswered
  <2>1. JobsThereAre'
    BY <1>8 DEF PurgeAnswered, Landed, StatusRead, JobsThereAre
  <2>2. PrivacyFlags'
    BY <1>8 DEF PurgeAnswered, PrivacyFlags
  <2> QED BY <1>4, <1>8, <2>1, <2>2 DEF PurgeAnswered
<1>9. CASE StatusLands \/ CancelAnswered \/ ConsentLands
  <2>1. JobsThereAre'
    BY <1>9 DEF StatusLands, CancelAnswered, ConsentLands, Landed, JobsThereAre
  <2>2. PrivacyFlags'
    BY <1>9 DEF StatusLands, CancelAnswered, ConsentLands, PrivacyFlags
  <2> QED BY <1>4, <1>9, <2>1, <2>2 DEF StatusLands, CancelAnswered, ConsentLands
<1>10. CASE CancelPurge
  <2>1. JobsThereAre'
    BY <1>10 DEF CancelPurge, JobsThereAre
  <2>2. PrivacyFlags'
    BY <1>10, PrivacyPageAssumption DEF CancelPurge, PrivacyFlags
  <2> QED BY <1>4, <1>10, <2>1, <2>2 DEF CancelPurge
<1>11. CASE OnAnotherDevice
  <2>1. JobsThereAre'
    BY <1>11 DEF OnAnotherDevice, JobsThereAre
  <2>2. PrivacyFlags'
    BY <1>11, PrivacyPageAssumption DEF OnAnotherDevice, PrivacyFlags
  <2> QED BY <1>4, <1>11, <2>1, <2>2 DEF OnAnotherDevice
<1>12. CASE ExportAccepted \/ PollAnswered
  <2>1. JobsThereAre'
    BY <1>12 DEF ExportAccepted, PollAnswered, Landed, JobsThereAre
  <2>2. PrivacyFlags'
    BY <1>12 DEF ExportAccepted, PollAnswered, PrivacyFlags
  <2> QED BY <1>4, <1>12, <2>1, <2>2 DEF ExportAccepted, PollAnswered
<1>13. CASE PollFails
  BY <1>4, <1>13 DEF PollFails, Landed, JobsThereAre, PrivacyFlags
<1>14. CASE Consent
  BY <1>4, <1>14 DEF Consent, JobsThereAre, PrivacyFlags
<1> QED
  BY <1>1, <1>2, <1>3, <1>5, <1>6, <1>7, <1>8, <1>9, <1>10, <1>11, <1>12, <1>13, <1>14
     DEF PrivacyPageNext

LEMMA PrivacyTypes == PrivacyInv => PrivacyPageTypeOK
<1> SUFFICES ASSUME PrivacyInv PROVE PrivacyPageTypeOK
  OBVIOUS
<1>1. PICK n \in 0..MaxExports : exports \in [1..n -> Progress]
  BY DEF PrivacyInv, ExportsNumbered
<1>2. exportShown.job \in 0..MaxExports
  BY <1>1, PrivacyPageAssumption DEF PrivacyInv, JobsThereAre
<1>3. \A j \in DOMAIN exports : exports[j] \in {0, 48, 100}
  BY <1>1 DEF Progress
<1> QED BY <1>2, <1>3 DEF PrivacyInv, PrivacyFlags, JobsThereAre, PrivacyPageTypeOK

-----------------------------------------------------------------------------
(* Taxes                                                                   *)

RevenueShape ==
  revenue = [profile |-> revenue.profile, address |-> revenue.address, ledger |-> revenue.ledger,
             statements |-> revenue.statements, filings |-> revenue.filings]

WizardShape ==
  /\ wizard = [step |-> wizard.step, kind |-> wizard.kind, period |-> wizard.period,
               touched |-> wizard.touched, filing |-> wizard.filing, blocked |-> wizard.blocked,
               busy |-> wizard.busy, confirm |-> wizard.confirm, done |-> wizard.done,
               error |-> wizard.error]
  /\ wizard.step \in 1..4 /\ wizard.kind \in DOMAIN FilingPeriods
  /\ wizard.done \in BOOLEAN /\ wizard.busy \in BOOLEAN

\* A filing is a draft until it is generated.
FilingsAdvance ==
  /\ \E S : revenue.filings \in Seq(S)
  /\ \A i \in DOMAIN revenue.filings :
       LET f == revenue.filings[i]
       IN /\ f = [est |-> f.est, status |-> f.status, id |-> f.id, sheet |-> f.sheet]
          /\ f.status \in {"draft", "generated"} /\ f.id = i

\* A filing the page has, or will have, is on file with the very same figures.
OnFile(f) == f.id \in DOMAIN revenue.filings /\ revenue.filings[f.id].est = f.est
ShownAreOnFile ==
  /\ wizard.filing # <<>> => OnFile(wizard.filing[1])
  /\ \A c \in taxCalls :
       /\ c.op \in {"mount", "refresh", "profile", "draft", "generate"}
       /\ c.op = "refresh" /\ c.then # <<>> => OnFile(c.then[1])
       /\ c.op \in {"draft", "generate"} /\ c.answer.code = "ok" => OnFile(c.answer.filing)

TaxCounts ==
  taxScreen \in {"taxes", "file"} /\ visits \in 0..MaxVisits /\ typings \in 0..MaxTaxTyping

TaxInv == RevenueShape /\ WizardShape /\ FilingsAdvance /\ ShownAreOnFile /\ TaxCounts

\* The wizard at its start.
LEMMA NewWizardShape ==
  /\ NewWizard = [step |-> NewWizard.step, kind |-> NewWizard.kind, period |-> NewWizard.period,
               touched |-> NewWizard.touched, filing |-> NewWizard.filing,
               blocked |-> NewWizard.blocked,
               busy |-> NewWizard.busy, confirm |-> NewWizard.confirm, done |-> NewWizard.done,
               error |-> NewWizard.error]
  /\ NewWizard.step \in 1..4 /\ NewWizard.kind \in DOMAIN FilingPeriods
  /\ NewWizard.done = FALSE /\ NewWizard.busy = FALSE /\ NewWizard.filing = <<>>
BY TaxPagesAssumption DEF NewWizard

LEMMA TaxStart == TaxPagesInit => TaxInv
<1> SUFFICES ASSUME TaxPagesInit PROVE TaxInv
  OBVIOUS
<1>1. PICK taxpayer \in Taxpayers, address \in BOOLEAN :
        revenue = [profile |-> EmptyTaxProfile(taxpayer), address |-> address,
                   ledger |-> <<>>, statements |-> <<>>, filings |-> <<>>]
  BY DEF TaxPagesInit
<1>2. wizard = NewWizard /\ taxCalls = {[op |-> "mount"]} /\ visits = 0 /\ typings = 0
      /\ taxScreen \in {"taxes", "file"}
  BY DEF TaxPagesInit
<1>3. RevenueShape
  BY <1>1 DEF RevenueShape
<1>4. WizardShape
  BY <1>2, NewWizardShape DEF WizardShape
<1>5. FilingsAdvance
  <2>1. revenue.filings = <<>>
    BY <1>1
  <2>2. <<>> \in Seq({}) /\ DOMAIN <<>> = {}
    OBVIOUS
  <2> QED BY <2>1, <2>2 DEF FilingsAdvance
<1>6. ShownAreOnFile
  BY <1>2, NewWizardShape DEF ShownAreOnFile
<1>7. TaxCounts
  BY <1>2, TaxPagesAssumption DEF TaxCounts
<1> QED BY <1>3, <1>4, <1>5, <1>6, <1>7 DEF TaxInv

\* What is on file stays on file, with its figures.
FilingsStand ==
  /\ DOMAIN revenue.filings \subseteq DOMAIN revenue'.filings
  /\ \A i \in DOMAIN revenue.filings : revenue'.filings[i].est = revenue.filings[i].est

\* A call that is sent or becomes another one, and a wizard that shows the same
\* filing or that of an answer.
LEMMA StillOnFile ==
  ASSUME TaxInv, FilingsStand,
         \/ wizard'.filing \in {wizard.filing, <<>>}
         \/ \E c \in taxCalls : c.op = "refresh" /\ c.then # <<>> /\ wizard'.filing = c.then,
         \A c \in taxCalls' \ taxCalls :
           /\ c.op \in {"mount", "refresh", "profile", "draft", "generate"}
           /\ c.op = "refresh" /\ c.then # <<>> => OnFile(c.then[1])'
           /\ c.op \in {"draft", "generate"} /\ c.answer.code = "ok" => OnFile(c.answer.filing)'
  PROVE  ShownAreOnFile'
<1>1. \A f : OnFile(f) => OnFile(f)'
  BY DEF OnFile, FilingsStand
<1>2. wizard'.filing # <<>> => OnFile(wizard.filing[1])'
  <2>1. wizard'.filing # <<>> => OnFile(wizard'.filing[1])
    BY DEF TaxInv, ShownAreOnFile
  <2> QED BY <1>1, <2>1
<1>3. ASSUME NEW c \in taxCalls
      PROVE  /\ c.op \in {"mount", "refresh", "profile", "draft", "generate"}
             /\ c.op = "refresh" /\ c.then # <<>> => OnFile(c.then[1])'
             /\ c.op \in {"draft", "generate"} /\ c.answer.code = "ok" => OnFile(c.answer.filing)'
  BY <1>1, <1>3 DEF TaxInv, ShownAreOnFile
<1> QED BY <1>2, <1>3 DEF ShownAreOnFile

\* A filing created stands at the end.
LEMMA AppendsFiling ==
  ASSUME TaxInv, NEW f,
         f = [est |-> f.est, status |-> "draft", id |-> Len(revenue.filings) + 1, sheet |-> FALSE],
         revenue' = [revenue EXCEPT !.filings = Append(@, f)]
  PROVE  RevenueShape' /\ FilingsAdvance' /\ FilingsStand /\ OnFile(f)'
         /\ \A i \in DOMAIN revenue.filings : revenue'.filings[i] = revenue.filings[i]
<1>1. PICK S : revenue.filings \in Seq(S)
  BY DEF TaxInv, FilingsAdvance
<1> DEFINE fs == revenue.filings
           more == Append(fs, f)
           n == Len(fs)
<1>2. /\ more \in Seq(S \cup {f}) /\ n \in Nat /\ DOMAIN fs = 1..n
      /\ DOMAIN more = 1..(n + 1) /\ more[n + 1] = f
      /\ \A i \in 1..n : more[i] = fs[i]
  <2>1. fs \in Seq(S \cup {f})
    BY <1>1
  <2> QED BY <2>1, AppendProperties
<1>3. RevenueShape' /\ revenue'.filings = more
  BY DEF TaxInv, RevenueShape
<1>4. /\ f.status = "draft" /\ f.id = n + 1 /\ f.sheet = FALSE
  OBVIOUS
<1>5. \A i \in DOMAIN fs : /\ fs[i] = [est |-> fs[i].est, status |-> fs[i].status, id |-> fs[i].id, sheet |-> fs[i].sheet]
                           /\ fs[i].status \in {"draft", "generated"} /\ fs[i].id = i
  BY DEF TaxInv, FilingsAdvance
<1> HIDE DEF more
<1>10. revenue.filings = fs
  OBVIOUS
<1> HIDE DEF fs
<1>11. f = [est |-> f.est, status |-> f.status, id |-> f.id, sheet |-> f.sheet]
  BY <1>4
<1> HIDE DEF n
<1>6. ASSUME NEW i \in 1..(n + 1)
      PROVE  /\ more[i] = [est |-> more[i].est, status |-> more[i].status, id |-> more[i].id,
                           sheet |-> more[i].sheet]
             /\ more[i].status \in {"draft", "generated"} /\ more[i].id = i
  <2>1. CASE i = n + 1
    BY <1>2, <1>4, <1>11, <2>1
  <2>2. CASE i \in 1..n
    BY <1>2, <1>5, <2>2
  <2> QED BY <1>2, <2>1, <2>2
<1>7. FilingsAdvance'
  BY <1>2, <1>3, <1>6 DEF FilingsAdvance
<1>8. FilingsStand /\ \A i \in DOMAIN revenue.filings : revenue'.filings[i] = revenue.filings[i]
  BY <1>2, <1>3, <1>10 DEF FilingsStand
<1>9. OnFile(f)'
  BY <1>2, <1>3, <1>4 DEF OnFile
<1> QED BY <1>3, <1>7, <1>8, <1>9

LEMMA GeneratedIs ==
  ASSUME NEW e, NEW st, NEW n, NEW sh
  PROVE  Generated([est |-> e, status |-> st, id |-> n, sheet |-> sh])
           = [est |-> e, status |-> "generated", id |-> n, sheet |-> TRUE]
<1> DEFINE f == [est |-> e, status |-> st, id |-> n, sheet |-> sh]
<1>1. f \in [est : {e}, status : {st, "generated"}, id : {n}, sheet : {sh, TRUE}]
  OBVIOUS
<1> HIDE DEF f
<1>2. Generated(f) \in [est : {e}, status : {"generated"}, id : {n}, sheet : {TRUE}]
  BY <1>1 DEF Generated
<1> QED BY <1>2 DEF f

\* Generating changes one filing, whose figures stay.
LEMMA GeneratesOne ==
  ASSUME TaxInv, NEW k \in DOMAIN revenue.filings,
         revenue' = [revenue EXCEPT !.filings[k] = Generated(@)]
  PROVE  /\ RevenueShape' /\ FilingsAdvance' /\ FilingsStand
         /\ revenue'.filings[k].id = k
         /\ \A i \in DOMAIN revenue.filings \ {k} : revenue'.filings[i] = revenue.filings[i]
<1>1. PICK S : revenue.filings \in Seq(S)
  BY DEF TaxInv, FilingsAdvance
<1> DEFINE f == revenue.filings[k]
           g == Generated(f)
<1>2. g = [est |-> f.est, status |-> "generated", id |-> k, sheet |-> TRUE]
  <2>1. f = [est |-> f.est, status |-> f.status, id |-> f.id, sheet |-> f.sheet] /\ f.id = k
    BY DEF TaxInv, FilingsAdvance
  <2>2. PICK e, st, sh : f = [est |-> e, status |-> st, id |-> k, sheet |-> sh]
    BY <2>1
  <2>3. f.est = e
    BY <2>2
  <2>4. Generated(f) = [est |-> e, status |-> "generated", id |-> k, sheet |-> TRUE]
    BY <2>2, GeneratedIs
  <2> QED BY <2>3, <2>4
<1>3. /\ g = [est |-> g.est, status |-> g.status, id |-> g.id, sheet |-> g.sheet]
      /\ g.status = "generated" /\ g.id = k /\ g.est = revenue.filings[k].est
  BY <1>2
<1> HIDE DEF g
<1> DEFINE fs == [revenue.filings EXCEPT ![k] = g]
<1>4. revenue' = [revenue EXCEPT !.filings = fs]
  BY DEF g, TaxInv, RevenueShape
<1>5. /\ fs \in Seq(S \cup {g}) /\ DOMAIN fs = DOMAIN revenue.filings /\ fs[k] = g
      /\ \A i \in DOMAIN revenue.filings \ {k} : fs[i] = revenue.filings[i]
  <2>1. revenue.filings \in Seq(S \cup {g})
    BY <1>1
  <2>2. fs \in Seq(S \cup {g})
    BY <2>1, ExceptSeq
  <2> QED BY <2>1, <2>2
<1>6. RevenueShape' /\ revenue'.filings = fs
  BY <1>4 DEF TaxInv, RevenueShape
<1> HIDE DEF fs
<1>7. FilingsAdvance'
  <2>1. \A i \in DOMAIN revenue.filings :
          LET h == revenue.filings[i]
          IN /\ h = [est |-> h.est, status |-> h.status, id |-> h.id, sheet |-> h.sheet]
             /\ h.status \in {"draft", "generated"} /\ h.id = i
    BY DEF TaxInv, FilingsAdvance
  <2>2. \A i \in DOMAIN fs :
          LET h == fs[i]
          IN /\ h = [est |-> h.est, status |-> h.status, id |-> h.id, sheet |-> h.sheet]
             /\ h.status \in {"draft", "generated"} /\ h.id = i
    <3> TAKE i \in DOMAIN fs
    <3>1. CASE i = k
      BY <1>3, <1>5, <3>1
    <3>2. CASE i # k
      <4>1. fs[i] = revenue.filings[i] /\ i \in DOMAIN revenue.filings
        BY <1>5, <3>2
      <4> QED BY <2>1, <4>1
    <3> QED BY <3>1, <3>2
  <2> QED BY <1>5, <1>6, <2>2 DEF FilingsAdvance
<1>8. FilingsStand
  BY <1>3, <1>5, <1>6 DEF FilingsStand
<1> QED BY <1>3, <1>5, <1>6, <1>7, <1>8

\* A step that leaves what is on file.
LEMMA FilingsUntouched ==
  ASSUME TaxInv, revenue'.filings = revenue.filings
  PROVE  FilingsAdvance' /\ FilingsStand
BY DEF TaxInv, FilingsAdvance, FilingsStand

\* The steps in which the filings stay: what another session does, the profile,
\* loading, navigating, and the wizard's other steps.
LEMMA OtherTaxSteps ==
  ASSUME TaxInv,
         \/ GoTaxScreen("taxes") \/ GoTaxScreen("file")
         \/ StartTaxRefresh \/ LandTaxRefresh
         \/ EditTaxProfile \/ CancelTaxProfile \/ TypeTaxProfile \/ SaveTaxProfile \/ LandTaxProfile
         \/ DefaultToPit \/ PickFiling \/ LandFiling \/ MoveStep \/ TypeFilingPeriod
         \/ RecordSale \/ StageStatement \/ ConfirmStatement
  PROVE  TaxInv' /\ revenue'.filings = revenue.filings
<1> USE DEF TaxInv
<1>1. ASSUME RevenueShape', revenue'.filings = revenue.filings, WizardShape', TaxCounts',
             \/ wizard'.filing \in {wizard.filing, <<>>}
             \/ \E c \in taxCalls : c.op = "refresh" /\ c.then # <<>> /\ wizard'.filing = c.then,
             \A c \in taxCalls' \ taxCalls :
               /\ c.op \in {"mount", "refresh", "profile", "draft", "generate"}
               /\ c.op = "refresh" /\ c.then # <<>> => OnFile(c.then[1])'
               /\ c.op \in {"draft", "generate"} /\ c.answer.code = "ok" => OnFile(c.answer.filing)'
      PROVE  TaxInv' /\ revenue'.filings = revenue.filings
  BY <1>1, FilingsUntouched, StillOnFile
<1>2. ASSUME revenue' = revenue PROVE RevenueShape' /\ revenue'.filings = revenue.filings
  BY <1>2 DEF RevenueShape
<1>3. ASSUME NEW to \in {"taxes", "file"}, GoTaxScreen(to)
      PROVE  TaxInv' /\ revenue'.filings = revenue.filings
  <2>1. WizardShape'
    BY <1>3, NewWizardShape DEF GoTaxScreen, WizardShape
  <2>2. TaxCounts'
    BY <1>3, TaxPagesAssumption DEF GoTaxScreen, TaxCounts
  <2>3. wizard'.filing = <<>> /\ taxCalls' = {[op |-> "mount"]} /\ revenue' = revenue
    BY <1>3, NewWizardShape DEF GoTaxScreen
  <2> QED BY <1>1, <1>2, <2>1, <2>2, <2>3
<1>4. CASE StartTaxRefresh
  <2>1. revenue' = revenue /\ wizard' = wizard /\ WizardShape' /\ TaxCounts'
    BY <1>4 DEF StartTaxRefresh, WizardShape, TaxCounts
  <2>2. \A c \in taxCalls' \ taxCalls : c = [op |-> "refresh", then |-> <<>>]
    BY <1>4 DEF StartTaxRefresh
  <2> QED BY <1>1, <1>2, <2>1, <2>2
<1>5. CASE LandTaxRefresh
  <2>1. PICK c \in taxCalls : c.op = "refresh" /\ taxCalls' = taxCalls \ {c}
                              /\ wizard' = WizardAfter(wizard, c.then)
    BY <1>5 DEF LandTaxRefresh
  <2>2. revenue' = revenue /\ TaxCounts'
    BY <1>5 DEF LandTaxRefresh, TaxCounts
  <2>3. CASE c.then = <<>>
    <3>1. wizard' = wizard /\ WizardShape'
      BY <2>1, <2>3 DEF WizardAfter, WizardShape
    <3> QED BY <1>1, <1>2, <2>1, <2>2, <3>1
  <2>4. CASE c.then # <<>>
    <3>1. wizard'.filing = c.then /\ WizardShape'
      <4>1. CASE c.then[1].status = "draft"
        <5>1. wizard' = [wizard EXCEPT !.filing = c.then, !.step = 2, !.busy = FALSE]
          BY <2>1, <2>4, <4>1 DEF WizardAfter
        <5>2. wizard' = [step |-> 2, kind |-> wizard.kind, period |-> wizard.period,
                         touched |-> wizard.touched, filing |-> c.then, blocked |-> wizard.blocked,
                         busy |-> FALSE, confirm |-> wizard.confirm, done |-> wizard.done,
                         error |-> wizard.error]
          BY <5>1 DEF WizardShape
        <5> QED BY <5>2 DEF WizardShape
      <4>2. CASE c.then[1].status # "draft"
        BY <2>1, <2>4, <4>2 DEF WizardAfter, WizardShape
      <4> QED BY <4>1, <4>2
    <3> QED BY <1>1, <1>2, <2>1, <2>2, <2>4, <3>1
  <2> QED BY <2>3, <2>4
<1>6. CASE EditTaxProfile \/ CancelTaxProfile
  <2>1. revenue' = revenue /\ wizard' = wizard /\ taxCalls' = taxCalls /\ WizardShape' /\ TaxCounts'
    BY <1>6 DEF EditTaxProfile, CancelTaxProfile, WizardShape, TaxCounts
  <2> QED BY <1>1, <1>2, <2>1
<1>7. CASE TypeTaxProfile
  <2>1. revenue' = revenue /\ wizard' = wizard /\ taxCalls' = taxCalls /\ WizardShape'
    BY <1>7 DEF TypeTaxProfile, WizardShape
  <2>2. TaxCounts'
    <3>1. typings < MaxTaxTyping /\ typings' = typings + 1 /\ UNCHANGED <<taxScreen, visits>>
      BY <1>7 DEF TypeTaxProfile
    <3> QED BY <3>1, TaxPagesAssumption DEF TaxCounts
  <2> QED BY <1>1, <1>2, <2>1, <2>2
<1>8. CASE SaveTaxProfile
  <2>1. revenue' = [revenue EXCEPT !.profile = Patched(@, taxForm.draft[1])]
    BY <1>8 DEF SaveTaxProfile
  <2>2. RevenueShape' /\ revenue'.filings = revenue.filings
    BY <2>1 DEF RevenueShape
  <2>3. wizard' = wizard /\ WizardShape' /\ TaxCounts'
    BY <1>8 DEF SaveTaxProfile, WizardShape, TaxCounts
  <2>4. \A c \in taxCalls' \ taxCalls : c.op = "profile"
    BY <1>8 DEF SaveTaxProfile
  <2> QED BY <1>1, <2>2, <2>3, <2>4
<1>9. CASE LandTaxProfile
  <2>1. revenue' = revenue /\ wizard' = wizard /\ taxCalls' \subseteq taxCalls /\ WizardShape' /\ TaxCounts'
    BY <1>9 DEF LandTaxProfile, WizardShape, TaxCounts
  <2> QED BY <1>1, <1>2, <2>1
<1>10. CASE DefaultToPit
  <2>1. revenue' = revenue /\ taxCalls' = taxCalls /\ TaxCounts'
    BY <1>10 DEF DefaultToPit, TaxCounts
  <2>2. wizard'.filing = wizard.filing /\ WizardShape'
    BY <1>10, TaxPagesAssumption DEF DefaultToPit, WizardShape
  <2> QED BY <1>1, <1>2, <2>1, <2>2
<1>11. CASE PickFiling
  <2>1. revenue' = revenue /\ taxCalls' = taxCalls /\ TaxCounts'
    BY <1>11 DEF PickFiling, TaxCounts
  <2>2. wizard'.filing = wizard.filing /\ WizardShape'
    BY <1>11 DEF PickFiling, WizardShape
  <2> QED BY <1>1, <1>2, <2>1, <2>2
<1>12. CASE LandFiling
  <2>1. PICK c \in taxCalls :
          /\ c.op \in {"draft", "generate"}
          /\ IF c.answer.code = "ok"
             THEN /\ taxCalls' = (taxCalls \ {c}) \cup {[op |-> "refresh", then |-> <<c.answer.filing>>]}
                  /\ wizard' = wizard
             ELSE /\ taxCalls' = taxCalls \ {c}
                  /\ wizard' = WizardFails(wizard, c.answer.code)
    BY <1>12 DEF LandFiling
  <2>2. revenue' = revenue /\ TaxCounts'
    BY <1>12 DEF LandFiling, TaxCounts
  <2>3. CASE c.answer.code = "ok"
    <3>1. OnFile(c.answer.filing)'
      BY <2>1, <2>2, <2>3 DEF ShownAreOnFile, OnFile
    <3>2. wizard' = wizard /\ WizardShape'
      BY <2>1, <2>3 DEF WizardShape
    <3> QED BY <1>1, <1>2, <2>1, <2>2, <2>3, <3>1, <3>2
  <2>4. CASE c.answer.code # "ok"
    <3>1. wizard'.filing = wizard.filing /\ WizardShape'
      <4>1. CASE c.answer.code = "tax_identity_incomplete"
        <5>1. wizard' = [wizard EXCEPT !.busy = FALSE, !.blocked = TRUE, !.step = 2]
          BY <2>1, <2>4, <4>1 DEF WizardFails
        <5>2. wizard' = [step |-> 2, kind |-> wizard.kind, period |-> wizard.period,
                         touched |-> wizard.touched, filing |-> wizard.filing, blocked |-> TRUE,
                         busy |-> FALSE, confirm |-> wizard.confirm, done |-> wizard.done,
                         error |-> wizard.error]
          BY <5>1 DEF WizardShape
        <5> QED BY <5>2 DEF WizardShape
      <4>2. CASE c.answer.code # "tax_identity_incomplete"
        BY <2>1, <2>4, <4>2 DEF WizardFails, WizardShape
      <4> QED BY <4>1, <4>2
    <3> QED BY <1>1, <1>2, <2>1, <2>2, <2>4, <3>1
  <2> QED BY <2>3, <2>4
<1>13. CASE MoveStep
  <2>1. revenue' = revenue /\ taxCalls' = taxCalls /\ TaxCounts'
    BY <1>13 DEF MoveStep, TaxCounts
  <2>2. wizard'.filing = wizard.filing /\ WizardShape'
    BY <1>13 DEF MoveStep, WizardShape
  <2> QED BY <1>1, <1>2, <2>1, <2>2
<1>14. CASE TypeFilingPeriod
  <2>1. revenue' = revenue /\ taxCalls' = taxCalls /\ TaxCounts'
    BY <1>14 DEF TypeFilingPeriod, TaxCounts
  <2>2. wizard'.filing = wizard.filing /\ WizardShape'
    BY <1>14 DEF TypeFilingPeriod, WizardShape
  <2> QED BY <1>1, <1>2, <2>1, <2>2
<1>15. CASE RecordSale \/ StageStatement \/ ConfirmStatement
  <2>1. RevenueShape' /\ revenue'.filings = revenue.filings
    BY <1>15 DEF RecordSale, StageStatement, ConfirmStatement, RevenueShape
  <2>2. wizard' = wizard /\ taxCalls' = taxCalls /\ WizardShape' /\ TaxCounts'
    BY <1>15 DEF RecordSale, StageStatement, ConfirmStatement, WizardShape, TaxCounts
  <2> QED BY <1>1, <2>1, <2>2
<1> QED
  BY <1>3, <1>4, <1>5, <1>6, <1>7, <1>8, <1>9, <1>10, <1>11, <1>12, <1>13, <1>14, <1>15

LEMMA StartKeeps ==
  ASSUME TaxInv, Start
  PROVE  /\ TaxInv'
         /\ \A i \in DOMAIN revenue.filings : revenue'.filings[i] = revenue.filings[i]
<1>0. PICK r : r = CreateFiling(revenue, wizard.kind, wizard.period)
  OBVIOUS
<1>1. /\ revenue' = IF r.code = "ok" THEN [revenue EXCEPT !.filings = Append(@, r.filing)]
                    ELSE revenue
      /\ taxCalls' = taxCalls \cup {[op |-> "draft", answer |-> r]}
      /\ wizard' = [wizard EXCEPT !.busy = TRUE, !.error = "none"]
      /\ UNCHANGED <<taxScreen, visits, typings>>
  BY <1>0 DEF Start
<1>2. r.code = "ok" =>
        r.filing = [est |-> r.filing.est, status |-> "draft", id |-> Len(revenue.filings) + 1,
                    sheet |-> FALSE]
  BY <1>0 DEF CreateFiling
<1>3. WizardShape' /\ TaxCounts' /\ wizard'.filing = wizard.filing
  BY <1>1 DEF TaxInv, WizardShape, TaxCounts
<1>4. CASE r.code = "ok"
  <2>1. /\ RevenueShape' /\ FilingsAdvance' /\ FilingsStand /\ OnFile(r.filing)'
        /\ \A i \in DOMAIN revenue.filings : revenue'.filings[i] = revenue.filings[i]
    BY <1>1, <1>2, <1>4, AppendsFiling
  <2>2. ShownAreOnFile'
    BY <1>1, <1>3, <2>1, StillOnFile
  <2> QED BY <1>3, <2>1, <2>2 DEF TaxInv
<1>5. CASE r.code # "ok"
  <2>1. RevenueShape' /\ FilingsAdvance' /\ FilingsStand
    BY <1>1, <1>5, FilingsUntouched DEF TaxInv, RevenueShape
  <2>2. ShownAreOnFile'
    BY <1>1, <1>3, <1>5, <2>1, StillOnFile
  <2> QED BY <1>1, <1>3, <1>5, <2>1, <2>2 DEF TaxInv
<1> QED BY <1>4, <1>5

LEMMA GenerateKeeps ==
  ASSUME TaxInv, Generate
  PROVE  /\ TaxInv'
         /\ \A i \in DOMAIN revenue.filings :
              revenue'.filings[i] # revenue.filings[i] =>
                /\ revenue.filings[i].status = "draft"
                /\ Filing.id = i /\ Filing.est = revenue'.filings[i].est
                /\ wizard.confirm = <<revenue'.filings[i].est.period>>
<1>0. PICK k, code, answer :
        /\ k = Filing.id /\ code = GenerateCode(revenue, k)
        /\ answer = IF code = "ok" THEN [code |-> code, filing |-> revenue'.filings[k]]
                    ELSE [code |-> code]
  OBVIOUS
<1>1. /\ revenue' = IF code = "ok" THEN [revenue EXCEPT !.filings[k] = Generated(@)]
                    ELSE revenue
      /\ taxCalls' = taxCalls \cup {[op |-> "generate", answer |-> answer]}
      /\ wizard' = [wizard EXCEPT !.busy = TRUE, !.error = "none", !.blocked = FALSE]
      /\ UNCHANGED <<taxScreen, visits, typings>>
      /\ wizard.confirm = <<Filing.est.period>>
  BY <1>0 DEF Generate
<1>2. wizard.filing # <<>> /\ k \in DOMAIN revenue.filings /\ revenue.filings[k].est = Filing.est
  BY <1>0 DEF Generate, AtStep, TaxInv, WizardShape, ShownAreOnFile, OnFile, Filing
<1>3. code = "ok" => revenue.filings[k].status = "draft"
  BY <1>0 DEF GenerateCode
<1>4. answer.code = code /\ (code = "ok" => answer.filing = revenue'.filings[k])
  BY <1>0
<1>5. WizardShape' /\ TaxCounts' /\ wizard'.filing = wizard.filing
  BY <1>1 DEF TaxInv, WizardShape, TaxCounts
<1>6. CASE code = "ok"
  <2>1. /\ RevenueShape' /\ FilingsAdvance' /\ FilingsStand /\ revenue'.filings[k].id = k
        /\ \A i \in DOMAIN revenue.filings \ {k} : revenue'.filings[i] = revenue.filings[i]
    BY <1>1, <1>2, <1>6, GeneratesOne
  <2>2. OnFile(answer.filing)'
    BY <1>2, <1>4, <1>6, <2>1 DEF OnFile, FilingsStand
  <2>3. ShownAreOnFile'
    BY <1>1, <1>5, <2>1, <2>2, StillOnFile
  <2>4. revenue'.filings[k].est = Filing.est
    BY <1>2, <2>1 DEF FilingsStand
  <2>5. Filing.id = k
    BY <1>0
  <2> QED BY <1>1, <1>2, <1>3, <1>5, <1>6, <2>1, <2>3, <2>4, <2>5 DEF TaxInv
<1>7. CASE code # "ok"
  <2>1. RevenueShape' /\ FilingsAdvance' /\ FilingsStand
    BY <1>1, <1>7, FilingsUntouched DEF TaxInv, RevenueShape
  <2>2. ShownAreOnFile'
    BY <1>1, <1>4, <1>5, <1>7, <2>1, StillOnFile
  <2> QED BY <1>1, <1>5, <1>7, <2>1, <2>2 DEF TaxInv
<1> QED BY <1>6, <1>7

LEMMA TaxNext == TaxInv /\ [TaxPagesNext]_taxPagesVars => TaxInv'
<1> SUFFICES ASSUME TaxInv, [TaxPagesNext]_taxPagesVars PROVE TaxInv'
  OBVIOUS
<1>1. CASE UNCHANGED taxPagesVars
  BY <1>1 DEF taxPagesVars, TaxInv, RevenueShape, WizardShape, FilingsAdvance, ShownAreOnFile,
              OnFile, TaxCounts
<1> QED BY <1>1, OtherTaxSteps, StartKeeps, GenerateKeeps DEF TaxPagesNext

\* The inductive invariant of the estimates, the filings and the wizard holds in every state.
THEOREM TaxInvariant == TaxPagesSpec => []TaxInv
BY TaxStart, TaxNext, PTL DEF TaxPagesSpec

LEMMA TaxTypes == TaxInv => TaxPagesTypeOK
BY DEF TaxInv, WizardShape, FilingsAdvance, ShownAreOnFile, TaxCounts, TaxPagesTypeOK

\* GeneratesWhatIsShown, for any periods, rule sets, sales and statements of
\* other sessions and any order of answers: the filing that is generated is the
\* draft on the wizard's page, its figures are those shown, and its period was
\* typed (FilingWizardView.tsx:126, filings/[id]/generate/route.ts:71).
THEOREM ShownIsGenerated == TaxPagesSpec => GeneratesWhatIsShown
<1>1. TaxInv /\ [TaxPagesNext]_taxPagesVars
        => [\A i \in DOMAIN revenue.filings :
              revenue'.filings[i] # revenue.filings[i] =>
                /\ revenue.filings[i].status = "draft"
                /\ Filing.id = i /\ Filing.est = revenue'.filings[i].est
                /\ wizard.confirm = <<revenue'.filings[i].est.period>>]_taxPagesVars
  BY OtherTaxSteps, StartKeeps, GenerateKeeps DEF TaxPagesNext
<1> QED BY <1>1, TaxInvariant, PTL DEF TaxPagesSpec, GeneratesWhatIsShown

-----------------------------------------------------------------------------
(* The parts together                                                      *)

\* A timer is of a sync there is.
TicksTyped == ticking \subseteq Syncs /\ (running.call = "sync" => running.job \in Syncs)

LEMMA TicksNext ==
  AccountsInv /\ TicksTyped /\ [AccountsPageNext]_accountsPageVars => TicksTyped'
<1> SUFFICES ASSUME AccountsInv, TicksTyped, [AccountsPageNext]_accountsPageVars PROVE TicksTyped'
  OBVIOUS
<1>1. CASE UNCHANGED <<running, ticking>>
  BY <1>1 DEF TicksTyped
<1>2. CASE \/ RefreshCards \/ OpenJourney \/ CloseJourney \/ ReviewSynced \/ CancelUnlink
           \/ ConfirmUnlink \/ UNCHANGED accountsPageVars
  BY <1>1, <1>2 DEF RefreshCards, OpenJourney, CloseJourney, ReviewSynced, CancelUnlink,
                    ConfirmUnlink, accountsPageVars
<1>3. ASSUME NEW a \in Accounts, TogglePaused(a) \/ AskUnlink(a) \/ \E j \in Syncs : ManualSync(a, j)
      PROVE  TicksTyped'
  BY <1>1, <1>3 DEF TogglePaused, AskUnlink, ManualSync
<1>4. ASSUME NEW a \in Accounts, StartConnect(a) PROVE TicksTyped'
  BY <1>4 DEF StartConnect, NotRunning, TicksTyped
<1>5. CASE Connected \/ JourneyCallFails \/ SyncRefused
  BY <1>5 DEF Connected, JourneyCallFails, SyncRefused, NotRunning, TicksTyped
<1>6. CASE ApproveConsent
  BY <1>6 DEF ApproveConsent, NotRunning, TicksTyped
<1>7. CASE SyncStarted
  BY <1>7 DEF SyncStarted, NotRunning, TicksTyped
<1>8. ASSUME NEW j \in Syncs, FinishSync(j) PROVE TicksTyped'
  BY <1>1, <1>8 DEF FinishSync
<1>9. ASSUME NEW j \in Syncs, Exchanged(j) PROVE TicksTyped'
  <2>1. running' = [running EXCEPT !.call = "sync", !.job = j] /\ ticking' = ticking
    BY <1>9 DEF Exchanged
  <2>2. running'.job = j
    BY <2>1 DEF AccountsInv, AccountsTyped
  <2> QED BY <2>1, <2>2 DEF TicksTyped
<1>10. ASSUME NEW j \in Syncs, Tick(j) \/ TickFails(j) PROVE TicksTyped'
  BY <1>10 DEF Tick, TickFails, TicksTyped
<1> QED
  BY <1>2, <1>3, <1>4, <1>5, <1>6, <1>7, <1>8, <1>9, <1>10 DEF AccountsPageNext

\* The codes a request is answered with.
AnswerCodes == {0, 202, 400, 401, 413, 415, 500, 502, 503}
CodesTyped ==
  /\ \A r \in Uploads : upload[r].answer \in AnswerCodes
  /\ expired \subseteq GatewayTickets /\ claims \subseteq Uploads /\ kafkaUp \in BOOLEAN

LEMMA CodeAnswered ==
  ASSUME GatewayInv, NEW r \in Uploads,
         (\E code \in AnswerCodes : Answer(r, code)) \/ \E step \in UploadSteps : GoOn(r, step),
         \A q \in Uploads : upload[q].answer \in AnswerCodes
  PROVE  \A q \in Uploads : upload'[q].answer \in AnswerCodes
<1>1. ASSUME NEW code \in AnswerCodes, Answer(r, code)
      PROVE  \A q \in Uploads : upload'[q].answer \in AnswerCodes
  <2>1. Comes(r, "answered", code)
    BY <1>1, Answers DEF GatewayInv, AnswerCodes
  <2> QED BY <2>1 DEF Comes
<1>2. ASSUME NEW step \in UploadSteps, GoOn(r, step)
      PROVE  \A q \in Uploads : upload'[q].answer \in AnswerCodes
  <2>1. Comes(r, step, upload[r].answer)
    BY <1>2, GoesOn DEF GatewayInv
  <2> QED BY <2>1 DEF Comes
<1> QED BY <1>1, <1>2

LEMMA CodesNext ==
  GatewayInv /\ CodesTyped /\ [UploadGatewayNext]_gatewayVars => CodesTyped'
<1> SUFFICES ASSUME GatewayInv, CodesTyped, [UploadGatewayNext]_gatewayVars PROVE CodesTyped'
  OBVIOUS
<1>0. \A r \in Uploads : upload[r].answer \in AnswerCodes
  BY DEF CodesTyped
<1>1. ASSUME \A r \in Uploads : upload'[r].answer \in AnswerCodes, UNCHANGED <<expired, kafkaUp>>,
             claims' \subseteq Uploads
      PROVE  CodesTyped'
  BY <1>1 DEF CodesTyped
<1>2. CASE UNCHANGED gatewayVars
  BY <1>2 DEF gatewayVars, CodesTyped
<1>3. CASE TicketExpires \/ KafkaDisconnects
  BY <1>3 DEF TicketExpires, KafkaDisconnects, CodesTyped
<1>4. ASSUME NEW r \in Uploads
      PROVE  Lost(r).answer \in AnswerCodes
  <2>1. upload[r] \in UploadState
    BY DEF GatewayInv, GatewayTyped
  <2> QED BY <1>0, <2>1 DEF Lost, Unreachable, AnswerCodes, UploadState
<1>5. CASE InstanceDies
  BY <1>4, <1>5 DEF InstanceDies, CodesTyped
<1>6. ASSUME NEW r \in Uploads, RequestCut(r) PROVE CodesTyped'
  BY <1>0, <1>1, <1>4, <1>6 DEF RequestCut, GatewayInv, GatewayTyped, CodesTyped
<1>7. ASSUME NEW r \in Uploads, SendFile(r) PROVE CodesTyped'
  <2>1. PICK t \in GatewayTickets :
          LET begun == [step |-> "reading", ticket |-> {t}, answer |-> 0,
                        headers |-> Proxied(ClientHeaders(TRUE), TRUE)]
          IN upload' = [upload EXCEPT ![r] =
                          IF Verified(t) THEN begun
                          ELSE [begun EXCEPT !.step = "answered", !.answer = 401]]
    BY <1>7, ZenonT(30) DEF SendFile
  <2>2. upload'[r].answer \in {0, 401} /\ \A q \in Uploads \ {r} : upload'[q] = upload[q]
    <3> DEFINE h == Proxied(ClientHeaders(TRUE), TRUE)
               begun == [step |-> "reading", ticket |-> {t}, answer |-> 0, headers |-> h]
               u == IF Verified(t) THEN begun ELSE Ended(begun, 401)
    <3>1. upload' = [upload EXCEPT ![r] = u]
      BY <2>1 DEF Ended
    <3> HIDE DEF h
    <3>2. begun.answer = 0 /\ Ended(begun, 401).answer = 401
      BY DEF Ended
    <3> HIDE DEF begun
    <3>3. u.answer \in {0, 401}
      BY <3>2
    <3> HIDE DEF u
    <3> QED BY <3>1, <3>3 DEF GatewayInv, GatewayTyped
  <2>3. \A q \in Uploads : upload'[q].answer \in AnswerCodes
    BY <1>0, <2>2 DEF AnswerCodes
  <2> QED BY <1>1, <1>7, <2>3 DEF SendFile, CodesTyped
<1>8. ASSUME NEW r \in Uploads, ReadBody(r) \/ CheckFile(r) \/ WakeCommon(r) PROVE CodesTyped'
  <2>1. (\E code \in AnswerCodes : Answer(r, code)) \/ \E step \in UploadSteps : GoOn(r, step)
    BY <1>8 DEF ReadBody, CheckFile, WakeCommon, AnswerCodes, UploadSteps
  <2>2. UNCHANGED <<expired, kafkaUp, claims>>
    BY <1>8 DEF ReadBody, CheckFile, WakeCommon
  <2> QED BY <1>0, <1>1, <2>1, <2>2, CodeAnswered DEF CodesTyped
<1>9. ASSUME NEW r \in Uploads, StoreObject(r) \/ StoreClaim(r) PROVE CodesTyped'
  <2>1. (\E code \in AnswerCodes : Answer(r, code)) \/ \E step \in UploadSteps : GoOn(r, step)
    BY <1>9 DEF StoreObject, StoreClaim, Fails, AnswerCodes, UploadSteps
  <2>2. UNCHANGED <<expired, kafkaUp>> /\ claims' \subseteq Uploads
    BY <1>9 DEF StoreObject, StoreClaim, CodesTyped
  <2> QED BY <1>0, <1>1, <2>1, <2>2, CodeAnswered
<1>10. ASSUME NEW r \in Uploads, PublishUpload(r) PROVE CodesTyped'
  <2>1. (\E code \in AnswerCodes : Answer(r, code)) \/ \E step \in UploadSteps : GoOn(r, step)
    BY <1>10 DEF PublishUpload, Fails, AnswerCodes, UploadSteps
  <2>2. \A q \in Uploads : upload'[q].answer \in AnswerCodes
    BY <1>0, <2>1, CodeAnswered
  <2>3. UNCHANGED <<expired, claims>> /\ kafkaUp' \in {kafkaUp, TRUE}
    BY <1>10 DEF PublishUpload
  <2> QED BY <2>2, <2>3 DEF CodesTyped
<1> QED
  BY <1>2, <1>3, <1>5, <1>6, <1>7, <1>8, <1>9, <1>10 DEF UploadGatewayNext, Serve

\* Without asking in what order the lists arrive.
LEMMA HubTypedNext == HubTyped /\ [ImportHubNext]_importHubVars => HubTyped'
<1> SUFFICES ASSUME HubTyped, [ImportHubNext]_importHubVars PROVE HubTyped'
  OBVIOUS
<1>1. CASE UNCHANGED importHubVars
  BY <1>1 DEF importHubVars, HubTyped
<1>2. ASSUME NEW f \in HubFiles, DropFile(f) \/ UploadRejects(f) PROVE HubTyped'
  BY <1>2 DEF DropFile, UploadRejects, HubTyped, Phases
<1>3. ASSUME NEW f \in HubFiles, ServerAccepts(f) \/ ServerFinishes(f) PROVE HubTyped'
  BY <1>3 DEF ServerAccepts, ServerFinishes, HubTyped, Statuses
<1>4. ASSUME NEW f \in HubFiles, UploadResolves(f) PROVE HubTyped'
  <2>1. /\ linked' = linked \cup {f} /\ armed' = armed \cup {f}
        /\ chip' = Advanced([chip EXCEPT ![f] = "sweep"], linked', history, active)
        /\ UNCHANGED <<remote, hub, history, active, polling, lists>>
    BY <1>4 DEF UploadResolves, ArmPoll
  <2>2. /\ [chip EXCEPT ![f] = "sweep"] \in [HubFiles -> Phases] /\ linked' \subseteq HubFiles
        /\ history \in [HubFiles -> Statuses] /\ active.status \in Statuses
    BY <2>1 DEF HubTyped, Phases
  <2>3. chip' \in [HubFiles -> Phases]
    BY <2>1, <2>2, AdvancedFollows DEF Follows
  <2> QED BY <2>1, <2>2, <2>3 DEF HubTyped
<1>5. ASSUME NEW f \in HubFiles, HubTick(f) PROVE HubTyped'
  BY <1>5 DEF HubTick, HubTyped
<1>6. ASSUME NEW p \in polling, PollAnswers(p) PROVE HubTyped'
  <2>1. /\ UNCHANGED <<remote, hub, linked, history>>
        /\ polling' \subseteq polling /\ active' \in {p, active}
        /\ chip' = Advanced(chip, linked, history, active')
    BY <1>6 DEF PollAnswers
  <2>2. /\ p \in [file : HubFiles, status : Statuses] /\ active'.status \in Statuses
        /\ chip \in [HubFiles -> Phases] /\ linked \subseteq HubFiles
        /\ history \in [HubFiles -> Statuses]
    BY <2>1 DEF HubTyped
  <2>3. chip' \in [HubFiles -> Phases]
    BY <2>1, <2>2, AdvancedFollows DEF Follows
  <2>4. armed' \subseteq HubFiles /\ lists' \in Seq([HubFiles -> Statuses])
    <3>1. CASE p.status = "processing"
      BY <1>6, <2>2, <3>1 DEF PollAnswers, ArmPoll, HubTyped
    <3>2. CASE p.status # "processing"
      <4>1. lists' = Append(lists, remote) /\ armed' = armed
        BY <1>6, <3>2 DEF PollAnswers
      <4> QED BY <4>1 DEF HubTyped
    <3> QED BY <3>1, <3>2
  <2> QED BY <2>1, <2>2, <2>3, <2>4 DEF HubTyped
<1>7. ASSUME NEW p \in polling, HubPollFails(p) PROVE HubTyped'
  BY <1>7 DEF HubPollFails, HubTyped
<1>8. ASSUME NEW n \in DOMAIN lists, ListArrives(n) PROVE HubTyped'
  <2>1. /\ UNCHANGED <<remote, hub, linked, active, armed, polling>>
        /\ lists' = RemoveAt(lists, n) /\ history' \in {lists[n], history}
        /\ chip' = Advanced(chip, linked, history', active)
    BY <1>8 DEF ListArrives
  <2>2. lists \in Seq([HubFiles -> Statuses]) /\ Len(lists) \in Nat /\ n \in 1..Len(lists)
    BY DEF HubTyped
  <2>3. lists' \in Seq([HubFiles -> Statuses])
    <3>1. SubSeq(lists, 1, n - 1) \in Seq([HubFiles -> Statuses])
      BY <2>2
    <3>2. SubSeq(lists, n + 1, Len(lists)) \in Seq([HubFiles -> Statuses])
      BY <2>2
    <3> QED BY <2>1, <3>1, <3>2 DEF RemoveAt
  <2>4. /\ history' \in [HubFiles -> Statuses] /\ linked \subseteq HubFiles
        /\ chip \in [HubFiles -> Phases] /\ active.status \in Statuses
    BY <2>1, <2>2 DEF HubTyped
  <2>5. chip' \in [HubFiles -> Phases]
    BY <2>1, <2>4, AdvancedFollows DEF Follows
  <2> QED BY <2>1, <2>3, <2>4, <2>5 DEF HubTyped
<1>9. CASE ListFails
  BY <1>9 DEF ListFails, HubTyped
<1>10. CASE LeaveHub
  BY <1>10 DEF LeaveHub, HubTyped, NoActive, Statuses, Phases
<1> QED
  BY <1>1, <1>2, <1>3, <1>4, <1>5, <1>6, <1>7, <1>8, <1>9, <1>10 DEF ImportHubNext

ReviewKinds ==
  /\ screen \in {"loading", "error", "table", "left"}
  /\ imported \subseteq RowsFor(TRUE) /\ promise \subseteq RowsFor(TRUE)
  /\ stagedJob \in {"staged", "committed", "gone"}
  /\ committing \in BOOLEAN /\ dropping \in BOOLEAN

LEMMA ReviewKindsNext == ReviewKinds /\ [StagedReviewNext]_stagedReviewVars => ReviewKinds'
<1> SUFFICES ASSUME ReviewKinds, [StagedReviewNext]_stagedReviewVars PROVE ReviewKinds'
  OBVIOUS
<1>0. \A x : RowsFor(x) \subseteq RowsFor(TRUE)
  BY DEF RowsFor
<1> USE DEF ReviewKinds
<1>1. CASE UNCHANGED stagedReviewVars
  BY <1>1 DEF stagedReviewVars
<1>2. CASE OpenJob \/ OpenFails \/ CorrectionFails \/ ConfirmFails
  BY <1>2 DEF OpenJob, OpenFails, CorrectionFails, ConfirmFails
<1>3. CASE SetIncludeDuplicate \/ CorrectCategory \/ DiscardDuplicates
  BY <1>3 DEF SetIncludeDuplicate, CorrectCategory, DiscardDuplicates, SendPut
<1>4. ASSUME NEW n \in DOMAIN puts, ServerCorrects(n) PROVE ReviewKinds'
  <2>1. UNCHANGED <<screen, committing, stagedJob, imported, promise>> /\ dropping' \in {dropping, FALSE}
    BY <1>4 DEF ServerCorrects
  <2> QED BY <2>1
<1>5. ASSUME NEW n \in DOMAIN acks, RowArrives(n) PROVE ReviewKinds'
  BY <1>5 DEF RowArrives
<1>6. CASE ConfirmReview
  BY <1>0, <1>6 DEF ConfirmReview
<1>7. CASE ServerConfirms
  BY <1>0, <1>7 DEF ServerConfirms
<1>8. CASE DiscardReview
  BY <1>8 DEF DiscardReview
<1> QED
  BY <1>1, <1>2, <1>3, <1>4, <1>5, <1>6, <1>7, <1>8 DEF StagedReviewNext

PurgeTyped == purge \in {"none", "pending", "cancelled"}

LEMMA PurgeTypedNext == PurgeTyped /\ [MockImportsNext]_mockImportsVars => PurgeTyped'
BY DEF PurgeTyped, MockImportsNext, mockImportsVars, CreateImport, Upload, TicketAgesOn,
       PollMockJob, ConfirmJob, DiscardJob, SetInclude, CreateLink, ExchangeLink, PauseOrResume,
       WindowEnds, SetAutoConfirm, Sync, Unlink, RequestPurge, CancelPendingPurge

BackgroundInv ==
  /\ AccountsInv /\ TicksTyped /\ PrivacyInv /\ GatewayInv /\ CodesTyped /\ HubTyped
  /\ ReviewInv /\ ReviewKinds /\ MockInv /\ PurgeTyped /\ TaxInv

\* Whatever part a behaviour is of, each part takes a step of its own or none.
LEMMA PartsStep ==
  ASSUME [PagesNext]_pagesVars
  PROVE  /\ [AccountsPageNext]_accountsPageVars /\ [PrivacyPageNext]_privacyVars
         /\ [UploadGatewayNext]_gatewayVars /\ [ImportHubNext]_importHubVars
         /\ [StagedReviewNext]_stagedReviewVars /\ [MockImportsNext]_mockImportsVars
         /\ [TaxPagesNext]_taxPagesVars
<1>1. CASE UNCHANGED pagesVars
  BY <1>1 DEF pagesVars
<1>2. CASE PagesNext
  BY <1>2 DEF PagesNext, Still
<1> QED BY <1>1, <1>2

LEMMA BackgroundStart == PagesInit => BackgroundInv
<1> SUFFICES ASSUME PagesInit PROVE BackgroundInv
  OBVIOUS
<1>1. /\ AccountsPageInit /\ PrivacyPageInit /\ UploadGatewayInit /\ ImportHubInit
      /\ StagedReviewInit /\ MockImportsInit /\ TaxPagesInit
  BY DEF PagesInit
<1>2. TicksTyped
  BY <1>1 DEF AccountsPageInit, NotRunning, TicksTyped
<1>3. CodesTyped
  BY <1>1 DEF UploadGatewayInit, NoUpload, CodesTyped, AnswerCodes
<1>4. HubTyped
  BY <1>1, HubStart DEF HubInv
<1>5. ReviewKinds
  BY <1>1 DEF StagedReviewInit, ReviewKinds
<1>6. PurgeTyped
  BY <1>1 DEF MockImportsInit, PurgeTyped
<1> QED
  BY <1>1, <1>2, <1>3, <1>4, <1>5, <1>6, AccountsStart, PrivacyStart, GatewayStart, ReviewStart,
     MockStart, TaxStart DEF BackgroundInv

LEMMA BackgroundNext == BackgroundInv /\ [PagesNext]_pagesVars => BackgroundInv'
BY PartsStep, AccountsNext, TicksNext, PrivacyNext, GatewayNext, CodesNext, HubTypedNext,
   ReviewNext, ReviewKindsNext, MockSteps, PurgeTypedNext, TaxNext DEF BackgroundInv

LEMMA BackgroundTypes == BackgroundInv => BackgroundTypeOK
<1> SUFFICES ASSUME BackgroundInv PROVE BackgroundTypeOK
  OBVIOUS
<1> USE DEF BackgroundInv
<1>1. AccountsPageTypeOK
  BY DEF AccountsInv, AccountsTyped, TicksTyped, AccountsPageTypeOK
<1>2. UploadGatewayTypeOK
  BY DEF GatewayInv, GatewayTyped, UploadState, UploadSteps, CodesTyped, AnswerCodes,
         UploadGatewayTypeOK
<1>3. ImportHubTypeOK
  BY DEF HubTyped, Phases, Statuses, ImportHubTypeOK
<1>4. StagedReviewTypeOK
  BY DEF ReviewInv, ReviewTyped, ReviewKinds, StagedReviewTypeOK
<1>5. MockImportsTypeOK
  BY DEF MockInv, Typed, JobStates, RowsHaveJobs, PurgeTyped, MockImportsTypeOK
<1> QED
  BY <1>1, <1>2, <1>3, <1>4, <1>5, PrivacyTypes, TaxTypes DEF BackgroundTypeOK

\* BackgroundTypeOK, for any accounts, syncs, exports, uploads, files, jobs,
\* links, corrections and filings: the steps, screens and statuses of the seven
\* parts stay within those the code knows.
THEOREM BackgroundTypeCorrect == PagesSpec => []BackgroundTypeOK
BY BackgroundStart, BackgroundNext, BackgroundTypes, PTL DEF PagesSpec
=============================================================================
