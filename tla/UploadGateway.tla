---------------------------- MODULE UploadGateway ----------------------------
(***************************************************************************)
(* One upload from the browser to the queue: the API client, the web       *)
(* proxy, and the gateway (api/statements) that verifies the ticket, reads *)
(* and checks the file, writes it to tmp/, writes the claim next to it and *)
(* publishes the pointer, one await after the other.  A ticket may be used *)
(* again after an answer that did not come or was a refusal.               *)
(***************************************************************************)
EXTENDS FileType

CONSTANTS Uploads,         \* requests to the gateway, retries included
          GatewayTickets,  \* each for one file
          TicketType,      \* the file type a ticket was issued for
          Files,           \* what a user may choose
          GatewayFaults,   \* of "storage", "kafka", "crash", "cut"
          OneOrigin        \* both services behind one origin

ASSUME UploadGatewayAssumption ==
  /\ TicketType \in [GatewayTickets -> {"csv", "xlsx", "pdf", "image"}]
  /\ GatewayFaults \subseteq {"storage", "kafka", "crash", "cut"} /\ OneOrigin \in BOOLEAN
  /\ \A f \in Files :
       /\ f.bytes \in Seq(ByteClasses) /\ f.size \in {"empty", "within", "over"}
       /\ f.size = "within" => f.magic # "none" \/ f.bytes # <<>>

VARIABLES fileOf,      \* the file of each ticket
          expired,     \* tickets past their time and the skew
          upload,      \* per request: [step, ticket, headers, answer]
          tmp,         \* objects: none or one file per ticket
          claims,      \* requests whose payload is in tmp/claims
          published,   \* upload.received: [upload, ticket, describes]
          kafkaUp      \* the producer is connected

gatewayVars == <<fileOf, expired, upload, tmp, claims, published, kafkaUp>>

NoUpload == [step |-> "none", ticket |-> {}, headers |-> {}, answer |-> 0]

UploadGatewayInit ==
  /\ fileOf \in [GatewayTickets -> Files]
  /\ expired = {} /\ upload = [r \in Uploads |-> NoUpload]
  /\ tmp = [t \in GatewayTickets |-> {}] /\ claims = {} /\ published = {}
  /\ kafkaUp \in BOOLEAN

TicketOf(r) == CHOOSE t \in upload[r].ticket : TRUE
FileSent(r) == fileOf[TicketOf(r)]
Answer(r, code) == upload' = [upload EXCEPT ![r].step = "answered", ![r].answer = code]
GoOn(r, step) == upload' = [upload EXCEPT ![r].step = step]

-----------------------------------------------------------------------------
(* The client and the proxy                                                *)

\* A request with a ticket carries neither the bearer token nor the
\* organization; the cookie of the web origin goes with every request.
ClientHeaders(withTicket) ==
  {"content-type", "cookie"} \cup
  (IF withTicket THEN {"upload-ticket"} ELSE {"authorization", "x-org-id"})

Proxied(headers, toUploads) ==
  (headers \cap {"authorization", "content-type", "x-org-id", "upload-ticket"}) \cup
  (IF ~ toUploads \/ OneOrigin THEN headers \cap {"cookie"} ELSE {})

\* The service cannot be reached: the proxy answers for it.
Unreachable == 502

\* Signature and expiry only: that a ticket serves once is for common to see.
Verified(t) == t \notin expired

\* What the page knows when it sends again: no answer, or a failure.
Refused(r) == upload[r].step = "answered" /\ upload[r].answer # 202
MayRetry(t) == \A r \in Uploads : t \in upload[r].ticket => Refused(r)

SendFile(r) ==
  /\ upload[r].step = "none"
  /\ \E t \in GatewayTickets :
       /\ MayRetry(t)
       /\ LET begun == [step |-> "reading", ticket |-> {t}, answer |-> 0,
                        headers |-> Proxied(ClientHeaders(TRUE), TRUE)]
          IN upload' = [upload EXCEPT ![r] =
                          IF Verified(t) THEN begun
                          ELSE [begun EXCEPT !.step = "answered", !.answer = 401]]
  /\ UNCHANGED <<fileOf, expired, tmp, claims, published, kafkaUp>>

TicketExpires ==
  /\ \E t \in GatewayTickets \ expired : expired' = expired \cup {t}
  /\ UNCHANGED <<fileOf, upload, tmp, claims, published, kafkaUp>>

-----------------------------------------------------------------------------
(* The gateway                                                             *)

\* Declared or counted, more than the ticket allows is not read.
OverLimit(f) == f.size = "over"

ReadBody(r) ==
  /\ upload[r].step = "reading"
  /\ LET f == FileSent(r)
     IN CASE OverLimit(f) -> Answer(r, 413)
          [] f.size = "empty" -> Answer(r, 400)
          [] OTHER -> GoOn(r, "read")
  /\ UNCHANGED <<fileOf, expired, tmp, claims, published, kafkaUp>>

\* An image of the web's formats is made smaller when it is too large; one that
\* cannot be decoded is an error nobody expects.
Resizable == {"png", "jpeg", "webp"}
Downscaled(f) == IF f.magic \in Resizable THEN [f EXCEPT !.large = FALSE] ELSE f

CheckFile(r) ==
  /\ upload[r].step = "read"
  /\ LET f == FileSent(r)
     IN CASE ~ Matches(TicketType[TicketOf(r)], Detect(f)) -> Answer(r, 415)
          [] f.broken /\ f.magic \in Resizable -> Answer(r, 500)
          [] OTHER -> GoOn(r, "checked")
  /\ UNCHANGED <<fileOf, expired, tmp, claims, published, kafkaUp>>

Fails(fault, r, code) == fault \in GatewayFaults /\ Answer(r, code)

StoreObject(r) ==
  /\ upload[r].step = "checked"
  /\ \/ GoOn(r, "stored") /\ tmp' = [tmp EXCEPT ![TicketOf(r)] = {Downscaled(FileSent(r))}]
     \/ Fails("storage", r, 503) /\ UNCHANGED tmp
  /\ UNCHANGED <<fileOf, expired, claims, published, kafkaUp>>

\* Slip: a claim that cannot be stored is passed over.
StoreClaimIfPossible(r) ==
  /\ upload[r].step = "stored"
  /\ GoOn(r, "claimed") /\ claims' \in {claims, claims \cup {r}}
  /\ UNCHANGED <<fileOf, expired, tmp, published, kafkaUp>>

StoreClaim(r) ==
  /\ upload[r].step = "stored"
  /\ \/ GoOn(r, "claimed") /\ claims' = claims \cup {r}
     \/ Fails("storage", r, 503) /\ UNCHANGED claims
  /\ UNCHANGED <<fileOf, expired, tmp, published, kafkaUp>>

Message(r) == [upload |-> r, ticket |-> TicketOf(r), describes |-> Downscaled(FileSent(r))]

\* Connects first.  A send that fails may have been delivered all the same.
PublishUpload(r) ==
  /\ upload[r].step = "claimed"
  /\ \/ kafkaUp' = TRUE /\ published' = published \cup {Message(r)} /\ GoOn(r, "published")
     \/ Fails("kafka", r, 503) /\ kafkaUp' = kafkaUp /\ UNCHANGED published
     \/ Fails("kafka", r, 503) /\ kafkaUp' = TRUE /\ published' = published \cup {Message(r)}
  /\ UNCHANGED <<fileOf, expired, tmp, claims>>

KafkaDisconnects ==
  /\ "kafka" \in GatewayFaults /\ kafkaUp /\ kafkaUp' = FALSE
  /\ UNCHANGED <<fileOf, expired, upload, tmp, claims, published>>

\* Best effort: common settles, refuses, or does not answer in time.
Settled == {"settled", "failed", "no url"}

WakeCommon(r) ==
  /\ upload[r].step = "published" /\ \E s \in Settled : Answer(r, 202)
  /\ UNCHANGED <<fileOf, expired, tmp, claims, published, kafkaUp>>

InFlight(r) == upload[r].step \notin {"none", "answered"}

\* The instance is gone and everything it was doing; or one request took too long.
Lost(r) == IF InFlight(r) THEN [upload[r] EXCEPT !.step = "answered", !.answer = Unreachable] ELSE upload[r]
InstanceDies ==
  /\ "crash" \in GatewayFaults /\ \E r \in Uploads : InFlight(r)
  /\ upload' = [r \in Uploads |-> Lost(r)] /\ kafkaUp' = FALSE
  /\ UNCHANGED <<fileOf, expired, tmp, claims, published>>

RequestCut(r) ==
  /\ "cut" \in GatewayFaults /\ InFlight(r) /\ upload' = [upload EXCEPT ![r] = Lost(r)]
  /\ UNCHANGED <<fileOf, expired, tmp, claims, published, kafkaUp>>

Serve(r) ==
  \/ ReadBody(r) \/ CheckFile(r) \/ StoreObject(r) \/ StoreClaim(r) \/ PublishUpload(r)
  \/ WakeCommon(r)

UploadGatewayNext ==
  \/ TicketExpires \/ KafkaDisconnects \/ InstanceDies
  \/ \E r \in Uploads : SendFile(r) \/ Serve(r) \/ RequestCut(r)

UploadGatewaySpec == UploadGatewayInit /\ [][UploadGatewayNext]_gatewayVars

-----------------------------------------------------------------------------
(* Properties                                                              *)

UploadGatewayTypeOK ==
  /\ expired \subseteq GatewayTickets /\ claims \subseteq Uploads /\ kafkaUp \in BOOLEAN
  /\ \A r \in Uploads :
       /\ upload[r].step \in {"none", "reading", "read", "checked", "stored", "claimed",
                              "published", "answered"}
       /\ upload[r].answer \in {0, 202, 400, 401, 413, 415, 500, 502, 503}

\* An accepted upload is one common can find: its message, the claim the message
\* points to and the object the claim describes are all there, whatever failed,
\* crashed or was sent again on the way (upload.service.ts:41-66).
HandedOverWhole ==
  /\ \A r \in Uploads : upload[r].answer = 202 => \E m \in published : m.upload = r
  /\ \A m \in published : m.upload \in claims /\ tmp[m.ticket] = {m.describes}

\* A text is not refused for the place its sample was cut at (filetype.ts:47).
GoodTextIsTaken ==
  \A r \in Uploads : upload[r].answer = 415 =>
    ~ (/\ TicketType[TicketOf(r)] = "csv" /\ FileSent(r).magic = "none"
       /\ Decodes(FileSent(r).bytes)
       /\ \A i \in DOMAIN FileSent(r).bytes : FileSent(r).bytes[i] # "zero")

\* "The ticket is the only credential: no session header and no org header go
\* with it" (uploads.ts:11-14, client.ts:68).
TicketIsTheOnlyCredential ==
  \A r \in Uploads : upload[r].headers \cap {"cookie", "authorization", "x-org-id"} = {}

\* Whoever is refused left no message (a send that failed may be delivered, and
\* a request may be cut while common settles).
\* Not kept by the code (README, "By hand").
RefusedLeftNoMessage ==
  \A m \in published : upload[m.upload].step = "answered" => upload[m.upload].answer = 202
=============================================================================
