------------------------------- MODULE SignIn -------------------------------
(***************************************************************************)
(* Google sign-in: the tabs of one browser (lib/auth/sso.ts, the callback  *)
(* page, the session provider and the guards of the two surfaces), the     *)
(* API's start, callback and exchange handlers, the reservations of the    *)
(* start limiter, and the one-time handoff rows.  Tabs share the cookies;  *)
(* each tab has its own session storage.  An attempt is numbered by its    *)
(* start; its state, its verifier, its challenge and its two handoff codes *)
(* carry that number.                                                      *)
(***************************************************************************)
EXTENDS Naturals, FiniteSets

CONSTANTS Tabs, Accounts,
          PendingLimit,  \* ssoStartSourcePending
          Attempts,      \* entries of SSO_EXCHANGE_RETRY_DELAYS_MS
          MaxStarts,     \* bound: sign-in starts of the browser
          MaxSends       \* bound: exchange requests of the browser

ASSUME SignInAssumption ==
  /\ {PendingLimit, Attempts, MaxStarts, MaxSends} \subseteq Nat \ {0}
  /\ "none" \notin Accounts /\ "unread" \notin Accounts

VARIABLES tab,       \* the page each tab shows and what its scripts hold
          cookies,   \* the browser's: oauth state, handoff, session
          login,     \* the pending logins the API keeps under their state
          reserved,  \* attempts that hold a slot of the start limiter
          handoff,   \* rows of sso_handoff
          requests,  \* exchanges on their way to the API
          answers,   \* answers on their way back
          starts, sends

signInVars ==
  <<tab, cookies, login, reserved, handoff, requests, answers, starts, sends>>

Starts == 1..MaxStarts
Channels == {"body", "cookie"}
NoChannel == [channel |-> "none", code |-> 0, verifier |-> 0]

\* own: the callback found its verifier, so the exchange is bound to this tab.
FreshTab == [page |-> "signin", user |-> "unread", attempt |-> 0,
             verifier |-> 0, query |-> 0, selected |-> NoChannel,
             tries |-> 0, waiting |-> 0, own |-> FALSE]

NoHandoff == [status |-> "none", channel |-> "", account |-> "none", minted |-> 0]

SignInInit ==
  /\ tab = [t \in Tabs |-> FreshTab]
  /\ cookies = [state |-> 0, handoff |-> 0, session |-> 0]
  /\ login = [n \in Starts |-> "none"]
  /\ reserved = {}
  /\ handoff = [n \in Starts |-> NoHandoff]
  /\ requests = {} /\ answers = {}
  /\ starts = 0 /\ sends = 0

-----------------------------------------------------------------------------
(* lib/auth/sso.ts and the two places that start a sign-in                 *)

\* clearSsoClientState: nothing of an earlier attempt stays readable.
Cleared(r) == [r EXCEPT !.verifier = 0]

\* showRecoveryError: a restart recovery also clears the stored records.
Interrupted(r, retryable) ==
  IF retryable THEN [r EXCEPT !.page = "error", !.waiting = 0]
  ELSE [Cleared(r) EXCEPT !.page = "error", !.waiting = 0, !.selected = NoChannel]

CanStart(t) == \/ tab[t].page = "signin" /\ tab[t].user = "none"
               \/ tab[t].page = "error" /\ tab[t].selected = NoChannel

\* startGoogleSso: the tab leaves for the API with the new challenge; until
\* the page is gone ssoStartInFlight refuses a second click.
StartGoogleSso(t) ==
  /\ CanStart(t) /\ starts < MaxStarts
  /\ starts' = starts + 1
  /\ tab' = [tab EXCEPT ![t] = [@ EXCEPT !.page = "leaving",
                !.attempt = starts + 1, !.verifier = starts + 1]]
  /\ UNCHANGED <<cookies, login, reserved, handoff, requests, answers, sends>>

\* Storage is unavailable or does not retain the verifier: the start throws.
StartThrows(t) ==
  /\ CanStart(t)
  /\ tab' = [tab EXCEPT ![t] = Cleared(@)]
  /\ UNCHANGED <<cookies, login, reserved, handoff, requests, answers, starts, sends>>

\* The back button returns from Google; a restored page resets its guard.
BackFromGoogle(t) ==
  /\ tab[t].page = "google"
  /\ tab' = [tab EXCEPT ![t].page = "signin", ![t].user = "none"]
  /\ UNCHANGED <<cookies, login, reserved, handoff, requests, answers, starts, sends>>

-----------------------------------------------------------------------------
(* handler/sso.go: start and callback                                      *)

\* loginError, startError: the browser lands on the callback page.
Redirected(t, code) == [tab EXCEPT ![t].page = "callback", ![t].query = code]

GoogleLogin(t) ==
  LET n == tab[t].attempt IN
  /\ tab[t].page = "leaving"
  /\ Cardinality(reserved) < PendingLimit
  /\ reserved' = reserved \cup {n}
  /\ login' = [login EXCEPT ![n] = "pending"]
  /\ cookies' = [cookies EXCEPT !.state = n]
  /\ tab' = [tab EXCEPT ![t].page = "google"]
  /\ UNCHANGED <<handoff, requests, answers, starts, sends>>

\* A full limiter or a spent rate window; a failed store after the
\* reservation, which releases it.
GoogleLoginFails(t) ==
  /\ tab[t].page = "leaving"
  /\ tab' = Redirected(t, 0)
  /\ UNCHANGED <<cookies, login, reserved, handoff, requests, answers, starts, sends>>

\* Slip: the slot is not released.
TakeStateOnly(n) == login' = [login EXCEPT ![n] = "gone"] /\ UNCHANGED reserved

\* Store.Take of the state, and the release of the slot it held.
TakeState(n) ==
  /\ login' = [login EXCEPT ![n] = "gone"]
  /\ reserved' = IF login[n] = "pending" THEN reserved \ {n} ELSE reserved

\* GoogleCallback with another state than the cookie's, or none: another tab
\* has started since.  The pending login is left to expire.
WrongState(t) ==
  /\ tab[t].page = "google" /\ cookies.state # tab[t].attempt
  /\ tab' = Redirected(t, 0)
  /\ UNCHANGED <<cookies, login, reserved, handoff, requests, answers, starts, sends>>

\* Refused at Google, no code, an expired state, or a failing exchange.
CallbackFails(t) ==
  LET n == tab[t].attempt IN
  /\ tab[t].page = "google" /\ cookies.state = n
  /\ cookies' = [cookies EXCEPT !.state = 0]
  /\ TakeState(n)
  /\ tab' = Redirected(t, 0)
  /\ UNCHANGED <<handoff, requests, answers, starts, sends>>

GoogleCallback(t, a) ==
  LET n == tab[t].attempt IN
  /\ tab[t].page = "google" /\ cookies.state = n
  /\ login[n] = "pending"
  /\ TakeState(n)
  /\ handoff' = [handoff EXCEPT ![n] = [@ EXCEPT !.status = "open", !.account = a]]
  /\ cookies' = [cookies EXCEPT !.state = 0, !.handoff = n]
  /\ tab' = Redirected(t, n)
  /\ UNCHANGED <<requests, answers, starts, sends>>

\* The state and its slot live ten minutes; the slot was taken first.
ReservationExpires(n) ==
  /\ n \in reserved
  /\ reserved' = reserved \ {n}
  /\ UNCHANGED <<tab, cookies, login, handoff, requests, answers, starts, sends>>

StateExpires(n) ==
  /\ login[n] = "pending" /\ n \notin reserved
  /\ login' = [login EXCEPT ![n] = "gone"]
  /\ UNCHANGED <<tab, cookies, reserved, handoff, requests, answers, starts, sends>>

-----------------------------------------------------------------------------
(* The callback page and the exchange                                      *)

\* isFreshOwnedRecord: after ten minutes the record reads as absent.
VerifierExpires(t) ==
  /\ tab[t].verifier # 0
  /\ tab' = [tab EXCEPT ![t] = Cleared(@)]
  /\ UNCHANGED <<cookies, login, reserved, handoff, requests, answers, starts, sends>>

\* Slip: the cookie is always taken.
SelectedCookie(r) == [channel |-> "cookie", code |-> 0, verifier |-> 0]

\* selectSsoExchangeChannel
Selected(r) ==
  IF r.query # 0 /\ r.verifier # 0
  THEN [channel |-> "body", code |-> r.query, verifier |-> r.verifier]
  ELSE [channel |-> "cookie", code |-> 0, verifier |-> 0]

\* The page pins its channel, then clears the stored records.
LoadCallback(t) ==
  /\ tab[t].page = "callback" /\ tab[t].query # 0
  /\ tab' = [tab EXCEPT ![t] = [Cleared(@) EXCEPT !.page = "exchanging",
                !.selected = Selected(tab[t]), !.tries = Attempts, !.query = 0,
                !.own = tab[t].verifier # 0]]
  /\ UNCHANGED <<cookies, login, reserved, handoff, requests, answers, starts, sends>>

\* readCallbackContract finds an error, or the records cannot be cleared.
CallbackInvalid(t) ==
  /\ tab[t].page = "callback"
  /\ tab' = [tab EXCEPT ![t] = [Interrupted(@, FALSE) EXCEPT !.query = 0]]
  /\ UNCHANGED <<cookies, login, reserved, handoff, requests, answers, starts, sends>>

\* requestExchange: a cookie request carries the cookie of this moment.
RequestExchange(t) ==
  LET s == tab[t].selected IN
  /\ tab[t].page = "exchanging" /\ tab[t].waiting = 0 /\ tab[t].tries > 0
  /\ sends < MaxSends
  /\ sends' = sends + 1
  /\ requests' = requests \cup
       {[id |-> sends + 1, channel |-> s.channel, verifier |-> s.verifier,
         code |-> IF s.channel = "body" THEN s.code ELSE cookies.handoff]}
  /\ tab' = [tab EXCEPT ![t] = [@ EXCEPT !.waiting = sends + 1,
                                        !.tries = tab[t].tries - 1]]
  /\ UNCHANGED <<cookies, login, reserved, handoff, answers, starts>>

\* Handoffs.Redeem under the row lock.  The challenge of attempt n is that of
\* verifier n.
Redeemable(r) ==
  LET h == handoff[r.code] IN
  /\ r.code # 0 /\ h.status \in {"open", "redeemed"}
  /\ r.channel = "body" => r.verifier = r.code
  /\ h.channel \in {"", r.channel}

\* Slip: every redeem mints.
MintsAgain(h, channel) == [h EXCEPT !.status = "redeemed", !.channel = channel, !.minted = @ + 1]

\* A replay finds the sealed token; the first redeem mints it.
Redeemed(h, channel) ==
  IF h.status = "redeemed" THEN h
  ELSE [h EXCEPT !.status = "redeemed", !.channel = channel, !.minted = @ + 1]

\* An answer to a request its tab has aborted reaches nobody.
Answered(r, status, token) ==
  answers' = IF \E t \in Tabs : tab[t].waiting = r.id
             THEN answers \cup {[id |-> r.id, status |-> status, token |-> token]}
             ELSE answers

\* ExchangeSSOHandoff, whenever the request arrives, also after its tab has
\* given it up.
Exchange(r) ==
  /\ requests' = requests \ {r}
  /\ IF Redeemable(r)
     THEN /\ handoff' = [handoff EXCEPT ![r.code] = Redeemed(@, r.channel)]
          /\ Answered(r, "ok", r.code) \/ Answered(r, "unavailable", 0)
     ELSE Answered(r, "invalid", 0) /\ UNCHANGED handoff
  /\ UNCHANGED <<tab, cookies, login, reserved, starts, sends>>

\* The store is down (503), or the proxy does not reach the API (502): nothing
\* committed.  The proxy's 502 may also hide a redeem, see Exchange.
ExchangeUnavailable(r) ==
  /\ requests' = requests \ {r}
  /\ Answered(r, "unavailable", 0)
  /\ UNCHANGED <<tab, cookies, login, reserved, handoff, starts, sends>>

\* expires_at: five minutes, one minute after the first redeem.
HandoffExpires(n) ==
  /\ handoff[n].status \in {"open", "redeemed"}
  /\ handoff' = [handoff EXCEPT ![n].status = "expired"]
  /\ UNCHANGED <<tab, cookies, login, reserved, requests, answers, starts, sends>>

\* A network failure, a timeout or a 5xx: the next delay, or the recovery
\* that repeats the exchange on the same channel.
RetryOrShow(r) ==
  IF r.tries > 0 THEN [r EXCEPT !.waiting = 0] ELSE Interrupted(r, TRUE)

Timeout(t) ==
  /\ tab[t].page = "exchanging" /\ tab[t].waiting # 0
  /\ tab' = [tab EXCEPT ![t] = RetryOrShow(@)]
  /\ answers' = {a \in answers : a.id # tab[t].waiting}
  /\ UNCHANGED <<cookies, login, reserved, handoff, requests, starts, sends>>

ReceiveAnswer(t, a) ==
  /\ tab[t].page = "exchanging" /\ tab[t].waiting = a.id
  /\ answers' = answers \ {a}
  /\ tab' = [tab EXCEPT ![t] =
       CASE a.status = "ok" -> [@ EXCEPT !.page = "dashboard", !.user = "unread",
                                        !.waiting = 0, !.selected = NoChannel]
         [] a.status = "invalid" -> Interrupted(@, FALSE)
         [] OTHER -> RetryOrShow(@)]
  /\ cookies' = IF a.status = "ok"
                THEN [cookies EXCEPT !.session = a.token, !.handoff = 0] ELSE cookies
  /\ UNCHANGED <<login, reserved, handoff, requests, starts, sends>>

\* retrySignIn with an exchange recovery: the pinned channel again.
RetrySignIn(t) ==
  /\ tab[t].page = "error" /\ tab[t].selected # NoChannel
  /\ sends < MaxSends
  /\ tab' = [tab EXCEPT ![t] = [@ EXCEPT !.page = "exchanging", !.tries = Attempts]]
  /\ UNCHANGED <<cookies, login, reserved, handoff, requests, answers, starts, sends>>

BackToLogin(t) ==
  /\ tab[t].page = "error"
  /\ tab' = [tab EXCEPT ![t] = FreshTab]
  /\ UNCHANGED <<cookies, login, reserved, handoff, requests, answers, starts, sends>>

-----------------------------------------------------------------------------
(* The session provider, DashboardShell and SignInGate                     *)

\* useRequireAuth and useRedirectAuthed: both surfaces wait for the read.
SurfaceFor(u) == IF u = "none" THEN "signin" ELSE "dashboard"

\* restore: GET /me with the cookie; a failed read is signed out.
ReadSession(t, failed) ==
  /\ tab[t].page \in {"signin", "dashboard"} /\ tab[t].user = "unread"
  /\ LET u == IF cookies.session = 0 \/ failed THEN "none"
              ELSE handoff[cookies.session].account IN
     tab' = [tab EXCEPT ![t] = [@ EXCEPT !.user = u, !.page = SurfaceFor(u)]]
  /\ UNCHANGED <<cookies, login, reserved, handoff, requests, answers, starts, sends>>

\* The provider forgets the user first; a logout that does not reach the API
\* throws and leaves the page, and the cookie.
SignOut(t, reached) ==
  /\ tab[t].page = "dashboard" /\ tab[t].user # "unread"
  /\ tab' = [tab EXCEPT ![t] = [@ EXCEPT !.user = "none",
               !.page = IF reached THEN "signin" ELSE tab[t].page]]
  /\ cookies' = IF reached THEN [cookies EXCEPT !.session = 0, !.handoff = 0] ELSE cookies
  /\ UNCHANGED <<login, reserved, handoff, requests, answers, starts, sends>>

SignInNext ==
  \/ \E t \in Tabs :
       \/ StartGoogleSso(t) \/ StartThrows(t) \/ BackFromGoogle(t)
       \/ GoogleLogin(t) \/ GoogleLoginFails(t) \/ WrongState(t) \/ CallbackFails(t)
       \/ \E a \in Accounts : GoogleCallback(t, a)
       \/ VerifierExpires(t) \/ LoadCallback(t) \/ CallbackInvalid(t)
       \/ RequestExchange(t) \/ Timeout(t) \/ RetrySignIn(t) \/ BackToLogin(t)
       \/ \E a \in answers : ReceiveAnswer(t, a)
       \/ \E failed \in BOOLEAN : ReadSession(t, failed)
       \/ \E reached \in BOOLEAN : SignOut(t, reached)
  \/ \E n \in Starts : ReservationExpires(n) \/ StateExpires(n) \/ HandoffExpires(n)
  \/ \E r \in requests : Exchange(r) \/ ExchangeUnavailable(r)

SignInSpec == SignInInit /\ [][SignInNext]_signInVars

-----------------------------------------------------------------------------

SignInTypeOK ==
  /\ \A t \in Tabs :
       /\ tab[t].page \in {"signin", "leaving", "google", "callback",
                           "exchanging", "error", "dashboard"}
       /\ tab[t].user \in Accounts \cup {"none", "unread"}
       /\ tab[t].verifier \in {0, tab[t].attempt}
       /\ tab[t].tries \in 0..Attempts
  /\ reserved \subseteq Starts
  /\ \A n \in Starts : handoff[n].account \in Accounts \cup {"none"}

\* A tab whose callback held the verifier enters only as the account chosen
\* in its own attempt, whatever other tabs of the browser do to the shared
\* cookies and however often the exchange is repeated (selectSsoExchangeChannel
\* and the pinned recovery of the callback page).
OwnAccount ==
  [][\A t \in Tabs :
       tab[t].page = "exchanging" /\ tab'[t].page = "dashboard" /\ tab[t].own
         => cookies'.session = tab[t].attempt]_signInVars

\* A handoff yields one session token: lost answers, late requests and
\* repeated exchanges replay it (Handoffs.Redeem).
OneTokenPerHandoff == \A n \in Starts : handoff[n].minted <= 1

\* A slot of the start limiter is held only by a login that can still finish,
\* so finished and refused sign-ins never use the browser's allowance up
\* (ReleaseSSOStart in the handlers).
NoStrandedReservation == \A n \in reserved : login[n] = "pending"
=============================================================================
