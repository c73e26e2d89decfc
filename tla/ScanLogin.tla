----------------------------- MODULE ScanLogin -----------------------------
(***************************************************************************)
(* The login of a browser by a QR code that the app scans.                 *)
(*                                                                         *)
(* The QR code and the auth codes are entries of Redis that expire.  The   *)
(* browser polls the status of its QR code: a poll reads the entry, puts a *)
(* channel into a map of the process and waits on it for ten seconds; the  *)
(* scan and the grant store the entry and then send it into the channel    *)
(* they find in the map.  The channel has no buffer.                       *)
(***************************************************************************)
EXTENDS Integers, FiniteSets

CONSTANTS
  Scanners,   \* the users whose apps scan the one QR code
  Polls,      \* the polls of the browser that may be open together
  Handlers,   \* the requests to scan and to grant
  NoOne,      \* no user, no poll
  MaxSends    \* bound: the scans and the grants

ASSUME ScanAssumption ==
  NoOne \notin Scanners /\ NoOne \notin Polls /\ MaxSends \in Nat

VARIABLES
  qr,       \* the entry of the QR code: its status and its user
  code,     \* the users with an auth code that is still valid
  known,    \* the users whose auth code the browser has been told
  loggedIn, \* whom the browser is logged in as
  poll,     \* the polls: where they are and the entry they read
  waiting,  \* the poll whose channel is in the map
  handler,  \* the requests: the entry they send, and to which poll
  sends     \* scans and grants so far

scanVars ==
  <<qr, code, known, loggedIn, poll, waiting, handler, sends>>

Status == {"waitScan", "scanned", "authed", "expired"}
Entry == [status : Status, by : Scanners \cup {NoOne}]
Gone == [status |-> "expired", by |-> NoOne]
NoPoll == [pc |-> "idle", data |-> Gone]
Stuck == [pc |-> "stuck", data |-> Gone, to |-> NoOne]
NoHandler == [pc |-> "idle", data |-> Gone, to |-> NoOne]

\* getLoginUUID.
ScanInit ==
  /\ qr = [status |-> "waitScan", by |-> NoOne]
  /\ code = {}
  /\ known = {}
  /\ loggedIn = NoOne
  /\ poll = [p \in Polls |-> NoPoll]
  /\ waiting = NoOne
  /\ handler = [h \in Handlers |-> NoHandler]
  /\ sends = 0

-----------------------------------------------------------------------------
(***************************************************************************)
(* The browser                                                             *)
(***************************************************************************)
\* What an answer tells the browser; the entry of a grant holds the code.
Told(data) ==
  known' = IF data.status = "authed" THEN known \cup {data.by} ELSE known

\* getloginStatus reads the entry; without one it answers at once.
GetLoginStatus(p) ==
  /\ poll[p].pc = "idle"
  /\ IF qr = Gone
     THEN UNCHANGED <<known, poll>>
     ELSE /\ poll' = [poll EXCEPT ![p] = [pc |-> "read", data |-> qr]]
          /\ UNCHANGED known
  /\ UNCHANGED <<qr, code, loggedIn, waiting, handler, sends>>

\* The channel replaces that of another poll of the same QR code.
GetQRCodeModelChan(p) ==
  /\ poll[p].pc = "read"
  /\ poll' = [poll EXCEPT ![p].pc = "wait"]
  /\ waiting' = p
  /\ UNCHANGED <<qr, code, known, loggedIn, handler, sends>>

Receive(p, h) ==
  /\ poll[p].pc = "wait"
  /\ handler[h].pc = "send"
  /\ handler[h].to = p
  /\ poll' = [poll EXCEPT ![p] = [pc |-> "leave", data |-> handler[h].data]]
  /\ handler' = [handler EXCEPT ![h] = NoHandler]
  /\ UNCHANGED <<qr, code, known, loggedIn, waiting, sends>>

\* Fault: a poll that was sent nothing answers that nothing has happened.
TimeoutForgets(p) ==
  /\ poll[p].pc = "wait"
  /\ poll' = [poll EXCEPT ![p] = [pc |-> "leave", data |-> Gone]]
  /\ handler' = [h \in Handlers |->
       IF handler[h].pc = "send" /\ handler[h].to = p
       THEN Stuck ELSE handler[h]]
  /\ UNCHANGED <<qr, code, known, loggedIn, waiting, sends>>

\* After ten seconds it answers with the entry it has read; whoever holds this channel waits for ever to send.
Timeout(p) ==
  /\ poll[p].pc = "wait"
  /\ poll' = [poll EXCEPT ![p].pc = "leave"]
  /\ handler' = [h \in Handlers |->
       IF handler[h].pc = "send" /\ handler[h].to = p
       THEN Stuck ELSE handler[h]]
  /\ UNCHANGED <<qr, code, known, loggedIn, waiting, sends>>

\* removeQRCodeChan takes out whatever channel is in the map by now.
RemoveQRCodeChan(p) ==
  /\ poll[p].pc = "leave"
  /\ Told(poll[p].data)
  /\ poll' = [poll EXCEPT ![p] = NoPoll]
  /\ waiting' = NoOne
  /\ UNCHANGED <<qr, code, loggedIn, handler, sends>>

\* loginWithAuthCode asks for the code only, and uses it up.
LoginWithCode(u) ==
  /\ u \in known
  /\ u \in code
  /\ loggedIn' = u
  /\ code' = code \ {u}
  /\ UNCHANGED <<qr, known, poll, waiting, handler, sends>>

-----------------------------------------------------------------------------
(***************************************************************************)
(* The apps                                                                *)
(***************************************************************************)
Send(h, data) ==
  /\ handler[h].pc = "idle"
  /\ sends < MaxSends
  /\ sends' = sends + 1
  /\ handler' = [handler EXCEPT ![h] =
                   [pc |-> "stored", data |-> data, to |-> NoOne]]

\* handleScanLogin does not ask which status the entry has: a QR code that was
\* granted goes back to scanned.
HandleScanLogin(h, u) ==
  LET data == [status |-> "scanned", by |-> u] IN
  /\ qr # Gone
  /\ code' = code \cup {u}
  /\ qr' = data
  /\ Send(h, data)
  /\ UNCHANGED <<known, loggedIn, poll, waiting>>

\* grantLogin, by the one who scanned; the entry is written anew even when
\* the QR code has expired or another has scanned it since.
GrantLogin(h, u) ==
  LET data == [status |-> "authed", by |-> u] IN
  /\ u \in code
  /\ qr' = data
  /\ Send(h, data)
  /\ UNCHANGED <<code, known, loggedIn, poll, waiting>>

\* SendQRCodeInfo looks for a channel, and sends if there is one.
SendQRCodeInfo(h) ==
  /\ handler[h].pc = "stored"
  /\ handler' = [handler EXCEPT ![h] =
       IF waiting = NoOne THEN NoHandler
       ELSE IF poll[waiting].pc = "wait"
            THEN [@ EXCEPT !.pc = "send", !.to = waiting] ELSE Stuck]
  /\ UNCHANGED <<qr, code, known, loggedIn, poll, waiting, sends>>

\* The entries of Redis expire: the QR code after minutes, a code later.
ExpireQRCode ==
  /\ qr # Gone
  /\ qr' = Gone
  /\ UNCHANGED <<code, known, loggedIn, poll, waiting, handler, sends>>

ExpireCode(u) ==
  /\ u \in code
  /\ code' = code \ {u}
  /\ UNCHANGED <<qr, known, loggedIn, poll, waiting, handler, sends>>

-----------------------------------------------------------------------------
Browser(p) ==
  \/ GetLoginStatus(p) \/ GetQRCodeModelChan(p)
  \/ Timeout(p) \/ RemoveQRCodeChan(p)

ScanNext ==
  \/ \E p \in Polls : Browser(p) \/ \E h \in Handlers : Receive(p, h)
  \/ \E u \in Scanners : \/ LoginWithCode(u)
                         \/ ExpireCode(u)
                         \/ \E h \in Handlers : \/ HandleScanLogin(h, u)
                                                \/ GrantLogin(h, u)
  \/ \E h \in Handlers : SendQRCodeInfo(h)
  \/ ExpireQRCode

\* The browser opens a poll after each answer, the timer of a poll fires and
\* a handler goes on; nothing makes a user scan or grant.
ScanFairness ==
  /\ \A p \in Polls : WF_scanVars(Browser(p))
  /\ \A h \in Handlers : WF_scanVars(SendQRCodeInfo(h))

ScanSpec == ScanInit /\ [][ScanNext]_scanVars /\ ScanFairness

-----------------------------------------------------------------------------
(***************************************************************************)
(* Properties                                                              *)
(***************************************************************************)
\* The entries, polls and requests have the fields the code gives them.
ScanTypeOK ==
  /\ qr \in Entry
  /\ code \subseteq Scanners /\ known \subseteq Scanners
  /\ loggedIn \in Scanners \cup {NoOne}
  /\ poll \in [Polls -> [pc : {"idle", "read", "wait", "leave"}, data : Entry]]
  /\ waiting \in Polls \cup {NoOne}
  /\ handler \in [Handlers -> [pc : {"idle", "stored", "send", "stuck"},
                               data : Entry, to : Polls \cup {NoOne}]]
  /\ sends \in 0..MaxSends

\* A grant reaches the browser although a poll can miss it, between its read
\* and its channel, and another can take its channel out of the map: the entry
\* in Redis stays until it expires or another scan replaces it.
GrantIsSeen ==
  \A u \in Scanners :
    qr = [status |-> "authed", by |-> u]
      ~> (u \in known \/ qr # [status |-> "authed", by |-> u])
=============================================================================
