------------------------------ MODULE Accounts ------------------------------
(***************************************************************************)
(* The accounts of modules/user: the rows of the table user, the           *)
(* identities of third parties, the tokens in the cache, the devices of a  *)
(* user and what the IM server knows of it.                                *)
(*                                                                         *)
(* A handler reads the row of the user, checks it, and then writes the     *)
(* database, the cache and the IM server one call after the other.  A      *)
(* request is therefore the list of the calls that are left to make; the   *)
(* token it generates is named by the number of the request.               *)
(***************************************************************************)
EXTENDS Integers, FiniteSets, Sequences

CONSTANTS
  Users,        \* the uids that registrations generate
  Devices,      \* the devices a user logs in from
  Nobody,       \* no user
  Requests,     \* the requests that are worked on
  MaxRequests,  \* bound: the requests of a behaviour
  MaxOverlaps,  \* bound: requests that start while another is under way
  MaxFaults     \* bound: failed calls and crashes

ASSUME AccountsAssumption ==
  /\ Nobody \notin Users
  /\ Nobody \notin Devices
  /\ MaxRequests \in Nat
  /\ MaxOverlaps \in Nat
  /\ MaxFaults \in Nat

VARIABLES
  account,   \* the row of the user
  friend,    \* its friendships with the accounts of the system
  identity,  \* user_third_identity: whom the one Google account stands for
  token,     \* the tokens in the cache and the user each stands for
  uidToken,  \* the token recorded for a user and a kind of device
  device,    \* the devices of a user, and the one that waits for a code
  im,        \* the IM server: the ban of a user, and its tokens
  held,      \* the tokens the app was given by a login
  request,   \* the requests
  spent      \* requests, overlaps and faults so far

accountVars ==
  <<account, friend, identity, token, uidToken, device, im, held, request,
    spent>>

database == <<account, friend, identity>>
cache == <<token, uidToken>>

Tokens == 1..MaxRequests
Flags == {"app", "web"}
OAuth == {"github", "gitee"}
Ways == {"phone", "name", "wx", "google", "admin"} \cup OAuth

NoAccount == [state |-> "none", way |-> "none", disabled |-> FALSE,
              lock |-> FALSE]
NoToken == [uid |-> Nobody, life |-> "no"]

Idle == [op |-> "none", uid |-> Nobody, flag |-> "app", device |-> Nobody,
         tok |-> 0, old |-> 0, on |-> FALSE, todo |-> <<>>]

AccountsInit ==
  /\ account = [u \in Users |-> NoAccount]
  /\ friend = [u \in Users |-> {}]
  /\ identity = Nobody
  /\ token = [t \in Tokens |-> NoToken]
  /\ uidToken = [u \in Users |-> [f \in Flags |-> 0]]
  /\ device = [u \in Users |-> [known |-> {}, pending |-> Nobody]]
  /\ im = [u \in Users |-> [ban |-> FALSE, tok |-> [f \in Flags |-> 0]]]
  /\ held = [u \in Users |-> {}]
  /\ request = [w \in Requests |-> Idle]
  /\ spent = [requests |-> 0, overlaps |-> 0, faults |-> 0]

Active(w) == request[w].op # "none"
Live(u) == account[u].state = "live"
Found(u) == account[u].state # "none"

\* A uid that no registration has generated yet.
Fresh(u) == ~Found(u) /\ \A w \in Requests : request[w].uid # u

-----------------------------------------------------------------------------
(***************************************************************************)
(* Requests and their calls                                                *)
(***************************************************************************)
Of(op, u, f, d) ==
  [Idle EXCEPT !.op = op, !.uid = u, !.flag = f, !.device = d]

\* The request with the calls it has to make; it may bring its token.
Calling(r, todo) ==
  [r EXCEPT !.todo = todo,
            !.tok = IF r.tok = 0 THEN spent.requests + 1 ELSE r.tok]

\* A request begins with what it has checked and the calls left to make.
Start(w, r, todo) ==
  LET overlaps == \E v \in Requests : Active(v)
  IN
  /\ ~Active(w)
  /\ spent.requests < MaxRequests
  /\ overlaps => spent.overlaps < MaxOverlaps
  /\ spent' = [spent EXCEPT !.requests = @ + 1,
                            !.overlaps = IF overlaps THEN @ + 1 ELSE @]
  /\ request' = [request EXCEPT ![w] = Calling(r, todo)]
  /\ UNCHANGED <<database, cache, device, im, held>>

\* A request of one call; it may fall between the calls of the others.
AtOnce ==
  /\ spent.requests < MaxRequests
  /\ spent' = [spent EXCEPT !.requests = @ + 1]
  /\ UNCHANGED request

Due(w, call) == request[w].todo # <<>> /\ Head(request[w].todo) = call

\* The request with its first call done; after the last one it is over.
Further(r) ==
  IF Len(r.todo) = 1 THEN Idle ELSE [r EXCEPT !.todo = Tail(r.todo)]

Done(w) == request' = [request EXCEPT ![w] = Further(request[w])]

Refuse(w) ==
  /\ request' = [request EXCEPT ![w] = Idle]
  /\ UNCHANGED <<database, cache, device, im, held, spent>>

\* A call fails or the process dies: what was done before stays.
Fail(w) ==
  /\ Active(w)
  /\ spent.faults < MaxFaults
  /\ spent' = [spent EXCEPT !.faults = @ + 1]
  /\ request' = [request EXCEPT ![w] = Idle]
  /\ UNCHANGED <<database, cache, device, im, held>>

-----------------------------------------------------------------------------
(***************************************************************************)
(* Registration                                                            *)
(***************************************************************************)
\* The friendships with the system and the file helper are committed on
\* connections of their own, before the row, its device and its event.
InsertUser == <<"system", "helper", "insert">>
CreateUser == <<"system", "helper", "insert", "setToken", "imToken">>

\* The phone, the name or the login was looked up before the transaction.
Register(w, way, u, f, d) ==
  /\ Fresh(u)
  /\ ~\E v \in Users : Live(v) /\ account[v].way = way
  /\ Start(w, Of(way, u, f, d), CreateUser)

RegisterPhone(w, u, f, d) == Register(w, "phone", u, f, d)
UsernameRegister(w, u, f, d) == Register(w, "name", u, f, d)

\* addUser of api_manager.go: no token is made.
AddUser(w, u) ==
  /\ Fresh(u)
  /\ ~\E v \in Users : Live(v) /\ account[v].way = "phone"
  /\ Start(w, Of("phone", u, "app", Nobody), InsertUser)

\* A destroyed row still carries the login, and is refused for good.
RegisterThird(w, way, u, f, d) ==
  /\ Fresh(u)
  /\ ~\E v \in Users : Found(v) /\ account[v].way = way
  /\ Start(w, Of(way, u, f, d), CreateUser)

WxRegister(w, u, f, d) == RegisterThird(w, "wx", u, f, d)
GithubRegister(w, u) == RegisterThird(w, "github", u, "app", Nobody)
GiteeRegister(w, u) == RegisterThird(w, "gitee", u, "app", Nobody)

AddAdminUser(w, u) ==
  /\ Fresh(u)
  /\ ~\E v \in Users : Live(v) /\ account[v].way = "admin"
  /\ Start(w, Of("admin", u, "web", Nobody), <<"insert">>)

\* addSystemFriend, addFileHelperFriend.
Befriend(w, who) ==
  LET u == request[w].uid IN
  /\ Due(w, who)
  /\ friend' = [friend EXCEPT ![u] = @ \cup {who}]
  /\ Done(w)
  /\ UNCHANGED <<account, identity, cache, device, im, held, spent>>

InsertRow(w) ==
  LET r == request[w] IN
  /\ account' = [account EXCEPT ![r.uid] =
       [NoAccount EXCEPT !.state = "live", !.way = r.op]]
  /\ identity' = IF r.op = "google" THEN r.uid ELSE identity
  /\ device' = [device EXCEPT ![r.uid].known = {r.device} \ {Nobody}]
  /\ Done(w)
  /\ UNCHANGED <<friend, cache, im, held, spent>>

\* Fault: the identities of third parties have no unique index.
InsertUnchecked(w) == Due(w, "insert") /\ InsertRow(w)

\* The transaction fails on the unique rows of third parties: the identity,
\* and the rows of github_user and gitee_user.
Insert(w) ==
  LET r == request[w] IN
  /\ Due(w, "insert")
  /\ IF \/ r.op = "google" /\ identity # Nobody
        \/ r.op \in OAuth /\ \E v \in Users : Found(v)
                                             /\ account[v].way = r.op
     THEN Refuse(w)
     ELSE InsertRow(w)

-----------------------------------------------------------------------------
(***************************************************************************)
(* Login                                                                   *)
(***************************************************************************)
\* The calls of execLogin, once it has accepted the row and the device.
LoginCalls == <<"device", "oldToken", "dropOldToken", "setToken",
                "setUidToken", "imToken">>

\* A locked account is asked for a code on a device it does not know.
ExecLogin(w, u, f, d) ==
  /\ ~account[u].disabled
  /\ IF f = "app" /\ account[u].lock /\ d \notin device[u].known
     THEN d # Nobody /\ Start(w, Of("pending", u, f, d), <<"pending">>)
     ELSE Start(w, Of("login", u, f, d), LoginCalls)

Login(w, u, f, d) ==
  Live(u) /\ account[u].way = "phone" /\ ExecLogin(w, u, f, d)
UsernameLogin(w, u, f, d) ==
  Live(u) /\ account[u].way = "name" /\ ExecLogin(w, u, f, d)
WxLogin(w, u, f, d) ==
  Live(u) /\ account[u].way = "wx" /\ ExecLogin(w, u, f, d)
GithubLogin(w, u) ==
  Live(u) /\ account[u].way = "github" /\ ExecLogin(w, u, "app", Nobody)
GiteeLogin(w, u) ==
  Live(u) /\ account[u].way = "gitee" /\ ExecLogin(w, u, "app", Nobody)

\* The calls of a new Google user, and of one whose account is gone.
SignUp == <<"email", "system", "helper", "insert", "setToken", "imToken">>
SignUpAgain ==
  <<"freeIdentity", "email", "system", "helper", "insert", "setToken", "imToken">>

\* The Google account is known; or it is unknown, or stands for an account
\* that is gone: then it gets a new one.
GoogleLogin(w, d) ==
  IF identity # Nobody /\ Live(identity)
  THEN ExecLogin(w, identity, "app", d)
  ELSE \E u \in Users :
         /\ Fresh(u)
         /\ Start(w, Of("google", u, "app", d),
                  IF identity # Nobody THEN SignUpAgain ELSE SignUp)

FreeIdentity(w) ==
  /\ Due(w, "freeIdentity")
  /\ identity' = Nobody
  /\ Done(w)
  /\ UNCHANGED <<account, friend, cache, device, im, held, spent>>

\* An account with this email is not merged silently, but refused.
CheckEmail(w) ==
  /\ Due(w, "email")
  /\ IF \E v \in Users : Live(v) /\ account[v].way = "google"
     THEN Refuse(w)
     ELSE /\ Done(w)
          /\ UNCHANGED <<database, cache, device, im, held, spent>>

PendDevice(w) ==
  LET r == request[w] IN
  /\ Due(w, "pending")
  /\ device' = [device EXCEPT ![r.uid].pending = r.device]
  /\ Done(w)
  /\ UNCHANGED <<database, cache, im, held, spent>>

\* loginCheckPhone, with the code that was sent: the waiting device becomes
\* known; neither the row's status nor the recorded token is looked at.
LoginCheckPhone(w, u) ==
  /\ Found(u)
  /\ account[u].way = "phone"
  /\ device[u].pending # Nobody
  /\ Start(w, Of("check", u, "app", device[u].pending),
           <<"device", "setToken", "imToken">>)

\* loginWithAuthCode: a browser with the code of a user who has scanned.  It
\* goes on with the recorded token; any flag but 0 is read as the app's.
LoginWithAuthCode(w, u, f) ==
  /\ Found(u)
  /\ Start(w, Of("qr", u, f, Nobody),
           <<"oldToken", "imToken", "setToken", "setUidToken">>)

\* login of api_manager.go.
AdminLogin(w, u) ==
  /\ Live(u)
  /\ account[u].way = "admin"
  /\ Start(w, Of("adminLogin", u, "web", Nobody),
           <<"setToken", "setUidToken">>)

KnowDevice(w) ==
  LET r == request[w] IN
  /\ Due(w, "device")
  /\ device' = [device EXCEPT ![r.uid].known = @ \cup ({r.device} \ {Nobody})]
  /\ Done(w)
  /\ UNCHANGED <<database, cache, im, held, spent>>

\* A browser, and whoever comes with an auth code, keeps the recorded token.
OldToken(w) ==
  LET r == request[w]
      old == uidToken[r.uid][r.flag]
      reused == old # 0 /\ (r.op = "qr" \/ r.flag = "web")
  IN
  /\ Due(w, "oldToken")
  /\ request' = [request EXCEPT ![w] =
       [r EXCEPT !.old = old, !.todo = Tail(r.todo),
                 !.tok = IF reused THEN old ELSE r.tok]]
  /\ UNCHANGED <<database, cache, device, im, held, spent>>

\* Fault: the token of the app is kept as if it were a browser's.
KeepOldToken(w) ==
  /\ Due(w, "dropOldToken")
  /\ Done(w)
  /\ UNCHANGED <<database, cache, device, im, held, spent>>

DropOldToken(w) ==
  LET r == request[w] IN
  /\ Due(w, "dropOldToken")
  /\ token' = IF r.flag = "app" /\ r.old # 0
              THEN [token EXCEPT ![r.old] = NoToken] ELSE token
  /\ Done(w)
  /\ UNCHANGED <<database, uidToken, device, im, held, spent>>

SetToken(w) ==
  LET r == request[w] IN
  /\ Due(w, "setToken")
  /\ token' = [token EXCEPT ![r.tok] = [uid |-> r.uid, life |-> "expires"]]
  /\ Done(w)
  /\ UNCHANGED <<database, uidToken, device, im, held, spent>>

\* The app gets the token with the answer.
HandOut(r) ==
  IF r.flag = "app" /\ r.op \in {"login", "qr"}
  THEN [held EXCEPT ![r.uid] = @ \cup {r.tok}] ELSE held

SetUidToken(w) ==
  LET r == request[w] IN
  /\ Due(w, "setUidToken")
  /\ uidToken' = [uidToken EXCEPT ![r.uid][r.flag] = r.tok]
  /\ held' = IF Len(r.todo) = 1 THEN HandOut(r) ELSE held
  /\ Done(w)
  /\ UNCHANGED <<database, token, device, im, spent>>

\* UpdateIMToken: the IM server refuses a banned user; only a registration
\* does not look at its answer.
IMToken(w) ==
  LET r == request[w] IN
  /\ Due(w, "imToken")
  /\ IF im[r.uid].ban
     THEN IF r.op \in Ways
          THEN /\ Done(w)
               /\ UNCHANGED <<database, cache, device, im, held, spent>>
          ELSE Refuse(w)
     ELSE /\ im' = [im EXCEPT ![r.uid].tok[r.flag] = r.tok]
          /\ held' = IF Len(r.todo) = 1 THEN HandOut(r) ELSE held
          /\ Done(w)
          /\ UNCHANGED <<database, cache, device, spent>>

-----------------------------------------------------------------------------
(***************************************************************************)
(* What becomes of an account                                              *)
(***************************************************************************)
\* A request carries a token that the cache knows.
LoggedIn(u) == \E t \in Tokens : token[t].uid = u

\* destroyAccount: the row, then the identities, then the devices.
DestroyAccount(w, u) ==
  /\ LoggedIn(u)
  /\ Live(u)
  /\ Start(w, Of("destroy", u, "app", Nobody),
           <<"destroyRow", "freeIdentities", "quit">>)

DestroyRow(w) ==
  /\ Due(w, "destroyRow")
  /\ account' = [account EXCEPT ![request[w].uid].state = "destroyed"]
  /\ Done(w)
  /\ UNCHANGED <<friend, identity, cache, device, im, held, spent>>

FreeIdentities(w) ==
  /\ Due(w, "freeIdentities")
  /\ identity' = IF identity = request[w].uid THEN Nobody ELSE identity
  /\ Done(w)
  /\ UNCHANGED <<account, friend, cache, device, im, held, spent>>

\* Fault: the devices are put out before the ban stands.
QuitBeforeBan(w, u, on) ==
  /\ Found(u)
  /\ account[u].disabled # on
  /\ Start(w, [Of("liftBan", u, "app", Nobody) EXCEPT !.on = on],
           <<"status", "quit", "ban">>)

\* liftBanUser does nothing when the row has the status already.
LiftBanUser(w, u, on) ==
  /\ Found(u)
  /\ account[u].disabled # on
  /\ Start(w, [Of("liftBan", u, "app", Nobody) EXCEPT !.on = on],
           <<"status", "ban", "quit">>)

SetStatus(w) ==
  LET r == request[w] IN
  /\ Due(w, "status")
  /\ account' = [account EXCEPT ![r.uid].disabled = r.on]
  /\ Done(w)
  /\ UNCHANGED <<friend, identity, cache, device, im, held, spent>>

SetBan(w) ==
  LET r == request[w] IN
  /\ Due(w, "ban")
  /\ im' = [im EXCEPT ![r.uid].ban = r.on]
  /\ Done(w)
  /\ UNCHANGED <<database, cache, device, held, spent>>

\* QuitUserDevice(uid, -1).
QuitDevices(w) ==
  /\ Due(w, "quit")
  /\ im' = [im EXCEPT ![request[w].uid].tok = [f \in Flags |-> 0]]
  /\ Done(w)
  /\ UNCHANGED <<database, cache, device, held, spent>>

\* deleteAdminUsers: the row, then the last recorded token of the browser.
DeleteAdminUsers(w, u) ==
  /\ Found(u)
  /\ account[u].way = "admin"
  /\ Start(w, Of("deleteAdmin", u, "web", Nobody),
           <<"destroyRow", "oldToken", "forgetToken">>)

\* updatePwd of api_manager.go, which is open to administrators only.
AdminUpdatePwd(w, u) ==
  /\ LoggedIn(u)
  /\ account[u].way = "admin"
  /\ Start(w, Of("adminPwd", u, "web", Nobody), <<"oldToken", "forgetToken">>)

ForgetToken(w) ==
  LET r == request[w] IN
  /\ Due(w, "forgetToken")
  /\ token' = IF r.old # 0 THEN [token EXCEPT ![r.old] = NoToken] ELSE token
  /\ Done(w)
  /\ UNCHANGED <<database, uidToken, device, im, held, spent>>

\* userUpdateWithField, the name: the token the request came with is written
\* again, without an expiry.
UpdateName(w, u, t) ==
  /\ token[t].uid = u
  /\ Start(w, [Of("rename", u, "app", Nobody) EXCEPT !.tok = t],
           <<"renameToken">>)

RenameToken(w) ==
  LET r == request[w] IN
  /\ Due(w, "renameToken")
  /\ token' = [token EXCEPT ![r.tok] = [uid |-> r.uid, life |-> "for ever"]]
  /\ Done(w)
  /\ UNCHANGED <<database, uidToken, device, im, held, spent>>

\* quit, pcQuit: only the sessions of the browsers at the IM server end.
Quit(u) ==
  /\ LoggedIn(u)
  /\ im' = [im EXCEPT ![u].tok["web"] = 0]
  /\ AtOnce
  /\ UNCHANGED <<database, cache, device, held>>

Quiet == \A w \in Requests : ~Active(w)

\* userUpdateSetting, device_lock, which only the start of a login reads: not
\* counted against the bound, and only between requests.
SetDeviceLock(u, on) ==
  /\ LoggedIn(u)
  /\ Quiet
  /\ account' = [account EXCEPT ![u].lock = on]
  /\ UNCHANGED <<friend, identity, cache, device, im, held, request, spent>>

DeviceDelete(u, d) ==
  /\ LoggedIn(u)
  /\ device' = [device EXCEPT ![u].known = @ \ {d}]
  /\ AtOnce
  /\ UNCHANGED <<database, cache, im, held>>

\* The entries of the cache expire in the course of days: a token together
\* with its record, which was written after it.
Expire(t) ==
  /\ Quiet
  /\ token' = [token EXCEPT ![t] = IF @.life = "expires" THEN NoToken ELSE @]
  /\ uidToken' = [u \in Users |-> [f \in Flags |->
                    IF uidToken[u][f] = t THEN 0 ELSE uidToken[u][f]]]
  /\ UNCHANGED <<database, device, im, held, request, spent>>

\* Only the start of loginCheckPhone reads it.
ExpirePending(u) ==
  /\ Quiet
  /\ device' = [device EXCEPT ![u].pending = Nobody]
  /\ UNCHANGED <<database, cache, im, held, request, spent>>

-----------------------------------------------------------------------------
\* Any registration may come without a device; that by phone stands for all.
Registration(w, u) ==
  \/ AddUser(w, u) \/ AddAdminUser(w, u)
  \/ GithubRegister(w, u) \/ GiteeRegister(w, u)
  \/ \E f \in Flags : RegisterPhone(w, u, f, Nobody)
  \/ \E f \in Flags, d \in Devices :
       \/ RegisterPhone(w, u, f, d)
       \/ UsernameRegister(w, u, f, d)
       \/ WxRegister(w, u, f, d)

LoginOf(w, u) ==
  \/ GithubLogin(w, u) \/ GiteeLogin(w, u)
  \/ LoginCheckPhone(w, u) \/ AdminLogin(w, u)
  \/ \E f \in Flags : \/ LoginWithAuthCode(w, u, f)
                      \/ \E d \in Devices : \/ Login(w, u, f, d)
                                            \/ UsernameLogin(w, u, f, d)
                                            \/ WxLogin(w, u, f, d)

Administration(w, u) ==
  \/ DestroyAccount(w, u) \/ DeleteAdminUsers(w, u) \/ AdminUpdatePwd(w, u)
  \/ \E on \in BOOLEAN : LiftBanUser(w, u, on)
  \/ \E t \in Tokens : UpdateName(w, u, t)

Step(w) ==
  \/ \E who \in {"system", "helper"} : Befriend(w, who)
  \/ Insert(w) \/ FreeIdentity(w) \/ CheckEmail(w) \/ PendDevice(w)
  \/ KnowDevice(w) \/ OldToken(w) \/ DropOldToken(w) \/ SetToken(w)
  \/ SetUidToken(w) \/ IMToken(w) \/ DestroyRow(w) \/ FreeIdentities(w)
  \/ SetStatus(w) \/ SetBan(w) \/ QuitDevices(w) \/ ForgetToken(w)
  \/ RenameToken(w)

AccountsNext ==
  \/ \E w \in Requests :
       \/ \E u \in Users : Registration(w, u) \/ LoginOf(w, u) \/ Administration(w, u)
       \/ \E d \in Devices : GoogleLogin(w, d)
       \/ Step(w)
       \/ Fail(w)
  \/ \E u \in Users :
       \/ Quit(u)
       \/ ExpirePending(u)
       \/ \E on \in BOOLEAN : SetDeviceLock(u, on)
       \/ \E d \in Devices : DeviceDelete(u, d)
  \/ \E t \in Tokens : Expire(t)

AccountsSpec == AccountsInit /\ [][AccountsNext]_accountVars

-----------------------------------------------------------------------------
(***************************************************************************)
(* Properties                                                              *)
(***************************************************************************)
\* Rows, tokens and requests have the fields of the tables and the cache.
AccountsTypeOK ==
  /\ account \in [Users -> [state : {"none", "live", "destroyed"},
                            way : Ways \cup {"none"}, disabled : BOOLEAN,
                            lock : BOOLEAN]]
  /\ friend \in [Users -> SUBSET {"system", "helper"}]
  /\ identity \in Users \cup {Nobody}
  /\ token \in [Tokens -> [uid : Users \cup {Nobody},
                           life : {"no", "expires", "for ever"}]]
  /\ uidToken \in [Users -> [Flags -> 0..MaxRequests]]
  /\ device \in [Users -> [known : SUBSET Devices,
                           pending : Devices \cup {Nobody}]]
  /\ im \in [Users -> [ban : BOOLEAN, tok : [Flags -> 0..MaxRequests]]]
  /\ held \in [Users -> SUBSET Tokens]
  /\ \A w \in Requests :
       LET r == request[w] IN
       /\ r.uid \in Users \cup {Nobody} /\ r.flag \in Flags
       /\ r.device \in Devices \cup {Nobody} /\ r.tok \in 0..MaxRequests
       /\ r.old \in 0..MaxRequests /\ r.on \in BOOLEAN
       /\ (r.todo = <<>>) = ~Active(w)
  /\ spent \in [requests : 0..MaxRequests, overlaps : 0..MaxOverlaps,
                faults : 0..MaxFaults]

\* A login of the app takes the token of the login before it out of the cache
\* (api.go:1095-1103): of the tokens that logins gave the app of one user at
\* most the recorded one opens the API, if no requests overlap.  A token that a
\* change of the name made permanent is left out: it outlives its record.
AppTokensRevoked ==
  spent.overlaps = 0 =>
    \A u \in Users, t \in Tokens :
      t \in held[u] /\ token[t].life = "expires" => t = uidToken[u]["app"]

\* One Google account is never two accounts here, through destroyed accounts,
\* failures and two requests that overlap: the identity is unique, and the email
\* of a live account refuses a registration when the identity was released.
\* Three can do it: one is past the look at the email when the second commits
\* its account, and the third then releases the new identity
\* (api_google.go:121) before the first inserts its own.
OneAccountPerPerson ==
  spent.overlaps <= 1 =>
    Cardinality({u \in Users : Live(u) /\ account[u].way = "google"}) <= 1

\* The ban of a user stands at the IM server before its devices are put out
\* (api_manager.go:864-874), so no login that runs at the same time leaves a
\* banned user with a token to connect with.
BannedIsOff ==
  spent.faults = 0 =>
    \A u \in Users :
      im[u].ban /\ ~(\E w \in Requests : request[w].op = "liftBan"
                                        /\ request[w].uid = u)
        => im[u].tok = [f \in Flags |-> 0]
=============================================================================
