-------------------------------- MODULE Account --------------------------------
(***************************************************************************)
(* One browser and the account it is signed in to: the two cookies its     *)
(* tabs share, the redirects of proxy.ts and /api/auth/expired, signing in *)
(* and out, enrolling passkeys and the notification switch, while the same *)
(* accounts sign out elsewhere, digests are pushed and the demo account is *)
(* reset.  A tab does one thing at a time; a second tab stands for what    *)
(* its user does meanwhile.                                                *)
(***************************************************************************)
EXTENDS Naturals

CONSTANTS
  Tabs, Users, None,
  Demo,           \* the accounts the hourly reset wipes
  MaxRotations,   \* bound: rotations of one account's jti
  MaxChallenges,  \* bound: passkey challenges issued
  MaxEndpoints    \* bound: push subscriptions the browser creates

ASSUME AccountAssumption ==
  /\ None \notin Users /\ None \notin [user: Users, jti: 0..MaxRotations]
  /\ Demo \subseteq Users
  /\ MaxRotations \in Nat /\ MaxChallenges \in Nat /\ MaxEndpoints \in Nat

VARIABLES
  jti,        \* users.jti, counted
  cookie,     \* the session cookie: a token, or None
  email,      \* the account_email cookie
  tab,        \* what each tab shows, where it is going and what it waits for
  challenge,  \* Rails.cache: the enrolment challenge stored under each user's key
  issued,     \* challenges issued so far
  enrolled,   \* passkeys: the account the authenticator made it for, and its owner's row
  sub,        \* the browser's push subscription (its endpoint), 0 for none
  made,       \* endpoints handed out so far
  rows,       \* push_subscriptions: the owner of each endpoint's row
  acked,      \* history: endpoints whose enabling a tab was told has worked, and which no
              \* reset has wiped since
  hops        \* history: redirects in a row of each tab, since its address was asked for or
              \* anything else changed the account
account == <<jti, cookie, email>>
passkey == <<challenge, issued, enrolled>>
push    == <<sub, made, rows, acked>>
vars    == <<account, tab, passkey, push, hops>>

PUBLIC_PATHS == {"/", "/sign-in"}
OPEN_PATHS   == {"/about"}
Protected    == {"/dashboard", "/settings"}
Paths        == PUBLIC_PATHS \cup OPEN_PATHS \cup Protected

Token == [user: Users, jti: 0..MaxRotations]
Live(token) == token # None /\ token.jti = jti[token.user]

Idle  == [step |-> "idle"]
Steps == {Idle, [step |-> "signed out"]}
           \cup [step: {"signed in"}, token: Token, email: Users \cup {None}]
           \cup [step: {"creating"}, user: Users, challenge: 1..MaxChallenges]
           \cup [step: {"subscribed", "unsubscribed"}, endpoint: 1..MaxEndpoints]
Tab   == [at: Paths, going: Paths \cup {"/api/auth/expired", None}, doing: Steps]

Init == /\ jti = [u \in Users |-> 0]
        /\ cookie = None /\ email = None
        /\ tab = [t \in Tabs |-> [at |-> "/", going |-> None, doing |-> Idle]]
        /\ challenge = [u \in Users |-> 0] /\ issued = 0 /\ enrolled = {}
        /\ sub = 0 /\ made = 0 /\ rows = [e \in 1..MaxEndpoints |-> None] /\ acked = {}
        /\ hops = [t \in Tabs |-> 0]

Free(t)       == tab[t].going = None /\ tab[t].doing = Idle
On(t, page)   == Free(t) /\ tab[t].at = page
Doing(t, s)   == tab[t].going = None /\ tab[t].doing.step = s
Wait(t, doing) == tab' = [tab EXCEPT ![t].doing = doing]
Go(t, path)   == tab' = [tab EXCEPT ![t].going = path, ![t].doing = Idle]

-------------------------------------------------------------------------------
\* Requests for pages.

\* A link, an address or a reload.
Navigate(t, path) ==
  /\ Free(t)
  /\ Go(t, path)
  /\ UNCHANGED <<account, passkey, push>>

Arrive(t, path) == tab' = [tab EXCEPT ![t].at = path, ![t].going = None]

\* proxy: the guard looks at the presence of the cookie only; the page's own call of
\* the API finds out whether it is alive (or the API is down and the page says so).
proxy(t, path) ==
  /\ tab[t].going = path
  /\ CASE path \in OPEN_PATHS                      -> Arrive(t, path)
       [] path \in Protected /\ cookie = None      -> Go(t, "/sign-in")
       [] path \in PUBLIC_PATHS /\ cookie # None   -> Go(t, "/dashboard")
       [] path \in PUBLIC_PATHS /\ cookie = None   -> Arrive(t, path)
       [] path \in Protected /\ cookie # None      ->
            \/ Arrive(t, path)
            \/ ~Live(cookie) /\ Go(t, "/api/auth/expired")
  /\ UNCHANGED <<account, passkey, push>>

\* Mutant: the landing spot of a 401 leaves the cookies alone.
Cleared_Kept == UNCHANGED <<cookie, email>>

Cleared == cookie' = None /\ email' = None

\* GET /api/auth/expired
Expired(t) ==
  /\ tab[t].going = "/api/auth/expired"
  /\ Cleared
  /\ Go(t, "/sign-in")
  /\ UNCHANGED <<jti, passkey, push>>

\* The cookies' day is over.
MaxAge ==
  /\ cookie # None
  /\ Cleared
  /\ UNCHANGED <<jti, tab, passkey, push>>

-------------------------------------------------------------------------------
\* Signing in and out.

\* Rails issues a token over the current jti, and the body names the email or not; or the
\* attempt fails: wrong password, rate limit, no token, API or network down.
SignInAnswers(u) ==
  {Idle} \cup { [step |-> "signed in", token |-> [user |-> u, jti |-> jti[u]], email |-> e]
                : e \in {u, None} }

\* A passkey signs in the owner of its row.
PasskeyAnswers(c) == SignInAnswers(c.owner)

\* The form or the demo button.
doSignIn(t, u) ==
  /\ On(t, "/sign-in")
  /\ \E answer \in SignInAnswers(u) : Wait(t, answer)
  /\ UNCHANGED <<account, passkey, push>>

\* The ceremony: the browser's picker offers the passkeys it has, or is cancelled.
onPasskeySignIn(t) ==
  /\ On(t, "/sign-in")
  /\ \E c \in enrolled : \E answer \in PasskeyAnswers(c) : Wait(t, answer)
  /\ UNCHANGED <<account, passkey, push>>

\* Mutant: an answer without an email leaves the label of the account before.
Label_Kept(e) == IF e = None THEN email ELSE e

Label(e) == e

\* setSessionCookies, and the form goes on to the dashboard.
setSessionCookies(t) ==
  /\ Doing(t, "signed in")
  /\ cookie' = tab[t].doing.token
  /\ email'  = Label(tab[t].doing.email)
  /\ Go(t, "/dashboard")
  /\ UNCHANGED <<jti, passkey, push>>

Rotation(u) == jti[u] < MaxRotations /\ jti' = [jti EXCEPT ![u] = @ + 1]

\* DELETE: Rails rotates the jti of a live token's account, best effort; or the call never
\* reaches the web server, which the button ignores.
SignOut(t) ==
  /\ Free(t) /\ tab[t].at \in Protected
  /\ \/ Live(cookie) /\ Rotation(cookie.user) /\ Wait(t, [step |-> "signed out"])
     \/ UNCHANGED jti /\ Wait(t, [step |-> "signed out"])
     \/ UNCHANGED jti /\ Go(t, "/")
  /\ UNCHANGED <<cookie, email, passkey, push>>

SignedOut(t) ==
  /\ Doing(t, "signed out")
  /\ Cleared
  /\ Go(t, "/")
  /\ UNCHANGED <<jti, passkey, push>>

-------------------------------------------------------------------------------
\* Server actions of /settings: they act for whoever the cookie now names, and a dead or
\* missing token sends the tab to /api/auth/expired.
Refused(t) == ~Live(cookie) /\ Go(t, "/api/auth/expired")

\* Mutant: one key for every account.
registration_key_Shared(u) == CHOOSE v \in Users : TRUE

registration_key(u) == u

\* onAdd: the options, and with them a challenge that replaces the account's last one.
passkeyOptions(t) ==
  /\ On(t, "/settings")
  /\ \/ Refused(t) /\ UNCHANGED passkey
     \/ /\ Live(cookie) /\ issued < MaxChallenges
        /\ issued' = issued + 1
        /\ challenge' = [challenge EXCEPT ![registration_key(cookie.user)] = issued']
        /\ Wait(t, [step |-> "creating", user |-> cookie.user, challenge |-> issued'])
        /\ UNCHANGED enrolled
  /\ UNCHANGED <<account, push>>

\* The authenticator has made a passkey for the account of the options: register it.  The
\* challenge is taken whatever comes of it; the row may still be refused (the ceiling).
registerPasskey(t) ==
  /\ Doing(t, "creating")
  /\ \/ Refused(t) /\ UNCHANGED passkey
     \/ /\ Live(cookie)
        /\ LET key == registration_key(cookie.user)
               new == [for |-> tab[t].doing.user, owner |-> cookie.user]
           IN  /\ challenge' = [challenge EXCEPT ![key] = 0]
               /\ \/ enrolled' = enrolled
                  \/ challenge[key] = tab[t].doing.challenge /\ enrolled' = enrolled \cup {new}
        /\ Wait(t, Idle)
        /\ UNCHANGED issued
  /\ UNCHANGED <<account, push>>

\* The picker is cancelled, or the challenge's five minutes pass first.
cancelPasskey(t) ==
  /\ Doing(t, "creating")
  /\ Wait(t, Idle)
  /\ UNCHANGED <<account, passkey, push>>

\* onRemove: any passkey of the account.
deletePasskey(t) ==
  /\ On(t, "/settings")
  /\ \/ Refused(t) /\ UNCHANGED enrolled
     \/ /\ Live(cookie)
        /\ \E c \in enrolled : c.owner = cookie.user /\ enrolled' = enrolled \ {c}
        /\ UNCHANGED tab
  /\ UNCHANGED <<account, challenge, issued, push>>

\* onEnable: permission, the server's key, and the browser's subscription, which it has
\* already or makes now.
onEnable(t) ==
  /\ On(t, "/settings")
  /\ \/ Refused(t) /\ UNCHANGED <<sub, made>>
     \/ /\ Live(cookie)
        /\ IF sub # 0 THEN UNCHANGED <<sub, made>>
           ELSE made < MaxEndpoints /\ made' = made + 1 /\ sub' = made'
        /\ Wait(t, [step |-> "subscribed", endpoint |-> sub'])
  /\ UNCHANGED <<account, passkey, rows, acked>>

\* The row: an upsert on the endpoint that gives it to the session's account.  Refused or
\* unanswered, the browser is unsubscribed again; a dead session throws past that.
subscribePush(t) ==
  /\ Doing(t, "subscribed")
  /\ LET e     == tab[t].doing.endpoint
         saved == [rows EXCEPT ![e] = cookie.user]
     IN  \/ Refused(t) /\ UNCHANGED <<sub, rows, acked>>
         \/ /\ Live(cookie) /\ Wait(t, Idle)
            /\ \/ rows' = saved /\ acked' = acked \cup {e} /\ UNCHANGED sub
               \/ /\ rows' \in {rows, saved}
                  /\ sub'  = IF sub = e THEN 0 ELSE sub
                  /\ UNCHANGED acked
  /\ UNCHANGED <<account, passkey, made>>

\* Mutant: the row first, then the browser.
onDisable_RowFirst(t) ==
  /\ On(t, "/settings") /\ sub # 0
  /\ rows' = [rows EXCEPT ![sub] = None]
  /\ Wait(t, [step |-> "unsubscribed", endpoint |-> sub])
  /\ UNCHANGED <<account, passkey, sub, made, acked>>

\* onDisable: the browser first ...
onDisable(t) ==
  /\ On(t, "/settings") /\ sub # 0
  /\ sub' = 0
  /\ Wait(t, [step |-> "unsubscribed", endpoint |-> sub])
  /\ UNCHANGED <<account, passkey, made, rows, acked>>

\* ... then the account's own row of that endpoint, if the call gets through.
unsubscribePush(t) ==
  /\ Doing(t, "unsubscribed")
  /\ LET e == tab[t].doing.endpoint
     IN  \/ Refused(t) /\ UNCHANGED rows
         \/ /\ Wait(t, Idle)
            /\ \/ UNCHANGED rows
               \/ Live(cookie) /\ rows[e] = cookie.user /\ rows' = [rows EXCEPT ![e] = None]
  /\ UNCHANGED <<account, passkey, sub, made, acked>>

-------------------------------------------------------------------------------
\* Elsewhere.

\* The account signs out of another browser.
Elsewhere(u) ==
  /\ Rotation(u)
  /\ UNCHANGED <<cookie, email, tab, passkey, push>>

\* Push::Notifier: endpoints the browser has revoked are pruned as they are met.
Digest(u) ==
  /\ rows' = [e \in DOMAIN rows |-> IF rows[e] = u /\ e # sub THEN None ELSE rows[e]]
  /\ UNCHANGED <<account, tab, passkey, sub, made, acked>>

\* The user withdraws the permission, or clears the browser's data for the site.
Revoke ==
  /\ sub # 0 /\ sub' = 0
  /\ UNCHANGED <<account, tab, passkey, made, rows, acked>>

\* Demo::ResetService
Reset(u) ==
  /\ Rotation(u)
  /\ enrolled' = { c \in enrolled : c.owner # u }
  /\ rows'     = [e \in DOMAIN rows |-> IF rows[e] = u THEN None ELSE rows[e]]
  /\ acked'    = { e \in acked : rows[e] # u }
  /\ UNCHANGED <<cookie, email, tab, challenge, issued, sub, made>>

Step ==
  \/ \E t \in Tabs :
       \/ Expired(t)
       \/ \E path \in Paths : proxy(t, path)
       \/ \E path \in Paths : Navigate(t, path)
       \/ \E u \in Users : doSignIn(t, u)
       \/ onPasskeySignIn(t) \/ setSessionCookies(t) \/ SignOut(t) \/ SignedOut(t)
       \/ passkeyOptions(t) \/ registerPasskey(t) \/ cancelPasskey(t) \/ deletePasskey(t)
       \/ onEnable(t) \/ subscribePush(t) \/ onDisable(t) \/ unsubscribePush(t)
  \/ \E u \in Users : Elsewhere(u) \/ Digest(u)
  \/ \E u \in Demo : Reset(u)
  \/ MaxAge \/ Revoke

Redirected(t) == tab[t].going # None /\ tab'[t].going \notin {None, tab[t].going}

Next ==
  /\ Step
  /\ hops' = [t \in Tabs |-> CASE Redirected(t)                                -> hops[t] + 1
                               [] ~Redirected(t) /\ tab'[t].going = tab[t].going
                                    /\ account' = account                      -> hops[t]
                               [] OTHER                                        -> 0]

Spec == Init /\ [][Next]_vars

-------------------------------------------------------------------------------
\* Everything keeps its type, and nothing speaks of a challenge or an endpoint not yet made.
TypeOK ==
  /\ jti    \in [Users -> 0..MaxRotations]
  /\ cookie \in Token \cup {None}
  /\ email  \in Users \cup {None}
  /\ tab    \in [Tabs -> Tab]
  /\ challenge \in [Users -> 0..issued] /\ issued \in 0..MaxChallenges
  /\ enrolled  \subseteq [for: Users, owner: Users]
  /\ sub \in 0..made /\ made \in 0..MaxEndpoints
  /\ rows  \in [1..MaxEndpoints -> Users \cup {None}] /\ \A e \in DOMAIN rows : rows[e] # None => e <= made
  /\ acked \subseteq 1..made

\* The account chip never names another account than the one the session acts for, over
\* sign-ins, sign-outs and expiries of several tabs (session-cookie.ts:24-25).
LabelsNameTheSession == email # None => cookie # None /\ cookie.user = email

\* A passkey is only ever attached to the account it was made for, although another tab
\* may have changed the session between the options and the registration.
PasskeysEnrollTheirAccount == \A c \in enrolled : c.for = c.owner

\* A subscription whose enabling has succeeded keeps its row for as long as the browser
\* keeps it, whatever tabs and accounts enable, disable and fail meanwhile: a browser never
\* goes on waiting for pushes nobody sends (push-manager.tsx:93-98), unless the demo account
\* it was for has been reset.
AckedDevicesHaveRows == sub \in acked => rows[sub] # None

\* No request for a page goes round: the guard sees only that there is a cookie, the API
\* that it is dead, and three redirects from any address, whatever state of the account they
\* meet, end at a page (proxy.ts:88-102, expired/route.ts).
RedirectsEnd == \A t \in Tabs : hops[t] <= 3
===============================================================================
