----------------------------- MODULE AccountProofs -----------------------------
(***************************************************************************)
(* For any tabs, accounts, rotations, challenges and endpoints: the types, *)
(* whom the account chip names, whose passkeys are enrolled, which enabled *)
(* devices keep their row, and how many redirects a request can meet.      *)
(***************************************************************************)
EXTENDS Account, Integers, TLAPS

-------------------------------------------------------------------------------
\* What a tab waits for and how it moves.

\* The kinds of waiting and what each carries.
LEMMA StepKinds ==
  ASSUME NEW d \in Steps
  PROVE  /\ d.step \in {"idle", "signed out", "signed in", "creating", "subscribed", "unsubscribed"}
         /\ d.step = "signed in" => d.token \in Token /\ d.email \in Users \cup {None}
         /\ d.step = "creating" => d.user \in Users /\ d.challenge \in 1..MaxChallenges
         /\ d.step \in {"subscribed", "unsubscribed"} => d.endpoint \in 1..MaxEndpoints
<1>1. CASE d = [step |-> "idle"]
  <2>1. d.step = "idle"
    BY <1>1
  <2> QED BY <2>1
<1>5. CASE d = [step |-> "signed out"]
  <2>1. d.step = "signed out"
    BY <1>5
  <2> QED BY <2>1
<1>2. CASE d \in [step: {"signed in"}, token: Token, email: Users \cup {None}]
  BY <1>2
<1>3. CASE d \in [step: {"creating"}, user: Users, challenge: 1..MaxChallenges]
  BY <1>3
<1>4. CASE d \in [step: {"subscribed", "unsubscribed"}, endpoint: 1..MaxEndpoints]
  BY <1>4
<1> QED BY <1>1, <1>2, <1>3, <1>4, <1>5 DEF Steps, Idle

\* A tab that is idle waits for nothing.
LEMMA IdleWaitsForNothing == Idle \in Steps /\ Idle.step = "idle"
BY DEF Idle, Steps

\* The addresses the redirects name.
LEMMA KnownPaths ==
  {"/", "/sign-in", "/about", "/dashboard", "/settings"} = Paths /\ "/api/auth/expired" \notin Paths
BY DEF Paths, PUBLIC_PATHS, OPEN_PATHS, Protected

\* No tab waits with a challenge that was not issued or an endpoint that was not made.
Timely(d, i, m) == /\ d.step = "creating" => d.challenge <= i
                   /\ d.step \in {"subscribed", "unsubscribed"} => d.endpoint <= m
Typed == TypeOK /\ \A t \in Tabs : Timely(tab[t].doing, issued, made)

\* The same of the tabs alone.
TabsTyped == tab \in [Tabs -> Tab] /\ \A t \in Tabs : Timely(tab[t].doing, issued, made)

\* What is issued or made stays so.
LEMMA TimelyGrows ==
  ASSUME NEW d \in Steps, NEW i \in Nat, NEW m \in Nat, NEW j \in Nat, NEW n \in Nat,
         i <= j, m <= n, Timely(d, i, m)
  PROVE  Timely(d, j, n)
<1>1. /\ d.step = "creating" => d.challenge \in 1..MaxChallenges
      /\ d.step \in {"subscribed", "unsubscribed"} => d.endpoint \in 1..MaxEndpoints
  BY StepKinds
<1>2. ASSUME d.step = "creating" PROVE d.challenge <= j
  <2>1. d.challenge \in Int /\ d.challenge <= i
    BY <1>1, <1>2, AccountAssumption DEF Timely
  <2> QED BY <2>1
<1>3. ASSUME d.step \in {"subscribed", "unsubscribed"} PROVE d.endpoint <= n
  <2>1. d.endpoint \in Int /\ d.endpoint <= m
    BY <1>1, <1>3, AccountAssumption DEF Timely
  <2> QED BY <2>1
<1> QED BY <1>2, <1>3 DEF Timely

\* A token over the current jti names one of the accounts.
LEMMA LiveTokens ==
  ASSUME Typed, Live(cookie)
  PROVE  cookie \in Token /\ cookie.user \in Users /\ cookie.user # None
BY AccountAssumption DEF Typed, TypeOK, Live, Token

\* Going anywhere, and being refused, is typed.
LEMMA GoTyped ==
  ASSUME Typed, NEW t \in Tabs, NEW p \in Paths \cup {"/api/auth/expired"},
         tab' = [tab EXCEPT ![t].going = p, ![t].doing = Idle],
         issued' = issued, made' = made
  PROVE  TabsTyped'
<1>1. tab \in [Tabs -> Tab] /\ \A x \in Tabs : Timely(tab[x].doing, issued, made)
  BY DEF Typed, TypeOK
<1>2. /\ tab' \in [Tabs -> Tab] /\ tab'[t].doing = Idle
      /\ \A x \in Tabs : x # t => tab'[x] = tab[x]
  <2>1. /\ tab[t] \in Tab /\ Idle \in Steps
        /\ [tab[t] EXCEPT !.going = p, !.doing = Idle] \in Tab
    BY <1>1 DEF Tab, Steps
  <2> QED BY <1>1, <2>1 DEF Tab
<1> QED BY <1>1, <1>2 DEF TabsTyped, Timely, Idle

\* So is waiting, for something that exists by then.
LEMMA WaitTyped ==
  ASSUME Typed, NEW t \in Tabs, NEW d \in Steps,
         tab' = [tab EXCEPT ![t].doing = d],
         issued' \in Nat, made' \in Nat, issued <= issued', made <= made', Timely(d, issued', made')
  PROVE  TabsTyped'
<1>1. tab \in [Tabs -> Tab] /\ \A x \in Tabs : Timely(tab[x].doing, issued, made)
  BY DEF Typed, TypeOK
<1>2. /\ tab' \in [Tabs -> Tab] /\ tab'[t].doing = d
      /\ \A x \in Tabs : x # t => tab'[x] = tab[x]
  BY <1>1 DEF Tab
<1>3. issued \in Nat /\ made \in Nat
  BY AccountAssumption DEF Typed, TypeOK
<1>4. ASSUME NEW x \in Tabs, x # t PROVE Timely(tab'[x].doing, issued', made')
  <2>1. tab[x].doing \in Steps /\ tab'[x].doing = tab[x].doing
    BY <1>1, <1>2, <1>4 DEF Tab
  <2>2. Timely(tab[x].doing, issued, made)
    BY <1>1
  <2>3. Timely(tab[x].doing, issued', made')
    BY <1>3, <2>1, <2>2, TimelyGrows
  <2> QED BY <2>1, <2>3
<1> QED BY <1>2, <1>4 DEF TabsTyped

-------------------------------------------------------------------------------
\* Types.

\* The parts of the type invariant that are not about tabs.
AccountTyped == /\ jti \in [Users -> 0..MaxRotations]
                /\ cookie \in Token \cup {None} /\ email \in Users \cup {None}
PasskeyTyped == /\ challenge \in [Users -> 0..issued] /\ issued \in 0..MaxChallenges
                /\ enrolled \subseteq [for: Users, owner: Users]
PushTyped    == /\ sub \in 0..made /\ made \in 0..MaxEndpoints
                /\ rows \in [1..MaxEndpoints -> Users \cup {None}]
                /\ \A e \in DOMAIN rows : rows[e] # None => e <= made
                /\ acked \subseteq 1..made

\* The parts make up the whole.
LEMMA TypedParts == Typed <=> AccountTyped /\ PasskeyTyped /\ PushTyped /\ TabsTyped
BY DEF Typed, TypeOK, AccountTyped, PasskeyTyped, PushTyped, TabsTyped

\* What an action leaves alone keeps its type.
LEMMA LeftAlone ==
  ASSUME Typed
  PROVE  /\ UNCHANGED account => AccountTyped'
         /\ UNCHANGED passkey => PasskeyTyped'
         /\ UNCHANGED push => PushTyped'
         /\ UNCHANGED <<tab, issued, made>> => TabsTyped'
         /\ issued \in Nat /\ made \in Nat /\ issued <= issued /\ made <= made
<1>1. AccountTyped /\ PasskeyTyped /\ PushTyped /\ TabsTyped
  BY TypedParts
<1>2. UNCHANGED account => AccountTyped'
  BY <1>1 DEF AccountTyped, account
<1>3. UNCHANGED passkey => PasskeyTyped'
  BY <1>1 DEF PasskeyTyped, passkey
<1>4. UNCHANGED push => PushTyped'
  BY <1>1 DEF PushTyped, push
<1>5. UNCHANGED <<tab, issued, made>> => TabsTyped'
  BY <1>1 DEF TabsTyped
<1>6. issued \in Nat /\ made \in Nat
  BY <1>1, AccountAssumption DEF PasskeyTyped, PushTyped
<1>7. issued <= issued /\ made <= made
  BY <1>6
<1> QED BY <1>2, <1>3, <1>4, <1>5, <1>6, <1>7

\* Waiting for something that needs neither a challenge nor an endpoint.
LEMMA PlainWaits ==
  ASSUME Typed, NEW t \in Tabs, NEW d \in Steps,
         tab' = [tab EXCEPT ![t].doing = d], issued' = issued, made' = made,
         d.step \in {"idle", "signed in", "signed out"}
  PROVE  TabsTyped'
<1>1. issued' \in Nat /\ made' \in Nat /\ issued <= issued' /\ made <= made'
  BY LeftAlone
<1>2. Timely(d, issued', made')
  BY DEF Timely
<1> QED BY <1>1, <1>2, WaitTyped

\* At the start.
LEMMA TypedInit == Init => Typed
<1> SUFFICES ASSUME Init PROVE Typed
  OBVIOUS
<1>1. AccountTyped
  BY AccountAssumption DEF Init, AccountTyped
<1>2. PasskeyTyped
  BY AccountAssumption DEF Init, PasskeyTyped
<1>3. PushTyped
  BY AccountAssumption DEF Init, PushTyped
<1>4. TabsTyped
  BY KnownPaths DEF Init, TabsTyped, Tab, Steps, Idle, Timely
<1> QED BY <1>1, <1>2, <1>3, <1>4, TypedParts

\* A step in signing in: an answer is something to wait for.
LEMMA Answers ==
  ASSUME Typed, NEW u \in Users, NEW a \in SignInAnswers(u)
  PROVE  /\ a \in Steps /\ a.step \in {"idle", "signed in"}
         /\ a.step = "signed in" => a.token.user = u /\ a.email \in {u, None}
<1>1. CASE a = Idle
  <2>1. a.step = "idle"
    BY <1>1 DEF Idle
  <2> QED BY <1>1, <2>1 DEF Steps
<1>2. CASE a # Idle
  <2>1. PICK e \in {u, None} :
           a = [step |-> "signed in", token |-> [user |-> u, jti |-> jti[u]], email |-> e]
    BY <1>2 DEF SignInAnswers
  <2>2. [user |-> u, jti |-> jti[u]] \in Token
    BY DEF Typed, TypeOK, Token
  <2>3. a \in [step: {"signed in"}, token: Token, email: Users \cup {None}]
    BY <2>1, <2>2
  <2> QED BY <2>1, <2>3 DEF Steps
<1> QED BY <1>1, <1>2

\* Every step keeps every part.
LEMMA TypedStep == Typed /\ Step => Typed'
<1> SUFFICES ASSUME Typed, Step
             PROVE  AccountTyped' /\ PasskeyTyped' /\ PushTyped' /\ TabsTyped'
  BY DEF Typed, TypeOK, AccountTyped, PasskeyTyped, PushTyped, TabsTyped
<1> DEFINE Parts == AccountTyped /\ PasskeyTyped /\ PushTyped /\ TabsTyped
<1>1. /\ AccountTyped /\ PasskeyTyped /\ PushTyped /\ TabsTyped
      /\ issued \in Nat /\ made \in Nat
      /\ tab \in [Tabs -> Tab] /\ \A x \in Tabs : tab[x].doing \in Steps
  BY TypedParts, LeftAlone DEF TabsTyped, Tab
<1>2. Idle \in Steps /\ Idle.step = "idle"
      /\ [step |-> "signed out"] \in Steps /\ [step |-> "signed out"].step = "signed out"
  BY DEF Idle, Steps
<1>3. Cleared => cookie' = None /\ email' = None
  BY DEF Cleared
<1>4. \A u \in Users : Rotation(u) => jti' \in [Users -> 0..MaxRotations]
  BY <1>1, AccountAssumption DEF Rotation, AccountTyped
<1>5. \A t \in Tabs : Refused(t) => Go(t, "/api/auth/expired")
  BY DEF Refused
<1>6. Live(cookie) => cookie \in Token /\ cookie.user \in Users
  BY LiveTokens
<1>7. \A t \in Tabs : \A p \in Paths \cup {"/api/auth/expired"} :
        Go(t, p) /\ UNCHANGED <<issued, made>> => TabsTyped'
  BY GoTyped DEF Go
<1>8. \A t \in Tabs : \A p \in Paths : Arrive(t, p) /\ UNCHANGED <<issued, made>> => TabsTyped'
  <2> SUFFICES ASSUME NEW t \in Tabs, NEW p \in Paths, Arrive(t, p), UNCHANGED <<issued, made>>
               PROVE  TabsTyped'
    OBVIOUS
  <2>1. /\ tab' \in [Tabs -> Tab]
        /\ \A x \in Tabs : tab'[x].doing = tab[x].doing
    BY <1>1 DEF Arrive, Tab
  <2> QED BY <1>1, <2>1 DEF TabsTyped
<1>9. \A t \in Tabs : \A d \in Steps :
        Wait(t, d) /\ UNCHANGED <<issued, made>> /\ d.step \in {"idle", "signed in", "signed out"}
        => TabsTyped'
  BY PlainWaits DEF Wait
<1>10. ASSUME NEW t \in Tabs, Expired(t) PROVE Parts'
  BY <1>1, <1>3, <1>7, <1>10, KnownPaths, LeftAlone DEF Expired, passkey, push, AccountTyped
<1>11. ASSUME NEW t \in Tabs, NEW path \in Paths, proxy(t, path) PROVE Parts'
  <2>1. UNCHANGED <<account, passkey, push, issued, made>>
    BY <1>11 DEF proxy, passkey, push
  <2>2. \/ Arrive(t, path)
        \/ \E p \in Paths \cup {"/api/auth/expired"} : Go(t, p)
    <3>1. path \in OPEN_PATHS \/ path \in PUBLIC_PATHS \/ path \in Protected
      BY DEF Paths
    <3>2. CASE path \in OPEN_PATHS
      BY <1>11, <3>2 DEF proxy, OPEN_PATHS, PUBLIC_PATHS, Protected
    <3>3. CASE path \in PUBLIC_PATHS
      BY <1>11, <3>3, KnownPaths DEF proxy, OPEN_PATHS, PUBLIC_PATHS, Protected
    <3>4. CASE path \in Protected
      BY <1>11, <3>4, KnownPaths DEF proxy, OPEN_PATHS, PUBLIC_PATHS, Protected
    <3> QED BY <3>1, <3>2, <3>3, <3>4
  <2>3. TabsTyped'
    BY <1>7, <1>8, <2>1, <2>2
  <2> QED BY <2>1, <2>3, LeftAlone
<1>12. ASSUME NEW t \in Tabs, NEW path \in Paths, Navigate(t, path) PROVE Parts'
  BY <1>7, <1>12, LeftAlone DEF Navigate, passkey, push
<1>13. ASSUME NEW t \in Tabs, NEW u \in Users, doSignIn(t, u) PROVE Parts'
  <2>1. PICK a \in SignInAnswers(u) : Wait(t, a)
    BY <1>13 DEF doSignIn
  <2>2. a \in Steps /\ a.step \in {"idle", "signed in"}
    BY Answers
  <2> QED BY <1>9, <1>13, <2>1, <2>2, LeftAlone DEF doSignIn, passkey, push
<1>14. ASSUME NEW t \in Tabs, onPasskeySignIn(t) PROVE Parts'
  <2>1. PICK c \in enrolled : \E a \in SignInAnswers(c.owner) : Wait(t, a)
    BY <1>14 DEF onPasskeySignIn, PasskeyAnswers
  <2>2. PICK a \in SignInAnswers(c.owner) : Wait(t, a)
    BY <2>1
  <2>3. c.owner \in Users
    BY <1>1 DEF PasskeyTyped
  <2>4. a \in Steps /\ a.step \in {"idle", "signed in"}
    BY <2>3, Answers
  <2> QED BY <1>9, <1>14, <2>2, <2>4, LeftAlone DEF onPasskeySignIn, passkey, push
<1>15. ASSUME NEW t \in Tabs, setSessionCookies(t) PROVE Parts'
  <2>1. tab[t].doing.token \in Token /\ tab[t].doing.email \in Users \cup {None}
    BY <1>1, <1>15, StepKinds DEF setSessionCookies, Doing
  <2>2. AccountTyped'
    BY <1>1, <1>15, <2>1 DEF setSessionCookies, AccountTyped, Label
  <2> QED BY <1>7, <1>15, <2>2, KnownPaths, LeftAlone DEF setSessionCookies, passkey, push
<1>16. ASSUME NEW t \in Tabs, SignOut(t) PROVE Parts'
  <2>1. AccountTyped'
    BY <1>1, <1>4, <1>6, <1>16 DEF SignOut, AccountTyped
  <2>2. TabsTyped'
    BY <1>2, <1>7, <1>9, <1>16, KnownPaths DEF SignOut, passkey, push
  <2> QED BY <1>16, <2>1, <2>2, LeftAlone DEF SignOut
<1>17. ASSUME NEW t \in Tabs, SignedOut(t) PROVE Parts'
  BY <1>1, <1>3, <1>7, <1>17, KnownPaths, LeftAlone DEF SignedOut, passkey, push, AccountTyped
<1>18. ASSUME NEW t \in Tabs, passkeyOptions(t) PROVE Parts'
  <2>1. CASE Refused(t) /\ UNCHANGED passkey
    <3>1. Go(t, "/api/auth/expired") /\ UNCHANGED <<account, passkey, push, issued, made>>
      BY <1>5, <1>18, <2>1 DEF passkeyOptions, passkey, push
    <3> QED BY <1>7, <3>1, LeftAlone
  <2>2. CASE Live(cookie) /\ ~(Refused(t) /\ UNCHANGED passkey)
    <3> DEFINE d == [step |-> "creating", user |-> cookie.user, challenge |-> issued']
    <3>1. /\ issued < MaxChallenges /\ issued' = issued + 1 /\ made' = made
          /\ challenge' = [challenge EXCEPT ![cookie.user] = issued']
          /\ UNCHANGED <<enrolled, account, push>>
      BY <1>18, <2>2 DEF passkeyOptions, registration_key, push
    <3>8. tab' = [tab EXCEPT ![t].doing = d]
      BY <1>18, <2>2 DEF passkeyOptions, Wait
    <3>2. /\ issued' \in Nat /\ issued' \in 1..MaxChallenges /\ issued <= issued'
          /\ made' \in Nat /\ made <= made'
      BY <1>1, <3>1, AccountAssumption
    <3>3. d \in [step: {"creating"}, user: Users, challenge: 1..MaxChallenges]
      BY <1>6, <2>2, <3>2
    <3>4. d \in Steps
      BY <3>3 DEF Steps
    <3>5. Timely(d, issued', made')
      BY <3>2 DEF Timely
    <3> HIDE DEF d
    <3>6. TabsTyped'
      BY <3>2, <3>4, <3>5, <3>8, WaitTyped
    <3>7. PasskeyTyped'
      <4>1. \A u \in Users : challenge[u] \in 0..issued'
        BY <1>1, <3>2 DEF PasskeyTyped
      <4>2. issued' \in 0..issued' /\ issued' \in 0..MaxChallenges
        BY <3>2, AccountAssumption
      <4>3. challenge' \in [Users -> 0..issued']
        BY <1>1, <3>1, <4>1, <4>2 DEF PasskeyTyped
      <4> QED BY <1>1, <3>1, <4>2, <4>3 DEF PasskeyTyped
    <3> QED BY <3>1, <3>6, <3>7, LeftAlone
  <2> QED BY <1>18, <2>1, <2>2 DEF passkeyOptions
<1>19. ASSUME NEW t \in Tabs, registerPasskey(t) PROVE Parts'
  <2>1. CASE Refused(t) /\ UNCHANGED passkey
    <3>1. Go(t, "/api/auth/expired") /\ UNCHANGED <<account, passkey, push, issued, made>>
      BY <1>5, <1>19, <2>1 DEF registerPasskey, passkey, push
    <3> QED BY <1>7, <3>1, LeftAlone
  <2>2. CASE Live(cookie) /\ ~(Refused(t) /\ UNCHANGED passkey)
    <3>1. tab[t].doing.user \in Users
      BY <1>1, <1>19, StepKinds DEF registerPasskey, Doing
    <3> DEFINE new == [for |-> tab[t].doing.user, owner |-> cookie.user]
    <3>2. /\ challenge' = [challenge EXCEPT ![cookie.user] = 0]
          /\ enrolled' \in {enrolled, enrolled \cup {new}}
          /\ Wait(t, Idle) /\ UNCHANGED <<issued, made, account, push>>
      BY <1>19, <2>2 DEF registerPasskey, registration_key, push
    <3>3. new \in [for: Users, owner: Users]
      BY <1>6, <2>2, <3>1
    <3>4. PasskeyTyped'
      BY <1>1, <3>2, <3>3 DEF PasskeyTyped
    <3> QED BY <1>2, <1>9, <3>2, <3>4, LeftAlone
  <2> QED BY <1>19, <2>1, <2>2 DEF registerPasskey
<1>20. ASSUME NEW t \in Tabs, cancelPasskey(t) PROVE Parts'
  BY <1>2, <1>9, <1>20, LeftAlone DEF cancelPasskey, passkey, push
<1>21. ASSUME NEW t \in Tabs, deletePasskey(t) PROVE Parts'
  <2>1. enrolled' \subseteq enrolled /\ UNCHANGED <<challenge, issued, made, account, push>>
    BY <1>21 DEF deletePasskey, push
  <2>2. PasskeyTyped'
    BY <1>1, <2>1 DEF PasskeyTyped
  <2>3. TabsTyped'
    BY <1>5, <1>7, <1>21, <2>1, LeftAlone DEF deletePasskey
  <2> QED BY <2>1, <2>2, <2>3, LeftAlone
<1>22. ASSUME NEW t \in Tabs, onEnable(t) PROVE Parts'
  <2>1. CASE Refused(t) /\ UNCHANGED <<sub, made>>
    <3>1. Go(t, "/api/auth/expired") /\ UNCHANGED <<account, passkey, push, issued, made>>
      BY <1>5, <1>22, <2>1 DEF onEnable, passkey, push
    <3> QED BY <1>7, <3>1, LeftAlone
  <2>2. CASE ~(Refused(t) /\ UNCHANGED <<sub, made>>)
    <3> DEFINE d == [step |-> "subscribed", endpoint |-> sub']
    <3>1. /\ IF sub # 0 THEN UNCHANGED <<sub, made>>
             ELSE made < MaxEndpoints /\ made' = made + 1 /\ sub' = made'
          /\ UNCHANGED <<issued, account, passkey, rows, acked>>
      BY <1>22, <2>2 DEF onEnable, passkey
    <3>8. tab' = [tab EXCEPT ![t].doing = d]
      BY <1>22, <2>2 DEF onEnable, Wait
    <3>9. issued' \in Nat /\ issued <= issued'
      BY <1>1, <3>1
    <3>2. /\ made' \in 0..MaxEndpoints /\ made <= made' /\ made' \in Nat
          /\ sub' \in 1..MaxEndpoints /\ sub' <= made'
      BY <1>1, <3>1, AccountAssumption DEF PushTyped
    <3>3. d \in [step: {"subscribed", "unsubscribed"}, endpoint: 1..MaxEndpoints]
      BY <3>2
    <3>4. d \in Steps
      BY <3>3 DEF Steps
    <3>5. Timely(d, issued', made')
      BY <3>2 DEF Timely
    <3> HIDE DEF d
    <3>6. TabsTyped'
      BY <3>2, <3>4, <3>5, <3>8, <3>9, WaitTyped
    <3>7. PushTyped'
      BY <1>1, <3>1, <3>2, AccountAssumption DEF PushTyped
    <3> QED BY <3>1, <3>6, <3>7, LeftAlone
  <2> QED BY <2>1, <2>2
<1>23. ASSUME NEW t \in Tabs, subscribePush(t) PROVE Parts'
  <2>1. CASE Refused(t) /\ UNCHANGED <<sub, rows, acked>>
    <3>1. Go(t, "/api/auth/expired") /\ UNCHANGED <<account, passkey, push, issued, made>>
      BY <1>5, <1>23, <2>1 DEF subscribePush, passkey, push
    <3> QED BY <1>7, <3>1, LeftAlone
  <2>2. CASE ~(Refused(t) /\ UNCHANGED <<sub, rows, acked>>)
    <3> DEFINE e == tab[t].doing.endpoint
    <3>1. e \in 1..MaxEndpoints /\ e <= made
      BY <1>1, <1>23, StepKinds DEF subscribePush, Doing, TabsTyped, Timely
    <3>2. /\ Live(cookie) /\ Wait(t, Idle) /\ UNCHANGED <<account, passkey, issued, made>>
          /\ rows' \in {rows, [rows EXCEPT ![e] = cookie.user]}
          /\ acked' \in {acked, acked \cup {e}}
          /\ sub' \in {sub, 0}
      BY <1>23, <2>2 DEF subscribePush, passkey
    <3> HIDE DEF e
    <3>3. PushTyped'
      BY <1>1, <1>6, <3>1, <3>2, AccountAssumption DEF PushTyped
    <3> QED BY <1>2, <1>9, <3>2, <3>3, LeftAlone
  <2> QED BY <2>1, <2>2
<1>24. ASSUME NEW t \in Tabs, onDisable(t) PROVE Parts'
  <2> DEFINE d == [step |-> "unsubscribed", endpoint |-> sub]
  <2>1. /\ sub # 0 /\ sub' = 0 /\ tab' = [tab EXCEPT ![t].doing = d]
        /\ UNCHANGED <<account, passkey, issued, made, rows, acked>>
    BY <1>24 DEF onDisable, Wait, passkey
  <2>2. sub \in 1..MaxEndpoints /\ sub <= made
    BY <1>1, <2>1, AccountAssumption DEF PushTyped
  <2>3. d \in [step: {"subscribed", "unsubscribed"}, endpoint: 1..MaxEndpoints]
    BY <2>2
  <2>4. d \in Steps
    BY <2>3 DEF Steps
  <2>5. Timely(d, issued', made')
    BY <2>1, <2>2 DEF Timely
  <2> HIDE DEF d
  <2>6. issued' \in Nat /\ made' \in Nat /\ issued <= issued' /\ made <= made'
    BY <1>1, <2>1
  <2>7. TabsTyped'
    BY <2>1, <2>4, <2>5, <2>6, WaitTyped
  <2>8. PushTyped'
    BY <1>1, <2>1 DEF PushTyped
  <2> QED BY <2>1, <2>7, <2>8, LeftAlone
<1>25. ASSUME NEW t \in Tabs, unsubscribePush(t) PROVE Parts'
  <2> DEFINE e == tab[t].doing.endpoint
  <2>1. e \in 1..MaxEndpoints
    BY <1>1, <1>25, StepKinds DEF unsubscribePush, Doing
  <2>2. /\ rows' \in {rows, [rows EXCEPT ![e] = None]}
        /\ UNCHANGED <<account, passkey, issued, sub, made, acked>>
    BY <1>25 DEF unsubscribePush, passkey
  <2>3. TabsTyped'
    BY <1>2, <1>5, <1>7, <1>9, <1>25, <2>2 DEF unsubscribePush
  <2> HIDE DEF e
  <2>4. PushTyped'
    BY <1>1, <2>1, <2>2 DEF PushTyped
  <2> QED BY <2>2, <2>3, <2>4, LeftAlone
<1>26. ASSUME NEW u \in Users, Elsewhere(u) PROVE Parts'
  <2>1. AccountTyped'
    BY <1>1, <1>4, <1>26 DEF Elsewhere, AccountTyped
  <2> QED BY <1>26, <2>1, LeftAlone DEF Elsewhere, passkey, push
<1>27. ASSUME NEW u \in Users, Digest(u) PROVE Parts'
  <2>1. PushTyped'
    BY <1>1, <1>27 DEF Digest, PushTyped
  <2> QED BY <1>27, <2>1, LeftAlone DEF Digest, passkey
<1>28. ASSUME NEW u \in Demo, Reset(u) PROVE Parts'
  <2>1. u \in Users
    BY AccountAssumption
  <2>2. AccountTyped'
    BY <1>1, <1>4, <1>28, <2>1 DEF Reset, AccountTyped
  <2>3. PasskeyTyped'
    BY <1>1, <1>28 DEF Reset, PasskeyTyped
  <2>4. PushTyped'
    BY <1>1, <1>28 DEF Reset, PushTyped
  <2>5. TabsTyped'
    BY <1>28, LeftAlone DEF Reset
  <2> QED BY <2>2, <2>3, <2>4, <2>5
<1>29. ASSUME MaxAge PROVE Parts'
  BY <1>1, <1>3, <1>29, LeftAlone DEF MaxAge, passkey, push, AccountTyped
<1>30. ASSUME Revoke PROVE Parts'
  <2>1. PushTyped'
    BY <1>1, <1>30 DEF Revoke, PushTyped
  <2> QED BY <1>30, <2>1, LeftAlone DEF Revoke, passkey
<1> QED
  BY <1>10, <1>11, <1>12, <1>13, <1>14, <1>15, <1>16, <1>17, <1>18, <1>19, <1>20, <1>21, <1>22,
     <1>23, <1>24, <1>25, <1>26, <1>27, <1>28, <1>29, <1>30 DEF Step

-------------------------------------------------------------------------------
\* Who touches what.

\* The cookies change together, passkeys in two actions of a tab, subscriptions in seven.
SignInEffects == \/ UNCHANGED <<cookie, email>>
                 \/ cookie' = None /\ email' = None
                 \/ \E t \in Tabs : setSessionCookies(t)
PasskeyEffects == \/ UNCHANGED <<challenge, issued>> /\ enrolled' \subseteq enrolled
                  \/ \E t \in Tabs : passkeyOptions(t) \/ registerPasskey(t)
PushEffects == \/ UNCHANGED push
               \/ \E t \in Tabs : onEnable(t) \/ subscribePush(t) \/ onDisable(t) \/ unsubscribePush(t)
               \/ \E u \in Users : Digest(u) \/ Reset(u)
               \/ Revoke

\* Every step is one of these to each of the three.
LEMMA Effects == Step => SignInEffects /\ PasskeyEffects /\ PushEffects
<1> SUFFICES ASSUME Step PROVE SignInEffects /\ PasskeyEffects /\ PushEffects
  OBVIOUS
<1> USE DEF SignInEffects, PasskeyEffects, PushEffects, account, passkey, push
<1>1. ASSUME NEW t \in Tabs, Expired(t) PROVE SignInEffects /\ PasskeyEffects /\ PushEffects
  BY <1>1 DEF Expired, Cleared
<1>2. ASSUME NEW t \in Tabs, NEW path \in Paths, proxy(t, path) PROVE SignInEffects /\ PasskeyEffects /\ PushEffects
  BY <1>2 DEF proxy
<1>3. ASSUME NEW t \in Tabs, NEW path \in Paths, Navigate(t, path) PROVE SignInEffects /\ PasskeyEffects /\ PushEffects
  BY <1>3 DEF Navigate
<1>4. ASSUME NEW t \in Tabs, NEW u \in Users, doSignIn(t, u) PROVE SignInEffects /\ PasskeyEffects /\ PushEffects
  BY <1>4 DEF doSignIn
<1>5. ASSUME NEW t \in Tabs, onPasskeySignIn(t) PROVE SignInEffects /\ PasskeyEffects /\ PushEffects
  BY <1>5 DEF onPasskeySignIn
<1>6. ASSUME NEW t \in Tabs, setSessionCookies(t) PROVE SignInEffects /\ PasskeyEffects /\ PushEffects
  BY <1>6 DEF setSessionCookies
<1>7. ASSUME NEW t \in Tabs, SignOut(t) PROVE SignInEffects /\ PasskeyEffects /\ PushEffects
  BY <1>7 DEF SignOut
<1>8. ASSUME NEW t \in Tabs, SignedOut(t) PROVE SignInEffects /\ PasskeyEffects /\ PushEffects
  BY <1>8 DEF SignedOut, Cleared
<1>9. ASSUME NEW t \in Tabs, passkeyOptions(t) PROVE SignInEffects /\ PasskeyEffects /\ PushEffects
  BY <1>9 DEF passkeyOptions
<1>10. ASSUME NEW t \in Tabs, registerPasskey(t) PROVE SignInEffects /\ PasskeyEffects /\ PushEffects
  BY <1>10 DEF registerPasskey
<1>11. ASSUME NEW t \in Tabs, cancelPasskey(t) PROVE SignInEffects /\ PasskeyEffects /\ PushEffects
  BY <1>11 DEF cancelPasskey
<1>12. ASSUME NEW t \in Tabs, deletePasskey(t) PROVE SignInEffects /\ PasskeyEffects /\ PushEffects
  BY <1>12 DEF deletePasskey
<1>13. ASSUME NEW t \in Tabs, onEnable(t) PROVE SignInEffects /\ PasskeyEffects /\ PushEffects
  BY <1>13 DEF onEnable
<1>14. ASSUME NEW t \in Tabs, subscribePush(t) PROVE SignInEffects /\ PasskeyEffects /\ PushEffects
  BY <1>14 DEF subscribePush
<1>15. ASSUME NEW t \in Tabs, onDisable(t) PROVE SignInEffects /\ PasskeyEffects /\ PushEffects
  BY <1>15 DEF onDisable
<1>16. ASSUME NEW t \in Tabs, unsubscribePush(t) PROVE SignInEffects /\ PasskeyEffects /\ PushEffects
  BY <1>16 DEF unsubscribePush
<1>17. ASSUME NEW u \in Users, Elsewhere(u) PROVE SignInEffects /\ PasskeyEffects /\ PushEffects
  BY <1>17 DEF Elsewhere
<1>18. ASSUME NEW u \in Users, Digest(u) PROVE SignInEffects /\ PasskeyEffects /\ PushEffects
  BY <1>18 DEF Digest
<1>19. ASSUME NEW u \in Demo, Reset(u) PROVE SignInEffects /\ PasskeyEffects /\ PushEffects
  BY <1>19, AccountAssumption DEF Reset
<1>20. ASSUME MaxAge PROVE SignInEffects /\ PasskeyEffects /\ PushEffects
  BY <1>20 DEF MaxAge, Cleared
<1>21. ASSUME Revoke PROVE SignInEffects /\ PasskeyEffects /\ PushEffects
  BY <1>21 DEF Revoke
<1> QED
  BY <1>1, <1>2, <1>3, <1>4, <1>5, <1>6, <1>7, <1>8, <1>9, <1>10, <1>11, <1>12, <1>13, <1>14, <1>15, <1>16, <1>17, <1>18, <1>19, <1>20, <1>21 DEF Step

\* What a tab may come to wait for.
Waiting(x) == LET d == tab'[x].doing
              IN  \/ d.step \in {"idle", "signed out"}
                  \/ \E u \in Users : d \in SignInAnswers(u)
                  \/ /\ passkeyOptions(x) /\ Live(cookie)
                     /\ d = [step |-> "creating", user |-> cookie.user, challenge |-> issued']
                  \/ onEnable(x)  /\ d = [step |-> "subscribed", endpoint |-> sub']
                  \/ onDisable(x) /\ d = [step |-> "unsubscribed", endpoint |-> sub]

\* The redirects there are.
Redirect(x) ==
  \/ tab[x].going \in Protected /\ cookie' = None /\ tab'[x].going = "/sign-in"
  \/ tab[x].going \in PUBLIC_PATHS /\ cookie # None /\ tab'[x].going = "/dashboard"
  \/ tab[x].going \in Protected /\ tab'[x].going = "/api/auth/expired"
  \/ tab[x].going = "/api/auth/expired" /\ cookie' = None /\ tab'[x].going = "/sign-in"

\* What it waits for says so.
LEMMA WaitingFor ==
  ASSUME NEW x \in Tabs, Waiting(x)
  PROVE  LET d == tab'[x].doing
         IN  /\ d.step = "signed in" => \E u \in Users : d \in SignInAnswers(u)
             /\ d.step = "creating" => /\ passkeyOptions(x) /\ Live(cookie)
                                       /\ d.user = cookie.user /\ d.challenge = issued'
             /\ d.step = "subscribed" => onEnable(x) /\ d.endpoint = sub'
             /\ d.step = "unsubscribed" => onDisable(x) /\ d.endpoint = sub
<1>1. PICK d : d = tab'[x].doing
  OBVIOUS
<1> DEFINE Says == /\ d.step = "signed in" => \E u \in Users : d \in SignInAnswers(u)
                   /\ d.step = "creating" => /\ passkeyOptions(x) /\ Live(cookie)
                                             /\ d.user = cookie.user /\ d.challenge = issued'
                   /\ d.step = "subscribed" => onEnable(x) /\ d.endpoint = sub'
                   /\ d.step = "unsubscribed" => onDisable(x) /\ d.endpoint = sub
<1>2. ASSUME d.step \in {"idle", "signed out"} PROVE Says
  BY <1>2
<1>3. ASSUME NEW u \in Users, d \in SignInAnswers(u) PROVE Says
  <2>1. d.step \in {"idle", "signed in"}
    <3>1. CASE d = Idle
      BY <3>1, IdleWaitsForNothing
    <3>2. CASE d # Idle
      <4>1. PICK e \in {u, None} :
               d = [step |-> "signed in", token |-> [user |-> u, jti |-> jti[u]], email |-> e]
        BY <1>3, <3>2 DEF SignInAnswers
      <4> QED BY <4>1
    <3> QED BY <3>1, <3>2
  <2> QED BY <1>3, <2>1
<1>4. ASSUME passkeyOptions(x), Live(cookie),
             d = [step |-> "creating", user |-> cookie.user, challenge |-> issued']
      PROVE  Says
  <2>1. d.step = "creating" /\ d.user = cookie.user /\ d.challenge = issued'
    BY <1>4
  <2> QED BY <1>4, <2>1
<1>5. ASSUME onEnable(x), d = [step |-> "subscribed", endpoint |-> sub'] PROVE Says
  <2>1. d.step = "subscribed" /\ d.endpoint = sub'
    BY <1>5
  <2> QED BY <1>5, <2>1
<1>6. ASSUME onDisable(x), d = [step |-> "unsubscribed", endpoint |-> sub] PROVE Says
  <2>1. d.step = "unsubscribed" /\ d.endpoint = sub
    BY <1>6
  <2> QED BY <1>6, <2>1
<1>7. Says
  BY <1>1, <1>2, <1>3, <1>4, <1>5, <1>6 DEF Waiting
<1> QED BY <1>1, <1>7

\* A tab stays as it is, waits, leaves its page, or its request is answered.
Moves(x) == \/ tab'[x] = tab[x]
            \/ tab[x].going = None /\ tab'[x].going = None /\ Waiting(x)
            \/ tab[x].going = None /\ tab'[x].doing = Idle
            \/ /\ tab'[x].doing \in {tab[x].doing, Idle}
               /\ tab'[x].going = None \/ Redirect(x)

\* Every step moves every tab in one of these ways.
LEMMA TabMoves == Typed /\ Step => \A x \in Tabs : Moves(x)
<1> SUFFICES ASSUME Typed, Step PROVE \A x \in Tabs : Moves(x)
  OBVIOUS
<1>1. tab \in [Tabs -> Tab]
  BY DEF Typed, TypeOK
<1> DEFINE Others(t) == \A x \in Tabs : x # t => tab'[x] = tab[x]
<1>2. ASSUME NEW t \in Tabs, NEW p \in Paths \cup {"/api/auth/expired"}, Go(t, p)
      PROVE  tab'[t].doing = Idle /\ tab'[t].going = p /\ Others(t)
  BY <1>1, <1>2 DEF Go, Tab, Steps
<1>3. ASSUME NEW t \in Tabs, NEW d \in Steps, Wait(t, d)
      PROVE  tab'[t].doing = d /\ tab'[t].going = tab[t].going /\ Others(t)
  BY <1>1, <1>3 DEF Wait, Tab
<1>4. ASSUME NEW t \in Tabs, NEW p \in Paths, Arrive(t, p)
      PROVE  tab'[t].doing = tab[t].doing /\ tab'[t].going = None /\ Others(t)
  BY <1>1, <1>4 DEF Arrive, Tab
<1>5. /\ Idle \in Steps /\ Idle.step = "idle"
      /\ [step |-> "signed out"] \in Steps /\ [step |-> "signed out"].step = "signed out"
  BY DEF Idle, Steps
<1> HIDE DEF Others
<1>6. \A t \in Tabs : Others(t) /\ Moves(t) => \A x \in Tabs : Moves(x)
  BY DEF Others, Moves
<1>7. \A t \in Tabs : Refused(t) => Go(t, "/api/auth/expired")
  BY DEF Refused
<1> DEFINE Both(t) == Others(t) /\ Moves(t)
<1>8. \A t \in Tabs : tab[t].going = None =>
        \A p \in Paths \cup {"/api/auth/expired"} : Go(t, p) => Both(t)
  BY <1>2 DEF Moves
<1>9. \A t \in Tabs : tab[t].going = None =>
        \A d \in Steps : Wait(t, d) /\ d.step \in {"idle", "signed out"} => Both(t)
  BY <1>3 DEF Moves, Waiting
<1>10. \A t \in Tabs : tab[t].going = None =>
        \A u \in Users : \A d \in SignInAnswers(u) : Wait(t, d) => Both(t)
  <2> SUFFICES ASSUME NEW t \in Tabs, tab[t].going = None, NEW u \in Users,
                      NEW d \in SignInAnswers(u), Wait(t, d)
               PROVE  Both(t)
    OBVIOUS
  <2>1. d \in Steps
    BY Answers
  <2>2. tab'[t].doing = d /\ tab'[t].going = None /\ Others(t)
    BY <1>3, <2>1
  <2>3. Waiting(t)
    BY <2>2 DEF Waiting
  <2> QED BY <2>2, <2>3 DEF Moves
<1> HIDE DEF Both
<1>11. ASSUME NEW t \in Tabs, Expired(t) PROVE Both(t)
  BY <1>2, <1>11, KnownPaths DEF Expired, Cleared, Both, Moves, Redirect
<1>12. ASSUME NEW t \in Tabs, NEW path \in Paths, proxy(t, path) PROVE Both(t)
  <2>1. path \in OPEN_PATHS \/ path \in PUBLIC_PATHS \/ path \in Protected
    BY DEF Paths
  <2>2. tab[t].going = path /\ cookie' = cookie
    BY <1>12 DEF proxy, account
  <2>3. CASE Arrive(t, path)
    BY <1>4, <2>3 DEF Both, Moves
  <2>4. CASE path \in Protected /\ cookie = None /\ Go(t, "/sign-in")
    BY <1>2, <2>2, <2>4, KnownPaths DEF Both, Moves, Redirect
  <2>5. CASE path \in PUBLIC_PATHS /\ cookie # None /\ Go(t, "/dashboard")
    BY <1>2, <2>2, <2>5, KnownPaths DEF Both, Moves, Redirect
  <2>6. CASE path \in Protected /\ Go(t, "/api/auth/expired")
    BY <1>2, <2>2, <2>6 DEF Both, Moves, Redirect
  <2>7. CASE path \in OPEN_PATHS
    BY <1>12, <2>3, <2>7 DEF proxy, OPEN_PATHS, PUBLIC_PATHS, Protected
  <2>8. CASE path \in PUBLIC_PATHS
    BY <1>12, <2>3, <2>5, <2>8 DEF proxy, OPEN_PATHS, PUBLIC_PATHS, Protected
  <2>9. CASE path \in Protected
    BY <1>12, <2>3, <2>4, <2>6, <2>9 DEF proxy, OPEN_PATHS, PUBLIC_PATHS, Protected
  <2> QED BY <2>1, <2>7, <2>8, <2>9
<1>13. ASSUME NEW t \in Tabs, NEW path \in Paths, Navigate(t, path) PROVE Both(t)
  BY <1>8, <1>13 DEF Navigate, Free
<1>14. ASSUME NEW t \in Tabs, NEW u \in Users, doSignIn(t, u) PROVE Both(t)
  BY <1>10, <1>14 DEF doSignIn, On, Free
<1>15. ASSUME NEW t \in Tabs, onPasskeySignIn(t) PROVE Both(t)
  <2>1. PICK c \in enrolled : \E a \in SignInAnswers(c.owner) : Wait(t, a)
    BY <1>15 DEF onPasskeySignIn, PasskeyAnswers
  <2>2. c.owner \in Users
    BY DEF Typed, TypeOK
  <2> QED BY <1>10, <1>15, <2>1, <2>2 DEF onPasskeySignIn, On, Free
<1>16. ASSUME NEW t \in Tabs, setSessionCookies(t) PROVE Both(t)
  BY <1>8, <1>16, KnownPaths DEF setSessionCookies, Doing
<1>17. ASSUME NEW t \in Tabs, SignOut(t) PROVE Both(t)
  BY <1>5, <1>8, <1>9, <1>17, KnownPaths DEF SignOut, Free
<1>18. ASSUME NEW t \in Tabs, SignedOut(t) PROVE Both(t)
  BY <1>8, <1>18, KnownPaths DEF SignedOut, Doing
<1>19. ASSUME NEW t \in Tabs, passkeyOptions(t) PROVE Both(t)
  <2> DEFINE d == [step |-> "creating", user |-> cookie.user, challenge |-> issued']
  <2>1. CASE Live(cookie) /\ Wait(t, d) /\ issued' = issued + 1 /\ issued < MaxChallenges
    <3>1. cookie.user \in Users /\ issued' \in 1..MaxChallenges
      BY <2>1, LiveTokens, LeftAlone, AccountAssumption
    <3>2. d \in [step: {"creating"}, user: Users, challenge: 1..MaxChallenges]
      BY <3>1
    <3>3. d \in Steps
      BY <3>2 DEF Steps
    <3>4. tab'[t].doing = d /\ tab'[t].going = tab[t].going /\ Others(t)
      BY <1>3, <2>1, <3>3
    <3> QED BY <1>19, <2>1, <3>4 DEF passkeyOptions, On, Free, Both, Moves, Waiting
  <2> QED BY <1>7, <1>8, <1>19, <2>1 DEF passkeyOptions, On, Free
<1>20. ASSUME NEW t \in Tabs, registerPasskey(t) PROVE Both(t)
  BY <1>5, <1>7, <1>8, <1>9, <1>20 DEF registerPasskey, Doing
<1>21. ASSUME NEW t \in Tabs, cancelPasskey(t) PROVE Both(t)
  BY <1>5, <1>9, <1>21 DEF cancelPasskey, Doing
<1>22. ASSUME NEW t \in Tabs, deletePasskey(t) PROVE Both(t)
  <2>1. CASE UNCHANGED tab
    BY <2>1 DEF Both, Others, Moves
  <2> QED BY <1>7, <1>8, <1>22, <2>1 DEF deletePasskey, On, Free
<1>23. ASSUME NEW t \in Tabs, onEnable(t) PROVE Both(t)
  <2> DEFINE d == [step |-> "subscribed", endpoint |-> sub']
  <2>1. CASE Wait(t, d) /\ IF sub # 0 THEN UNCHANGED <<sub, made>>
                           ELSE made < MaxEndpoints /\ made' = made + 1 /\ sub' = made'
    <3>1. sub' \in 1..MaxEndpoints
      BY <2>1, AccountAssumption DEF Typed, TypeOK
    <3>2. d \in [step: {"subscribed", "unsubscribed"}, endpoint: 1..MaxEndpoints]
      BY <3>1
    <3>3. d \in Steps
      BY <3>2 DEF Steps
    <3>4. tab'[t].doing = d /\ tab'[t].going = tab[t].going /\ Others(t)
      BY <1>3, <2>1, <3>3
    <3> QED BY <1>23, <3>4 DEF onEnable, On, Free, Both, Moves, Waiting
  <2> QED BY <1>7, <1>8, <1>23, <2>1 DEF onEnable, On, Free
<1>24. ASSUME NEW t \in Tabs, subscribePush(t) PROVE Both(t)
  BY <1>5, <1>7, <1>8, <1>9, <1>24 DEF subscribePush, Doing
<1>25. ASSUME NEW t \in Tabs, onDisable(t) PROVE Both(t)
  <2> DEFINE d == [step |-> "unsubscribed", endpoint |-> sub]
  <2>1. sub \in 1..MaxEndpoints
    BY <1>25, AccountAssumption DEF onDisable, Typed, TypeOK
  <2>2. d \in [step: {"subscribed", "unsubscribed"}, endpoint: 1..MaxEndpoints]
    BY <2>1
  <2>3. d \in Steps
    BY <2>2 DEF Steps
  <2>4. tab'[t].doing = d /\ tab'[t].going = tab[t].going /\ Others(t)
    BY <1>3, <1>25, <2>3 DEF onDisable
  <2> QED BY <1>25, <2>4 DEF onDisable, On, Free, Both, Moves, Waiting
<1>26. ASSUME NEW t \in Tabs, unsubscribePush(t) PROVE Both(t)
  BY <1>5, <1>7, <1>8, <1>9, <1>26 DEF unsubscribePush, Doing
<1>27. ASSUME UNCHANGED tab PROVE \A x \in Tabs : Moves(x)
  BY <1>27 DEF Moves
<1> QED
  BY <1>6, <1>11, <1>12, <1>13, <1>14, <1>15, <1>16, <1>17, <1>18, <1>19, <1>20, <1>21, <1>22,
     <1>23, <1>24, <1>25, <1>26, <1>27 DEF Step, Both, Elsewhere, Digest, Reset, MaxAge, Revoke

-------------------------------------------------------------------------------
\* The theorems.

\* At the start every tab is idle and goes nowhere.
LEMMA NothingYet == Init => \A t \in Tabs : tab[t].doing = Idle /\ tab[t].going = None
<1> SUFFICES ASSUME Init, NEW t \in Tabs PROVE tab[t].doing = Idle /\ tab[t].going = None
  OBVIOUS
<1>1. tab[t] = [at |-> "/", going |-> None, doing |-> Idle]
  BY DEF Init
<1> QED BY <1>1

\* A step that changes nothing keeps everything.
LEMMA TypedNext == Typed /\ [Next]_vars => Typed'
<1>1. Typed /\ UNCHANGED vars => Typed'
  BY DEF vars, account, passkey, push, Typed, TypeOK
<1> QED BY <1>1, TypedStep DEF Next

\* Everything keeps its type (the state of both sides of the account, for any bounds).
THEOREM TypeCorrect == Spec => []TypeOK
<1>1. Init => Typed
  BY TypedInit
<1>2. Typed /\ [Next]_vars => Typed'
  BY TypedNext
<1>3. Typed => TypeOK
  BY DEF Typed
<1> QED BY <1>1, <1>2, <1>3, PTL DEF Spec

\* A tab that holds an answer to a sign-in holds the email of the token's account, or none.
AnswersNameTheAccount ==
  \A t \in Tabs : tab[t].doing.step = "signed in" /\ tab[t].doing.email # None
                    => tab[t].doing.token.user = tab[t].doing.email
LabelInv == Typed /\ AnswersNameTheAccount /\ LabelsNameTheSession

\* Every step keeps it.
LEMMA LabelStep == LabelInv /\ [Next]_vars => LabelInv'
<1> SUFFICES ASSUME LabelInv, [Next]_vars
             PROVE  AnswersNameTheAccount' /\ LabelsNameTheSession'
  BY TypedNext DEF LabelInv
<1>1. CASE UNCHANGED vars
  BY <1>1 DEF vars, account, LabelInv, AnswersNameTheAccount, LabelsNameTheSession
<1>2. CASE Step
  <2>1. ASSUME NEW x \in Tabs, tab'[x].doing.step = "signed in", tab'[x].doing.email # None
        PROVE  tab'[x].doing.token.user = tab'[x].doing.email
    <3>1. Moves(x)
      BY <1>2, TabMoves DEF LabelInv
    <3>2. CASE tab'[x].doing \in {tab[x].doing, Idle}
      <4>1. tab'[x].doing # Idle
        BY <2>1, IdleWaitsForNothing
      <4> QED BY <2>1, <3>2, <4>1 DEF LabelInv, AnswersNameTheAccount
    <3>3. CASE Waiting(x)
      <4>1. PICK u \in Users : tab'[x].doing \in SignInAnswers(u)
        BY <2>1, <3>3, WaitingFor
      <4> QED BY <2>1, <4>1, Answers DEF LabelInv
    <3> QED BY <3>1, <3>2, <3>3 DEF Moves
  <2>2. LabelsNameTheSession'
    <3>1. SignInEffects
      BY <1>2, Effects
    <3>2. CASE UNCHANGED <<cookie, email>>
      BY <3>2 DEF LabelInv, LabelsNameTheSession
    <3>3. CASE cookie' = None /\ email' = None
      BY <3>3 DEF LabelsNameTheSession
    <3>4. ASSUME NEW t \in Tabs, setSessionCookies(t) PROVE LabelsNameTheSession'
      <4>1. cookie' = tab[t].doing.token /\ email' = tab[t].doing.email /\ tab[t].doing.step = "signed in"
        BY <3>4 DEF setSessionCookies, Doing, Label
      <4>2. tab[t].doing \in Steps
        BY DEF LabelInv, Typed, TypeOK, Tab
      <4>3. cookie' # None
        BY <4>1, <4>2, StepKinds, AccountAssumption DEF Token
      <4> QED BY <4>1, <4>3 DEF LabelInv, AnswersNameTheAccount, LabelsNameTheSession
    <3> QED BY <3>1, <3>2, <3>3, <3>4 DEF SignInEffects
  <2> QED BY <2>1, <2>2 DEF AnswersNameTheAccount
<1> QED BY <1>1, <1>2 DEF Next

\* The account chip never names another account than the session's, for any number of tabs
\* and accounts.
THEOREM LabelsCorrect == Spec => []LabelsNameTheSession
<1>1. Init => LabelInv
  <2>1. Init => \A t \in Tabs : tab[t].doing = Idle
    BY NothingYet
  <2> QED
    BY <2>1, TypedInit, IdleWaitsForNothing
    DEF Init, LabelInv, AnswersNameTheAccount, LabelsNameTheSession
<1>2. LabelInv /\ [Next]_vars => LabelInv'
  BY LabelStep
<1>3. LabelInv => LabelsNameTheSession
  BY DEF LabelInv
<1> QED BY <1>1, <1>2, <1>3, PTL DEF Spec

\* A challenge under an account's key is one a tab makes a passkey for that account with.
ChallengesAreOwn ==
  \A t \in Tabs : \A u \in Users :
    tab[t].doing.step = "creating" /\ challenge[u] = tab[t].doing.challenge
      => tab[t].doing.user = u
PasskeyInv == Typed /\ ChallengesAreOwn /\ PasskeysEnrollTheirAccount

\* What a tab that makes a passkey holds.
LEMMA Creating ==
  ASSUME Typed, NEW x \in Tabs, tab[x].doing.step = "creating"
  PROVE  tab[x].doing.challenge \in 1..issued /\ issued \in Nat
<1>1. tab[x].doing \in Steps /\ issued \in Nat
  BY LeftAlone DEF Typed, TypeOK, Tab
<1>2. tab[x].doing.challenge \in 1..MaxChallenges
  BY <1>1, StepKinds
<1>3. tab[x].doing.challenge <= issued
  BY DEF Typed, Timely
<1> QED BY <1>1, <1>2, <1>3, AccountAssumption

\* Every step keeps it: a new challenge is newer than any a tab holds.
LEMMA PasskeyStep == PasskeyInv /\ [Next]_vars => PasskeyInv'
<1> SUFFICES ASSUME PasskeyInv, [Next]_vars
             PROVE  ChallengesAreOwn' /\ PasskeysEnrollTheirAccount'
  BY TypedNext DEF PasskeyInv
<1>1. CASE UNCHANGED vars
  BY <1>1 DEF vars, passkey, PasskeyInv, ChallengesAreOwn, PasskeysEnrollTheirAccount
<1>2. ASSUME Step PROVE ChallengesAreOwn' /\ PasskeysEnrollTheirAccount'
  <2>1. Typed /\ challenge \in [Users -> 0..issued] /\ issued \in Nat
    BY LeftAlone DEF PasskeyInv, Typed, TypeOK
  <2>2. ASSUME NEW x \in Tabs, tab'[x].doing.step = "creating"
        PROVE  \/ tab'[x].doing = tab[x].doing
               \/ /\ passkeyOptions(x) /\ Live(cookie)
                  /\ tab'[x].doing.user = cookie.user /\ tab'[x].doing.challenge = issued'
    BY <1>2, <2>1, <2>2, TabMoves, WaitingFor, IdleWaitsForNothing DEF Moves
  <2>3. CASE UNCHANGED <<challenge, issued>> /\ enrolled' \subseteq enrolled
    <3>1. ASSUME NEW x \in Tabs, tab'[x].doing.step = "creating" PROVE tab'[x].doing = tab[x].doing
      <4>1. ASSUME passkeyOptions(x), Live(cookie), tab'[x].doing # tab[x].doing PROVE FALSE
        <5>1. issued' = issued + 1 \/ tab' = [tab EXCEPT ![x].going = "/api/auth/expired", ![x].doing = Idle]
          BY <4>1 DEF passkeyOptions, Refused, Go
        <5>2. ~Refused(x)
          BY <4>1 DEF Refused
        <5>3. issued' = issued + 1
          BY <4>1, <5>2 DEF passkeyOptions
        <5> QED BY <2>1, <2>3, <5>3
      <4> QED BY <2>2, <3>1, <4>1
    <3> QED BY <2>3, <3>1 DEF PasskeyInv, ChallengesAreOwn, PasskeysEnrollTheirAccount
  <2>4. ASSUME NEW t \in Tabs, passkeyOptions(t), ~(UNCHANGED <<challenge, issued>> /\ enrolled' \subseteq enrolled)
        PROVE  ChallengesAreOwn' /\ PasskeysEnrollTheirAccount'
    <3>1. /\ Live(cookie) /\ issued' = issued + 1 /\ enrolled' = enrolled
          /\ challenge' = [challenge EXCEPT ![cookie.user] = issued']
      BY <2>4 DEF passkeyOptions, registration_key, passkey
    <3>3. ASSUME NEW x \in Tabs, NEW u \in Users, tab'[x].doing.step = "creating",
                 challenge'[u] = tab'[x].doing.challenge
          PROVE  tab'[x].doing.user = u
      <4>1. CASE tab'[x].doing = tab[x].doing
        <5>1. tab[x].doing.challenge \in 1..issued
          BY <2>1, <3>3, <4>1, Creating
        <5>2. challenge'[u] # issued'
          BY <2>1, <3>1, <3>3, <4>1, <5>1
        <5>3. challenge'[u] = challenge[u]
          BY <2>1, <3>1, <5>2
        <5> QED BY <3>3, <4>1, <5>3 DEF PasskeyInv, ChallengesAreOwn
      <4>2. CASE tab'[x].doing.user = cookie.user /\ tab'[x].doing.challenge = issued'
        <5>1. CASE u = cookie.user
          BY <4>2, <5>1
        <5>2. CASE u # cookie.user
          <6>1. challenge'[u] = challenge[u] /\ challenge[u] \in 0..issued
            BY <2>1, <3>1, <5>2
          <6> QED BY <2>1, <3>1, <3>3, <4>2, <6>1
        <5> QED BY <5>1, <5>2
      <4> QED BY <2>2, <3>3, <4>1, <4>2
    <3> QED BY <3>1, <3>3 DEF PasskeyInv, ChallengesAreOwn, PasskeysEnrollTheirAccount
  <2>5. ASSUME NEW t \in Tabs, registerPasskey(t), ~(UNCHANGED <<challenge, issued>> /\ enrolled' \subseteq enrolled)
        PROVE  ChallengesAreOwn' /\ PasskeysEnrollTheirAccount'
    <3> DEFINE new == [for |-> tab[t].doing.user, owner |-> cookie.user]
    <3>1. /\ Live(cookie) /\ issued' = issued /\ tab[t].doing.step = "creating"
          /\ challenge' = [challenge EXCEPT ![cookie.user] = 0]
          /\ \/ enrolled' = enrolled
             \/ challenge[cookie.user] = tab[t].doing.challenge /\ enrolled' = enrolled \cup {new}
      BY <2>5 DEF registerPasskey, registration_key, passkey, Doing
    <3>2. cookie.user \in Users
      BY <2>1, <3>1, LiveTokens
    <3>3. new.for = tab[t].doing.user /\ new.owner = cookie.user
      OBVIOUS
    <3> HIDE DEF new
    <3>4. PasskeysEnrollTheirAccount'
      BY <3>1, <3>2, <3>3 DEF PasskeyInv, ChallengesAreOwn, PasskeysEnrollTheirAccount
    <3>5. ASSUME NEW x \in Tabs, NEW u \in Users, tab'[x].doing.step = "creating",
                 challenge'[u] = tab'[x].doing.challenge
          PROVE  tab'[x].doing.user = u
      <4>1. tab'[x].doing = tab[x].doing
        <5>1. ~(passkeyOptions(x) /\ tab'[x].doing.challenge = issued')
          <6>1. ASSUME passkeyOptions(x) PROVE Refused(x) \/ issued' = issued + 1
            BY <6>1 DEF passkeyOptions
          <6>2. ~Refused(x)
            BY <3>1 DEF Refused
          <6> QED BY <2>1, <3>1, <6>1, <6>2
        <5> QED BY <2>2, <3>5, <5>1
      <4>2. tab[x].doing.challenge \in 1..issued
        BY <2>1, <3>5, <4>1, Creating
      <4>3. challenge'[u] = challenge[u]
        BY <2>1, <3>1, <3>5, <4>1, <4>2
      <4> QED BY <3>5, <4>1, <4>3 DEF PasskeyInv, ChallengesAreOwn
    <3> QED BY <3>4, <3>5 DEF ChallengesAreOwn
  <2>6. PasskeyEffects
    BY <1>2, Effects
  <2> QED BY <2>3, <2>4, <2>5, <2>6 DEF PasskeyEffects
<1> QED BY <1>1, <1>2 DEF Next

\* A passkey is only ever attached to the account it was made for, for any number of
\* challenges under way in any number of tabs.
THEOREM PasskeysCorrect == Spec => []PasskeysEnrollTheirAccount
<1>1. Init => PasskeyInv
  <2>1. Init => ChallengesAreOwn
    BY NothingYet, IdleWaitsForNothing DEF ChallengesAreOwn
  <2>2. Init => PasskeysEnrollTheirAccount
    BY DEF Init, PasskeysEnrollTheirAccount
  <2> QED BY <2>1, <2>2, TypedInit DEF PasskeyInv
<1>2. PasskeyInv /\ [Next]_vars => PasskeyInv'
  BY PasskeyStep
<1>3. PasskeyInv => PasskeysEnrollTheirAccount
  BY DEF PasskeyInv
<1> QED BY <1>1, <1>2, <1>3, PTL DEF Spec

\* A device whose row is being removed is one the browser has already given up.
RemovedDevicesAreGone ==
  \A t \in Tabs : tab[t].doing.step = "unsubscribed" => tab[t].doing.endpoint # sub
DeviceInv == Typed /\ RemovedDevicesAreGone /\ AckedDevicesHaveRows

\* What a tab that talks of a subscription holds.
LEMMA Talking ==
  ASSUME Typed, NEW x \in Tabs, tab[x].doing.step \in {"subscribed", "unsubscribed"}
  PROVE  tab[x].doing.endpoint \in 1..made /\ tab[x].doing.endpoint \in 1..MaxEndpoints /\ made \in Nat
<1>1. tab[x].doing \in Steps /\ made \in Nat
  BY LeftAlone DEF Typed, TypeOK, Tab
<1>2. tab[x].doing.endpoint \in 1..MaxEndpoints
  BY <1>1, StepKinds
<1>3. tab[x].doing.endpoint <= made
  BY DEF Typed, Timely
<1> QED BY <1>1, <1>2, <1>3, AccountAssumption

\* The browser's subscription changes to none or to one made just now.
LEMMA NewSubscriptions ==
  ASSUME Typed, Step
  PROVE  sub' = sub \/ sub' = 0 \/ sub' = made + 1
<1>1. CASE UNCHANGED push
  BY <1>1 DEF push
<1>2. ASSUME NEW t \in Tabs, onEnable(t) PROVE sub' = sub \/ sub' = made + 1
  BY <1>2 DEF onEnable
<1>3. ASSUME NEW t \in Tabs, subscribePush(t) \/ unsubscribePush(t) \/ onDisable(t) PROVE sub' \in {sub, 0}
  BY <1>3 DEF subscribePush, unsubscribePush, onDisable
<1>4. ASSUME NEW u \in Users, Digest(u) \/ Reset(u) PROVE sub' = sub
  BY <1>4 DEF Digest, Reset
<1>5. CASE Revoke
  BY <1>5 DEF Revoke
<1> QED BY <1>1, <1>2, <1>3, <1>4, <1>5, Effects DEF PushEffects

\* Every step keeps it: the browser gives a device up before its row goes.
LEMMA DeviceStep == DeviceInv /\ [Next]_vars => DeviceInv'
<1> SUFFICES ASSUME DeviceInv, [Next]_vars
             PROVE  RemovedDevicesAreGone' /\ AckedDevicesHaveRows'
  BY TypedNext DEF DeviceInv
<1>1. CASE UNCHANGED vars
  BY <1>1 DEF vars, push, DeviceInv, RemovedDevicesAreGone, AckedDevicesHaveRows
<1>2. ASSUME Step PROVE RemovedDevicesAreGone' /\ AckedDevicesHaveRows'
  <2>1. /\ Typed /\ made \in Nat /\ sub \in 0..made
        /\ rows \in [1..MaxEndpoints -> Users \cup {None}] /\ acked \subseteq 1..made
    BY LeftAlone DEF DeviceInv, Typed, TypeOK
  <2>2. ASSUME NEW x \in Tabs, tab'[x].doing.step = "unsubscribed"
        PROVE  tab'[x].doing.endpoint # sub'
    <3>1. CASE tab'[x].doing = tab[x].doing
      <4>1. tab[x].doing.endpoint \in 1..made /\ tab[x].doing.endpoint # sub
        BY <2>1, <2>2, <3>1, Talking DEF DeviceInv, RemovedDevicesAreGone
      <4>2. tab'[x].doing.endpoint \in 1..made /\ tab'[x].doing.endpoint # sub
        BY <3>1, <4>1
      <4> QED BY <1>2, <2>1, <4>2, NewSubscriptions
    <3>2. CASE onDisable(x) /\ tab'[x].doing.endpoint = sub
      <4>1. sub # 0 /\ sub' = 0
        BY <3>2 DEF onDisable
      <4> QED BY <3>2, <4>1
    <3> QED BY <1>2, <2>1, <2>2, <3>1, <3>2, TabMoves, WaitingFor, IdleWaitsForNothing DEF Moves
  <2>3. AckedDevicesHaveRows'
    <3>1. CASE UNCHANGED push
      BY <3>1 DEF push, DeviceInv, AckedDevicesHaveRows
    <3>2. ASSUME NEW t \in Tabs, onEnable(t) PROVE AckedDevicesHaveRows'
      <4>1. UNCHANGED <<rows, acked>> /\ (sub' = sub \/ sub' = made + 1)
        BY <3>2 DEF onEnable
      <4> QED BY <2>1, <4>1 DEF DeviceInv, AckedDevicesHaveRows
    <3>3. ASSUME NEW t \in Tabs, subscribePush(t) PROVE AckedDevicesHaveRows'
      <4> DEFINE e == tab[t].doing.endpoint
      <4>1. e \in 1..MaxEndpoints
        BY <2>1, <3>3, Talking DEF subscribePush, Doing
      <4>2. CASE UNCHANGED <<sub, rows, acked>>
        BY <4>2 DEF DeviceInv, AckedDevicesHaveRows
      <4>3. ASSUME Live(cookie), rows' = [rows EXCEPT ![e] = cookie.user], acked' = acked \cup {e}, sub' = sub
            PROVE  AckedDevicesHaveRows'
        <5>1. cookie.user # None
          BY <2>1, <4>3, LiveTokens
        <5> HIDE DEF e
        <5> QED BY <2>1, <4>1, <4>3, <5>1 DEF DeviceInv, AckedDevicesHaveRows
      <4>4. ASSUME rows' \in {rows, [rows EXCEPT ![e] = cookie.user]}, acked' = acked,
                   sub' = IF sub = e THEN 0 ELSE sub
            PROVE  AckedDevicesHaveRows'
        <5> HIDE DEF e
        <5>1. CASE sub = e
          BY <2>1, <4>4, <5>1 DEF AckedDevicesHaveRows
        <5>2. CASE sub # e
          <6>1. sub' = sub /\ (sub \in DOMAIN rows => rows'[sub] = rows[sub])
            BY <2>1, <4>1, <4>4, <5>2
          <6>2. sub \in acked => sub \in DOMAIN rows
            BY <2>1, AccountAssumption DEF Typed, TypeOK
          <6> QED BY <4>4, <6>1, <6>2 DEF DeviceInv, AckedDevicesHaveRows
        <5> QED BY <5>1, <5>2
      <4> QED BY <3>3, <4>2, <4>3, <4>4 DEF subscribePush
    <3>4. ASSUME NEW t \in Tabs, onDisable(t) PROVE AckedDevicesHaveRows'
      <4>1. sub' = 0 /\ acked' = acked
        BY <3>4 DEF onDisable
      <4> QED BY <2>1, <4>1 DEF AckedDevicesHaveRows
    <3>5. ASSUME NEW t \in Tabs, unsubscribePush(t) PROVE AckedDevicesHaveRows'
      <4> DEFINE e == tab[t].doing.endpoint
      <4>1. e # sub /\ e \in 1..MaxEndpoints
        BY <2>1, <3>5, Talking DEF unsubscribePush, Doing, DeviceInv, RemovedDevicesAreGone
      <4>2. rows' \in {rows, [rows EXCEPT ![e] = None]} /\ UNCHANGED <<sub, acked>>
        BY <3>5 DEF unsubscribePush
      <4> HIDE DEF e
      <4>3. sub \in DOMAIN rows => rows'[sub] = rows[sub]
        BY <2>1, <4>1, <4>2
      <4>4. sub \in acked => sub \in DOMAIN rows
        BY <2>1, AccountAssumption DEF Typed, TypeOK
      <4> QED BY <4>2, <4>3, <4>4 DEF DeviceInv, AckedDevicesHaveRows
    <3>6. ASSUME NEW u \in Users, Digest(u) PROVE AckedDevicesHaveRows'
      <4>1. UNCHANGED <<sub, acked>> /\ (sub \in DOMAIN rows => rows'[sub] = rows[sub])
        BY <3>6 DEF Digest
      <4>2. sub \in acked => sub \in DOMAIN rows
        BY <2>1, AccountAssumption DEF Typed, TypeOK
      <4> QED BY <4>1, <4>2 DEF DeviceInv, AckedDevicesHaveRows
    <3>7. ASSUME NEW u \in Users, Reset(u) PROVE AckedDevicesHaveRows'
      <4>1. /\ sub' = sub /\ acked' = { e \in acked : rows[e] # u }
            /\ rows' = [e \in DOMAIN rows |-> IF rows[e] = u THEN None ELSE rows[e]]
        BY <3>7 DEF Reset
      <4>2. sub \in acked => sub \in DOMAIN rows
        BY <2>1, AccountAssumption DEF Typed, TypeOK
      <4> QED BY <4>1, <4>2 DEF DeviceInv, AckedDevicesHaveRows
    <3>8. CASE Revoke
      <4>1. sub' = 0 /\ acked' = acked
        BY <3>8 DEF Revoke
      <4> QED BY <2>1, <4>1 DEF AckedDevicesHaveRows
    <3> QED BY <1>2, <3>1, <3>2, <3>3, <3>4, <3>5, <3>6, <3>7, <3>8, Effects DEF PushEffects
  <2> QED BY <2>2, <2>3 DEF RemovedDevicesAreGone
<1> QED BY <1>1, <1>2 DEF Next

\* A browser whose notifications were switched on keeps a row on the server for as long as it
\* is subscribed, for any number of endpoints.
THEOREM DevicesCorrect == Spec => []AckedDevicesHaveRows
<1>1. Init => DeviceInv
  <2>1. Init => RemovedDevicesAreGone
    BY NothingYet, IdleWaitsForNothing DEF RemovedDevicesAreGone
  <2>2. Init => AckedDevicesHaveRows
    BY DEF Init, AckedDevicesHaveRows
  <2> QED BY <2>1, <2>2, TypedInit DEF DeviceInv
<1>2. DeviceInv /\ [Next]_vars => DeviceInv'
  BY DeviceStep
<1>3. DeviceInv => AckedDevicesHaveRows
  BY DEF DeviceInv
<1> QED BY <1>1, <1>2, <1>3, PTL DEF Spec

\* How many redirects a request has left: none for a page it may stay at, one from
\* /api/auth/expired, two from a page behind the guard, three from a public page.
RedirectsLeft(t) ==
  /\ hops[t] \in 0..3
  /\ tab[t].going = "/api/auth/expired" => hops[t] <= 2
  /\ tab[t].going \in Protected => hops[t] <= 1
  /\ tab[t].going \in PUBLIC_PATHS /\ cookie # None => hops[t] = 0
RedirectInv == Typed /\ \A t \in Tabs : RedirectsLeft(t)

\* Every step keeps it.
LEMMA RedirectStep == RedirectInv /\ [Next]_vars => RedirectInv'
<1> SUFFICES ASSUME RedirectInv, [Next]_vars, NEW t \in Tabs PROVE RedirectsLeft(t)'
  BY TypedNext DEF RedirectInv
<1>1. CASE UNCHANGED vars
  BY <1>1 DEF vars, account, RedirectInv, RedirectsLeft
<1>2. ASSUME Next PROVE RedirectsLeft(t)'
  <2>1. RedirectsLeft(t)
    BY DEF RedirectInv
  <2>2. CASE Redirected(t)
    <3>1. hops'[t] = hops[t] + 1
      BY <1>2, <2>2 DEF Next
    <3>2. Redirect(t)
      <4>1. Moves(t)
        BY <1>2, TabMoves DEF Next, RedirectInv
      <4> QED BY <2>2, <4>1 DEF Moves, Redirected
    <3>3. CASE tab[t].going \in Protected /\ cookie' = None /\ tab'[t].going = "/sign-in"
      BY <2>1, <3>1, <3>3 DEF RedirectsLeft, Protected, PUBLIC_PATHS
    <3>4. CASE tab[t].going \in PUBLIC_PATHS /\ cookie # None /\ tab'[t].going = "/dashboard"
      BY <2>1, <3>1, <3>4 DEF RedirectsLeft, Protected, PUBLIC_PATHS
    <3>5. CASE tab[t].going \in Protected /\ tab'[t].going = "/api/auth/expired"
      BY <2>1, <3>1, <3>5 DEF RedirectsLeft, Protected, PUBLIC_PATHS
    <3>6. CASE tab[t].going = "/api/auth/expired" /\ cookie' = None /\ tab'[t].going = "/sign-in"
      BY <2>1, <3>1, <3>6 DEF RedirectsLeft, Protected, PUBLIC_PATHS
    <3> QED BY <3>2, <3>3, <3>4, <3>5, <3>6 DEF Redirect
  <2>3. CASE ~Redirected(t) /\ tab'[t].going = tab[t].going /\ account' = account
    <3>1. hops'[t] = hops[t] /\ cookie' = cookie
      BY <1>2, <2>3 DEF Next, account
    <3> QED BY <2>1, <2>3, <3>1 DEF RedirectsLeft
  <2>4. CASE ~Redirected(t) /\ ~(tab'[t].going = tab[t].going /\ account' = account)
    <3>1. hops'[t] = 0
      BY <1>2, <2>4 DEF Next
    <3> QED BY <3>1 DEF RedirectsLeft
  <2> QED BY <2>2, <2>3, <2>4
<1> QED BY <1>1, <1>2

\* At most three redirects in a row, from any address and in any state of the account.
THEOREM RedirectsCorrect == Spec => []RedirectsEnd
<1>1. Init => RedirectInv
  <2> SUFFICES ASSUME Init, NEW t \in Tabs PROVE RedirectsLeft(t)
    BY TypedInit DEF RedirectInv
  <2>1. hops[t] = 0
    BY DEF Init
  <2> QED BY <2>1 DEF RedirectsLeft
<1>2. RedirectInv /\ [Next]_vars => RedirectInv'
  BY RedirectStep
<1>3. RedirectInv => RedirectsEnd
  <2> SUFFICES ASSUME RedirectInv, NEW t \in Tabs PROVE hops[t] <= 3
    BY DEF RedirectsEnd
  <2>1. hops[t] \in 0..3
    BY DEF RedirectInv, RedirectsLeft
  <2> QED BY <2>1
<1> QED BY <1>1, <1>2, <1>3, PTL DEF Spec
===============================================================================
