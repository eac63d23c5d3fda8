----------------------- MODULE ClientRegistry_proofs -----------------------
(***************************************************************************)
(* Where a secret can be, for any number of browsers, tabs and secrets.    *)
(***************************************************************************)
EXTENDS ClientRegistry, TLAPS

\* The type invariant, as far as the argument needs it.
TabsOK ==
  /\ flash \in [Browsers -> Secrets \cup {NoSecret}]
  /\ tab \in [Tabs -> Tab]
  /\ drawnBy \in [Secrets -> Tabs \cup {NoTab}]
  /\ shown \subseteq Secrets

DrawnIn(s, b) == drawnBy[s] \in Tabs /\ BrowserOf[drawnBy[s]] = b

Answering(t) == tab[t].pc \in {"grant", "reply"}

\* A secret in an answer under way is in no jar, in no other request and on no
\* page, and was drawn for that very tab.
AnswersAreFresh ==
  \A t \in Tabs : Answering(t) =>
    LET s == tab[t].secret IN
    /\ s \in Secrets /\ drawnBy[s] = t
    /\ s \notin shown
    /\ \A b \in Browsers : flash[b] # s
    /\ \A u \in Tabs : tab[u].sent # s

\* A jar's secret was drawn in its browser and has not been displayed; what a
\* tab asked for or shows was drawn in its browser.
JarsAreOwn ==
  /\ \A b \in Browsers : flash[b] # NoSecret => DrawnIn(flash[b], b) /\ flash[b] \notin shown
  /\ \A t \in Tabs : tab[t].sent # NoSecret => DrawnIn(tab[t].sent, BrowserOf[t])
  /\ \A t \in Tabs : tab[t].page # NoSecret => DrawnIn(tab[t].page, BrowserOf[t])
  /\ \A s \in shown : drawnBy[s] \in Tabs

JarInv == TabsOK /\ AnswersAreFresh /\ JarsAreOwn

LEMMA IdleFacts ==
  /\ Idle \in Tab /\ Idle.pc = "idle"
  /\ Idle.sent = NoSecret /\ Idle.page = NoSecret
BY DEF Idle, Tab

LEMMA JarInit == Init => JarInv
<1> SUFFICES ASSUME Init PROVE JarInv
  OBVIOUS
<1>1. TabsOK
  BY IdleFacts DEF Init, TabsOK
<1>2. AnswersAreFresh
  BY IdleFacts DEF Init, AnswersAreFresh, Answering
<1>3. JarsAreOwn
  BY IdleFacts DEF Init, JarsAreOwn
<1> QED
  BY <1>1, <1>2, <1>3 DEF JarInv

\* A request draws a value that was nowhere before.
LEMMA DrawsStep ==
  ASSUME JarInv, NEW t \in Tabs, NEW s \in Secrets, NEW target \in Apps \cup Users,
         NEW pc \in {"grant", "reply"}, Draws(t, s, target, pc)
  PROVE  JarInv'
<1> DEFINE new == [Idle EXCEPT !.pc = pc, !.target = target, !.secret = s]
<1>1. /\ new \in Tab /\ new.pc = pc /\ new.secret = s
      /\ new.sent = NoSecret /\ new.page = NoSecret
  BY DEF Idle, Tab
<1> HIDE DEF new
<1>2. /\ drawnBy[s] = NoTab /\ drawnBy' = [drawnBy EXCEPT ![s] = t]
      /\ tab' = [tab EXCEPT ![t] = new]
      /\ UNCHANGED <<flash, shown, expired>>
  BY DEF Draws, new
<1>3. /\ tab' \in [Tabs -> Tab] /\ tab'[t] = new
      /\ \A u \in Tabs \ {t} : tab'[u] = tab[u]
  BY <1>1, <1>2 DEF JarInv, TabsOK
<1>4. /\ drawnBy' \in [Secrets -> Tabs \cup {NoTab}] /\ drawnBy'[s] = t
      /\ \A x \in Secrets \ {s} : drawnBy'[x] = drawnBy[x]
  BY <1>2 DEF JarInv, TabsOK
<1>5. TabsOK'
  BY <1>2, <1>3, <1>4 DEF JarInv, TabsOK
<1>6. s \notin shown /\ s # NoSecret /\ NoTab \notin Tabs
  BY <1>2, RegistryAssumption DEF JarInv, JarsAreOwn
<1>7. /\ \A b \in Browsers : flash[b] # s
      /\ \A u \in Tabs : tab[u].sent # s /\ tab[u].page # s
  BY <1>2, <1>6 DEF JarInv, JarsAreOwn, DrawnIn
<1>8. \A x \in Secrets, b \in Browsers : x # s /\ DrawnIn(x, b) => DrawnIn(x, b)'
  BY <1>4 DEF DrawnIn
<1>9. AnswersAreFresh'
  <2>1. ASSUME NEW u \in Tabs \ {t}, Answering(u)'
        PROVE  LET x == tab'[u].secret IN
               /\ x \in Secrets /\ drawnBy'[x] = u /\ x \notin shown
               /\ \A b \in Browsers : flash[b] # x
               /\ \A v \in Tabs : tab'[v].sent # x
    <3> DEFINE x == tab[u].secret
    <3>1. /\ x \in Secrets /\ drawnBy[x] = u /\ x \notin shown
          /\ \A b \in Browsers : flash[b] # x
          /\ \A v \in Tabs : tab[v].sent # x
      BY <1>3, <2>1 DEF JarInv, AnswersAreFresh, Answering
    <3>2. tab'[u].secret = x /\ x # s /\ x # NoSecret
      BY <1>2, <1>3, <1>6, <3>1, RegistryAssumption
    <3> HIDE DEF x
    <3> QED
      BY <1>1, <1>3, <1>4, <3>1, <3>2
  <2>2. \A u \in Tabs : tab'[u].sent # s
    BY <1>1, <1>3, <1>6, <1>7
  <2> QED
    BY <1>1, <1>2, <1>3, <1>4, <1>6, <1>7, <2>1, <2>2 DEF AnswersAreFresh, Answering
<1>10. JarsAreOwn'
  <2>1. \A b \in Browsers : flash[b] # NoSecret => DrawnIn(flash[b], b)' /\ flash[b] \notin shown
    BY <1>2, <1>7, <1>8 DEF JarInv, JarsAreOwn, TabsOK
  <2>2. \A u \in Tabs : tab[u].sent \in Secrets \cup {NoSecret} /\ tab[u].page \in Secrets \cup {NoSecret}
    BY DEF JarInv, TabsOK, Tab
  <2>3. ASSUME NEW u \in Tabs
        PROVE  /\ (tab[u].sent # NoSecret => DrawnIn(tab[u].sent, BrowserOf[u]))'
               /\ (tab[u].page # NoSecret => DrawnIn(tab[u].page, BrowserOf[u]))'
    <3>1. CASE u = t
      BY <1>1, <1>3, <3>1
    <3>2. CASE u # t
      <4>1. tab'[u] = tab[u] /\ tab[u].sent # s /\ tab[u].page # s
        BY <1>3, <1>7, <3>2
      <4>2. /\ tab[u].sent # NoSecret => DrawnIn(tab[u].sent, BrowserOf[u])
            /\ tab[u].page # NoSecret => DrawnIn(tab[u].page, BrowserOf[u])
        BY DEF JarInv, JarsAreOwn
      <4>3. BrowserOf[u] \in Browsers
        BY RegistryAssumption
      <4>4. tab[u].sent # NoSecret => tab[u].sent \in Secrets \ {s} /\ DrawnIn(tab[u].sent, BrowserOf[u])
        BY <2>2, <4>1, <4>2
      <4>5. tab[u].page # NoSecret => tab[u].page \in Secrets \ {s} /\ DrawnIn(tab[u].page, BrowserOf[u])
        BY <2>2, <4>1, <4>2
      <4> QED
        BY <1>4, <4>1, <4>4, <4>5 DEF DrawnIn
    <3> QED
      BY <3>1, <3>2
  <2>5. \A x \in shown : drawnBy'[x] \in Tabs
    BY <1>4, <1>6 DEF JarInv, JarsAreOwn, TabsOK
  <2>6. (\A b \in Browsers : flash[b] # NoSecret => DrawnIn(flash[b], b) /\ flash[b] \notin shown)'
    BY <1>2, <2>1 DEF DrawnIn
  <2>7. (\A x \in shown : drawnBy[x] \in Tabs)'
    BY <1>2, <2>5
  <2> QED
    BY <2>3, <2>6, <2>7 DEF JarsAreOwn
<1> QED
  BY <1>5, <1>9, <1>10 DEF JarInv

\* Steps of a tab t that draw nothing, put nothing new into a jar and display
\* nothing: its answer, if it still has one, stays the same.
LEMMA TabStep ==
  ASSUME JarInv, NEW t \in Tabs, NEW v \in Tab,
         tab' = [tab EXCEPT ![t] = v],
         UNCHANGED <<flash, drawnBy, shown>>,
         v.pc \in {"grant", "reply"} => Answering(t) /\ v.secret = tab[t].secret,
         v.sent # NoSecret => v.sent = tab[t].sent,
         v.page # NoSecret => v.page = tab[t].page
  PROVE  JarInv'
<1>1. /\ tab' \in [Tabs -> Tab] /\ tab'[t] = v
      /\ \A u \in Tabs \ {t} : tab'[u] = tab[u]
  BY DEF JarInv, TabsOK
<1>2. TabsOK'
  BY <1>1 DEF JarInv, TabsOK
<1>3. \A u \in Tabs : tab'[u].sent # NoSecret => tab'[u].sent = tab[u].sent
  BY <1>1
<1>4. \A u \in Tabs : tab'[u].page # NoSecret => tab'[u].page = tab[u].page
  BY <1>1
<1>5. AnswersAreFresh'
  <2>1. ASSUME NEW u \in Tabs, Answering(u)'
        PROVE  Answering(u) /\ tab'[u].secret = tab[u].secret
    BY <1>1, <2>1 DEF Answering
  <2> QED
    BY <1>3, <2>1, RegistryAssumption DEF JarInv, AnswersAreFresh
<1>6. JarsAreOwn'
  BY <1>3, <1>4 DEF JarInv, JarsAreOwn, DrawnIn
<1> QED
  BY <1>2, <1>5, <1>6 DEF JarInv

LEMMA QuietTabSteps ==
  ASSUME JarInv, NEW t \in Tabs,
         \/ \E app \in Apps : RegenerarFetch(t, app)
         \/ GrantPapelInicial(t) \/ PostFail(t) \/ RevealLost(t) \/ Leave(t),
         appClients \in [Apps -> Client \cup {NoClient}]
  PROVE  JarInv'
<1>1. tab[t] \in Tab /\ tab \in [Tabs -> Tab]
  BY DEF JarInv, TabsOK
<1>2. CASE \E app \in Apps : RegenerarFetch(t, app)
  <2>1. PICK app \in Apps : RegenerarFetch(t, app)
    BY <1>2
  <2>2. PICK uri \in Uris : uri = appClients[app].uri
    BY <2>1 DEF RegenerarFetch, Client
  <2> DEFINE v == [Idle EXCEPT !.pc = "upsert", !.target = app, !.uri = uri]
  <2>3. v \in Tab /\ v.pc = "upsert" /\ v.sent = NoSecret /\ v.page = NoSecret
    BY DEF Idle, Tab
  <2>4. tab' = [tab EXCEPT ![t] = v] /\ UNCHANGED <<flash, drawnBy, shown>>
    BY <2>1, <2>2 DEF RegenerarFetch
  <2> HIDE DEF v
  <2> QED
    BY <2>3, <2>4, TabStep
<1>3. CASE GrantPapelInicial(t)
  <2> DEFINE v == [tab[t] EXCEPT !.pc = "reply"]
  <2>1. /\ v \in Tab /\ v.secret = tab[t].secret
        /\ v.sent = tab[t].sent /\ v.page = tab[t].page
    BY <1>1 DEF Tab
  <2>2. /\ tab' = [tab EXCEPT ![t] = v] /\ UNCHANGED <<flash, drawnBy, shown>>
        /\ Answering(t)
    BY <1>1, <1>3 DEF GrantPapelInicial, Answering
  <2> HIDE DEF v
  <2> QED
    BY <2>1, <2>2, TabStep
<1>4. CASE PostFail(t) \/ Leave(t)
  <2>1. tab' = [tab EXCEPT ![t] = Idle] /\ UNCHANGED <<flash, drawnBy, shown>>
    BY <1>4 DEF PostFail, Leave
  <2> QED
    BY <2>1, IdleFacts, TabStep
<1>5. CASE RevealLost(t)
  <2> DEFINE v == [tab[t] EXCEPT !.pc = "cookie", !.sent = NoSecret]
  <2>1. /\ v \in Tab /\ v.pc = "cookie"
        /\ v.sent = NoSecret /\ v.page = tab[t].page
    BY <1>1 DEF Tab
  <2>2. tab' = [tab EXCEPT ![t] = v] /\ UNCHANGED <<flash, drawnBy, shown>>
    BY <1>1, <1>5 DEF RevealLost
  <2> HIDE DEF v
  <2> QED
    BY <2>1, <2>2, TabStep
<1> QED
  BY <1>2, <1>3, <1>4, <1>5

\* The answer arrives: its secret moves into the jar of the browser it was
\* drawn in, and no other answer carries it.
LEMMA RedirectStep ==
  ASSUME JarInv, NEW t \in Tabs, ReceiveRedirect(t)
  PROVE  JarInv'
<1> DEFINE s == tab[t].secret
           b == BrowserOf[t]
           v == [tab[t] EXCEPT !.pc = "cookie"]
<1>1. b \in Browsers /\ tab[t] \in Tab /\ Answering(t)
  BY RegistryAssumption DEF JarInv, TabsOK, ReceiveRedirect, Answering
<1>2. /\ s \in Secrets /\ drawnBy[s] = t /\ s \notin shown
      /\ \A u \in Tabs : tab[u].sent # s
  BY <1>1 DEF JarInv, AnswersAreFresh
<1>3. /\ v \in Tab /\ v.pc = "cookie"
      /\ v.sent = tab[t].sent /\ v.page = tab[t].page
  BY <1>1 DEF Tab
<1>4. /\ flash' = [flash EXCEPT ![b] = s] /\ tab' = [tab EXCEPT ![t] = v]
      /\ UNCHANGED <<drawnBy, shown>>
  BY DEF ReceiveRedirect, Jar
<1> HIDE DEF s, b, v
<1>5. /\ tab' \in [Tabs -> Tab] /\ tab'[t] = v
      /\ \A u \in Tabs \ {t} : tab'[u] = tab[u]
  BY <1>3, <1>4 DEF JarInv, TabsOK
<1>6. /\ flash' \in [Browsers -> Secrets \cup {NoSecret}] /\ flash'[b] = s
      /\ \A c \in Browsers \ {b} : flash'[c] = flash[c]
  BY <1>1, <1>2, <1>4 DEF JarInv, TabsOK
<1>7. TabsOK'
  BY <1>4, <1>5, <1>6 DEF JarInv, TabsOK
<1>8. \A u \in Tabs : tab'[u].sent = tab[u].sent /\ tab'[u].page = tab[u].page
  BY <1>3, <1>5
<1>9. AnswersAreFresh'
  <2>1. ASSUME NEW u \in Tabs, Answering(u)'
        PROVE  (LET x == tab[u].secret IN
                /\ x \in Secrets /\ drawnBy[x] = u /\ x \notin shown
                /\ \A c \in Browsers : flash[c] # x
                /\ \A w \in Tabs : tab[w].sent # x)'
    <3>1. u # t /\ tab'[u] = tab[u] /\ Answering(u)
      BY <1>3, <1>5, <2>1 DEF Answering
    <3> DEFINE x == tab[u].secret
    <3>2. /\ x \in Secrets /\ drawnBy[x] = u /\ x \notin shown
          /\ \A c \in Browsers : flash[c] # x
          /\ \A w \in Tabs : tab[w].sent # x
      BY <3>1 DEF JarInv, AnswersAreFresh
    <3>3. x # s /\ tab'[u].secret = x
      BY <1>2, <3>1, <3>2
    <3> HIDE DEF x
    <3> QED
      BY <1>4, <1>6, <1>8, <3>2, <3>3
  <2> QED
    BY <2>1 DEF AnswersAreFresh
<1>10. JarsAreOwn'
  <2>1. DrawnIn(s, b)
    BY <1>2 DEF DrawnIn, b
  <2>2. (\A c \in Browsers : flash[c] # NoSecret => DrawnIn(flash[c], c) /\ flash[c] \notin shown)'
    BY <1>2, <1>4, <1>6, <2>1 DEF JarInv, JarsAreOwn, DrawnIn
  <2> QED
    BY <1>4, <1>8, <2>2 DEF JarInv, JarsAreOwn, DrawnIn
<1> QED
  BY <1>7, <1>9, <1>10 DEF JarInv

\* The request for the reveal page takes the jar's cookie as it is.
LEMMA RequestStep ==
  ASSUME JarInv, NEW t \in Tabs, RevealRequest(t)
  PROVE  JarInv'
<1> DEFINE b == BrowserOf[t]
<1>1. b \in Browsers /\ tab[t] \in Tab
  BY RegistryAssumption DEF JarInv, TabsOK
<1>2. PICK v \in Tab :
        /\ v.pc = "reveal" /\ v.sent = flash[b] /\ v.page = NoSecret
        /\ tab' = [tab EXCEPT ![t] = v]
  <2> DEFINE w == [tab[t] EXCEPT !.pc = "reveal", !.sent = flash[b], !.page = NoSecret,
                    !.secret = IF tab[t].pc = "cookie" THEN tab[t].secret ELSE NoSecret]
  <2>1. flash[b] \in Secrets \cup {NoSecret}
    BY <1>1 DEF JarInv, TabsOK
  <2>2. w \in Tab /\ w.pc = "reveal" /\ w.sent = flash[b] /\ w.page = NoSecret
    BY <1>1, <2>1 DEF Tab
  <2>3. tab' = [tab EXCEPT ![t] = w]
    BY DEF RevealRequest, Reveals, Jar
  <2> QED
    BY <2>2, <2>3
<1>3. UNCHANGED <<flash, drawnBy, shown>>
  BY DEF RevealRequest
<1>4. /\ tab' \in [Tabs -> Tab] /\ tab'[t] = v
      /\ \A u \in Tabs \ {t} : tab'[u] = tab[u]
  BY <1>2 DEF JarInv, TabsOK
<1>5. TabsOK'
  BY <1>3, <1>4 DEF JarInv, TabsOK
<1>6. AnswersAreFresh'
  <2>1. ASSUME NEW u \in Tabs, Answering(u)'
        PROVE  (LET x == tab[u].secret IN
                /\ x \in Secrets /\ drawnBy[x] = u /\ x \notin shown
                /\ \A c \in Browsers : flash[c] # x
                /\ \A w \in Tabs : tab[w].sent # x)'
    <3>1. u # t /\ tab'[u] = tab[u] /\ Answering(u)
      BY <1>2, <1>4, <2>1 DEF Answering
    <3> DEFINE x == tab[u].secret
    <3>2. /\ x \in Secrets /\ drawnBy[x] = u /\ x \notin shown
          /\ \A c \in Browsers : flash[c] # x
          /\ \A w \in Tabs : tab[w].sent # x
      BY <3>1 DEF JarInv, AnswersAreFresh
    <3>3. tab'[u].secret = x /\ \A w \in Tabs : tab'[w].sent # x
      BY <1>1, <1>2, <1>4, <3>1, <3>2
    <3> HIDE DEF x
    <3> QED
      BY <1>3, <3>2, <3>3
  <2> QED
    BY <2>1 DEF AnswersAreFresh
<1>7. JarsAreOwn'
  <2>1. ASSUME NEW u \in Tabs
        PROVE  /\ (tab[u].sent # NoSecret => DrawnIn(tab[u].sent, BrowserOf[u]))'
               /\ (tab[u].page # NoSecret => DrawnIn(tab[u].page, BrowserOf[u]))'
    <3>1. CASE u = t
      BY <1>1, <1>2, <1>3, <1>4, <3>1 DEF JarInv, JarsAreOwn, DrawnIn
    <3>2. CASE u # t
      BY <1>3, <1>4, <3>2 DEF JarInv, JarsAreOwn, DrawnIn
    <3> QED
      BY <3>1, <3>2
  <2>2. (\A c \in Browsers : flash[c] # NoSecret => DrawnIn(flash[c], c) /\ flash[c] \notin shown)'
    BY <1>3 DEF JarInv, JarsAreOwn, DrawnIn
  <2>3. (\A x \in shown : drawnBy[x] \in Tabs)'
    BY <1>3 DEF JarInv, JarsAreOwn
  <2> QED
    BY <2>1, <2>2, <2>3 DEF JarsAreOwn
<1> QED
  BY <1>5, <1>6, <1>7 DEF JarInv

\* The page is displayed.  Its secret was drawn in this browser, so no other jar
\* holds it, and this one is emptied.
LEMMA ResponseStep ==
  ASSUME JarInv, NEW t \in Tabs, RevealResponse(t)
  PROVE  JarInv'
<1> DEFINE b == BrowserOf[t]
           s == tab[t].sent
           v == [tab[t] EXCEPT !.pc = "revealed", !.page = tab[t].sent]
<1>1. b \in Browsers /\ tab[t] \in Tab /\ s \in Secrets \cup {NoSecret}
  BY RegistryAssumption DEF JarInv, TabsOK, Tab
<1>2. v \in Tab /\ v.pc = "revealed" /\ v.sent = s /\ v.page = s
  BY <1>1 DEF Tab
<1>3. /\ flash' = [flash EXCEPT ![b] = NoSecret] /\ tab' = [tab EXCEPT ![t] = v]
      /\ shown' = shown \cup ({s} \ {NoSecret}) /\ drawnBy' = drawnBy
  BY DEF RevealResponse, Jar
<1>4. s # NoSecret => DrawnIn(s, b)
  BY DEF JarInv, JarsAreOwn
<1>5. \A u \in Tabs : Answering(u) => tab[u].secret # s
  BY DEF JarInv, AnswersAreFresh
<1> HIDE DEF b, s, v
<1>6. /\ tab' \in [Tabs -> Tab] /\ tab'[t] = v
      /\ \A u \in Tabs \ {t} : tab'[u] = tab[u]
  BY <1>2, <1>3 DEF JarInv, TabsOK
<1>7. /\ flash' \in [Browsers -> Secrets \cup {NoSecret}] /\ flash'[b] = NoSecret
      /\ \A c \in Browsers \ {b} : flash'[c] = flash[c]
  BY <1>1, <1>3 DEF JarInv, TabsOK
<1>8. TabsOK'
  BY <1>1, <1>3, <1>6, <1>7 DEF JarInv, TabsOK
<1>9. \A u \in Tabs : tab'[u].sent = tab[u].sent
  BY <1>2, <1>6 DEF s
<1>10. AnswersAreFresh'
  <2>1. ASSUME NEW u \in Tabs, Answering(u)'
        PROVE  (LET x == tab[u].secret IN
                /\ x \in Secrets /\ drawnBy[x] = u /\ x \notin shown
                /\ \A c \in Browsers : flash[c] # x
                /\ \A w \in Tabs : tab[w].sent # x)'
    <3>1. u # t /\ tab'[u] = tab[u] /\ Answering(u)
      BY <1>2, <1>6, <2>1 DEF Answering
    <3> DEFINE x == tab[u].secret
    <3>2. /\ x \in Secrets /\ drawnBy[x] = u /\ x \notin shown
          /\ \A c \in Browsers : flash[c] # x
          /\ \A w \in Tabs : tab[w].sent # x
      BY <3>1 DEF JarInv, AnswersAreFresh
    <3>3. tab'[u].secret = x /\ x # s /\ x # NoSecret
      BY <1>5, <3>1, <3>2, RegistryAssumption
    <3> HIDE DEF x
    <3> QED
      BY <1>3, <1>7, <1>9, <3>2, <3>3
  <2> QED
    BY <2>1 DEF AnswersAreFresh
<1>11. JarsAreOwn'
  <2>1. ASSUME NEW c \in Browsers, flash'[c] # NoSecret
        PROVE  DrawnIn(flash[c], c)' /\ flash'[c] \notin shown'
    <3>1. c # b /\ flash'[c] = flash[c] /\ DrawnIn(flash[c], c) /\ flash[c] \notin shown
      BY <1>7, <2>1 DEF JarInv, JarsAreOwn
    <3>2. flash[c] # s
      BY <1>4, <2>1, <3>1 DEF DrawnIn
    <3> QED
      BY <1>3, <3>1, <3>2 DEF DrawnIn
  <2>2. ASSUME NEW u \in Tabs
        PROVE  /\ (tab[u].sent # NoSecret => DrawnIn(tab[u].sent, BrowserOf[u]))'
               /\ (tab[u].page # NoSecret => DrawnIn(tab[u].page, BrowserOf[u]))'
    <3>1. CASE u = t
      BY <1>2, <1>3, <1>4, <1>6, <3>1 DEF DrawnIn, b
    <3>2. CASE u # t
      BY <1>3, <1>6, <3>2 DEF JarInv, JarsAreOwn, DrawnIn
    <3> QED
      BY <3>1, <3>2
  <2>3. (\A x \in shown : drawnBy[x] \in Tabs)'
    BY <1>3, <1>4 DEF JarInv, JarsAreOwn, DrawnIn
  <2> QED
    BY <2>1, <2>2, <2>3 DEF JarsAreOwn
<1> QED
  BY <1>8, <1>10, <1>11 DEF JarInv

LEMMA ExpiryStep ==
  ASSUME JarInv, NEW b \in Browsers, FlashExpires(b)
  PROVE  JarInv'
<1>1. /\ flash' \in [Browsers -> Secrets \cup {NoSecret}] /\ flash'[b] = NoSecret
      /\ \A c \in Browsers \ {b} : flash'[c] = flash[c]
      /\ UNCHANGED <<tab, drawnBy, shown>>
  BY DEF FlashExpires, JarInv, TabsOK
<1>2. TabsOK'
  BY <1>1 DEF JarInv, TabsOK
<1>3. AnswersAreFresh'
  <2>1. ASSUME NEW u \in Tabs, Answering(u), NEW c \in Browsers
        PROVE  flash'[c] # tab[u].secret
    BY <1>1, <2>1, RegistryAssumption DEF JarInv, AnswersAreFresh
  <2> QED
    BY <1>1, <2>1 DEF JarInv, AnswersAreFresh, Answering
<1>4. JarsAreOwn'
  BY <1>1 DEF JarInv, JarsAreOwn, DrawnIn
<1> QED
  BY <1>2, <1>3, <1>4 DEF JarInv

----------------------------------------------------------------------------

LEMMA TypeInit == Init => TypeOK
BY IdleFacts, RegistryAssumption DEF Init, TypeOK, Idle

\* A step that draws s for tab t and goes on to an answer.
LEMMA DrawsTypes ==
  ASSUME TypeOK, NEW t \in Tabs, NEW s \in Secrets, NEW target \in Apps \cup Users,
         NEW pc \in {"grant", "reply"}, Draws(t, s, target, pc),
         appClients' \in [Apps -> Client \cup {NoClient}],
         senhas' \in [Users -> Secrets \cup {NoSenha}]
  PROVE  TypeOK'
<1> DEFINE new == [Idle EXCEPT !.pc = pc, !.target = target, !.secret = s]
<1>1. new \in Tab /\ new.pc = pc /\ new.secret = s
  BY DEF Idle, Tab
<1>2. /\ drawnBy' = [drawnBy EXCEPT ![s] = t] /\ tab' = [tab EXCEPT ![t] = new]
      /\ UNCHANGED <<flash, shown, expired>>
  BY DEF Draws
<1> HIDE DEF new
<1> QED
  BY <1>1, <1>2 DEF TypeOK

\* A step that changes only the tab t, the jars and the histories of display.
LEMMA TabTypes ==
  ASSUME TypeOK, NEW t \in Tabs, NEW v \in Tab, tab' = [tab EXCEPT ![t] = v],
         v.pc = "upsert" => v.target \in Apps /\ v.uri \in Uris,
         v.pc \in {"grant", "reply"} => v.secret \in Secrets,
         flash' \in [Browsers -> Secrets \cup {NoSecret}], shown' \subseteq Secrets,
         UNCHANGED <<appClients, senhas, drawnBy, expired>>
  PROVE  TypeOK'
BY DEF TypeOK

LEMMA TypeStep == TypeOK /\ [Next]_vars => TypeOK'
<1> SUFFICES ASSUME TypeOK, [Next]_vars PROVE TypeOK'
  OBVIOUS
<1>1. \A t \in Tabs : tab[t] \in Tab /\ Jar(t) \in Browsers /\ flash[Jar(t)] \in Secrets \cup {NoSecret}
  BY RegistryAssumption DEF TypeOK, Jar
<1>2. ASSUME NEW t \in Tabs, NEW app \in Apps, NEW uri \in Uris, NEW s \in Secrets,
             Configurar(t, app, uri, s)
      PROVE  TypeOK'
  <2>1. /\ appClients' \in [Apps -> Client \cup {NoClient}]
        /\ senhas' \in [Users -> Secrets \cup {NoSenha}]
    BY <1>2 DEF Configurar, TypeOK, Client
  <2> QED
    BY <1>2, <2>1, DrawsTypes DEF Configurar
<1>3. ASSUME NEW t \in Tabs, NEW s \in Secrets, RegenerarUpsert(t, s)
      PROVE  TypeOK'
  <2>1. tab[t].target \in Apps /\ tab[t].uri \in Uris
    BY <1>3 DEF RegenerarUpsert, TypeOK
  <2>2. /\ appClients' \in [Apps -> Client \cup {NoClient}]
        /\ senhas' \in [Users -> Secrets \cup {NoSenha}]
    BY <1>3, <2>1 DEF RegenerarUpsert, TypeOK, Client
  <2> QED
    BY <1>3, <2>1, <2>2, DrawsTypes DEF RegenerarUpsert
<1>4. ASSUME NEW t \in Tabs, NEW u \in Users, NEW s \in Secrets,
             CriarUsuario(t, u, s) \/ RedefinirSenha(t, u, s)
      PROVE  TypeOK'
  <2>1. PICK pc \in {"grant", "reply"} : Draws(t, s, u, pc)
    BY <1>4 DEF CriarUsuario, RedefinirSenha
  <2>2. /\ appClients' \in [Apps -> Client \cup {NoClient}]
        /\ senhas' \in [Users -> Secrets \cup {NoSenha}]
    BY <1>4 DEF CriarUsuario, RedefinirSenha, TypeOK
  <2> QED
    BY <2>1, <2>2, DrawsTypes
<1>5. ASSUME NEW app \in Apps, NEW uri \in Uris, Editar(app, uri)
      PROVE  TypeOK'
  <2>1. appClients[app] \in Client
    BY <1>5 DEF Editar, TypeOK
  <2>2. [appClients[app] EXCEPT !.uri = uri] \in Client
    BY <2>1 DEF Client
  <2>3. appClients' \in [Apps -> Client \cup {NoClient}]
    BY <1>5, <2>2 DEF Editar, TypeOK
  <2> QED
    BY <1>5, <2>3 DEF Editar, TypeOK
<1>6. ASSUME NEW t \in Tabs, NEW app \in Apps, RegenerarFetch(t, app)
      PROVE  TypeOK'
  <2> DEFINE v == [Idle EXCEPT !.pc = "upsert", !.target = app, !.uri = appClients[app].uri]
  <2>1. appClients[app].uri \in Uris
    BY <1>6 DEF RegenerarFetch, TypeOK, Client
  <2>2. v \in Tab /\ v.pc = "upsert" /\ v.target \in Apps /\ v.uri \in Uris
    BY <2>1 DEF Idle, Tab
  <2>3. tab' = [tab EXCEPT ![t] = v]
    BY <1>6 DEF RegenerarFetch
  <2> HIDE DEF v
  <2> QED
    BY <1>6, <2>2, <2>3, TabTypes DEF RegenerarFetch, TypeOK
<1>7. ASSUME NEW t \in Tabs, GrantPapelInicial(t)
      PROVE  TypeOK'
  <2> DEFINE v == [tab[t] EXCEPT !.pc = "reply"]
  <2>1. v \in Tab /\ v.pc = "reply" /\ v.secret \in Secrets
    BY <1>1, <1>7 DEF GrantPapelInicial, Tab, TypeOK
  <2>2. tab' = [tab EXCEPT ![t] = v]
    BY <1>7 DEF GrantPapelInicial
  <2> HIDE DEF v
  <2> QED
    BY <1>7, <2>1, <2>2, TabTypes DEF GrantPapelInicial, TypeOK
<1>8. ASSUME NEW t \in Tabs, PostFail(t) \/ Leave(t)
      PROVE  TypeOK'
  BY <1>8, IdleFacts, TabTypes DEF PostFail, Leave, TypeOK
<1>9. ASSUME NEW t \in Tabs, ReceiveRedirect(t)
      PROVE  TypeOK'
  <2> DEFINE v == [tab[t] EXCEPT !.pc = "cookie"]
  <2>1. v \in Tab /\ v.pc = "cookie"
    BY <1>1 DEF Tab
  <2>2. tab' = [tab EXCEPT ![t] = v] /\ tab[t].secret \in Secrets
    BY <1>9 DEF ReceiveRedirect, TypeOK
  <2>3. flash' \in [Browsers -> Secrets \cup {NoSecret}]
    BY <1>1, <1>9, <2>2 DEF ReceiveRedirect, TypeOK
  <2> HIDE DEF v
  <2> QED
    BY <1>9, <2>1, <2>2, <2>3, TabTypes DEF ReceiveRedirect, TypeOK
<1>10. ASSUME NEW t \in Tabs, RevealRequest(t)
      PROVE  TypeOK'
  <2> DEFINE v == [tab[t] EXCEPT !.pc = "reveal", !.sent = flash[Jar(t)], !.page = NoSecret,
                    !.secret = IF tab[t].pc = "cookie" THEN tab[t].secret ELSE NoSecret]
  <2>1. v \in Tab /\ v.pc = "reveal"
    BY <1>1 DEF Tab
  <2>2. tab' = [tab EXCEPT ![t] = v]
    BY <1>10 DEF RevealRequest, Reveals
  <2> HIDE DEF v
  <2> QED
    BY <1>10, <2>1, <2>2, TabTypes DEF RevealRequest, TypeOK
<1>11. ASSUME NEW t \in Tabs, RevealResponse(t)
      PROVE  TypeOK'
  <2> DEFINE v == [tab[t] EXCEPT !.pc = "revealed", !.page = tab[t].sent]
  <2>1. v \in Tab /\ v.pc = "revealed" /\ tab[t].sent \in Secrets \cup {NoSecret}
    BY <1>1 DEF Tab
  <2>2. tab' = [tab EXCEPT ![t] = v]
    BY <1>11 DEF RevealResponse
  <2>3. flash' \in [Browsers -> Secrets \cup {NoSecret}] /\ shown' \subseteq Secrets
    BY <1>1, <1>11, <2>1 DEF RevealResponse, TypeOK
  <2> HIDE DEF v
  <2> QED
    BY <1>11, <2>1, <2>2, <2>3, TabTypes DEF RevealResponse
<1>12. ASSUME NEW t \in Tabs, RevealLost(t)
      PROVE  TypeOK'
  <2> DEFINE v == [tab[t] EXCEPT !.pc = "cookie", !.sent = NoSecret]
  <2>1. v \in Tab /\ v.pc = "cookie"
    BY <1>1 DEF Tab
  <2>2. tab' = [tab EXCEPT ![t] = v]
    BY <1>12 DEF RevealLost
  <2> HIDE DEF v
  <2> QED
    BY <1>12, <2>1, <2>2, TabTypes DEF RevealLost, TypeOK
<1>13. ASSUME NEW b \in Browsers, FlashExpires(b)
       PROVE  TypeOK'
  BY <1>13 DEF FlashExpires, TypeOK
<1>14. CASE UNCHANGED vars
  BY <1>14 DEF vars, TypeOK
<1> QED
  BY <1>2, <1>3, <1>4, <1>5, <1>6, <1>7, <1>8, <1>9, <1>10, <1>11, <1>12, <1>13, <1>14 DEF Next

\* Tables, cookies and tabs always hold what they can hold, whatever requests
\* interleave, fail or lose their answers.
THEOREM RegistryTypeCorrect == Spec => []TypeOK
BY TypeInit, TypeStep, PTL DEF Spec

LEMMA JarStep == TypeOK /\ JarInv /\ [Next]_vars => JarInv'
<1> SUFFICES ASSUME TypeOK, JarInv, [Next]_vars PROVE JarInv'
  OBVIOUS
<1>1. ASSUME NEW t \in Tabs, NEW app \in Apps, NEW uri \in Uris, NEW s \in Secrets,
             Configurar(t, app, uri, s)
      PROVE  JarInv'
  BY <1>1, DrawsStep DEF Configurar
<1>2. ASSUME NEW t \in Tabs, NEW s \in Secrets, RegenerarUpsert(t, s)
      PROVE  JarInv'
  <2>1. tab[t].target \in Apps
    BY <1>2 DEF RegenerarUpsert, TypeOK
  <2> QED
    BY <1>2, <2>1, DrawsStep DEF RegenerarUpsert
<1>3. ASSUME NEW t \in Tabs, NEW u \in Users, NEW s \in Secrets,
             CriarUsuario(t, u, s) \/ RedefinirSenha(t, u, s)
      PROVE  JarInv'
  <2>1. PICK pc \in {"grant", "reply"} : Draws(t, s, u, pc)
    BY <1>3 DEF CriarUsuario, RedefinirSenha
  <2> QED
    BY <2>1, DrawsStep
<1>4. ASSUME UNCHANGED <<flash, tab, drawnBy, shown>>
      PROVE  JarInv'
  BY <1>4 DEF JarInv, TabsOK, AnswersAreFresh, JarsAreOwn, Answering, DrawnIn
<1>5. ASSUME NEW app \in Apps, NEW uri \in Uris, Editar(app, uri)
      PROVE  JarInv'
  BY <1>4, <1>5 DEF Editar
<1>6. ASSUME NEW t \in Tabs,
             \/ \E app \in Apps : RegenerarFetch(t, app)
             \/ GrantPapelInicial(t) \/ PostFail(t) \/ RevealLost(t) \/ Leave(t)
      PROVE  JarInv'
  BY <1>6, QuietTabSteps DEF TypeOK
<1>7. ASSUME NEW t \in Tabs, ReceiveRedirect(t) \/ RevealRequest(t) \/ RevealResponse(t)
      PROVE  JarInv'
  BY <1>7, RedirectStep, RequestStep, ResponseStep
<1>8. ASSUME NEW b \in Browsers, FlashExpires(b)
      PROVE  JarInv'
  BY <1>8, ExpiryStep
<1>9. CASE UNCHANGED vars
  BY <1>4, <1>9 DEF vars
<1> QED
  BY <1>1, <1>2, <1>3, <1>5, <1>6, <1>7, <1>8, <1>9 DEF Next

LEMMA JarInvariant == Spec => []JarInv
BY JarInit, JarStep, RegistryTypeCorrect, PTL DEF Spec

\* A displayed secret is in no cookie any more, however many tabs and browsers
\* are open and whatever answers are lost (OneTimeSecretCookie).
THEOREM DisplayedForgotten == Spec => []DisplayedIsForgotten
<1>1. JarInv => DisplayedIsForgotten
  BY RegistryAssumption DEF JarInv, TabsOK, JarsAreOwn, DisplayedIsForgotten
<1> QED
  BY <1>1, JarInvariant, PTL

\* A page never shows a secret that was drawn for another browser's request,
\* however many administrators rotate the same client at the same time.
THEOREM PagesStayHome == Spec => []PageStaysInItsBrowser
<1>1. JarInv => PageStaysInItsBrowser
  BY DEF JarInv, JarsAreOwn, DrawnIn, PageStaysInItsBrowser
<1> QED
  BY <1>1, JarInvariant, PTL

\* A client_secret changes only in a step whose answer will show it, whatever
\* is edited or fails meanwhile.
THEOREM RotationsAnswered == Spec => RotationsAreAnswered
<1> DEFINE Answered ==
      \A app \in Apps :
        LET new == appClients'[app] IN
        /\ new # NoClient
        /\ appClients[app] = NoClient \/ appClients[app].secret # new.secret
        => \E t \in Tabs : tab'[t].pc = "reply" /\ tab'[t].target = app /\ tab'[t].secret = new.secret
<1>1. ASSUME NEW t \in Tabs, NEW app \in Apps, NEW s \in Secrets, NEW uri, TypeOK,
             Draws(t, s, app, "reply"),
             appClients' = [appClients EXCEPT ![app] = [secret |-> s, uri |-> uri]]
      PROVE  Answered
  <2>1. tab'[t].pc = "reply" /\ tab'[t].target = app /\ tab'[t].secret = s
    BY <1>1 DEF Draws, TypeOK, Idle
  <2>2. /\ appClients'[app].secret = s
        /\ \A x \in Apps \ {app} : appClients'[x] = appClients[x]
    BY <1>1 DEF TypeOK
  <2> QED
    BY <2>1, <2>2
<1>2. TypeOK /\ [Next]_vars => [Answered]_vars
  <2> SUFFICES ASSUME TypeOK, Next PROVE Answered
    BY DEF vars
  <2>1. ASSUME NEW app \in Apps, NEW uri \in Uris, Editar(app, uri)
        PROVE  Answered
    <3>1. appClients[app] \in Client /\ appClients'[app] = [appClients[app] EXCEPT !.uri = uri]
      BY <2>1 DEF Editar, TypeOK
    <3>2. appClients'[app].secret = appClients[app].secret
      BY <3>1 DEF Client
    <3>3. \A x \in Apps \ {app} : appClients'[x] = appClients[x]
      BY <2>1 DEF Editar, TypeOK
    <3> QED
      BY <2>1, <3>2, <3>3 DEF Editar
  <2>2. ASSUME NEW t \in Tabs, NEW app \in Apps, NEW uri \in Uris, NEW s \in Secrets,
               Configurar(t, app, uri, s)
        PROVE  Answered
    BY <1>1, <2>2 DEF Configurar
  <2>3. ASSUME NEW t \in Tabs, NEW s \in Secrets, RegenerarUpsert(t, s)
        PROVE  Answered
    BY <1>1, <2>3 DEF RegenerarUpsert, TypeOK
  <2>4. CASE UNCHANGED appClients
    BY <2>4
  <2> HIDE DEF Answered
  <2> QED
    BY <2>1, <2>2, <2>3, <2>4
    DEF Next, RegenerarFetch, CriarUsuario, RedefinirSenha, GrantPapelInicial, PostFail,
      ReceiveRedirect, RevealRequest, RevealResponse, RevealLost, Leave, FlashExpires
<1> QED
  BY <1>2, RegistryTypeCorrect, PTL DEF Spec, RotationsAreAnswered

----------------------------------------------------------------------------

\* The secret of a tab that shares its jar with no other stays in that jar until
\* the page displays it or its time is over; every request for the page takes it.
Kept(t) ==
  /\ tab[t].pc \in {"cookie", "reveal"} => flash[Jar(t)] = tab[t].secret
  /\ tab[t].pc = "reveal" => tab[t].sent = tab[t].secret
  /\ tab[t].pc = "revealed" => tab[t].page = tab[t].secret

LoneInv ==
  \A t \in Tabs :
    Lone(t) /\ tab[t].secret # NoSecret /\ tab[t].secret \notin expired => Kept(t)

\* Others leave a lone tab's jar alone.
LEMMA OthersStep ==
  ASSUME TypeOK, LoneInv, NEW t \in Tabs,
         \A u \in Tabs \ {t} : tab'[u] = tab[u],
         \A c \in Browsers \ {Jar(t)} : flash'[c] = flash[c],
         expired' = expired,
         Lone(t) /\ tab'[t].secret # NoSecret /\ tab'[t].secret \notin expired => Kept(t)'
  PROVE  LoneInv'
<1> SUFFICES ASSUME NEW u \in Tabs, u # t, Lone(u),
                    (tab[u].secret # NoSecret /\ tab[u].secret \notin expired)'
             PROVE  Kept(u)'
  BY DEF LoneInv, Lone
<1>1. Jar(u) \in Browsers \ {Jar(t)}
  BY RegistryAssumption DEF Lone, Jar
<1>2. tab'[u] = tab[u] /\ flash'[Jar(u)] = flash[Jar(u)] /\ Kept(u)
  BY <1>1 DEF LoneInv
<1> QED
  BY <1>2 DEF Kept, Jar

LEMMA LoneStep == TypeOK /\ LoneInv /\ [Next]_vars => LoneInv'
<1> SUFFICES ASSUME TypeOK, LoneInv, [Next]_vars PROVE LoneInv'
  OBVIOUS
<1> USE RegistryAssumption
<1>1. ASSUME UNCHANGED <<flash, tab, expired>> PROVE LoneInv'
  BY <1>1 DEF LoneInv, Lone, Kept, Jar
<1>2. ASSUME NEW t \in Tabs, NEW s \in Secrets, NEW target, NEW pc \in {"grant", "reply"},
             Draws(t, s, target, pc)
      PROVE  LoneInv'
  <2>1. /\ tab'[t].pc = pc /\ \A u \in Tabs \ {t} : tab'[u] = tab[u]
        /\ flash' = flash /\ expired' = expired
    BY <1>2 DEF Draws, TypeOK, Idle
  <2> QED
    BY <2>1, OthersStep DEF Kept
<1>3. ASSUME NEW t \in Tabs, PostFail(t) \/ Leave(t) \/ \E app \in Apps : RegenerarFetch(t, app)
      PROVE  LoneInv'
  <2>1. /\ tab'[t].secret = NoSecret /\ \A u \in Tabs \ {t} : tab'[u] = tab[u]
        /\ flash' = flash /\ expired' = expired
    <3>1. PICK v : v.secret = NoSecret /\ tab' = [tab EXCEPT ![t] = v]
      <4>1. CASE PostFail(t) \/ Leave(t)
        BY <4>1 DEF PostFail, Leave, Idle
      <4>2. CASE \E app \in Apps : RegenerarFetch(t, app)
        BY <4>2 DEF RegenerarFetch, Idle
      <4> QED
        BY <1>3, <4>1, <4>2
    <3> QED
      BY <1>3, <3>1 DEF PostFail, Leave, RegenerarFetch, TypeOK
  <2> QED
    BY <2>1, OthersStep
<1>4. ASSUME NEW t \in Tabs, GrantPapelInicial(t)
      PROVE  LoneInv'
  <2>1. /\ tab'[t].pc = "reply" /\ \A u \in Tabs \ {t} : tab'[u] = tab[u]
        /\ flash' = flash /\ expired' = expired
    BY <1>4 DEF GrantPapelInicial, TypeOK, Tab
  <2> QED
    BY <2>1, OthersStep DEF Kept
<1>5. ASSUME NEW t \in Tabs, ReceiveRedirect(t)
      PROVE  LoneInv'
  <2>1. /\ tab'[t].pc = "cookie" /\ tab'[t].secret = tab[t].secret
        /\ \A u \in Tabs \ {t} : tab'[u] = tab[u]
    BY <1>5 DEF ReceiveRedirect, TypeOK, Tab
  <2>2. /\ flash'[Jar(t)] = tab[t].secret /\ expired' = expired
        /\ \A c \in Browsers \ {Jar(t)} : flash'[c] = flash[c]
    BY <1>5 DEF ReceiveRedirect, TypeOK, Jar
  <2>3. Kept(t)'
    BY <2>1, <2>2 DEF Kept, Jar
  <2> QED
    BY <2>1, <2>2, <2>3, OthersStep
<1>6. ASSUME NEW t \in Tabs, RevealRequest(t)
      PROVE  LoneInv'
  <2>1. /\ tab'[t].pc = "reveal" /\ tab'[t].sent = flash[Jar(t)]
        /\ tab'[t].secret = IF tab[t].pc = "cookie" THEN tab[t].secret ELSE NoSecret
        /\ \A u \in Tabs \ {t} : tab'[u] = tab[u]
        /\ flash' = flash /\ expired' = expired
    BY <1>6 DEF RevealRequest, Reveals, TypeOK, Tab
  <2>2. Lone(t) /\ tab'[t].secret # NoSecret /\ tab'[t].secret \notin expired => Kept(t)'
    BY <2>1 DEF LoneInv, Kept, Jar
  <2> QED
    BY <2>1, <2>2, OthersStep
<1>7. ASSUME NEW t \in Tabs, RevealResponse(t)
      PROVE  LoneInv'
  <2>1. /\ tab[t].pc = "reveal" /\ tab'[t].pc = "revealed" /\ tab'[t].page = tab[t].sent
        /\ tab'[t].secret = tab[t].secret
        /\ \A u \in Tabs \ {t} : tab'[u] = tab[u]
    BY <1>7 DEF RevealResponse, TypeOK, Tab
  <2>2. /\ expired' = expired
        /\ \A c \in Browsers \ {Jar(t)} : flash'[c] = flash[c]
    BY <1>7 DEF RevealResponse, TypeOK
  <2>3. Lone(t) /\ tab'[t].secret # NoSecret /\ tab'[t].secret \notin expired => Kept(t)'
    BY <2>1, <2>2 DEF LoneInv, Kept
  <2> QED
    BY <2>1, <2>2, <2>3, OthersStep
<1>8. ASSUME NEW t \in Tabs, RevealLost(t)
      PROVE  LoneInv'
  <2>1. /\ tab[t].pc = "reveal" /\ tab'[t].pc = "cookie" /\ tab'[t].secret = tab[t].secret
        /\ \A u \in Tabs \ {t} : tab'[u] = tab[u]
        /\ flash' = flash /\ expired' = expired
    BY <1>8 DEF RevealLost, TypeOK, Tab
  <2>2. Lone(t) /\ tab'[t].secret # NoSecret /\ tab'[t].secret \notin expired => Kept(t)'
    BY <2>1 DEF LoneInv, Kept, Jar
  <2> QED
    BY <2>1, <2>2, OthersStep
<1>9. ASSUME NEW b \in Browsers, FlashExpires(b)
      PROVE  LoneInv'
  <2>1. /\ tab' = tab /\ expired' = expired \cup {flash[b]}
        /\ \A c \in Browsers \ {b} : flash'[c] = flash[c]
    BY <1>9 DEF FlashExpires, TypeOK
  <2> SUFFICES ASSUME NEW t \in Tabs, Lone(t), tab[t].secret # NoSecret,
                      tab[t].secret \notin expired'
               PROVE  Kept(t)'
    BY <2>1 DEF LoneInv, Lone
  <2>2. Kept(t) /\ tab[t].secret # flash[b] /\ Jar(t) \in Browsers
    BY <2>1 DEF LoneInv, Jar
  <2> QED
    BY <2>1, <2>2 DEF Kept, Jar
<1>10. CASE UNCHANGED vars
  BY <1>1, <1>10 DEF vars
<1>11. ASSUME NEW app \in Apps, NEW uri \in Uris, Editar(app, uri)
       PROVE  LoneInv'
  BY <1>1, <1>11 DEF Editar
<1>12. ASSUME NEW t \in Tabs, NEW s \in Secrets,
              \/ \E app \in Apps, uri \in Uris : Configurar(t, app, uri, s)
              \/ RegenerarUpsert(t, s)
              \/ \E u \in Users : CriarUsuario(t, u, s) \/ RedefinirSenha(t, u, s)
       PROVE  LoneInv'
  BY <1>2, <1>12 DEF Configurar, RegenerarUpsert, CriarUsuario, RedefinirSenha
<1> QED
  BY <1>3, <1>4, <1>5, <1>6, <1>7, <1>8, <1>9, <1>10, <1>11, <1>12 DEF Next

\* An administrator who works in one tab sees the secret that was drawn, after
\* whatever losses and retries, within its five minutes.
THEOREM LoneTabSees == Spec => []LoneTabShowsItsSecret
<1>1. Init => LoneInv
  BY IdleFacts DEF Init, LoneInv, Kept, Idle
<1>2. LoneInv => LoneTabShowsItsSecret
  BY DEF LoneInv, Kept, LoneTabShowsItsSecret, Shows
<1> QED
  BY <1>1, <1>2, LoneStep, RegistryTypeCorrect, PTL DEF Spec

----------------------------------------------------------------------------
(* The registry implements OneTimeReveal *)

\* The abstract owner of each secret.
OwnerOf == [s \in Secrets |-> IF drawnBy[s] = NoTab THEN NoTab ELSE BrowserOf[drawnBy[s]]]

\* A secret drawn in a browser belongs to it.
LEMMA OwnerFacts ==
  ASSUME NEW s \in Secrets, NEW b \in Browsers, DrawnIn(s, b)
  PROVE  OwnerOf[s] = b
BY RegistryAssumption DEF OwnerOf, DrawnIn

\* Storing a credential is making it, for the browser of the request.
LEMMA MakeStep ==
  ASSUME JarInv, NEW t \in Tabs, NEW s \in Secrets, NEW target, NEW pc, Draws(t, s, target, pc)
  PROVE  OneTime!Make(s, BrowserOf[t])
<1>1. /\ drawnBy[s] = NoTab /\ drawnBy' = [drawnBy EXCEPT ![s] = t]
      /\ flash' = flash /\ shown' = shown
  BY DEF Draws
<1>2. drawnBy \in [Secrets -> Tabs \cup {NoTab}]
  BY DEF JarInv, TabsOK
<1>3. OwnerOf[s] = NoTab /\ OwnerOf' = [OwnerOf EXCEPT ![s] = BrowserOf[t]]
  BY <1>1, <1>2, RegistryAssumption DEF OwnerOf
<1> QED
  BY <1>1, <1>3 DEF OneTime!Make, OwnerOf

\* The redirect offers the secret, fresh, to the browser it was drawn in.
LEMMA OfferStep ==
  ASSUME JarInv, NEW t \in Tabs, ReceiveRedirect(t)
  PROVE  OneTime!Offer(tab[t].secret, BrowserOf[t]) /\ tab[t].secret \in Secrets
<1> DEFINE s == tab[t].secret
<1>1. s \in Secrets /\ drawnBy[s] = t /\ s \notin shown
  BY DEF ReceiveRedirect, JarInv, AnswersAreFresh, Answering
<1>2. /\ flash' = [flash EXCEPT ![BrowserOf[t]] = s]
      /\ drawnBy' = drawnBy /\ shown' = shown
  BY DEF ReceiveRedirect, Jar
<1>3. OwnerOf[s] = BrowserOf[t] /\ OwnerOf' = OwnerOf
  BY <1>1, <1>2, RegistryAssumption DEF OwnerOf
<1> QED
  BY <1>1, <1>2, <1>3 DEF OneTime!Offer, OwnerOf

\* The page displays what its request carried, which was drawn in its browser,
\* or has nothing to show; either way the offer is over.
LEMMA DisplayStep ==
  ASSUME JarInv, NEW t \in Tabs, RevealResponse(t)
  PROVE  OneTime!RevealNext
<1> DEFINE b == BrowserOf[t]
           s == tab[t].sent
<1>1. b \in Browsers /\ s \in Secrets \cup {NoSecret}
  BY RegistryAssumption DEF JarInv, TabsOK, Tab
<1>2. /\ shown' = shown \cup ({s} \ {NoSecret})
      /\ flash' = [flash EXCEPT ![b] = NoSecret] /\ drawnBy' = drawnBy
  BY DEF RevealResponse, Jar
<1>3. OwnerOf' = OwnerOf
  BY <1>2 DEF OwnerOf
<1>4. CASE s = NoSecret
  <2>1. OneTime!Withdraw(b)
    BY <1>2, <1>3, <1>4 DEF OneTime!Withdraw, OwnerOf
  <2> QED
    BY <1>1, <2>1 DEF OneTime!RevealNext
<1>5. CASE s # NoSecret
  <2>1. OwnerOf[s] = b
    BY <1>1, <1>5, OwnerFacts DEF JarInv, JarsAreOwn
  <2>2. OneTime!Display(s, b)
    BY <1>2, <1>3, <1>5, <2>1 DEF OneTime!Display, OwnerOf
  <2> QED
    BY <1>1, <1>5, <2>2 DEF OneTime!RevealNext
<1> QED
  BY <1>4, <1>5

LEMMA RevealedStep ==
  TypeOK /\ JarInv /\ [Next]_vars => [OneTime!RevealNext]_(OneTime!revealVars)
<1> SUFFICES ASSUME TypeOK, JarInv, [Next]_vars
             PROVE  OneTime!RevealNext \/ (OwnerOf' = OwnerOf /\ flash' = flash /\ shown' = shown)
  BY DEF OneTime!revealVars, OwnerOf
<1>1. CASE UNCHANGED <<flash, shown, drawnBy>>
  BY <1>1 DEF OwnerOf
<1>2. ASSUME NEW t \in Tabs, NEW s \in Secrets, NEW target, NEW pc, Draws(t, s, target, pc)
      PROVE  OneTime!RevealNext
  BY <1>2, MakeStep, RegistryAssumption DEF OneTime!RevealNext
<1>3. ASSUME NEW t \in Tabs, ReceiveRedirect(t)
      PROVE  OneTime!RevealNext
  BY <1>3, OfferStep, RegistryAssumption DEF OneTime!RevealNext
<1>4. ASSUME NEW t \in Tabs, RevealResponse(t)
      PROVE  OneTime!RevealNext
  BY <1>4, DisplayStep
<1>5. ASSUME NEW b \in Browsers, FlashExpires(b)
      PROVE  OneTime!RevealNext
  <2>1. OneTime!Withdraw(b)
    BY <1>5 DEF FlashExpires, OneTime!Withdraw
  <2> QED
    BY <2>1 DEF OneTime!RevealNext
<1>6. ASSUME NEW t \in Tabs, NEW s \in Secrets,
             \/ \E app \in Apps, uri \in Uris : Configurar(t, app, uri, s)
             \/ RegenerarUpsert(t, s)
             \/ \E u \in Users : CriarUsuario(t, u, s) \/ RedefinirSenha(t, u, s)
      PROVE  OneTime!RevealNext
  BY <1>2, <1>6 DEF Configurar, RegenerarUpsert, CriarUsuario, RedefinirSenha
<1>7. ASSUME NEW t \in Tabs,
             \/ \E app \in Apps : RegenerarFetch(t, app)
             \/ GrantPapelInicial(t) \/ PostFail(t)
             \/ RevealRequest(t) \/ RevealLost(t) \/ Leave(t)
      PROVE  UNCHANGED <<flash, shown, drawnBy>>
  <2>1. ASSUME NEW app \in Apps, RegenerarFetch(t, app)
        PROVE  UNCHANGED <<flash, shown, drawnBy>>
    BY <2>1, Zenon DEF RegenerarFetch
  <2>2. CASE GrantPapelInicial(t)
    BY <2>2, Zenon DEF GrantPapelInicial
  <2>3. CASE PostFail(t) \/ Leave(t)
    BY <2>3 DEF PostFail, Leave
  <2>4. CASE RevealRequest(t)
    BY <2>4 DEF RevealRequest
  <2>5. CASE RevealLost(t)
    BY <2>5, Zenon DEF RevealLost
  <2> QED
    BY <1>7, <2>1, <2>2, <2>3, <2>4, <2>5
<1>8. ASSUME NEW app \in Apps, NEW uri \in Uris, Editar(app, uri)
      PROVE  UNCHANGED <<flash, shown, drawnBy>>
  BY <1>8 DEF Editar
<1>9. CASE UNCHANGED vars
  BY <1>1, <1>9 DEF vars
<1> QED
  BY <1>1, <1>3, <1>4, <1>5, <1>6, <1>7, <1>8, <1>9 DEF Next

\* Whatever tabs overlap and whatever is lost, a credential is made for one
\* browser, offered there only, and not any more once it has been displayed.
THEOREM RegistryImplementsOneTimeReveal == Spec => ImplementsOneTimeReveal
<1>1. Init => OneTime!RevealInit
  BY DEF Init, OneTime!RevealInit
<1> QED
  BY <1>1, RevealedStep, RegistryTypeCorrect, JarInvariant, PTL
  DEF Spec, ImplementsOneTimeReveal, OneTime!RevealSpec

----------------------------------------------------------------------------
(* The registry implements RotatingSecrets *)

\* The abstract state: the secret of each client, and the values drawn so far.
InForce ==
  [app \in Apps |-> IF appClients[app] = NoClient THEN NoSecret ELSE appClients[app].secret]

Drawn == {s \in Secrets : drawnBy[s] # NoTab}

\* A draw adds one value, which was not among the drawn ones.
LEMMA DrawnStep ==
  ASSUME TypeOK, NEW t \in Tabs, NEW s \in Secrets, NEW target, NEW pc, Draws(t, s, target, pc)
  PROVE  s \notin Drawn /\ Drawn' = Drawn \cup {s}
<1>1. /\ drawnBy[s] = NoTab /\ drawnBy'[s] = t
      /\ \A x \in Secrets \ {s} : drawnBy'[x] = drawnBy[x]
  BY DEF Draws, TypeOK
<1> QED
  BY <1>1, RegistryAssumption DEF Drawn

\* Replacing one client's row replaces its secret and no other's.
LEMMA InForceStep ==
  ASSUME TypeOK, NEW app \in Apps, NEW client \in Client,
         appClients' = [appClients EXCEPT ![app] = client]
  PROVE  InForce' = [InForce EXCEPT ![app] = client.secret]
<1>1. /\ appClients'[app] = client
      /\ \A x \in Apps \ {app} : appClients'[x] = appClients[x]
  BY DEF TypeOK
<1>2. client # NoClient
  BY RegistryAssumption DEF Client
<1>3. InForce'[app] = client.secret /\ \A x \in Apps \ {app} : InForce'[x] = InForce[x]
  BY <1>1, <1>2 DEF InForce
<1>4. /\ InForce = [x \in Apps |-> InForce[x]]
      /\ InForce' = [x \in Apps |-> InForce'[x]]
  BY DEF InForce
<1> HIDE DEF InForce
<1> QED
  BY <1>3, <1>4

\* The actions of the registry are rotations, draws for a password, or leave
\* every secret as it is.
LEMMA RotatingCases ==
  TypeOK /\ [Next]_vars =>
    \/ \E app \in Apps, s \in Secrets :
         s \notin Drawn /\ Drawn' = Drawn \cup {s} /\ InForce' = [InForce EXCEPT ![app] = s]
    \/ \E s \in Secrets : s \notin Drawn /\ Drawn' = Drawn \cup {s} /\ InForce' = InForce
    \/ Drawn' = Drawn /\ InForce' = InForce
<1> DEFINE Rotated(app, s) ==
             s \notin Drawn /\ Drawn' = Drawn \cup {s} /\ InForce' = [InForce EXCEPT ![app] = s]
           Used(s) == s \notin Drawn /\ Drawn' = Drawn \cup {s} /\ InForce' = InForce
           Same == Drawn' = Drawn /\ InForce' = InForce
<1> SUFFICES ASSUME TypeOK, [Next]_vars
             PROVE  \/ \E app \in Apps, s \in Secrets : Rotated(app, s)
                    \/ \E s \in Secrets : Used(s)
                    \/ Same
  OBVIOUS
<1>1. CASE UNCHANGED <<appClients, drawnBy>>
  BY <1>1 DEF Drawn, InForce
<1>2. ASSUME NEW t \in Tabs, NEW app \in Apps, NEW s \in Secrets, NEW uri \in Uris,
             Draws(t, s, app, "reply"),
             appClients' = [appClients EXCEPT ![app] = [secret |-> s, uri |-> uri]]
      PROVE  Rotated(app, s)
  <2>1. [secret |-> s, uri |-> uri] \in Client /\ [secret |-> s, uri |-> uri].secret = s
    BY DEF Client
  <2> QED
    BY <1>2, <2>1, DrawnStep, InForceStep
<1>3. ASSUME NEW t \in Tabs, NEW app \in Apps, NEW uri \in Uris, NEW s \in Secrets,
             Configurar(t, app, uri, s)
      PROVE  Rotated(app, s)
  BY <1>2, <1>3 DEF Configurar
<1>4. ASSUME NEW t \in Tabs, NEW s \in Secrets, RegenerarUpsert(t, s)
      PROVE  \E app \in Apps : Rotated(app, s)
  <2>1. tab[t].target \in Apps /\ tab[t].uri \in Uris
    BY <1>4 DEF RegenerarUpsert, TypeOK
  <2> QED
    BY <1>2, <1>4, <2>1 DEF RegenerarUpsert
<1>5. ASSUME NEW t \in Tabs, NEW u \in Users, NEW s \in Secrets,
             CriarUsuario(t, u, s) \/ RedefinirSenha(t, u, s)
      PROVE  Used(s)
  <2>1. PICK pc : Draws(t, s, u, pc)
    BY <1>5 DEF CriarUsuario, RedefinirSenha
  <2>2. InForce' = InForce
    BY <1>5 DEF CriarUsuario, RedefinirSenha, InForce
  <2> QED
    BY <2>1, <2>2, DrawnStep
<1>6. ASSUME NEW app \in Apps, NEW uri \in Uris, Editar(app, uri)
      PROVE  Same
  <2> DEFINE client == [appClients[app] EXCEPT !.uri = uri]
  <2>1. /\ appClients[app] \in Client /\ drawnBy' = drawnBy
        /\ appClients' = [appClients EXCEPT ![app] = client]
    BY <1>6 DEF Editar, TypeOK
  <2>2. client \in Client /\ client.secret = appClients[app].secret
    BY <2>1 DEF Client
  <2>3. InForce[app] = appClients[app].secret /\ DOMAIN InForce = Apps
    BY <1>6 DEF InForce, Editar
  <2> HIDE DEF client
  <2>4. InForce' = [InForce EXCEPT ![app] = client.secret]
    BY <2>1, <2>2, InForceStep
  <2>5. InForce' = InForce
    BY <2>2, <2>3, <2>4 DEF InForce
  <2> QED
    BY <2>1, <2>5 DEF Drawn
<1>7. ASSUME NEW t \in Tabs,
             \/ \E app \in Apps : RegenerarFetch(t, app)
             \/ GrantPapelInicial(t) \/ PostFail(t) \/ ReceiveRedirect(t)
             \/ RevealRequest(t) \/ RevealResponse(t) \/ RevealLost(t) \/ Leave(t)
      PROVE  UNCHANGED <<appClients, drawnBy>>
  BY <1>7, Zenon DEF RegenerarFetch, GrantPapelInicial, PostFail, ReceiveRedirect,
     RevealRequest, RevealResponse, RevealLost, Leave
<1>8. ASSUME NEW b \in Browsers, FlashExpires(b)
      PROVE  UNCHANGED <<appClients, drawnBy>>
  BY <1>8 DEF FlashExpires
<1>9. CASE UNCHANGED vars
  BY <1>1, <1>9 DEF vars
<1> HIDE DEF Rotated, Used, Same
<1> QED
  BY <1>1, <1>3, <1>4, <1>5, <1>6, <1>7, <1>8, <1>9 DEF Next

LEMMA RotatingStep ==
  TypeOK /\ [Next]_vars => [Rotating!RotationNext]_(Rotating!rotationVars)
<1> SUFFICES ASSUME TypeOK, [Next]_vars
             PROVE  Rotating!RotationNext \/ (InForce' = InForce /\ Drawn' = Drawn)
  BY DEF Rotating!rotationVars, InForce, Drawn
<1>1. ASSUME NEW app \in Apps, NEW s \in Secrets,
             s \notin Drawn, Drawn' = Drawn \cup {s}, InForce' = [InForce EXCEPT ![app] = s]
      PROVE  Rotating!RotationNext
  <2>1. Rotating!Rotate(app, s)
    BY <1>1 DEF Rotating!Rotate, InForce, Drawn
  <2> QED
    BY <2>1 DEF Rotating!RotationNext
<1>2. ASSUME NEW s \in Secrets, s \notin Drawn, Drawn' = Drawn \cup {s}, InForce' = InForce
      PROVE  Rotating!RotationNext
  <2>1. Rotating!Draw(s)
    BY <1>2 DEF Rotating!Draw, InForce, Drawn
  <2> QED
    BY <2>1 DEF Rotating!RotationNext
<1> QED
  BY <1>1, <1>2, RotatingCases

\* Whatever requests overlap or are lost, a client's secret is only ever replaced
\* by one drawn for it, and every draw is new: the registry implements RotatingSecrets.
THEOREM RegistryImplementsRotatingSecrets == Spec => ImplementsRotatingSecrets
<1>1. Init => Rotating!RotationInit
  BY DEF Init, Rotating!RotationInit
<1> QED
  BY <1>1, RotatingStep, RegistryTypeCorrect, PTL
  DEF Spec, ImplementsRotatingSecrets, Rotating!RotationSpec

\* What follows from RotatingSecrets follows for the registry.
RotatingFacts == INSTANCE RotatingSecrets_proofs WITH
  inForce <- [app \in Apps |->
    IF appClients[app] = NoClient THEN NoSecret ELSE appClients[app].secret],
  drawn <- {s \in Secrets : drawnBy[s] # NoTab}

\* No two clients ever hold the same secret, and one that was replaced, or drawn
\* for a password, opens no client again.
THEOREM SecretsOfTheRegistry ==
  Spec => []RotatingFacts!SecretsAreApart /\ RotatingFacts!ReplacedForGood
<1>1. RotatingFacts!RotationSpec => []RotatingFacts!SecretsAreApart
  BY RotatingFacts!SecretsStayApart, RegistryAssumption
<1>2. RotatingFacts!RotationSpec => RotatingFacts!ReplacedForGood
  BY RotatingFacts!ReplacedNeverReturns, RegistryAssumption
<1>3. Init => RotatingFacts!RotationInit
  BY DEF Init, RotatingFacts!RotationInit
<1>4. TypeOK /\ [Next]_vars => [RotatingFacts!RotationNext]_(RotatingFacts!rotationVars)
  BY RotatingStep
  DEF Rotating!RotationNext, RotatingFacts!RotationNext, Rotating!Draw, RotatingFacts!Draw,
    Rotating!Rotate, RotatingFacts!Rotate, Rotating!rotationVars, RotatingFacts!rotationVars
<1>5. Spec => RotatingFacts!RotationSpec
  BY <1>3, <1>4, RegistryTypeCorrect, PTL DEF Spec, RotatingFacts!RotationSpec
<1> QED
  BY <1>1, <1>2, <1>5, PTL

----------------------------------------------------------------------------
(* When the promises that the runs refute do hold *)

\* A cookie reaches its max_age only where the run lets it.
LEMMA NothingExpires ==
  ASSUME "expire" \notin Operations
  PROVE  Spec => [](expired = {})
<1>1. Init => expired = {}
  BY DEF Init
<1>2. expired = {} /\ [Next]_vars => (expired = {})'
  BY DEF Next, vars, Configurar, RegenerarFetch, RegenerarUpsert, Editar, CriarUsuario,
    RedefinirSenha, Draws, GrantPapelInicial, PostFail, ReceiveRedirect, RevealRequest,
    RevealResponse, RevealLost, Leave, FlashExpires
<1> QED
  BY <1>1, <1>2, PTL DEF Spec

\* OneTimeSecretCookie's promise holds, lost answers included, as long as no
\* browser has two tabs at work and nobody waits for more than five minutes:
\* the shared jar and max_age are its only enemies.
THEOREM EveryRevealOfLoneTabs ==
  ASSUME \A t \in Tabs : Lone(t), "expire" \notin Operations
  PROVE  Spec => []EveryRevealShowsItsSecret /\ []NoRevealOfAnotherSystem
<1>1. LoneTabShowsItsSecret /\ expired = {} =>
        EveryRevealShowsItsSecret /\ NoRevealOfAnotherSystem
  BY DEF LoneTabShowsItsSecret, EveryRevealShowsItsSecret, NoRevealOfAnotherSystem
<1> QED
  BY <1>1, LoneTabSees, NothingExpires, PTL

\* A regeneration under way still knows what app_clients holds.
ReadIsFresh ==
  \A t \in Tabs : tab[t].pc = "upsert" =>
    /\ appClients[tab[t].target] \in Client
    /\ tab[t].uri = appClients[tab[t].target].uri

\* A client stays one: nothing deletes it.
LEMMA ClientsStay ==
  ASSUME TypeOK, [Next]_vars, NEW app \in Apps, appClients[app] # NoClient
  PROVE  appClients'[app] \in Client
<1>1. ASSUME NEW t \in Tabs, NEW a \in Apps, NEW uri \in Uris, NEW s \in Secrets,
             Configurar(t, a, uri, s)
      PROVE  appClients'[app] \in Client
  BY <1>1 DEF Configurar, TypeOK, Client
<1>2. ASSUME NEW t \in Tabs, NEW s \in Secrets, RegenerarUpsert(t, s)
      PROVE  appClients'[app] \in Client
  <2>1. tab[t].target \in Apps /\ tab[t].uri \in Uris
    BY <1>2 DEF RegenerarUpsert, TypeOK
  <2>2. [secret |-> s, uri |-> tab[t].uri] \in Client
    BY <2>1 DEF Client
  <2> QED
    BY <1>2, <2>1, <2>2 DEF RegenerarUpsert, TypeOK
<1>3. ASSUME NEW a \in Apps, NEW uri \in Uris, Editar(a, uri)
      PROVE  appClients'[app] \in Client
  BY <1>3 DEF Editar, TypeOK, Client
<1>4. CASE appClients' = appClients
  BY <1>4 DEF TypeOK
<1> QED
  BY <1>1, <1>2, <1>3, <1>4
  DEF Next, vars, RegenerarFetch, CriarUsuario, RedefinirSenha, GrantPapelInicial, PostFail,
    ReceiveRedirect, RevealRequest, RevealResponse, RevealLost, Leave, FlashExpires

\* A regeneration gets between its statements by its first one only.
LEMMA UpsertMoves ==
  ASSUME TypeOK, [Next]_vars, NEW u \in Tabs
  PROVE  \/ tab'[u] = tab[u] \/ tab'[u].pc # "upsert"
         \/ \E app \in Apps : RegenerarFetch(u, app)
<1>1. ASSUME NEW t \in Tabs, NEW s \in Secrets, NEW target, NEW pc \in {"grant", "reply"},
             Draws(t, s, target, pc)
      PROVE  tab'[u] = tab[u] \/ tab'[u].pc # "upsert"
  <2> DEFINE v == [Idle EXCEPT !.pc = pc, !.target = target, !.secret = s]
  <2>1. tab' = [tab EXCEPT ![t] = v] /\ v.pc # "upsert"
    BY <1>1 DEF Draws, Idle
  <2> HIDE DEF v
  <2> QED
    BY <2>1 DEF TypeOK
<1>2. ASSUME NEW t \in Tabs, NEW s \in Secrets,
             \/ \E app \in Apps, uri \in Uris : Configurar(t, app, uri, s)
             \/ RegenerarUpsert(t, s)
             \/ \E w \in Users : CriarUsuario(t, w, s) \/ RedefinirSenha(t, w, s)
      PROVE  tab'[u] = tab[u] \/ tab'[u].pc # "upsert"
  BY <1>1, <1>2 DEF Configurar, RegenerarUpsert, CriarUsuario, RedefinirSenha
<1>3. ASSUME NEW t \in Tabs, NEW app \in Apps, RegenerarFetch(t, app), t # u
      PROVE  tab'[u] = tab[u]
  BY <1>3 DEF RegenerarFetch, TypeOK
<1>4. ASSUME NEW t \in Tabs,
             \/ GrantPapelInicial(t) \/ PostFail(t) \/ ReceiveRedirect(t) \/ RevealRequest(t)
             \/ RevealResponse(t) \/ RevealLost(t) \/ Leave(t)
      PROVE  tab'[u] = tab[u] \/ tab'[u].pc # "upsert"
  <2>1. tab[t] \in Tab /\ t \in DOMAIN tab /\ u \in DOMAIN tab
    BY DEF TypeOK
  <2>2. CASE PostFail(t) \/ Leave(t)
    BY <2>1, <2>2 DEF PostFail, Leave, Idle
  <2>3. CASE GrantPapelInicial(t) \/ ReceiveRedirect(t)
    BY <2>1, <2>3 DEF GrantPapelInicial, ReceiveRedirect, Tab
  <2>4. CASE RevealRequest(t)
    BY <2>1, <2>4 DEF RevealRequest, Reveals, Tab
  <2>5. CASE RevealResponse(t) \/ RevealLost(t)
    BY <2>1, <2>5 DEF RevealResponse, RevealLost, Tab
  <2> QED
    BY <1>4, <2>2, <2>3, <2>4, <2>5
<1> QED
  BY <1>2, <1>3, <1>4 DEF Next, vars, Editar, FlashExpires

\* Only its own second statement brings a regeneration to its answer.
LEMMA UpsertEnds ==
  ASSUME TypeOK, Next, NEW u \in Tabs, tab[u].pc = "upsert", tab'[u].pc = "reply"
  PROVE  \E s \in Secrets : RegenerarUpsert(u, s)
<1>1. ASSUME NEW t \in Tabs, NEW v, tab' = [tab EXCEPT ![t] = v], t # u PROVE FALSE
  BY <1>1 DEF TypeOK
<1>2. ASSUME NEW t \in Tabs, NEW s \in Secrets,
             \/ \E app \in Apps, uri \in Uris : Configurar(t, app, uri, s)
             \/ \E w \in Users : CriarUsuario(t, w, s) \/ RedefinirSenha(t, w, s)
      PROVE  FALSE
  <2>1. tab[t].pc = "idle" /\ \E v : tab' = [tab EXCEPT ![t] = v]
    BY <1>2 DEF Configurar, CriarUsuario, RedefinirSenha, Draws
  <2> QED
    BY <1>1, <2>1
<1>3. ASSUME NEW t \in Tabs, NEW s \in Secrets, RegenerarUpsert(t, s) PROVE t = u
  <2>1. \E v : tab' = [tab EXCEPT ![t] = v]
    BY <1>3 DEF RegenerarUpsert, Draws
  <2> QED
    BY <1>1, <2>1
<1>4. ASSUME NEW t \in Tabs,
             \/ \E app \in Apps : RegenerarFetch(t, app)
             \/ GrantPapelInicial(t) \/ PostFail(t) \/ ReceiveRedirect(t) \/ RevealRequest(t)
             \/ RevealResponse(t) \/ RevealLost(t) \/ Leave(t)
      PROVE  FALSE
  <2>1. \E v : tab' = [tab EXCEPT ![t] = v]
    BY <1>4 DEF RegenerarFetch, GrantPapelInicial, PostFail, ReceiveRedirect, RevealRequest,
      Reveals, RevealResponse, RevealLost, Leave
  <2>2. t = u
    BY <1>1, <2>1
  <2>3. PostFail(u)
    BY <1>4, <2>2 DEF RegenerarFetch, GrantPapelInicial, ReceiveRedirect, RevealRequest,
      Reveals, RevealResponse, RevealLost, Leave
  <2> QED
    BY <2>3 DEF PostFail, TypeOK, Idle
<1> QED
  BY <1>2, <1>3, <1>4 DEF Next, Editar, FlashExpires

\* No redirect_uri of a client is changed while a regeneration of that client is
\* between its two statements; by its own second one it may be.
NoEditMeanwhile ==
  \A t \in Tabs : tab[t].pc = "upsert" /\ tab'[t].pc = "upsert" =>
    appClients'[tab[t].target].uri = appClients[tab[t].target].uri

\* "redirect_uris preservadas" holds for any number of administrators, tabs and
\* systems, edits and regenerations, as long as no edit of a client lands between
\* the two statements of its regeneration: that window is all there is against it.
THEOREM RedirectsKeptOutsideTheWindow ==
  Spec /\ [][NoEditMeanwhile]_vars => RegenerarKeepsRedirects
<1>1. Init => ReadIsFresh
  BY DEF Init, ReadIsFresh, Idle
<1>2. TypeOK /\ ReadIsFresh /\ [NoEditMeanwhile]_vars /\ [Next]_vars => ReadIsFresh'
  <2> SUFFICES ASSUME TypeOK, ReadIsFresh, [NoEditMeanwhile]_vars, [Next]_vars,
                      NEW u \in Tabs, tab'[u].pc = "upsert"
               PROVE  /\ appClients'[tab'[u].target] \in Client
                      /\ tab'[u].uri = appClients'[tab'[u].target].uri
    BY DEF ReadIsFresh
  <2>1. CASE tab'[u] = tab[u]
    <3>1. /\ tab[u].target \in Apps /\ appClients[tab[u].target] \in Client
          /\ tab[u].uri = appClients[tab[u].target].uri
      BY <2>1 DEF ReadIsFresh, TypeOK
    <3>2. appClients[tab[u].target] # NoClient
      BY <3>1, RegistryAssumption DEF Client
    <3>3. appClients'[tab[u].target] \in Client
      BY <3>1, <3>2, ClientsStay
    <3>4. appClients'[tab[u].target].uri = appClients[tab[u].target].uri
      BY <2>1 DEF NoEditMeanwhile, vars
    <3> QED
      BY <2>1, <3>1, <3>3, <3>4
  <2>2. CASE \E app \in Apps : RegenerarFetch(u, app)
    <3>1. PICK app \in Apps : RegenerarFetch(u, app)
      BY <2>2
    <3> DEFINE v == [Idle EXCEPT !.pc = "upsert", !.target = app, !.uri = appClients[app].uri]
    <3>2. v.target = app /\ v.uri = appClients[app].uri
      BY DEF Idle
    <3>3. /\ tab'[u] = v /\ appClients' = appClients
          /\ appClients[app] \in Client
      BY <3>1 DEF RegenerarFetch, TypeOK
    <3> HIDE DEF v
    <3> QED
      BY <3>2, <3>3
  <2> QED
    BY <2>1, <2>2, UpsertMoves
<1>3. TypeOK /\ ReadIsFresh /\ [Next]_vars =>
        [\A t \in Tabs :
           tab[t].pc = "upsert" /\ tab'[t].pc = "reply" =>
             appClients'[tab[t].target].uri = appClients[tab[t].target].uri]_vars
  <2> SUFFICES ASSUME TypeOK, ReadIsFresh, Next, NEW t \in Tabs,
                      tab[t].pc = "upsert", tab'[t].pc = "reply"
               PROVE  appClients'[tab[t].target].uri = appClients[tab[t].target].uri
    BY DEF vars
  <2>1. ASSUME NEW s \in Secrets, RegenerarUpsert(t, s)
        PROVE  appClients'[tab[t].target].uri = appClients[tab[t].target].uri
    <3>1. tab[t].target \in Apps
      BY DEF TypeOK
    <3>2. appClients'[tab[t].target] = [secret |-> s, uri |-> tab[t].uri]
      BY <2>1, <3>1 DEF RegenerarUpsert, TypeOK
    <3> QED
      BY <3>2 DEF ReadIsFresh
  <2>2. \E s \in Secrets : RegenerarUpsert(t, s)
    BY UpsertEnds
  <2> QED
    BY <2>1, <2>2
<1> QED
  BY <1>1, <1>2, <1>3, RegistryTypeCorrect, PTL DEF Spec, RegenerarKeepsRedirects
=============================================================================
