------------------------------ MODULE WebappProofs ------------------------------
(***************************************************************************)
(* One administrator's page, any number of others: no Run meets another    *)
(* one, the webapp's flag says whether the executor runs, and the switch   *)
(* shows the flag.  The invariants speak of what is under way, since only  *)
(* messages of the administrator's page may turn the switch, and any       *)
(* answer under way may turn back what it shows.                           *)
(***************************************************************************)
EXTENDS Webapp, SequenceTheorems, FiniteSetTheorems, TLAPS

-----------------------------------------------------------------------------
(* What pages send, and are sent. *)

Harmless == {GetNodeState, GetIsRunning, NewClientRequest}
            \cup {SetNodeAddress(a) : a \in NodeAddress}

RequestOf(p) == IF p = Admin THEN Request ELSE Harmless

SentOK(sent) ==
  /\ sent \in [Page -> Seq(Request)]
  /\ \A p \in Page : sent[p] \in Seq(RequestOf(p))

AnswersOK(answers) == answers \in [Page -> Seq(Answer)]

LEMMA RequestFields ==
  ASSUME NEW m \in Request
  PROVE  /\ m.do = "set-executor-is-running" => m \notin Harmless /\ m.on \in BOOLEAN
         /\ m.do = "set-node-address" => m.address \in NodeAddress
BY DEF Request, Harmless, GetNodeState, GetIsRunning, NewClientRequest, SetIsRunning,
       SetNodeAddress

LEMMA RequestsOfPages ==
  ASSUME NEW p
  PROVE  /\ RequestOf(p) \subseteq Request /\ Harmless \subseteq RequestOf(p)
         /\ {GetNodeState, GetIsRunning, NewClientRequest} \subseteq Harmless
         /\ \A a \in NodeAddress : SetNodeAddress(a) \in Harmless
         /\ \A on \in BOOLEAN : SetIsRunning(on) \in Request
BY DEF RequestOf, Request, Harmless

LEMMA SentMore ==
  ASSUME NEW sent, SentOK(sent), NEW p \in Page, NEW s \in Seq(RequestOf(p))
  PROVE  SentOK([sent EXCEPT ![p] = @ \o s])
<1>1. sent[p] \in Seq(RequestOf(p)) /\ RequestOf(p) \subseteq Request
  BY RequestsOfPages DEF SentOK
<1>2. sent[p] \o s \in Seq(RequestOf(p))
  BY <1>1, ConcatProperties
<1>3. sent[p] \o s \in Seq(Request)
  BY <1>1, <1>2, SeqMonotonic
<1> QED BY <1>2, <1>3 DEF SentOK

LEMMA SentLess ==
  ASSUME NEW sent, SentOK(sent), NEW p \in Page, sent[p] # << >>
  PROVE  /\ SentOK([sent EXCEPT ![p] = Tail(@)])
         /\ Head(sent[p]) \in RequestOf(p) /\ Head(sent[p]) \in Request
<1>1. sent[p] \in Seq(RequestOf(p)) /\ RequestOf(p) \subseteq Request
  BY RequestsOfPages DEF SentOK
<1>2. Head(sent[p]) \in RequestOf(p) /\ Tail(sent[p]) \in Seq(RequestOf(p))
  BY <1>1, HeadTailProperties
<1>3. Tail(sent[p]) \in Seq(Request)
  BY <1>1, <1>2, SeqMonotonic
<1> QED BY <1>1, <1>2, <1>3 DEF SentOK

LEMMA AnswersMore ==
  ASSUME NEW p \in Page, AnswersOK(toPage), NEW s \in Seq(Answer), Emit(p, s)
  PROVE  AnswersOK(toPage')
<1>1. toPage[p] \o s \in Seq(Answer)
  BY ConcatProperties DEF AnswersOK
<1> QED BY <1>1 DEF Emit, AnswersOK

LEMMA AnswerSeqs ==
  /\ << Ack >> \in Seq(Answer) /\ << NodeState >> \in Seq(Answer)
  /\ \A on \in BOOLEAN : << IsRunning(on) >> \in Seq(Answer)
                         /\ << IsRunning(on), Ack >> \in Seq(Answer)
<1>1. Ack \in Answer /\ NodeState \in Answer /\ \A on \in BOOLEAN : IsRunning(on) \in Answer
  BY DEF Answer
<1> QED BY <1>1

-----------------------------------------------------------------------------
(* The invariant. *)

SocketInv ==
  /\ SentOK(toServer) /\ SentOK(queue) /\ AnswersOK(toPage)
  /\ link \in [Page -> {"connecting", "greeted", "connected", "ready"}]

PageInv ==
  /\ controllers \in [Page -> Seq(Controller)] /\ timers \in [Page -> Seq(Timer)]
  /\ \A p \in Page : controllers[p] # << >>
  /\ \A p \in Page : \A k \in DOMAIN timers[p] : timers[p][k].of \in DOMAIN controllers[p]
  /\ \A p \in Page \ {Admin} :
       /\ OnDisplay(p).view = "client"
       /\ \A k \in DOMAIN timers[p] : timers[p][k].request = NewClientRequest
  /\ clicks \in [Page -> Nat] /\ early \in [Page -> BOOLEAN] /\ unheard \in [Page -> BOOLEAN]

TransportInv ==
  /\ address \in NodeAddress /\ server \in {"new", "opening", "open", "failed"}
  /\ orphans \subseteq NodeAddress /\ ghosts \in Nat

\* The switch is off, on with a Run about to begin, on with one in its loop, or
\* about to be off with one that has just left it.
ExecutorInv ==
  /\ call \in [Page -> {"none", "stop", "stopped", "served", "abandoned", "answered", "failed"}]
  /\ \A p \in Page \ {Admin} : call[p] \notin {"stop", "stopped"}
  /\ executorIsRunning \in BOOLEAN /\ stop \in BOOLEAN /\ starting \in {0, 1}
  /\ panicked = FALSE
  /\ \/ /\ loop = "none" /\ stop = FALSE /\ executorIsRunning = FALSE /\ starting = 0
        /\ call[Admin] \notin {"stop", "stopped"}
     \/ /\ loop = "none" /\ stop = FALSE /\ executorIsRunning = TRUE /\ starting = 1
        /\ call[Admin] \notin {"stop", "stopped"}
     \/ /\ loop = "reading" /\ stop = TRUE /\ executorIsRunning = TRUE /\ starting = 0
        /\ call[Admin] # "stopped"
     \/ /\ loop = "stopped" /\ stop = FALSE /\ executorIsRunning = TRUE /\ starting = 0
        /\ call[Admin] = "stopped"

WebappInv == SocketInv /\ PageInv /\ TransportInv /\ ExecutorInv

LEMMA WebappInvInit == WebappInit => WebappInv
<1> SUFFICES ASSUME WebappInit PROVE WebappInv
  OBVIOUS
<1>1. \A p \in Page : << >> \in Seq(RequestOf(p)) /\ << >> \in Seq(Request)
      /\ << >> \in Seq(Answer) /\ << >> \in Seq(Timer)
  BY EmptySeq
<1>2. \A p \in Page : FirstRequests(FirstView(p)) \in Seq(RequestOf(p))
                      /\ FirstRequests(FirstView(p)) \in Seq(Request)
  <2> SUFFICES ASSUME NEW p \in Page
               PROVE  FirstRequests(FirstView(p)) \in Seq(RequestOf(p))
                      /\ FirstRequests(FirstView(p)) \in Seq(Request)
    OBVIOUS
  <2>1. GetIsRunning \in RequestOf(p) /\ GetIsRunning \in Request
    BY RequestsOfPages
  <2>2. << GetIsRunning >> \in Seq(RequestOf(p)) /\ << GetIsRunning >> \in Seq(Request)
    BY <2>1
  <2> QED BY <1>1, <2>2 DEF FirstRequests
<1>3. SocketInv
  BY <1>1, <1>2 DEF WebappInit, BackendInit, SocketInv, SentOK, AnswersOK
<1>4. PageInv
  <2>1. \A p \in Page :
          LET c == [view |-> FirstView(p), executorRunning |-> FALSE, waitingResponse |-> FALSE,
                    hears |-> p \in Loaded]
          IN c \in Controller
    BY DEF FirstView, Controller
  <2>2. \A p \in Page : controllers[p] \in Seq(Controller) /\ Len(controllers[p]) = 1
                        /\ controllers[p][1].view = FirstView(p) /\ controllers[p] # << >>
    BY <2>1 DEF WebappInit
  <2>3. controllers \in [Page -> Seq(Controller)] /\ timers \in [Page -> Seq(Timer)]
    BY <1>1, <2>1 DEF WebappInit
  <2>4. \A p \in Page : DOMAIN timers[p] = {}
    BY DEF WebappInit
  <2>5. \A p \in Page \ {Admin} : OnDisplay(p).view = "client"
    BY <2>2 DEF OnDisplay, FirstView
  <2>6. clicks \in [Page -> Nat] /\ early \in [Page -> BOOLEAN] /\ unheard \in [Page -> BOOLEAN]
    BY DEF WebappInit
  <2> QED BY <2>2, <2>3, <2>4, <2>5, <2>6 DEF PageInv
<1>5. TransportInv
  BY AddressAssumption DEF WebappInit, BackendInit, TransportInv
<1>6. ExecutorInv
  <2>1. /\ call = [p \in Page |-> "none"] /\ executorIsRunning = FALSE /\ stop = FALSE
        /\ starting = 0 /\ loop = "none" /\ panicked = FALSE
    BY DEF WebappInit, BackendInit
  <2> QED BY AdminAssumption, <2>1 DEF ExecutorInv
<1> QED BY <1>3, <1>4, <1>5, <1>6 DEF WebappInv
-----------------------------------------------------------------------------
(* Messages under way. *)

LEMMA PageEmits ==
  ASSUME SentOK(toServer), SentOK(queue), NEW p \in Page, NEW s \in Seq(RequestOf(p)),
         PageEmit(p, s)
  PROVE  SentOK(toServer') /\ SentOK(queue')
<1>1. CASE Connected(p)
  BY <1>1, SentMore DEF PageEmit
<1>2. CASE ~Connected(p)
  BY <1>2, SentMore DEF PageEmit
<1> QED BY <1>1, <1>2

\* Only the administrator's page has timers of the switch.
LEMMA TimerFires ==
  ASSUME PageInv, NEW p \in Page, timers[p] # << >>
  PROVE  LET timer == Head(timers[p])
         IN << IF timer.request = Switch
               THEN SetIsRunning(controllers[p][timer.of].executorRunning)
               ELSE timer.request >> \in Seq(RequestOf(p))
<1> DEFINE timer == Head(timers[p])
           m == IF timer.request = Switch
                THEN SetIsRunning(controllers[p][timer.of].executorRunning)
                ELSE timer.request
<1>1. timers[p] \in Seq(Timer) /\ controllers[p] \in Seq(Controller)
  BY DEF PageInv
<1>2. timer \in Timer /\ timer = timers[p][1] /\ 1 \in DOMAIN timers[p]
  BY <1>1, HeadTailProperties, LenProperties
<1>3. timer.of \in DOMAIN controllers[p]
  BY <1>2 DEF PageInv
<1>4. controllers[p][timer.of] \in Controller
  BY <1>1, <1>3, LenProperties, ElementOfSeq
<1>5. CASE timer.request = Switch
  <2>1. Switch # NewClientRequest
    BY DEF Switch, NewClientRequest
  <2>2. p = Admin
    BY <1>2, <1>5, <2>1 DEF PageInv
  <2>3. controllers[p][timer.of].executorRunning \in BOOLEAN
    BY <1>4 DEF Controller
  <2>4. m \in Request
    BY <1>5, <2>3, RequestsOfPages
  <2>5. m \in RequestOf(p)
    BY <2>2, <2>4 DEF RequestOf
  <2> QED BY <2>5
<1>6. CASE timer.request # Switch
  <2>1. timer.request \in Harmless
    BY <1>2, <1>6 DEF Timer, Harmless
  <2>2. m \in RequestOf(p)
    BY <1>6, <2>1, RequestsOfPages
  <2> QED BY <2>2
<1> QED BY <1>5, <1>6

LEMMA SocketInvNext ==
  ASSUME WebappInv, [WebappNext]_webappVars
  PROVE  SocketInv'
<1> USE DEF SocketInv, socketVars
<1>0. SocketInv /\ PageInv /\ ExecutorInv
  BY DEF WebappInv
<1>1. ASSUME NEW p \in Page, OnGetNodeState(p), UNCHANGED pageVars
      PROVE  SocketInv'
  BY <1>0, <1>1, SentLess, AnswersMore, AnswerSeqs DEF OnGetNodeState, Take, pageVars
<1>2. ASSUME NEW p \in Page, OnGetIsRunning(p), UNCHANGED pageVars
      PROVE  SocketInv'
  <2>1. << IsRunning(executorIsRunning) >> \in Seq(Answer)
    BY <1>0, AnswerSeqs DEF ExecutorInv
  <2> QED BY <1>0, <1>2, <2>1, SentLess, AnswersMore DEF OnGetIsRunning, Take, pageVars
<1>3. ASSUME NEW p \in Page, OnSetIsRunning(p), UNCHANGED pageVars
      PROVE  SocketInv'
  <2>1. Head(toServer[p]) \in Request /\ Head(toServer[p]).do = "set-executor-is-running"
    BY <1>0, <1>3, SentLess DEF OnSetIsRunning, Take
  <2>2. << IsRunning(Head(toServer[p]).on), Ack >> \in Seq(Answer)
    BY <2>1, RequestFields, AnswerSeqs
  <2>3. SentOK(toServer')
    BY <1>0, <1>3, SentLess DEF OnSetIsRunning, Take
  <2>4. AnswersOK(toPage')
    BY <1>0, <1>3, <2>2, AnswersMore DEF OnSetIsRunning
  <2> QED BY <1>0, <1>3, <2>3, <2>4 DEF pageVars
<1>4. ASSUME NEW p \in Page, OnSetNodeAddress(p), UNCHANGED pageVars
      PROVE  SocketInv'
  BY <1>0, <1>4, SentLess, AnswersMore, AnswerSeqs DEF OnSetNodeAddress, Take, pageVars
<1>5. ASSUME NEW p \in Page, OnNewClientRequest(p), UNCHANGED pageVars
      PROVE  SocketInv'
  BY <1>0, <1>5, SentLess DEF OnNewClientRequest, Take, pageVars
<1>6. ASSUME NEW p \in Page, AfterStop(p) \/ AfterPost(p), UNCHANGED pageVars
      PROVE  SocketInv'
  BY <1>0, <1>6, AnswersMore, AnswerSeqs DEF AfterStop, AfterPost, pageVars
<1>7. ASSUME NEW p \in Page, TakeRequest(p) \/ TakeStop(p) \/ BeginRun \/ OpenServer \/ TakeGhost,
             UNCHANGED pageVars
      PROVE  SocketInv'
  BY <1>0, <1>7 DEF TakeRequest, TakeStop, BeginRun, OpenServer, TakeGhost, pageVars
<1>8. ASSUME NEW p \in Page, Connect(p) PROVE SocketInv'
  <2>1. << GetNodeState >> \in Seq(RequestOf(p)) /\ << GetNodeState >> \in Seq(Request)
    <3>1. GetNodeState \in RequestOf(p) /\ GetNodeState \in Request
      BY RequestsOfPages
    <3> QED BY <3>1
  <2>2. SentOK(toServer')
    BY <1>0, <1>8, <2>1 DEF Connect, SentOK
  <2> QED BY <1>0, <1>8, <2>2 DEF Connect
<1>9. ASSUME NEW p \in Page, Flush(p) PROVE SocketInv'
  <2>1. SentOK(toServer')
    BY <1>0, <1>9, SentMore DEF Flush, SentOK
  <2>2. SentOK(queue')
    <3>1. << >> \in Seq(RequestOf(p)) /\ << >> \in Seq(Request)
      BY EmptySeq
    <3> QED BY <1>0, <1>9, <3>1 DEF Flush, SentOK
  <2> QED BY <1>0, <1>9, <2>1, <2>2 DEF Flush
<1>10. ASSUME NEW p \in Page, Receive(p) PROVE SocketInv'
  <2>1. Tail(toPage[p]) \in Seq(Answer)
    BY <1>0, <1>10, HeadTailProperties DEF Receive, AnswersOK
  <2>2. AnswersOK(toPage')
    BY <1>0, <1>10, <2>1 DEF Receive, AnswersOK
  <2> QED BY <1>0, <1>10, <2>2 DEF Receive
<1>11. ASSUME NEW p \in Page, Visit(p) PROVE SocketInv'
  <2> DEFINE view == IF OnDisplay(p).view = "monitor" THEN "client" ELSE "monitor"
  <2>1. FirstRequests(view) \in Seq(RequestOf(p))
    <3>1. GetIsRunning \in RequestOf(p)
      BY RequestsOfPages
    <3> QED BY <3>1, EmptySeq DEF FirstRequests
  <2> QED BY <1>0, <1>11, <2>1, PageEmits DEF Visit
<1>12. ASSUME NEW p \in Page,
              ClickSwitch(p) \/ ClickSubmit(p) \/ \E a \in NodeAddress : ClickSave(p, a)
       PROVE  SocketInv'
  BY <1>0, <1>12 DEF ClickSwitch, ClickSubmit, ClickSave, Click, backendVars
<1>13. ASSUME NEW p \in Page, FireTimer(p) PROVE SocketInv'
  BY <1>0, <1>13, TimerFires, PageEmits DEF FireTimer
<1>14. CASE UNCHANGED webappVars
  BY <1>0, <1>14 DEF webappVars, backendVars, pageVars
<1> QED
  BY <1>1, <1>2, <1>3, <1>4, <1>5, <1>6, <1>7, <1>8, <1>9, <1>10, <1>11, <1>12, <1>13, <1>14,
     AdminAssumption
     DEF WebappNext, BackendStep, Handle, PageStep
-----------------------------------------------------------------------------
(* Controllers and timers. *)

\* What controllers hear changes no view, and makes none.
LEMMA ControllersKept ==
  ASSUME PageInv, NEW p \in Page,
         NEW d \in [DOMAIN controllers[p] -> Controller],
         \A k \in DOMAIN controllers[p] : d[k].view = controllers[p][k].view,
         controllers' = [controllers EXCEPT ![p] = d]
  PROVE  /\ controllers' \in [Page -> Seq(Controller)]
         /\ \A q \in Page : /\ controllers'[q] # << >>
                            /\ DOMAIN controllers'[q] = DOMAIN controllers[q]
                            /\ OnDisplay(q)'.view = OnDisplay(q).view
<1>1. controllers[p] \in Seq(Controller) /\ controllers[p] # << >>
  BY DEF PageInv
<1>2. /\ DOMAIN controllers[p] = 1 .. Len(controllers[p])
      /\ Len(controllers[p]) \in Nat /\ Len(controllers[p]) # 0
  BY <1>1, LenProperties, EmptySeq
<1>3. d \in Seq(Controller) /\ Len(d) = Len(controllers[p]) /\ d # << >>
  BY <1>2
<1>4. controllers' \in [Page -> Seq(Controller)]
  BY <1>3 DEF PageInv
<1>5. ASSUME NEW q \in Page
      PROVE  /\ controllers'[q] # << >>
             /\ DOMAIN controllers'[q] = DOMAIN controllers[q]
             /\ OnDisplay(q)'.view = OnDisplay(q).view
  <2>1. CASE q # p
    BY <2>1 DEF PageInv, OnDisplay
  <2>2. CASE q = p
    <3>1. controllers'[q] = d
      BY <2>2 DEF PageInv
    <3>2. OnDisplay(q)' = d[Len(controllers[p])]
      BY <1>3, <3>1 DEF OnDisplay
    <3> QED BY <1>2, <1>3, <2>2, <3>1, <3>2 DEF OnDisplay
  <2> QED BY <2>1, <2>2
<1> QED BY <1>4, <1>5

LEMMA HeardType ==
  ASSUME NEW c \in Controller, NEW m \in Answer
  PROVE  Heard(c, m) \in Controller /\ Heard(c, m).view = c.view
<1>1. CASE m.do = "ack"
  BY <1>1 DEF Heard, Controller
<1>2. CASE m.do = "executor-is-running-info" /\ c.view = "monitor"
  <2>1. m.on \in BOOLEAN
    BY <1>2 DEF Answer, Ack, NodeState, IsRunning
  <2>2. Heard(c, m) = [c EXCEPT !.executorRunning = m.on]
    BY <1>2 DEF Heard
  <2> QED BY <2>1, <2>2 DEF Controller
<1>3. CASE m.do # "ack" /\ ~(m.do = "executor-is-running-info" /\ c.view = "monitor")
  BY <1>3 DEF Heard
<1> QED BY <1>1, <1>2, <1>3

\* A click changes the controller on display and adds a timer of its own.
LEMMA ClickKeeps ==
  ASSUME PageInv, NEW p \in Page,
         NEW request \in {Switch, NewClientRequest} \cup {SetNodeAddress(a) : a \in NodeAddress},
         NEW changed \in Controller, changed.view = OnDisplay(p).view,
         p # Admin => request = NewClientRequest,
         Click(p, changed, request)
  PROVE  PageInv'
<1> DEFINE last == Len(controllers[p])
           d == [controllers[p] EXCEPT ![last] = [changed EXCEPT !.waitingResponse = TRUE]]
           timer == [of |-> last, request |-> request, late |-> Connected(p)]
<1>1. controllers[p] \in Seq(Controller) /\ controllers[p] # << >> /\ timers[p] \in Seq(Timer)
  BY DEF PageInv
<1>2. last \in DOMAIN controllers[p] /\ last \in Nat
  BY <1>1, LenProperties, EmptySeq
<1>3. [changed EXCEPT !.waitingResponse = TRUE] \in Controller
      /\ [changed EXCEPT !.waitingResponse = TRUE].view = OnDisplay(p).view
  BY DEF Controller
<1>4. d \in [DOMAIN controllers[p] -> Controller]
      /\ \A k \in DOMAIN controllers[p] : d[k].view = controllers[p][k].view
  <2>1. \A k \in DOMAIN controllers[p] : controllers[p][k] \in Controller
    BY <1>1, LenProperties, ElementOfSeq
  <2> QED BY <1>2, <1>3, <2>1 DEF OnDisplay
<1>5. controllers' = [controllers EXCEPT ![p] = d]
  BY DEF Click
<1> HIDE DEF d
<1>6. /\ controllers' \in [Page -> Seq(Controller)]
      /\ \A q \in Page : /\ controllers'[q] # << >>
                         /\ DOMAIN controllers'[q] = DOMAIN controllers[q]
                         /\ OnDisplay(q)'.view = OnDisplay(q).view
  BY <1>4, <1>5, ControllersKept
<1>7. timer \in Timer /\ timer.of = last /\ timer.request = request
  <2>1. Connected(p) \in BOOLEAN
    BY DEF Connected
  <2> QED BY <1>2, <2>1 DEF Timer
<1>8. timers' = [timers EXCEPT ![p] = Append(timers[p], timer)]
  BY DEF Click, PageInv
<1> HIDE DEF timer, last
<1>9. /\ Append(timers[p], timer) \in Seq(Timer)
      /\ DOMAIN Append(timers[p], timer) = DOMAIN timers[p] \cup {Len(timers[p]) + 1}
      /\ \A k \in DOMAIN timers[p] : Append(timers[p], timer)[k] = timers[p][k]
      /\ Append(timers[p], timer)[Len(timers[p]) + 1] = timer
  <2>1. Append(timers[p], timer) \in Seq(Timer) /\ Len(Append(timers[p], timer)) = Len(timers[p]) + 1
    BY <1>1, <1>7, AppendProperties
  <2>2. /\ DOMAIN Append(timers[p], timer) = 1 .. (Len(timers[p]) + 1)
        /\ DOMAIN timers[p] = 1 .. Len(timers[p]) /\ Len(timers[p]) \in Nat
    BY <1>1, <2>1, LenProperties
  <2> QED BY <1>1, <1>7, <2>1, <2>2, AppendProperties
<1>10. timers' \in [Page -> Seq(Timer)]
  BY <1>8, <1>9 DEF PageInv
<1>11. ASSUME NEW q \in Page, NEW k \in DOMAIN timers'[q]
       PROVE  /\ timers'[q][k].of \in DOMAIN controllers'[q]
              /\ q # Admin => timers'[q][k].request = NewClientRequest
  <2>1. CASE q # p \/ k \in DOMAIN timers[p]
    <3>1. k \in DOMAIN timers[q] /\ timers'[q][k] = timers[q][k]
      BY <1>8, <1>9, <2>1 DEF PageInv
    <3> QED BY <1>6, <3>1 DEF PageInv
  <2>2. CASE q = p /\ k \notin DOMAIN timers[p]
    <3>1. timers'[q][k] = timer
      BY <1>8, <1>9, <2>2 DEF PageInv
    <3> QED BY <1>2, <1>6, <1>7, <2>2, <3>1
  <2> QED BY <2>1, <2>2
<1>12. clicks' \in [Page -> Nat] /\ early' \in [Page -> BOOLEAN] /\ unheard' \in [Page -> BOOLEAN]
  <2>1. early' = [early EXCEPT ![p] = early[p] \/ ~Connected(p)]
        /\ clicks' = [clicks EXCEPT ![p] = clicks[p] + 1] /\ unheard' = unheard
    BY DEF Click, PageInv
  <2>2. (early[p] \/ ~Connected(p)) \in BOOLEAN
    OBVIOUS
  <2> QED BY <2>1, <2>2 DEF PageInv
<1> QED BY <1>6, <1>10, <1>11, <1>12 DEF PageInv

LEMMA PageInvNext ==
  ASSUME WebappInv, [WebappNext]_webappVars
  PROVE  PageInv'
<1>0. SocketInv /\ PageInv
  BY DEF WebappInv
<1>1. ASSUME UNCHANGED <<controllers, timers, clicks, early, unheard>>
      PROVE  PageInv'
  BY <1>0, <1>1 DEF PageInv, OnDisplay
<1>2. CASE UNCHANGED pageVars
  BY <1>1, <1>2 DEF pageVars
<1>3. ASSUME NEW p \in Page, Connect(p) PROVE PageInv'
  BY <1>1, <1>3 DEF Connect
<1>4. ASSUME NEW p \in Page,
             NEW d \in [DOMAIN controllers[p] -> Controller],
             \A k \in DOMAIN controllers[p] : d[k].view = controllers[p][k].view,
             controllers' = [controllers EXCEPT ![p] = d],
             UNCHANGED <<timers, clicks, early>>, unheard' \in [Page -> BOOLEAN]
      PROVE  PageInv'
  <2>1. /\ controllers' \in [Page -> Seq(Controller)]
        /\ \A q \in Page : /\ controllers'[q] # << >>
                           /\ DOMAIN controllers'[q] = DOMAIN controllers[q]
                           /\ OnDisplay(q)'.view = OnDisplay(q).view
    BY <1>0, <1>4, ControllersKept
  <2> QED BY <1>0, <1>4, <2>1 DEF PageInv
<1>5. ASSUME NEW p \in Page, NEW k \in DOMAIN controllers[p]
      PROVE  controllers[p][k] \in Controller
  BY <1>0, LenProperties, ElementOfSeq DEF PageInv
<1>6. ASSUME NEW p \in Page, Flush(p) PROVE PageInv'
  <2> DEFINE d == [k \in DOMAIN controllers[p] |-> [controllers[p][k] EXCEPT !.hears = TRUE]]
  <2>1. d \in [DOMAIN controllers[p] -> Controller]
        /\ \A k \in DOMAIN controllers[p] : d[k].view = controllers[p][k].view
    BY <1>5 DEF Controller
  <2>2. controllers' = [controllers EXCEPT ![p] = d]
    BY <1>0, <1>6 DEF Flush, PageInv
  <2> HIDE DEF d
  <2>3. UNCHANGED <<timers, clicks, early>> /\ unheard' \in [Page -> BOOLEAN]
    BY <1>0, <1>6 DEF Flush, PageInv
  <2> QED BY <1>4, <2>1, <2>2, <2>3
<1>7. ASSUME NEW p \in Page, Receive(p) PROVE PageInv'
  <2> DEFINE m == Head(toPage[p])
             d == [k \in DOMAIN controllers[p] |->
                     IF controllers[p][k].hears THEN Heard(controllers[p][k], m)
                     ELSE controllers[p][k]]
  <2>1. m \in Answer
    BY <1>0, <1>7, HeadTailProperties DEF Receive, SocketInv, AnswersOK
  <2>2. d \in [DOMAIN controllers[p] -> Controller]
        /\ \A k \in DOMAIN controllers[p] : d[k].view = controllers[p][k].view
    BY <1>5, <2>1, HeardType
  <2>3. controllers' = [controllers EXCEPT ![p] = d]
    BY <1>0, <1>7 DEF Receive, PageInv
  <2> HIDE DEF d
  <2>4. UNCHANGED <<timers, clicks, early>> /\ unheard' \in [Page -> BOOLEAN]
    <3>1. (unheard[p] \/ (m = Ack /\ ~OnDisplay(p).hears)) \in BOOLEAN
      OBVIOUS
    <3> QED BY <1>0, <1>7, <3>1 DEF Receive, PageInv
  <2> QED BY <1>4, <2>2, <2>3, <2>4
<1>8. ASSUME NEW p \in Page, Visit(p) PROVE PageInv'
  <2> DEFINE view == IF OnDisplay(p).view = "monitor" THEN "client" ELSE "monitor"
             c == NewController(p, view)
  <2>1. p = Admin
    BY <1>8 DEF Visit
  <2>2. c \in Controller
    BY DEF NewController, Controller, Connected
  <2>3. controllers' = [controllers EXCEPT ![p] = Append(controllers[p], c)]
        /\ UNCHANGED <<timers, early, unheard>> /\ clicks' = [clicks EXCEPT ![p] = clicks[p] + 1]
    BY <1>0, <1>8 DEF Visit, PageInv
  <2> HIDE DEF c
  <2>4. controllers[p] \in Seq(Controller)
    BY <1>0 DEF PageInv
  <2>5. Append(controllers[p], c) \in Seq(Controller) /\ Append(controllers[p], c) # << >>
        /\ Len(Append(controllers[p], c)) = Len(controllers[p]) + 1
    BY <2>2, <2>4, AppendProperties
  <2>6. DOMAIN controllers[p] \subseteq DOMAIN Append(controllers[p], c)
    BY <2>4, <2>5, LenProperties
  <2>7. \A q \in Page : /\ controllers'[q] # << >>
                        /\ DOMAIN controllers[q] \subseteq DOMAIN controllers'[q]
                        /\ q # Admin => OnDisplay(q)' = OnDisplay(q)
    BY <1>0, <2>1, <2>3, <2>5, <2>6 DEF PageInv, OnDisplay
  <2>8. controllers' \in [Page -> Seq(Controller)] /\ clicks' \in [Page -> Nat]
    BY <1>0, <2>3, <2>5 DEF PageInv
  <2> QED BY <1>0, <2>3, <2>7, <2>8 DEF PageInv
<1>9. ASSUME NEW p \in Page PROVE OnDisplay(p) \in Controller
  <2>1. controllers[p] \in Seq(Controller) /\ controllers[p] # << >>
    BY <1>0 DEF PageInv
  <2>2. Len(controllers[p]) \in DOMAIN controllers[p]
    BY <2>1, LenProperties, EmptySeq
  <2> QED BY <1>5, <2>2 DEF OnDisplay
<1>10. ASSUME NEW p \in Page, OnDisplay(p).view = "monitor" PROVE p = Admin
  BY <1>0, <1>10 DEF PageInv
<1>11. ASSUME NEW p \in Page, ClickSwitch(p) PROVE PageInv'
  <2>1. p = Admin
    BY <1>10, <1>11 DEF ClickSwitch
  <2>2. [OnDisplay(p) EXCEPT !.executorRunning = ~@] \in Controller
        /\ [OnDisplay(p) EXCEPT !.executorRunning = ~@].view = OnDisplay(p).view
    <3>1. OnDisplay(p) \in Controller
      BY <1>9
    <3>2. [OnDisplay(p) EXCEPT !.executorRunning = ~@] =
            [OnDisplay(p) EXCEPT !.executorRunning = ~(OnDisplay(p).executorRunning)]
      BY <3>1 DEF Controller
    <3> QED BY <3>1 DEF Controller
  <2> QED BY <1>0, <1>11, <2>1, <2>2, ClickKeeps DEF ClickSwitch
<1>12. ASSUME NEW p \in Page, NEW a \in NodeAddress, ClickSave(p, a) PROVE PageInv'
  <2>1. p = Admin
    BY <1>10, <1>12 DEF ClickSave
  <2> QED BY <1>0, <1>9, <1>12, <2>1, ClickKeeps DEF ClickSave
<1>13. ASSUME NEW p \in Page, ClickSubmit(p) PROVE PageInv'
  BY <1>0, <1>9, <1>13, ClickKeeps DEF ClickSubmit
<1>14. ASSUME NEW p \in Page, FireTimer(p) PROVE PageInv'
  <2>1. timers[p] \in Seq(Timer) /\ timers[p] # << >>
        /\ timers' = [timers EXCEPT ![p] = Tail(timers[p])]
        /\ UNCHANGED <<controllers, clicks, early, unheard>>
    BY <1>0, <1>14 DEF FireTimer, PageInv
  <2>2. Tail(timers[p]) \in Seq(Timer) /\ Len(Tail(timers[p])) = Len(timers[p]) - 1
        /\ \A k \in 1 .. Len(Tail(timers[p])) : Tail(timers[p])[k] = timers[p][k + 1]
    BY <2>1, HeadTailProperties
  <2>3. \A k \in DOMAIN Tail(timers[p]) :
          k + 1 \in DOMAIN timers[p] /\ Tail(timers[p])[k] = timers[p][k + 1]
    BY <2>1, <2>2, LenProperties
  <2>4. timers' \in [Page -> Seq(Timer)]
    BY <1>0, <2>1, <2>2 DEF PageInv
  <2>5. \A q \in Page : \A k \in DOMAIN timers'[q] :
          \E j \in DOMAIN timers[q] : timers'[q][k] = timers[q][j]
    BY <1>0, <2>1, <2>3 DEF PageInv
  <2> QED BY <1>0, <2>1, <2>4, <2>5 DEF PageInv, OnDisplay
<1>15. CASE UNCHANGED webappVars
  BY <1>2, <1>15 DEF webappVars
<1> QED
  BY <1>2, <1>3, <1>6, <1>7, <1>8, <1>11, <1>12, <1>13, <1>14, <1>15
     DEF WebappNext, PageStep
-----------------------------------------------------------------------------
(* Transport and executor. *)

LEMMA ServedCount ==
  Cardinality({q \in Page : call[q] = "served"}) \in Nat
<1>1. IsFiniteSet({q \in Page : call[q] = "served"})
  BY PageAssumption, FS_Subset
<1> QED BY <1>1, FS_CardinalityType

LEMMA TransportInvNext ==
  ASSUME WebappInv, [WebappNext]_webappVars
  PROVE  TransportInv'
<1> USE DEF TransportInv
<1>0. SocketInv /\ TransportInv
  BY DEF WebappInv
<1>1. CASE UNCHANGED transportVars
  BY <1>0, <1>1 DEF transportVars
<1>2. ASSUME NEW p \in Page,
             OnGetNodeState(p) \/ OnGetIsRunning(p) \/ OnSetIsRunning(p)
             \/ OnNewClientRequest(p) \/ AfterStop(p) \/ AfterPost(p) \/ TakeRequest(p)
      PROVE  TransportInv'
  BY <1>1, <1>2 DEF OnGetNodeState, OnGetIsRunning, OnSetIsRunning, OnNewClientRequest,
                    AfterStop, AfterPost, TakeRequest
<1>3. ASSUME NEW p \in Page, OnSetNodeAddress(p) PROVE TransportInv'
  <2>1. Head(toServer[p]).address \in NodeAddress
    BY <1>0, <1>3, SentLess, RequestFields DEF OnSetNodeAddress, Take, SocketInv
  <2> QED BY <1>0, <1>3, <2>1 DEF OnSetNodeAddress
<1>4. CASE BeginRun \/ OpenServer
  BY <1>0, <1>4 DEF BeginRun, OpenServer
<1>5. CASE TakeGhost
  BY <1>0, <1>5 DEF TakeGhost
<1>6. ASSUME NEW p \in Page, TakeStop(p) PROVE TransportInv'
  BY <1>0, <1>6, ServedCount DEF TakeStop, Closed
<1>7. ASSUME NEW p \in Page, PageStep(p) PROVE UNCHANGED transportVars
  BY <1>7 DEF PageStep, Connect, Flush, Receive, FireTimer, Visit, ClickSwitch, ClickSubmit,
              ClickSave, Click, backendVars
<1>8. CASE UNCHANGED webappVars
  BY <1>1, <1>8 DEF webappVars, backendVars
<1> QED BY <1>1, <1>2, <1>3, <1>4, <1>5, <1>6, <1>7, <1>8 DEF WebappNext, BackendStep, Handle

LEMMA ExecutorInvNext ==
  ASSUME WebappInv, [WebappNext]_webappVars
  PROVE  ExecutorInv'
<1>0. SocketInv /\ ExecutorInv /\ Admin \in Page
  BY AdminAssumption DEF WebappInv
<1>1. CASE UNCHANGED <<executorIsRunning, call, executorVars>>
  BY <1>0, <1>1 DEF ExecutorInv, executorVars
<1>2. ASSUME NEW p \in Page,
             OnGetNodeState(p) \/ OnGetIsRunning(p) \/ PageStep(p)
      PROVE  ExecutorInv'
  <2>1. UNCHANGED <<executorIsRunning, call, executorVars>>
    BY <1>2 DEF OnGetNodeState, OnGetIsRunning, PageStep, Connect, Flush, Receive, FireTimer,
                Visit, ClickSwitch, ClickSubmit, ClickSave, Click, backendVars
  <2> QED BY <1>1, <2>1
<1>3. ASSUME NEW p \in Page, OnSetIsRunning(p) PROVE ExecutorInv'
  <2> DEFINE on == Head(toServer[p]).on
  <2>1. Head(toServer[p]) \in RequestOf(p) /\ Head(toServer[p]) \in Request
        /\ Head(toServer[p]).do = "set-executor-is-running" /\ call[p] = "none" /\ starting = 0
        /\ UNCHANGED <<stop, loop, panicked>>
    BY <1>0, <1>3, SentLess DEF OnSetIsRunning, Take, SocketInv
  <2>2. p = Admin /\ on \in BOOLEAN
    BY <2>1, RequestFields DEF RequestOf
  <2> HIDE DEF on
  <2>3. CASE executorIsRunning /\ ~on /\ stop
    <3>1. call' = [call EXCEPT ![p] = "stop"] /\ UNCHANGED <<executorIsRunning, starting>>
      BY <1>3, <2>3 DEF OnSetIsRunning, on
    <3> QED BY <1>0, <2>1, <2>2, <2>3, <3>1 DEF ExecutorInv
  <2>4. CASE ~(executorIsRunning /\ ~on /\ stop)
    <3>1. UNCHANGED call /\ executorIsRunning' = on
          /\ starting' = (IF ~executorIsRunning /\ on THEN 1 ELSE 0)
      BY <1>3, <2>4 DEF OnSetIsRunning, on
    <3>2. CASE on = FALSE
      <4>1. loop = "none" /\ starting' = 0 /\ executorIsRunning' = FALSE
        BY <1>0, <2>1, <2>2, <2>4, <3>1, <3>2 DEF ExecutorInv
      <4> QED BY <1>0, <2>1, <3>1, <4>1 DEF ExecutorInv
    <3>3. CASE on = TRUE /\ executorIsRunning = TRUE
      <4>1. starting' = 0 /\ executorIsRunning' = TRUE
        BY <3>1, <3>3
      <4>2. loop # "none"
        BY <1>0, <2>1, <3>3 DEF ExecutorInv
      <4> QED BY <1>0, <2>1, <3>1, <4>1, <4>2 DEF ExecutorInv
    <3>4. CASE on = TRUE /\ executorIsRunning = FALSE
      <4>1. starting' = 1 /\ executorIsRunning' = TRUE /\ loop = "none"
        BY <1>0, <3>1, <3>4 DEF ExecutorInv
      <4> QED BY <1>0, <2>1, <3>1, <4>1 DEF ExecutorInv
    <3> QED BY <1>0, <2>2, <3>2, <3>3, <3>4 DEF ExecutorInv
  <2> QED BY <2>3, <2>4
<1>4. ASSUME NEW p \in Page, AfterStop(p) PROVE ExecutorInv'
  <2>1. loop' = "none" /\ executorIsRunning' = FALSE /\ call' = [call EXCEPT ![p] = "none"]
        /\ loop = "stopped" /\ call[p] = "stopped" /\ UNCHANGED <<starting, stop, panicked>>
    BY <1>4 DEF AfterStop
  <2>2. p = Admin /\ starting' = 0 /\ stop' = FALSE
    BY <1>0, <2>1 DEF ExecutorInv
  <2> QED BY <1>0, <2>1, <2>2 DEF ExecutorInv
<1>5. ASSUME NEW p \in Page, TakeStop(p) PROVE ExecutorInv'
  <2>1. /\ loop = "reading" /\ call[p] = "stop" /\ loop' = "stopped" /\ stop' = FALSE
        /\ call' = [q \in Page |-> IF q = p THEN "stopped"
                                   ELSE IF call[q] = "served" THEN "failed" ELSE call[q]]
        /\ UNCHANGED <<executorIsRunning, starting, panicked>>
    BY <1>5 DEF TakeStop
  <2>2. p = Admin
    BY <1>0, <2>1 DEF ExecutorInv
  <2> QED BY <1>0, <2>1, <2>2 DEF ExecutorInv
<1>6. CASE BeginRun
  <2>1. /\ starting > 0 /\ starting' = starting - 1 /\ panicked' = stop
        /\ stop' = TRUE /\ loop' = "reading" /\ UNCHANGED <<executorIsRunning, call>>
    BY <1>6 DEF BeginRun
  <2>2. starting = 1 /\ loop = "none" /\ stop = FALSE
    BY <1>0, <2>1 DEF ExecutorInv
  <2>3. executorIsRunning = TRUE /\ call[Admin] # "stopped"
    BY <1>0, <2>2 DEF ExecutorInv
  <2> QED BY <1>0, <2>1, <2>2, <2>3 DEF ExecutorInv
<1>7. ASSUME NEW p \in Page,
             OnSetNodeAddress(p) \/ OnNewClientRequest(p) \/ AfterPost(p) \/ TakeRequest(p)
      PROVE  ExecutorInv'
  <2>1. UNCHANGED <<executorIsRunning, executorVars>>
    BY <1>7 DEF OnSetNodeAddress, OnNewClientRequest, AfterPost, TakeRequest
  <2>2. /\ call' \in [Page -> {"none", "stop", "stopped", "served", "abandoned", "answered", "failed"}]
        /\ \A q \in Page : /\ call[q] \in {"stop", "stopped"} => call'[q] = call[q]
                           /\ call'[q] \in {"stop", "stopped"} => call'[q] = call[q]
    BY <1>0, <1>7 DEF OnSetNodeAddress, OnNewClientRequest, AfterPost, TakeRequest, Take,
                      ExecutorInv
  <2> QED BY <1>0, <2>1, <2>2 DEF ExecutorInv, executorVars
<1>8. CASE OpenServer \/ TakeGhost
  BY <1>1, <1>8 DEF OpenServer, TakeGhost
<1>9. CASE UNCHANGED webappVars
  BY <1>1, <1>9 DEF webappVars, backendVars
<1> QED BY <1>2, <1>3, <1>4, <1>5, <1>6, <1>7, <1>8, <1>9 DEF WebappNext, BackendStep, Handle

LEMMA WebappInvHolds == WebappSpec => []WebappInv
<1>1. WebappInv /\ [WebappNext]_webappVars => WebappInv'
  BY SocketInvNext, PageInvNext, TransportInvNext, ExecutorInvNext DEF WebappInv
<1> QED BY WebappInvInit, <1>1, PTL DEF WebappSpec

\* Whatever the pages do, messages, controllers and goroutines have their types.
THEOREM WebappTypeCorrect == WebappSpec => []WebappTypeOK
<1>1. WebappInv => WebappTypeOK
  <2> SUFFICES ASSUME WebappInv PROVE WebappTypeOK
    OBVIOUS
  <2>1. /\ toServer \in [Page -> Seq(Request)] /\ toPage \in [Page -> Seq(Answer)]
        /\ queue \in [Page -> Seq(Request)]
        /\ link \in [Page -> {"connecting", "greeted", "connected", "ready"}]
    BY DEF WebappInv, SocketInv, SentOK, AnswersOK
  <2>2. /\ controllers \in [Page -> Seq(Controller)] /\ timers \in [Page -> Seq(Timer)]
        /\ clicks \in [Page -> Nat] /\ early \in [Page -> BOOLEAN]
        /\ unheard \in [Page -> BOOLEAN]
    BY DEF WebappInv, PageInv
  <2>3. /\ call \in [Page -> {"none", "stop", "stopped", "served", "abandoned", "answered", "failed"}]
        /\ executorIsRunning \in BOOLEAN /\ starting \in Nat /\ stop \in BOOLEAN
        /\ panicked \in BOOLEAN
        /\ loop \in {"none", "reading", "stopped"}
    <3>1. ExecutorInv
      BY DEF WebappInv
    <3>2. call \in [Page -> {"none", "stop", "stopped", "served", "abandoned", "answered", "failed"}]
          /\ executorIsRunning \in BOOLEAN /\ stop \in BOOLEAN
      BY <3>1 DEF ExecutorInv
    <3>3. starting \in Nat
      <4>1. starting \in {0, 1}
        BY <3>1, Zenon DEF ExecutorInv
      <4> QED BY <4>1
    <3>4. panicked \in BOOLEAN
      <4>1. panicked = FALSE
        BY <3>1, Zenon DEF ExecutorInv
      <4> QED BY <4>1
    <3>5. loop \in {"none", "reading", "stopped"}
      BY <3>1, Zenon DEF ExecutorInv
    <3> QED BY <3>2, <3>3, <3>4, <3>5
  <2>4. TransportInv
    BY DEF WebappInv
  <2> QED BY <2>1, <2>2, <2>3, <2>4 DEF TransportInv, WebappTypeOK
<1> QED BY <1>1, WebappInvHolds, PTL

\* However many pages there are, and however often the administrator turns the
\* switch, no Run finds another one.
THEOREM RunsNeverMeet == WebappSpec => []RunsOnce
<1>1. WebappInv => RunsOnce
  BY DEF WebappInv, ExecutorInv, RunsOnce
<1> QED BY <1>1, WebappInvHolds, PTL

\* The flag says whether the executor runs.
THEOREM FlagIsTrue == WebappSpec => []FlagIsRunning
<1>1. WebappInv => FlagIsRunning
  <2> SUFFICES ASSUME WebappInv, call[Admin] = "none", starting = 0
               PROVE  executorIsRunning <=> loop = "reading"
    BY DEF FlagIsRunning
  <2>1. CASE loop = "none"
    <3>1. executorIsRunning = FALSE
      BY <2>1 DEF WebappInv, ExecutorInv
    <3> QED BY <2>1, <3>1
  <2>2. CASE loop = "reading"
    BY <2>2 DEF WebappInv, ExecutorInv
  <2>3. CASE loop = "stopped"
    BY <2>3 DEF WebappInv, ExecutorInv
  <2> QED BY <2>1, <2>2, <2>3 DEF WebappInv, ExecutorInv
<1> QED BY <1>1, WebappInvHolds, PTL

-----------------------------------------------------------------------------
(***************************************************************************)
(* What the switch shows.  Either somebody is still to ask for the flag,   *)
(* and will be told, or the last answer under way tells it, or there is no *)
(* such answer and the switch shows it.                                    *)
(***************************************************************************)
FlagRequests == {"get-executor-is-running", "set-executor-is-running"}
AsksFlag(sent) == \E k \in DOMAIN sent : sent[k].do \in FlagRequests
TellsFlag(m) == m.do = "executor-is-running-info"

Agree(answers, shown, flag) ==
  /\ \A k \in DOMAIN answers :
       TellsFlag(answers[k]) /\ (\A j \in DOMAIN answers : TellsFlag(answers[j]) => j <= k)
         => answers[k].on = flag
  /\ (\A k \in DOMAIN answers : ~TellsFlag(answers[k])) => shown = flag

SwitchTurned == \E k \in DOMAIN timers[Admin] : timers[Admin][k].request = Switch

FlagAsked ==
  \/ AsksFlag(toServer[Admin]) \/ AsksFlag(queue[Admin]) \/ SwitchTurned
  \/ call[Admin] \in {"stop", "stopped"}

\* A monitor that does not listen yet has its question in the queue.
ShowInv ==
  /\ link[Admin] = "connecting" => toServer[Admin] = << >>
  /\ link[Admin] = "ready" => queue[Admin] = << >>
  /\ OnDisplay(Admin).view = "monitor" =>
       /\ OnDisplay(Admin).hears \/ AsksFlag(queue[Admin])
       /\ \/ FlagAsked
          \/ Agree(toPage[Admin], OnDisplay(Admin).executorRunning, executorIsRunning)

LEMMA AsksMore ==
  ASSUME NEW S, NEW s \in Seq(S), NEW t \in Seq(S), AsksFlag(s) \/ AsksFlag(t)
  PROVE  AsksFlag(s \o t)
<1>1. /\ DOMAIN (s \o t) = 1 .. Len(s) + Len(t) /\ DOMAIN s = 1 .. Len(s)
      /\ DOMAIN t = 1 .. Len(t) /\ Len(s) \in Nat /\ Len(t) \in Nat
      /\ \A i \in 1 .. Len(s) + Len(t) :
           (s \o t)[i] = IF i <= Len(s) THEN s[i] ELSE t[i - Len(s)]
  BY ConcatProperties, LenProperties
<1>2. ASSUME NEW k \in DOMAIN s PROVE k \in DOMAIN (s \o t) /\ (s \o t)[k] = s[k]
  BY <1>1
<1>3. ASSUME NEW k \in DOMAIN t
      PROVE  Len(s) + k \in DOMAIN (s \o t) /\ (s \o t)[Len(s) + k] = t[k]
  <2>1. k \in 1 .. Len(t) /\ Len(s) + k \in 1 .. Len(s) + Len(t) /\ ~(Len(s) + k <= Len(s))
        /\ Len(s) + k - Len(s) = k
    BY <1>1
  <2> QED BY <1>1, <2>1
<1> QED BY <1>2, <1>3 DEF AsksFlag

LEMMA AsksLess ==
  ASSUME NEW S, NEW s \in Seq(S), s # << >>, AsksFlag(s), Head(s).do \notin FlagRequests
  PROVE  AsksFlag(Tail(s))
<1>1. /\ DOMAIN s = 1 .. Len(s) /\ DOMAIN Tail(s) = 1 .. Len(s) - 1 /\ Len(s) \in Nat
      /\ \A i \in 1 .. Len(s) - 1 : Tail(s)[i] = s[i + 1]
      /\ Head(s) = s[1]
  BY HeadTailProperties, LenProperties
<1>2. PICK k \in DOMAIN s : s[k].do \in FlagRequests
  BY DEF AsksFlag
<1>3. k # 1
  BY <1>1, <1>2
<1> DEFINE i == k - 1
<1>4. i \in 1 .. Len(s) - 1 /\ i + 1 = k
  BY <1>1, <1>3
<1> HIDE DEF i
<1>5. i \in DOMAIN Tail(s) /\ Tail(s)[i] = s[k]
  BY <1>1, <1>4
<1> QED BY <1>2, <1>5 DEF AsksFlag

LEMMA OneOrTwo ==
  ASSUME NEW n \in Nat, NEW l \in {1, 2}, NEW k \in 1 .. n + l, n + 1 <= k
  PROVE  k = n + 1 \/ (k = n + 2 /\ l = 2)
OBVIOUS

\* the last answer is the one that tells
LEMMA AgreeTold ==
  ASSUME NEW s \in Seq(Answer), NEW shown, NEW flag \in BOOLEAN,
         NEW answers, answers = << IsRunning(flag) >> \/ answers = << IsRunning(flag), Ack >>
  PROVE  Agree(s \o answers, shown, flag)
<1> DEFINE all == s \o answers
<1>1. answers \in Seq(Answer) /\ Len(answers) \in {1, 2}
      /\ answers[1] = IsRunning(flag) /\ (Len(answers) = 2 => answers[2] = Ack)
  <2>1. answers \in Seq(Answer)
    BY AnswerSeqs
  <2>2. CASE answers = << IsRunning(flag) >>
    BY <2>1, <2>2
  <2>3. CASE answers = << IsRunning(flag), Ack >>
    BY <2>1, <2>3
  <2> QED BY <2>2, <2>3
<1>2. /\ DOMAIN all = 1 .. Len(s) + Len(answers) /\ Len(s) \in Nat
      /\ \A i \in 1 .. Len(s) + Len(answers) :
           all[i] = IF i <= Len(s) THEN s[i] ELSE answers[i - Len(s)]
  BY <1>1, ConcatProperties, LenProperties
<1> HIDE DEF all
<1>3. Len(s) + 1 \in DOMAIN all /\ all[Len(s) + 1] = IsRunning(flag)
  <2>1. Len(s) + 1 \in 1 .. Len(s) + Len(answers) /\ ~(Len(s) + 1 <= Len(s))
        /\ Len(s) + 1 - Len(s) = 1
    BY <1>1, <1>2
  <2> QED BY <1>1, <1>2, <2>1
<1>4. TellsFlag(IsRunning(flag)) /\ IsRunning(flag).on = flag /\ ~TellsFlag(Ack)
  BY DEF TellsFlag, IsRunning, Ack
<1>5. ASSUME NEW k \in DOMAIN all, TellsFlag(all[k]),
             \A j \in DOMAIN all : TellsFlag(all[j]) => j <= k
      PROVE  all[k].on = flag
  <2>1. Len(s) + 1 <= k
    BY <1>3, <1>4, <1>5
  <2>2. k = Len(s) + 1 \/ (k = Len(s) + 2 /\ Len(answers) = 2)
    <3>1. k \in 1 .. Len(s) + Len(answers) /\ Len(s) \in Nat
      BY <1>2
    <3> QED BY <1>1, <2>1, <3>1, OneOrTwo
  <2>3. k # Len(s) + 2
    <3> SUFFICES ASSUME k = Len(s) + 2, Len(answers) = 2 PROVE FALSE
      BY <1>2, <2>2
    <3>1. k \in 1 .. Len(s) + Len(answers) /\ ~(k <= Len(s)) /\ k - Len(s) = 2
      BY <1>2
    <3>2. all[k] = Ack
      BY <1>1, <1>2, <3>1
    <3> QED BY <1>4, <1>5, <3>2
  <2> QED BY <1>3, <1>4, <2>2, <2>3
<1>6. Agree(all, shown, flag)
  BY <1>3, <1>4, <1>5 DEF Agree
<1> QED BY <1>6 DEF all

LEMMA AgreeQuiet ==
  ASSUME NEW s \in Seq(Answer), NEW shown, NEW flag, NEW m \in Answer, ~TellsFlag(m),
         Agree(s, shown, flag)
  PROVE  Agree(s \o << m >>, shown, flag)
<1> DEFINE all == s \o << m >>
<1>1. << m >> \in Seq(Answer) /\ Len(<< m >>) = 1 /\ << m >>[1] = m
  OBVIOUS
<1>2. /\ DOMAIN all = 1 .. Len(s) + 1 /\ DOMAIN s = 1 .. Len(s) /\ Len(s) \in Nat
      /\ \A i \in 1 .. Len(s) + 1 : all[i] = IF i <= Len(s) THEN s[i] ELSE << m >>[i - Len(s)]
  BY <1>1, ConcatProperties, LenProperties
<1> HIDE DEF all
<1>3. \A k \in DOMAIN s : k \in DOMAIN all /\ all[k] = s[k]
  BY <1>2
<1>4. ASSUME NEW k \in DOMAIN all, TellsFlag(all[k]) PROVE k \in DOMAIN s
  <2> SUFFICES ASSUME k \notin DOMAIN s PROVE FALSE
    OBVIOUS
  <2>1. ~(k <= Len(s)) /\ k - Len(s) = 1
    BY <1>2
  <2> QED BY <1>1, <1>2, <1>4, <2>1
<1>5. Agree(all, shown, flag)
  BY <1>3, <1>4 DEF Agree
<1> QED BY <1>5 DEF all

LEMMA AgreeHeard ==
  ASSUME NEW s \in Seq(Answer), s # << >>, NEW shown, NEW flag, NEW next,
         next = (IF TellsFlag(Head(s)) THEN Head(s).on ELSE shown),
         Agree(s, shown, flag)
  PROVE  Agree(Tail(s), next, flag)
<1> DEFINE rest == Tail(s)
<1>1. /\ DOMAIN s = 1 .. Len(s) /\ DOMAIN rest = 1 .. Len(s) - 1 /\ Len(s) \in Nat \ {0}
      /\ \A i \in 1 .. Len(s) - 1 : rest[i] = s[i + 1]
      /\ Head(s) = s[1]
  BY HeadTailProperties, LenProperties, EmptySeq
<1> HIDE DEF rest
<1>2. \A k \in DOMAIN rest : k + 1 \in DOMAIN s /\ rest[k] = s[k + 1]
  BY <1>1
<1>3. ASSUME NEW k \in DOMAIN s, k # 1 PROVE k - 1 \in DOMAIN rest /\ rest[k - 1] = s[k]
  <2>1. k - 1 \in 1 .. Len(s) - 1 /\ k - 1 + 1 = k
    BY <1>1, <1>3
  <2> QED BY <1>1, <2>1
<1>4. 1 \in DOMAIN s
  BY <1>1
<1>5. ASSUME NEW k \in DOMAIN rest, TellsFlag(rest[k]),
             \A j \in DOMAIN rest : TellsFlag(rest[j]) => j <= k
      PROVE  rest[k].on = flag
  <2>1. ASSUME NEW j \in DOMAIN s, TellsFlag(s[j]) PROVE j <= k + 1
    <3>1. CASE j = 1
      BY <1>1, <3>1
    <3>2. CASE j # 1
      <4>1. j - 1 <= k
        BY <1>3, <1>5, <2>1, <3>2
      <4> QED BY <1>1, <4>1
    <3> QED BY <3>1, <3>2
  <2> QED BY <1>2, <1>5, <2>1 DEF Agree
<1>6. ASSUME \A k \in DOMAIN rest : ~TellsFlag(rest[k]) PROVE next = flag
  <2>1. ASSUME NEW k \in DOMAIN s, TellsFlag(s[k]) PROVE k = 1
    BY <1>3, <1>6, <2>1
  <2>2. CASE TellsFlag(Head(s))
    <3>1. \A j \in DOMAIN s : TellsFlag(s[j]) => j <= 1
      BY <2>1
    <3>2. s[1].on = flag
      BY <1>1, <1>4, <2>2, <3>1 DEF Agree
    <3> QED BY <1>1, <2>2, <3>2
  <2>3. CASE ~TellsFlag(Head(s))
    <3>1. \A k \in DOMAIN s : ~TellsFlag(s[k])
      BY <1>1, <2>1, <2>3
    <3> QED BY <2>3, <3>1 DEF Agree
  <2> QED BY <2>2, <2>3
<1>7. Agree(rest, next, flag)
  BY <1>5, <1>6 DEF Agree
<1> QED BY <1>7 DEF rest

LEMMA AsksEmpty == ~AsksFlag(<< >>)
BY DEF AsksFlag

-----------------------------------------------------------------------------
(* The steps that change little of what the administrator's page is told.   *)

LEMMA ShowKept ==
  ASSUME ShowInv,
         link'[Admin] = "connecting" => toServer'[Admin] = << >>,
         link'[Admin] = "ready" => queue'[Admin] = << >>,
         OnDisplay(Admin)'.view = OnDisplay(Admin).view,
         OnDisplay(Admin).hears \/ AsksFlag(queue[Admin])
           => OnDisplay(Admin)'.hears \/ AsksFlag(queue'[Admin]),
         FlagAsked => FlagAsked',
         Agree(toPage[Admin], OnDisplay(Admin).executorRunning, executorIsRunning)
         /\ OnDisplay(Admin).view = "monitor"
           => FlagAsked' \/ Agree(toPage'[Admin], OnDisplay(Admin)'.executorRunning,
                                  executorIsRunning')
  PROVE  ShowInv'
BY Zenon DEF ShowInv

AdminAside ==
  /\ link'[Admin] = link[Admin] /\ queue'[Admin] = queue[Admin]
  /\ controllers'[Admin] = controllers[Admin] /\ timers'[Admin] = timers[Admin]
  /\ toServer'[Admin] = toServer[Admin] /\ toPage'[Admin] = toPage[Admin]
  /\ executorIsRunning' = executorIsRunning
  /\ call[Admin] \in {"stop", "stopped"} => call'[Admin] \in {"stop", "stopped"}

LEMMA AsideShows == ShowInv /\ AdminAside => ShowInv'
<1> SUFFICES ASSUME ShowInv, AdminAside PROVE ShowInv'
  OBVIOUS
<1>1. OnDisplay(Admin)' = OnDisplay(Admin)
  BY DEF AdminAside, OnDisplay
<1>2. FlagAsked => FlagAsked'
  BY DEF AdminAside, FlagAsked, SwitchTurned
<1>3. ShowInv'
  BY <1>1, <1>2, Zenon DEF AdminAside, ShowInv
<1> QED BY <1>3

\* the socket of a page that only reads
PageQuiet == UNCHANGED <<link, queue, controllers, timers>>

LEMMA QuietShows ==
  ASSUME ShowInv, PageQuiet, NEW m \in Answer, ~TellsFlag(m), toPage[Admin] \in Seq(Answer),
         toPage'[Admin] = toPage[Admin] \o << m >>,
         executorIsRunning' = executorIsRunning,
         toServer[Admin] = << >> => toServer'[Admin] = << >>,
         AsksFlag(toServer[Admin]) => AsksFlag(toServer'[Admin]),
         call[Admin] \in {"stop", "stopped"} => call'[Admin] \in {"stop", "stopped"}
  PROVE  ShowInv'
<1>1. OnDisplay(Admin)' = OnDisplay(Admin)
  BY DEF PageQuiet, OnDisplay
<1>2. FlagAsked => FlagAsked'
  BY DEF PageQuiet, FlagAsked, SwitchTurned
<1>3. Agree(toPage[Admin], OnDisplay(Admin).executorRunning, executorIsRunning)
        => Agree(toPage'[Admin], OnDisplay(Admin)'.executorRunning, executorIsRunning')
  BY <1>1, AgreeQuiet
<1>4. link' = link /\ queue' = queue
  BY DEF PageQuiet
<1>5. link'[Admin] = "connecting" => toServer'[Admin] = << >>
  BY <1>4 DEF ShowInv
<1>6. link'[Admin] = "ready" => queue'[Admin] = << >>
  BY <1>4 DEF ShowInv
<1> QED BY <1>1, <1>2, <1>3, <1>4, <1>5, <1>6, ShowKept

\* Whoever is told the flag as it is now has nothing to ask.
LEMMA ToldShows ==
  ASSUME ShowInv, PageQuiet, toPage[Admin] \in Seq(Answer), executorIsRunning' \in BOOLEAN,
         NEW answers,
         answers = << IsRunning(executorIsRunning') >>
         \/ answers = << IsRunning(executorIsRunning'), Ack >>,
         toPage'[Admin] = toPage[Admin] \o answers,
         toServer[Admin] = << >> => toServer'[Admin] = << >>
  PROVE  ShowInv'
<1>1. OnDisplay(Admin)' = OnDisplay(Admin)
  BY DEF PageQuiet, OnDisplay
<1>2. PICK flag \in BOOLEAN : flag = executorIsRunning'
  OBVIOUS
<1>3. Agree(toPage[Admin] \o answers, OnDisplay(Admin)'.executorRunning, flag)
  BY <1>2, AgreeTold
<1>4. Agree(toPage'[Admin], OnDisplay(Admin)'.executorRunning, executorIsRunning')
  BY <1>2, <1>3
<1>5. link' = link /\ queue' = queue
  BY DEF PageQuiet
<1>6. link'[Admin] = "connecting" => toServer'[Admin] = << >>
  BY <1>5 DEF ShowInv
<1>7. link'[Admin] = "ready" => queue'[Admin] = << >>
  BY <1>5 DEF ShowInv
<1> QED BY <1>1, <1>4, <1>5, <1>6, <1>7, Zenon DEF ShowInv

-----------------------------------------------------------------------------
(* Handlers. *)

LEMMA HandleShows ==
  ASSUME WebappInv, ShowInv, NEW p \in Page, Handle(p), UNCHANGED pageVars
  PROVE  ShowInv'
<1>0. SocketInv /\ ExecutorInv /\ Admin \in Page /\ toPage[Admin] \in Seq(Answer)
  BY AdminAssumption DEF WebappInv, SocketInv, AnswersOK
<1>1. /\ PageQuiet /\ link' = link /\ queue' = queue /\ controllers' = controllers
      /\ timers' = timers
  BY DEF PageQuiet, pageVars
<1>2. ASSUME NEW kind, Take(p, kind)
      PROVE  /\ call[p] = "none" /\ toServer[p] # << >> /\ Head(toServer[p]).do = kind
             /\ toServer' = [toServer EXCEPT ![p] = Tail(@)]
             /\ toServer[p] \in Seq(Request) /\ Head(toServer[p]) \in RequestOf(p)
             /\ Head(toServer[p]) \in Request
  BY <1>0, <1>2, SentLess DEF Take, SocketInv, SentOK
<1>3. CASE p # Admin
  <2>1. ~OnSetIsRunning(p)
    <3> SUFFICES ASSUME OnSetIsRunning(p) PROVE FALSE
      OBVIOUS
    <3>1. Take(p, "set-executor-is-running")
      BY DEF OnSetIsRunning
    <3>2. Head(toServer[p]) \in Harmless /\ Head(toServer[p]) \in Request
          /\ Head(toServer[p]).do = "set-executor-is-running"
      BY <1>2, <1>3, <3>1 DEF RequestOf
    <3> QED BY <3>2, RequestFields
  <2>2. ~AfterStop(p)
    BY <1>0, <1>3 DEF AfterStop, ExecutorInv
  <2>3. /\ toServer'[Admin] = toServer[Admin] /\ toPage'[Admin] = toPage[Admin]
        /\ executorIsRunning' = executorIsRunning
        /\ call[Admin] \in {"stop", "stopped"} => call'[Admin] \in {"stop", "stopped"}
    BY <1>0, <1>3, <2>1, <2>2
       DEF Handle, OnGetNodeState, OnGetIsRunning, OnSetNodeAddress, OnNewClientRequest,
           AfterPost, Take, Emit, SocketInv, SentOK, AnswersOK, ExecutorInv
  <2> QED BY <1>1, <2>3, AsideShows DEF AdminAside
<1>4. ASSUME p = Admin, NEW kind, Take(p, kind)
      PROVE  /\ toServer[Admin] # << >>
             /\ kind \notin FlagRequests
                  => (AsksFlag(toServer[Admin]) => AsksFlag(toServer'[Admin]))
  <2>1. /\ toServer[Admin] # << >> /\ toServer[Admin] \in Seq(Request)
        /\ Head(toServer[Admin]).do = kind /\ toServer'[Admin] = Tail(toServer[Admin])
    BY <1>0, <1>2, <1>4 DEF SocketInv, SentOK
  <2> QED BY <2>1, AsksLess
<1>5. ASSUME p = Admin, OnGetNodeState(p) PROVE ShowInv'
  <2>1. NodeState \in Answer /\ ~TellsFlag(NodeState)
    BY DEF Answer, NodeState, TellsFlag
  <2>2. Take(p, "get-node-state") /\ "get-node-state" \notin FlagRequests
        /\ toPage'[Admin] = toPage[Admin] \o << NodeState >>
        /\ UNCHANGED <<executorIsRunning, call>>
    BY <1>0, <1>5 DEF OnGetNodeState, Emit, SocketInv, AnswersOK, FlagRequests
  <2> QED BY <1>0, <1>1, <1>4, <1>5, <2>1, <2>2, QuietShows
<1>6. Ack \in Answer /\ ~TellsFlag(Ack)
  BY DEF Answer, Ack, TellsFlag
<1>7. ASSUME p = Admin, OnSetNodeAddress(p) PROVE ShowInv'
  <2>1. Take(p, "set-node-address") /\ "set-node-address" \notin FlagRequests
        /\ toPage'[Admin] = toPage[Admin] \o << Ack >>
        /\ executorIsRunning' = executorIsRunning
    BY <1>0, <1>7 DEF OnSetNodeAddress, Emit, SocketInv, AnswersOK, FlagRequests
  <2>2. call[Admin] = "none"
    BY <1>2, <1>7, <2>1
  <2> QED BY <1>0, <1>1, <1>4, <1>6, <1>7, <2>1, <2>2, QuietShows
<1>8. ASSUME p = Admin, AfterPost(p) PROVE ShowInv'
  <2>1. toPage'[Admin] = toPage[Admin] \o << Ack >>
        /\ executorIsRunning' = executorIsRunning /\ toServer' = toServer
        /\ call[Admin] \in {"answered", "failed"}
    BY <1>0, <1>8 DEF AfterPost, Emit, SocketInv, AnswersOK
  <2> QED BY <1>0, <1>1, <1>6, <2>1, QuietShows
<1>9. ASSUME p = Admin, OnNewClientRequest(p) PROVE ShowInv'
  <2>1. Take(p, "new-client-command") /\ "new-client-command" \notin FlagRequests
        /\ toPage' = toPage /\ executorIsRunning' = executorIsRunning
    BY <1>9 DEF OnNewClientRequest, FlagRequests
  <2>2. call[Admin] = "none" /\ toServer[Admin] # << >>
    BY <1>2, <1>9, <2>1
  <2>3. AsksFlag(toServer[Admin]) => AsksFlag(toServer'[Admin])
    BY <1>4, <1>9, <2>1
  <2>4. OnDisplay(Admin)' = OnDisplay(Admin)
    BY <1>1 DEF OnDisplay
  <2>5. FlagAsked => FlagAsked'
    BY <1>1, <2>2, <2>3 DEF FlagAsked, SwitchTurned
  <2> QED BY <1>1, <2>1, <2>2, <2>4, <2>5, Zenon DEF ShowInv
<1>10. ASSUME p = Admin, OnGetIsRunning(p) PROVE ShowInv'
  <2>1. Take(p, "get-executor-is-running")
        /\ toPage'[Admin] = toPage[Admin] \o << IsRunning(executorIsRunning') >>
        /\ executorIsRunning' \in BOOLEAN
    BY <1>0, <1>10 DEF OnGetIsRunning, Emit, SocketInv, AnswersOK, ExecutorInv
  <2> QED BY <1>0, <1>1, <1>4, <1>10, <2>1, ToldShows
<1>11. ASSUME p = Admin, OnSetIsRunning(p) PROVE ShowInv'
  <2> DEFINE on == Head(toServer[Admin]).on
  <2>1. Take(p, "set-executor-is-running")
    BY <1>11 DEF OnSetIsRunning
  <2>2. on \in BOOLEAN /\ toServer[Admin] # << >>
    BY <1>2, <1>11, <2>1, RequestFields
  <2>3. CASE executorIsRunning /\ ~on /\ stop
    <3>1. call' = [call EXCEPT ![Admin] = "stop"]
      BY <1>11, <2>3 DEF OnSetIsRunning
    <3>2. FlagAsked'
      BY <1>0, <3>1 DEF FlagAsked, ExecutorInv
    <3>3. OnDisplay(Admin)' = OnDisplay(Admin)
      BY <1>1 DEF OnDisplay
    <3> QED BY <1>1, <2>2, <3>2, <3>3, Zenon DEF ShowInv
  <2>4. CASE ~(executorIsRunning /\ ~on /\ stop)
    <3>1. executorIsRunning' = on /\ Emit(p, << IsRunning(on), Ack >>)
      BY <1>11, <2>4 DEF OnSetIsRunning
    <3>2. toPage'[Admin] = toPage[Admin] \o << IsRunning(executorIsRunning'), Ack >>
      BY <1>0, <1>11, <3>1 DEF Emit, SocketInv, AnswersOK
    <3>3. executorIsRunning' \in BOOLEAN
      BY <2>2, <3>1
    <3> QED BY <1>0, <1>1, <2>2, <3>2, <3>3, ToldShows
  <2> QED BY <2>3, <2>4
<1>12. ASSUME p = Admin, AfterStop(p) PROVE ShowInv'
  <2>1. executorIsRunning' = FALSE /\ Emit(p, << IsRunning(FALSE), Ack >>)
        /\ toServer' = toServer
    BY <1>12 DEF AfterStop
  <2>2. toPage'[Admin] = toPage[Admin] \o << IsRunning(executorIsRunning'), Ack >>
    BY <1>0, <1>12, <2>1 DEF Emit, SocketInv, AnswersOK
  <2> QED BY <1>0, <1>1, <2>1, <2>2, ToldShows
<1> QED
  BY <1>3, <1>5, <1>7, <1>8, <1>9, <1>10, <1>11, <1>12, Zenon DEF Handle

\* Of the goroutines of Run only the end of Stop is waited for by the switch.
LEMMA RunShows ==
  ASSUME WebappInv, ShowInv, NEW p \in Page,
         TakeRequest(p) \/ TakeStop(p) \/ BeginRun \/ OpenServer \/ TakeGhost,
         UNCHANGED pageVars
  PROVE  ShowInv'
<1>0. ExecutorInv /\ Admin \in Page
  BY AdminAssumption DEF WebappInv
<1>1. UNCHANGED <<link, queue, controllers, timers, toServer, toPage, executorIsRunning>>
  BY DEF pageVars, TakeRequest, TakeStop, BeginRun, OpenServer, TakeGhost, socketVars
<1>2. call[Admin] \in {"stop", "stopped"} => call'[Admin] \in {"stop", "stopped"}
  BY <1>0 DEF TakeRequest, TakeStop, BeginRun, OpenServer, TakeGhost, ExecutorInv
<1> QED BY <1>1, <1>2, AsideShows DEF AdminAside

-----------------------------------------------------------------------------
(* Turns of the administrator's page. *)

LEMMA PageFacts ==
  ASSUME WebappInv
  PROVE  /\ Admin \in Page
         /\ toServer \in [Page -> Seq(Request)] /\ queue \in [Page -> Seq(Request)]
         /\ toPage \in [Page -> Seq(Answer)] /\ timers \in [Page -> Seq(Timer)]
         /\ link \in [Page -> {"connecting", "greeted", "connected", "ready"}]
         /\ controllers \in [Page -> Seq(Controller)]
         /\ Len(controllers[Admin]) \in DOMAIN controllers[Admin]
         /\ Len(controllers[Admin]) \in Nat
         /\ OnDisplay(Admin) \in Controller
<1>1. Admin \in Page
  BY AdminAssumption
<1>2. controllers[Admin] \in Seq(Controller) /\ controllers[Admin] # << >>
  BY <1>1 DEF WebappInv, PageInv
<1>3. Len(controllers[Admin]) \in DOMAIN controllers[Admin] /\ Len(controllers[Admin]) \in Nat
  BY <1>2, LenProperties, EmptySeq
<1>4. OnDisplay(Admin) \in Controller
  BY <1>2, <1>3, LenProperties, ElementOfSeq DEF OnDisplay
<1> QED BY <1>1, <1>3, <1>4 DEF WebappInv, SocketInv, PageInv, SentOK, AnswersOK

LEMMA OthersShow ==
  ASSUME WebappInv, ShowInv, NEW p \in Page, p # Admin, PageStep(p)
  PROVE  ShowInv'
<1>1. /\ link'[Admin] = link[Admin] /\ queue'[Admin] = queue[Admin]
      /\ controllers'[Admin] = controllers[Admin] /\ timers'[Admin] = timers[Admin]
      /\ toServer'[Admin] = toServer[Admin] /\ toPage'[Admin] = toPage[Admin]
      /\ UNCHANGED <<executorIsRunning, call>>
  BY PageFacts DEF PageStep, Connect, Flush, Receive, FireTimer, Visit, ClickSwitch,
     ClickSubmit, ClickSave, Click, PageEmit, backendVars, socketVars
<1> QED BY <1>1, AsideShows DEF AdminAside

LEMMA ConnectShows ==
  ASSUME WebappInv, ShowInv, Connect(Admin)
  PROVE  ShowInv'
<1>1. /\ UNCHANGED <<toPage, executorIsRunning, call, queue, controllers, timers>>
      /\ link[Admin] = "connecting" /\ link'[Admin] = "greeted"
  BY PageFacts DEF Connect
<1>2. ~AsksFlag(toServer[Admin])
  BY <1>1, AsksEmpty DEF ShowInv
<1>3. OnDisplay(Admin)' = OnDisplay(Admin)
  BY <1>1 DEF OnDisplay
<1>4. FlagAsked => FlagAsked'
  BY <1>1, <1>2 DEF FlagAsked, SwitchTurned
<1> QED BY <1>1, <1>3, <1>4, Zenon DEF ShowInv

LEMMA FlushShows ==
  ASSUME WebappInv, ShowInv, Flush(Admin)
  PROVE  ShowInv'
<1> DEFINE last == Len(controllers[Admin])
           d == [k \in DOMAIN controllers[Admin] |->
                   [controllers[Admin][k] EXCEPT !.hears = TRUE]]
<1>1. /\ UNCHANGED <<toPage, executorIsRunning, call, timers>>
      /\ link'[Admin] = "ready" /\ queue'[Admin] = << >>
      /\ toServer'[Admin] = toServer[Admin] \o queue[Admin]
      /\ controllers'[Admin] = d
  BY PageFacts DEF Flush
<1>2. toServer[Admin] \in Seq(Request) /\ queue[Admin] \in Seq(Request)
  BY PageFacts
<1>3. FlagAsked => FlagAsked'
  BY <1>1, <1>2, AsksMore DEF FlagAsked, SwitchTurned
<1>4. Len(d) = last
  BY PageFacts, LenProperties
<1>5. OnDisplay(Admin)' = [OnDisplay(Admin) EXCEPT !.hears = TRUE]
  BY <1>1, <1>4, PageFacts DEF OnDisplay
<1>6. /\ OnDisplay(Admin)'.hears = TRUE /\ OnDisplay(Admin)'.view = OnDisplay(Admin).view
      /\ OnDisplay(Admin)'.executorRunning = OnDisplay(Admin).executorRunning
  BY <1>5, PageFacts DEF Controller
<1> HIDE DEF d, last
<1> QED BY <1>1, <1>3, <1>6, Zenon DEF ShowInv

LEMMA ReceiveShows ==
  ASSUME WebappInv, ShowInv, Receive(Admin)
  PROVE  ShowInv'
<1> DEFINE m == Head(toPage[Admin])
           c == OnDisplay(Admin)
           d == [k \in DOMAIN controllers[Admin] |->
                   IF controllers[Admin][k].hears THEN Heard(controllers[Admin][k], m)
                   ELSE controllers[Admin][k]]
<1>1. /\ UNCHANGED <<toServer, executorIsRunning, call, timers, queue>>
      /\ toPage[Admin] # << >> /\ toPage'[Admin] = Tail(toPage[Admin])
      /\ link'[Admin] \in {link[Admin], "connected"}
      /\ controllers'[Admin] = d
  BY PageFacts DEF Receive
<1>2. toPage[Admin] \in Seq(Answer) /\ m \in Answer /\ c \in Controller
  BY <1>1, PageFacts, HeadTailProperties
<1>3. FlagAsked => FlagAsked'
  BY <1>1 DEF FlagAsked, SwitchTurned
<1>4. Len(d) = Len(controllers[Admin])
  BY PageFacts, LenProperties
<1>5. OnDisplay(Admin)' = IF c.hears THEN Heard(c, m) ELSE c
  BY <1>1, <1>4, PageFacts DEF OnDisplay
<1>6. TellsFlag(m) => m.on \in BOOLEAN
  BY <1>2 DEF Answer, Ack, NodeState, IsRunning, TellsFlag
<1>7. /\ Heard(c, m).hears = c.hears /\ Heard(c, m).view = c.view
      /\ c.view = "monitor" => Heard(c, m).executorRunning
                                 = IF TellsFlag(m) THEN m.on ELSE c.executorRunning
  <2>1. CASE m.do = "ack"
    BY <1>2, <2>1 DEF Heard, Controller, TellsFlag
  <2>2. CASE m.do = "executor-is-running-info" /\ c.view = "monitor"
    <3>1. Heard(c, m) = [c EXCEPT !.executorRunning = m.on]
      BY <2>2 DEF Heard
    <3> QED BY <1>2, <2>2, <3>1 DEF Controller, TellsFlag
  <2>3. CASE m.do # "ack" /\ ~(m.do = "executor-is-running-info" /\ c.view = "monitor")
    <3>1. Heard(c, m) = c
      BY <2>3 DEF Heard
    <3> QED BY <2>3, <3>1 DEF TellsFlag
  <2> QED BY <2>1, <2>2, <2>3
<1>8. OnDisplay(Admin)'.view = c.view /\ OnDisplay(Admin)'.hears = c.hears
  BY <1>5, <1>7
<1>9. ASSUME c.view = "monitor", c.hears,
             Agree(toPage[Admin], c.executorRunning, executorIsRunning)
      PROVE  Agree(toPage'[Admin], OnDisplay(Admin)'.executorRunning, executorIsRunning')
  <2> DEFINE next == IF TellsFlag(m) THEN m.on ELSE c.executorRunning
  <2>1. OnDisplay(Admin)'.executorRunning = next
    BY <1>5, <1>7, <1>9
  <2>2. Agree(Tail(toPage[Admin]), next, executorIsRunning)
    BY <1>1, <1>2, <1>9, AgreeHeard
  <2> QED BY <1>1, <2>1, <2>2
<1>10. c.hears \/ AsksFlag(queue[Admin]) => c.hears \/ FlagAsked'
  BY <1>1 DEF FlagAsked
<1>11. link'[Admin] = "connecting" => toServer'[Admin] = << >>
  BY <1>1 DEF ShowInv
<1>12. link'[Admin] = "ready" => queue'[Admin] = << >>
  BY <1>1 DEF ShowInv
<1> HIDE DEF d, m
<1> QED BY <1>1, <1>3, <1>8, <1>9, <1>10, <1>11, <1>12, Zenon DEF ShowInv

\* Where what is emitted goes.
LEMMA EmitAsks ==
  ASSUME WebappInv, ShowInv, NEW s \in Seq(Request), PageEmit(Admin, s), link' = link
  PROVE  /\ AsksFlag(s) => AsksFlag(toServer'[Admin]) \/ AsksFlag(queue'[Admin])
         /\ AsksFlag(s) => Connected(Admin) \/ AsksFlag(queue'[Admin])
         /\ AsksFlag(toServer[Admin]) => AsksFlag(toServer'[Admin])
         /\ AsksFlag(queue[Admin]) => AsksFlag(queue'[Admin])
         /\ link'[Admin] = "connecting" => toServer'[Admin] = << >>
         /\ link'[Admin] = "ready" => queue'[Admin] = << >>
<1>1. toServer[Admin] \in Seq(Request) /\ queue[Admin] \in Seq(Request)
  BY PageFacts
<1>2. CASE Connected(Admin)
  <2>1. toServer'[Admin] = toServer[Admin] \o s /\ queue' = queue
        /\ link'[Admin] # "connecting"
    BY <1>2, PageFacts DEF PageEmit, Connected
  <2>2. AsksFlag(s) \/ AsksFlag(toServer[Admin]) => AsksFlag(toServer'[Admin])
    BY <1>1, <2>1, AsksMore
  <2> QED BY <1>2, <2>1, <2>2 DEF ShowInv
<1>3. CASE ~Connected(Admin)
  <2>1. queue'[Admin] = queue[Admin] \o s /\ toServer' = toServer
        /\ link'[Admin] # "ready"
    BY <1>3, PageFacts DEF PageEmit, Connected
  <2>2. AsksFlag(s) \/ AsksFlag(queue[Admin]) => AsksFlag(queue'[Admin])
    BY <1>1, <2>1, AsksMore
  <2> QED BY <2>1, <2>2 DEF ShowInv
<1> QED BY <1>2, <1>3

LEMMA VisitShows ==
  ASSUME WebappInv, ShowInv, Visit(Admin)
  PROVE  ShowInv'
<1> DEFINE view == IF OnDisplay(Admin).view = "monitor" THEN "client" ELSE "monitor"
           c == NewController(Admin, view)
<1>1. /\ UNCHANGED <<toPage, executorIsRunning, call, timers>> /\ link' = link
      /\ controllers'[Admin] = Append(controllers[Admin], c)
      /\ PageEmit(Admin, FirstRequests(view))
  BY PageFacts DEF Visit
<1>2. FirstRequests(view) \in Seq(Request)
  <2>1. GetIsRunning \in Request
    BY DEF Request
  <2> QED BY <2>1 DEF FirstRequests
<1>3. view = "monitor" => AsksFlag(FirstRequests(view))
  <2>1. GetIsRunning.do \in FlagRequests
    BY DEF GetIsRunning, FlagRequests
  <2>2. << GetIsRunning >>[1] = GetIsRunning /\ 1 \in DOMAIN << GetIsRunning >>
    OBVIOUS
  <2>3. AsksFlag(<< GetIsRunning >>)
    BY <2>1, <2>2 DEF AsksFlag
  <2> QED BY <2>3 DEF FirstRequests
<1>4. c.view = view /\ (Connected(Admin) => c.hears)
  BY DEF NewController
<1> HIDE DEF view, c
<1>5. /\ view = "monitor" => AsksFlag(toServer'[Admin]) \/ AsksFlag(queue'[Admin])
      /\ view = "monitor" => Connected(Admin) \/ AsksFlag(queue'[Admin])
      /\ link'[Admin] = "connecting" => toServer'[Admin] = << >>
      /\ link'[Admin] = "ready" => queue'[Admin] = << >>
  BY <1>1, <1>2, <1>3, EmitAsks
<1>6. OnDisplay(Admin)' = c
  <2>1. controllers[Admin] \in Seq(Controller)
    BY PageFacts
  <2>2. c \in Controller
    BY DEF c, view, NewController, Controller, Connected
  <2> QED BY <1>1, <2>1, <2>2, AppendProperties DEF OnDisplay
<1> QED BY <1>4, <1>5, <1>6, Zenon DEF ShowInv, FlagAsked

\* A click leaves the switch where it was, or is one on the switch.
LEMMA ClickShows ==
  ASSUME WebappInv, ShowInv,
         NEW request \in {Switch, NewClientRequest} \cup {SetNodeAddress(a) : a \in NodeAddress},
         NEW changed \in Controller, changed.view = OnDisplay(Admin).view,
         changed.hears = OnDisplay(Admin).hears,
         request = Switch \/ changed.executorRunning = OnDisplay(Admin).executorRunning,
         Click(Admin, changed, request)
  PROVE  ShowInv'
<1> DEFINE c == [changed EXCEPT !.waitingResponse = TRUE]
           last == Len(controllers[Admin])
           timer == [of |-> last, request |-> request, late |-> Connected(Admin)]
<1>1. /\ UNCHANGED <<toServer, toPage, executorIsRunning, call, link, queue>>
      /\ controllers'[Admin] = [controllers[Admin] EXCEPT ![last] = c]
      /\ timers'[Admin] = Append(timers[Admin], timer)
  BY PageFacts DEF Click, backendVars, socketVars
<1>2. /\ c.view = changed.view /\ c.hears = changed.hears
      /\ c.executorRunning = changed.executorRunning
  BY DEF Controller
<1>3. OnDisplay(Admin)' = c
  <2>1. Len([controllers[Admin] EXCEPT ![last] = c]) = last
    BY PageFacts, LenProperties
  <2> QED BY <1>1, <2>1, PageFacts DEF OnDisplay
<1>4. timer \in Timer /\ timer.request = request
  <2>1. Connected(Admin) \in BOOLEAN
    BY DEF Connected
  <2> QED BY <2>1, PageFacts DEF Timer
<1> HIDE DEF c, last, timer
<1>5. /\ DOMAIN timers'[Admin] = 1 .. Len(timers[Admin]) + 1
      /\ DOMAIN timers[Admin] = 1 .. Len(timers[Admin]) /\ Len(timers[Admin]) \in Nat
      /\ timers'[Admin][Len(timers[Admin]) + 1] = timer
      /\ \A k \in 1 .. Len(timers[Admin]) : timers'[Admin][k] = timers[Admin][k]
  <2>1. timers[Admin] \in Seq(Timer)
    BY PageFacts
  <2>2. /\ Append(timers[Admin], timer) \in Seq(Timer)
        /\ Len(Append(timers[Admin], timer)) = Len(timers[Admin]) + 1
    BY <1>4, <2>1, AppendProperties
  <2> QED BY <1>1, <1>4, <2>1, <2>2, AppendProperties, LenProperties
<1>6. SwitchTurned \/ request = Switch => SwitchTurned'
  <2>1. \A k \in DOMAIN timers[Admin] : k \in DOMAIN timers'[Admin]
                                        /\ timers'[Admin][k] = timers[Admin][k]
    BY <1>5
  <2>2. Len(timers[Admin]) + 1 \in DOMAIN timers'[Admin]
    BY <1>5
  <2> QED BY <1>4, <1>5, <2>1, <2>2 DEF SwitchTurned
<1>7. FlagAsked \/ request = Switch => FlagAsked'
  BY <1>1, <1>6 DEF FlagAsked
<1> QED BY <1>1, <1>2, <1>3, <1>7, Zenon DEF ShowInv

LEMMA UserShows ==
  ASSUME WebappInv, ShowInv,
         ClickSwitch(Admin) \/ ClickSubmit(Admin) \/ \E a \in NodeAddress : ClickSave(Admin, a)
  PROVE  ShowInv'
<1>1. OnDisplay(Admin) \in Controller
  BY PageFacts
<1>2. CASE ClickSwitch(Admin)
  <2> DEFINE changed == [OnDisplay(Admin) EXCEPT
                           !.executorRunning = ~(OnDisplay(Admin).executorRunning)]
  <2>1. Click(Admin, changed, Switch)
    BY <1>1, <1>2 DEF ClickSwitch, Controller
  <2>2. changed \in Controller /\ changed.view = OnDisplay(Admin).view
        /\ changed.hears = OnDisplay(Admin).hears
    BY <1>1 DEF Controller
  <2> HIDE DEF changed
  <2> QED BY <2>1, <2>2, ClickShows
<1>3. CASE ClickSubmit(Admin)
  BY <1>1, <1>3, ClickShows DEF ClickSubmit
<1>4. ASSUME NEW a \in NodeAddress, ClickSave(Admin, a) PROVE ShowInv'
  BY <1>1, <1>4, ClickShows DEF ClickSave
<1> QED BY <1>2, <1>3, <1>4

LEMMA FireTimerShows ==
  ASSUME WebappInv, ShowInv, FireTimer(Admin)
  PROVE  ShowInv'
<1> DEFINE timer == Head(timers[Admin])
           m == IF timer.request = Switch
                THEN SetIsRunning(controllers[Admin][timer.of].executorRunning)
                ELSE timer.request
<1>1. /\ UNCHANGED <<toPage, executorIsRunning, call, controllers>> /\ link' = link
      /\ timers[Admin] # << >> /\ timers'[Admin] = Tail(timers[Admin])
      /\ PageEmit(Admin, << m >>)
  BY PageFacts DEF FireTimer
<1>2. << m >> \in Seq(Request)
  <2>1. PageInv /\ Admin \in Page /\ RequestOf(Admin) = Request
    BY PageFacts DEF WebappInv, RequestOf
  <2> QED BY <1>1, <2>1, TimerFires
<1>3. timer.request = Switch => AsksFlag(<< m >>)
  <2> SUFFICES ASSUME timer.request = Switch PROVE AsksFlag(<< m >>)
    OBVIOUS
  <2>1. m.do \in FlagRequests
    BY DEF SetIsRunning, FlagRequests
  <2> HIDE DEF m
  <2>2. << m >>[1] = m /\ 1 \in DOMAIN << m >>
    OBVIOUS
  <2> QED BY <2>1, <2>2 DEF AsksFlag
<1> HIDE DEF m
<1>4. /\ timer.request = Switch => AsksFlag(toServer'[Admin]) \/ AsksFlag(queue'[Admin])
      /\ AsksFlag(toServer[Admin]) => AsksFlag(toServer'[Admin])
      /\ AsksFlag(queue[Admin]) => AsksFlag(queue'[Admin])
      /\ link'[Admin] = "connecting" => toServer'[Admin] = << >>
      /\ link'[Admin] = "ready" => queue'[Admin] = << >>
  BY <1>1, <1>2, <1>3, EmitAsks
<1>5. SwitchTurned => timer.request = Switch \/ SwitchTurned'
  <2> SUFFICES ASSUME NEW k \in DOMAIN timers[Admin], timers[Admin][k].request = Switch,
                      timer.request # Switch
               PROVE  SwitchTurned'
    BY DEF SwitchTurned
  <2> DEFINE rest == Tail(timers[Admin])
             i == k - 1
  <2>1. timers[Admin] \in Seq(Timer)
    BY PageFacts
  <2>2. /\ DOMAIN timers[Admin] = 1 .. Len(timers[Admin]) /\ Len(timers[Admin]) \in Nat
        /\ DOMAIN rest = 1 .. Len(timers[Admin]) - 1
        /\ \A j \in 1 .. Len(timers[Admin]) - 1 : rest[j] = timers[Admin][j + 1]
        /\ timer = timers[Admin][1]
    BY <1>1, <2>1, HeadTailProperties, LenProperties
  <2>3. k # 1
    BY <2>2
  <2>4. i \in 1 .. Len(timers[Admin]) - 1 /\ i + 1 = k
    BY <2>2, <2>3
  <2> HIDE DEF i
  <2>5. i \in DOMAIN rest /\ rest[i] = timers[Admin][k]
    BY <2>2, <2>4
  <2> QED BY <1>1, <2>5 DEF SwitchTurned
<1>6. OnDisplay(Admin)' = OnDisplay(Admin)
  BY <1>1 DEF OnDisplay
<1> HIDE DEF timer
<1>7. FlagAsked => FlagAsked'
  BY <1>1, <1>4, <1>5 DEF FlagAsked
<1> QED BY <1>1, <1>4, <1>6, <1>7, Zenon DEF ShowInv

LEMMA ShowNext ==
  ASSUME WebappInv, ShowInv, [WebappNext]_webappVars
  PROVE  ShowInv'
<1>0. Admin \in Page
  BY AdminAssumption
<1>1. ASSUME NEW p \in Page, PageStep(p) PROVE ShowInv'
  <2>1. CASE p # Admin
    BY <1>1, <2>1, OthersShow
  <2>2. CASE p = Admin
    BY <1>1, <2>2, ConnectShows, FlushShows, ReceiveShows, FireTimerShows, VisitShows,
       UserShows, Zenon DEF PageStep
  <2> QED BY <2>1, <2>2
<1>2. CASE BackendStep /\ UNCHANGED pageVars
  <2>1. ASSUME NEW p \in Page, Handle(p) \/ TakeRequest(p) \/ TakeStop(p) PROVE ShowInv'
    BY <1>2, <2>1, HandleShows, RunShows
  <2>2. CASE BeginRun \/ OpenServer \/ TakeGhost
    BY <1>0, <1>2, <2>2, RunShows
  <2> QED BY <1>2, <2>1, <2>2 DEF BackendStep
<1>3. CASE UNCHANGED webappVars
  <2>1. AdminAside
    BY <1>3 DEF webappVars, backendVars, pageVars, socketVars, AdminAside
  <2> QED BY <2>1, AsideShows
<1> QED BY <1>1, <1>2, <1>3 DEF WebappNext

LEMMA ShowInit == WebappInit => ShowInv
<1> SUFFICES ASSUME WebappInit PROVE ShowInv
  OBVIOUS
<1>1. Admin \in Page /\ Admin \notin Loaded
  BY AdminAssumption
<1>2. toServer[Admin] = << >> /\ queue[Admin] = << GetIsRunning >> /\ link[Admin] = "connecting"
  BY <1>1 DEF WebappInit, BackendInit, FirstRequests, FirstView
<1>3. AsksFlag(queue[Admin])
  <2>1. GetIsRunning.do \in FlagRequests
    BY DEF GetIsRunning, FlagRequests
  <2>2. << GetIsRunning >>[1] = GetIsRunning /\ 1 \in DOMAIN << GetIsRunning >>
    OBVIOUS
  <2> QED BY <1>2, <2>1, <2>2 DEF AsksFlag
<1> QED BY <1>2, <1>3, Zenon DEF ShowInv, FlagAsked

\* With nothing under way the monitor's switch shows the webapp's flag, however
\* often it was turned, and turned back by answers to earlier clicks, on however
\* many monitors made one after the other (controllers.js:120-132).
THEOREM SwitchShows == WebappSpec => []SwitchShowsFlag
<1>1. (WebappInv /\ ShowInv) /\ [WebappNext]_webappVars => (WebappInv /\ ShowInv)'
  BY SocketInvNext, PageInvNext, TransportInvNext, ExecutorInvNext, ShowNext DEF WebappInv
<1>2. WebappInv /\ ShowInv => SwitchShowsFlag
  <2> SUFFICES ASSUME WebappInv, ShowInv,
                      link[Admin] = "ready", call[Admin] = "none", timers[Admin] = << >>,
                      toServer[Admin] = << >>, toPage[Admin] = << >>,
                      OnDisplay(Admin).view = "monitor"
               PROVE  OnDisplay(Admin).executorRunning = executorIsRunning
    BY DEF SwitchShowsFlag
  <2>1. queue[Admin] = << >>
    BY DEF ShowInv
  <2>2. ~FlagAsked
    <3>1. ~SwitchTurned
      BY DEF SwitchTurned
    <3> QED BY <2>1, <3>1, AsksEmpty DEF FlagAsked
  <2>3. Agree(<< >>, OnDisplay(Admin).executorRunning, executorIsRunning)
    BY <2>2 DEF ShowInv
  <2> QED BY <2>3 DEF Agree
<1> QED BY WebappInvInit, ShowInit, <1>1, <1>2, PTL DEF WebappSpec
=============================================================================
