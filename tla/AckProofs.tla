-------------------------------- MODULE AckProofs --------------------------------
(***************************************************************************)
(* A page on which nothing was clicked before it was connected hears every *)
(* ack.  The greeting (get-node-state and its answer) is the only traffic  *)
(* of a page that is not connected, it happens once, and until the queue   *)
(* is flushed such a page asks for nothing that is acknowledged.           *)
(***************************************************************************)
EXTENDS WebappProofs

\* what is asked for, and answered, beside the greeting
Later == Request \ {GetNodeState}
LaterAnswer == Answer \ {NodeState}

\* what is asked for, and answered, without an ack
Asking == {GetNodeState, GetIsRunning}
Telling == Answer \ {Ack}

AllHear(p) == \A k \in DOMAIN controllers[p] : controllers[p][k].hears

\* The socket is greeted once, and nothing else is under way until it is.
GreetedOnce(p) ==
  /\ queue[p] \in Seq(Later)
  /\ \/ /\ link[p] = "connecting" /\ call[p] = "none"
        /\ toServer[p] = << >> /\ toPage[p] = << >>
     \/ /\ link[p] = "greeted" /\ call[p] = "none"
        /\ \/ toServer[p] = << GetNodeState >> /\ toPage[p] = << >>
           \/ toServer[p] = << >> /\ toPage[p] = << NodeState >>
     \/ /\ link[p] = "connected" \/ (link[p] = "ready" /\ AllHear(p))
        /\ toServer[p] \in Seq(Later) /\ toPage[p] \in Seq(LaterAnswer)

\* Nothing that will be acknowledged is on its way before the page listens.
QuietUntilReady(p) ==
  ~early[p] /\ link[p] # "ready" =>
    /\ call[p] = "none"
    /\ toServer[p] \in Seq(Asking) /\ queue[p] \in Seq(Asking) /\ toPage[p] \in Seq(Telling)
    /\ \A k \in DOMAIN timers[p] : timers[p][k].late

HearsAcks(p) == (unheard[p] => early[p]) /\ GreetedOnce(p) /\ QuietUntilReady(p)

AckInv == WebappInv /\ \A p \in Page : HearsAcks(p)

-----------------------------------------------------------------------------
(* Messages. *)

LEMMA RequestsDiffer ==
  /\ GetIsRunning # GetNodeState /\ NewClientRequest # GetNodeState
  /\ \A on : SetIsRunning(on) # GetNodeState
  /\ \A a : SetNodeAddress(a) # GetNodeState
  /\ GetIsRunning \in Later /\ GetIsRunning \in Asking /\ GetNodeState \in Asking
BY DEF GetIsRunning, GetNodeState, NewClientRequest, SetIsRunning, SetNodeAddress, Later,
       Asking, Request

LEMMA RequestKinds ==
  ASSUME NEW m \in Request
  PROVE  /\ m.do = "get-node-state" <=> m = GetNodeState
         /\ m.do \notin {"get-node-state", "get-executor-is-running"} => m \notin Asking
BY DEF GetIsRunning, GetNodeState, NewClientRequest, SetIsRunning, SetNodeAddress, Request,
       Asking

LEMMA AnswersDiffer ==
  /\ Ack # NodeState /\ Ack \in LaterAnswer /\ NodeState \in Telling
  /\ \A on \in BOOLEAN : IsRunning(on) \in LaterAnswer /\ IsRunning(on) \in Telling
<1>1. Ack # NodeState /\ \A on \in BOOLEAN : IsRunning(on) # Ack /\ IsRunning(on) # NodeState
  BY DEF Ack, NodeState, IsRunning
<1> QED
  BY <1>1 DEF LaterAnswer, Telling, Answer

-----------------------------------------------------------------------------
(* One page. *)

\* A step in which the page and its handler have no part.
Aside(p) ==
  /\ link'[p] = link[p] /\ queue'[p] = queue[p] /\ controllers'[p] = controllers[p]
  /\ timers'[p] = timers[p] /\ early'[p] = early[p] /\ unheard'[p] = unheard[p]
  /\ toServer'[p] = toServer[p] /\ toPage'[p] = toPage[p]
  /\ call[p] = "none" => call'[p] = "none"

LEMMA AsideKeeps ==
  ASSUME NEW p, HearsAcks(p), Aside(p)
  PROVE  HearsAcks(p)'
BY DEF HearsAcks, GreetedOnce, QuietUntilReady, AllHear, Aside

\* What a handler's step leaves alone.
PageAside(p) ==
  /\ link'[p] = link[p] /\ queue'[p] = queue[p] /\ controllers'[p] = controllers[p]
  /\ timers'[p] = timers[p] /\ early'[p] = early[p] /\ unheard'[p] = unheard[p]

\* A handler takes a message, and answers now or later.
LEMMA Handled ==
  ASSUME WebappInv, NEW p \in Page, HearsAcks(p), PageAside(p),
         call[p] = "none", toServer[p] # << >>, toServer'[p] = Tail(toServer[p]),
         NEW answers,
         \/ Head(toServer[p]) = GetNodeState /\ answers = << NodeState >>
         \/ Head(toServer[p]) # GetNodeState /\ answers \in Seq(LaterAnswer),
         \/ toPage'[p] = toPage[p] /\ Head(toServer[p]) # GetNodeState
         \/ toPage'[p] = toPage[p] \o answers,
         Head(toServer[p]) \in Asking => call'[p] = "none" /\ answers \in Seq(Telling)
  PROVE  HearsAcks(p)'
<1>1. CASE link[p] = "connecting"
  BY <1>1 DEF HearsAcks, GreetedOnce
<1>2. CASE link[p] = "greeted"
  <2>1. toServer[p] = << GetNodeState >> /\ toPage[p] = << >>
    BY <1>2 DEF HearsAcks, GreetedOnce
  <2>2. Head(toServer[p]) = GetNodeState /\ Tail(toServer[p]) = << >>
    BY <2>1
  <2>3. << >> \o << NodeState >> = << NodeState >>
    OBVIOUS
  <2>4. toServer'[p] = << >> /\ toPage'[p] = << NodeState >> /\ call'[p] = "none"
    BY <2>1, <2>2, <2>3, RequestsDiffer
  <2>5. << >> \in Seq(Asking) /\ << NodeState >> \in Seq(Telling)
    BY AnswersDiffer
  <2> QED
    BY <1>2, <2>4, <2>5 DEF HearsAcks, GreetedOnce, QuietUntilReady, PageAside
<1>3. CASE link[p] \in {"connected", "ready"}
  <2>1. toServer[p] \in Seq(Later) /\ toPage[p] \in Seq(LaterAnswer)
    BY <1>3 DEF HearsAcks, GreetedOnce
  <2>2. Head(toServer[p]) \in Later /\ toServer'[p] \in Seq(Later)
    BY <2>1, HeadTailProperties
  <2>3. answers \in Seq(LaterAnswer)
    BY <2>2 DEF Later
  <2>4. toPage'[p] \in Seq(LaterAnswer)
    BY <2>1, <2>3, ConcatProperties
  <2>5. GreetedOnce(p)'
    BY <1>3, <2>2, <2>4 DEF HearsAcks, GreetedOnce, PageAside, AllHear
  <2>6. QuietUntilReady(p)'
    <3> SUFFICES ASSUME ~early[p], link[p] # "ready"
                 PROVE  /\ call'[p] = "none" /\ toServer'[p] \in Seq(Asking)
                        /\ queue[p] \in Seq(Asking) /\ toPage'[p] \in Seq(Telling)
                        /\ \A k \in DOMAIN timers[p] : timers[p][k].late
      BY DEF QuietUntilReady, PageAside
    <3>1. /\ toServer[p] \in Seq(Asking) /\ queue[p] \in Seq(Asking)
          /\ toPage[p] \in Seq(Telling) /\ \A k \in DOMAIN timers[p] : timers[p][k].late
      BY DEF HearsAcks, QuietUntilReady
    <3>2. Head(toServer[p]) \in Asking /\ toServer'[p] \in Seq(Asking)
      BY <3>1, HeadTailProperties
    <3>3. toPage'[p] \in Seq(Telling)
      BY <3>1, <3>2, ConcatProperties
    <3> QED
      BY <3>1, <3>2, <3>3
  <2> QED
    BY <2>5, <2>6 DEF HearsAcks, PageAside
<1> QED
  BY <1>1, <1>2, <1>3 DEF WebappInv, SocketInv

\* A handler that was blocked answers at last.
LEMMA Unblocked ==
  ASSUME NEW p \in Page, HearsAcks(p), PageAside(p), call[p] # "none",
         toServer'[p] = toServer[p],
         NEW answers \in Seq(LaterAnswer), toPage'[p] = toPage[p] \o answers
  PROVE  HearsAcks(p)'
<1>1. /\ early[p] \/ link[p] = "ready"
      /\ link[p] = "connected" \/ (link[p] = "ready" /\ AllHear(p))
      /\ toServer[p] \in Seq(Later) /\ toPage[p] \in Seq(LaterAnswer)
  BY DEF HearsAcks, GreetedOnce, QuietUntilReady
<1>2. toPage'[p] \in Seq(LaterAnswer)
  BY <1>1, ConcatProperties
<1> QED
  BY <1>1, <1>2 DEF HearsAcks, GreetedOnce, QuietUntilReady, AllHear, PageAside

-----------------------------------------------------------------------------
(* The handlers. *)

\* a step of p's handler, which other pages' blocked handlers may notice
Others(p) == \A q \in Page \ {p} : Aside(q)

LEMMA OthersKeep ==
  ASSUME AckInv, NEW p \in Page, Others(p), HearsAcks(p)'
  PROVE  \A q \in Page : HearsAcks(q)'
BY AsideKeeps DEF AckInv, Others

LEMMA Taken ==
  ASSUME WebappInv, NEW p \in Page, NEW kind, Take(p, kind)
  PROVE  /\ call[p] = "none" /\ toServer[p] # << >> /\ toServer'[p] = Tail(toServer[p])
         /\ Head(toServer[p]) \in Request /\ Head(toServer[p]).do = kind
         /\ \A q \in Page \ {p} : toServer'[q] = toServer[q]
BY SentLess DEF Take, WebappInv, SocketInv, SentOK

LEMMA Emitted ==
  ASSUME WebappInv, NEW p \in Page, NEW answers, Emit(p, answers)
  PROVE  /\ toPage'[p] = toPage[p] \o answers
         /\ \A q \in Page \ {p} : toPage'[q] = toPage[q]
BY DEF Emit, WebappInv, SocketInv, AnswersOK

LEMMA AcksAndInfos ==
  /\ << Ack >> \in Seq(LaterAnswer) /\ << NodeState >> \in Seq(Telling)
  /\ \A on \in BOOLEAN : /\ << IsRunning(on) >> \in Seq(LaterAnswer)
                         /\ << IsRunning(on) >> \in Seq(Telling)
                         /\ << IsRunning(on), Ack >> \in Seq(LaterAnswer)
BY AnswersDiffer

LEMMA HandleHears ==
  ASSUME AckInv, NEW p \in Page, Handle(p), UNCHANGED pageVars
  PROVE  \A q \in Page : HearsAcks(q)'
<1>0. /\ WebappInv /\ HearsAcks(p)
      /\ call \in [Page -> {"none", "stop", "stopped", "served", "abandoned", "answered", "failed"}]
      /\ executorIsRunning \in BOOLEAN
  BY DEF AckInv, WebappInv, ExecutorInv
<1>1. \A q \in Page : PageAside(q)
  BY DEF PageAside, pageVars
<1>2. CASE OnGetNodeState(p)
  <2>1. Take(p, "get-node-state") /\ Emit(p, << NodeState >>) /\ UNCHANGED call
    BY <1>2 DEF OnGetNodeState
  <2>2. Head(toServer[p]) = GetNodeState
    BY <1>0, <2>1, Taken, RequestKinds
  <2>3. /\ call[p] = "none" /\ call'[p] = "none"
        /\ toServer[p] # << >> /\ toServer'[p] = Tail(toServer[p])
        /\ toPage'[p] = toPage[p] \o << NodeState >>
    BY <1>0, <2>1, Taken, Emitted
  <2>4. HearsAcks(p)'
    BY <1>0, <1>1, <2>2, <2>3, AcksAndInfos, Handled
  <2>5. Others(p)
    BY <1>0, <1>1, <2>1, Taken, Emitted DEF Others, Aside, PageAside
  <2> QED
    BY <2>4, <2>5, OthersKeep
<1>3. CASE OnGetIsRunning(p)
  <2> DEFINE answers == << IsRunning(executorIsRunning) >>
  <2>1. Take(p, "get-executor-is-running") /\ Emit(p, answers) /\ UNCHANGED call
    BY <1>3 DEF OnGetIsRunning
  <2>2. answers \in Seq(LaterAnswer) /\ answers \in Seq(Telling)
    BY <1>0, AcksAndInfos
  <2>3. Head(toServer[p]) # GetNodeState
    BY <1>0, <2>1, Taken, RequestKinds
  <2> HIDE DEF answers
  <2>4. HearsAcks(p)'
    BY <1>0, <1>1, <2>1, <2>2, <2>3, Taken, Emitted, Handled
  <2>5. Others(p)
    BY <1>0, <1>1, <2>1, Taken, Emitted DEF Others, Aside, PageAside
  <2> QED
    BY <2>4, <2>5, OthersKeep
<1>4. CASE OnSetIsRunning(p)
  <2> DEFINE answers == << IsRunning(Head(toServer[p]).on), Ack >>
  <2>1. /\ Take(p, "set-executor-is-running")
        /\ UNCHANGED toPage \/ Emit(p, answers)
        /\ call' = call \/ call' = [call EXCEPT ![p] = "stop"]
    BY <1>4 DEF OnSetIsRunning
  <2>2. Head(toServer[p]).on \in BOOLEAN
    BY <1>0, <2>1, Taken, RequestFields
  <2>3. answers \in Seq(LaterAnswer)
    BY <2>2, AcksAndInfos
  <2>4. Head(toServer[p]) # GetNodeState /\ Head(toServer[p]) \notin Asking
    BY <1>0, <2>1, Taken, RequestKinds
  <2> HIDE DEF answers
  <2>5. toPage'[p] = toPage[p] \/ toPage'[p] = toPage[p] \o answers
    BY <1>0, <2>1, Emitted
  <2>6. HearsAcks(p)'
    BY <1>0, <1>1, <2>1, <2>3, <2>4, <2>5, Taken, Handled
  <2>7. Others(p)
    BY <1>0, <1>1, <2>1, Taken, Emitted DEF Others, Aside, PageAside
  <2> QED
    BY <2>6, <2>7, OthersKeep
<1>5. CASE OnSetNodeAddress(p)
  <2>1. /\ Take(p, "set-node-address") /\ Emit(p, << Ack >>)
        /\ call' = [q \in Page |-> IF call[q] = "served" THEN "abandoned" ELSE call[q]]
    BY <1>5 DEF OnSetNodeAddress
  <2>2. Head(toServer[p]) # GetNodeState /\ Head(toServer[p]) \notin Asking
    BY <1>0, <2>1, Taken, RequestKinds
  <2>3. HearsAcks(p)'
    BY <1>0, <1>1, <2>1, <2>2, Taken, Emitted, AcksAndInfos, Handled
  <2>4. Others(p)
    BY <1>0, <1>1, <2>1, Taken, Emitted DEF Others, Aside, PageAside
  <2> QED
    BY <2>3, <2>4, OthersKeep
<1>6. CASE OnNewClientRequest(p)
  <2>1. /\ Take(p, "new-client-command") /\ UNCHANGED toPage
        /\ \E c : call' = [call EXCEPT ![p] = c]
    BY <1>6 DEF OnNewClientRequest
  <2>2. Head(toServer[p]) # GetNodeState /\ Head(toServer[p]) \notin Asking
    BY <1>0, <2>1, Taken, RequestKinds
  <2>3. HearsAcks(p)'
    BY <1>0, <1>1, <2>1, <2>2, Taken, AcksAndInfos, Handled
  <2>4. Others(p)
    BY <1>0, <1>1, <2>1, Taken DEF Others, Aside, PageAside
  <2> QED
    BY <2>3, <2>4, OthersKeep
<1>7. CASE AfterStop(p) \/ AfterPost(p)
  <2>1. /\ call[p] # "none" /\ UNCHANGED toServer
        /\ call' = [call EXCEPT ![p] = "none"]
        /\ Emit(p, << Ack >>) \/ Emit(p, << IsRunning(FALSE), Ack >>)
    BY <1>7 DEF AfterStop, AfterPost
  <2>2. PICK answers \in Seq(LaterAnswer) : Emit(p, answers)
    BY <2>1, AcksAndInfos
  <2>3. HearsAcks(p)'
    BY <1>0, <1>1, <2>1, <2>2, Emitted, Unblocked
  <2>4. Others(p)
    BY <1>0, <1>1, <2>1, <2>2, Emitted DEF Others, Aside, PageAside
  <2> QED
    BY <2>3, <2>4, OthersKeep
<1> QED
  BY <1>2, <1>3, <1>4, <1>5, <1>6, <1>7 DEF Handle

\* What the goroutine of Run does reaches no page that is waiting for nothing.
LEMMA RunHears ==
  ASSUME AckInv, UNCHANGED pageVars, NEW r \in Page,
         TakeRequest(r) \/ TakeStop(r) \/ BeginRun \/ OpenServer \/ TakeGhost
  PROVE  \A q \in Page : HearsAcks(q)'
<1>1. UNCHANGED socketVars /\ \A q \in Page : call[q] = "none" => call'[q] = "none"
  BY DEF TakeRequest, TakeStop, BeginRun, OpenServer, TakeGhost, AckInv, WebappInv, ExecutorInv
<1>2. \A q \in Page : Aside(q)
  BY <1>1 DEF Aside, pageVars, socketVars
<1> QED
  BY <1>2, AsideKeeps DEF AckInv

-----------------------------------------------------------------------------
(* The turns of a page. *)

LEMMA ConnectHears ==
  ASSUME AckInv, NEW p \in Page, Connect(p)
  PROVE  \A q \in Page : HearsAcks(q)'
<1>1. /\ link[p] = "connecting" /\ link' = [link EXCEPT ![p] = "greeted"]
      /\ toServer' = [toServer EXCEPT ![p] = << GetNodeState >>]
      /\ UNCHANGED <<toPage, call, queue, controllers, timers, early, unheard>>
  BY DEF Connect
<1>2. link \in [Page -> {"connecting", "greeted", "connected", "ready"}]
      /\ toServer \in [Page -> Seq(Request)]
  BY DEF AckInv, WebappInv, SocketInv, SentOK
<1>3. HearsAcks(p)'
  <2>1. << GetNodeState >> \in Seq(Asking)
    BY RequestsDiffer
  <2> QED
    BY <1>1, <1>2, <2>1 DEF AckInv, HearsAcks, GreetedOnce, QuietUntilReady
<1>4. Others(p)
  BY <1>1, <1>2 DEF Others, Aside
<1> QED
  BY <1>3, <1>4, OthersKeep

LEMMA FlushHears ==
  ASSUME AckInv, NEW p \in Page, Flush(p)
  PROVE  \A q \in Page : HearsAcks(q)'
<1>1. /\ link[p] = "connected" /\ link' = [link EXCEPT ![p] = "ready"]
      /\ toServer' = [toServer EXCEPT ![p] = toServer[p] \o queue[p]]
      /\ queue' = [queue EXCEPT ![p] = << >>]
      /\ controllers' = [controllers EXCEPT ![p] =
           [k \in DOMAIN controllers[p] |-> [controllers[p][k] EXCEPT !.hears = TRUE]]]
      /\ UNCHANGED <<toPage, call, timers, early, unheard>>
  BY DEF Flush, AckInv, WebappInv, SocketInv, SentOK, PageInv
<1>2. /\ link \in [Page -> {"connecting", "greeted", "connected", "ready"}]
      /\ toServer \in [Page -> Seq(Request)] /\ queue \in [Page -> Seq(Request)]
      /\ controllers \in [Page -> Seq(Controller)]
  BY DEF AckInv, WebappInv, SocketInv, SentOK, PageInv
<1>3. HearsAcks(p)'
  <2>1. toServer[p] \in Seq(Later) /\ queue[p] \in Seq(Later) /\ toPage[p] \in Seq(LaterAnswer)
    BY <1>1 DEF AckInv, HearsAcks, GreetedOnce
  <2>2. toServer'[p] \in Seq(Later) /\ queue'[p] \in Seq(Later)
    BY <1>1, <1>2, <2>1, ConcatProperties, EmptySeq
  <2>3. AllHear(p)'
    <3>1. \A k \in DOMAIN controllers[p] : controllers[p][k] \in Controller
      BY <1>2, LenProperties, ElementOfSeq
    <3> QED
      BY <1>1, <1>2, <3>1 DEF AllHear, Controller
  <2> QED
    BY <1>1, <1>2, <2>1, <2>2, <2>3 DEF AckInv, HearsAcks, GreetedOnce, QuietUntilReady
<1>4. Others(p)
  BY <1>1, <1>2 DEF Others, Aside
<1> QED
  BY <1>3, <1>4, OthersKeep

LEMMA ReceiveHears ==
  ASSUME AckInv, NEW p \in Page, Receive(p)
  PROVE  \A q \in Page : HearsAcks(q)'
<1> DEFINE m == Head(toPage[p])
<1>1. /\ toPage[p] # << >> /\ toPage' = [toPage EXCEPT ![p] = Tail(toPage[p])]
      /\ link' = IF m = NodeState THEN [link EXCEPT ![p] = "connected"] ELSE link
      /\ controllers' = [controllers EXCEPT ![p] =
           [k \in DOMAIN controllers[p] |-> IF controllers[p][k].hears
                                            THEN Heard(controllers[p][k], m)
                                            ELSE controllers[p][k]]]
      /\ unheard' = [unheard EXCEPT ![p] = unheard[p] \/ (m = Ack /\ ~OnDisplay(p).hears)]
      /\ UNCHANGED <<toServer, call, queue, timers, early>>
  BY DEF Receive, AckInv, WebappInv, SocketInv, AnswersOK, PageInv
<1>2. /\ link \in [Page -> {"connecting", "greeted", "connected", "ready"}]
      /\ toPage \in [Page -> Seq(Answer)]
      /\ controllers \in [Page -> Seq(Controller)] /\ controllers[p] # << >>
      /\ unheard \in [Page -> BOOLEAN]
  BY DEF AckInv, WebappInv, SocketInv, AnswersOK, PageInv
<1>3. HearsAcks(p)
  BY DEF AckInv
<1>4. Others(p)
  BY <1>1, <1>2 DEF Others, Aside
<1>5. unheard'[p] => early'[p]
  <2> SUFFICES ASSUME m = Ack, ~OnDisplay(p).hears, ~early[p] PROVE FALSE
    BY <1>1, <1>2, <1>3 DEF HearsAcks
  <2>1. Len(controllers[p]) \in DOMAIN controllers[p]
    BY <1>2, LenProperties, EmptySeq
  <2>2. link[p] # "ready"
    BY <2>1, <1>1, <1>3, AnswersDiffer, HeadTailProperties
       DEF HearsAcks, GreetedOnce, AllHear, OnDisplay
  <2>3. m \in Telling
    BY <1>1, <1>3, <2>2, HeadTailProperties DEF HearsAcks, QuietUntilReady
  <2> QED
    BY <2>3 DEF Telling
<1>6. ASSUME m = NodeState PROVE HearsAcks(p)'
  <2>1. link[p] = "greeted" /\ call[p] = "none"
        /\ toServer[p] = << >> /\ toPage[p] = << NodeState >> /\ queue[p] \in Seq(Later)
    <3>1. ASSUME toPage[p] \in Seq(LaterAnswer) PROVE FALSE
      <4>1. m \in LaterAnswer
        BY <1>1, <3>1, HeadTailProperties
      <4> QED
        BY <1>6, <4>1 DEF LaterAnswer
    <3> QED
      BY <1>1, <1>3, <3>1 DEF HearsAcks, GreetedOnce
  <2>2. toPage'[p] = << >> /\ link'[p] = "connected"
    BY <1>1, <1>2, <1>6, <2>1
  <2>3. << >> \in Seq(Later) /\ << >> \in Seq(LaterAnswer) /\ << >> \in Seq(Telling)
    BY EmptySeq
  <2>4. GreetedOnce(p)'
    BY <1>1, <2>1, <2>2, <2>3 DEF GreetedOnce
  <2>5. QuietUntilReady(p)'
    BY <1>1, <1>3, <2>1, <2>2, <2>3 DEF HearsAcks, QuietUntilReady
  <2> QED
    BY <1>5, <2>4, <2>5 DEF HearsAcks
<1>7. ASSUME m # NodeState PROVE HearsAcks(p)'
  <2>1. /\ link[p] = "connected" \/ (link[p] = "ready" /\ AllHear(p))
        /\ toServer[p] \in Seq(Later) /\ toPage[p] \in Seq(LaterAnswer)
    <3>1. Head(<< NodeState >>) = NodeState
      OBVIOUS
    <3> QED
      BY <1>1, <1>3, <1>7, <3>1 DEF HearsAcks, GreetedOnce
  <2>2. toPage'[p] \in Seq(LaterAnswer) /\ link' = link
    BY <1>1, <1>2, <1>7, <2>1, HeadTailProperties
  <2>3. AllHear(p) => AllHear(p)'
    <3>1. ASSUME NEW k \in DOMAIN controllers[p], controllers[p][k].hears
          PROVE  Heard(controllers[p][k], m).hears
      <4>1. controllers[p][k] \in Controller
        BY <1>2, LenProperties, ElementOfSeq
      <4> HIDE DEF m
      <4> QED
        BY <3>1, <4>1 DEF Heard, Controller
    <3> HIDE DEF m
    <3> QED
      BY <1>1, <1>2, <3>1 DEF AllHear
  <2>4. GreetedOnce(p)'
    BY <1>1, <1>3, <2>1, <2>2, <2>3 DEF HearsAcks, GreetedOnce
  <2>5. QuietUntilReady(p)'
    BY <1>1, <1>2, <1>3, <2>2, HeadTailProperties DEF HearsAcks, QuietUntilReady
  <2> QED
    BY <1>5, <2>4, <2>5 DEF HearsAcks
<1> QED
  BY <1>4, <1>6, <1>7, OthersKeep

\* A page asks for something: at once, or once it is flushed.
LEMMA Asked ==
  ASSUME AckInv, NEW p \in Page, NEW s \in Seq(Later), PageEmit(p, s),
         QuietUntilReady(p) => (early[p] \/ link[p] = "ready" \/ s \in Seq(Asking)),
         UNCHANGED <<toPage, call, link, early, unheard>>,
         AllHear(p) /\ link[p] = "ready" => AllHear(p)',
         (\A k \in DOMAIN timers[p] : timers[p][k].late) =>
            \A k \in DOMAIN timers'[p] : timers'[p][k].late
  PROVE  HearsAcks(p)'
<1>1. /\ toServer \in [Page -> Seq(Request)] /\ queue \in [Page -> Seq(Request)]
      /\ HearsAcks(p)
  BY DEF AckInv, WebappInv, SocketInv, SentOK
<1>2. CASE Connected(p)
  <2>1. link[p] \in {"connected", "ready"} /\ toServer[p] \in Seq(Later)
        /\ toServer'[p] = toServer[p] \o s /\ queue' = queue
    BY <1>1, <1>2 DEF Connected, PageEmit, HearsAcks, GreetedOnce
  <2>2. toServer'[p] \in Seq(Later)
    BY <2>1, ConcatProperties
  <2>3. GreetedOnce(p)'
    BY <1>1, <2>1, <2>2 DEF HearsAcks, GreetedOnce
  <2>4. QuietUntilReady(p)'
    BY <1>1, <2>1, ConcatProperties DEF HearsAcks, QuietUntilReady
  <2> QED
    BY <1>1, <2>3, <2>4 DEF HearsAcks
<1>3. CASE ~Connected(p)
  <2>1. link[p] \notin {"connected", "ready"} /\ queue[p] \in Seq(Later)
        /\ queue'[p] = queue[p] \o s /\ toServer' = toServer
    BY <1>1, <1>3 DEF Connected, PageEmit, HearsAcks, GreetedOnce
  <2>2. queue'[p] \in Seq(Later)
    BY <2>1, ConcatProperties
  <2>3. GreetedOnce(p)'
    BY <1>1, <2>1, <2>2 DEF HearsAcks, GreetedOnce
  <2>4. QuietUntilReady(p)'
    BY <1>1, <2>1, ConcatProperties DEF HearsAcks, QuietUntilReady
  <2> QED
    BY <1>1, <2>3, <2>4 DEF HearsAcks
<1> QED
  BY <1>2, <1>3

LEMMA VisitHears ==
  ASSUME AckInv, NEW p \in Page, Visit(p)
  PROVE  \A q \in Page : HearsAcks(q)'
<1> DEFINE view == IF OnDisplay(p).view = "monitor" THEN "client" ELSE "monitor"
           c == NewController(p, view)
<1>1. /\ controllers' = [controllers EXCEPT ![p] = Append(controllers[p], c)]
      /\ PageEmit(p, FirstRequests(view))
      /\ UNCHANGED <<toPage, call, link, timers, early, unheard>>
  BY DEF Visit, AckInv, WebappInv, PageInv
<1>2. controllers \in [Page -> Seq(Controller)] /\ c \in Controller
      /\ toServer \in [Page -> Seq(Request)] /\ queue \in [Page -> Seq(Request)]
  BY DEF AckInv, WebappInv, PageInv, SocketInv, SentOK, NewController, Controller, Connected
<1>3. FirstRequests(view) \in Seq(Later) /\ FirstRequests(view) \in Seq(Asking)
  BY RequestsDiffer, EmptySeq DEF FirstRequests
<1>4. ASSUME AllHear(p), link[p] = "ready" PROVE AllHear(p)'
  <2>1. c.hears
    BY <1>4 DEF NewController, Connected
  <2> HIDE DEF c
  <2>2. controllers[p] \in Seq(Controller) /\ Len(controllers[p]) \in Nat
        /\ DOMAIN controllers[p] = 1 .. Len(controllers[p])
    BY <1>2, LenProperties
  <2>3. /\ DOMAIN Append(controllers[p], c) = 1 .. Len(controllers[p]) + 1
        /\ \A k \in 1 .. Len(controllers[p]) : Append(controllers[p], c)[k] = controllers[p][k]
        /\ Append(controllers[p], c)[Len(controllers[p]) + 1] = c
    BY <1>2, <2>2, AppendProperties, LenProperties
  <2>4. controllers'[p] = Append(controllers[p], c)
    BY <1>1, <1>2
  <2> QED
    BY <1>4, <2>1, <2>2, <2>3, <2>4 DEF AllHear
<1>5. HearsAcks(p)'
  BY <1>1, <1>3, <1>4, Asked
<1>6. Others(p)
  BY <1>1, <1>2 DEF Others, Aside, PageEmit
<1> QED
  BY <1>5, <1>6, OthersKeep

LEMMA FireTimerHears ==
  ASSUME AckInv, NEW p \in Page, FireTimer(p)
  PROVE  \A q \in Page : HearsAcks(q)'
<1> DEFINE timer == Head(timers[p])
           m == IF timer.request = Switch
                THEN SetIsRunning(controllers[p][timer.of].executorRunning)
                ELSE timer.request
<1>1. /\ timers[p] # << >> /\ (timer.late => link[p] = "ready")
      /\ timers' = [timers EXCEPT ![p] = Tail(timers[p])]
      /\ PageEmit(p, << m >>)
      /\ UNCHANGED <<toPage, call, link, controllers, early, unheard>>
  BY DEF FireTimer, Elapses, AckInv, WebappInv, PageInv
<1>2. /\ timers \in [Page -> Seq(Timer)] /\ HearsAcks(p) /\ PageInv
      /\ toServer \in [Page -> Seq(Request)] /\ queue \in [Page -> Seq(Request)]
  BY DEF AckInv, WebappInv, PageInv, SocketInv, SentOK
<1>3. timer \in Timer /\ timer = timers[p][1] /\ 1 \in DOMAIN timers[p]
  BY <1>1, <1>2, HeadTailProperties, LenProperties
<1>4. << m >> \in Seq(Later)
  <2>1. << m >> \in Seq(RequestOf(p))
    BY <1>1, <1>2, TimerFires
  <2>2. m \in Request
    <3>1. << m >>[1] = m /\ 1 \in 1 .. Len(<< m >>)
      OBVIOUS
    <3> HIDE DEF m
    <3>2. m \in RequestOf(p)
      BY <2>1, <3>1, ElementOfSeq
    <3> QED
      BY <3>2, RequestsOfPages
  <2>3. m # GetNodeState
    BY <1>3, RequestsDiffer DEF Timer
  <2> HIDE DEF m
  <2> QED
    BY <2>2, <2>3 DEF Later
<1>5. early[p] \/ link[p] = "ready"
  BY <1>1, <1>2, <1>3 DEF HearsAcks, QuietUntilReady
<1>6. ASSUME \A k \in DOMAIN timers[p] : timers[p][k].late
      PROVE  \A k \in DOMAIN timers'[p] : timers'[p][k].late
  <2>1. /\ Len(timers[p]) \in Nat /\ DOMAIN timers[p] = 1 .. Len(timers[p])
        /\ Tail(timers[p]) \in Seq(Timer) /\ Len(Tail(timers[p])) = Len(timers[p]) - 1
        /\ \A k \in 1 .. Len(Tail(timers[p])) : Tail(timers[p])[k] = timers[p][k + 1]
    BY <1>1, <1>2, HeadTailProperties, LenProperties
  <2>2. DOMAIN Tail(timers[p]) = 1 .. Len(timers[p]) - 1
    BY <2>1, LenProperties
  <2>3. timers'[p] = Tail(timers[p])
    BY <1>1, <1>2
  <2> QED
    BY <1>6, <2>1, <2>2, <2>3
<1> HIDE DEF m
<1>7. HearsAcks(p)'
  <2>1. AllHear(p) => AllHear(p)'
    BY <1>1 DEF AllHear
  <2> QED
    BY <1>1, <1>4, <1>5, <1>6, <2>1, Asked
<1>8. Others(p)
  BY <1>1, <1>2 DEF Others, Aside, PageEmit
<1> QED
  BY <1>7, <1>8, OthersKeep

LEMMA ClickHears ==
  ASSUME AckInv, NEW p \in Page, NEW request, NEW changed \in Controller,
         changed.hears = OnDisplay(p).hears, Click(p, changed, request)
  PROVE  \A q \in Page : HearsAcks(q)'
<1> DEFINE last == Len(controllers[p])
           c == [changed EXCEPT !.waitingResponse = TRUE]
           timer == [of |-> last, request |-> request, late |-> Connected(p)]
<1>1. /\ controllers' = [controllers EXCEPT ![p] = [controllers[p] EXCEPT ![last] = c]]
      /\ timers' = [timers EXCEPT ![p] = Append(timers[p], timer)]
      /\ early' = [early EXCEPT ![p] = early[p] \/ ~Connected(p)]
      /\ UNCHANGED <<toServer, toPage, call, link, queue, unheard>>
  BY DEF Click, backendVars, socketVars, AckInv, WebappInv, PageInv
<1>2. /\ controllers \in [Page -> Seq(Controller)] /\ controllers[p] # << >>
      /\ timers \in [Page -> Seq(Timer)] /\ early \in [Page -> BOOLEAN]
      /\ HearsAcks(p)
  BY DEF AckInv, WebappInv, PageInv
<1>3. c.hears = OnDisplay(p).hears
  BY DEF Controller
<1>4. timer.late = Connected(p)
  OBVIOUS
<1> HIDE DEF c, timer
<1>5. AllHear(p) => AllHear(p)'
  <2>1. DOMAIN controllers'[p] = DOMAIN controllers[p]
        /\ \A k \in DOMAIN controllers[p] :
             controllers'[p][k] = IF k = last THEN c ELSE controllers[p][k]
    BY <1>1, <1>2
  <2> QED
    BY <1>3, <2>1 DEF AllHear, OnDisplay
<1>6. early'[p] = (early[p] \/ ~Connected(p))
  BY <1>1, <1>2
<1>7. ASSUME Connected(p), \A k \in DOMAIN timers[p] : timers[p][k].late
      PROVE  \A k \in DOMAIN timers'[p] : timers'[p][k].late
  <2>1. timers[p] \in Seq(Timer) /\ timers'[p] = Append(timers[p], timer)
    BY <1>1, <1>2
  <2>2. \A k \in DOMAIN timers'[p] :
          \/ k \in DOMAIN timers[p] /\ timers'[p][k] = timers[p][k]
          \/ timers'[p][k] = timer
    BY <2>1
  <2> QED
    BY <1>4, <1>7, <2>2
<1>8. unheard'[p] => early'[p]
  BY <1>1, <1>2, <1>6 DEF HearsAcks
<1>9. GreetedOnce(p)'
  BY <1>1, <1>2, <1>5 DEF HearsAcks, GreetedOnce
<1>10. QuietUntilReady(p)'
  <2> SUFFICES ASSUME ~early'[p], link[p] # "ready"
               PROVE  /\ call[p] = "none" /\ toServer[p] \in Seq(Asking)
                      /\ queue[p] \in Seq(Asking) /\ toPage[p] \in Seq(Telling)
                      /\ \A k \in DOMAIN timers'[p] : timers'[p][k].late
    BY <1>1 DEF QuietUntilReady
  <2>1. ~early[p] /\ Connected(p)
    BY <1>6
  <2> QED
    BY <1>2, <1>7, <2>1 DEF HearsAcks, QuietUntilReady
<1>11. HearsAcks(p)'
  BY <1>8, <1>9, <1>10 DEF HearsAcks
<1>12. Others(p)
  BY <1>1, <1>2 DEF Others, Aside
<1> QED
  BY <1>11, <1>12, OthersKeep

LEMMA UserHears ==
  ASSUME AckInv, NEW p \in Page,
         ClickSwitch(p) \/ ClickSubmit(p) \/ \E a \in NodeAddress : ClickSave(p, a)
  PROVE  \A q \in Page : HearsAcks(q)'
<1>1. controllers[p] \in Seq(Controller) /\ controllers[p] # << >>
  BY DEF AckInv, WebappInv, PageInv
<1>2. OnDisplay(p) \in Controller
  BY <1>1, LenProperties, EmptySeq, ElementOfSeq DEF OnDisplay
<1>3. CASE ClickSwitch(p)
  <2> DEFINE changed == [OnDisplay(p) EXCEPT !.executorRunning = ~(OnDisplay(p).executorRunning)]
  <2>1. [OnDisplay(p) EXCEPT !.executorRunning = ~@] = changed
        /\ changed \in Controller /\ changed.hears = OnDisplay(p).hears
    BY <1>2 DEF Controller
  <2>2. Click(p, changed, Switch)
    BY <1>3, <2>1 DEF ClickSwitch
  <2> HIDE DEF changed
  <2> QED
    BY <2>1, <2>2, ClickHears
<1>4. CASE ClickSubmit(p) \/ \E a \in NodeAddress : ClickSave(p, a)
  <2>1. \E request : Click(p, OnDisplay(p), request)
    BY <1>4 DEF ClickSubmit, ClickSave
  <2> QED
    BY <1>2, <2>1, ClickHears
<1> QED
  BY <1>3, <1>4

-----------------------------------------------------------------------------
(* All steps. *)

LEMMA AckNext == AckInv /\ [WebappNext]_webappVars => AckInv'
<1> SUFFICES ASSUME AckInv, [WebappNext]_webappVars PROVE AckInv'
  OBVIOUS
<1>1. WebappInv'
  BY SocketInvNext, PageInvNext, TransportInvNext, ExecutorInvNext DEF AckInv, WebappInv
<1>2. \A q \in Page : HearsAcks(q)'
  <2>1. ASSUME NEW p \in Page, PageStep(p) PROVE \A q \in Page : HearsAcks(q)'
    BY <2>1, ConnectHears, FlushHears, ReceiveHears, FireTimerHears, VisitHears, UserHears
       DEF PageStep
  <2>2. CASE BackendStep /\ UNCHANGED pageVars
    BY <2>2, HandleHears, RunHears, AdminAssumption DEF BackendStep
  <2>3. CASE UNCHANGED webappVars
    <3>1. \A q \in Page : Aside(q)
      BY <2>3 DEF webappVars, backendVars, socketVars, pageVars, Aside
    <3> QED
      BY <3>1, AsideKeeps DEF AckInv
  <2> QED
    BY <2>1, <2>2, <2>3 DEF WebappNext
<1> QED
  BY <1>1, <1>2 DEF AckInv

LEMMA AckInit == WebappInit => AckInv
<1> SUFFICES ASSUME WebappInit PROVE AckInv
  OBVIOUS
<1>1. WebappInv
  BY WebappInvInit
<1>2. ASSUME NEW p \in Page PROVE HearsAcks(p)
  <2>1. /\ link[p] = IF p \in Loaded THEN "ready" ELSE "connecting"
        /\ queue[p] = FirstRequests(FirstView(p)) /\ timers[p] = << >>
        /\ early[p] = FALSE /\ unheard[p] = FALSE /\ call[p] = "none"
        /\ toServer[p] = << >> /\ toPage[p] = << >>
        /\ controllers[p] = << [view |-> FirstView(p), executorRunning |-> FALSE,
                                waitingResponse |-> FALSE, hears |-> p \in Loaded] >>
    BY <1>2 DEF WebappInit, BackendInit
  <2>2. queue[p] \in Seq(Later) /\ queue[p] \in Seq(Asking)
    BY <2>1, RequestsDiffer, EmptySeq DEF FirstRequests
  <2>3. p \in Loaded => AllHear(p)
    <3>1. \A c : DOMAIN << c >> = {1} /\ << c >>[1] = c
      OBVIOUS
    <3>2. DOMAIN controllers[p] = {1} /\ controllers[p][1].hears = (p \in Loaded)
      BY <2>1, <3>1
    <3> QED
      BY <3>2 DEF AllHear
  <2>4. << >> \in Seq(Later) /\ << >> \in Seq(LaterAnswer)
        /\ << >> \in Seq(Asking) /\ << >> \in Seq(Telling)
    BY EmptySeq
  <2>5. GreetedOnce(p)
    BY <2>1, <2>2, <2>3, <2>4 DEF GreetedOnce
  <2>6. QuietUntilReady(p)
    <3>1. DOMAIN << >> = {}
      OBVIOUS
    <3> QED
      BY <2>1, <2>2, <2>4, <3>1 DEF QuietUntilReady
  <2> QED
    BY <2>1, <2>5, <2>6 DEF HearsAcks
<1> QED
  BY <1>1, <1>2 DEF AckInv

\* An ack is heard by the controller on display, unless something was clicked
\* before the page was connected: until the queue is flushed (services.js:37-50)
\* nothing is sent that is acknowledged, since every click sends a second later
\* only (controllers.js), and the socket is greeted no second time, which would
\* take a page that listens back to one that does not.
THEOREM AcksAreHeard == WebappSpec => []AckIsHeard
<1>1. AckInv => AckIsHeard
  BY DEF AckInv, HearsAcks, AckIsHeard
<1> QED
  BY <1>1, AckInit, AckNext, PTL DEF WebappSpec
=============================================================================
