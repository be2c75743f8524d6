--------------------------------- MODULE Webapp ---------------------------------
(***************************************************************************)
(* The pages of the webapp in front of Backend.  The administrator's page  *)
(* shows the monitor, with the switch that runs and stops the executor,    *)
(* and the client form by turns; the other pages show the client form.     *)
(*                                                                         *)
(* A page is one thread: each action is a turn of its event loop, begun by *)
(* a click, a message or a timer.  Every visit of a view makes a new       *)
(* controller; the listeners and timers of the old ones remain.            *)
(*                                                                         *)
(* Left out: the fields that only show a value of the node and the         *)
(* polling that refreshes them, and of the setters all but two, which      *)
(* differ in nothing the page can see.                                     *)
(***************************************************************************)
EXTENDS Backend

CONSTANTS
  Admin,                 \* the administrator's page
  Loaded,                \* pages that were opened before this begins
  MaxClicks              \* bound, per page

ASSUME AdminAssumption == Admin \in Page \ Loaded /\ Loaded \subseteq Page

VARIABLES
  link,        \* page -> state of the socket
  queue,       \* page -> what it emits once the socket is ready
  controllers, \* page -> the controllers made so far; the last one is on display
  timers,      \* page -> clicks that are to be sent after a second
  clicks,      \* page -> number of clicks, on links too
  early,       \* history: page -> did it click before it was connected ?
  unheard      \* history: page -> did the controller on display miss an ack ?

pageVars == <<link, queue, controllers, timers, clicks, early, unheard>>
webappVars == <<backendVars, pageVars>>

Controller ==
  [view : {"monitor", "client"}, executorRunning : BOOLEAN, waitingResponse : BOOLEAN,
   hears : BOOLEAN]

\* what a click on the switch sends: its position is read later
Switch == [do |-> "switch"]

Timer ==
  [of : Nat, late : BOOLEAN,  \* of a click after the page was connected ?
   request : {Switch, NewClientRequest} \cup {SetNodeAddress(a) : a \in NodeAddress}]

Connected(p) == link[p] \in {"connected", "ready"}

NewController(p, view) ==
  [view |-> view, executorRunning |-> FALSE, waitingResponse |-> FALSE, hears |-> Connected(p)]

\* Mutant of FirstRequests: nothing asks for the state of the executor.
FirstRequests_None(view) == << >>

\* what a controller asks for when it is made
FirstRequests(view) == IF view = "monitor" THEN << GetIsRunning >> ELSE << >>

FirstView(p) == IF p = Admin THEN "monitor" ELSE "client"

OnDisplay(p) == controllers[p][Len(controllers[p])]

WebappInit ==
  /\ BackendInit
  /\ link = [p \in Page |-> IF p \in Loaded THEN "ready" ELSE "connecting"]
  /\ queue = [p \in Page |-> FirstRequests(FirstView(p))]
  /\ controllers = [p \in Page |->
       << [view |-> FirstView(p), executorRunning |-> FALSE, waitingResponse |-> FALSE,
           hears |-> p \in Loaded] >>]
  /\ timers = [p \in Page |-> << >>]
  /\ clicks = [p \in Page |-> 0]
  /\ early = [p \in Page |-> FALSE] /\ unheard = [p \in Page |-> FALSE]

-----------------------------------------------------------------------------
(* The service Socket: what is emitted, and whom the page listens for,      *)
(* waits until the first answer of the server, and 200 ms more.             *)

PageEmit(p, messages) ==
  IF Connected(p)
  THEN toServer' = [toServer EXCEPT ![p] = @ \o messages] /\ UNCHANGED queue
  ELSE queue' = [queue EXCEPT ![p] = @ \o messages] /\ UNCHANGED toServer

Connect(p) ==
  /\ link[p] = "connecting"
  /\ link' = [link EXCEPT ![p] = "greeted"]
  /\ toServer' = [toServer EXCEPT ![p] = << GetNodeState >>]
  /\ UNCHANGED <<toPage, executorIsRunning, call, executorVars, transportVars,
                 queue, controllers, timers, clicks, early, unheard>>

Flush(p) ==
  /\ link[p] = "connected"
  /\ link' = [link EXCEPT ![p] = "ready"]
  /\ toServer' = [toServer EXCEPT ![p] = @ \o queue[p]]
  /\ queue' = [queue EXCEPT ![p] = << >>]
  /\ controllers' = [controllers EXCEPT ![p] =
                       [k \in DOMAIN @ |-> [@[k] EXCEPT !.hears = TRUE]]]
  /\ UNCHANGED <<toPage, executorIsRunning, call, executorVars, transportVars,
                 timers, clicks, early, unheard>>

\* What the controllers make of a message: all that listen, also those that
\* are no more on display.
Heard(controller, m) ==
  CASE m.do = "ack" -> [controller EXCEPT !.waitingResponse = FALSE]
    [] m.do = "executor-is-running-info" /\ controller.view = "monitor" ->
         [controller EXCEPT !.executorRunning = m.on]
    [] OTHER -> controller

Receive(p) ==
  LET m == Head(toPage[p])
  IN /\ toPage[p] # << >>
     /\ toPage' = [toPage EXCEPT ![p] = Tail(@)]
     /\ link' = IF m = NodeState THEN [link EXCEPT ![p] = "connected"] ELSE link
     /\ controllers' = [controllers EXCEPT ![p] =
          [k \in DOMAIN @ |-> IF @[k].hears THEN Heard(@[k], m) ELSE @[k]]]
     /\ unheard' = [unheard EXCEPT ![p] = @ \/ (m = Ack /\ ~OnDisplay(p).hears)]
     /\ UNCHANGED <<toServer, executorIsRunning, call, executorVars, transportVars,
                    queue, timers, clicks, early>>

-----------------------------------------------------------------------------
(* The user. *)

Visit(p) ==
  LET view == IF OnDisplay(p).view = "monitor" THEN "client" ELSE "monitor"
  IN /\ p = Admin /\ clicks[p] < MaxClicks[p]
     /\ clicks' = [clicks EXCEPT ![p] = @ + 1]
     /\ controllers' = [controllers EXCEPT ![p] = Append(@, NewController(p, view))]
     /\ PageEmit(p, FirstRequests(view))
     /\ UNCHANGED <<toPage, executorIsRunning, call, executorVars, transportVars,
                    link, timers, early, unheard>>

\* A click on the form on display: it waits, and sends after a second.
Click(p, changed, request) ==
  /\ clicks[p] < MaxClicks[p] /\ clicks' = [clicks EXCEPT ![p] = @ + 1]
  /\ controllers' = [controllers EXCEPT ![p][Len(controllers[p])] =
                       [changed EXCEPT !.waitingResponse = TRUE]]
  /\ timers' = [timers EXCEPT ![p] =
       Append(@, [of |-> Len(controllers[p]), request |-> request, late |-> Connected(p)])]
  /\ early' = [early EXCEPT ![p] = @ \/ ~Connected(p)]
  /\ UNCHANGED <<backendVars, link, queue, unheard>>

\* The switch may be clicked at any time.
ClickSwitch(p) ==
  /\ OnDisplay(p).view = "monitor"
  /\ Click(p, [OnDisplay(p) EXCEPT !.executorRunning = ~@], Switch)

ClickSave(p, a) ==
  /\ OnDisplay(p).view = "monitor" /\ ~OnDisplay(p).waitingResponse
  /\ Click(p, OnDisplay(p), SetNodeAddress(a))

ClickSubmit(p) ==
  /\ OnDisplay(p).view = "client" /\ ~OnDisplay(p).waitingResponse
  /\ Click(p, OnDisplay(p), NewClientRequest)

\* Mutant of Elapses: the queue is kept for longer than a second.
Elapses_BeforeFlush(p, timer) == TRUE

\* A second after a click of a connected page its 200 ms have passed too.
Elapses(p, timer) == timer.late => link[p] = "ready"

\* The switch is looked at when the timer fires, not when it was clicked.
FireTimer(p) ==
  LET timer == Head(timers[p])
  IN /\ timers[p] # << >> /\ Elapses(p, timer)
     /\ timers' = [timers EXCEPT ![p] = Tail(@)]
     /\ PageEmit(p, << IF timer.request = Switch
                       THEN SetIsRunning(controllers[p][timer.of].executorRunning)
                       ELSE timer.request >>)
     /\ UNCHANGED <<toPage, executorIsRunning, call, executorVars, transportVars,
                    link, controllers, clicks, early, unheard>>

PageStep(p) ==
  \/ Connect(p) \/ Flush(p) \/ Receive(p) \/ FireTimer(p)
  \/ Visit(p) \/ ClickSwitch(p) \/ ClickSubmit(p)
  \/ \E a \in NodeAddress : ClickSave(p, a)

WebappNext ==
  \/ BackendStep /\ UNCHANGED pageVars
  \/ \E p \in Page : PageStep(p)

\* No goroutine and no turn of a page is put off for ever; users may stop.
Fairness ==
  /\ WF_webappVars(BeginRun /\ UNCHANGED pageVars)
  /\ WF_webappVars(OpenServer /\ UNCHANGED pageVars)
  /\ \A p \in Page :
       /\ WF_webappVars(Handle(p) /\ UNCHANGED pageVars)
       /\ SF_webappVars(TakeRequest(p) /\ UNCHANGED pageVars)
       /\ SF_webappVars(TakeStop(p) /\ UNCHANGED pageVars)
       /\ WF_webappVars(Connect(p)) /\ WF_webappVars(Flush(p))
       /\ WF_webappVars(Receive(p)) /\ WF_webappVars(FireTimer(p))

WebappSpec == WebappInit /\ [][WebappNext]_webappVars /\ Fairness

-----------------------------------------------------------------------------
(* What holds of it. *)

\* Messages, flags and places of goroutines are what the comments above say.
WebappTypeOK ==
  /\ toServer \in [Page -> Seq(Request)] /\ toPage \in [Page -> Seq(Answer)]
  /\ executorIsRunning \in BOOLEAN
  /\ call \in [Page -> {"none", "stop", "stopped", "served", "abandoned", "answered", "failed"}]
  /\ starting \in Nat /\ stop \in BOOLEAN /\ panicked \in BOOLEAN
  /\ loop \in {"none", "reading", "stopped"}
  /\ address \in NodeAddress /\ server \in {"new", "opening", "open", "failed"}
  /\ orphans \subseteq NodeAddress /\ ghosts \in Nat
  /\ link \in [Page -> {"connecting", "greeted", "connected", "ready"}]
  /\ queue \in [Page -> Seq(Request)]
  /\ controllers \in [Page -> Seq(Controller)] /\ timers \in [Page -> Seq(Timer)]
  /\ clicks \in [Page -> Nat] /\ early \in [Page -> BOOLEAN] /\ unheard \in [Page -> BOOLEAN]

\* However often the switch is turned, no Run ever finds another one that has
\* not ended, which would end the process (executor.go:132-134).
RunsOnce == ~panicked

\* While the handler of the switch is not at work and no Run is about to begin,
\* the webapp's flag says whether the executor runs (webapp.go:55-61).
FlagIsRunning ==
  call[Admin] = "none" /\ starting = 0 => (executorIsRunning <=> loop = "reading")

\* With nothing under way the monitor shows what the flag is, although the
\* switch shows each click before anybody knows of it, and any earlier answer
\* may take it back (controllers.js:120-132).
SwitchShowsFlag ==
  /\ link[Admin] = "ready" /\ call[Admin] = "none"
  /\ timers[Admin] = << >> /\ toServer[Admin] = << >> /\ toPage[Admin] = << >>
  /\ OnDisplay(Admin).view = "monitor"
  => OnDisplay(Admin).executorRunning = executorIsRunning

\* An ack goes unheard only if something was clicked before the page was
\* connected (services.js:37-50 against the timers of controllers.js).
AckIsHeard == \A p \in Page : unheard[p] => early[p]

\* A form that waits for an answer is released some day: unless its ack came
\* before the page listened, or a server was left behind by a change of address,
\* which goes on accepting requests that a stopped executor does not take
\* (transport.go:84-93).
Released ==
  \A p \in Page :
    OnDisplay(p).waitingResponse ~>
      ~OnDisplay(p).waitingResponse \/ unheard[p] \/ call[p] = "abandoned"

\* A running executor is reachable at the node's address some day, or stopped, or
\* its address was changed since it began, however often it was run and stopped
\* before (transport.go:71-79).
RunningListens ==
  loop = "reading" /\ server # "new" ~> Listening \/ loop # "reading" \/ server = "new"
=============================================================================
