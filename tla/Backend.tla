-------------------------------- MODULE Backend --------------------------------
(***************************************************************************)
(* The process behind the webapp: one handler goroutine per open page, the *)
(* goroutine of executor.Run, and the HTTP servers of its transport.       *)
(*                                                                         *)
(* A page's messages are handled one after the other (go-socket.io calls   *)
(* the handlers from the goroutine that reads the connection).  A handler  *)
(* blocks in executor.Stop, and for the answer to a client request that it *)
(* posts to the node itself over HTTP.                                     *)
(*                                                                         *)
(* Whatever else Run's loop does (ticks, peers) is SimpleRaft's: to a page *)
(* it only means that its own event is taken a little later.               *)
(***************************************************************************)
EXTENDS Integers, Sequences, FiniteSets

CONSTANTS
  Page,          \* the browser windows that are open
  NodeAddress,   \* addresses the node may be given
  FirstAddress   \* the one it is started with

ASSUME PageAssumption == IsFiniteSet(Page)

ASSUME AddressAssumption == FirstAddress \in NodeAddress

VARIABLES
  toServer, toPage,  \* page -> messages under way, in order
  executorIsRunning, \* the webapp's flag
  call,              \* page -> what its handler goroutine is blocked in
  starting,          \* goroutines `go executor.Run()' that have not begun
  stop,              \* is there a stop channel ?
  loop,              \* where Run is
  address,           \* status.NodeAddress(), also that of transport.server
  server,            \* what became of transport.server
  orphans,           \* addresses of servers that were replaced while they served
  ghosts,            \* requests to Run whose connection is closed
  panicked           \* did Run find another one ?

socketVars == <<toServer, toPage>>
executorVars == <<starting, stop, loop, panicked>>
transportVars == <<address, server, orphans, ghosts>>
backendVars == <<socketVars, executorIsRunning, call, executorVars, transportVars>>

GetNodeState == [do |-> "get-node-state"]
GetIsRunning == [do |-> "get-executor-is-running"]
SetIsRunning(on) == [do |-> "set-executor-is-running", on |-> on]
SetNodeAddress(a) == [do |-> "set-node-address", address |-> a]
NewClientRequest == [do |-> "new-client-command"]

Ack == [do |-> "ack"]
NodeState == [do |-> "node-state-info"]
IsRunning(on) == [do |-> "executor-is-running-info", on |-> on]

Request ==
  {GetNodeState, GetIsRunning, NewClientRequest}
  \cup {SetIsRunning(on) : on \in BOOLEAN} \cup {SetNodeAddress(a) : a \in NodeAddress}

Answer == {Ack, NodeState} \cup {IsRunning(on) : on \in BOOLEAN}

BackendInit ==
  /\ toServer = [p \in Page |-> << >>] /\ toPage = [p \in Page |-> << >>]
  /\ executorIsRunning = FALSE
  /\ call = [p \in Page |-> "none"]
  /\ starting = 0 /\ stop = FALSE /\ loop = "none" /\ panicked = FALSE
  /\ address = FirstAddress /\ server = "new" /\ orphans = {} /\ ghosts = 0

-----------------------------------------------------------------------------
(* Handlers: take the next message, do something, emit the answers. *)

Take(p, kind) ==
  /\ call[p] = "none"
  /\ toServer[p] # << >> /\ Head(toServer[p]).do = kind
  /\ toServer' = [toServer EXCEPT ![p] = Tail(@)]

Emit(p, answers) == toPage' = [toPage EXCEPT ![p] = @ \o answers]

OnGetNodeState(p) ==
  /\ Take(p, "get-node-state")
  /\ Emit(p, << NodeState >>)
  /\ UNCHANGED <<executorIsRunning, call, executorVars, transportVars>>

OnGetIsRunning(p) ==
  /\ Take(p, "get-executor-is-running")
  /\ Emit(p, << IsRunning(executorIsRunning) >>)
  /\ UNCHANGED <<executorIsRunning, call, executorVars, transportVars>>

\* Mutant of OnSetIsRunning: the flag is set before it is looked at.
OnSetIsRunning_FlagFirst(p) ==
  LET on == Head(toServer[p]).on
  IN /\ starting = 0
     /\ Take(p, "set-executor-is-running")
     /\ executorIsRunning' = on
     /\ Emit(p, << IsRunning(on), Ack >>)
     /\ UNCHANGED <<call, executorVars, transportVars>>

\* The administrator's hand is slower than the start of a goroutine: whoever
\* asks for a Run has it begun before the next message comes (Stop would not
\* see it otherwise, and do nothing).
OnSetIsRunning(p) ==
  LET on == Head(toServer[p]).on
      stops == executorIsRunning /\ ~on /\ stop
  IN /\ starting = 0
     /\ Take(p, "set-executor-is-running")
     /\ IF stops
        THEN /\ call' = [call EXCEPT ![p] = "stop"]
             /\ UNCHANGED <<executorIsRunning, starting, toPage>>
        ELSE /\ starting' = IF ~executorIsRunning /\ on THEN 1 ELSE 0
             /\ executorIsRunning' = on
             /\ Emit(p, << IsRunning(on), Ack >>)
             /\ UNCHANGED call
     /\ UNCHANGED <<stop, loop, panicked, transportVars>>

\* Stop() has returned.
AfterStop(p) ==
  /\ loop = "stopped" /\ call[p] = "stopped"
  /\ loop' = "none"
  /\ call' = [call EXCEPT ![p] = "none"]
  /\ executorIsRunning' = FALSE
  /\ Emit(p, << IsRunning(FALSE), Ack >>)
  /\ UNCHANGED <<toServer, starting, stop, panicked, transportVars>>

\* ChangeAddress replaces the server: if it was serving it goes on, and nobody
\* will ever close it.
OnSetNodeAddress(p) ==
  /\ Take(p, "set-node-address")
  /\ address' = Head(toServer[p]).address
  /\ server' = "new"
  /\ orphans' = IF server \in {"opening", "open"} THEN orphans \union {address} ELSE orphans
  /\ call' = [q \in Page |-> IF call[q] = "served" THEN "abandoned" ELSE call[q]]
  /\ Emit(p, << Ack >>)
  /\ UNCHANGED <<executorIsRunning, executorVars, ghosts>>

\* Is the node reachable under its address ?
Listening == server = "open" \/ address \in orphans

\* Post to the node itself: accepted by the server, or by an orphan that has
\* its address, or refused.
OnNewClientRequest(p) ==
  /\ Take(p, "new-client-command")
  /\ call' = [call EXCEPT ![p] =
                IF server = "open" THEN "served"
                ELSE IF address \in orphans THEN "abandoned" ELSE "failed"]
  /\ UNCHANGED <<toPage, executorIsRunning, executorVars, transportVars>>

\* Mutant of AfterPost: no ack on the path of an error.
AfterPost_NoAck(p) ==
  /\ call[p] \in {"answered", "failed"}
  /\ call' = [call EXCEPT ![p] = "none"]
  /\ Emit(p, IF call[p] = "failed" THEN << >> ELSE << Ack >>)
  /\ UNCHANGED <<toServer, executorIsRunning, executorVars, transportVars>>

\* The reply, or "internal error"; client-info goes before the ack.
AfterPost(p) ==
  /\ call[p] \in {"answered", "failed"}
  /\ call' = [call EXCEPT ![p] = "none"]
  /\ Emit(p, << Ack >>)
  /\ UNCHANGED <<toServer, executorIsRunning, executorVars, transportVars>>

-----------------------------------------------------------------------------
(* executor.Run *)

\* up to its loop; Listen starts a goroutine for the server that is there now,
\* and a server that was closed before does not open
BeginRun ==
  /\ starting > 0 /\ starting' = starting - 1
  /\ panicked' = stop
  /\ stop' = TRUE /\ loop' = "reading"
  /\ server' = IF server = "new" THEN "opening" ELSE server
  /\ UNCHANGED <<socketVars, executorIsRunning, call, address, orphans, ghosts>>

\* ListenAndServe; its error (the address is in use) goes nowhere.
OpenServer ==
  /\ server = "opening"
  /\ server' = IF address \in orphans THEN "failed" ELSE "open"
  /\ UNCHANGED <<socketVars, executorIsRunning, call, executorVars, address, orphans, ghosts>>

TakeRequest(p) ==
  /\ loop = "reading" /\ call[p] \in {"served", "abandoned"}
  /\ call' = [call EXCEPT ![p] = "answered"]
  /\ UNCHANGED <<socketVars, executorIsRunning, executorVars, transportVars>>

\* Mutant of TakeGhost: taken although there is none.
TakeGhost_Unchecked ==
  /\ loop = "reading" /\ ghosts >= 0
  /\ ghosts' = ghosts - 1
  /\ UNCHANGED <<socketVars, executorIsRunning, call, executorVars, address, server, orphans>>

\* The handler of a closed connection still waits for Run to take its request:
\* the request is executed by a later Run, the answer is written to nobody.
TakeGhost ==
  /\ loop = "reading" /\ ghosts > 0
  /\ ghosts' = ghosts - 1
  /\ UNCHANGED <<socketVars, executorIsRunning, call, executorVars, address, server, orphans>>

\* Mutant of Closed: the server is not replaced.
Closed_Kept == "closed"

\* What transport.Close leaves: a new server, which can be started again.
Closed == "new"

\* Mutant of TakeStop: executor.stop is not reset.
TakeStop_KeepsChannel(p) ==
  /\ loop = "reading" /\ call[p] = "stop"
  /\ server' = Closed
  /\ ghosts' = ghosts + Cardinality({q \in Page : call[q] = "served"})
  /\ call' = [q \in Page |-> IF q = p THEN "stopped"
                             ELSE IF call[q] = "served" THEN "failed" ELSE call[q]]
  /\ loop' = "stopped"
  /\ UNCHANGED <<socketVars, executorIsRunning, stop, starting, panicked, address, orphans>>

\* The connections of the server break.
TakeStop(p) ==
  /\ loop = "reading" /\ call[p] = "stop"
  /\ server' = Closed
  /\ ghosts' = ghosts + Cardinality({q \in Page : call[q] = "served"})
  /\ call' = [q \in Page |-> IF q = p THEN "stopped"
                             ELSE IF call[q] = "served" THEN "failed" ELSE call[q]]
  /\ loop' = "stopped" /\ stop' = FALSE
  /\ UNCHANGED <<socketVars, executorIsRunning, starting, panicked, address, orphans>>

Handle(p) ==
  \/ OnGetNodeState(p) \/ OnGetIsRunning(p) \/ OnSetIsRunning(p)
  \/ OnSetNodeAddress(p) \/ OnNewClientRequest(p)
  \/ AfterStop(p) \/ AfterPost(p)

BackendStep ==
  \/ \E p \in Page : Handle(p) \/ TakeRequest(p) \/ TakeStop(p)
  \/ BeginRun \/ OpenServer \/ TakeGhost
=============================================================================
