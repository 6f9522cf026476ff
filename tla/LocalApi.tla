------------------------------ MODULE LocalApi ------------------------------
(***************************************************************************)
(* The daemon and its clients: aios-local-api/src/lib.rs and bin/aiosd.rs, *)
(* in front of the supervisor.  A daemon claims the socket, recovers, and  *)
(* then serves one connection at a time, each with one request and one     *)
(* answer.  A client that has waited too long goes away, but its request   *)
(* stays where it is and may still be carried out.                         *)
(*                                                                         *)
(* The kernel is external: bind makes a socket file where there is none,   *)
(* connect finds the listener of a socket file, a daemon that dies leaves  *)
(* the file, and inode numbers are used again.  The operator removes a     *)
(* socket file that was left only while no daemon runs.                    *)
(***************************************************************************)
EXTENDS SupervisorProperties

CONSTANTS Daemons,        \* processes that are started, again and again
          Clients,
          Scenarios,      \* [daemons, methods]: who is started, and what the
                          \* clients ask for
          Limits,         \* the limits clients give
          MaxPageSize,    \* MAX_EVENT_PAGE_SIZE
          MaxBacklog      \* bound: connections that wait to be accepted

ASSUME ScenariosAssumption == \A s \in Scenarios : s.daemons \subseteq Daemons

VARIABLES
  scenario,  \* one of Scenarios
  phase,     \* daemon -> how far main() has come, or "down"
  identity,  \* daemon -> the inode its LocalServer remembers, or 0
  socket,    \* the inode of the socket file, or 0
  backlog,   \* the connections that wait, first come first served
  current,   \* the connection that is served, with its answer
  known,     \* client -> Task -> the state it was last told
  pages      \* client -> Task -> the events it has read

daemonVars == <<phase, identity, socket>>
connectionVars == <<backlog, current>>
clientVars == <<known, pages>>
apiVars == <<scenario, vars, daemonVars, connectionVars, clientVars>>

\* A connection that waits is [client, request], the one that is served is
\* [client, answer]; the client is Gone when it has stopped waiting.
Gone == "gone"
NoConnection == [client |-> Gone, answer |-> [type |-> "none"]]

Listening == {"bound", "starting", "serving"}

ApiInit ==
  /\ Init
  /\ scenario \in Scenarios
  /\ phase = [d \in Daemons |-> "down"]
  /\ identity = [d \in Daemons |-> 0]
  /\ socket = 0
  /\ backlog = <<>>
  /\ current = NoConnection
  /\ known = [c \in Clients |-> EmptyMap]
  /\ pages = [c \in Clients |-> EmptyMap]

-----------------------------------------------------------------------------
(***************************************************************************)
(* Start and end of a daemon.                                              *)
(***************************************************************************)
Goto(d, p) == phase' = [phase EXCEPT ![d] = p]

\* Mutant: a file that is in the way is taken for a left-over and removed.
BindReplaces(d) ==
  /\ phase[d] = "down"
  /\ Goto(d, "checked")
  /\ socket' = 0
  /\ UNCHANGED <<vars, identity, connectionVars, clientVars>>

\* LocalServer::bind up to the look at the path: what exists is not touched,
\* and the start fails.
BindCheck(d) ==
  /\ phase[d] = "down"
  /\ socket = 0
  /\ Goto(d, "checked")
  /\ UNCHANGED <<vars, identity, socket, connectionVars, clientVars>>

NewInode == CHOOSE i \in {1, 2} : \A e \in Daemons : identity[e] # i

\* UnixListener::bind: another daemon may have been faster.
BindSocket(d) ==
  /\ phase[d] = "checked"
  /\ IF socket = 0
     THEN /\ socket' = NewInode
          /\ Goto(d, "bound")
     ELSE Goto(d, "down") /\ UNCHANGED socket
  /\ UNCHANGED <<vars, identity, connectionVars, clientVars>>

\* set_permissions and symlink_metadata: the server remembers what is at the
\* path.
BindDone(d) ==
  /\ phase[d] = "bound"
  /\ identity' = [identity EXCEPT ![d] = socket]
  /\ Goto(d, "starting")
  /\ UNCHANGED <<vars, socket, connectionVars, clientVars>>

\* recover, then reconcile_stale_task_cgroups if there is a cgroup root, then
\* serve_forever.
Recover(d) ==
  /\ phase[d] = "starting"
  /\ RecoverSnapshots \/ (\E t \in TaskIds : RecoverInterrupted(t)) \/ RecoveryDone
  /\ UNCHANGED <<daemonVars, connectionVars, clientVars>>

Reconciled(d) ==
  /\ phase[d] = "starting"
  /\ mode = "serving"
  /\ Goto(d, "serving")
  /\ UNCHANGED <<vars, identity, socket, connectionVars, clientVars>>

\* The process is gone, and with it its connections: their clients read the end
\* of the stream.
Ends(d) ==
  /\ Goto(d, "down")
  /\ identity' = [identity EXCEPT ![d] = 0]
  /\ IF mode = "down" THEN UNCHANGED vars ELSE Crash
  /\ backlog' = <<>>
  /\ current' = NoConnection
  /\ UNCHANGED clientVars

\* Killed, or bind has failed after it had made the file: nothing tidies up.
Killed(d) ==
  /\ phase[d] \in Listening
  /\ Ends(d)
  /\ UNCHANGED socket

\* An error of open, recover, reconcile or accept is returned from main, and
\* LocalServer is dropped.
ExitsWithError(d) ==
  /\ phase[d] \in {"starting", "serving"}
  /\ current = NoConnection
  /\ Ends(d)
  /\ socket' = IF socket = identity[d] THEN 0 ELSE socket

RemoveLeftOver ==
  /\ socket # 0
  /\ \A d \in Daemons : phase[d] \in {"down", "checked"}
  /\ socket' = 0
  /\ UNCHANGED <<vars, phase, identity, connectionVars, clientVars>>

-----------------------------------------------------------------------------
(***************************************************************************)
(* Clients: send_request.                                                  *)
(***************************************************************************)
\* A client asks for the events that follow the last one it has; the method
\* "silent" sends no complete frame, and "other" is health, a version that is
\* not supported, or what is no request at all.
Read(c, t) == IF t \in DOMAIN pages[c] THEN pages[c][t] ELSE <<>>

RequestsOf(c) ==
  LET methods == scenario.methods[c] IN
  [method : methods \cap {"silent", "other"}]
  \cup [method : methods \cap {"submit"}, spec : Specs]
  \cup [method : methods \cap {"get_task", "start", "succeed", "fail", "cancel"},
        task : TaskIds]
  \cup UNION {[method : methods \cap {"events"}, task : {t},
               after : {Len(Read(c, t))}, limit : Limits] : t \in TaskIds}

Waits(c) ==
  current.client = c \/ \E i \in DOMAIN backlog : backlog[i].client = c

Connect(c, request) ==
  /\ ~Waits(c)
  /\ Len(backlog) < MaxBacklog
  /\ socket # 0
  /\ \E d \in Daemons : phase[d] \in Listening
  /\ backlog' = Append(backlog, [client |-> c, request |-> request])
  /\ UNCHANGED <<vars, daemonVars, current, clientVars>>

\* The read of the client times out.
GiveUp(c) ==
  /\ Waits(c)
  /\ backlog' = [i \in DOMAIN backlog |->
                   IF backlog[i].client = c THEN [backlog[i] EXCEPT !.client = Gone]
                   ELSE backlog[i]]
  /\ current' = IF current.client = c THEN [current EXCEPT !.client = Gone] ELSE current
  /\ UNCHANGED <<vars, daemonVars, clientVars>>

-----------------------------------------------------------------------------
(***************************************************************************)
(* The service: what a method does to the supervisor, and its answer, which *)
(* is an error, the view of a Task, or a page of events.                   *)
(***************************************************************************)
Error == [type |-> "error"]
View(t, state) == [type |-> "task", task |-> t, state |-> state]

Answer(answer) == current' = [client |-> Head(backlog).client, answer |-> answer]
AnswerOnly(answer) == Answer(answer) /\ UNCHANGED vars

\* Mutant: the state asked for is reported.
UnavailableIgnored(view) == view

\* What is answered when an append fails: STORAGE_UNAVAILABLE.
Unavailable(view) == Error

SubmitMethod(spec) ==
  \/ /\ ~IsNewKey(spec)
     /\ LET t == idempotency_index[spec.key] IN
        AnswerOnly(IF tasks[t].spec = spec THEN View(t, tasks[t].state) ELSE Error)
  \/ /\ IsNewKey(spec)
     /\ AnswerOnly(Error)
  \/ \E t \in TaskIds : Submit(t, spec) /\ Answer(View(t, SubmittedState(spec)))

GetTask(t) == AnswerOnly(IF t \in Known THEN View(t, StateOf(t)) ELSE Error)

\* transition_response: the state is read again after the transition.
TransitionMethod(t, next, transition) ==
  \/ transition /\ Answer(View(t, next))
  \/ AnswerOnly(IF t \in Known /\ CanTransitionTo(StateOf(t), next)
                THEN Unavailable(View(t, next)) ELSE Error)

CancelMethod(t) ==
  IF t \in Known /\ IsTerminal(StateOf(t))
  THEN AnswerOnly(View(t, StateOf(t)))
  ELSE TransitionMethod(t, "Cancelled", Cancel(t))

\* Mutant: the last event the client has comes once more.
EventsFrom(t, after) ==
  SubSeq(log[t], IF after = 0 THEN 1 ELSE after, Len(log[t]))

\* supervisor.events: the events with a sequence above after_sequence.
EventsAfter(t, after) == SubSeq(log[t], after + 1, Len(log[t]))

EventsMethod(t, after, limit) ==
  \/ AnswerOnly(Error)
  \/ /\ limit \in 1..MaxPageSize
     /\ t \in Known
     /\ LET events == EventsAfter(t, after)
            has_more == Len(events) > limit
        IN  AnswerOnly([type |-> "events", task |-> t, after |-> after,
                        events |-> IF has_more THEN SubSeq(events, 1, limit)
                                   ELSE events,
                        has_more |-> has_more])

\* ApiService::handle.
Method(r) ==
  CASE r.method = "submit" -> SubmitMethod(r.spec)
    [] r.method = "get_task" -> GetTask(r.task)
    [] r.method = "events" -> EventsMethod(r.task, r.after, r.limit)
    [] r.method = "start" -> TransitionMethod(r.task, "Running", Start(r.task))
    [] r.method = "succeed" -> TransitionMethod(r.task, "Succeeded", Succeed(r.task))
    [] r.method = "fail" -> TransitionMethod(r.task, "Failed", Fail(r.task))
    [] r.method = "cancel" -> CancelMethod(r.task)
    [] r.method = "other" -> AnswerOnly(Error)

-----------------------------------------------------------------------------
(***************************************************************************)
(* serve_forever: accept, serve_stream, and again.                         *)
(***************************************************************************)
CanAccept(d) ==
  phase[d] = "serving" /\ current = NoConnection /\ backlog # <<>>

Handle(d) ==
  /\ CanAccept(d)
  /\ Head(backlog).request.method # "silent"
  /\ Method(Head(backlog).request)
  /\ backlog' = Tail(backlog)
  /\ UNCHANGED <<daemonVars, clientVars>>

\* Mutant: a read without a timeout.
DropBrokenConnection(d) ==
  /\ CanAccept(d)
  /\ Head(backlog).request.method # "silent"
  /\ backlog' = Tail(backlog)
  /\ UNCHANGED <<vars, daemonVars, current, clientVars>>

\* configure_stream or read_frame fails, by a timeout at the latest: the
\* connection is closed without an answer.
DropConnection(d) ==
  /\ CanAccept(d)
  /\ backlog' = Tail(backlog)
  /\ UNCHANGED <<vars, daemonVars, current, clientVars>>

Told(c, answer) ==
  /\ known' = IF answer.type = "task"
              THEN [known EXCEPT ![c] = Insert(@, answer.task, answer.state)]
              ELSE known
  /\ pages' = IF answer.type = "events"
              THEN [pages EXCEPT ![c] =
                      Insert(@, answer.task, Read(c, answer.task) \o answer.events)]
              ELSE pages

\* write_response.  The client learns nothing when the write fails, or when the
\* answer is too large for a frame and RESPONSE_TOO_LARGE takes its place.
WriteResponse(d) ==
  /\ phase[d] = "serving"
  /\ current # NoConnection
  /\ current' = NoConnection
  /\ \/ current.client # Gone /\ Told(current.client, current.answer)
     \/ UNCHANGED clientVars
  /\ UNCHANGED <<vars, daemonVars, backlog>>

StartUp(d) == BindDone(d) \/ Recover(d) \/ Reconciled(d)
Serve(d) == Handle(d) \/ DropConnection(d) \/ WriteResponse(d)

ApiNext ==
  /\ \/ \E d \in scenario.daemons :
          \/ BindCheck(d)
          \/ BindSocket(d)
          \/ StartUp(d)
          \/ Serve(d)
          \/ ExitsWithError(d)
          \/ Killed(d)
     \/ \E c \in Clients :
          \/ \E request \in RequestsOf(c) : Connect(c, request)
          \/ GiveUp(c)
     \/ RemoveLeftOver
  /\ UNCHANGED scenario

\* A daemon that has begun goes on, or exits when its start fails.  No client
\* need ever give up, and nobody need restart what has died.
ApiSpec ==
  /\ ApiInit
  /\ [][ApiNext]_apiVars
  /\ \A d \in Daemons :
       /\ WF_apiVars(/\ StartUp(d) \/ (phase[d] = "starting" /\ ExitsWithError(d))
                     /\ UNCHANGED scenario)
       /\ WF_apiVars(Serve(d) /\ UNCHANGED scenario)

-----------------------------------------------------------------------------
\* "The configured Unix socket is bound first, excluding another daemon using
\* the same socket path": however two starts, deaths and removals of left-over
\* files interleave, at most one daemon has the socket and with it the store,
\* nobody takes away the file of a daemon that serves, and only a daemon that
\* holds it touches the log.
SocketIsExclusive ==
  /\ \A d, e \in Daemons : phase[d] \in Listening /\ phase[e] \in Listening => d = e
  /\ \A d \in Daemons : phase[d] \in {"starting", "serving"} => socket = identity[d]
  /\ mode # "down" => \E d \in Daemons : phase[d] \in {"starting", "serving"}

\* What a client was told of a Task was true and durable: the log has passed
\* through that state, and has stayed in it if it is an end, whatever is
\* retried, given up, carried out late or interrupted by a restart afterwards.
AnswersStayTrue ==
  \A c \in Clients : \A t \in DOMAIN known[c] :
    \E n \in DOMAIN Events(t) :
      /\ StateAfter(Events(t), n) = known[c][t]
      /\ known[c][t] \in Terminal => n = Len(Events(t))

\* A client that asks for page after page reads the log: each event once and in
\* order, across limits, lost answers, events appended in between and restarts;
\* and a page that claims to be the last one is, when it is answered.
PagesAreExact ==
  /\ \A c \in Clients : \A t \in DOMAIN pages[c] :
       SubSeq(Events(t), 1, Len(pages[c][t])) = pages[c][t]
  /\ current # NoConnection /\ current.answer.type = "events" =>
       current.answer.has_more
         <=> current.answer.after + Len(current.answer.events)
               < Len(log[current.answer.task])

\* Nobody waits for ever, even behind a client that connects and says nothing,
\* a request that was given up, or the recovery of a daemon that has bound its
\* socket and not begun to serve.
ClientsAnswered == \A c \in Clients : Waits(c) ~> ~Waits(c)

=============================================================================
