--------------------------- MODULE LocalApiProofs ---------------------------
(***************************************************************************)
(* Proofs about the daemon: the claim of the socket is exclusive for any   *)
(* number of daemons and clients, and the service makes the supervisor do  *)
(* nothing that it does not do by itself.                                  *)
(***************************************************************************)
EXTENDS LocalApi, SequenceTheorems, TLAPS

Holding == {"starting", "serving"}

\* Inductive: beyond SocketIsExclusive, a listener has its file - so that bind,
\* which needs a free path, cannot succeed beside it - and only a LocalServer
\* that exists remembers an inode, so that a new file can get one.
ClaimsAgree ==
  /\ \A d, e \in Daemons : phase[d] \in Listening /\ phase[e] \in Listening => d = e
  /\ \A d \in Daemons : phase[d] \in Listening => socket # 0
  /\ \A d \in Daemons : phase[d] \in Holding => socket = identity[d]
  /\ \A d \in Daemons : phase[d] \notin Holding => identity[d] = 0

SocketInv ==
  /\ scenario \in Scenarios
  /\ phase \in [Daemons -> {"down", "checked"} \cup Listening]
  /\ identity \in [Daemons -> {0, 1, 2}]
  /\ socket \in {0, 1, 2}
  /\ ClaimsAgree
  /\ mode # "down" => \E d \in Daemons : phase[d] \in Holding

-----------------------------------------------------------------------------
\* The first state: nothing runs and nothing is at the path.
LEMMA SocketInit == ApiInit => SocketInv
  BY DEF ApiInit, Init, SocketInv, ClaimsAgree, Holding, Listening

\* LocalServer::bind, step by step, whoever else is about to bind as well.
LEMMA SocketBind ==
  ASSUME SocketInv, NEW d \in Daemons, UNCHANGED scenario,
         BindCheck(d) \/ BindSocket(d) \/ BindDone(d)
  PROVE  SocketInv'
<1> USE DEF SocketInv, ClaimsAgree, Holding, Listening, Goto
<1>m. mode' = mode
  BY DEF BindCheck, BindSocket, BindDone, vars
<1>1. CASE BindCheck(d)
  BY <1>1, <1>m DEF BindCheck
<1>2. CASE BindSocket(d)
  <2>1. CASE socket = 0
    <3>1. \A e \in Daemons : identity[e] = 0
      BY <2>1
    <3>2. NewInode \in {1, 2}
      BY <3>1 DEF NewInode
    <3>3. socket' = NewInode /\ phase' = [phase EXCEPT ![d] = "bound"]
          /\ identity' = identity
      BY <1>2, <2>1 DEF BindSocket
    <3> HIDE DEF NewInode
    <3> QED
      BY <3>1, <3>2, <3>3, <2>1, <1>m
  <2>2. CASE socket # 0
    BY <1>2, <2>2, <1>m DEF BindSocket
  <2> QED
    BY <2>1, <2>2
<1>3. CASE BindDone(d)
  BY <1>3, <1>m DEF BindDone
<1> QED
  BY <1>1, <1>2, <1>3

\* A daemon that holds the socket recovers and serves.
LEMMA SocketHeld ==
  ASSUME SocketInv, NEW d \in Daemons, UNCHANGED scenario,
         Recover(d) \/ Reconciled(d) \/ Serve(d)
  PROVE  SocketInv'
<1> USE DEF SocketInv, ClaimsAgree, Holding, Listening
<1>1. CASE Recover(d)
  BY <1>1 DEF Recover, daemonVars
<1>2. CASE Reconciled(d)
  BY <1>2 DEF Reconciled, Goto
<1>3. CASE Serve(d)
  <2>1. phase[d] = "serving" /\ UNCHANGED daemonVars
    BY <1>3 DEF Serve, Handle, DropConnection, WriteResponse, CanAccept
  <2> QED
    BY <2>1 DEF daemonVars
<1> QED
  BY <1>1, <1>2, <1>3

\* A daemon ends, with or without tidying up, or the operator does.
LEMMA SocketEnd ==
  ASSUME SocketInv, UNCHANGED scenario,
         (\E d \in Daemons : ExitsWithError(d) \/ Killed(d)) \/ RemoveLeftOver
  PROVE  SocketInv'
<1> USE DEF SocketInv, ClaimsAgree, Holding, Listening
<1>1. ASSUME NEW d \in Daemons, ExitsWithError(d) \/ Killed(d)
      PROVE  SocketInv'
  <2>1. /\ phase[d] \in Listening
        /\ phase' = [phase EXCEPT ![d] = "down"]
        /\ identity' = [identity EXCEPT ![d] = 0]
        /\ socket' \in {0, socket}
    BY <1>1 DEF ExitsWithError, Killed, Ends, Goto
  <2>2. mode' = "down"
    BY <1>1 DEF ExitsWithError, Killed, Ends, Crash, vars
  <2>3. \A e \in Daemons : phase'[e] \notin Listening
    BY <2>1
  <2> QED
    BY <2>1, <2>2, <2>3
<1>2. CASE RemoveLeftOver
  BY <1>2 DEF RemoveLeftOver, vars
<1> QED
  BY <1>1, <1>2

\* No step of a client touches a daemon, its socket or the supervisor.
LEMMA ClientSteps ==
  ASSUME NEW c \in Clients,
         GiveUp(c) \/ \E request \in RequestsOf(c) : Connect(c, request)
  PROVE  UNCHANGED <<vars, daemonVars>>
  BY DEF GiveUp, Connect

\* The invariant is inductive.
LEMMA SocketNext == SocketInv /\ [ApiNext]_apiVars => SocketInv'
<1> SUFFICES ASSUME SocketInv, [ApiNext]_apiVars PROVE SocketInv'
  OBVIOUS
<1>1. CASE UNCHANGED apiVars
  BY <1>1 DEF apiVars, daemonVars, vars, SocketInv, ClaimsAgree
<1>2. CASE ApiNext
  <2>1. UNCHANGED scenario /\ scenario.daemons \subseteq Daemons
    BY <1>2, ScenariosAssumption DEF ApiNext, SocketInv
  <2>2. ASSUME NEW d \in Daemons,
               \/ BindCheck(d) \/ BindSocket(d) \/ StartUp(d) \/ Serve(d)
               \/ ExitsWithError(d) \/ Killed(d)
        PROVE  SocketInv'
    BY <2>1, <2>2, SocketBind, SocketHeld, SocketEnd DEF StartUp
  <2>3. ASSUME NEW c \in Clients,
               GiveUp(c) \/ \E request \in RequestsOf(c) : Connect(c, request)
        PROVE  SocketInv'
    <3>1. UNCHANGED <<vars, daemonVars>>
      BY <2>3, ClientSteps
    <3> QED
      BY <3>1, <2>1 DEF vars, daemonVars, SocketInv, ClaimsAgree
  <2>4. CASE RemoveLeftOver
    BY <2>4, <2>1, SocketEnd
  <2> QED
    BY <1>2, <2>1, <2>2, <2>3, <2>4 DEF ApiNext
<1> QED
  BY <1>1, <1>2

\* "The configured Unix socket is bound first, excluding another daemon using
\* the same socket path", for any number of daemons that are started and die in
\* any order, and any clients.
THEOREM SocketExcludes == ApiSpec => []SocketIsExclusive
<1>1. SocketInv => SocketIsExclusive
  BY DEF SocketInv, ClaimsAgree, SocketIsExclusive, Holding, Listening
<1> QED
  BY <1>1, SocketInit, SocketNext, PTL DEF ApiSpec

-----------------------------------------------------------------------------
\* What is asked for is asked of Tasks that can exist.
TaskMethod == {"get_task", "events", "start", "succeed", "fail", "cancel"}
RequestTyped(r) ==
  /\ r.method = "submit" => r.spec \in Specs
  /\ r.method \in TaskMethod => r.task \in TaskIds
  /\ r.method \in TaskMethod \cup {"submit", "other", "silent"}

ConnectionOver(R) == [client : Clients \cup {Gone}, request : R]
BacklogTyped ==
  \E R : (\A r \in R : RequestTyped(r)) /\ backlog \in Seq(ConnectionOver(R))

\* Clients send nothing else.
LEMMA RequestsTyped ==
  ASSUME NEW c \in Clients, NEW r \in RequestsOf(c)
  PROVE  RequestTyped(r)
  BY DEF RequestsOf, RequestTyped, TaskMethod

\* What waits stays well formed: connections are appended, taken from the
\* front, or given up where they are.
LEMMA BacklogNext ==
  ASSUME BacklogTyped, [ApiNext]_apiVars
  PROVE  BacklogTyped'
<1>1. PICK R : (\A r \in R : RequestTyped(r)) /\ backlog \in Seq(ConnectionOver(R))
  BY DEF BacklogTyped
<1>2. CASE UNCHANGED backlog
  BY <1>2 DEF BacklogTyped
<1>3. CASE backlog' = <<>>
  <2>1. backlog' \in Seq(ConnectionOver(R))
    BY <1>3
  <2> QED
    BY <1>1, <2>1 DEF BacklogTyped
<1>4. CASE backlog # <<>> /\ backlog' = Tail(backlog)
  <2>1. Tail(backlog) \in Seq(ConnectionOver(R))
    BY <1>1, <1>4
  <2> QED
    BY <1>1, <1>4, <2>1 DEF BacklogTyped
<1>5. ASSUME NEW c \in Clients, NEW r \in RequestsOf(c), Connect(c, r)
      PROVE  BacklogTyped'
  <2> DEFINE Q == R \cup {r}
  <2>1. \A q \in Q : RequestTyped(q)
    BY <1>1, RequestsTyped
  <2>2. ConnectionOver(R) \subseteq ConnectionOver(Q)
    BY DEF ConnectionOver
  <2>3. backlog \in Seq(ConnectionOver(Q))
    BY <1>1, <2>2, SeqMonotonic
  <2>4. [client |-> c, request |-> r] \in ConnectionOver(Q)
    BY DEF ConnectionOver
  <2>5. backlog' \in Seq(ConnectionOver(Q))
    BY <1>5, <2>3, <2>4 DEF Connect
  <2> QED
    BY <2>1, <2>5 DEF BacklogTyped
<1>6. ASSUME NEW c \in Clients, GiveUp(c)
      PROVE  BacklogTyped'
  <2>0. ASSUME NEW x \in ConnectionOver(R)
        PROVE  [x EXCEPT !.client = Gone] \in ConnectionOver(R)
    BY DEF ConnectionOver
  <2>1. \A i \in DOMAIN backlog :
          /\ backlog[i] \in ConnectionOver(R)
          /\ [backlog[i] EXCEPT !.client = Gone] \in ConnectionOver(R)
    BY <1>1, <2>0
  <2>2. Len(backlog) \in Nat /\ DOMAIN backlog = 1..Len(backlog)
    BY <1>1
  <2>3. backlog' \in [1..Len(backlog) -> ConnectionOver(R)]
    BY <1>6, <2>1, <2>2 DEF GiveUp
  <2>4. backlog' \in Seq(ConnectionOver(R))
    BY <2>2, <2>3
  <2> QED
    BY <1>1, <2>4 DEF BacklogTyped
<1>7. ASSUME NEW d \in scenario.daemons,
             \/ BindCheck(d) \/ BindSocket(d) \/ StartUp(d) \/ Serve(d)
             \/ ExitsWithError(d) \/ Killed(d)
      PROVE  BacklogTyped'
  BY <1>7, <1>2, <1>3, <1>4
     DEF BindCheck, BindSocket, StartUp, BindDone, Recover, Reconciled, Serve, Handle,
         DropConnection, WriteResponse, CanAccept, ExitsWithError, Killed, Ends,
         connectionVars
<1> QED
  BY <1>2, <1>5, <1>6, <1>7 DEF ApiNext, RemoveLeftOver, apiVars, connectionVars

\* ApiService::handle: a request is one call of the supervisor, or none.
LEMMA MethodStep ==
  ASSUME NEW r, RequestTyped(r), r.method # "silent", Method(r)
  PROVE  [Next]_vars
<1>1. ASSUME NEW spec \in Specs, SubmitMethod(spec) PROVE [Next]_vars
  BY <1>1 DEF SubmitMethod, AnswerOnly, Next, Lifecycle
<1>2. ASSUME NEW t \in TaskIds,
             \/ GetTask(t) \/ CancelMethod(t)
             \/ TransitionMethod(t, "Running", Start(t))
             \/ TransitionMethod(t, "Succeeded", Succeed(t))
             \/ TransitionMethod(t, "Failed", Fail(t))
      PROVE  [Next]_vars
  BY <1>2 DEF GetTask, CancelMethod, TransitionMethod, AnswerOnly, Next, Lifecycle
<1>3. ASSUME NEW t, NEW after, NEW limit, EventsMethod(t, after, limit)
      PROVE  UNCHANGED vars
  BY <1>3 DEF EventsMethod, AnswerOnly
<1>4. CASE r.method = "other"
  BY <1>4 DEF Method, AnswerOnly
<1> QED
  BY <1>1, <1>2, <1>3, <1>4 DEF Method, RequestTyped, TaskMethod

\* What the daemon and its clients do is, for the supervisor, one of its steps or
\* none.
LEMMA ApiStep ==
  ASSUME BacklogTyped, [ApiNext]_apiVars
  PROVE  [Next]_vars
<1>1. PICK R : (\A r \in R : RequestTyped(r)) /\ backlog \in Seq(ConnectionOver(R))
  BY DEF BacklogTyped
<1>2. CASE UNCHANGED vars
  BY <1>2
<1>3. ASSUME NEW d \in scenario.daemons, Handle(d)
      PROVE  [Next]_vars
  <2>1. Head(backlog) \in ConnectionOver(R)
    BY <1>1, <1>3 DEF Handle, CanAccept
  <2>2. Head(backlog).request \in R
    BY <2>1 DEF ConnectionOver
  <2> QED
    BY <1>1, <1>3, <2>2, MethodStep DEF Handle
<1>4. ASSUME NEW d \in scenario.daemons,
             \/ Recover(d) \/ ExitsWithError(d) \/ Killed(d)
      PROVE  [Next]_vars
  BY <1>4 DEF Recover, ExitsWithError, Killed, Ends, Next, Restart
<1>5. ASSUME NEW d \in scenario.daemons,
             \/ BindCheck(d) \/ BindSocket(d) \/ BindDone(d) \/ Reconciled(d)
             \/ DropConnection(d) \/ WriteResponse(d)
      PROVE  UNCHANGED vars
  BY <1>5 DEF BindCheck, BindSocket, BindDone, Reconciled, DropConnection, WriteResponse
<1> QED
  BY <1>2, <1>3, <1>4, <1>5, ClientSteps
     DEF ApiNext, StartUp, Serve, RemoveLeftOver, apiVars

\* The daemon implements the supervisor: whatever the clients send, give up and
\* repeat, and however daemons start and die, the supervisor behind the socket
\* only takes steps of its own specification, so that every theorem about it
\* holds of the daemon.
THEOREM ServiceRefines == ApiSpec => Spec
<1>1. ApiInit => Init /\ BacklogTyped
  <2>1. ASSUME ApiInit PROVE backlog \in Seq(ConnectionOver({}))
    BY <2>1, EmptySeq DEF ApiInit
  <2> QED
    BY <2>1 DEF ApiInit, BacklogTyped
<1> QED
  BY <1>1, BacklogNext, ApiStep, PTL DEF ApiSpec, Spec

=============================================================================
