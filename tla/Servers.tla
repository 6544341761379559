------------------------------- MODULE Servers -------------------------------
(***************************************************************************)
(* How the two servers start and stop: RpcServer of rpc/server.cpp, built  *)
(* with RESTinio, and StratumServer of mining/stratum.cpp.  Each is a      *)
(* thread and an atomic flag running_.  One program, with one thread of    *)
(* its own, owns the server, calls start and stop in any order and         *)
(* destroys it at last; a std::thread that is assigned to or destroyed     *)
(* before it was joined ends the process (std::terminate).                 *)
(*                                                                         *)
(* restinio::run serves until the library itself ends it; what the flag    *)
(* says is nothing to it.  The Stratum thread looks at the flag between    *)
(* two clients, of which it serves one at a time.                          *)
(***************************************************************************)
EXTENDS Naturals

CONSTANTS
    MaxStarts                   \* bound on the calls of start

ASSUME ServersConstants == MaxStarts \in Nat

VARIABLES
    kind,                       \* "rpc" or "stratum"
    owner,                      \* "free", "joining", "destroying", "gone" or "aborted"
    running,                    \* running_
    thread,                     \* "none", "setup", "loop", "accept", "read", "serve" or "ended"
    peer,                       \* "none", "silent" or "done": the next client
    starts,                     \* threads started so far
    refused                     \* history: a setup has failed

serversVars == <<kind, owner, running, thread, peer, starts, refused>>

Joinable == thread # "none"

ServersInit ==
    /\ kind \in {"rpc", "stratum"}
    /\ owner = "free" /\ running = FALSE
    /\ thread = "none" /\ peer = "none"
    /\ starts = 0
    /\ refused = FALSE

-----------------------------------------------------------------------------
(* The owner.                                                              *)

\* While running_ is set, start does nothing (and one of the two says so).  A thread
\* that ended by itself was never joined: assigning a new one to it terminates.
StartServer ==
    /\ owner = "free" /\ ~running /\ starts < MaxStarts
    /\ starts' = starts + 1
    /\ running' = TRUE
    /\ IF Joinable THEN owner' = "aborted" /\ UNCHANGED thread
       ELSE thread' = "setup" /\ UNCHANGED owner
    /\ UNCHANGED <<kind, peer, refused>>

\* MUTANT of Clear: the flag is cleared when the thread has been joined.
ClearLater == UNCHANGED running

Clear == running' = FALSE

\* MUTANT of CallStop: nobody waits for the thread.
StopWithoutJoin(next) ==
    /\ owner' = (IF next = "joining" THEN "free" ELSE "gone")
    /\ Clear

\* The first half of stop; the caller then waits in join.
CallStop(next) ==
    /\ owner' = next
    /\ Clear

Stop ==
    /\ owner = "free" /\ running
    /\ CallStop("joining")
    /\ UNCHANGED <<kind, thread, peer, starts, refused>>

\* ~StratumServer calls stop, RpcServer has no destructor.  A thread that is not
\* stopped is destroyed.
Destroy ==
    /\ owner = "free"
    /\ IF kind = "stratum" /\ running THEN CallStop("destroying")
       ELSE owner' = (IF Joinable THEN "aborted" ELSE "gone") /\ UNCHANGED running
    /\ UNCHANGED <<kind, thread, peer, starts, refused>>

Join ==
    /\ owner \in {"joining", "destroying"} /\ thread = "ended"
    /\ thread' = "none"
    /\ owner' = (IF owner = "joining" THEN "free" ELSE "gone")
    /\ UNCHANGED <<kind, running, peer, starts, refused>>

-----------------------------------------------------------------------------
(* The thread.                                                             *)

\* socket, bind and listen, or what restinio::run does at first.
SetUp ==
    /\ thread = "setup"
    /\ \/ /\ thread' = (IF kind = "rpc" THEN "serve" ELSE "loop")
          /\ UNCHANGED <<running, refused>>
       \/ /\ thread' = "ended"
          /\ running' = (running /\ kind = "rpc")
          /\ refused' = TRUE
    /\ UNCHANGED <<kind, owner, peer, starts>>

\* while (running_.load())
Loop ==
    /\ thread = "loop"
    /\ IF running THEN thread' = "accept" /\ UNCHANGED peer
       ELSE thread' = "ended" /\ peer' = "none"
    /\ UNCHANGED <<kind, owner, running, starts, refused>>

Accept ==
    /\ thread = "accept" /\ peer # "none"
    /\ thread' = "read"
    /\ UNCHANGED <<kind, owner, running, peer, starts, refused>>

\* accept fails, and the loop goes on.
AcceptFails ==
    /\ thread = "accept"
    /\ thread' = "loop"
    /\ UNCHANGED <<kind, owner, running, peer, starts, refused>>

\* One read, one reply, whatever the client sent.
Read ==
    /\ thread = "read" /\ peer = "done"
    /\ thread' = "loop" /\ peer' = "none"
    /\ UNCHANGED <<kind, owner, running, starts, refused>>

\* restinio::run returns, for a reason of its own.
RunReturns ==
    /\ thread = "serve"
    /\ thread' = "ended"
    /\ UNCHANGED <<kind, owner, running, peer, starts, refused>>

-----------------------------------------------------------------------------
(* Clients of the Stratum port.                                            *)

Connect ==
    /\ kind = "stratum" /\ thread \in {"loop", "accept"} /\ peer = "none"
    /\ peer' = "silent"
    /\ UNCHANGED <<kind, owner, running, thread, starts, refused>>

\* It sends something, or closes the connection.
Talk ==
    /\ peer = "silent"
    /\ peer' = "done"
    /\ UNCHANGED <<kind, owner, running, thread, starts, refused>>

ServersNext ==
    /\ owner # "aborted"
    /\ \/ StartServer \/ Stop \/ Destroy \/ Join
       \/ SetUp \/ Loop \/ Accept \/ AcceptFails \/ Read \/ RunReturns
       \/ Connect \/ Talk

ServersSpec == ServersInit /\ [][ServersNext]_serversVars

\* The threads run.  Clients, the library and the owner do as they like.
ServersFairness ==
    /\ WF_serversVars(owner # "aborted" /\ Join)
    /\ WF_serversVars(owner # "aborted" /\ SetUp)
    /\ WF_serversVars(owner # "aborted" /\ (Loop \/ Accept \/ Read))

-----------------------------------------------------------------------------
(* Properties.                                                             *)

Stopping == owner \in {"joining", "destroying"}

\* stop reaches no thread that waits in accept, in read or in restinio::run.
\* StratumServer::stop returns as long as clients keep coming, each of which sends
\* something or closes: the thread looks at the flag after each.  RpcServer::stop
\* returns if the library ends its run, for whatever reason it has.
StopReturns ==
    /\ []<>(peer # "none") /\ []<>(peer # "silent") =>
           ((kind = "stratum" /\ Stopping) ~> ~Stopping)
    /\ []<>(thread # "serve") =>
           ((kind = "rpc" /\ Stopping) ~> ~Stopping)

\* The process is terminated only when a Stratum server is started again or
\* destroyed after its setup failed (the thread clears running_, so no stop joins
\* it), or when an RpcServer is destroyed that was never stopped.
AbortNeedsFailure ==
    owner = "aborted" => IF kind = "stratum" THEN refused ELSE running

=============================================================================
