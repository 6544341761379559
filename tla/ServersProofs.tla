---------------------------- MODULE ServersProofs ----------------------------
(***************************************************************************)
(* What Servers says of std::terminate, for any number of starts.  The     *)
(* property is not inductive: what decides is how the flag of the owner    *)
(* and the place of the thread can be out of step while the owner is free. *)
(***************************************************************************)
EXTENDS Servers, TLAPS

\* Each server has its own places, and only Stratum has clients.
Places ==
    /\ kind \in {"rpc", "stratum"}
    /\ owner \in {"free", "joining", "destroying", "gone", "aborted"}
    /\ running \in BOOLEAN /\ refused \in BOOLEAN
    /\ kind = "rpc" => thread \in {"none", "setup", "serve", "ended"} /\ peer = "none"
    /\ kind = "stratum" => thread \in {"none", "setup", "loop", "accept", "read", "ended"}

\* A flag that is set has a thread.  A thread without the flag is one that is being
\* stopped, or a Stratum server whose set-up failed.
FlagHasThread ==
    /\ running => Joinable
    /\ owner = "free" /\ ~running /\ Joinable => kind = "stratum" /\ refused
    /\ Stopping => Joinable /\ ~running

ServersInv == Places /\ FlagHasThread /\ AbortNeedsFailure

LEMMA ServersInitially == ServersInit => ServersInv
BY DEF ServersInit, ServersInv, Places, FlagHasThread, AbortNeedsFailure, Stopping, Joinable

\* The steps of the owner.
LEMMA OwnerSteps ==
    ASSUME ServersInv, StartServer \/ Stop \/ Destroy \/ Join
    PROVE  ServersInv'
<1> USE DEF ServersInv, Places, FlagHasThread, AbortNeedsFailure,
            Stopping, Joinable
<1>1. CASE StartServer
  BY <1>1 DEF StartServer
<1>2. CASE Stop
  BY <1>2 DEF Stop, CallStop, Clear
<1>3. CASE Destroy
  BY <1>3 DEF Destroy, CallStop, Clear
<1>4. CASE Join
  BY <1>4 DEF Join
<1> QED
  BY <1>1, <1>2, <1>3, <1>4

\* The steps of the thread, and of whoever wakes it.
LEMMA ThreadSteps ==
    ASSUME ServersInv, owner # "aborted",
           SetUp \/ Loop \/ Accept \/ AcceptFails \/ Read \/ RunReturns \/ Connect \/ Talk
    PROVE  ServersInv'
<1> USE DEF ServersInv, Places, FlagHasThread, AbortNeedsFailure,
            Stopping, Joinable
<1>1. CASE SetUp
  <2>1. CASE thread' # "ended"
    BY <1>1, <2>1 DEF SetUp
  <2>2. CASE thread' = "ended"
    <3>1. /\ thread = "setup"
          /\ refused' = TRUE
          /\ UNCHANGED <<kind, owner, peer, starts>>
      BY <1>1, <2>2 DEF SetUp
    <3>2. /\ kind = "rpc" => running' = running
          /\ kind # "rpc" => running' = FALSE
      <4>1. running' = (running /\ kind = "rpc")
        BY <1>1, <2>2 DEF SetUp
      <4> QED
        BY <4>1, Zenon
    <3> QED
      <4>1. Places'
        BY <2>2, <3>1, <3>2
      <4>2. FlagHasThread'
        BY <2>2, <3>1, <3>2
      <4>3. AbortNeedsFailure'
        BY <2>2, <3>1, <3>2
      <4> QED
        BY <4>1, <4>2, <4>3
  <2> QED
    BY <2>1, <2>2
<1>2. CASE Loop
  BY <1>2 DEF Loop
<1>3. CASE Accept
  BY <1>3 DEF Accept
<1>4. CASE AcceptFails
  BY <1>4 DEF AcceptFails
<1>5. CASE Read
  BY <1>5 DEF Read
<1>6. CASE RunReturns
  BY <1>6 DEF RunReturns
<1>7. CASE Connect
  BY <1>7 DEF Connect
<1>8. CASE Talk
  BY <1>8 DEF Talk
<1> QED
  BY <1>1, <1>2, <1>3, <1>4, <1>5, <1>6, <1>7, <1>8

LEMMA ServersStep == ServersInv /\ [ServersNext]_serversVars => ServersInv'
<1>1. ASSUME ServersInv, ServersNext
      PROVE  ServersInv'
  BY <1>1, OwnerSteps, ThreadSteps DEF ServersNext
<1>2. ASSUME ServersInv, UNCHANGED serversVars
      PROVE  ServersInv'
  BY <1>2 DEF serversVars, ServersInv, Places, FlagHasThread, AbortNeedsFailure, Stopping, Joinable
<1> QED
  BY <1>1, <1>2

LEMMA ServersInvariant == ServersSpec => []ServersInv
BY ServersInitially, ServersStep, PTL DEF ServersSpec

\* start, stop and the destructors in any order end the process only after a failed
\* set-up of Stratum, or with an RpcServer that was never stopped.
THEOREM AbortTakesFailure == ServersSpec => []AbortNeedsFailure
<1>1. ServersInv => AbortNeedsFailure
  BY DEF ServersInv
<1> QED
  BY <1>1, ServersInvariant, PTL

=============================================================================
