---------------------------- MODULE CcInterface -----------------------------
(***************************************************************************)
(* BbrInterface, through which the ABR thread of a server and the          *)
(* congestion controllers of its connections share their state, and the    *)
(* way they find it: GET_SINGLETON (cc/singleton.h) looks the pointer up   *)
(* in a file of /tmp named after the process (cc/singleton.cc).  Every use *)
(* of it is made by the main thread of the server; deliveryRates is        *)
(* written by the main thread and taken by the ABR thread, under           *)
(* delivery_rates_mutex_.                                                  *)
(*                                                                         *)
(* Several servers may run on a machine, one per process.  A pointer is    *)
(* the start of the process that made it and a number: it means nothing to *)
(* another process.  A server that exits leaves its file behind, and the   *)
(* system may give its process identifier to a later server.               *)
(***************************************************************************)
EXTENDS Integers, Sequences, FiniteSets

CONSTANTS
  Pids,            \* process identifiers
  MaxStarts,       \* bound on the starts of servers
  MaxConnections,  \* bound on the connections of a server
  MaxRates         \* bound on the delivery rates a server measures

ASSUME CcAssumption ==
  MaxStarts \in Nat /\ MaxConnections \in Nat /\ MaxRates \in Nat

None == <<0, 0>>
Pointer == {None} \cup ((1 .. MaxStarts) \X (1 .. MaxConnections + 1))
Rate == 1 .. MaxRates

VARIABLES
  tmp,         \* the file of every process: a pointer, None if there is no file
  start,       \* running servers: the number of their start; 0 for the others
  starts,      \* starts so far
  abr,         \* the pointer of the ABR
  connections, \* the pointers of the controllers created, in this order
  open,        \* the connections that are open
  mutex,       \* interface: the thread that holds delivery_rates_mutex_
  rates,       \* interface: deliveryRates
  updating,    \* main thread: the connection in UpdateBandwidthAndMinRtt, or 0
  popping,     \* ABR thread: is it between the copy and the reset?
  out,         \* ABR thread: the copy, while it is popping
  popped,      \* history: the rates the ABR has taken
  measured     \* history: the number of rates measured

users == <<abr, connections, open>>
locking == <<mutex, updating, popping>>
files == <<tmp, start, starts>>
vars == <<files, users, locking, rates, out, popped, measured>>

\* The type invariant.
TypeOK ==
  /\ tmp \in [Pids -> Pointer]
  /\ start \in [Pids -> 0 .. MaxStarts]
  /\ starts \in 0 .. MaxStarts
  /\ abr \in [Pids -> Pointer]
  /\ connections \in [Pids -> Seq(Pointer)]
  /\ \A p \in Pids : Len(connections[p]) <= MaxConnections
  /\ open \in [Pids -> SUBSET (1 .. MaxConnections)]
  /\ mutex \in [Pids -> {"free", "main", "abr"}]
  /\ updating \in [Pids -> 0 .. MaxConnections]
  /\ popping \in [Pids -> BOOLEAN]
  /\ rates \in [Pids -> Seq(Rate)]
  /\ out \in [Pids -> Seq(Rate)]
  /\ popped \in [Pids -> Seq(Rate)]
  /\ measured \in [Pids -> 0 .. MaxRates]

Init ==
  /\ tmp = [p \in Pids |-> None]
  /\ start = [p \in Pids |-> 0] /\ starts = 0
  /\ abr = [p \in Pids |-> None]
  /\ connections = [p \in Pids |-> <<>>]
  /\ open = [p \in Pids |-> {}]
  /\ mutex = [p \in Pids |-> "free"]
  /\ updating = [p \in Pids |-> 0]
  /\ popping = [p \in Pids |-> FALSE]
  /\ rates = [p \in Pids |-> <<>>]
  /\ out = [p \in Pids |-> <<>>]
  /\ popped = [p \in Pids |-> <<>>]
  /\ measured = [p \in Pids |-> 0]

\* The pointer of the ABR is one that this server made.
Own(p) == abr[p] # None /\ abr[p][1] = start[p]

-----------------------------------------------------------------------------
(* GET_SINGLETON makes an instance at every use and keeps the first.       *)

NewInstance(p) ==
  <<start[p], Len(connections[p]) + (IF abr[p] = None THEN 1 ELSE 2)>>

\* Mutant: takes the new instance.
GetInstanceNew(p) == NewInstance(p)

GetInstance(p) == IF tmp[p] # None THEN tmp[p] ELSE NewInstance(p)

WriteFile(p) == tmp' = [tmp EXCEPT ![p] = GetInstance(p)]

-----------------------------------------------------------------------------
(* The servers.                                                            *)

Start(p) ==
  /\ start[p] = 0 /\ starts < MaxStarts
  /\ starts' = starts + 1
  /\ start' = [start EXCEPT ![p] = starts + 1]
  /\ UNCHANGED <<tmp, users, locking, rates, out, popped, measured>>

\* The server exits or is killed: its memory is gone, the file is not.
Exit(p) ==
  /\ start[p] # 0
  /\ start' = [start EXCEPT ![p] = 0]
  /\ abr' = [abr EXCEPT ![p] = None]
  /\ connections' = [connections EXCEPT ![p] = <<>>]
  /\ open' = [open EXCEPT ![p] = {}]
  /\ mutex' = [mutex EXCEPT ![p] = "free"]
  /\ updating' = [updating EXCEPT ![p] = 0]
  /\ popping' = [popping EXCEPT ![p] = FALSE]
  /\ rates' = [rates EXCEPT ![p] = <<>>]
  /\ out' = [out EXCEPT ![p] = <<>>]
  /\ popped' = [popped EXCEPT ![p] = <<>>]
  /\ measured' = [measured EXCEPT ![p] = 0]
  /\ UNCHANGED <<tmp, starts>>

\* The ABR is created with the backend, before the first connection.
CreateAbr(p) ==
  /\ start[p] # 0 /\ abr[p] = None
  /\ WriteFile(p)
  /\ abr' = [abr EXCEPT ![p] = GetInstance(p)]
  /\ UNCHANGED <<start, starts, connections, open, locking, rates, out, popped, measured>>

CreateConnection(p) ==
  /\ abr[p] # None /\ updating[p] = 0 /\ Len(connections[p]) < MaxConnections
  /\ WriteFile(p)
  /\ connections' = [connections EXCEPT ![p] = Append(@, GetInstance(p))]
  /\ open' = [open EXCEPT ![p] = @ \cup {Len(connections[p]) + 1}]
  /\ UNCHANGED <<start, starts, abr, locking, rates, out, popped, measured>>

\* The controller of a closed connection hears of no more acknowledgements.
CloseConnection(p, c) ==
  /\ c \in open[p] /\ updating[p] = 0
  /\ open' = [open EXCEPT ![p] = @ \ {c}]
  /\ UNCHANGED <<files, abr, connections, locking, rates, out, popped, measured>>

-----------------------------------------------------------------------------
(* The delivery rates, through an interface the server made itself.        *)

\* Mutant: there is no mutex.
AcquireNot(p, thread) == UNCHANGED mutex

\* QuicWriterMutexLock, its constructor and its destructor.
Acquire(p, thread) == mutex[p] = "free" /\ mutex' = [mutex EXCEPT ![p] = thread]

Release(p) == mutex' = [mutex EXCEPT ![p] = "free"]

UpdateBandwidthAndMinRtt(p, c) ==
  /\ Own(p) /\ c \in open[p] /\ updating[p] = 0
  /\ Acquire(p, "main")
  /\ updating' = [updating EXCEPT ![p] = c]
  /\ UNCHANGED <<files, users, popping, rates, out, popped, measured>>

\* One packet of the acknowledgement; the rate goes to the interface of the controller.
RegisterRate(p) ==
  /\ updating[p] # 0 /\ measured[p] < MaxRates
  /\ measured' = [measured EXCEPT ![p] = @ + 1]
  /\ rates' = [rates EXCEPT ![p] =
       IF connections[p][updating[p]] = abr[p] THEN Append(@, measured[p] + 1) ELSE @]
  /\ UNCHANGED <<files, users, locking, out, popped>>

UpdateReturns(p) ==
  /\ updating[p] # 0
  /\ Release(p)
  /\ updating' = [updating EXCEPT ![p] = 0]
  /\ UNCHANGED <<files, users, popping, rates, out, popped, measured>>

\* The ABR thread copies what was registered...
popDeliveryRates(p) ==
  /\ Own(p) /\ ~ popping[p]
  /\ Acquire(p, "abr")
  /\ popping' = [popping EXCEPT ![p] = TRUE]
  /\ out' = [out EXCEPT ![p] = rates[p]]
  /\ UNCHANGED <<files, users, updating, rates, popped, measured>>

\* ...and empties it, still under the mutex.
PopReturns(p) ==
  /\ popping[p]
  /\ rates' = [rates EXCEPT ![p] = <<>>]
  /\ popped' = [popped EXCEPT ![p] = @ \o out[p]]
  /\ out' = [out EXCEPT ![p] = <<>>]
  /\ popping' = [popping EXCEPT ![p] = FALSE]
  /\ Release(p)
  /\ UNCHANGED <<files, users, updating, measured>>

\* Undefined behaviour: a server that uses the pointer of an earlier process reads and
\* writes memory that means something else.  It crashes, which is Exit, or the ABR
\* takes what it finds there.
UseForeign(p) ==
  /\ abr[p] # None /\ ~ Own(p)
  /\ \E found \in {<<>>} \cup {<<r>> : r \in Rate} :
       popped' = [popped EXCEPT ![p] = found]
  /\ UNCHANGED <<files, users, locking, rates, out, measured>>

Next ==
  \E p \in Pids :
    \/ Start(p) \/ Exit(p) \/ CreateAbr(p) \/ CreateConnection(p)
    \/ RegisterRate(p) \/ UpdateReturns(p) \/ popDeliveryRates(p) \/ PopReturns(p)
    \/ UseForeign(p)
    \/ \E c \in 1 .. MaxConnections :
         CloseConnection(p, c) \/ UpdateBandwidthAndMinRtt(p, c)

Spec == Init /\ [][Next]_vars

-----------------------------------------------------------------------------
(* What should hold.                                                       *)

Users(p) == {abr[p]} \cup {connections[p][c] : c \in DOMAIN connections[p]}

\* "Per-process and per-class singleton" (cc/singleton.h:16): the interface the ABR and
\* the controllers of a server use is one, and it is one of this process.
OneInstance ==
  \A p \in Pids : abr[p] # None =>
    /\ Cardinality(Users(p)) = 1
    /\ abr[p][1] = start[p]

\* What GetInstance guarantees also with a file that was left behind: the ABR and all
\* controllers of a server meet at one pointer, and two servers that run at the same
\* time never hold the same one.
UsersMeet ==
  \A p \in Pids : abr[p] # None =>
    /\ Cardinality(Users(p)) = 1
    /\ \A q \in Pids \ {p} : Users(p) \cap Users(q) \subseteq {None}

\* The ABR of a server that uses an interface of its own takes every delivery rate the
\* server measured once and in order, whatever the connection, however
\* popDeliveryRates and UpdateBandwidthAndMinRtt interleave.
RatesOnce ==
  \A p \in Pids : Own(p) => popped[p] \o rates[p] = [n \in 1 .. measured[p] |-> n]
=============================================================================
