-------------------------- MODULE CcInterfaceProofs -------------------------
(***************************************************************************)
(* Proofs about the interface between ABR and congestion controllers, for  *)
(* any number of servers, connections and delivery rates, with process     *)
(* identifiers that are given again.                                       *)
(***************************************************************************)
EXTENDS CcInterface, FiniteSetTheorems, SequenceTheorems, TLAPS

\* The users of the interface came to it in this order, each through the file.
SharedInv ==
  \A p \in Pids :
    /\ start[p] = 0 => abr[p] = None
    /\ abr[p] = None => /\ connections[p] = <<>> /\ measured[p] = 0
                        /\ rates[p] = <<>> /\ popped[p] = <<>>
    /\ abr[p] # None => /\ tmp[p] = abr[p]
                        /\ \A c \in DOMAIN connections[p] : connections[p][c] = abr[p]

OpenInv == \A p \in Pids : open[p] \subseteq 1 .. Len(connections[p])

\* A thread inside its critical section holds the mutex; what the ABR thread copied
\* is still all there is.
LockInv ==
  \A p \in Pids :
    /\ popping[p] => Own(p) /\ mutex[p] = "abr" /\ out[p] = rates[p]
    /\ updating[p] # 0 => Own(p) /\ mutex[p] = "main" /\ updating[p] \in open[p]

\* The start a pointer comes from is a start of the process whose file holds it.
ApartInv ==
  \A p \in Pids :
    /\ start[p] <= starts /\ tmp[p][1] <= starts
    /\ \A q \in Pids \ {p} :
         /\ start[p] # 0 => start[p] # start[q] /\ start[p] # tmp[q][1]
         /\ tmp[p][1] # 0 => tmp[p][1] # tmp[q][1]

\* The first n rates.
FirstRates(n) == [k \in 1 .. n |-> k]

CcInv == TypeOK /\ SharedInv /\ OpenInv /\ LockInv /\ ApartInv /\ RatesOnce
-----------------------------------------------------------------------------

\* The file leads to a pointer, and keeps the one it has.
LEMMA InstanceIsPointer ==
  ASSUME TypeOK, SharedInv, NEW p \in Pids, start[p] # 0, Len(connections[p]) < MaxConnections
                                                          \/ abr[p] = None
  PROVE  GetInstance(p) \in Pointer \ {None}
<1> USE CcAssumption
<1>1. start[p] \in 1 .. MaxStarts /\ tmp[p] \in Pointer
  BY DEF TypeOK
<1>2. Len(connections[p]) \in Nat
  BY DEF TypeOK
<1>3. abr[p] = None => Len(connections[p]) = 0
  BY DEF SharedInv
<1>4. NewInstance(p) \in (1 .. MaxStarts) \X (1 .. MaxConnections + 1)
  <2>1. CASE abr[p] = None
    <3>1. NewInstance(p) = <<start[p], 1>>
      BY <1>3, <2>1 DEF NewInstance
    <3> QED
      BY <1>1, <3>1
  <2>2. CASE abr[p] # None
    <3>1. NewInstance(p) = <<start[p], Len(connections[p]) + 2>>
      BY <2>2 DEF NewInstance
    <3>2. Len(connections[p]) + 2 \in 1 .. MaxConnections + 1
      BY <1>2, <2>2
    <3> QED
      BY <1>1, <3>1, <3>2
  <2> QED
    BY <2>1, <2>2
<1>5. NewInstance(p) # None
  BY <1>1 DEF NewInstance, None
<1> QED
  BY <1>1, <1>4, <1>5 DEF GetInstance, Pointer

\* Appending the next rate continues the numbering.
LEMMA NextRate ==
  ASSUME NEW s \in Seq(Rate), NEW t \in Seq(Rate), NEW n \in Nat, n < MaxRates,
         s \o t = FirstRates(n)
  PROVE  s \o Append(t, n + 1) = FirstRates(n + 1)
<1> DEFINE u == s \o t
           v == Append(t, n + 1)
           w == s \o v
<1>1. n + 1 \in Rate /\ Len(s) \in Nat /\ Len(t) \in Nat
  BY CcAssumption DEF Rate
<1>2. /\ u \in Seq(Rate) /\ Len(u) = Len(s) + Len(t)
      /\ \A k \in 1 .. Len(s) + Len(t) : u[k] = IF k <= Len(s) THEN s[k] ELSE t[k - Len(s)]
  BY ConcatProperties
<1>3. /\ v \in Seq(Rate) /\ Len(v) = Len(t) + 1
      /\ \A k \in 1 .. Len(t) : v[k] = t[k]
      /\ v[Len(t) + 1] = n + 1
  BY <1>1, AppendProperties
<1>4. /\ w \in Seq(Rate) /\ Len(w) = Len(s) + Len(v)
      /\ \A k \in 1 .. Len(s) + Len(v) : w[k] = IF k <= Len(s) THEN s[k] ELSE v[k - Len(s)]
  BY <1>3, ConcatProperties
<1> HIDE DEF v, w
<1>5. Len(u) = n /\ \A k \in 1 .. n : u[k] = k
  <2>1. DOMAIN u = 1 .. n /\ DOMAIN u = 1 .. Len(u) /\ Len(u) \in Nat
    BY <1>2 DEF FirstRates
  <2> QED
    BY <2>1 DEF FirstRates
<1> HIDE DEF u
<1>6. \A k \in 1 .. n + 1 : w[k] = k
  <2> TAKE k \in 1 .. n + 1
  <2>1. CASE k \in 1 .. n
    <3>1. u[k] = k /\ k \in 1 .. Len(s) + Len(t) /\ k \in 1 .. Len(s) + Len(v)
      BY <1>1, <1>2, <1>3, <1>5, <2>1
    <3>2. CASE k <= Len(s)
      BY <1>2, <1>4, <3>1, <3>2
    <3>3. CASE ~ (k <= Len(s))
      <4>1. k - Len(s) \in 1 .. Len(t)
        BY <1>1, <3>1, <3>3
      <4> QED
        BY <1>2, <1>3, <1>4, <3>1, <3>3, <4>1
    <3> QED
      BY <3>2, <3>3
  <2>2. CASE k = n + 1
    BY <1>1, <1>2, <1>3, <1>4, <1>5, <2>2
  <2> QED
    BY <2>1, <2>2
<1>7. w = [k \in 1 .. n + 1 |-> w[k]]
  BY <1>1, <1>2, <1>3, <1>4, <1>5
<1>8. w = [k \in 1 .. n + 1 |-> k]
  BY <1>6, <1>7
<1> QED
  BY <1>8 DEF v, w, FirstRates

\* The number of the start in a pointer.
LEMMA PointerStart ==
  ASSUME NEW x \in Pointer
  PROVE  x[1] \in 0 .. MaxStarts /\ (x # None => x[1] # 0)
BY CcAssumption DEF Pointer, None

LEMMA StartStep ==
  ASSUME CcInv, NEW p \in Pids, Start(p)
  PROVE  CcInv'
<1> USE CcAssumption
<1>1. UNCHANGED <<tmp, users, locking, rates, out, popped, measured>>
  BY DEF Start
<1>2. /\ starts \in Nat /\ starts + 1 \in 1 .. MaxStarts /\ start \in [Pids -> 0 .. MaxStarts]
      /\ starts' = starts + 1 /\ start' = [start EXCEPT ![p] = starts + 1]
      /\ start[p] = 0 /\ abr[p] = None
  BY DEF CcInv, TypeOK, SharedInv, Start
<1>3. TypeOK'
  BY <1>1, <1>2 DEF CcInv, TypeOK, users, locking
<1>4. SharedInv' /\ OpenInv'
  BY <1>1, <1>2 DEF CcInv, TypeOK, SharedInv, OpenInv, users, locking
<1>5. \A q \in Pids : Own(q)' <=> Own(q)
  BY <1>1, <1>2 DEF Own, users
<1>6. LockInv' /\ RatesOnce'
  BY <1>1, <1>5 DEF CcInv, LockInv, RatesOnce, users, locking
<1>7. ApartInv'
  <2>1. \A q \in Pids : tmp[q][1] \in 0 .. MaxStarts /\ tmp[q][1] <= starts
                        /\ start[q] <= starts /\ start[q] \in Nat
    BY PointerStart DEF CcInv, TypeOK, ApartInv
  <2>2. tmp' = tmp /\ start'[p] = starts + 1 /\ \A q \in Pids \ {p} : start'[q] = start[q]
    BY <1>1, <1>2
  <2> QED
    BY <1>2, <2>1, <2>2 DEF CcInv, ApartInv
<1> QED
  BY <1>3, <1>4, <1>6, <1>7 DEF CcInv

LEMMA ExitStep ==
  ASSUME CcInv, NEW p \in Pids, Exit(p)
  PROVE  CcInv'
<1> USE CcAssumption DEF CcInv, Exit
<1>1. TypeOK'
  BY DEF TypeOK, Pointer
<1>2. SharedInv'
  BY DEF TypeOK, SharedInv
<1>3. OpenInv'
  BY DEF TypeOK, OpenInv
<1>4. ASSUME NEW q \in Pids \ {p} PROVE Own(q)' <=> Own(q)
  BY <1>4 DEF TypeOK, Own
<1>5. LockInv'
  BY <1>4 DEF TypeOK, LockInv
<1>6. ApartInv'
  <2>1. tmp' = tmp /\ starts' = starts /\ start'[p] = 0 /\ \A q \in Pids \ {p} : start'[q] = start[q]
    BY DEF TypeOK
  <2>2. starts \in Nat
    BY DEF TypeOK
  <2> QED
    BY <2>1, <2>2 DEF ApartInv
<1>7. RatesOnce'
  <2>1. ~ Own(p)'
    BY DEF TypeOK, Own
  <2> QED
    BY <1>4, <2>1 DEF TypeOK, RatesOnce
<1> QED
  BY <1>1, <1>2, <1>3, <1>5, <1>6, <1>7

\* A pointer that a server finds or makes keeps the files of different processes apart.
LEMMA WriteFileApart ==
  ASSUME TypeOK, ApartInv, NEW p \in Pids, start[p] # 0, WriteFile(p), UNCHANGED <<start, starts>>
  PROVE  ApartInv'
<1> USE CcAssumption
<1>1. GetInstance(p) = tmp[p] \/ GetInstance(p)[1] = start[p]
  BY DEF GetInstance, NewInstance
<1>2. tmp'[p] = GetInstance(p) /\ \A q \in Pids \ {p} : tmp'[q] = tmp[q]
  BY DEF WriteFile, TypeOK
<1>3. starts \in Nat /\ \A q \in Pids : start[q] \in Nat /\ tmp[q][1] \in Nat
  BY PointerStart DEF TypeOK
<1>4. CASE tmp'[p] = tmp[p]
  BY <1>2, <1>4 DEF ApartInv
<1>5. CASE tmp'[p][1] = start[p]
  BY <1>2, <1>3, <1>5 DEF ApartInv
<1> QED
  BY <1>1, <1>2, <1>4, <1>5

LEMMA CreateAbrStep ==
  ASSUME CcInv, NEW p \in Pids, CreateAbr(p)
  PROVE  CcInv'
<1> USE CcAssumption
<1>1. GetInstance(p) \in Pointer \ {None}
  BY InstanceIsPointer DEF CcInv, CreateAbr
<1>2. TypeOK' /\ OpenInv'
  BY <1>1 DEF CcInv, CreateAbr, WriteFile, TypeOK, OpenInv, locking
<1>3. SharedInv'
  BY <1>1 DEF CcInv, CreateAbr, WriteFile, TypeOK, SharedInv
<1>4. \A q \in Pids \ {p} : Own(q)' <=> Own(q)
  BY DEF CcInv, CreateAbr, TypeOK, Own
<1>5. LockInv'
  <2>1. ~ Own(p)
    BY DEF CreateAbr, Own
  <2> QED
    BY <1>4, <2>1 DEF CcInv, CreateAbr, LockInv, locking
<1>6. ApartInv'
  BY WriteFileApart DEF CcInv, CreateAbr
<1>7. RatesOnce'
  <2>1. <<>> \o <<>> = [n \in 1 .. 0 |-> n]
    OBVIOUS
  <2>2. popped'[p] = <<>> /\ rates'[p] = <<>> /\ measured'[p] = 0
    BY DEF CcInv, SharedInv, CreateAbr
  <2> QED
    BY <1>4, <2>1, <2>2 DEF CcInv, CreateAbr, RatesOnce
<1> QED
  BY <1>2, <1>3, <1>5, <1>6, <1>7 DEF CcInv

LEMMA CreateConnectionStep ==
  ASSUME CcInv, NEW p \in Pids, CreateConnection(p)
  PROVE  CcInv'
<1> USE CcAssumption
<1>0. start[p] # 0 /\ abr[p] # None /\ Len(connections[p]) < MaxConnections
  BY DEF CcInv, CreateConnection, SharedInv
<1>2. GetInstance(p) = abr[p]
  BY <1>0 DEF CcInv, SharedInv, GetInstance
<1>3. connections' = [connections EXCEPT ![p] = Append(@, abr[p])] /\ tmp' = [tmp EXCEPT ![p] = abr[p]]
  BY <1>2 DEF CreateConnection, WriteFile
<1>4. /\ connections[p] \in Seq(Pointer) /\ abr[p] \in Pointer /\ Len(connections[p]) \in Nat
      /\ connections'[p] = Append(connections[p], abr[p])
      /\ \A q \in Pids \ {p} : connections'[q] = connections[q]
      /\ Len(connections'[p]) = Len(connections[p]) + 1
  BY <1>3 DEF CcInv, TypeOK
<1>5. TypeOK'
  BY <1>0, <1>3, <1>4 DEF CcInv, TypeOK, CreateConnection, locking
<1>6. SharedInv'
  BY <1>0, <1>3, <1>4 DEF CcInv, TypeOK, CreateConnection, SharedInv
<1>7. OpenInv'
  BY <1>4 DEF CcInv, TypeOK, CreateConnection, OpenInv
<1>8. \A q \in Pids : Own(q)' <=> Own(q)
  BY DEF CreateConnection, Own
<1>9. LockInv'
  <2>1. \A q \in Pids : open[q] \subseteq open'[q]
    BY DEF CcInv, TypeOK, CreateConnection
  <2> QED
    BY <1>8, <2>1 DEF CcInv, CreateConnection, LockInv, locking
<1>10. ApartInv'
  BY <1>0, WriteFileApart DEF CcInv, CreateConnection
<1>11. RatesOnce'
  BY <1>8 DEF CcInv, CreateConnection, RatesOnce
<1> QED
  BY <1>5, <1>6, <1>7, <1>9, <1>10, <1>11 DEF CcInv

\* Steps that leave the files and the users alone but for a connection closed.
LEMMA UsersKept ==
  ASSUME CcInv, UNCHANGED <<files, abr, connections>>
  PROVE  ApartInv' /\ \A q \in Pids : Own(q)' <=> Own(q)
BY DEF CcInv, ApartInv, Own, files

LEMMA CloseStep ==
  ASSUME CcInv, NEW p \in Pids, NEW c \in 1 .. MaxConnections, CloseConnection(p, c)
  PROVE  CcInv'
<1>1. ApartInv' /\ \A q \in Pids : Own(q)' <=> Own(q)
  BY UsersKept DEF CloseConnection
<1>2. TypeOK' /\ SharedInv' /\ OpenInv'
  BY DEF CcInv, CloseConnection, TypeOK, SharedInv, OpenInv, files, locking
<1>3. LockInv' /\ RatesOnce'
  BY <1>1 DEF CcInv, CloseConnection, TypeOK, LockInv, RatesOnce, locking
<1> QED
  BY <1>1, <1>2, <1>3 DEF CcInv

LEMMA UpdateStep ==
  ASSUME CcInv, NEW p \in Pids, NEW c \in 1 .. MaxConnections, UpdateBandwidthAndMinRtt(p, c)
  PROVE  CcInv'
<1> USE CcAssumption
<1>1. ApartInv' /\ \A q \in Pids : Own(q)' <=> Own(q)
  BY UsersKept DEF UpdateBandwidthAndMinRtt, users
<1>2. TypeOK' /\ SharedInv' /\ OpenInv'
  BY DEF CcInv, UpdateBandwidthAndMinRtt, Acquire, TypeOK, SharedInv, OpenInv, files, users
<1>3. LockInv' /\ RatesOnce'
  BY <1>1 DEF CcInv, UpdateBandwidthAndMinRtt, Acquire, TypeOK, LockInv, RatesOnce, users
<1> QED
  BY <1>1, <1>2, <1>3 DEF CcInv

LEMMA UpdateReturnsStep ==
  ASSUME CcInv, NEW p \in Pids, UpdateReturns(p)
  PROVE  CcInv'
<1> USE CcAssumption
<1>1. ApartInv' /\ \A q \in Pids : Own(q)' <=> Own(q)
  BY UsersKept DEF UpdateReturns, users
<1>2. TypeOK' /\ SharedInv' /\ OpenInv'
  BY DEF CcInv, UpdateReturns, Release, TypeOK, SharedInv, OpenInv, files, users
<1>3. LockInv' /\ RatesOnce'
  BY <1>1 DEF CcInv, UpdateReturns, Release, TypeOK, LockInv, RatesOnce, users
<1> QED
  BY <1>1, <1>2, <1>3 DEF CcInv

LEMMA RegisterStep ==
  ASSUME CcInv, NEW p \in Pids, RegisterRate(p)
  PROVE  CcInv'
<1> USE CcAssumption
<1>0. ApartInv' /\ \A q \in Pids : Own(q)' <=> Own(q)
  BY UsersKept DEF RegisterRate, users
<1>1. connections[p][updating[p]] = abr[p] /\ abr[p] # None /\ Own(p) /\ ~ popping[p]
  BY DEF CcInv, RegisterRate, SharedInv, OpenInv, LockInv, Own, TypeOK
<1>2. /\ rates' = [rates EXCEPT ![p] = Append(@, measured[p] + 1)]
      /\ measured' = [measured EXCEPT ![p] = @ + 1]
      /\ measured[p] \in Nat /\ measured[p] < MaxRates /\ measured[p] + 1 \in Rate
      /\ rates[p] \in Seq(Rate) /\ popped[p] \in Seq(Rate)
      /\ UNCHANGED <<tmp, start, starts, abr, connections, open, mutex, updating, popping, out, popped>>
  BY <1>1 DEF CcInv, RegisterRate, TypeOK, Rate, files, users, locking
<1>3. TypeOK'
  BY <1>2 DEF CcInv, TypeOK
<1>4. SharedInv' /\ OpenInv'
  BY <1>1, <1>2 DEF CcInv, TypeOK, SharedInv, OpenInv
<1>5. LockInv'
  BY <1>0, <1>1, <1>2 DEF CcInv, TypeOK, LockInv
<1>6. RatesOnce'
  <2>1. popped[p] \o rates[p] = FirstRates(measured[p])
    BY <1>1 DEF CcInv, RatesOnce, FirstRates
  <2>2. popped[p] \o Append(rates[p], measured[p] + 1) = FirstRates(measured[p] + 1)
    BY <1>2, <2>1, NextRate
  <2>3. ASSUME NEW q \in Pids, Own(q) PROVE popped'[q] \o rates'[q] = [n \in 1 .. measured'[q] |-> n]
    <3>1. CASE q = p
      BY <1>2, <2>2, <3>1 DEF CcInv, TypeOK, FirstRates
    <3>2. CASE q # p
      BY <1>2, <2>3, <3>2 DEF CcInv, TypeOK, RatesOnce
    <3> QED
      BY <3>1, <3>2
  <2> QED
    BY <1>0, <2>3 DEF RatesOnce
<1> QED
  BY <1>0, <1>3, <1>4, <1>5, <1>6 DEF CcInv

LEMMA PopStep ==
  ASSUME CcInv, NEW p \in Pids, popDeliveryRates(p)
  PROVE  CcInv'
<1>1. ApartInv' /\ \A q \in Pids : Own(q)' <=> Own(q)
  BY UsersKept DEF popDeliveryRates, users
<1>2. TypeOK'
  BY DEF CcInv, popDeliveryRates, Acquire, TypeOK, files, users
<1>3. SharedInv' /\ OpenInv' /\ RatesOnce'
  BY <1>1 DEF CcInv, popDeliveryRates, SharedInv, OpenInv, RatesOnce, files, users
<1>4. LockInv'
  BY <1>1 DEF CcInv, popDeliveryRates, Acquire, TypeOK, LockInv, users
<1> QED
  BY <1>1, <1>2, <1>3, <1>4 DEF CcInv

LEMMA PopReturnsStep ==
  ASSUME CcInv, NEW p \in Pids, PopReturns(p)
  PROVE  CcInv'
<1>0. ApartInv' /\ \A q \in Pids : Own(q)' <=> Own(q)
  BY UsersKept DEF PopReturns, users
<1>1. /\ popped' = [popped EXCEPT ![p] = @ \o rates[p]] /\ rates' = [rates EXCEPT ![p] = <<>>]
      /\ rates[p] \in Seq(Rate) /\ popped[p] \in Seq(Rate) /\ abr[p] # None
      /\ UNCHANGED <<tmp, start, starts, abr, connections, open, measured, updating>>
  BY DEF CcInv, TypeOK, PopReturns, LockInv, Own, files, users
<1>2. TypeOK'
  BY <1>1 DEF CcInv, TypeOK, PopReturns, Release
<1>3. SharedInv' /\ OpenInv'
  BY <1>1 DEF CcInv, TypeOK, SharedInv, OpenInv
<1>4. LockInv'
  BY <1>0, <1>1 DEF CcInv, TypeOK, LockInv, PopReturns, Release
<1>5. RatesOnce'
  <2>1. (popped[p] \o rates[p]) \o <<>> = popped[p] \o rates[p]
    BY <1>1
  <2>2. \A q \in Pids : popped'[q] \o rates'[q] = popped[q] \o rates[q]
    BY <1>1, <2>1 DEF CcInv, TypeOK
  <2> QED
    BY <1>0, <1>1, <2>2 DEF CcInv, RatesOnce
<1> QED
  BY <1>0, <1>2, <1>3, <1>4, <1>5 DEF CcInv

LEMMA UseForeignStep ==
  ASSUME CcInv, NEW p \in Pids, UseForeign(p)
  PROVE  CcInv'
<1>0. ApartInv' /\ \A q \in Pids : Own(q)' <=> Own(q)
  BY UsersKept DEF UseForeign, users
<1>1. PICK found \in Seq(Rate) : popped' = [popped EXCEPT ![p] = found]
  <2>1. <<>> \in Seq(Rate) /\ \A r \in Rate : <<r>> \in Seq(Rate)
    OBVIOUS
  <2>2. \A found \in {<<>>} \cup {<<r>> : r \in Rate} : found \in Seq(Rate)
    BY <2>1
  <2> QED
    BY <2>2 DEF UseForeign
<1>2. UNCHANGED <<tmp, start, starts, abr, connections, open, mutex, updating, popping, rates, out, measured>>
  BY DEF UseForeign, files, users, locking
<1>3. TypeOK'
  BY <1>1, <1>2 DEF CcInv, TypeOK
<1>4. \A q \in Pids \ {p} : popped'[q] = popped[q]
  BY <1>1 DEF CcInv, TypeOK
<1>5. SharedInv' /\ OpenInv' /\ LockInv' /\ RatesOnce'
  <2>1. abr[p] # None /\ ~ Own(p)
    BY DEF UseForeign
  <2>2. SharedInv' /\ OpenInv'
    BY <1>2, <1>4, <2>1 DEF CcInv, SharedInv, OpenInv
  <2>3. LockInv'
    BY <1>0, <1>2 DEF CcInv, LockInv
  <2>4. RatesOnce'
    BY <1>0, <1>2, <1>4, <2>1 DEF CcInv, RatesOnce
  <2> QED
    BY <2>2, <2>3, <2>4
<1> QED
  BY <1>0, <1>3, <1>5 DEF CcInv

LEMMA CcInvariant == Spec => []CcInv
<1>1. Init => CcInv
  <2> SUFFICES ASSUME Init PROVE CcInv
    OBVIOUS
  <2>1. TypeOK
    BY CcAssumption DEF Init, TypeOK, Pointer
  <2>2. SharedInv /\ OpenInv /\ LockInv
    BY DEF Init, SharedInv, OpenInv, LockInv
  <2>3. ApartInv
    BY DEF Init, ApartInv, None
  <2>4. RatesOnce
    BY DEF Init, RatesOnce, Own
  <2> QED
    BY <2>1, <2>2, <2>3, <2>4 DEF CcInv
<1>2. CcInv /\ [Next]_vars => CcInv'
  <2>1. ASSUME CcInv, Next PROVE CcInv'
    BY <2>1, StartStep, ExitStep, CreateAbrStep, CreateConnectionStep, CloseStep, UpdateStep,
       UpdateReturnsStep, RegisterStep, PopStep, PopReturnsStep, UseForeignStep DEF Next
  <2>2. ASSUME CcInv, UNCHANGED vars PROVE CcInv'
    <3>1. TypeOK' /\ SharedInv' /\ OpenInv'
      BY <2>2 DEF vars, files, users, locking, CcInv, TypeOK, SharedInv, OpenInv
    <3>2. ApartInv' /\ \A q \in Pids : Own(q)' <=> Own(q)
      BY <2>2, UsersKept DEF vars, users
    <3>3. LockInv' /\ RatesOnce'
      BY <2>2, <3>2 DEF vars, users, locking, CcInv, LockInv, RatesOnce
    <3> QED
      BY <3>1, <3>2, <3>3 DEF CcInv
  <2> QED
    BY <2>1, <2>2
<1> QED
  BY <1>1, <1>2, PTL DEF Spec

\* The members of the interface and of its users keep their types.
THEOREM InterfaceTypeCorrect == Spec => []TypeOK
BY CcInvariant, PTL DEF CcInv

\* Every delivery rate reaches the ABR of a server that uses an interface of its own once
\* and in order: the mutex keeps registering and the two halves of popDeliveryRates apart.
THEOREM RatesArriveOnce == Spec => []RatesOnce
BY CcInvariant, PTL DEF CcInv

\* The ABR and the controllers of a server meet at one interface that no other running
\* server holds, also when identifiers are given again (SingletonBuilder::GetInstance).
THEOREM UsersMeetAlways == Spec => []UsersMeet
<1>1. CcInv => UsersMeet
  <2> SUFFICES ASSUME CcInv, NEW p \in Pids, abr[p] # None
               PROVE  /\ Cardinality(Users(p)) = 1
                      /\ \A q \in Pids \ {p} : Users(p) \cap Users(q) \subseteq {None}
    BY DEF UsersMeet
  <2>1. \A q \in Pids : Users(q) = {abr[q]}
    <3> SUFFICES ASSUME NEW q \in Pids PROVE Users(q) = {abr[q]}
      OBVIOUS
    <3>1. CASE abr[q] = None
      BY <3>1 DEF Users, CcInv, SharedInv
    <3>2. CASE abr[q] # None
      BY <3>2 DEF Users, CcInv, SharedInv
    <3> QED
      BY <3>1, <3>2
  <2>2. Cardinality(Users(p)) = 1
    BY <2>1, FS_Singleton
  <2>3. ASSUME NEW q \in Pids \ {p} PROVE Users(p) \cap Users(q) \subseteq {None}
    <3>1. CASE abr[q] = None
      BY <2>1, <3>1
    <3>2. CASE abr[q] # None
      <4>1. tmp[p] = abr[p] /\ tmp[q] = abr[q] /\ tmp[p] \in Pointer
        BY <3>2 DEF CcInv, SharedInv, TypeOK
      <4>2. tmp[p][1] # 0
        BY <4>1, PointerStart
      <4>3. tmp[p][1] # tmp[q][1]
        BY <4>2 DEF CcInv, ApartInv
      <4> QED
        BY <2>1, <4>1, <4>3
    <3> QED
      BY <3>1, <3>2
  <2> QED
    BY <2>2, <2>3
<1> QED
  BY <1>1, CcInvariant, PTL
=============================================================================
