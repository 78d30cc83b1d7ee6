---------------------------- MODULE NadiRelayProofs ----------------------------
(* Theorems about NadiRelay, for every number of peers, users and faults and  *)
(* every ring buffer that holds a heartbeat: types, one pending copy, and     *)
(* that a green job has been heard by every peer.                             *)
EXTENDS NadiRelay, FunctionTheorems, FiniteSetTheorems, SequenceTheorems, TLAPS

-----------------------------------------------------------------------------
(* What nadi-kit's operators return. *)

\* A ring buffer holds the latest of what was put in, in order.
LEMMA RingKeeps ==
  ASSUME NEW q \in Seq(Message)
  PROVE  /\ IsQueue(Ring(q))
         /\ Len(Ring(q)) = IF Len(q) > Cap THEN Cap ELSE Len(q)
         /\ \A i \in 1..Len(Ring(q)) : Ring(q)[i] = q[i + (Len(q) - Len(Ring(q)))]
<1>1. Len(q) \in Nat /\ Cap \in Nat /\ \A i \in 1..Len(q) : q[i] \in Message
  BY LenProperties, ElementOfSeq, CapAssumption
<1>2. CASE Len(q) > Cap
  <2> DEFINE m == Len(q) - Cap + 1
             r == SubSeq(q, m, Len(q))
  <2>1. m \in Int /\ Len(q) \in Int /\ m \in 1..(Len(q) + 1) /\ Len(q) - m + 1 = Cap
    BY <1>1, <1>2
  <2>2. \A i \in m..Len(q) : q[i] \in Message
    BY <1>1, <2>1
  <2>3. /\ r \in Seq(Message)
        /\ Len(r) = IF m <= Len(q) THEN Len(q) - m + 1 ELSE 0
        /\ \A i \in 1..(Len(q) - m + 1) : r[i] = q[m + i - 1]
    BY <2>1, <2>2, SubSeqProperties
  <2>4. Len(r) = Cap
    BY <2>1, <2>3, <1>1
  <2>5. \A i \in 1..Cap : m + i - 1 = i + (Len(q) - Cap)
    BY <1>1
  <2>6. \A i \in 1..Cap : r[i] = q[i + (Len(q) - Cap)]
    BY <2>1, <2>3, <2>5
  <2>7. Ring(q) = r
    BY <1>2 DEF Ring
  <2> HIDE DEF r
  <2>8. IsQueue(r)
    BY <2>3, <2>4, <1>1 DEF IsQueue
  <2>9. \A i \in 1..Len(r) : r[i] = q[i + (Len(q) - Len(r))]
    BY <2>4, <2>6
  <2> QED
    BY <2>4, <2>7, <2>8, <2>9, <1>2
<1>3. CASE ~(Len(q) > Cap)
  BY <1>1, <1>3 DEF Ring, IsQueue
<1> QED
  BY <1>2, <1>3

LEMMA Overflow ==
  ASSUME NEW n \in Nat, NEW l, l = IF n > Cap THEN Cap ELSE n
  PROVE  n - l \in 0..n /\ l = n - (n - l) /\ (n - l # 0 => l = Cap)
BY CapAssumption

\* What is in an outbox after an emission, and where it was before.
LEMMA EmitKeeps ==
  ASSUME NEW q \in Seq(Message), NEW new \in Seq(Message)
  PROVE  /\ IsQueue(Emit(q, new))
         /\ \E d \in 0..(Len(q) + Len(new)) :
              /\ Len(Emit(q, new)) = Len(q) + Len(new) - d
              /\ d # 0 => Len(Emit(q, new)) = Cap
              /\ \A i \in 1..Len(Emit(q, new)) :
                   Emit(q, new)[i] = IF i + d <= Len(q) THEN q[i + d] ELSE new[(i + d) - Len(q)]
<1> DEFINE all == q \o new
<1>1. /\ all \in Seq(Message) /\ Len(all) = Len(q) + Len(new)
      /\ \A i \in 1..(Len(q) + Len(new)) :
           all[i] = IF i <= Len(q) THEN q[i] ELSE new[i - Len(q)]
  BY ConcatProperties
<1> HIDE DEF all
<1>2. Len(q) \in Nat /\ Len(new) \in Nat /\ Cap \in Nat
  BY LenProperties, CapAssumption
<1>3. Emit(q, new) = Ring(all)
  BY DEF Emit, all
<1>4. /\ IsQueue(Ring(all))
      /\ Len(Ring(all)) = IF Len(all) > Cap THEN Cap ELSE Len(all)
      /\ \A i \in 1..Len(Ring(all)) : Ring(all)[i] = all[i + (Len(all) - Len(Ring(all)))]
  BY <1>1, RingKeeps
<1> DEFINE d == Len(all) - Len(Ring(all))
<1>5. d \in 0..(Len(q) + Len(new)) /\ Len(Ring(all)) = Len(q) + Len(new) - d
      /\ (d # 0 => Len(Ring(all)) = Cap)
  <2>1. Len(all) \in Nat /\ Len(all) = Len(q) + Len(new)
    BY <1>1, <1>2
  <2> QED
    BY <1>4, <2>1, Overflow
<1>6. \A i \in 1..Len(Ring(all)) :
        Ring(all)[i] = IF i + d <= Len(q) THEN q[i + d] ELSE new[(i + d) - Len(q)]
  <2> SUFFICES ASSUME NEW i \in 1..Len(Ring(all))
               PROVE  Ring(all)[i] = IF i + d <= Len(q) THEN q[i + d] ELSE new[(i + d) - Len(q)]
    OBVIOUS
  <2>1. Ring(all)[i] = all[i + d]
    BY <1>4
  <2> HIDE DEF d
  <2>2. i + d \in 1..(Len(q) + Len(new))
    BY <1>2, <1>5
  <2>3. i \in Int /\ d \in Int /\ Len(q) \in Int
    BY <1>2, <1>5
  <2> DEFINE k == i + d
  <2>4. k \in 1..(Len(q) + Len(new))
    BY <2>2
  <2> HIDE DEF k
  <2>5. all[k] = IF k <= Len(q) THEN q[k] ELSE new[k - Len(q)]
    BY <1>1, <2>4
  <2> QED
    BY <2>1, <2>3, <2>5 DEF k
<1> HIDE DEF d
<1> QED
  BY <1>3, <1>4, <1>5, <1>6

\* A heartbeat is one message to each peer.
LEMMA HeartbeatForAll ==
  ASSUME NEW s \in Senders
  PROVE  /\ Heartbeat(s) \in Seq(Message)
         /\ Len(Heartbeat(s)) = Cardinality(Peers)
         /\ \A i \in 1..Cardinality(Peers) : Heartbeat(s)[i].from = s
         /\ \A p \in Peers : \E i \in 1..Cardinality(Peers) : Heartbeat(s)[i].to = p
<1> DEFINE n == Cardinality(Peers)
           peer == SetToSeq(Peers)
<1>1. n \in Nat /\ ExistsBijection(1..n, Peers)
  BY CapAssumption, FS_CardinalityType
<1>2. PICK f : f \in Bijection(1..n, Peers)
  BY <1>1, Fun_ExistsBij
<1>3. f \in [1..n -> Peers] /\ IsInjective(f)
  BY <1>2 DEF Bijection, Injection
<1>4. peer \in [1..n -> Peers] /\ IsInjective(peer)
  BY <1>3 DEF SetToSeq
<1>5. peer \in Injection(1..n, Peers)
  BY <1>4 DEF Injection
<1>6. Cardinality(1..n) = n
  BY <1>1, FS_Interval
<1>7. peer \in Surjection(1..n, Peers)
  BY <1>5, <1>6, FS_Injection, CapAssumption
<1>8. \A p \in Peers : \E i \in 1..n : peer[i] = p
  BY <1>7 DEF Surjection
<1>9. Heartbeat(s) = [i \in 1..n |-> [from |-> s, to |-> peer[i]]]
  BY <1>4 DEF Heartbeat
<1> HIDE DEF peer
<1>10. \A i \in 1..n : [from |-> s, to |-> peer[i]] \in Message
  BY <1>4 DEF Message
<1>11. Heartbeat(s) \in [1..n -> Message]
  BY <1>9, <1>10
<1>12. Heartbeat(s) \in Seq(Message) /\ Len(Heartbeat(s)) = n
  BY <1>1, <1>11
<1>13. \A i \in 1..n : Heartbeat(s)[i].from = s /\ Heartbeat(s)[i].to = peer[i]
  BY <1>9
<1> QED
  BY <1>8, <1>12, <1>13

-----------------------------------------------------------------------------
(* The inductive invariant, by the part of the state that it is about.        *)

\* A user who has nothing queued or to be re-read has no copy in the outbox.
Machine ==
  /\ IsQueue(outbox)
  /\ user \in [Users -> {"idle", "emitted", "queued"}]
  /\ OneCopyPending
  /\ \A u \in Users : user[u] = "idle" => \A i \in DOMAIN outbox : outbox[i].from # u

Process ==
  /\ daemon \in {"off", "beat", "status", "fallback", "push", "clear", "sleep", "dead"}
  /\ looping \in BOOLEAN /\ crashed \in BOOLEAN

\* A mailbox that the job's heartbeat has not reached does not show it.
Hub ==
  /\ files \subseteq Peers /\ heard \subseteq Peers
  /\ newer \in [Peers -> 0..Cap]
  /\ evicted \in BOOLEAN
  /\ \A p \in Peers \ heard : newer[p] = Cap

\* The job captures a heartbeat to every peer, its proof names them all, and
\* what it has found in a mailbox has been there.
Runner ==
  /\ IsQueue(box)
  /\ job \in {"guard", "access", "first_sync", "emit", "capture", "final_sync", "list",
              "fetch", "green", "red"}
  /\ proof \subseteq Peers /\ unread \subseteq Peers /\ found \subseteq proof
  /\ disabled \in BOOLEAN
  /\ job = "capture" => \A p \in Peers : \E i \in DOMAIN box : box[i].to = p
  /\ job \in {"final_sync", "list", "fetch"} => proof = Peers
  /\ job \notin {"fetch", "green", "red"} => found = {}
  /\ found \subseteq heard
  /\ GreenMeansHeard

IInv == Machine /\ Process /\ Hub /\ Runner /\ faults \in 0..MaxFaults

LEMMA InitHolds == ASSUME Init PROVE IInv
<1>1. IsQueue(<<>>)
  BY CapAssumption DEF IsQueue
<1>2. Machine
  BY <1>1 DEF Init, Machine, OneCopyPending
<1>3. Process
  BY DEF Init, Process
<1>4. Cap \in 0..Cap
  BY CapAssumption
<1>5. Hub
  BY <1>4 DEF Init, Hub
<1>6. Runner
  BY <1>1 DEF Init, Runner, GreenMeansHeard
<1>7. faults \in 0..MaxFaults
  BY FaultsAssumption DEF Init
<1> QED
  BY <1>2, <1>3, <1>5, <1>6, <1>7 DEF IInv

-----------------------------------------------------------------------------
(* The outbox of the machine. *)

\* An emission that is not a second copy keeps copies single.
LEMMA EmissionKeeps ==
  ASSUME Machine, NEW new \in Seq(Message), outbox' = Emit(outbox, new),
         \A i, j \in 1..Len(new) : new[i].from \in Users /\ new[i].from = new[j].from => i = j,
         \A i \in 1..Len(new), j \in 1..Len(outbox) :
            new[i].from \in Users => outbox[j].from # new[i].from
  PROVE  /\ IsQueue(outbox)'
         /\ OneCopyPending'
         /\ \A k \in DOMAIN outbox' : \/ \E j \in DOMAIN outbox : outbox'[k] = outbox[j]
                                      \/ \E j \in 1..Len(new) : outbox'[k] = new[j]
<1>1. outbox \in Seq(Message) /\ Len(outbox) \in Nat /\ Len(new) \in Nat
      /\ DOMAIN outbox = 1..Len(outbox)
  BY LenProperties DEF Machine, IsQueue
<1>2. PICK d \in 0..(Len(outbox) + Len(new)) :
        /\ Len(outbox') = Len(outbox) + Len(new) - d
        /\ \A i \in 1..Len(outbox') :
             outbox'[i] = IF i + d <= Len(outbox) THEN outbox[i + d] ELSE new[(i + d) - Len(outbox)]
  BY <1>1, EmitKeeps
<1>3. IsQueue(outbox')
  BY <1>1, EmitKeeps
<1>4. DOMAIN outbox' = 1..Len(outbox') /\ Len(outbox') \in Nat
  BY <1>3, LenProperties DEF IsQueue
<1>5. \A k \in 1..Len(outbox') :
        \/ k + d \in 1..Len(outbox) /\ outbox'[k] = outbox[k + d]
        \/ (k + d) - Len(outbox) \in 1..Len(new) /\ outbox'[k] = new[(k + d) - Len(outbox)]
           /\ ~(k + d <= Len(outbox))
  BY <1>1, <1>2, <1>4
<1>6. \A k \in DOMAIN outbox' : \/ \E j \in DOMAIN outbox : outbox'[k] = outbox[j]
                                \/ \E j \in 1..Len(new) : outbox'[k] = new[j]
  BY <1>1, <1>4, <1>5
<1>7. ASSUME NEW k \in DOMAIN outbox', NEW l \in DOMAIN outbox',
             outbox'[k].from \in Users, outbox'[k].from = outbox'[l].from
      PROVE  k = l
  <2>1. k \in Int /\ l \in Int /\ d \in Int
    BY <1>2, <1>4
  <2> DEFINE Old(x) == x + d \in 1..Len(outbox) /\ outbox'[x] = outbox[x + d]
             New(x) == (x + d) - Len(outbox) \in 1..Len(new) /\ outbox'[x] = new[(x + d) - Len(outbox)]
  <2>2. (Old(k) \/ New(k)) /\ (Old(l) \/ New(l))
    BY <1>4, <1>5
  <2>3. CASE Old(k) /\ Old(l)
    <3>1. k + d = l + d
      BY <1>1, <1>7, <2>3 DEF Machine, OneCopyPending
    <3> QED
      BY <2>1, <3>1
  <2>4. CASE New(k) /\ New(l)
    <3>1. (k + d) - Len(outbox) = (l + d) - Len(outbox)
      BY <1>7, <2>4
    <3> QED
      BY <1>1, <2>1, <3>1
  <2>5. CASE New(k) /\ Old(l)
    BY <1>7, <2>5
  <2>6. CASE Old(k) /\ New(l)
    BY <1>7, <2>6
  <2> HIDE DEF Old, New
  <2> QED
    BY <2>2, <2>3, <2>4, <2>5, <2>6
<1> QED
  BY <1>3, <1>6, <1>7 DEF OneCopyPending

\* A message of the daemon's.
LEMMA DaemonEmission ==
  ASSUME Machine, UNCHANGED user, NEW new \in Seq(Message), outbox' = Emit(outbox, new),
         \A i \in 1..Len(new) : new[i].from = "daemon"
  PROVE  Machine'
<1>1. "daemon" \notin Users
  BY UsersAssumption
<1>2. /\ IsQueue(outbox)'
      /\ OneCopyPending'
      /\ \A k \in DOMAIN outbox' : \/ \E j \in DOMAIN outbox : outbox'[k] = outbox[j]
                                   \/ \E j \in 1..Len(new) : outbox'[k] = new[j]
  BY <1>1, EmissionKeeps
<1> QED
  BY <1>1, <1>2 DEF Machine

LEMMA OneMessage ==
  ASSUME NEW s \in Senders, NEW p \in Peers
  PROVE  /\ <<[from |-> s, to |-> p]>> \in Seq(Message)
         /\ Len(<<[from |-> s, to |-> p]>>) = 1
         /\ <<[from |-> s, to |-> p]>>[1].from = s
<1>1. [from |-> s, to |-> p] \in Message
  BY DEF Message
<1> QED
  BY <1>1

LEMMA HeartbeatEmission ==
  ASSUME Machine, EmitHeartbeat
  PROVE  Machine'
<1>1. "daemon" \in Senders
  BY DEF Senders
<1>2. /\ Heartbeat("daemon") \in Seq(Message)
      /\ \A i \in 1..Len(Heartbeat("daemon")) : Heartbeat("daemon")[i].from = "daemon"
  BY <1>1, HeartbeatForAll
<1> QED
  BY <1>2, DaemonEmission DEF EmitHeartbeat

\* The outbox is cleared.
LEMMA Clearing ==
  ASSUME Machine, UNCHANGED user, outbox' = <<>>
  PROVE  Machine'
BY CapAssumption DEF Machine, OneCopyPending, IsQueue

LEMMA Faulted ==
  ASSUME faults \in 0..MaxFaults, Fault
  PROVE  faults' \in 0..MaxFaults
BY FaultsAssumption DEF Fault

-----------------------------------------------------------------------------
(* The mailboxes.                                                             *)

LEMMA SentIsBounded ==
  ASSUME NEW q, IsQueue(q), NEW failing, NEW p
  PROVE  /\ Cardinality(Sent(q, failing, p)) \in Nat
         /\ Cardinality({i \in Sent(q, failing, p) : \A j \in Mine(q, failing, p) : j < i}) \in 0..Cap
<1>1. Len(q) \in Nat /\ Len(q) <= Cap /\ DOMAIN q = 1..Len(q) /\ Cap \in Nat
  BY LenProperties, CapAssumption DEF IsQueue
<1>2. IsFiniteSet(1..Len(q)) /\ Cardinality(1..Len(q)) = Len(q)
  <2>1. 1 \in Int /\ Len(q) \in Int
    BY <1>1
  <2>2. /\ IsFiniteSet(1..Len(q))
        /\ Cardinality(1..Len(q)) = IF 1 > Len(q) THEN 0 ELSE Len(q) - 1 + 1
    BY <2>1, FS_Interval
  <2> QED
    BY <1>1, <2>2
<1>3. \A S \in SUBSET (1..Len(q)) : IsFiniteSet(S) /\ Cardinality(S) <= Len(q)
  BY <1>2, FS_Subset
<1>4. \A S \in SUBSET (1..Len(q)) : Cardinality(S) \in Nat
  BY <1>3, FS_CardinalityType
<1>5. \A S \in SUBSET (1..Len(q)) : Cardinality(S) \in 0..Cap
  BY <1>1, <1>3, <1>4
<1>6. Sent(q, failing, p) \subseteq 1..Len(q)
  BY <1>1 DEF Sent
<1>7. {i \in Sent(q, failing, p) : \A j \in Mine(q, failing, p) : j < i} \subseteq 1..Len(q)
  BY <1>6
<1> HIDE DEF Sent
<1> QED
  BY <1>4, <1>5, <1>6, <1>7

LEMMA MinOfTwo ==
  ASSUME NEW a \in Nat, NEW b \in Nat
  PROVE  /\ Min({a, b}) \in 0..a
         /\ b >= a => Min({a, b}) = a
<1>1. \E x \in {a, b} : \A y \in {a, b} : x <= y
  <2>1. CASE a <= b
    BY <2>1
  <2>2. CASE b <= a
    BY <2>2
  <2> QED
    BY <2>1, <2>2
<1>2. Min({a, b}) \in {a, b} /\ \A y \in {a, b} : Min({a, b}) <= y
  BY <1>1 DEF Min
<1> QED
  BY <1>2

LEMMA NewerBounds ==
  ASSUME Hub, NEW q, IsQueue(q), NEW failing, NEW p \in Peers
  PROVE  /\ Newer(q, failing, p) \in 0..Cap
         /\ newer[p] = Cap /\ Mine(q, failing, p) = {} => Newer(q, failing, p) = Cap
<1> DEFINE c == Cardinality(Sent(q, failing, p))
<1>1. c \in Nat /\ Cap \in Nat /\ newer[p] \in 0..Cap
  BY SentIsBounded, CapAssumption DEF Hub
<1>2. newer[p] + c \in Nat /\ (newer[p] = Cap => newer[p] + c >= Cap)
  BY <1>1
<1> HIDE DEF c
<1>3. /\ Min({Cap, newer[p] + c}) \in 0..Cap
      /\ newer[p] + c >= Cap => Min({Cap, newer[p] + c}) = Cap
  BY <1>1, <1>2, MinOfTwo
<1>4. Newer(q, failing, p) =
        IF Mine(q, failing, p) # {}
        THEN Cardinality({i \in Sent(q, failing, p) : \A j \in Mine(q, failing, p) : j < i})
        ELSE Min({Cap, newer[p] + c})
  BY DEF Newer, c
<1> QED
  BY <1>2, <1>3, <1>4, SentIsBounded

LEMMA PushKeeps ==
  ASSUME Hub, faults \in 0..MaxFaults, NEW q, IsQueue(q), NEW failing, Push(q, failing)
  PROVE  Hub' /\ heard \subseteq heard' /\ faults' \in 0..MaxFaults
<1>1. files' \subseteq Peers /\ heard' \subseteq Peers /\ heard \subseteq heard'
  BY DEF Hub, Push, Reached
<1>2. \A p \in Peers : newer'[p] = Newer(q, failing, p) /\ Newer(q, failing, p) \in 0..Cap
  BY NewerBounds DEF Push
<1>3. newer' \in [Peers -> 0..Cap]
  BY <1>2 DEF Push
<1>4. evicted' \in BOOLEAN
  BY DEF Hub, Push
<1>5. ASSUME NEW p \in Peers \ heard' PROVE newer'[p] = Cap
  <2>1. p \notin heard /\ Mine(q, failing, p) = {}
    BY <1>5 DEF Push
  <2>2. newer[p] = Cap
    BY <2>1 DEF Hub
  <2> QED
    BY <1>2, <2>1, <2>2, NewerBounds
<1>6. faults' \in 0..MaxFaults
  BY Faulted DEF Push, NoFault
<1> QED
  BY <1>1, <1>3, <1>4, <1>5, <1>6 DEF Hub

\* What the job knows stays true when more mailboxes are reached.
LEMMA RunnerStays ==
  ASSUME Runner, Hub', UNCHANGED runner, heard \subseteq heard'
  PROVE  Runner'
BY DEF Runner, Hub, runner, GreenMeansHeard

-----------------------------------------------------------------------------
(* The steps. *)

LEMMA UserSteps ==
  ASSUME IInv, \/ ClearCommand
               \/ \E u \in Users : Send(u) \/ Reread(u)
  PROVE  IInv'
<1>1. UNCHANGED <<process, hub, runner>>
  BY DEF ClearCommand, Send, Reread
<1>2. Process' /\ Hub' /\ Runner'
  BY <1>1 DEF IInv, Process, Hub, Runner, GreenMeansHeard, process, hub, runner
<1>3. CASE ClearCommand
  BY <1>2, <1>3, Clearing DEF IInv, ClearCommand
<1>4. ASSUME NEW u \in Users, Send(u) PROVE IInv'
  <2>1. faults' \in 0..MaxFaults
    BY <1>4, Faulted DEF IInv, Send, NoFault
  <2>2. CASE UNCHANGED <<outbox, user>>
    BY <1>2, <2>1, <2>2 DEF IInv, Machine, OneCopyPending
  <2>3. ASSUME NEW p \in Peers, outbox' = Emit(outbox, <<[from |-> u, to |-> p]>>),
               user' = [user EXCEPT ![u] = "emitted"]
        PROVE  IInv'
    <3> DEFINE new == <<[from |-> u, to |-> p]>>
    <3>1. new \in Seq(Message) /\ Len(new) = 1 /\ new[1].from = u
      BY OneMessage DEF Senders
    <3> HIDE DEF new
    <3>2. \A j \in DOMAIN outbox : outbox[j].from # u
      BY <1>4 DEF IInv, Machine, Send
    <3>3. DOMAIN outbox = 1..Len(outbox)
      BY LenProperties DEF IInv, Machine, IsQueue
    <3>4. /\ IsQueue(outbox)'
          /\ OneCopyPending'
          /\ \A k \in DOMAIN outbox' : \/ \E j \in DOMAIN outbox : outbox'[k] = outbox[j]
                                       \/ \E j \in 1..Len(new) : outbox'[k] = new[j]
      <4>1. outbox' = Emit(outbox, new)
        BY <2>3 DEF new
      <4>2. \A i, j \in 1..Len(new) : new[i].from \in Users /\ new[i].from = new[j].from => i = j
        BY <3>1
      <4>3. \A i \in 1..Len(new), j \in 1..Len(outbox) :
              new[i].from \in Users => outbox[j].from # new[i].from
        BY <3>1, <3>2, <3>3
      <4> QED
        BY <3>1, <4>1, <4>2, <4>3, EmissionKeeps DEF IInv
    <3>5. \A k \in DOMAIN outbox' : \/ \E j \in DOMAIN outbox : outbox'[k].from = outbox[j].from
                                    \/ outbox'[k].from = u
      BY <3>1, <3>4
    <3>6. \A w \in Users : user'[w] = "idle" => user[w] = "idle" /\ w # u
      BY <2>3 DEF IInv, Machine
    <3>7. user' \in [Users -> {"idle", "emitted", "queued"}]
      BY <2>3 DEF IInv, Machine
    <3>8. Machine'
      BY <3>4, <3>5, <3>6, <3>7 DEF IInv, Machine
    <3> QED
      BY <1>2, <2>1, <3>8 DEF IInv
  <2> QED
    BY <1>4, <2>2, <2>3 DEF Send
<1>5. ASSUME NEW u \in Users, Reread(u) PROVE IInv'
  <2>1. user' = [user EXCEPT ![u] = IF InOutbox(u) THEN "queued" ELSE "idle"]
        /\ UNCHANGED <<outbox, faults>>
    BY <1>5 DEF Reread
  <2>2. \A w \in Users : user'[w] = "idle" => \A i \in DOMAIN outbox : outbox[i].from # w
    BY <2>1 DEF IInv, Machine, InOutbox
  <2>3. Machine'
    BY <2>1, <2>2 DEF IInv, Machine, OneCopyPending
  <2> QED
    BY <1>2, <2>1, <2>3 DEF IInv
<1> QED
  BY <1>3, <1>4, <1>5

\* A step of the daemon that changes neither a mailbox nor the job.
LEMMA DaemonOutbox ==
  ASSUME IInv, UNCHANGED <<hub, runner>>, Machine', Process', faults' \in 0..MaxFaults
  PROVE  IInv'
BY DEF IInv, Hub, Runner, GreenMeansHeard, hub, runner

LEMMA SameMachine ==
  ASSUME Machine, UNCHANGED machine
  PROVE  Machine'
BY DEF Machine, OneCopyPending, machine

LEMMA DaemonSteps ==
  ASSUME IInv, StartDaemon \/ DaemonStep
  PROVE  IInv'
<1>1. CASE StartDaemon
  <2>1. Process' /\ faults' \in 0..MaxFaults
    BY <1>1 DEF IInv, Process, StartDaemon
  <2> QED
    BY <1>1, <2>1, SameMachine, DaemonOutbox DEF IInv, StartDaemon
<1>2. CASE PlainBeat \/ AgentBeat \/ Fallback
  <2>1. UNCHANGED <<hub, runner>> /\ Process'
    BY <1>2 DEF PlainBeat, AgentBeat, Fallback, IInv, Process
  <2>2. faults' \in 0..MaxFaults
    BY <1>2, Faulted DEF PlainBeat, AgentBeat, Fallback, EmitHeartbeat, NoFault, IInv
  <2>3. EmitHeartbeat \/ UNCHANGED machine
    BY <1>2 DEF PlainBeat, AgentBeat, Fallback
  <2>4. Machine'
    BY <2>3, HeartbeatEmission, SameMachine DEF IInv
  <2> QED
    BY <2>1, <2>2, <2>4, DaemonOutbox
<1>3. CASE AgentStatus
  <2>1. UNCHANGED <<hub, runner>> /\ Process' /\ UNCHANGED user
    BY <1>3 DEF AgentStatus, IInv, Process
  <2>2. faults' \in 0..MaxFaults
    BY <1>3, Faulted DEF AgentStatus, NoFault, IInv
  <2>3. CASE UNCHANGED outbox
    BY <2>1, <2>2, <2>3, SameMachine, DaemonOutbox DEF IInv, machine
  <2>4. ASSUME NEW p \in Peers, outbox' = Emit(outbox, <<[from |-> "daemon", to |-> p]>>)
        PROVE  IInv'
    <3> DEFINE new == <<[from |-> "daemon", to |-> p]>>
    <3>1. new \in Seq(Message) /\ Len(new) = 1 /\ new[1].from = "daemon"
      BY OneMessage DEF Senders
    <3>2. outbox' = Emit(outbox, new)
      BY <2>4
    <3> HIDE DEF new
    <3>3. \A i \in 1..Len(new) : new[i].from = "daemon"
      BY <3>1
    <3>4. Machine'
      BY <2>1, <3>1, <3>2, <3>3, DaemonEmission DEF IInv
    <3> QED
      BY <2>1, <2>2, <3>4, DaemonOutbox
  <2> QED
    BY <1>3, <2>3, <2>4 DEF AgentStatus
<1>4. CASE Sync
  <2>1. UNCHANGED <<machine, runner>> /\ Process'
    BY <1>4 DEF Sync, AfterError, IInv, Process
  <2>2. Machine'
    BY <2>1, SameMachine DEF IInv
  <2>3. ASSUME NEW failing, Push(outbox, failing) PROVE IInv'
    <3>1. Hub' /\ heard \subseteq heard' /\ faults' \in 0..MaxFaults
      BY <2>3, PushKeeps DEF IInv, Machine
    <3>2. Runner'
      BY <2>1, <3>1, RunnerStays DEF IInv
    <3> QED
      BY <2>1, <2>2, <3>1, <3>2 DEF IInv
  <2>4. CASE Fault /\ UNCHANGED hub
    BY <2>1, <2>2, <2>4, Faulted, DaemonOutbox DEF IInv
  <2> QED
    BY <1>4, <2>3, <2>4 DEF Sync
<1>5. CASE SyncClear
  <2>1. Process' /\ faults' \in 0..MaxFaults
    BY <1>5 DEF SyncClear, IInv, Process
  <2> QED
    BY <1>5, <2>1, Clearing, DaemonOutbox DEF SyncClear, IInv
<1>6. CASE Sleep
  <2>1. Process' /\ faults' \in 0..MaxFaults
    BY <1>6 DEF Sleep, IInv, Process
  <2> QED
    BY <1>6, <2>1, SameMachine, DaemonOutbox DEF Sleep, IInv
<1> QED
  BY <1>1, <1>2, <1>3, <1>4, <1>5, <1>6 DEF DaemonStep

\* A step of the job that changes no mailbox.
LEMMA JobAlone ==
  ASSUME IInv, JobStays, UNCHANGED hub, Runner', faults' \in 0..MaxFaults
  PROVE  IInv'
BY DEF IInv, JobStays, Machine, Process, Hub, OneCopyPending, machine, process, hub

\* The job has ended red.
LEMMA JobFails ==
  ASSUME Runner, UNCHANGED <<box, proof, unread, found, disabled, heard>>, job' = "red"
  PROVE  Runner'
BY DEF Runner, GreenMeansHeard

LEMMA JobFaults ==
  ASSUME IInv, Fails, UNCHANGED <<box, proof, unread, found, disabled, hub>>, JobStays
  PROVE  IInv'
BY JobFails, JobAlone, Faulted DEF IInv, Fails, hub

\* The job's heartbeat is in its outbox, whatever was there before.
LEMMA JobEmission ==
  ASSUME IsQueue(box), box' = Emit(box, Heartbeat("job"))
  PROVE  IsQueue(box') /\ \A p \in Peers : \E i \in DOMAIN box' : box'[i].to = p
<1> DEFINE beat == Heartbeat("job")
           n == Cardinality(Peers)
<1>1. /\ beat \in Seq(Message) /\ Len(beat) = n /\ n \in Nat /\ n <= Cap /\ Cap \in Nat
      /\ \A p \in Peers : \E i \in 1..n : beat[i].to = p
  BY HeartbeatForAll, FS_CardinalityType, CapAssumption DEF Senders
<1>2. box \in Seq(Message) /\ Len(box) \in Nat
  BY LenProperties DEF IsQueue
<1>3. box' = Emit(box, beat) /\ box \in Seq(Message) /\ beat \in Seq(Message)
  BY <1>1, <1>2
<1> HIDE DEF beat, n
<1>4. PICK d \in 0..(Len(box) + Len(beat)) :
        /\ Len(Emit(box, beat)) = Len(box) + Len(beat) - d
        /\ d # 0 => Len(Emit(box, beat)) = Cap
        /\ \A i \in 1..Len(Emit(box, beat)) :
             Emit(box, beat)[i] = IF i + d <= Len(box) THEN box[i + d] ELSE beat[(i + d) - Len(box)]
  BY <1>3, EmitKeeps
<1>5. IsQueue(box')
  BY <1>3, EmitKeeps
<1>6. DOMAIN box' = 1..Len(box') /\ Len(box') \in Nat
  BY <1>5, LenProperties DEF IsQueue
<1>7. ASSUME NEW p \in Peers PROVE \E i \in DOMAIN box' : box'[i].to = p
  <2>1. PICK j \in 1..n : beat[j].to = p
    BY <1>1
  <2> DEFINE i == (Len(box) + j) - d
  <2>2. d <= Len(box) /\ d \in Nat /\ Len(box') = Len(box) + Len(beat) - d
    BY <1>1, <1>2, <1>3, <1>4
  <2>3. i \in 1..Len(box') /\ i + d = Len(box) + j
    BY <1>1, <1>2, <2>2
  <2>4. ~(i + d <= Len(box)) /\ (i + d) - Len(box) = j
    BY <1>1, <1>2, <2>3
  <2> HIDE DEF i
  <2>5. box'[i] = beat[j]
    BY <1>3, <1>4, <2>3, <2>4
  <2> QED
    BY <1>6, <2>1, <2>3, <2>5
<1> QED
  BY <1>5, <1>7

LEMMA StartJobKeeps ==
  ASSUME IInv, StartJob
  PROVE  IInv'
<1>1. IsQueue(box')
  <2>1. CASE box' = <<>>
    BY <2>1, CapAssumption DEF IsQueue
  <2>2. ASSUME NEW p \in Peers, box' = <<[from |-> "committed", to |-> p]>> PROVE IsQueue(box')
    <3>1. p \in Peers /\ Cardinality(Peers) \in Nat /\ Cardinality(Peers) # 0
      BY <2>2, FS_CardinalityType, FS_EmptySet, CapAssumption
    <3>2. Cap >= 1
      BY <3>1, CapAssumption
    <3> QED
      BY <2>2, <3>2, OneMessage DEF IsQueue, Senders
  <2> QED
    BY <2>1, <2>2 DEF StartJob
<1>2. Runner'
  BY <1>1 DEF StartJob, Goto, Runner, GreenMeansHeard
<1>3. Cap \in 0..Cap
  BY CapAssumption
<1>4. Hub'
  BY <1>3 DEF StartJob, IInv, Hub
<1>5. Machine' /\ Process' /\ faults' \in 0..MaxFaults
  BY DEF StartJob, JobStays, NoFault, IInv, Machine, Process, OneCopyPending, machine, process
<1> QED
  BY <1>2, <1>4, <1>5 DEF IInv

LEMMA RunnerSyncKeeps ==
  ASSUME IInv, NEW step, NEW next,
         \/ step = "first_sync" /\ next = "emit"
         \/ step = "final_sync" /\ next = "list",
         RunnerSync(step, next)
  PROVE  IInv'
<1>1. CASE Fails /\ UNCHANGED <<hub, box>>
  BY <1>1, JobFaults DEF RunnerSync
<1>2. ASSUME NEW failing, Push(box, failing), box' \in {box, <<>>}, Goto(next)
      PROVE  IInv'
  <2>1. Hub' /\ heard \subseteq heard' /\ faults' \in 0..MaxFaults
    BY <1>2, PushKeeps DEF IInv, Runner
  <2>2. IsQueue(box')
    <3>1. IsQueue(box) /\ IsQueue(<<>>)
      BY CapAssumption DEF IInv, Runner, IsQueue
    <3> QED
      BY <1>2, <3>1
  <2>3. job = step /\ job' = next /\ UNCHANGED <<proof, unread, found, disabled>>
    BY <1>2 DEF RunnerSync, Goto
  <2>4. Runner'
    BY <2>1, <2>2, <2>3 DEF IInv, Runner, GreenMeansHeard
  <2>5. Machine' /\ Process'
    BY DEF RunnerSync, JobStays, IInv, Machine, Process, OneCopyPending, machine, process
  <2> QED
    BY <2>1, <2>4, <2>5 DEF IInv
<1> QED
  BY <1>1, <1>2 DEF RunnerSync

LEMMA CaptureKeeps ==
  ASSUME IInv, Capture
  PROVE  IInv'
<1> DEFINE beats == {box[i].to : i \in DOMAIN box}
<1>1. \A i \in DOMAIN box : box[i].to \in Peers
  <2>1. box \in Seq(Message)
    BY DEF IInv, Runner, IsQueue
  <2>2. \A i \in DOMAIN box : box[i] \in Message
    BY <2>1, LenProperties, ElementOfSeq
  <2> QED
    BY <2>2 DEF Message
<1>2. beats = Peers
  BY <1>1 DEF IInv, Runner, Capture
<1> HIDE DEF beats
<1>3. \/ job' = "final_sync" /\ proof' = beats
      \/ job' = "red" /\ proof' = {}
  BY DEF Capture, Goto, beats
<1>4. UNCHANGED <<box, unread, found, disabled, hub>> /\ job = "capture"
  BY DEF Capture
<1>5. Runner'
  BY <1>2, <1>3, <1>4 DEF IInv, Runner, GreenMeansHeard, hub
<1> QED
  BY <1>4, <1>5, JobAlone DEF Capture, NoFault, IInv

LEMMA VerifyFetchKeeps ==
  ASSUME IInv, VerifyFetch
  PROVE  IInv'
<1>1. PICK p \in unread :
        /\ unread' = unread \ {p}
        /\ \/ found' = found \cup {q \in proof \cap {p} : newer[q] < Cap} /\ NoFault
           \/ Fault /\ UNCHANGED found
  BY DEF VerifyFetch
<1>2. UNCHANGED <<job, box, proof, disabled, hub>> /\ job = "fetch"
  BY DEF VerifyFetch
<1>3. faults' \in 0..MaxFaults
  BY <1>1, Faulted DEF NoFault, IInv
<1>4. \A q \in proof : newer[q] < Cap => q \in heard
  BY CapAssumption DEF IInv, Runner, Hub
<1>5. found' \subseteq proof /\ found' \subseteq heard
  BY <1>1, <1>4 DEF IInv, Runner
<1>6. Runner'
  BY <1>1, <1>2, <1>5 DEF IInv, Runner, GreenMeansHeard, hub
<1> QED
  BY <1>2, <1>3, <1>6, JobAlone DEF VerifyFetch

\* The job turns green on a proof for all peers, each of them found.
LEMMA VerifyEndKeeps ==
  ASSUME IInv, VerifyEnd
  PROVE  IInv'
<1>1. UNCHANGED <<box, proof, unread, found, disabled, hub>> /\ job = "fetch"
  BY DEF VerifyEnd
<1>2. job' = "red" \/ (job' = "green" /\ proof \ found = {})
  BY DEF VerifyEnd, Goto, Confirmed
<1>3. proof = Peers /\ found \subseteq heard /\ heard \subseteq Peers
  BY <1>1 DEF IInv, Runner, Hub
<1>4. Runner'
  BY <1>1, <1>2, <1>3 DEF IInv, Runner, GreenMeansHeard, hub
<1> QED
  BY <1>1, <1>4, JobAlone DEF VerifyEnd, NoFault, IInv

LEMMA JobSteps ==
  ASSUME IInv, StartJob \/ JobStep \/ Cancel
  PROVE  IInv'
<1>1. CASE Guard
  <2>1. Runner'
    BY <1>1 DEF Guard, Goto, IInv, Runner, GreenMeansHeard, hub
  <2> QED
    BY <1>1, <2>1, JobAlone DEF Guard, NoFault, IInv
<1>2. CASE HubAccess
  <2>1. CASE Fails
    BY <1>2, <2>1, JobFaults DEF HubAccess
  <2>2. CASE Goto("first_sync") /\ NoFault
    <3>1. Runner'
      BY <1>2, <2>2 DEF HubAccess, Goto, IInv, Runner, GreenMeansHeard, hub
    <3> QED
      BY <1>2, <2>2, <3>1, JobAlone DEF HubAccess, NoFault, IInv
  <2> QED
    BY <1>2, <2>1, <2>2 DEF HubAccess
<1>3. CASE EmitSigned
  <2>1. CASE Fails /\ UNCHANGED box
    BY <1>3, <2>1, JobFaults DEF EmitSigned
  <2>2. CASE box' = Emit(box, Heartbeat("job")) /\ Goto("capture") /\ NoFault
    <3>1. IsQueue(box') /\ \A p \in Peers : \E i \in DOMAIN box' : box'[i].to = p
      BY <2>2, JobEmission DEF IInv, Runner
    <3>2. UNCHANGED <<proof, unread, found, disabled, hub>> /\ job = "emit" /\ job' = "capture"
      BY <1>3, <2>2 DEF EmitSigned, Goto
    <3>3. Runner'
      BY <3>1, <3>2 DEF IInv, Runner, GreenMeansHeard, hub
    <3> QED
      BY <1>3, <2>2, <3>2, <3>3, JobAlone DEF EmitSigned, NoFault, IInv
  <2> QED
    BY <1>3, <2>1, <2>2 DEF EmitSigned
<1>4. CASE VerifyList
  <2>1. UNCHANGED <<box, proof, found, disabled, hub>> /\ JobStays /\ job = "list"
    BY <1>4 DEF VerifyList
  <2>2. CASE Fails /\ UNCHANGED unread
    BY <2>1, <2>2, JobFaults
  <2>3. CASE job' \in {"fetch", "red"} /\ unread' = HubFiles /\ NoFault
    <3>1. Runner'
      BY <2>1, <2>3 DEF HubFiles, IInv, Runner, Hub, GreenMeansHeard, hub
    <3> QED
      BY <2>1, <2>3, <3>1, JobAlone DEF NoFault, IInv
  <2> QED
    BY <1>4, <2>2, <2>3 DEF VerifyList, Goto
<1>5. CASE Cancel
  BY <1>5, JobFaults DEF Cancel
<1> QED
  BY <1>1, <1>2, <1>3, <1>4, <1>5, StartJobKeeps, RunnerSyncKeeps, CaptureKeeps,
     VerifyFetchKeeps, VerifyEndKeeps DEF JobStep

LEMMA NextKeeps == IInv /\ [Next]_vars => IInv'
<1> SUFFICES ASSUME IInv, [Next]_vars PROVE IInv'
  OBVIOUS
<1>1. CASE UNCHANGED vars
  BY <1>1 DEF vars, machine, process, hub, runner, IInv, Machine, Process, Hub, Runner,
              OneCopyPending, GreenMeansHeard
<1> QED
  BY <1>1, UserSteps, DaemonSteps, JobSteps DEF Next

-----------------------------------------------------------------------------
(* The theorems.                                                              *)

\* The types of the outboxes, the mailboxes, the daemon and the job
\* (scripts/nadi_send.py, nadi_daemon.py, heartbeat_postcondition.py).
THEOREM TypeCorrect == Spec => []TypeOK
<1>1. IInv => TypeOK
  BY DEF IInv, Machine, Process, Hub, Runner, TypeOK
<1> QED
  BY <1>1, InitHolds, NextKeeps, PTL DEF Spec

\* A green job has been heard by every peer, whatever its syncs swallowed
\* (heartbeat_postcondition.py, cmd_capture and cmd_verify).
THEOREM GreenIsHeard == Spec => []GreenMeansHeard
<1>1. IInv => GreenMeansHeard
  BY DEF IInv, Runner
<1> QED
  BY <1>1, InitHolds, NextKeeps, PTL DEF Spec

\* A sender that repeats after every exit code 1 has one copy in the outbox
\* (nadi_send.py, the re-read verification).
THEOREM CopiesAreSingle == Spec => []OneCopyPending
<1>1. IInv => OneCopyPending
  BY DEF IInv, Machine
<1> QED
  BY <1>1, InitHolds, NextKeeps, PTL DEF Spec
================================================================================
