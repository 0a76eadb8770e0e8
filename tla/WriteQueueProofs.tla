-------------------------- MODULE WriteQueueProofs --------------------------
(***************************************************************************)
(* Proofs about register writes for every set of devices, every number of  *)
(* addresses, requests and retries.                                        *)
(***************************************************************************)
EXTENDS WriteQueue, SequenceTheorems, TLAPS

(* The requests waiting for each device, as a value. *)
W == [d \in Device |-> Waiting(d)]

(* A worker exists only while polling, and for an enabled device; it holds *)
(* requests only inside flushWrites().                                     *)
WorkerInv ==
    /\ phase = "stopped" => active = {}
    /\ \A d \in Device \ inFlush : taken[d] = <<>>
    /\ \A d \in active : device[d] = "enabled"

(* A request that waits is on its own device's list, is not settled, and   *)
(* its attempts and what is left of them add up.                           *)
PlaceInv ==
    \A d \in Device : \A n \in 1 .. Len(W[d]) :
        /\ W[d][n].config.owner = d
        /\ state[W[d][n].id] = "pending"
        /\ W[d][n].retryCount + tries[W[d][n].id] = Retries

(* No request waits twice. *)
OnceInv ==
    \A d, e \in Device : \A m \in 1 .. Len(W[d]), n \in 1 .. Len(W[e]) :
        W[d][m].id = W[e][n].id => d = e /\ m = n

(* A request that is not settled waits somewhere. *)
KeptInv ==
    \A i \in Id : state[i] = "pending" =>
        \E d \in Device : \E n \in 1 .. Len(W[d]) : W[d][n].id = i

(* The ids from next on have not been given out. *)
FreshInv == \A i \in Id : i >= next => state[i] = "none" /\ tries[i] = 0

(* A request behind a younger one has been tried: it was put back. *)
OrderInv ==
    \A d \in Device : \A m, n \in 1 .. Len(W[d]) :
        m < n /\ W[d][n].id < W[d][m].id => tries[W[d][n].id] > 0

QueueInv == PlaceInv /\ OnceInv /\ KeptInv /\ FreshInv /\ OrderInv

Inv == TypeOK /\ WorkerInv /\ QueueInv
-----------------------------------------------------------------------------
(* Sequences *)

LEMMA TailElements ==
    ASSUME NEW S, NEW s \in Seq(S), s # <<>>
    PROVE  /\ Len(s) \in Nat /\ Len(s) >= 1
           /\ Head(s) = s[1] /\ s[1] \in S
           /\ Tail(s) \in Seq(S) /\ Len(Tail(s)) = Len(s) - 1
           /\ \A i \in 1 .. Len(s) - 1 : Tail(s)[i] = s[i + 1]
  BY HeadTailProperties, EmptySeq

(* Appending to the second of two lists appends to them together. *)
LEMMA ConcatAppend ==
    ASSUME NEW S, NEW s \in Seq(S), NEW q \in Seq(S), NEW e \in S
    PROVE  s \o Append(q, e) = Append(s \o q, e)
<1>1. s \o q \in Seq(S) /\ <<e>> \in Seq(S)
      BY ConcatProperties
<1>2. Append(q, e) = q \o <<e>> /\ Append(s \o q, e) = (s \o q) \o <<e>>
      BY <1>1, AppendIsConcat
<1> QED
    BY <1>1, <1>2, ConcatAssociative

(* Taking the head off the first of two lists takes it off them together. *)
LEMMA TailConcat ==
    ASSUME NEW S, NEW s \in Seq(S), NEW t \in Seq(S), s # <<>>
    PROVE  /\ s \o t \in Seq(S) /\ s \o t # <<>> /\ Head(s \o t) = Head(s)
           /\ Tail(s \o t) = Tail(s) \o t
<1> DEFINE r == Tail(s)
           y == s \o t
           x == r \o t
           z == Tail(y)
<1>1. /\ Len(s) \in Nat /\ Len(s) >= 1 /\ Len(t) \in Nat /\ Head(s) = s[1]
      /\ r \in Seq(S) /\ Len(r) = Len(s) - 1
      /\ \A i \in 1 .. Len(s) - 1 : r[i] = s[i + 1]
      BY TailElements
<1> HIDE DEF r
<1>2. /\ y \in Seq(S) /\ Len(y) = Len(s) + Len(t)
      /\ \A i \in 1 .. Len(s) + Len(t) : y[i] = IF i <= Len(s) THEN s[i] ELSE t[i - Len(s)]
      BY ConcatProperties
<1>3. /\ x \in Seq(S) /\ Len(x) = Len(s) - 1 + Len(t)
      /\ \A i \in 1 .. Len(s) - 1 + Len(t) :
            x[i] = IF i <= Len(s) - 1 THEN r[i] ELSE t[i - (Len(s) - 1)]
  <2>1. /\ x \in Seq(S) /\ Len(x) = Len(r) + Len(t)
        /\ \A i \in 1 .. Len(r) + Len(t) : x[i] = IF i <= Len(r) THEN r[i] ELSE t[i - Len(r)]
        BY <1>1, ConcatProperties
  <2> HIDE DEF x
  <2> QED
      BY <1>1, <2>1
<1> HIDE DEF x, y
<1>4. y # <<>>
      BY <1>1, <1>2, EmptySeq
<1>5. /\ z \in Seq(S) /\ Len(z) = Len(s) - 1 + Len(t) /\ Head(y) = y[1]
      /\ \A i \in 1 .. Len(s) - 1 + Len(t) : z[i] = y[i + 1]
  <2>1. /\ z \in Seq(S) /\ Len(z) = Len(y) - 1 /\ Head(y) = y[1]
        /\ \A i \in 1 .. Len(y) - 1 : z[i] = y[i + 1]
        BY <1>2, <1>4, TailElements
  <2> HIDE DEF z
  <2> QED
      BY <1>1, <1>2, <2>1
<1> HIDE DEF z
<1>6. ASSUME NEW i \in 1 .. Len(z) PROVE z[i] = x[i]
  <2>1. /\ i \in Nat /\ i + 1 \in 1 .. Len(s) + Len(t) /\ z[i] = y[i + 1]
        /\ i + 1 - Len(s) = i - (Len(s) - 1)
        BY <1>1, <1>5
  <2>2. CASE i + 1 <= Len(s)
        BY <1>1, <1>2, <1>3, <1>5, <2>1, <2>2
  <2>3. CASE i + 1 > Len(s)
    <3>1. y[i + 1] = t[i + 1 - Len(s)]
          BY <1>1, <1>2, <2>1, <2>3
    <3>2. x[i] = t[i - (Len(s) - 1)]
          BY <1>1, <1>3, <1>5, <2>1, <2>3
    <3> QED
        BY <2>1, <3>1, <3>2
  <2> QED
      BY <1>1, <2>1, <2>2, <2>3
<1>7. z = x
      BY <1>3, <1>5, <1>6, SeqEqual
<1>8. Head(y) = Head(s)
      BY <1>1, <1>2, <1>5
<1> QED
    BY <1>2, <1>4, <1>7, <1>8 DEF x, y, z, r
-----------------------------------------------------------------------------
(* What can happen to the lists, whichever action does it *)

LEMMA WTypes ==
    ASSUME TypeOK
    PROVE  /\ W \in [Device -> Seq(WriteRequest)]
           /\ \A d \in Device : W[d] = taken[d] \o m_writes[d]
  BY ConcatProperties DEF TypeOK, W, Waiting

LEMMA QueueUnchanged ==
    ASSUME QueueInv, W' = W, UNCHANGED <<state, tries, next>>
    PROVE  QueueInv'
  BY DEF QueueInv, PlaceInv, OnceInv, KeptInv, FreshInv, OrderInv

(* A new request is put at the end of a list. *)
LEMMA Arrives ==
    ASSUME TypeOK, QueueInv,
           NEW d \in Device, NEW r \in WriteRequest,
           r.id = next, r.retryCount = Retries, r.config.owner = d,
           W' = [W EXCEPT ![d] = Append(@, r)],
           state' = [state EXCEPT ![next] = "pending"],
           next' = next + 1, tries' = tries
    PROVE  QueueInv'
<1> DEFINE l == Len(W[d])
<1>1. /\ next \in Id /\ next \in Nat
      /\ state[next] = "none" /\ tries[next] = 0
      /\ Retries \in Nat /\ MaxWrites \in Nat
      BY WriteQueueAssumption DEF TypeOK, QueueInv, FreshInv, WriteRequest, Id
<1>2. W \in [Device -> Seq(WriteRequest)] /\ l \in Nat
      BY WTypes
<1>3. /\ Len(W'[d]) = l + 1 /\ W'[d][l + 1] = r
      /\ \A n \in 1 .. l : W'[d][n] = W[d][n]
  <2>1. W'[d] = Append(W[d], r) /\ W[d] \in Seq(WriteRequest)
        BY <1>2
  <2> QED
      BY <2>1, AppendProperties
<1>4. \A e \in Device : e # d => W'[e] = W[e]
      BY <1>2
<1>5. \A e \in Device : \A n \in 1 .. Len(W[e]) :
          /\ W[e][n] \in WriteRequest /\ W[e][n].id \in Id /\ W[e][n].id # next
          /\ W[e][n].id < next
  <2> SUFFICES ASSUME NEW e \in Device, NEW n \in 1 .. Len(W[e])
               PROVE  /\ W[e][n] \in WriteRequest /\ W[e][n].id \in Id
                      /\ W[e][n].id # next /\ W[e][n].id < next
      OBVIOUS
  <2>1. W[e][n] \in WriteRequest
        BY <1>2, ElementOfSeq
  <2>2. W[e][n].id \in Id /\ state[W[e][n].id] = "pending"
        BY <2>1 DEF WriteRequest, QueueInv, PlaceInv
  <2> QED
      BY <1>1, <2>1, <2>2 DEF QueueInv, FreshInv, Id
<1>6. \A e \in Device : \A n \in 1 .. Len(W'[e]) :
          \/ e = d /\ n = l + 1 /\ W'[e][n] = r
          \/ n \in 1 .. Len(W[e]) /\ W'[e][n] = W[e][n]
      BY <1>2, <1>3, <1>4
<1> HIDE DEF l
<1>7. PlaceInv'
  <2> SUFFICES ASSUME NEW e \in Device, NEW n \in 1 .. Len(W'[e])
               PROVE  /\ W'[e][n].config.owner = e
                      /\ state'[W'[e][n].id] = "pending"
                      /\ W'[e][n].retryCount + tries'[W'[e][n].id] = Retries
      BY DEF PlaceInv
  <2>1. CASE e = d /\ n = l + 1 /\ W'[e][n] = r
        BY <1>1, <2>1 DEF TypeOK
  <2>2. CASE n \in 1 .. Len(W[e]) /\ W'[e][n] = W[e][n]
        BY <1>5, <2>2 DEF TypeOK, QueueInv, PlaceInv
  <2> QED
      BY <1>6, <2>1, <2>2
<1>8. OnceInv'
  <2> SUFFICES ASSUME NEW e \in Device, NEW f \in Device,
                      NEW m \in 1 .. Len(W'[e]), NEW n \in 1 .. Len(W'[f]),
                      W'[e][m].id = W'[f][n].id
               PROVE  e = f /\ m = n
      BY DEF OnceInv
  <2> QED
      BY <1>5, <1>6 DEF QueueInv, OnceInv
<1>9. KeptInv'
  <2> SUFFICES ASSUME NEW i \in Id, state'[i] = "pending"
               PROVE  \E e \in Device : \E n \in 1 .. Len(W'[e]) : W'[e][n].id = i
      BY DEF KeptInv
  <2>1. CASE i = next
        BY <1>2, <1>3, <2>1 DEF l
  <2>2. CASE i # next
    <3>1. PICK e \in Device : \E n \in 1 .. Len(W[e]) : W[e][n].id = i
          BY <2>2 DEF TypeOK, QueueInv, KeptInv
    <3>2. PICK n \in 1 .. Len(W[e]) : W[e][n].id = i
          BY <3>1
    <3>3. n \in 1 .. Len(W'[e]) /\ W'[e][n] = W[e][n]
          BY <1>2, <1>3, <1>4 DEF l
    <3> QED
        BY <3>2, <3>3
  <2> QED
      BY <2>1, <2>2
<1>10. FreshInv'
       BY <1>1 DEF TypeOK, QueueInv, FreshInv, Id
<1>11. OrderInv'
  <2> SUFFICES ASSUME NEW e \in Device, NEW m \in 1 .. Len(W'[e]), NEW n \in 1 .. Len(W'[e]),
                      m < n, W'[e][n].id < W'[e][m].id
               PROVE  tries'[W'[e][n].id] > 0
      BY DEF OrderInv
  <2>1. CASE e = d /\ n = l + 1 /\ W'[e][n] = r
    <3>1. m \in 1 .. Len(W[e]) /\ W'[e][m] = W[e][m]
          BY <1>2, <1>3, <2>1 DEF l
    <3> QED
        BY <1>1, <1>5, <2>1, <3>1 DEF Id
  <2>2. CASE n \in 1 .. Len(W[e]) /\ W'[e][n] = W[e][n]
    <3>1. m \in 1 .. Len(W[e]) /\ W'[e][m] = W[e][m]
          BY <1>2, <1>3, <1>4, <2>2 DEF l
    <3> QED
        BY <2>2, <3>1 DEF QueueInv, OrderInv
  <2> QED
      BY <1>6, <2>1, <2>2
<1> QED
    BY <1>7, <1>8, <1>9, <1>10, <1>11 DEF QueueInv

(* Where an element of the other lists, or of the rest of this one, was    *)
(* before the first of the list was taken off; p is its place then.        *)
Before(d, e, n) == IF e = d THEN n + 1 ELSE n

LEMMA HeadOff ==
    ASSUME TypeOK, QueueInv, NEW d \in Device, W[d] # <<>>
    PROVE  /\ W[d][1] \in WriteRequest /\ W[d][1].id \in Id /\ W[d][1].id \in Nat
           /\ W[d][1].config.owner = d /\ state[W[d][1].id] = "pending"
           /\ W[d][1].retryCount + tries[W[d][1].id] = Retries
           /\ Tail(W[d]) \in Seq(WriteRequest) /\ Len(W[d]) \in Nat \ {0}
           /\ Len(Tail(W[d])) = Len(W[d]) - 1
           /\ \A n \in 1 .. Len(W[d]) - 1 : Tail(W[d])[n] = W[d][n + 1]
           /\ \A e \in Device : \A n \in 1 .. Len(W[e]) :
                 /\ W[e][n] \in WriteRequest /\ W[e][n].id \in Id /\ W[e][n].id \in Nat
                 /\ W[e][n].id = W[d][1].id => e = d /\ n = 1
<1>1. W \in [Device -> Seq(WriteRequest)]
      BY WTypes
<1>2. /\ Tail(W[d]) \in Seq(WriteRequest) /\ Len(W[d]) \in Nat \ {0}
      /\ Len(Tail(W[d])) = Len(W[d]) - 1
      /\ \A n \in 1 .. Len(W[d]) - 1 : Tail(W[d])[n] = W[d][n + 1]
      BY <1>1, TailElements
<1>3. \A e \in Device : \A n \in 1 .. Len(W[e]) :
          W[e][n] \in WriteRequest /\ W[e][n].id \in Id /\ W[e][n].id \in Nat
  <2> SUFFICES ASSUME NEW e \in Device, NEW n \in 1 .. Len(W[e])
               PROVE  W[e][n] \in WriteRequest /\ W[e][n].id \in Id /\ W[e][n].id \in Nat
      OBVIOUS
  <2>1. W[e][n] \in WriteRequest
        BY <1>1, ElementOfSeq
  <2> QED
      BY <2>1, WriteQueueAssumption DEF WriteRequest, Id
<1>4. 1 \in 1 .. Len(W[d])
      BY <1>2
<1>5. /\ W[d][1].config.owner = d /\ state[W[d][1].id] = "pending"
      /\ W[d][1].retryCount + tries[W[d][1].id] = Retries
      BY <1>4 DEF QueueInv, PlaceInv
<1>6. \A e \in Device : \A n \in 1 .. Len(W[e]) : W[e][n].id = W[d][1].id => e = d /\ n = 1
      BY <1>4 DEF QueueInv, OnceInv
<1> QED
    BY <1>2, <1>3, <1>4, <1>5, <1>6

(* The first request of a list is settled. *)
LEMMA Leaves ==
    ASSUME TypeOK, QueueInv,
           NEW d \in Device, W[d] # <<>>,
           NEW how \in {"done", "dropped"},
           W' = [W EXCEPT ![d] = Tail(@)],
           state' = [state EXCEPT ![W[d][1].id] = how],
           next' = next,
           \A i \in Id : i # W[d][1].id => tries'[i] = tries[i]
    PROVE  QueueInv'
<1> DEFINE h == W[d][1].id
<1>1. W \in [Device -> Seq(WriteRequest)]
      BY WTypes
<1>2. /\ h \in Id /\ h \in Nat /\ state[h] = "pending"
      /\ Len(W[d]) \in Nat \ {0} /\ Len(W'[d]) = Len(W[d]) - 1
      /\ \A n \in 1 .. Len(W[d]) - 1 : W'[d][n] = W[d][n + 1]
  <2> DEFINE t == Tail(W[d])
  <2>1. W'[d] = t
        BY <1>1
  <2>2. h \in Id /\ h \in Nat /\ state[h] = "pending"
        BY HeadOff
  <2>3. /\ Len(W[d]) \in Nat \ {0} /\ Len(t) = Len(W[d]) - 1
        /\ \A n \in 1 .. Len(W[d]) - 1 : t[n] = W[d][n + 1]
        BY HeadOff
  <2> HIDE DEF t, h
  <2> QED
      BY <2>1, <2>2, <2>3
<1>3. \A e \in Device : e # d => W'[e] = W[e]
      BY <1>1
<1>4. \A e \in Device : \A n \in 1 .. Len(W[e]) :
          W[e][n].id \in Id /\ W[e][n].id \in Nat /\ (W[e][n].id = h => e = d /\ n = 1)
      BY HeadOff
<1>5. ASSUME NEW e \in Device, NEW n \in 1 .. Len(W'[e])
      PROVE  /\ Before(d, e, n) \in 1 .. Len(W[e])
             /\ W'[e][n] = W[e][Before(d, e, n)]
             /\ W[e][Before(d, e, n)].id # h
  <2>1. CASE e = d
        BY <1>2, <1>4, <2>1 DEF Before
  <2>2. CASE e # d
        BY <1>3, <1>4, <2>2 DEF Before
  <2> QED
      BY <2>1, <2>2
<1> HIDE DEF h
<1>6. /\ \A i \in Id : i # h => tries'[i] = tries[i] /\ state'[i] = state[i]
      /\ state'[h] # "pending"
      BY <1>2 DEF h, TypeOK
<1>7. PlaceInv'
  <2> SUFFICES ASSUME NEW e \in Device, NEW n \in 1 .. Len(W'[e])
               PROVE  /\ W'[e][n].config.owner = e
                      /\ state'[W'[e][n].id] = "pending"
                      /\ W'[e][n].retryCount + tries'[W'[e][n].id] = Retries
      BY DEF PlaceInv
  <2> DEFINE p == Before(d, e, n)
  <2>1. p \in 1 .. Len(W[e]) /\ W'[e][n] = W[e][p] /\ W[e][p].id # h /\ W[e][p].id \in Id
        BY <1>4, <1>5
  <2>2. /\ W[e][p].config.owner = e /\ state[W[e][p].id] = "pending"
        /\ W[e][p].retryCount + tries[W[e][p].id] = Retries
        BY <2>1 DEF QueueInv, PlaceInv
  <2> HIDE DEF p
  <2> QED
      BY <1>6, <2>1, <2>2
<1>8. OnceInv'
  <2> SUFFICES ASSUME NEW e \in Device, NEW f \in Device,
                      NEW m \in 1 .. Len(W'[e]), NEW n \in 1 .. Len(W'[f]),
                      W'[e][m].id = W'[f][n].id
               PROVE  e = f /\ m = n
      BY DEF OnceInv
  <2>1. e = f /\ Before(d, e, m) = Before(d, f, n)
        BY <1>5 DEF QueueInv, OnceInv
  <2> QED
      BY <2>1 DEF Before
<1>9. KeptInv'
  <2> SUFFICES ASSUME NEW i \in Id, state'[i] = "pending"
               PROVE  \E e \in Device : \E n \in 1 .. Len(W'[e]) : W'[e][n].id = i
      BY DEF KeptInv
  <2>1. i # h /\ state[i] = "pending"
        BY <1>2, <1>6
  <2>2. PICK e \in Device : \E n \in 1 .. Len(W[e]) : W[e][n].id = i
        BY <2>1 DEF QueueInv, KeptInv
  <2>3. PICK n \in 1 .. Len(W[e]) : W[e][n].id = i
        BY <2>2
  <2>4. CASE e = d
    <3>1. n # 1
          BY <2>1, <2>3, <2>4 DEF h
    <3>2. n - 1 \in 1 .. Len(W'[d]) /\ n - 1 \in 1 .. Len(W[d]) - 1 /\ (n - 1) + 1 = n
          BY <1>2, <2>4, <3>1
    <3>3. W'[d][n - 1] = W[d][n]
          BY <1>2, <3>2
    <3> QED
        BY <2>3, <2>4, <3>2, <3>3
  <2>5. CASE e # d
        BY <1>3, <2>3, <2>5
  <2> QED
      BY <2>4, <2>5
<1>10. FreshInv'
  <2>1. \A i \in Id : i >= next => i # h
        BY <1>2 DEF QueueInv, FreshInv
  <2> QED
      BY <1>6, <2>1 DEF QueueInv, FreshInv
<1>11. OrderInv'
  <2> SUFFICES ASSUME NEW e \in Device, NEW m \in 1 .. Len(W'[e]), NEW n \in 1 .. Len(W'[e]),
                      m < n, W'[e][n].id < W'[e][m].id
               PROVE  tries'[W'[e][n].id] > 0
      BY DEF OrderInv
  <2>1. Before(d, e, m) < Before(d, e, n)
        BY DEF Before
  <2>2. tries[W[e][Before(d, e, n)].id] > 0
        BY <1>5, <2>1 DEF QueueInv, OrderInv
  <2> QED
      BY <1>4, <1>5, <1>6, <2>2
<1> QED
    BY <1>7, <1>8, <1>9, <1>10, <1>11 DEF QueueInv

(* An attempt on the first request of a list fails, and the request is put *)
(* back at the end.                                                        *)
LEMMA Returns ==
    ASSUME TypeOK, QueueInv,
           NEW d \in Device, W[d] # <<>>,
           NEW r \in WriteRequest,
           r.id = W[d][1].id, r.config = W[d][1].config,
           r.retryCount = W[d][1].retryCount - 1,
           W' = [W EXCEPT ![d] = Append(Tail(@), r)],
           tries' = [tries EXCEPT ![W[d][1].id] = @ + 1],
           UNCHANGED <<state, next>>
    PROVE  QueueInv'
<1> DEFINE h == W[d][1].id
           l == Len(W[d])
<1>1. W \in [Device -> Seq(WriteRequest)]
      BY WTypes
<1>2. /\ h \in Id /\ h \in Nat /\ state[h] = "pending" /\ W[d][1].config.owner = d
      /\ W[d][1].retryCount + tries[h] = Retries
      BY HeadOff
<1>3. /\ l \in Nat \ {0} /\ Len(W'[d]) = l /\ W'[d][l] = r
      /\ \A n \in 1 .. l - 1 : W'[d][n] = W[d][n + 1]
  <2> DEFINE t == Tail(W[d])
             a == Append(t, r)
  <2>1. W'[d] = a
        BY <1>1
  <2>2. /\ t \in Seq(WriteRequest) /\ l \in Nat \ {0} /\ Len(t) = l - 1
        /\ \A n \in 1 .. l - 1 : t[n] = W[d][n + 1]
        BY HeadOff
  <2> HIDE DEF t, l
  <2>3. /\ Len(a) = Len(t) + 1 /\ a[Len(t) + 1] = r
        /\ \A n \in 1 .. Len(t) : a[n] = t[n]
        BY <2>2, AppendProperties
  <2> HIDE DEF a
  <2>4. Len(t) + 1 = l
        BY <2>2
  <2> QED
      BY <2>1, <2>2, <2>3, <2>4
<1>4. \A e \in Device : e # d => W'[e] = W[e]
      BY <1>1
<1>5. \A e \in Device : \A n \in 1 .. Len(W[e]) :
          W[e][n].id \in Id /\ W[e][n].id \in Nat /\ (W[e][n].id = h => e = d /\ n = 1)
      BY HeadOff
<1>6. ASSUME NEW e \in Device, NEW n \in 1 .. Len(W'[e]), ~(e = d /\ n = l)
      PROVE  /\ Before(d, e, n) \in 1 .. Len(W[e])
             /\ W'[e][n] = W[e][Before(d, e, n)]
             /\ W[e][Before(d, e, n)].id # h
  <2>1. CASE e = d
        BY <1>3, <1>5, <1>6, <2>1 DEF Before
  <2>2. CASE e # d
        BY <1>4, <1>5, <2>2 DEF Before
  <2> QED
      BY <2>1, <2>2
<1> HIDE DEF h, l
<1>7. /\ \A i \in Id : i # h => tries'[i] = tries[i]
      /\ tries'[h] = tries[h] + 1 /\ tries[h] \in Nat
      /\ W[d][1].retryCount \in Nat /\ Retries \in Nat
  <2>1. tries \in [Id -> 0 .. Retries + 1] /\ Retries \in Nat
        BY WriteQueueAssumption DEF TypeOK
  <2>2. W[d][1].retryCount \in 0 .. Retries
        BY HeadOff DEF WriteRequest
  <2>3. tries' = [tries EXCEPT ![h] = tries[h] + 1]
        BY DEF h
  <2> QED
      BY <1>2, <2>1, <2>2, <2>3
<1>8. PlaceInv'
  <2> SUFFICES ASSUME NEW e \in Device, NEW n \in 1 .. Len(W'[e])
               PROVE  /\ W'[e][n].config.owner = e
                      /\ state'[W'[e][n].id] = "pending"
                      /\ W'[e][n].retryCount + tries'[W'[e][n].id] = Retries
      BY DEF PlaceInv
  <2>1. CASE e = d /\ n = l
    <3>1. W'[e][n] = r /\ r.id = h
          BY <1>3, <2>1 DEF h
    <3>2. r.config.owner = d /\ state'[h] = "pending" /\ tries'[h] = tries[h] + 1
          BY <1>2, <1>7
    <3>3. r.retryCount + (tries[h] + 1) = Retries
      <4> DEFINE k == W[d][1].retryCount
                 a == r.retryCount
                 b == tries[h]
      <4>1. k \in Nat /\ b \in Nat /\ a = k - 1 /\ k + b = Retries
            BY <1>2, <1>7
      <4> HIDE DEF k, a, b
      <4>2. a + (b + 1) = Retries
            BY <4>1
      <4> QED
          BY <4>2 DEF a, b
    <3> QED
        BY <2>1, <3>1, <3>2, <3>3, Zenon
  <2>2. CASE ~(e = d /\ n = l)
    <3> DEFINE p == Before(d, e, n)
    <3>1. p \in 1 .. Len(W[e]) /\ W'[e][n] = W[e][p] /\ W[e][p].id # h /\ W[e][p].id \in Id
          BY <1>5, <1>6, <2>2
    <3>2. /\ W[e][p].config.owner = e /\ state[W[e][p].id] = "pending"
          /\ W[e][p].retryCount + tries[W[e][p].id] = Retries
          BY <3>1 DEF QueueInv, PlaceInv
    <3> HIDE DEF p
    <3> QED
        BY <1>7, <3>1, <3>2
  <2> QED
      BY <2>1, <2>2
<1>9. OnceInv'
  <2> SUFFICES ASSUME NEW e \in Device, NEW f \in Device,
                      NEW m \in 1 .. Len(W'[e]), NEW n \in 1 .. Len(W'[f]),
                      W'[e][m].id = W'[f][n].id
               PROVE  e = f /\ m = n
      BY DEF OnceInv
  <2>1. W'[d][l].id = h
        BY <1>3 DEF h
  <2>2. CASE e = d /\ m = l
    <3>1. W'[f][n].id = h
          BY <2>1, <2>2
    <3> QED
        BY <1>6, <2>2, <3>1
  <2>3. CASE f = d /\ n = l
    <3>1. W'[e][m].id = h
          BY <2>1, <2>3
    <3> QED
        BY <1>6, <2>3, <3>1
  <2>4. CASE ~(e = d /\ m = l) /\ ~(f = d /\ n = l)
    <3>1. e = f /\ Before(d, e, m) = Before(d, f, n)
          BY <1>6, <2>4 DEF QueueInv, OnceInv
    <3> QED
        BY <3>1 DEF Before
  <2> QED
      BY <2>2, <2>3, <2>4
<1>10. KeptInv'
  <2> SUFFICES ASSUME NEW i \in Id, state[i] = "pending"
               PROVE  \E e \in Device : \E n \in 1 .. Len(W'[e]) : W'[e][n].id = i
      BY DEF KeptInv
  <2>1. CASE i = h
        BY <1>3, <2>1 DEF h
  <2>2. CASE i # h
    <3>1. PICK e \in Device : \E n \in 1 .. Len(W[e]) : W[e][n].id = i
          BY DEF QueueInv, KeptInv
    <3>2. PICK n \in 1 .. Len(W[e]) : W[e][n].id = i
          BY <3>1
    <3>3. CASE e = d
      <4>1. n # 1
            BY <2>2, <3>2, <3>3 DEF h
      <4>2. n - 1 \in 1 .. Len(W'[d]) /\ n - 1 \in 1 .. l - 1 /\ (n - 1) + 1 = n
            BY <1>3, <3>3, <4>1 DEF l
      <4>3. W'[d][n - 1] = W[d][n]
            BY <1>3, <4>2
      <4> QED
          BY <3>2, <3>3, <4>2, <4>3
    <3>4. CASE e # d
          BY <1>4, <3>2, <3>4
    <3> QED
        BY <3>3, <3>4
  <2> QED
      BY <2>1, <2>2
<1>11. FreshInv'
  <2>1. \A i \in Id : i >= next => i # h
        BY <1>2 DEF QueueInv, FreshInv
  <2> QED
      BY <1>7, <2>1 DEF QueueInv, FreshInv
<1>12. OrderInv'
  <2> SUFFICES ASSUME NEW e \in Device, NEW m \in 1 .. Len(W'[e]), NEW n \in 1 .. Len(W'[e]),
                      m < n, W'[e][n].id < W'[e][m].id
               PROVE  tries'[W'[e][n].id] > 0
      BY DEF OrderInv
  <2>1. CASE e = d /\ n = l
    <3>1. W'[e][n].id = h
          BY <1>3, <2>1 DEF h
    <3>2. tries'[W'[e][n].id] = tries[h] + 1
          BY <1>7, <3>1, Zenon
    <3>3. tries[h] + 1 > 0
      <4> DEFINE k == tries[h]
      <4>1. k \in Nat
            BY <1>7
      <4> HIDE DEF k
      <4>2. k + 1 > 0
            BY <4>1
      <4> QED
          BY <4>2 DEF k
    <3> QED
        BY <3>2, <3>3, Zenon
  <2>2. CASE ~(e = d /\ n = l)
    <3>1. ~(e = d /\ m = l)
          BY <1>3, <2>2
    <3>2. Before(d, e, m) < Before(d, e, n)
          BY DEF Before
    <3>3. tries[W[e][Before(d, e, n)].id] > 0
          BY <1>6, <2>2, <3>1, <3>2 DEF QueueInv, OrderInv
    <3> QED
        BY <1>5, <1>6, <1>7, <2>2, <3>3
  <2> QED
      BY <2>1, <2>2
<1> QED
    BY <1>8, <1>9, <1>10, <1>11, <1>12 DEF QueueInv

(* AllPending and Waiting are about the same requests. *)
LEMMA PendingIsWaiting ==
    ASSUME TypeOK, NEW d \in Device
    PROVE  /\ DOMAIN Waiting(d) = 1 .. Len(W[d]) /\ Waiting(d) = W[d]
           /\ Pending(d) = {W[d][n].id : n \in 1 .. Len(W[d])}
<1> DEFINE t == taken[d]
           q == m_writes[d]
           w == W[d]
<1>1. t \in Seq(WriteRequest) /\ q \in Seq(WriteRequest)
      BY DEF TypeOK
<1>2. w = t \o q /\ Waiting(d) = w
      BY DEF W, Waiting
<1>3. /\ Len(t) \in Nat /\ Len(q) \in Nat /\ Len(w) = Len(t) + Len(q) /\ w \in Seq(WriteRequest)
      /\ \A i \in 1 .. Len(t) + Len(q) : w[i] = IF i <= Len(t) THEN t[i] ELSE q[i - Len(t)]
  <2> HIDE DEF t, q, w
  <2> QED
      BY <1>1, <1>2, ConcatProperties
<1>4. Pending(d) = {t[n].id : n \in DOMAIN t} \cup {q[n].id : n \in DOMAIN q}
      BY DEF Pending
<1> HIDE DEF t, q, w
<1>5. DOMAIN t = 1 .. Len(t) /\ DOMAIN q = 1 .. Len(q) /\ DOMAIN w = 1 .. Len(w)
      BY <1>1, <1>3
<1>6. ASSUME NEW i \in Pending(d) PROVE i \in {w[n].id : n \in 1 .. Len(w)}
  <2>1. CASE \E n \in 1 .. Len(t) : i = t[n].id
        BY <1>3, <2>1
  <2>2. CASE \E n \in 1 .. Len(q) : i = q[n].id
    <3>1. PICK n \in 1 .. Len(q) : i = q[n].id
          BY <2>2
    <3>2. /\ Len(t) + n \in 1 .. Len(w) /\ ~(Len(t) + n <= Len(t)) /\ (Len(t) + n) - Len(t) = n
          BY <1>3
    <3>3. w[Len(t) + n] = q[n]
          BY <1>3, <3>2
    <3> QED
        BY <3>1, <3>2, <3>3
  <2> QED
      BY <1>4, <1>5, <2>1, <2>2
<1>7. ASSUME NEW n \in 1 .. Len(w) PROVE w[n].id \in Pending(d)
  <2>1. CASE n <= Len(t)
        BY <1>3, <1>4, <1>5, <2>1
  <2>2. CASE n > Len(t)
    <3>1. n - Len(t) \in DOMAIN q /\ w[n] = q[n - Len(t)]
          BY <1>3, <1>5, <2>2
    <3> QED
        BY <1>4, <3>1
  <2> QED
      BY <1>3, <2>1, <2>2
<1> QED
    BY <1>2, <1>5, <1>6, <1>7 DEF w

(* reset() empties every list, and what was on one is lost. *)
LEMMA ResetInv ==
    ASSUME TypeOK, QueueInv, WorkerInv, active = {}, Reset, UNCHANGED <<taken, next>>
    PROVE  QueueInv'
<1>1. \A d \in Device : taken[d] = <<>>
      BY DEF WorkerInv, TypeOK
<1>2. \A d \in Device : W'[d] = <<>>
  <2>1. <<>> \in Seq(WriteRequest) /\ <<>> \o <<>> = <<>>
        BY ConcatEmptySeq
  <2> QED
      BY <1>1, <2>1 DEF W, Waiting, Reset, NoWrites
<1>3. \A d \in Device : 1 .. Len(W'[d]) = {}
      BY <1>2
<1>4. \A i \in Id : state'[i] # "pending"
  <2> SUFFICES ASSUME NEW i \in Id, state[i] = "pending" PROVE i \in AllPending
      BY DEF Reset
  <2>1. PICK d \in Device : \E n \in 1 .. Len(W[d]) : W[d][n].id = i
        BY DEF QueueInv, KeptInv
  <2> QED
      BY <2>1, PendingIsWaiting DEF AllPending
<1>5. FreshInv'
  <2> SUFFICES ASSUME NEW i \in Id, i >= next PROVE state'[i] = "none" /\ tries[i] = 0
      BY DEF FreshInv, Reset
  <2>1. state[i] = "none" /\ tries[i] = 0
        BY DEF QueueInv, FreshInv
  <2>2. i \notin AllPending
    <3> SUFFICES ASSUME NEW d \in Device, i \in Pending(d) PROVE FALSE
        BY DEF AllPending
    <3>1. PICK n \in 1 .. Len(W[d]) : W[d][n].id = i
          BY PendingIsWaiting
    <3> QED
        BY <2>1, <3>1 DEF QueueInv, PlaceInv
  <2> QED
      BY <2>1, <2>2 DEF Reset
<1> QED
    BY <1>3, <1>4, <1>5 DEF QueueInv, PlaceInv, OnceInv, KeptInv, OrderInv

-----------------------------------------------------------------------------
(* The actions *)

LEMMA InitInv == Init => Inv
<1> SUFFICES ASSUME Init PROVE Inv
    OBVIOUS
<1>1. TypeOK
  <2>1. <<>> \in Seq(WriteRequest) /\ <<>> \in Seq(Addr)
        OBVIOUS
  <2>2. Unmapped \in RegisterConfig
        BY DEF Unmapped, RegisterConfig, Kind
  <2>3. reg \in [Addr -> RegisterConfig]
        BY <2>2 DEF Init
  <2>4. next \in 1 .. MaxWrites + 1 /\ tries \in [Id -> 0 .. Retries + 1]
        BY WriteQueueAssumption DEF Init
  <2> QED
      BY <2>1, <2>3, <2>4 DEF Init, TypeOK, NoWrites
<1>2. WorkerInv
      BY DEF Init, WorkerInv, NoWrites
<1>3. \A d \in Device : W[d] = <<>>
  <2>1. <<>> \in Seq(WriteRequest) /\ <<>> \o <<>> = <<>>
        BY ConcatEmptySeq
  <2> QED
      BY <2>1 DEF Init, W, Waiting, NoWrites
<1>4. \A d \in Device : 1 .. Len(W[d]) = {}
      BY <1>3
<1>5. PlaceInv /\ OnceInv /\ OrderInv
      BY <1>4 DEF PlaceInv, OnceInv, OrderInv
<1>6. KeptInv /\ FreshInv
      BY DEF Init, KeptInv, FreshInv
<1> QED
    BY <1>1, <1>2, <1>5, <1>6 DEF Inv, QueueInv

(* Actions that leave the lists and the requests alone. *)
LEMMA QuietQueue ==
    ASSUME QueueInv, UNCHANGED <<m_writes, taken, next, history>>
    PROVE  QueueInv'
<1>1. W' = W /\ UNCHANGED <<state, tries, next>>
      BY DEF W, Waiting, history
<1> QED
    BY <1>1, QueueUnchanged

LEMMA EnqueueInv ==
    ASSUME Inv, NEW a \in Addr, Mapped(a), NEW words \in 0 .. 2, NEW bits \in 0 .. 2,
           Enqueue(a, words, bits), UNCHANGED <<catalog, worker>>, todo' \in Seq(Addr)
    PROVE  Inv'
<1> DEFINE d == reg[a].owner
           r == [id |-> next, config |-> reg[a], words |-> words, bits |-> bits,
                 retryCount |-> Retries]
<1>1. /\ next \in Id /\ m_writes' = [m_writes EXCEPT ![d] = Append(@, r)] /\ next' = next + 1
      /\ state' = [state EXCEPT ![next] = "pending"] /\ UNCHANGED <<tries, reached>>
      BY DEF Enqueue
<1>2. reg[a] \in RegisterConfig /\ d \in Device
      BY DEF Inv, TypeOK, Mapped, RegisterConfig
<1>3. r \in WriteRequest /\ r.id = next /\ r.retryCount = Retries /\ r.config.owner = d
      BY <1>1, <1>2, WriteQueueAssumption DEF WriteRequest
<1>4. UNCHANGED <<phase, device, reg, active, inFlush, taken>>
      BY DEF catalog, worker
<1> HIDE DEF d, r
<1>5. m_writes \in [Device -> Seq(WriteRequest)] /\ taken \in [Device -> Seq(WriteRequest)]
      BY DEF Inv, TypeOK
<1>6. TypeOK'
  <2>1. m_writes' \in [Device -> Seq(WriteRequest)]
        BY <1>1, <1>2, <1>3, <1>5, AppendProperties
  <2>2. /\ next' \in 1 .. MaxWrites + 1
        /\ state' \in [Id -> {"none", "pending", "done", "dropped", "lost"}]
        BY <1>1, WriteQueueAssumption DEF Inv, TypeOK, Id
  <2> QED
      BY <1>1, <1>4, <2>1, <2>2 DEF Inv, TypeOK
<1>7. WorkerInv'
      BY <1>4 DEF Inv, WorkerInv
<1>8. W' = [W EXCEPT ![d] = Append(@, r)]
  <2>1. taken[d] \o Append(m_writes[d], r) = Append(taken[d] \o m_writes[d], r)
        BY <1>2, <1>3, <1>5, ConcatAppend
  <2> QED
      BY <1>1, <1>2, <1>4, <1>5, <2>1 DEF W, Waiting
<1>9. QueueInv'
      BY <1>1, <1>2, <1>3, <1>8, Arrives DEF Inv
<1> QED
    BY <1>6, <1>7, <1>9 DEF Inv

LEMMA ClientInv ==
    ASSUME Inv, ClientCall \/ \E a \in Addr : ForwardOne(a)
    PROVE  Inv'
<1>1. ASSUME NEW a \in Addr, NEW n \in 0 .. 2, HandleWriteRegister(a, n) PROVE Inv'
  <2> DEFINE b == IF reg[a].kind = "coil" THEN n ELSE 0
  <2>1. /\ b \in 0 .. 2 /\ Mapped(a) /\ Enqueue(a, n, b) /\ UNCHANGED <<catalog, worker>>
        /\ todo' \in Seq(Addr)
        BY <1>1 DEF HandleWriteRegister, Inv, TypeOK
  <2> HIDE DEF b
  <2> QED
      BY <2>1, EnqueueInv
<1>2. ASSUME NEW a \in Addr, NEW access, HandlePostHmiWrite(a, access) PROVE Inv'
  <2> DEFINE b == IF reg[a].kind = "coil" THEN 1 ELSE 0
  <2>1. b \in 0 .. 2 /\ 1 \in 0 .. 2
        OBVIOUS
  <2>2. Mapped(a) /\ Enqueue(a, 1, b) /\ UNCHANGED <<catalog, worker, todo>>
        BY <1>2 DEF HandlePostHmiWrite
  <2>3. todo' \in Seq(Addr)
        BY <2>2 DEF Inv, TypeOK
  <2> HIDE DEF b
  <2> QED
      BY <2>1, <2>2, <2>3, EnqueueInv
<1>3. ASSUME NEW lo \in Addr, NEW hi \in Addr, ForwardWrite(lo, hi) PROVE Inv'
  <2>1. UNCHANGED <<phase, device, reg, m_writes, active, inFlush, taken, next, history>>
        BY <1>3 DEF ForwardWrite, catalog, worker
  <2>2. todo' \in Seq(Addr)
    <3>1. /\ lo \in Nat /\ hi \in Nat /\ lo <= hi /\ hi <= MaxAddr /\ MaxAddr \in Nat
          /\ todo' = [i \in 1 .. hi - lo + 1 |-> lo + i - 1]
          BY <1>3, WriteQueueAssumption DEF ForwardWrite, Addr
    <3>2. hi - lo + 1 \in Nat /\ \A i \in 1 .. hi - lo + 1 : lo + i - 1 \in Addr
          BY <3>1 DEF Addr
    <3> QED
        BY <3>1, <3>2, IsASeq
  <2>3. TypeOK' /\ WorkerInv'
        BY <2>1, <2>2 DEF Inv, TypeOK, WorkerInv, history
  <2> QED
      BY <2>1, <2>3, QuietQueue DEF Inv
<1>4. ASSUME NEW a \in Addr, ForwardOne(a) PROVE Inv'
  <2>1. UNCHANGED <<catalog, worker>> /\ todo' \in Seq(Addr)
        BY <1>4, HeadTailProperties DEF ForwardOne, Idle, Inv, TypeOK
  <2>2. CASE Mapped(a)
    <3>1. Enqueue(a, 1, 0) /\ 1 \in 0 .. 2 /\ 0 \in 0 .. 2
          BY <1>4, <2>2 DEF ForwardOne
    <3> QED
        BY <2>1, <2>2, <3>1, EnqueueInv
  <2>3. CASE ~Mapped(a)
    <3>1. UNCHANGED <<phase, device, reg, m_writes, active, inFlush, taken, next, history>>
          BY <1>4, <2>1, <2>3 DEF ForwardOne, catalog, worker
    <3>2. TypeOK' /\ WorkerInv'
          BY <2>1, <3>1 DEF Inv, TypeOK, WorkerInv, history
    <3> QED
        BY <3>1, <3>2, QuietQueue DEF Inv
  <2> QED
      BY <2>2, <2>3
<1> QED
    BY <1>1, <1>2, <1>3, <1>4 DEF ClientCall

LEMMA PollingInv ==
    ASSUME Inv,
           \/ \E portOpens \in BOOLEAN : Start(portOpens)
           \/ Stop \/ Join
           \/ \E d \in Device : Exit(d) \/ FlushEnds(d)
    PROVE  Inv'
<1>1. UNCHANGED <<device, reg, m_writes, taken, todo, next, history>>
      BY DEF Start, Stop, Join, Exit, FlushEnds, catalog, worker
<1>2. QueueInv'
      BY <1>1, QuietQueue DEF Inv
<1>3. CASE \E portOpens \in BOOLEAN : Start(portOpens)
  <2>1. /\ phase = "stopped" /\ phase' = "running" /\ inFlush' = inFlush
        /\ active' \subseteq {d \in Device : device[d] = "enabled"}
        BY <1>3 DEF Start
  <2>2. inFlush = {}
        BY <2>1 DEF Inv, TypeOK, WorkerInv
  <2> QED
      BY <1>1, <1>2, <2>1, <2>2 DEF Inv, TypeOK, WorkerInv, history
<1>4. CASE Stop \/ Join
      BY <1>1, <1>2, <1>4 DEF Stop, Join, worker, Inv, TypeOK, WorkerInv, history
<1>5. CASE \E d \in Device : Exit(d) \/ FlushEnds(d)
      BY <1>1, <1>2, <1>5 DEF Exit, FlushEnds, catalog, Inv, TypeOK, WorkerInv, history
<1> QED
    BY <1>3, <1>4, <1>5

LEMMA EditInv ==
    ASSUME Inv, Edit \/ ProcessRestart
    PROVE  Inv'
<1>1. phase = "stopped" /\ active = {} /\ UNCHANGED <<phase, active, inFlush, taken, todo, next>>
      BY DEF Edit, PostDevice, PutDevice, DeleteDevice, EditRegister, ProcessRestart, CanEdit,
             Inv, WorkerInv, catalog, worker
<1>2. WorkerInv'
      BY <1>1 DEF Inv, WorkerInv
<1>3. device' \in [Device -> {"enabled", "disabled", "absent"}]
      BY DEF Edit, PostDevice, PutDevice, DeleteDevice, EditRegister, ProcessRestart, catalog,
             Inv, TypeOK
<1>4. reg' \in [Addr -> RegisterConfig]
  <2>1. Unmapped \in RegisterConfig
        BY DEF Unmapped, RegisterConfig, Kind
  <2> QED
      BY <2>1 DEF Edit, PostDevice, PutDevice, DeleteDevice, EditRegister, ProcessRestart,
                  catalog, Inv, TypeOK
<1>5. CASE UNCHANGED <<m_writes, history>>
  <2>1. TypeOK'
        BY <1>1, <1>3, <1>4, <1>5 DEF Inv, TypeOK, history
  <2> QED
      BY <1>1, <1>2, <1>5, <2>1, QuietQueue DEF Inv
<1>6. CASE Reset
  <2>1. TypeOK'
    <3>1. m_writes' \in [Device -> Seq(WriteRequest)]
          BY <1>6 DEF Reset, NoWrites
    <3>2. state' \in [Id -> {"none", "pending", "done", "dropped", "lost"}]
          BY <1>6 DEF Reset, Inv, TypeOK
    <3> QED
        BY <1>1, <1>3, <1>4, <1>6, <3>1, <3>2 DEF Reset, Inv, TypeOK
  <2> QED
      BY <1>1, <1>2, <1>6, <2>1, ResetInv DEF Inv
<1> QED
    BY <1>5, <1>6 DEF Edit, PostDevice, PutDevice, DeleteDevice, EditRegister, ProcessRestart

LEMMA TakeInv ==
    ASSUME Inv, NEW d \in Device, TakeWrites(d)
    PROVE  Inv'
<1>1. /\ d \in active /\ d \notin inFlush
      /\ inFlush' = inFlush \cup {d} /\ taken' = [taken EXCEPT ![d] = m_writes[d]]
      /\ m_writes' = [m_writes EXCEPT ![d] = <<>>]
      /\ UNCHANGED <<phase, device, reg, active, todo, next, state, tries, reached>>
      BY DEF TakeWrites, catalog, history
<1>2. m_writes \in [Device -> Seq(WriteRequest)] /\ taken \in [Device -> Seq(WriteRequest)]
      BY DEF Inv, TypeOK
<1>3. m_writes' \in [Device -> Seq(WriteRequest)] /\ taken' \in [Device -> Seq(WriteRequest)]
      BY <1>1, <1>2
<1>4. TypeOK' /\ WorkerInv'
      BY <1>1, <1>2, <1>3 DEF Inv, TypeOK, WorkerInv
<1>5. W' = W
  <2>1. taken[d] = <<>>
        BY <1>1 DEF Inv, WorkerInv
  <2>2. m_writes[d] \o <<>> = m_writes[d] /\ <<>> \o m_writes[d] = m_writes[d]
        BY <1>2, ConcatEmptySeq
  <2>3. \A e \in Device : taken'[e] \o m_writes'[e] = taken[e] \o m_writes[e]
        BY <1>1, <1>2, <2>1, <2>2
  <2> QED
      BY <2>3 DEF W, Waiting
<1>6. QueueInv'
      BY <1>1, <1>5, QueueUnchanged DEF Inv
<1> QED
    BY <1>4, <1>6 DEF Inv

(* What every turn of the loop in flushWrites() does to the lists. *)
LEMMA TurnTypes ==
    ASSUME Inv, NEW d \in Device, NEW req, FlushNext(d, req)
    PROVE  /\ req \in WriteRequest /\ req.id \in Id
           /\ W[d] # <<>> /\ W[d][1] = req
           /\ Tail(W[d]) = taken'[d] \o m_writes[d]
           /\ taken' \in [Device -> Seq(WriteRequest)]
           /\ \A e \in Device : e # d => taken'[e] = taken[e]
           /\ WorkerInv'
<1>1. /\ d \in inFlush /\ taken[d] # <<>> /\ req = Head(taken[d])
      /\ taken' = [taken EXCEPT ![d] = Tail(@)]
      /\ UNCHANGED <<phase, device, active, inFlush>>
      BY DEF FlushNext, catalog
<1>2. taken \in [Device -> Seq(WriteRequest)] /\ m_writes \in [Device -> Seq(WriteRequest)]
      BY DEF Inv, TypeOK
<1>3. /\ Head(taken[d]) \in WriteRequest /\ Tail(taken[d]) \in Seq(WriteRequest)
      BY <1>1, <1>2, HeadTailProperties
<1>4. taken' \in [Device -> Seq(WriteRequest)] /\ taken'[d] = Tail(taken[d])
      BY <1>1, <1>2, <1>3
<1>5. /\ taken[d] \o m_writes[d] \in Seq(WriteRequest)
      /\ taken[d] \o m_writes[d] # <<>> /\ Head(taken[d] \o m_writes[d]) = Head(taken[d])
      /\ Tail(taken[d] \o m_writes[d]) = Tail(taken[d]) \o m_writes[d]
      BY <1>1, <1>2, TailConcat
<1>6. W[d] = taken[d] \o m_writes[d]
      BY WTypes DEF Inv
<1>7. W[d] # <<>> /\ W[d][1] = req /\ Tail(W[d]) = taken'[d] \o m_writes[d]
  <2> DEFINE w == W[d]
  <2>1. w \in Seq(WriteRequest) /\ w # <<>> /\ Head(w) = req /\ Tail(w) = taken'[d] \o m_writes[d]
        BY <1>1, <1>4, <1>5, <1>6
  <2> HIDE DEF w
  <2>2. Head(w) = w[1]
        BY <2>1, TailElements
  <2> QED
      BY <2>1, <2>2 DEF w
<1>8. req \in WriteRequest /\ req.id \in Id
      BY <1>1, <1>3 DEF WriteRequest
<1>9. WorkerInv'
      BY <1>1, <1>2 DEF Inv, WorkerInv, TypeOK
<1> QED
    BY <1>1, <1>2, <1>4, <1>7, <1>8, <1>9

LEMMA SettledInv ==
    ASSUME Inv, NEW d \in Device, NEW req, FlushNext(d, req),
           NEW how \in {"done", "dropped"}, Finish(req, how), m_writes' = m_writes,
           \/ tries' = tries
           \/ tries' = [tries EXCEPT ![req.id] = @ + 1],
           reached' \subseteq reached \cup {req.id}
    PROVE  Inv'
<1>1. /\ req \in WriteRequest /\ req.id \in Id /\ W[d] # <<>> /\ W[d][1] = req
      /\ Tail(W[d]) = taken'[d] \o m_writes[d]
      /\ taken' \in [Device -> Seq(WriteRequest)]
      /\ \A e \in Device : e # d => taken'[e] = taken[e]
      /\ WorkerInv'
      BY TurnTypes
<1>2. /\ W \in [Device -> Seq(WriteRequest)]
      /\ tries \in [Id -> 0 .. Retries + 1] /\ Retries \in Nat
      BY WTypes, WriteQueueAssumption DEF Inv, TypeOK
<1>3. tries' \in [Id -> 0 .. Retries + 1]
  <2>1. req.retryCount \in Nat /\ req.retryCount + tries[req.id] = Retries
        BY <1>1, <1>2, HeadOff DEF Inv, WriteRequest
  <2>2. tries[req.id] + 1 \in 0 .. Retries + 1
        BY <1>1, <1>2, <2>1
  <2> QED
      BY <1>1, <1>2, <2>2
<1>4. W' = [W EXCEPT ![d] = Tail(@)]
      BY <1>1, <1>2 DEF W, Waiting
<1>5. TypeOK'
  <2>1. /\ UNCHANGED <<phase, device, reg, active, inFlush, todo, next>>
        BY DEF FlushNext, catalog
  <2>2. state' \in [Id -> {"none", "pending", "done", "dropped", "lost"}]
        BY <1>1 DEF Finish, Inv, TypeOK
  <2> QED
      BY <1>1, <1>3, <2>1, <2>2 DEF Inv, TypeOK
<1>6. QueueInv'
  <2>1. /\ state' = [state EXCEPT ![W[d][1].id] = how]
        /\ \A i \in Id : i # W[d][1].id => tries'[i] = tries[i]
        BY <1>1, <1>2 DEF Finish
  <2>2. next' = next
        BY DEF FlushNext
  <2> QED
      BY <1>1, <1>4, <2>1, <2>2, Leaves DEF Inv
<1> QED
    BY <1>1, <1>5, <1>6 DEF Inv

LEMMA RequeuedInv ==
    ASSUME Inv, NEW d \in Device, NEW req, FlushNext(d, req),
           Requeue(d, req), req.retryCount > 0, state' = state,
           tries' = [tries EXCEPT ![req.id] = @ + 1],
           reached' \subseteq reached \cup {req.id}
    PROVE  Inv'
<1> DEFINE r == [req EXCEPT !.retryCount = @ - 1]
<1>1. /\ req \in WriteRequest /\ req.id \in Id /\ W[d] # <<>> /\ W[d][1] = req
      /\ Tail(W[d]) = taken'[d] \o m_writes[d]
      /\ taken' \in [Device -> Seq(WriteRequest)]
      /\ \A e \in Device : e # d => taken'[e] = taken[e]
      /\ WorkerInv'
      BY TurnTypes
<1>2. /\ W \in [Device -> Seq(WriteRequest)] /\ m_writes \in [Device -> Seq(WriteRequest)]
      /\ tries \in [Id -> 0 .. Retries + 1] /\ Retries \in Nat
      BY WTypes, WriteQueueAssumption DEF Inv, TypeOK
<1>3. /\ r \in WriteRequest /\ r.id = req.id /\ r.config = req.config
      /\ r.retryCount = req.retryCount - 1
  <2>1. req.retryCount \in 0 .. Retries /\ req.retryCount - 1 \in 0 .. Retries
        BY <1>1, <1>2 DEF WriteRequest
  <2>2. req = [id |-> req.id, config |-> req.config, words |-> req.words, bits |-> req.bits,
               retryCount |-> req.retryCount]
        BY <1>1 DEF WriteRequest
  <2>3. r = [id |-> req.id, config |-> req.config, words |-> req.words, bits |-> req.bits,
             retryCount |-> req.retryCount - 1]
        BY <2>2
  <2> HIDE DEF r
  <2> QED
      BY <1>1, <2>1, <2>3 DEF WriteRequest
<1>4. m_writes' = [m_writes EXCEPT ![d] = Append(@, r)]
      BY DEF Requeue
<1> HIDE DEF r
<1>5. m_writes' \in [Device -> Seq(WriteRequest)]
      BY <1>2, <1>3, <1>4, AppendProperties
<1>6. tries' \in [Id -> 0 .. Retries + 1]
  <2>1. req.retryCount \in Nat /\ req.retryCount + tries[req.id] = Retries
        BY <1>1, <1>2, HeadOff DEF Inv, WriteRequest
  <2>2. tries[req.id] + 1 \in 0 .. Retries + 1
        BY <1>1, <1>2, <2>1
  <2> QED
      BY <1>1, <1>2, <2>2
<1>7. W' = [W EXCEPT ![d] = Append(Tail(@), r)]
  <2>1. taken'[d] \o Append(m_writes[d], r) = Append(Tail(W[d]), r)
    <3> DEFINE t == taken'[d]
               q == m_writes[d]
    <3>1. t \in Seq(WriteRequest) /\ q \in Seq(WriteRequest) /\ Tail(W[d]) = t \o q
          BY <1>1, <1>2
    <3> HIDE DEF t, q
    <3>2. t \o Append(q, r) = Append(t \o q, r)
          BY <1>3, <3>1, ConcatAppend
    <3> QED
        BY <3>1, <3>2, Zenon DEF t, q
  <2> QED
      BY <1>1, <1>2, <1>4, <2>1 DEF W, Waiting
<1>8. TypeOK'
  <2>1. UNCHANGED <<phase, device, reg, active, inFlush, todo, next>>
        BY DEF FlushNext, catalog
  <2> QED
      BY <1>1, <1>5, <1>6, <2>1 DEF Inv, TypeOK
<1>9. QueueInv'
  <2>1. next' = next
        BY DEF FlushNext
  <2> QED
      BY <1>1, <1>3, <1>7, <2>1, Returns DEF Inv
<1> QED
    BY <1>1, <1>8, <1>9 DEF Inv

LEMMA FlushInv ==
    ASSUME Inv, NEW d \in Device, Flush(d)
    PROVE  Inv'
<1>1. CASE TakeWrites(d)
      BY <1>1, TakeInv
<1>2. CASE FlushEnds(d)
      BY <1>2, PollingInv
<1>3. ASSUME NEW req, ConnectFails(d, req) PROVE Inv'
      BY <1>3, SettledInv DEF ConnectFails
<1>4. ASSUME NEW req, WriteSucceeds(d, req) PROVE Inv'
      BY <1>4, SettledInv DEF WriteSucceeds
<1>5. ASSUME NEW req, NEW executed \in BOOLEAN, WriteFails(d, req, executed) PROVE Inv'
  <2>1. /\ FlushNext(d, req) /\ tries' = [tries EXCEPT ![req.id] = @ + 1]
        /\ reached' \subseteq reached \cup {req.id}
        BY <1>5 DEF WriteFails
  <2>2. CASE req.retryCount > 0
        BY <1>5, <2>1, <2>2, RequeuedInv DEF WriteFails
  <2>3. CASE ~(req.retryCount > 0)
        BY <1>5, <2>1, <2>3, SettledInv DEF WriteFails
  <2> QED
      BY <2>2, <2>3
<1> QED
    BY <1>1, <1>2, <1>3, <1>4, <1>5 DEF Flush

(* Every step of the specification preserves the invariant. *)
LEMMA StepInv == Inv /\ [Next]_vars => Inv'
<1> SUFFICES ASSUME Inv, [Next]_vars PROVE Inv'
    OBVIOUS
<1>1. CASE UNCHANGED vars
  <2>1. UNCHANGED <<phase, device, reg, m_writes, active, inFlush, taken, todo, next, history>>
        BY <1>1 DEF vars, catalog, worker
  <2>2. TypeOK' /\ WorkerInv'
        BY <2>1 DEF Inv, TypeOK, WorkerInv, history
  <2> QED
      BY <2>1, <2>2, QuietQueue DEF Inv
<1>2. CASE ClientCall \/ \E a \in Addr : ForwardOne(a)
      BY <1>2, ClientInv
<1>3. CASE \/ \E portOpens \in BOOLEAN : Start(portOpens)
           \/ Stop \/ Join
           \/ \E d \in Device : Exit(d)
      BY <1>3, PollingInv
<1>4. CASE Edit \/ ProcessRestart
      BY <1>4, EditInv
<1>5. CASE \E d \in Device : Flush(d)
      BY <1>5, FlushInv
<1> QED
    BY <1>1, <1>2, <1>3, <1>4, <1>5 DEF Next

(***************************************************************************)
(* The inductive invariant holds whatever clients, workers and operators   *)
(* do.                                                                     *)
(***************************************************************************)
THEOREM Invariant == Spec => []Inv
  BY InitInv, StepInv, PTL DEF Spec

(***************************************************************************)
(* A request that was accepted and has not been settled waits in exactly   *)
(* one place, on the list of its own device, however flushWrites(),        *)
(* enqueueWrite(), retries and stop() interleave.                          *)
(***************************************************************************)
THEOREM RequestsAreKept == Spec => []NothingLostOrDoubled
<1>1. Inv => NothingLostOrDoubled
  <2> SUFFICES ASSUME Inv PROVE NothingLostOrDoubled
      OBVIOUS
  <2>1. ASSUME NEW d \in Device, NEW m \in DOMAIN Waiting(d), NEW n \in DOMAIN Waiting(d)
        PROVE  /\ Waiting(d)[m].config.owner = d
               /\ Waiting(d)[m].id = Waiting(d)[n].id => m = n
        BY PendingIsWaiting DEF Inv, QueueInv, PlaceInv, OnceInv
  <2>2. ASSUME NEW i \in AllPending PROVE i \in Id /\ state[i] = "pending"
    <3>1. PICK d \in Device : i \in Pending(d)
          BY <2>2 DEF AllPending
    <3>2. PICK n \in 1 .. Len(W[d]) : W[d][n].id = i
          BY <3>1, PendingIsWaiting DEF Inv
    <3>3. W[d][n] \in WriteRequest
          BY WTypes, ElementOfSeq DEF Inv
    <3> QED
        BY <3>2, <3>3 DEF WriteRequest, Inv, QueueInv, PlaceInv
  <2>3. ASSUME NEW i \in Id, state[i] = "pending" PROVE i \in AllPending
    <3>1. PICK d \in Device : \E n \in 1 .. Len(W[d]) : W[d][n].id = i
          BY <2>3 DEF Inv, QueueInv, KeptInv
    <3> QED
        BY <3>1, PendingIsWaiting DEF AllPending, Inv
  <2> QED
      BY <2>1, <2>2, <2>3 DEF NothingLostOrDoubled
<1> QED
    BY <1>1, Invariant, PTL

(* Only a turn of the loop in flushWrites() attempts a request, and only   *)
(* the one it is about.                                                    *)
LEMMA Attempts ==
    ASSUME Inv, Next
    PROVE  \/ tries' = tries /\ reached' = reached
           \/ \E d \in Device : \E req :
                 /\ FlushNext(d, req)
                 /\ tries' = [tries EXCEPT ![req.id] = @ + 1]
                 /\ reached' \subseteq reached \cup {req.id}
<1>1. CASE ClientCall \/ \E a \in Addr : ForwardOne(a)
      BY <1>1 DEF ClientCall, HandleWriteRegister, HandlePostHmiWrite, ForwardWrite, ForwardOne,
                  Enqueue, history
<1>2. CASE \/ \E portOpens \in BOOLEAN : Start(portOpens)
           \/ Stop \/ Join
           \/ \E d \in Device : Exit(d)
      BY <1>2 DEF Start, Stop, Join, Exit, history
<1>3. CASE Edit \/ ProcessRestart
      BY <1>3 DEF Edit, PostDevice, PutDevice, DeleteDevice, EditRegister, ProcessRestart, Reset,
                  history
<1>4. ASSUME NEW d \in Device, Flush(d)
      PROVE  \/ tries' = tries /\ reached' = reached
             \/ \E req : /\ FlushNext(d, req)
                         /\ tries' = [tries EXCEPT ![req.id] = @ + 1]
                         /\ reached' \subseteq reached \cup {req.id}
  <2>1. CASE TakeWrites(d) \/ FlushEnds(d)
        BY <2>1 DEF TakeWrites, FlushEnds, history
  <2>2. CASE \E req : ConnectFails(d, req)
        BY <2>2 DEF ConnectFails
  <2>3. CASE \E req : WriteSucceeds(d, req)
        BY <2>3 DEF WriteSucceeds
  <2>4. CASE \E req : \E executed \in BOOLEAN : WriteFails(d, req, executed)
        BY <2>4 DEF WriteFails
  <2> QED
      BY <1>4, <2>1, <2>2, <2>3, <2>4 DEF Flush
<1> QED
    BY <1>1, <1>2, <1>3, <1>4 DEF Next

(***************************************************************************)
(* A value reaches a device only while that device is enabled, though      *)
(* requests for it may have waited since before it was disabled.           *)
(***************************************************************************)
THEOREM DisabledAreNotWritten == Spec => OnlyEnabledAreWritten
<1>1. Inv /\ [Next]_vars =>
        [\A i \in reached' \ reached : \E d \in Device :
            i \in Pending(d) /\ device[d] = "enabled"]_vars
  <2> SUFFICES ASSUME Inv, Next, NEW i \in reached', i \notin reached
               PROVE  \E d \in Device : i \in Pending(d) /\ device[d] = "enabled"
      BY DEF vars
  <2>1. PICK d \in Device : \E req : FlushNext(d, req) /\ reached' \subseteq reached \cup {req.id}
        BY Attempts
  <2>2. PICK req : FlushNext(d, req) /\ reached' \subseteq reached \cup {req.id}
        BY <2>1
  <2>3. i = req.id /\ d \in inFlush
        BY <2>2 DEF FlushNext
  <2>4. W[d] # <<>> /\ W[d][1].id = i
        BY <2>2, <2>3, TurnTypes
  <2>5. 1 \in 1 .. Len(W[d])
        BY <2>4, HeadOff DEF Inv
  <2>6. i \in Pending(d)
        BY <2>4, <2>5, PendingIsWaiting DEF Inv
  <2>7. device[d] = "enabled"
        BY <2>3 DEF Inv, TypeOK, WorkerInv
  <2> QED
      BY <2>6, <2>7
<1> QED
    BY <1>1, Invariant, PTL DEF Spec, OnlyEnabledAreWritten

(***************************************************************************)
(* The first attempts on the requests for a device are made in the order   *)
(* in which the requests were accepted.                                    *)
(***************************************************************************)
THEOREM FirstComeFirstTried == Spec => FirstAttemptsInOrder
<1>1. Inv /\ [Next]_vars =>
        [\A i \in Id : tries'[i] > tries[i] =>
            \A d \in Device : \A n \in DOMAIN Waiting(d) :
                (i \in Pending(d) /\ Waiting(d)[n].id < i) => tries[Waiting(d)[n].id] > 0]_vars
  <2> SUFFICES ASSUME Inv, Next, NEW i \in Id, tries'[i] > tries[i],
                      NEW e \in Device, NEW n \in DOMAIN Waiting(e),
                      i \in Pending(e), Waiting(e)[n].id < i
               PROVE  tries[Waiting(e)[n].id] > 0
      BY DEF vars
  <2>1. tries \in [Id -> 0 .. Retries + 1] /\ Retries \in Nat
        BY WriteQueueAssumption DEF Inv, TypeOK
  <2>2. tries' # tries
        BY <2>1
  <2>3. PICK d \in Device : \E req : /\ FlushNext(d, req)
                                     /\ tries' = [tries EXCEPT ![req.id] = @ + 1]
        BY <2>2, Attempts
  <2>4. PICK req : FlushNext(d, req) /\ tries' = [tries EXCEPT ![req.id] = @ + 1]
        BY <2>3
  <2>5. i = req.id
        BY <2>1, <2>4
  <2>6. W[d] # <<>> /\ W[d][1].id = i
        BY <2>4, <2>5, TurnTypes
  <2>7. 1 \in 1 .. Len(W[d])
        BY <2>6, HeadOff DEF Inv
  <2>8. n \in 1 .. Len(W[e]) /\ Waiting(e) = W[e]
        BY PendingIsWaiting DEF Inv
  <2>9. e = d
    <3>1. PICK k \in 1 .. Len(W[e]) : W[e][k].id = i
          BY PendingIsWaiting DEF Inv
    <3> QED
        BY <2>6, <2>7, <3>1 DEF Inv, QueueInv, OnceInv
  <2>10. 1 < n
    <3>1. n # 1
          BY <2>6, <2>8, <2>9 DEF Id
    <3> QED
        BY <2>8, <3>1
  <2>11. W[d][n].id < W[d][1].id
         BY <2>6, <2>8, <2>9
  <2> QED
      BY <2>7, <2>8, <2>9, <2>10, <2>11 DEF Inv, QueueInv, OrderInv
<1> QED
    BY <1>1, Invariant, PTL DEF Spec, FirstAttemptsInOrder
=============================================================================
