--------------------------- MODULE MCPStdioProofs ---------------------------
(***************************************************************************)
(* Theorems about MCPStdio, for any number of calls and clients.           *)
(***************************************************************************)
EXTENDS MCPStdio, TLAPS

(***************************************************************************)
(* The queue of a lock: who stands in it, and that nobody does twice.      *)
(***************************************************************************)
Within(p, q) == \E i \in 1..Len(q) : q[i] = p
Distinct(q) == \A i, j \in 1..Len(q) : q[i] = q[j] => i = j

LEMMA EmptyQueue == ~(\E p : Within(p, <<>>)) /\ Distinct(<<>>)
BY DEF Within, Distinct

LEMMA WithinFacts ==
  ASSUME NEW S, NEW q \in Seq(S)
  PROVE  /\ \A p : Within(p, q) => p \in S /\ q # <<>>
         /\ q # <<>> => Within(Head(q), q)
<1>1. \A p : Within(p, q) => p \in S /\ q # <<>>
  BY DEF Within
<1>2. q # <<>> => Head(q) = q[1] /\ 1 \in 1..Len(q)
  OBVIOUS
<1> QED
  BY <1>1, <1>2 DEF Within

LEMMA AppendFacts ==
  ASSUME NEW S, NEW q \in Seq(S), NEW p \in S
  PROVE  /\ Append(q, p) \in Seq(S)
         /\ Append(q, p) # <<>>
         /\ \A r : Within(r, Append(q, p)) <=> Within(r, q) \/ r = p
         /\ Distinct(q) /\ ~Within(p, q) => Distinct(Append(q, p))
         /\ Head(Append(q, p)) = IF q = <<>> THEN p ELSE Head(q)
<1>1. /\ Append(q, p) \in Seq(S)
      /\ Len(Append(q, p)) = Len(q) + 1
      /\ \A i \in 1..Len(q) : Append(q, p)[i] = q[i]
      /\ Append(q, p)[Len(q) + 1] = p
      /\ Append(q, p) # <<>>
      /\ Len(q) \in Nat
  OBVIOUS
<1>2. \A r : Within(r, Append(q, p)) <=> Within(r, q) \/ r = p
  BY <1>1 DEF Within
<1>3. Distinct(q) /\ ~Within(p, q) => Distinct(Append(q, p))
  BY <1>1 DEF Within, Distinct
<1>4. Head(Append(q, p)) = IF q = <<>> THEN p ELSE Head(q)
  OBVIOUS
<1> QED
  BY <1>1, <1>2, <1>3, <1>4

LEMMA TailFacts ==
  ASSUME NEW S, NEW q \in Seq(S), q # <<>>, Distinct(q)
  PROVE  /\ Tail(q) \in Seq(S)
         /\ \A r : Within(r, Tail(q)) <=> Within(r, q) /\ r # Head(q)
         /\ Distinct(Tail(q))
<1>1. /\ Tail(q) \in Seq(S)
      /\ Len(Tail(q)) = Len(q) - 1
      /\ \A i \in 1..(Len(q) - 1) : Tail(q)[i] = q[i + 1]
      /\ Len(q) \in Nat /\ Len(q) >= 1
      /\ Head(q) = q[1]
  OBVIOUS
<1>2. ASSUME NEW r, Within(r, Tail(q)) PROVE Within(r, q) /\ r # Head(q)
  <2>1. PICK i \in 1..(Len(q) - 1) : q[i + 1] = r
    BY <1>1, <1>2 DEF Within
  <2>2. i + 1 \in 1..Len(q) /\ i + 1 # 1 /\ 1 \in 1..Len(q)
    BY <1>1
  <2> QED
    BY <1>1, <2>1, <2>2 DEF Within, Distinct
<1>3. ASSUME NEW r, Within(r, q), r # Head(q) PROVE Within(r, Tail(q))
  <2>1. PICK i \in 1..Len(q) : q[i] = r
    BY <1>3 DEF Within
  <2>2. i - 1 \in 1..(Len(q) - 1) /\ (i - 1) + 1 = i
    BY <1>1, <1>3, <2>1
  <2> QED
    BY <1>1, <2>1, <2>2 DEF Within
<1>4. Distinct(Tail(q))
  <2> SUFFICES ASSUME NEW i \in 1..(Len(q) - 1), NEW j \in 1..(Len(q) - 1),
                      q[i + 1] = q[j + 1]
               PROVE  i = j
    BY <1>1 DEF Distinct
  <2>1. i + 1 \in 1..Len(q) /\ j + 1 \in 1..Len(q)
    BY <1>1
  <2>2. i + 1 = j + 1
    BY <2>1 DEF Distinct
  <2> QED
    BY <2>2
<1> QED
  BY <1>1, <1>2, <1>3, <1>4

LEMMA WithoutFacts ==
  ASSUME NEW S, NEW q \in Seq(S), NEW p, Distinct(q)
  PROVE  /\ Without(q, p) \in Seq(S)
         /\ \A r : Within(r, Without(q, p)) <=> Within(r, q) /\ r # p
         /\ Distinct(Without(q, p))
         /\ q # <<>> /\ Head(q) # p =>
              Without(q, p) # <<>> /\ Head(Without(q, p)) = Head(q)
         /\ q = <<>> => Without(q, p) = <<>>
<1>1. CASE \A i \in 1..Len(q) : q[i] # p
  BY <1>1 DEF Without, Within
<1>2. CASE \E i \in 1..Len(q) : q[i] = p
  <2> DEFINE k == CHOOSE k \in 1..Len(q) : q[k] = p
             w == [i \in 1..(Len(q) - 1) |-> q[IF i < k THEN i ELSE i + 1]]
             n == Len(q)
  <2>1. k \in 1..n /\ q[k] = p
    BY <1>2
  <2>2. Without(q, p) = w
    BY <1>2 DEF Without
  <2>3. n \in Nat /\ n >= 1 /\ k \in Nat /\ \A i \in 1..n : q[i] \in S
    BY <2>1
  <2> HIDE DEF k
  <2>4. w \in Seq(S) /\ Len(w) = n - 1
    BY <2>1, <2>3
  <2>5. \A i \in 1..(n - 1) : w[i] = IF i < k THEN q[i] ELSE q[i + 1]
    OBVIOUS
  <2>6. \A i \in 1..n : q[i] = p <=> i = k
    BY <2>1 DEF Distinct
  <2> HIDE DEF w
  <2>7. ASSUME NEW r, Within(r, w) PROVE Within(r, q) /\ r # p
    <3>1. PICK i \in 1..(n - 1) : w[i] = r
      BY <2>4, <2>7 DEF Within
    <3>2. CASE i < k
      BY <2>3, <2>5, <2>6, <3>1, <3>2 DEF Within
    <3>3. CASE ~(i < k)
      <4>1. i + 1 \in 1..n /\ i + 1 # k /\ r = q[i + 1]
        BY <2>1, <2>3, <2>5, <3>1, <3>3
      <4> QED
        BY <2>6, <4>1 DEF Within
    <3> QED
      BY <3>2, <3>3
  <2>8. ASSUME NEW r, Within(r, q), r # p PROVE Within(r, w)
    <3>1. PICK i \in 1..n : q[i] = r
      BY <2>8 DEF Within
    <3>2. i # k
      BY <2>1, <2>8, <3>1
    <3>3. CASE i < k
      <4>1. i \in 1..(n - 1) /\ w[i] = r
        BY <2>1, <2>3, <2>5, <3>1, <3>3
      <4> QED
        BY <2>4, <4>1 DEF Within
    <3>4. CASE i > k
      <4>1. i - 1 \in 1..(n - 1) /\ ~(i - 1 < k) /\ (i - 1) + 1 = i
        BY <2>1, <2>3, <3>1, <3>4
      <4>2. w[i - 1] = r
        BY <2>5, <3>1, <4>1
      <4> QED
        BY <2>4, <4>1, <4>2 DEF Within
    <3> QED
      BY <2>1, <2>3, <3>2, <3>3, <3>4
  <2>9. Distinct(w)
    <3> SUFFICES ASSUME NEW i \in 1..(n - 1), NEW j \in 1..(n - 1), w[i] = w[j]
                 PROVE  i = j
      BY <2>4 DEF Distinct
    <3> DEFINE f(x) == IF x < k THEN x ELSE x + 1
    <3>1. f(i) \in 1..n /\ f(j) \in 1..n /\ (f(i) = f(j) => i = j)
      BY <2>1, <2>3
    <3>2. q[f(i)] = q[f(j)]
      BY <2>5
    <3>3. f(i) = f(j)
      BY <3>1, <3>2 DEF Distinct
    <3> QED
      BY <3>1, <3>3
  <2>10. Head(q) # p => w # <<>> /\ Head(w) = Head(q)
    <3> SUFFICES ASSUME Head(q) # p PROVE w # <<>> /\ Head(w) = Head(q)
      OBVIOUS
    <3>1. k > 1 /\ 1 \in 1..(n - 1)
      BY <2>1, <2>3
    <3>2. w[1] = q[1] /\ Len(w) >= 1
      BY <2>3, <2>4, <2>5, <3>1
    <3> QED
      BY <2>3, <2>4, <3>2
  <2> QED
    BY <2>1, <2>2, <2>4, <2>7, <2>8, <2>9, <2>10
<1> QED
  BY <1>1, <1>2

(***************************************************************************)
(* Where the threads stand in the queues of the two locks of a client.       *)
(***************************************************************************)

(* The awaits of a thread that holds a lifecycle lock, and of one that is  *)
(* in its queue and may hold it by now.                                    *)
HasLife == {"stopping-stale", "stopping-restart", "spawning", "initialize",
            "notify", "stopping-failed", "stopping-idle", "stopping-last"}
Locking == HasLife \union {"stop-stale", "start", "reap", "stop"}

LifeInv ==
  /\ \A p \in Threads, c \in Clients :
       Within(p, life[c]) => at[p] = c /\ pc[p] \in Locking
  /\ \A p \in Threads : pc[p] \in Locking =>
       at[p] \in Clients /\ Within(p, life[at[p]])
  /\ \A c \in Clients : Distinct(life[c])
  /\ \A p \in Threads : pc[p] \in HasLife => Head(life[at[p]]) = p

(* The awaits of a call in the queue of a request lock.                    *)
Requesting == {"initialize", "notify", "request", "exchange", "notify-cancelled"}

ReqInv ==
  /\ \A p \in Calls, c \in Clients :
       Within(p, req[c]) => on[p] = c /\ pc[p] \in Requesting
  /\ \A c \in Clients : Distinct(req[c])
  /\ \A p \in Calls : pc[p] \in Exchanging =>
       req[on[p]] # <<>> /\ Head(req[on[p]]) = p

(* The client a call works on.                                             *)
OnInv ==
  \A p \in Calls :
    /\ pc[p] = "new" <=> on[p] = NoClient
    /\ pc[p] \in {"stop-stale", "stopping-stale"} => at[p] # on[p]
    /\ pc[p] \in {"start", "stopping-restart", "spawning", "initialize", "notify",
                  "stopping-failed"} => at[p] = on[p]
    /\ pc[p] \in {"stop-stale", "stopping-stale", "start", "stopping-restart",
                  "spawning", "initialize", "notify"} => starts[p] \in 1..3

(* A call that was handed a request lock, and has not run since, found the *)
(* client just used.                                                       *)
SpareInv ==
  \A c \in Clients : req[c] # <<>> /\ pc[Head(req[c])] = "request" => ~idle[c]

(* A call returns its own reply, if any.                                   *)
OwnInv == \A p \in Calls : outcome[p] \in {p} \union Failures

LockInv == LifeInv /\ ReqInv /\ OnInv /\ SpareInv
IInv == TypeOK /\ LockInv /\ OwnInv

(***************************************************************************)
(* What the operations on a lifecycle lock do to LifeInv.                  *)
(***************************************************************************)
Stays(r) == /\ at'[r] = at[r]
            /\ pc'[r] = pc[r] \/ {pc[r], pc'[r]} \intersect Locking = {}
OthersStay(p) == \A r \in Threads : r # p => Stays(r)
LifeType == life \in [Clients -> Seq(Threads)]

(* No lock changes hands; p runs on with the one it holds.                 *)
LEMMA LifeKept ==
  ASSUME LifeInv, LifeType, UNCHANGED life, NEW p \in Threads, OthersStay(p),
         pc[p] \in Locking <=> pc'[p] \in Locking,
         pc[p] \in Locking => at'[p] = at[p],
         pc'[p] \in HasLife => HoldsLife(p)
  PROVE  LifeInv' /\ LifeType'
<1> USE DEF LifeInv, LifeType, OthersStay, Stays
<1>1. ASSUME NEW r \in Threads
      PROVE  /\ pc[r] \in Locking <=> pc'[r] \in Locking
             /\ pc[r] \in Locking => at'[r] = at[r]
             /\ pc'[r] \in HasLife => Head(life[at[r]]) = r /\ pc'[r] \in Locking
  BY DEF HoldsLife, Locking
<1> HIDE DEF OthersStay, Stays
<1> QED
  BY <1>1

(* p, who is in no queue, joins that of c.                                 *)
LEMMA LifeJoined ==
  ASSUME LifeInv, LifeType, NEW p \in Threads, NEW c \in Clients,
         pc[p] \notin Locking, OthersStay(p),
         life' = [life EXCEPT ![c] = Append(@, p)],
         at'[p] = c, pc'[p] \in Locking \ HasLife
  PROVE  LifeInv' /\ LifeType'
<1> USE DEF LifeType
<1> DEFINE q == Append(life[c], p)
<1>1. ~Within(p, life[c]) /\ Distinct(life[c])
  BY DEF LifeInv
<1>2. /\ q \in Seq(Threads)
      /\ \A r : Within(r, q) <=> Within(r, life[c]) \/ r = p
      /\ Distinct(q)
      /\ Head(q) = IF life[c] = <<>> THEN p ELSE Head(life[c])
  BY <1>1, AppendFacts
<1>3. life'[c] = q /\ \A d \in Clients : d # c => life'[d] = life[d]
  OBVIOUS
<1>4. LifeType'
  BY <1>2
<1>5. \A r : Within(r, life[c]) => life[c] # <<>>
  BY WithinFacts
<1> HIDE DEF q
<1>6. ASSUME NEW r \in Threads, NEW d \in Clients, Within(r, life'[d])
      PROVE  at'[r] = d /\ pc'[r] \in Locking
  <2>1. CASE r = p
    <3>1. d = c
      BY <1>3, <1>6, <2>1 DEF LifeInv
    <3> QED
      BY <2>1, <3>1
  <2>2. CASE r # p
    <3>1. Within(r, life[d])
      BY <1>2, <1>3, <1>6, <2>2
    <3>2. at[r] = d /\ pc[r] \in Locking
      BY <3>1 DEF LifeInv
    <3> QED
      BY <2>2, <3>2 DEF OthersStay, Stays
  <2> QED
    BY <2>1, <2>2
<1>7. ASSUME NEW r \in Threads, pc'[r] \in Locking
      PROVE  /\ at'[r] \in Clients /\ Within(r, life'[at'[r]])
             /\ pc'[r] \in HasLife => Head(life'[at'[r]]) = r
  <2>1. CASE r = p
    BY <1>2, <1>3, <2>1
  <2>2. CASE r # p
    <3>1. /\ at'[r] = at[r] /\ pc'[r] = pc[r] /\ at[r] \in Clients
          /\ Within(r, life[at[r]]) /\ (pc[r] \in HasLife => Head(life[at[r]]) = r)
      BY <1>7, <2>2 DEF LifeInv, OthersStay, Stays
    <3>2. CASE at[r] = c
      BY <1>2, <1>3, <1>5, <3>1, <3>2
    <3>3. CASE at[r] # c
      BY <1>3, <3>1, <3>3
    <3> QED
      BY <3>2, <3>3
  <2> QED
    BY <2>1, <2>2
<1>8. \A d \in Clients : Distinct(life'[d])
  BY <1>2, <1>3 DEF LifeInv
<1>9. \A r \in Threads : pc'[r] \in HasLife => pc'[r] \in Locking
  BY DEF Locking
<1> QED
  BY <1>4, <1>6, <1>7, <1>8, <1>9 DEF LifeInv

(* p, who holds the lock of c, gives it back.                              *)
LEMMA LifeReleased ==
  ASSUME LifeInv, LifeType, NEW p \in Threads, HoldsLife(p), pc[p] \in Locking,
         OthersStay(p),
         life' = [life EXCEPT ![at[p]] = Tail(@)], pc'[p] \notin Locking
  PROVE  LifeInv' /\ LifeType'
<1> USE DEF LifeType
<1> DEFINE c == at[p]
           q == Tail(life[c])
<1>1. c \in Clients /\ life[c] # <<>> /\ Head(life[c]) = p /\ Distinct(life[c])
  BY DEF LifeInv, HoldsLife
<1>2. /\ q \in Seq(Threads)
      /\ \A r : Within(r, q) <=> Within(r, life[c]) /\ r # p
      /\ Distinct(q)
  BY <1>1, TailFacts
<1>3. life'[c] = q /\ \A d \in Clients : d # c => life'[d] = life[d]
  BY <1>1
<1>4. LifeType'
  BY <1>2
<1> HIDE DEF q
<1>6. ASSUME NEW r \in Threads, NEW d \in Clients, Within(r, life'[d])
      PROVE  at'[r] = d /\ pc'[r] \in Locking
  <2>1. CASE d = c
    BY <1>2, <1>3, <1>6, <2>1 DEF LifeInv, OthersStay, Stays
  <2>2. CASE d # c
    <3>1. Within(r, life[d]) /\ r # p
      BY <1>3, <1>6, <2>2 DEF LifeInv
    <3> QED
      BY <3>1 DEF LifeInv, OthersStay, Stays
  <2> QED
    BY <2>1, <2>2
<1>7. ASSUME NEW r \in Threads, pc'[r] \in Locking
      PROVE  /\ at'[r] \in Clients /\ Within(r, life'[at'[r]])
             /\ pc'[r] \in HasLife => Head(life'[at'[r]]) = r
  <2>1. r # p /\ at'[r] = at[r] /\ pc'[r] = pc[r]
    BY <1>7 DEF OthersStay, Stays
  <2>2. pc[r] \in HasLife => at[r] # c
    BY <1>1, <2>1 DEF LifeInv
  <2> QED
    BY <1>1, <1>2, <1>3, <1>7, <2>1, <2>2 DEF LifeInv
<1>8. \A d \in Clients : Distinct(life'[d])
  BY <1>1, <1>2, <1>3 DEF LifeInv
<1>9. \A r \in Threads : pc'[r] \in HasLife => pc'[r] \in Locking
  BY DEF Locking
<1> QED
  BY <1>4, <1>6, <1>7, <1>8, <1>9 DEF LifeInv

(* p, who holds the lock of its client, goes to the end of a queue: that   *)
(* of the same client (c = at[p]) or of another one.                       *)
LEMMA LifeMoved ==
  ASSUME LifeInv, LifeType, NEW p \in Threads, HoldsLife(p), pc[p] \in Locking,
         OthersStay(p), NEW c \in Clients,
         \/ c = at[p] /\ life' = [life EXCEPT ![c] = Append(Tail(@), p)]
         \/ c # at[p] /\ life' = [life EXCEPT ![at[p]] = Tail(@), ![c] = Append(@, p)],
         at'[p] = c, pc'[p] \in Locking \ HasLife
  PROVE  LifeInv' /\ LifeType'
<1> USE DEF LifeType
<1> DEFINE b == at[p]
           q == Tail(life[b])
           base == IF c = b THEN q ELSE life[c]
           w == Append(base, p)
<1>1. b \in Clients /\ life[b] # <<>> /\ Head(life[b]) = p /\ Distinct(life[b])
  BY DEF LifeInv, HoldsLife
<1>2. /\ q \in Seq(Threads)
      /\ \A r : Within(r, q) <=> Within(r, life[b]) /\ r # p
      /\ Distinct(q)
  BY <1>1, TailFacts
<1> HIDE DEF q
<1>3. base \in Seq(Threads) /\ Distinct(base) /\ ~Within(p, base)
  BY <1>1, <1>2 DEF LifeInv
<1>a. \A r : Within(r, base) <=> Within(r, life[c]) /\ r # p
  BY <1>1, <1>2 DEF LifeInv
<1>b. c # b => base = life[c]
  OBVIOUS
<1> HIDE DEF base
<1>4. /\ w \in Seq(Threads)
      /\ \A r : Within(r, w) <=> Within(r, base) \/ r = p
      /\ Distinct(w)
      /\ Head(w) = IF base = <<>> THEN p ELSE Head(base)
  BY <1>3, AppendFacts
<1> HIDE DEF w
<1>5. life'[c] = w /\ \A d \in Clients : d # c => life'[d] = IF d = b THEN q ELSE life[d]
  BY <1>1 DEF base, q, w
<1>6. LifeType'
  <2>1. life' = [d \in Clients |-> life'[d]]
    OBVIOUS
  <2> QED
    BY <1>2, <1>4, <1>5, <2>1
<1>c. \A r : Within(r, base) => base # <<>>
  BY <1>3, WithinFacts
<1>7. ASSUME NEW r \in Threads, NEW d \in Clients, Within(r, life'[d])
      PROVE  at'[r] = d /\ pc'[r] \in Locking
  <2>1. CASE r = p
    BY <1>2, <1>5, <1>7, <2>1 DEF LifeInv
  <2>2. CASE r # p
    <3>1. Within(r, life[d])
      BY <1>a, <1>2, <1>4, <1>5, <1>7, <2>2
    <3> QED
      BY <2>2, <3>1 DEF LifeInv, OthersStay, Stays
  <2> QED
    BY <2>1, <2>2
<1>8. ASSUME NEW r \in Threads, pc'[r] \in Locking
      PROVE  /\ at'[r] \in Clients /\ Within(r, life'[at'[r]])
             /\ pc'[r] \in HasLife => Head(life'[at'[r]]) = r
  <2>1. CASE r = p
    BY <1>4, <1>5, <2>1
  <2>2. CASE r # p
    <3>1. at'[r] = at[r] /\ pc'[r] = pc[r] /\ at[r] \in Clients /\ Within(r, life[at[r]])
      BY <1>8, <2>2 DEF OthersStay, Stays, LifeInv
    <3>2. pc[r] \in HasLife => at[r] # b /\ Head(life[at[r]]) = r
      BY <1>1, <2>2, <3>1 DEF LifeInv
    <3>3. Within(r, life'[at[r]])
      BY <1>a, <1>2, <1>4, <1>5, <2>2, <3>1
    <3>4. CASE at[r] = c
      BY <1>a, <1>b, <1>c, <1>4, <1>5, <2>2, <3>1, <3>2, <3>3, <3>4
    <3>5. CASE at[r] # c
      BY <1>5, <3>1, <3>2, <3>3, <3>5
    <3> QED
      BY <3>4, <3>5
  <2> QED
    BY <2>1, <2>2
<1>9. \A d \in Clients : Distinct(life'[d])
  BY <1>2, <1>4, <1>5 DEF LifeInv
<1>10. \A r \in Threads : pc'[r] \in HasLife => pc'[r] \in Locking
  BY DEF Locking
<1> QED
  BY <1>6, <1>7, <1>8, <1>9, <1>10 DEF LifeInv

(* p leaves whatever queue it stands in.                                   *)
LEMMA LifeLeft ==
  ASSUME LifeInv, LifeType, NEW p \in Threads, OthersStay(p),
         life' = [c \in Clients |-> Without(life[c], p)], pc'[p] \notin Locking
  PROVE  LifeInv' /\ LifeType'
<1> USE DEF LifeType
<1>1. ASSUME NEW c \in Clients
      PROVE  /\ life'[c] \in Seq(Threads)
             /\ \A r : Within(r, life'[c]) <=> Within(r, life[c]) /\ r # p
             /\ Distinct(life'[c])
             /\ life[c] # <<>> /\ Head(life[c]) # p => Head(life'[c]) = Head(life[c])
             /\ \A r : Within(r, life[c]) => life[c] # <<>>
  <2>1. life[c] \in Seq(Threads) /\ Distinct(life[c]) /\ life'[c] = Without(life[c], p)
    BY DEF LifeInv
  <2>2. \A r : Within(r, life[c]) => life[c] # <<>>
    BY <2>1, WithinFacts
  <2>3. /\ life'[c] \in Seq(Threads)
        /\ \A r : Within(r, life'[c]) <=> Within(r, life[c]) /\ r # p
        /\ Distinct(life'[c])
        /\ life[c] # <<>> /\ Head(life[c]) # p => Head(life'[c]) = Head(life[c])
    BY <2>1, WithoutFacts
  <2> QED
    BY <2>2, <2>3
<1>2. LifeType'
  <2>1. life' = [d \in Clients |-> life'[d]]
    OBVIOUS
  <2> QED
    BY <1>1, <2>1
<1>3. ASSUME NEW r \in Threads, NEW d \in Clients, Within(r, life'[d])
      PROVE  at'[r] = d /\ pc'[r] \in Locking
  BY <1>1, <1>3 DEF LifeInv, OthersStay, Stays
<1>4. ASSUME NEW r \in Threads, pc'[r] \in Locking
      PROVE  /\ at'[r] \in Clients /\ Within(r, life'[at'[r]])
             /\ pc'[r] \in HasLife => Head(life'[at'[r]]) = r
  <2>1. r # p /\ at'[r] = at[r] /\ pc'[r] = pc[r]
    BY <1>4 DEF OthersStay, Stays
  <2>2. at[r] \in Clients /\ Within(r, life[at[r]]) /\ pc'[r] \in Locking
    BY <1>4, <2>1 DEF LifeInv
  <2>3. pc'[r] \in HasLife => Head(life[at[r]]) = r
    BY <2>1 DEF LifeInv
  <2> QED
    BY <1>1, <2>1, <2>2, <2>3
<1>5. \A r \in Threads : pc'[r] \in HasLife => pc'[r] \in Locking
  BY DEF Locking
<1> QED
  BY <1>1, <1>2, <1>3, <1>4, <1>5 DEF LifeInv

(***************************************************************************)
(* What the operations on a request lock do to ReqInv and SpareInv.        *)
(***************************************************************************)
ReqType == req \in [Clients -> Seq(Calls)]

(* The call r does not join or leave a queue.                              *)
KeepsPlace(r) ==
  \/ pc'[r] = pc[r] /\ on'[r] = on[r]
  \/ {pc[r], pc'[r]} \intersect Requesting = {}
  \/ pc[r] = "request" /\ pc'[r] = "exchange" /\ HoldsReq(r) /\ on'[r] = on[r]
  \/ pc[r] = "exchange" /\ pc'[r] = "notify-cancelled" /\ on'[r] = on[r]

LEMMA ReqKept ==
  ASSUME ReqInv, SpareInv, ReqType, UNCHANGED req,
         \A r \in Calls : KeepsPlace(r),
         \A c \in Clients : idle'[c] => idle[c]
  PROVE  ReqInv' /\ SpareInv' /\ ReqType'
<1>1. ReqType'
  BY DEF ReqType
<1>2. ASSUME NEW r \in Calls
      PROVE  /\ pc[r] \in Requesting => on'[r] = on[r] /\ pc'[r] \in Requesting
             /\ pc'[r] \in Exchanging => /\ on'[r] = on[r] /\ req[on[r]] # <<>>
                                         /\ Head(req[on[r]]) = r
             /\ pc[r] \in Requesting /\ pc'[r] = "request" => pc[r] = "request"
  BY DEF KeepsPlace, Requesting, Exchanging, HoldsReq, ReqInv
<1>3. ReqInv'
  BY <1>2 DEF ReqInv
<1>4. SpareInv'
  <2> SUFFICES ASSUME NEW c \in Clients, req[c] # <<>>, pc'[Head(req[c])] = "request"
               PROVE  ~idle'[c]
    BY DEF SpareInv
  <2>1. Within(Head(req[c]), req[c]) /\ Head(req[c]) \in Calls
    BY WithinFacts DEF ReqType
  <2>2. pc[Head(req[c])] = "request"
    BY <1>2, <2>1 DEF ReqInv
  <2> QED
    BY <2>2 DEF SpareInv
<1> QED
  BY <1>1, <1>3, <1>4

(* The queue of p's client becomes w: only p changes its place, and who    *)
(* holds the lock goes on holding it.                                      *)
LEMMA ReqSet ==
  ASSUME ReqInv, SpareInv, ReqType, NEW p \in Calls, NEW c \in Clients, NEW w \in Seq(Calls),
         req' = [req EXCEPT ![c] = w], Distinct(w), on[p] = c, on'[p] = c,
         \A r \in Calls : r # p => pc'[r] = pc[r] /\ on'[r] = on[r],
         \A r : Within(r, w) =>
           (Within(r, req[c]) /\ r # p) \/ (r = p /\ pc'[p] \in Requesting),
         req[c] # <<>> /\ Head(req[c]) # p => w # <<>> /\ Head(w) = Head(req[c]),
         pc'[p] \in Exchanging => w # <<>> /\ Head(w) = p,
         pc'[p] = "request" => Head(w) # p,
         \A d \in Clients : idle'[d] => idle[d],
         idle'[c] /\ w # <<>> /\ Head(w) # p => req[c] # <<>> /\ Head(w) = Head(req[c])
  PROVE  ReqInv' /\ SpareInv' /\ ReqType'
<1>1. req'[c] = w /\ \A d \in Clients : d # c => req'[d] = req[d]
  BY DEF ReqType
<1>2. ReqType'
  BY DEF ReqType
<1>3. ASSUME NEW r \in Calls, NEW d \in Clients, Within(r, req'[d])
      PROVE  on'[r] = d /\ pc'[r] \in Requesting
  <2>1. CASE d = c
    BY <1>1, <1>3, <2>1 DEF ReqInv
  <2>2. CASE d # c
    BY <1>1, <1>3, <2>2 DEF ReqInv
  <2> QED
    BY <2>1, <2>2
<1>4. \A d \in Clients : Distinct(req'[d])
  BY <1>1 DEF ReqInv
<1>5. ASSUME NEW r \in Calls, pc'[r] \in Exchanging
      PROVE  req'[on'[r]] # <<>> /\ Head(req'[on'[r]]) = r
  <2>1. CASE r = p
    BY <1>1, <1>5, <2>1
  <2>2. CASE r # p
    <3>1. on'[r] = on[r] /\ req[on[r]] # <<>> /\ Head(req[on[r]]) = r
      BY <1>5, <2>2 DEF ReqInv
    <3>2. CASE on[r] = c
      BY <1>1, <2>2, <3>1, <3>2
    <3>3. CASE on[r] # c
      BY <3>1, <3>3 DEF ReqType
    <3> QED
      BY <3>2, <3>3
  <2> QED
    BY <2>1, <2>2
<1>6. SpareInv'
  <2> SUFFICES ASSUME NEW d \in Clients, req'[d] # <<>>, pc'[Head(req'[d])] = "request"
               PROVE  ~idle'[d]
    BY DEF SpareInv
  <2>1. Within(Head(req'[d]), req'[d]) /\ Head(req'[d]) \in Calls
    BY <1>2, WithinFacts DEF ReqType
  <2>2. CASE d = c
    <3>1. Head(w) # p /\ pc[Head(w)] = "request" /\ w # <<>>
      BY <1>1, <2>1, <2>2
    <3> QED
      BY <2>2, <3>1 DEF SpareInv
  <2>3. CASE d # c
    <3>1. Head(req[d]) # p /\ req[d] # <<>> /\ Head(req[d]) \in Calls
      BY <1>1, <2>1, <2>3 DEF ReqInv
    <3> QED
      BY <1>1, <2>3, <3>1 DEF SpareInv
  <2> QED
    BY <2>2, <2>3
<1> QED
  BY <1>2, <1>3, <1>4, <1>5, <1>6 DEF ReqInv

(***************************************************************************)
(* Each step of a thread preserves the invariant.                          *)
(***************************************************************************)
RestType ==
  /\ registered \in created \union {NoClient}
  /\ created \subseteq Clients
  /\ proc \in [Clients -> {"none", "running", "exited"}]
  /\ ready \in [Clients -> BOOLEAN]
  /\ tainted \in [Clients -> BOOLEAN]
  /\ idle \in [Clients -> BOOLEAN]
  /\ late \in [Clients -> SUBSET Calls]
  /\ pc \in [Threads -> CallPcs \union ReaperPcs \union ShutdownPcs]
  /\ \A p \in Calls : pc[p] \in CallPcs
  /\ pc[Reaper] \in ReaperPcs /\ pc[Shutdown] \in ShutdownPcs
  /\ at \in [Threads -> Clients \union {NoClient}]
  /\ on \in [Calls -> Clients \union {NoClient}]
  /\ starts \in [Calls -> 0..3]
  /\ cut \subseteq Calls
  /\ outcome \in [Calls -> Calls \union Failures]

LEMMA Parts == IInv <=> /\ RestType /\ LifeType /\ ReqType /\ LifeInv /\ ReqInv
                        /\ SpareInv /\ OnInv /\ OwnInv
BY DEF IInv, TypeOK, LockInv, RestType, LifeType, ReqType

LEMMA PartsNext ==
  IInv' <=> /\ RestType' /\ LifeType' /\ ReqType' /\ LifeInv' /\ ReqInv'
            /\ SpareInv' /\ OnInv' /\ OwnInv'
BY DEF IInv, TypeOK, LockInv, RestType, LifeType, ReqType

LEMMA ThreadFacts ==
  /\ Reaper \in Threads /\ Shutdown \in Threads /\ Reaper # Shutdown
  /\ \A p \in Calls : p \in Threads /\ p # Reaper /\ p # Shutdown
BY MCPSentinelAssumption DEF Threads, Reaper, Shutdown

(* Who is past the wait for a lifecycle lock holds it.                     *)
LEMMA LifeHeld ==
  ASSUME LifeInv, LifeType, NEW p \in Threads, pc[p] \in HasLife
  PROVE  HoldsLife(p) /\ at[p] \in Clients /\ pc[p] \in Locking
<1>1. at[p] \in Clients /\ Within(p, life[at[p]]) /\ Head(life[at[p]]) = p /\ pc[p] \in Locking
  BY DEF LifeInv, Locking
<1>2. life[at[p]] # <<>>
  BY <1>1, WithinFacts DEF LifeType
<1> QED
  BY <1>1, <1>2, MCPSentinelAssumption DEF HoldsLife

LEMMA StopStaleStep == ASSUME IInv, NEW p \in Calls, StopStale(p) PROVE IInv'
<1> USE ThreadFacts, MCPSentinelAssumption
<1>0. RestType /\ LifeType /\ ReqType /\ LifeInv /\ ReqInv /\ SpareInv /\ OnInv /\ OwnInv
  BY Parts
<1>1. /\ pc[p] = "stop-stale" /\ pc' = [pc EXCEPT ![p] = "stopping-stale"]
      /\ HoldsLife(p)
      /\ proc' = [proc EXCEPT ![at[p]] = "none"]
      /\ ready' = [ready EXCEPT ![at[p]] = FALSE]
      /\ tainted' = [tainted EXCEPT ![at[p]] = FALSE]
      /\ late' = [late EXCEPT ![at[p]] = {}]
      /\ cut' \subseteq cut \union Calls
      /\ UNCHANGED <<registered, created, idle, life, req, at, on, starts, outcome>>
  BY DEF StopStale, GoTo, LetGo, lockVars
<1>2. LifeInv' /\ LifeType'
  BY <1>0, <1>1, LifeKept DEF OthersStay, Stays, Locking, HasLife, RestType
<1>3. ReqInv' /\ SpareInv' /\ ReqType'
  BY <1>0, <1>1, ReqKept DEF KeepsPlace, Requesting, RestType
<1>4. RestType'
  BY <1>0, <1>1 DEF RestType, CallPcs, ReaperPcs, ShutdownPcs
<1>5. OnInv'
  BY <1>0, <1>1 DEF OnInv, RestType
<1>6. OwnInv'
  BY <1>0, <1>1 DEF OwnInv
<1> QED
  BY <1>2, <1>3, <1>4, <1>5, <1>6, PartsNext

LEMMA ReapIdleStep == ASSUME IInv, ReapIdle PROVE IInv'
<1> USE ThreadFacts, MCPSentinelAssumption
<1>0. RestType /\ LifeType /\ ReqType /\ LifeInv /\ ReqInv /\ SpareInv /\ OnInv /\ OwnInv
  BY Parts
<1>1. /\ pc[Reaper] = "reap" /\ pc' = [pc EXCEPT ![Reaper] = "stopping-idle"]
      /\ HoldsLife(Reaper)
      /\ proc' = [proc EXCEPT ![at[Reaper]] = "none"]
      /\ ready' = [ready EXCEPT ![at[Reaper]] = FALSE]
      /\ tainted' = [tainted EXCEPT ![at[Reaper]] = FALSE]
      /\ late' = [late EXCEPT ![at[Reaper]] = {}]
      /\ cut' \subseteq cut \union Calls
      /\ UNCHANGED <<registered, created, idle, life, req, at, on, starts, outcome>>
  BY DEF ReapIdle, GoTo, LetGo, lockVars
<1>2. LifeInv' /\ LifeType'
  BY <1>0, <1>1, LifeKept DEF OthersStay, Stays, Locking, HasLife, RestType
<1>3. ReqInv' /\ SpareInv' /\ ReqType'
  BY <1>0, <1>1, ReqKept DEF KeepsPlace, Requesting, RestType
<1>4. RestType'
  BY <1>0, <1>1 DEF RestType, CallPcs, ReaperPcs, ShutdownPcs
<1>5. OnInv'
  BY <1>0, <1>1 DEF OnInv, RestType
<1>6. OwnInv'
  BY <1>0, <1>1 DEF OwnInv
<1> QED
  BY <1>2, <1>3, <1>4, <1>5, <1>6, PartsNext

LEMMA StopLastStep == ASSUME IInv, StopLast PROVE IInv'
<1> USE ThreadFacts, MCPSentinelAssumption
<1>0. RestType /\ LifeType /\ ReqType /\ LifeInv /\ ReqInv /\ SpareInv /\ OnInv /\ OwnInv
  BY Parts
<1>1. /\ pc[Shutdown] = "stop" /\ pc' = [pc EXCEPT ![Shutdown] = "stopping-last"]
      /\ HoldsLife(Shutdown)
      /\ proc' = [proc EXCEPT ![at[Shutdown]] = "none"]
      /\ ready' = [ready EXCEPT ![at[Shutdown]] = FALSE]
      /\ tainted' = [tainted EXCEPT ![at[Shutdown]] = FALSE]
      /\ late' = [late EXCEPT ![at[Shutdown]] = {}]
      /\ cut' \subseteq cut \union Calls
      /\ UNCHANGED <<registered, created, idle, life, req, at, on, starts, outcome>>
  BY DEF StopLast, GoTo, LetGo, lockVars
<1>2. LifeInv' /\ LifeType'
  BY <1>0, <1>1, LifeKept DEF OthersStay, Stays, Locking, HasLife, RestType
<1>3. ReqInv' /\ SpareInv' /\ ReqType'
  BY <1>0, <1>1, ReqKept DEF KeepsPlace, Requesting, RestType
<1>4. RestType'
  BY <1>0, <1>1 DEF RestType, CallPcs, ReaperPcs, ShutdownPcs
<1>5. OnInv'
  BY <1>0, <1>1 DEF OnInv, RestType
<1>6. OwnInv'
  BY <1>0, <1>1 DEF OwnInv
<1> QED
  BY <1>2, <1>3, <1>4, <1>5, <1>6, PartsNext

LEMMA GetOrStartStep == ASSUME IInv, NEW p \in Calls, GetOrStart(p) PROVE IInv'
<1> USE ThreadFacts, MCPSentinelAssumption
<1>0. RestType /\ LifeType /\ ReqType /\ LifeInv /\ ReqInv /\ SpareInv /\ OnInv /\ OwnInv
  BY Parts
<1> DEFINE stale == registered # NoClient /\ (tainted[registered] \/ ~Alive(registered))
           fresh == stale \/ registered = NoClient
           c == IF fresh THEN Fresh ELSE registered
           first == IF stale THEN registered ELSE c
<1>a. /\ pc[p] = "new" /\ (fresh => created # Clients)
      /\ created' = created \union {c} /\ registered' = c
      /\ on' = [on EXCEPT ![p] = c]
      /\ at' = [at EXCEPT ![p] = first]
      /\ life' = [life EXCEPT ![first] = Append(@, p)]
      /\ starts' = [starts EXCEPT ![p] = 1]
      /\ pc' = [pc EXCEPT ![p] = IF stale THEN "stop-stale" ELSE "start",
                          ![Reaper] = IF @ = "absent" THEN "asleep" ELSE @]
      /\ UNCHANGED <<proc, ready, tainted, idle, late, req, cut, outcome>>
  BY DEF GetOrStart, clientVars
<1>b. fresh => Fresh \in Clients \ created
  BY <1>0, <1>a DEF RestType, Fresh
<1>c. /\ c \in Clients /\ first \in Clients
      /\ stale => first # c
  BY <1>0, <1>b DEF RestType
<1> HIDE DEF c, first, fresh, stale
<1>1. /\ pc'[p] = IF stale THEN "stop-stale" ELSE "start"
      /\ \A r \in Calls : r # p => pc'[r] = pc[r] /\ on'[r] = on[r] /\ starts'[r] = starts[r]
      /\ \A r \in Threads : r # p => at'[r] = at[r]
      /\ pc'[Reaper] = IF pc[Reaper] = "absent" THEN "asleep" ELSE pc[Reaper]
      /\ pc'[Shutdown] = pc[Shutdown]
      /\ on'[p] = c /\ at'[p] = first /\ starts'[p] = 1
      /\ UNCHANGED <<proc, ready, tainted, idle, late, req, cut, outcome>>
  BY <1>0, <1>a DEF RestType
<1>d. \A r \in Threads : r \in Calls \/ r = Reaper \/ r = Shutdown
  BY DEF Threads
<1>e. ~stale => first = c
  BY DEF first
<1>2. LifeInv' /\ LifeType'
  <2>1. OthersStay(p)
    BY <1>1, <1>d DEF OthersStay, Stays, Locking, HasLife
  <2>2. pc[p] \notin Locking /\ pc'[p] \in Locking \ HasLife
    BY <1>1, <1>a DEF Locking, HasLife
  <2> QED
    BY <1>0, <1>1, <1>a, <1>c, <2>1, <2>2, LifeJoined
<1>3. ReqInv' /\ SpareInv' /\ ReqType'
  <2>1. \A r \in Calls : KeepsPlace(r)
    BY <1>1, <1>a DEF KeepsPlace, Requesting
  <2> QED
    BY <1>0, <1>1, <2>1, ReqKept
<1>4. RestType'
  <2>1. /\ registered' \in created' \union {NoClient} /\ created' \subseteq Clients
        /\ at' \in [Threads -> Clients \union {NoClient}]
        /\ on' \in [Calls -> Clients \union {NoClient}]
        /\ starts' \in [Calls -> 0..3]
    BY <1>0, <1>a, <1>c DEF RestType
  <2>2. pc' \in [Threads -> CallPcs \union ReaperPcs \union ShutdownPcs]
    BY <1>0, <1>a DEF RestType, CallPcs, ReaperPcs
  <2> QED
    BY <1>0, <1>1, <2>1, <2>2 DEF RestType, CallPcs, ReaperPcs
<1>5. OnInv'
  <2> SUFFICES ASSUME NEW r \in Calls
               PROVE  /\ pc'[r] = "new" <=> on'[r] = NoClient
                      /\ pc'[r] \in {"stop-stale", "stopping-stale"} => at'[r] # on'[r]
                      /\ pc'[r] \in {"start", "stopping-restart", "spawning", "initialize",
                                    "notify", "stopping-failed"} => at'[r] = on'[r]
                      /\ pc'[r] \in {"stop-stale", "stopping-stale", "start",
                                    "stopping-restart", "spawning", "initialize", "notify"}
                           => starts'[r] \in 1..3
    BY DEF OnInv
  <2>1. CASE r # p
    <3>1. pc'[r] = pc[r] /\ on'[r] = on[r] /\ starts'[r] = starts[r] /\ at'[r] = at[r]
      BY <1>1, <2>1
    <3> QED
      BY <1>0, <3>1 DEF OnInv
  <2>2. CASE r = p
    <3>1. c # NoClient
      BY <1>c
    <3>2. CASE stale
      BY <1>1, <1>c, <2>2, <3>1, <3>2
    <3>3. CASE ~stale
      BY <1>1, <1>e, <2>2, <3>1, <3>3
    <3> QED
      BY <3>2, <3>3
  <2> QED
    BY <2>1, <2>2
<1>6. OwnInv'
  BY <1>0, <1>1 DEF OwnInv
<1> QED
  BY <1>2, <1>3, <1>4, <1>5, <1>6, PartsNext

LEMMA StaleStoppedStep == ASSUME IInv, NEW p \in Calls, StaleStopped(p) PROVE IInv'
<1> USE ThreadFacts, MCPSentinelAssumption
<1>0. RestType /\ LifeType /\ ReqType /\ LifeInv /\ ReqInv /\ SpareInv /\ OnInv /\ OwnInv
  BY Parts
<1>1. /\ pc[p] = "stopping-stale" /\ pc' = [pc EXCEPT ![p] = "start"]
      /\ at' = [at EXCEPT ![p] = on[p]]
      /\ life' = [life EXCEPT ![at[p]] = Tail(@), ![on[p]] = Append(@, p)]
      /\ UNCHANGED <<registered, created, proc, ready, tainted, idle, late, req, on, starts, cut, outcome>>
  BY DEF StaleStopped, GoTo, clientVars, callVars
<1>a. HoldsLife(p) /\ pc[p] \in Locking
  BY <1>0, <1>1, LifeHeld DEF HasLife
<1>b. on[p] \in Clients /\ on[p] # at[p]
  BY <1>0, <1>1 DEF OnInv, RestType
<1>2. LifeInv' /\ LifeType'
  <2>1. OthersStay(p) /\ at'[p] = on[p] /\ pc'[p] \in Locking \ HasLife
    BY <1>0, <1>1 DEF OthersStay, Stays, RestType, Locking, HasLife
  <2> QED
    BY <1>0, <1>1, <1>a, <1>b, <2>1, LifeMoved
<1>3. ReqInv' /\ SpareInv' /\ ReqType'
  BY <1>0, <1>1, ReqKept DEF KeepsPlace, Requesting, RestType
<1>4. RestType'
  BY <1>0, <1>1 DEF RestType, CallPcs, ReaperPcs, ShutdownPcs
<1>5. OnInv'
  BY <1>0, <1>1 DEF OnInv, RestType
<1>6. OwnInv'
  BY <1>0, <1>1 DEF OwnInv
<1> QED
  BY <1>2, <1>3, <1>4, <1>5, <1>6, PartsNext

LEMMA ReaperWakesStep == ASSUME IInv, ReaperWakes PROVE IInv'
<1> USE ThreadFacts, MCPSentinelAssumption
<1>0. RestType /\ LifeType /\ ReqType /\ LifeInv /\ ReqInv /\ SpareInv /\ OnInv /\ OwnInv
  BY Parts
<1>1. /\ pc[Reaper] = "asleep" /\ pc' = [pc EXCEPT ![Reaper] = "reap"]
      /\ registered # NoClient
      /\ at' = [at EXCEPT ![Reaper] = registered]
      /\ life' = [life EXCEPT ![registered] = Append(@, Reaper)]
      /\ UNCHANGED <<registered, created, proc, ready, tainted, idle, late, req, on, starts, cut, outcome>>
  BY DEF ReaperWakes, GoTo, clientVars, callVars
<1>a. registered \in Clients
  BY <1>0, <1>1 DEF RestType
<1>2. LifeInv' /\ LifeType'
  <2>1. OthersStay(Reaper) /\ at'[Reaper] = registered /\ pc'[Reaper] \in Locking \ HasLife
    BY <1>0, <1>1, <1>a DEF OthersStay, Stays, RestType, Locking, HasLife
  <2>2. pc[Reaper] \notin Locking
    BY <1>1 DEF Locking, HasLife
  <2> QED
    BY <1>0, <1>1, <1>a, <2>1, <2>2, LifeJoined
<1>3. ReqInv' /\ SpareInv' /\ ReqType'
  BY <1>0, <1>1, ReqKept DEF KeepsPlace, Requesting, RestType
<1>4. RestType'
  BY <1>0, <1>1 DEF RestType, CallPcs, ReaperPcs, ShutdownPcs
<1>5. OnInv'
  BY <1>0, <1>1 DEF OnInv, RestType
<1>6. OwnInv'
  BY <1>0, <1>1 DEF OwnInv
<1> QED
  BY <1>2, <1>3, <1>4, <1>5, <1>6, PartsNext

LEMMA ReapDeadStep == ASSUME IInv, ReapDead PROVE IInv'
<1> USE ThreadFacts, MCPSentinelAssumption
<1>0. RestType /\ LifeType /\ ReqType /\ LifeInv /\ ReqInv /\ SpareInv /\ OnInv /\ OwnInv
  BY Parts
<1>1. /\ pc[Reaper] = "reap" /\ pc' = [pc EXCEPT ![Reaper] = "pop"]
      /\ life' = [life EXCEPT ![at[Reaper]] = Tail(@)]
      /\ at' = at
      /\ UNCHANGED <<registered, created, proc, ready, tainted, idle, late, req, on, starts, cut, outcome>>
  BY DEF ReapDead, GoTo, ReleaseLife, clientVars, callVars
<1>a. HoldsLife(Reaper) /\ pc[Reaper] \in Locking
  BY <1>1 DEF ReapDead, Locking
<1>2. LifeInv' /\ LifeType'
  <2>1. OthersStay(Reaper) /\ pc'[Reaper] \notin Locking
    BY <1>0, <1>1 DEF OthersStay, Stays, RestType, Locking, HasLife
  <2> QED
    BY <1>0, <1>1, <1>a, <2>1, LifeReleased
<1>3. ReqInv' /\ SpareInv' /\ ReqType'
  BY <1>0, <1>1, ReqKept DEF KeepsPlace, Requesting, RestType
<1>4. RestType'
  BY <1>0, <1>1 DEF RestType, CallPcs, ReaperPcs, ShutdownPcs
<1>5. OnInv'
  BY <1>0, <1>1 DEF OnInv, RestType
<1>6. OwnInv'
  BY <1>0, <1>1 DEF OwnInv
<1> QED
  BY <1>2, <1>3, <1>4, <1>5, <1>6, PartsNext

LEMMA ReapSparesStep == ASSUME IInv, ReapSpares PROVE IInv'
<1> USE ThreadFacts, MCPSentinelAssumption
<1>0. RestType /\ LifeType /\ ReqType /\ LifeInv /\ ReqInv /\ SpareInv /\ OnInv /\ OwnInv
  BY Parts
<1>1. /\ pc[Reaper] = "reap" /\ pc' = [pc EXCEPT ![Reaper] = "asleep"]
      /\ life' = [life EXCEPT ![at[Reaper]] = Tail(@)]
      /\ at' = [at EXCEPT ![Reaper] = NoClient]
      /\ UNCHANGED <<registered, created, proc, ready, tainted, idle, late, req, on, starts, cut, outcome>>
  BY DEF ReapSpares, GoTo, ReleaseLife, clientVars, callVars
<1>a. HoldsLife(Reaper) /\ pc[Reaper] \in Locking
  BY <1>1 DEF ReapSpares, Locking
<1>2. LifeInv' /\ LifeType'
  <2>1. OthersStay(Reaper) /\ pc'[Reaper] \notin Locking
    BY <1>0, <1>1 DEF OthersStay, Stays, RestType, Locking, HasLife
  <2> QED
    BY <1>0, <1>1, <1>a, <2>1, LifeReleased
<1>3. ReqInv' /\ SpareInv' /\ ReqType'
  BY <1>0, <1>1, ReqKept DEF KeepsPlace, Requesting, RestType
<1>4. RestType'
  BY <1>0, <1>1 DEF RestType, CallPcs, ReaperPcs, ShutdownPcs
<1>5. OnInv'
  BY <1>0, <1>1 DEF OnInv, RestType
<1>6. OwnInv'
  BY <1>0, <1>1 DEF OwnInv
<1> QED
  BY <1>2, <1>3, <1>4, <1>5, <1>6, PartsNext

LEMMA IdleStoppedStep == ASSUME IInv, IdleStopped PROVE IInv'
<1> USE ThreadFacts, MCPSentinelAssumption
<1>0. RestType /\ LifeType /\ ReqType /\ LifeInv /\ ReqInv /\ SpareInv /\ OnInv /\ OwnInv
  BY Parts
<1>1. /\ pc[Reaper] = "stopping-idle" /\ pc' = [pc EXCEPT ![Reaper] = "pop"]
      /\ life' = [life EXCEPT ![at[Reaper]] = Tail(@)]
      /\ at' = at
      /\ UNCHANGED <<registered, created, proc, ready, tainted, idle, late, req, on, starts, cut, outcome>>
  BY DEF IdleStopped, GoTo, ReleaseLife, clientVars, callVars
<1>a. HoldsLife(Reaper) /\ pc[Reaper] \in Locking
  BY <1>0, <1>1, LifeHeld DEF HasLife
<1>2. LifeInv' /\ LifeType'
  <2>1. OthersStay(Reaper) /\ pc'[Reaper] \notin Locking
    BY <1>0, <1>1 DEF OthersStay, Stays, RestType, Locking, HasLife
  <2> QED
    BY <1>0, <1>1, <1>a, <2>1, LifeReleased
<1>3. ReqInv' /\ SpareInv' /\ ReqType'
  BY <1>0, <1>1, ReqKept DEF KeepsPlace, Requesting, RestType
<1>4. RestType'
  BY <1>0, <1>1 DEF RestType, CallPcs, ReaperPcs, ShutdownPcs
<1>5. OnInv'
  BY <1>0, <1>1 DEF OnInv, RestType
<1>6. OwnInv'
  BY <1>0, <1>1 DEF OwnInv
<1> QED
  BY <1>2, <1>3, <1>4, <1>5, <1>6, PartsNext

LEMMA LastStoppedStep == ASSUME IInv, LastStopped PROVE IInv'
<1> USE ThreadFacts, MCPSentinelAssumption
<1>0. RestType /\ LifeType /\ ReqType /\ LifeInv /\ ReqInv /\ SpareInv /\ OnInv /\ OwnInv
  BY Parts
<1>1. /\ pc[Shutdown] = "stopping-last" /\ pc' = [pc EXCEPT ![Shutdown] = "finished"]
      /\ life' = [life EXCEPT ![at[Shutdown]] = Tail(@)]
      /\ at' = [at EXCEPT ![Shutdown] = NoClient]
      /\ UNCHANGED <<registered, created, proc, ready, tainted, idle, late, req, on, starts, cut, outcome>>
  BY DEF LastStopped, GoTo, ReleaseLife, clientVars, callVars
<1>a. HoldsLife(Shutdown) /\ pc[Shutdown] \in Locking
  BY <1>0, <1>1, LifeHeld DEF HasLife
<1>2. LifeInv' /\ LifeType'
  <2>1. OthersStay(Shutdown) /\ pc'[Shutdown] \notin Locking
    BY <1>0, <1>1 DEF OthersStay, Stays, RestType, Locking, HasLife
  <2> QED
    BY <1>0, <1>1, <1>a, <2>1, LifeReleased
<1>3. ReqInv' /\ SpareInv' /\ ReqType'
  BY <1>0, <1>1, ReqKept DEF KeepsPlace, Requesting, RestType
<1>4. RestType'
  BY <1>0, <1>1 DEF RestType, CallPcs, ReaperPcs, ShutdownPcs
<1>5. OnInv'
  BY <1>0, <1>1 DEF OnInv, RestType
<1>6. OwnInv'
  BY <1>0, <1>1 DEF OwnInv
<1> QED
  BY <1>2, <1>3, <1>4, <1>5, <1>6, PartsNext

LEMMA PopDeadStep == ASSUME IInv, PopDead PROVE IInv'
<1> USE ThreadFacts, MCPSentinelAssumption
<1>0. RestType /\ LifeType /\ ReqType /\ LifeInv /\ ReqInv /\ SpareInv /\ OnInv /\ OwnInv
  BY Parts
<1>1. /\ pc[Reaper] = "pop" /\ pc' = [pc EXCEPT ![Reaper] = "asleep"]
      /\ at' = [at EXCEPT ![Reaper] = NoClient]
      /\ registered' \in {registered, NoClient}
      /\ UNCHANGED <<created, proc, ready, tainted, idle, late, life, req, on, starts, cut, outcome>>
  BY DEF PopDead, GoTo, clientVars, lockVars, callVars
<1>2. LifeInv' /\ LifeType'
  BY <1>0, <1>1, LifeKept DEF OthersStay, Stays, Locking, HasLife, RestType
<1>3. ReqInv' /\ SpareInv' /\ ReqType'
  BY <1>0, <1>1, ReqKept DEF KeepsPlace, Requesting, RestType
<1>4. RestType'
  BY <1>0, <1>1 DEF RestType, CallPcs, ReaperPcs, ShutdownPcs
<1>5. OnInv'
  BY <1>0, <1>1 DEF OnInv, RestType
<1>6. OwnInv'
  BY <1>0, <1>1 DEF OwnInv
<1> QED
  BY <1>2, <1>3, <1>4, <1>5, <1>6, PartsNext

LEMMA RestartStep == ASSUME IInv, NEW p \in Calls, Restart(p) PROVE IInv'
<1> USE ThreadFacts, MCPSentinelAssumption
<1>0. RestType /\ LifeType /\ ReqType /\ LifeInv /\ ReqInv /\ SpareInv /\ OnInv /\ OwnInv
  BY Parts
<1> DEFINE l == pc'[p]
<1>1. /\ pc[p] = "start" /\ HoldsLife(p)
      /\ l \in {"stopping-restart", "spawning"} /\ pc' = [pc EXCEPT ![p] = l]
      /\ UNCHANGED <<registered, created, idle, life, req, at, on, starts, outcome>>
  <2>1. CASE proc[at[p]] # "none"
    <3>1. pc' = [pc EXCEPT ![p] = "stopping-restart"]
      BY <2>1 DEF Restart, GoTo
    <3> QED
      BY <1>0, <3>1 DEF Restart, lockVars, RestType
  <2>2. CASE proc[at[p]] = "none"
    <3>1. pc' = [pc EXCEPT ![p] = "spawning"]
      BY <2>2 DEF Restart, GoTo
    <3> QED
      BY <1>0, <3>1 DEF Restart, lockVars, RestType
  <2> QED
    BY <2>1, <2>2
<1>a. /\ proc' \in [Clients -> {"none", "running", "exited"}]
      /\ ready' \in [Clients -> BOOLEAN] /\ tainted' \in [Clients -> BOOLEAN]
      /\ late' \in [Clients -> SUBSET Calls] /\ cut' \subseteq Calls
  <2>1. CASE proc[at[p]] # "none"
    <3>1. LetGo(at[p])
      BY <2>1 DEF Restart
    <3> QED
      BY <1>0, <3>1 DEF LetGo, RestType
  <2>2. CASE proc[at[p]] = "none"
    BY <1>0, <2>2 DEF Restart, RestType
  <2> QED
    BY <2>1, <2>2
<1> HIDE DEF l
<1>2. LifeInv' /\ LifeType'
  BY <1>0, <1>1, LifeKept DEF OthersStay, Stays, Locking, HasLife, RestType
<1>3. ReqInv' /\ SpareInv' /\ ReqType'
  BY <1>0, <1>1, ReqKept DEF KeepsPlace, Requesting, RestType
<1>4. RestType'
  BY <1>0, <1>1, <1>a DEF RestType, CallPcs
<1>5. OnInv'
  BY <1>0, <1>1 DEF OnInv, RestType
<1>6. OwnInv'
  BY <1>0, <1>1 DEF OwnInv
<1> QED
  BY <1>2, <1>3, <1>4, <1>5, <1>6, PartsNext

LEMMA RestartStoppedStep == ASSUME IInv, NEW p \in Calls, RestartStopped(p) PROVE IInv'
<1> USE ThreadFacts, MCPSentinelAssumption
<1>0. RestType /\ LifeType /\ ReqType /\ LifeInv /\ ReqInv /\ SpareInv /\ OnInv /\ OwnInv
  BY Parts
<1>1. /\ pc[p] = "stopping-restart" /\ pc' = [pc EXCEPT ![p] = "spawning"]
      /\ UNCHANGED <<registered, created, proc, ready, tainted, idle, late, life, req, at, on, starts, cut, outcome>>
  BY DEF RestartStopped, GoTo, clientVars, lockVars, callVars
<1>a. HoldsLife(p) /\ at[p] \in Clients /\ pc[p] \in Locking
  BY <1>0, <1>1, LifeHeld DEF HasLife
<1>2. LifeInv' /\ LifeType'
  BY <1>0, <1>1, <1>a, LifeKept DEF OthersStay, Stays, Locking, HasLife, RestType
<1>3. ReqInv' /\ SpareInv' /\ ReqType'
  BY <1>0, <1>1, ReqKept DEF KeepsPlace, Requesting, RestType
<1>4. RestType'
  BY <1>0, <1>1 DEF RestType, CallPcs, ReaperPcs, ShutdownPcs
<1>5. OnInv'
  BY <1>0, <1>1 DEF OnInv, RestType
<1>6. OwnInv'
  BY <1>0, <1>1 DEF OwnInv
<1> QED
  BY <1>2, <1>3, <1>4, <1>5, <1>6, PartsNext

LEMMA SpawnedStep == ASSUME IInv, NEW p \in Calls, Spawned(p) PROVE IInv'
<1> USE ThreadFacts, MCPSentinelAssumption
<1>0. RestType /\ LifeType /\ ReqType /\ LifeInv /\ ReqInv /\ SpareInv /\ OnInv /\ OwnInv
  BY Parts
<1>1. /\ pc[p] = "spawning" /\ pc' = [pc EXCEPT ![p] = "initialize"]
      /\ proc' = [proc EXCEPT ![at[p]] = "running"]
      /\ ready' = [ready EXCEPT ![at[p]] = FALSE]
      /\ tainted' = [tainted EXCEPT ![at[p]] = FALSE]
      /\ idle' = [idle EXCEPT ![at[p]] = FALSE]
      /\ req' = [req EXCEPT ![at[p]] = Append(@, p)]
      /\ UNCHANGED <<registered, created, late, life, at, on, starts, cut, outcome>>
  BY DEF Spawned, GoTo, callVars
<1>a. HoldsLife(p) /\ at[p] \in Clients /\ pc[p] \in Locking
  BY <1>0, <1>1, LifeHeld DEF HasLife
<1>b. at[p] = on[p] /\ on[p] \in Clients
  BY <1>0, <1>1, <1>a DEF OnInv
<1>2. LifeInv' /\ LifeType'
  BY <1>0, <1>1, <1>a, LifeKept DEF OthersStay, Stays, Locking, HasLife, RestType
<1>3. ReqInv' /\ SpareInv' /\ ReqType'
  <2> DEFINE w == Append(req[on[p]], p)
  <2>1. ~Within(p, req[on[p]]) /\ Distinct(req[on[p]]) /\ req[on[p]] \in Seq(Calls)
    BY <1>0, <1>1, <1>b DEF ReqInv, ReqType, Requesting
  <2>2. /\ w \in Seq(Calls) /\ Distinct(w)
        /\ \A r : Within(r, w) <=> Within(r, req[on[p]]) \/ r = p
        /\ w # <<>> /\ Head(w) = IF req[on[p]] = <<>> THEN p ELSE Head(req[on[p]])
    BY <2>1, AppendFacts
  <2>3. /\ req' = [req EXCEPT ![on[p]] = w] /\ idle'[on[p]] = FALSE
        /\ \A d \in Clients : idle'[d] => idle[d]
        /\ pc'[p] = "initialize" /\ \A r \in Calls : r # p => pc'[r] = pc[r]
    BY <1>0, <1>1, <1>b DEF RestType
  <2>4. \A r : Within(r, w) => (Within(r, req[on[p]]) /\ r # p) \/ (r = p /\ pc'[p] \in Requesting)
    BY <2>1, <2>2, <2>3 DEF Requesting
  <2> HIDE DEF w
  <2> QED
    BY <1>0, <1>1, <1>b, <2>2, <2>3, <2>4, ReqSet DEF Exchanging
<1>4. RestType'
  BY <1>0, <1>1 DEF RestType, CallPcs, ReaperPcs, ShutdownPcs
<1>5. OnInv'
  BY <1>0, <1>1 DEF OnInv, RestType
<1>6. OwnInv'
  BY <1>0, <1>1 DEF OwnInv
<1> QED
  BY <1>2, <1>3, <1>4, <1>5, <1>6, PartsNext

LEMMA InitializedStep == ASSUME IInv, NEW p \in Calls, Initialized(p) PROVE IInv'
<1> USE ThreadFacts, MCPSentinelAssumption
<1>0. RestType /\ LifeType /\ ReqType /\ LifeInv /\ ReqInv /\ SpareInv /\ OnInv /\ OwnInv
  BY Parts
<1>1. /\ pc[p] = "initialize" /\ pc' = [pc EXCEPT ![p] = "notify"] /\ HoldsReq(p)
      /\ idle' = [idle EXCEPT ![at[p]] = FALSE]
      /\ req' = [req EXCEPT ![at[p]] = Append(Tail(@), p)]
      /\ UNCHANGED <<registered, created, proc, ready, tainted, late, life, at, on, starts, cut, outcome>>
  BY DEF Initialized, GoTo, callVars
<1>a. HoldsLife(p) /\ at[p] \in Clients /\ pc[p] \in Locking
  BY <1>0, <1>1, LifeHeld DEF HasLife
<1>b. at[p] = on[p] /\ on[p] \in Clients
  BY <1>0, <1>1, <1>a DEF OnInv
<1>2. LifeInv' /\ LifeType'
  BY <1>0, <1>1, <1>a, LifeKept DEF OthersStay, Stays, Locking, HasLife, RestType
<1>3. ReqInv' /\ SpareInv' /\ ReqType'
  <2> DEFINE q == Tail(req[on[p]])
             w == Append(q, p)
  <2>1. req[on[p]] # <<>> /\ Head(req[on[p]]) = p /\ Distinct(req[on[p]]) /\ req[on[p]] \in Seq(Calls)
    BY <1>0, <1>1, <1>b DEF HoldsReq, ReqInv, ReqType
  <2>2. q \in Seq(Calls) /\ Distinct(q) /\ \A r : Within(r, q) <=> Within(r, req[on[p]]) /\ r # p
    BY <2>1, TailFacts
  <2> HIDE DEF q
  <2>3. /\ w \in Seq(Calls) /\ Distinct(w) /\ w # <<>>
        /\ \A r : Within(r, w) <=> Within(r, q) \/ r = p
    BY <2>2, AppendFacts
  <2>4. /\ req' = [req EXCEPT ![on[p]] = w] /\ idle'[on[p]] = FALSE
        /\ \A d \in Clients : idle'[d] => idle[d]
        /\ pc'[p] = "notify" /\ \A r \in Calls : r # p => pc'[r] = pc[r]
    BY <1>0, <1>1, <1>b DEF RestType, q
  <2>5. \A r : Within(r, w) => (Within(r, req[on[p]]) /\ r # p) \/ (r = p /\ pc'[p] \in Requesting)
    BY <2>2, <2>3, <2>4 DEF Requesting
  <2> HIDE DEF w
  <2>6. /\ pc'[p] \notin Exchanging /\ pc'[p] # "request" /\ on'[p] = on[p]
        /\ \A r \in Calls : r # p => pc'[r] = pc[r] /\ on'[r] = on[r]
        /\ ~idle'[on[p]]
    BY <1>1, <2>4 DEF Exchanging
  <2> QED
    BY <1>0, <1>b, <2>1, <2>3, <2>4, <2>5, <2>6, ReqSet
<1>4. RestType'
  BY <1>0, <1>1 DEF RestType, CallPcs, ReaperPcs, ShutdownPcs
<1>5. OnInv'
  BY <1>0, <1>1 DEF OnInv, RestType
<1>6. OwnInv'
  BY <1>0, <1>1 DEF OwnInv
<1> QED
  BY <1>2, <1>3, <1>4, <1>5, <1>6, PartsNext

LEMMA HandshakeFailsStep == ASSUME IInv, NEW p \in Calls, HandshakeFails(p) PROVE IInv'
<1> USE ThreadFacts, MCPSentinelAssumption
<1>0. RestType /\ LifeType /\ ReqType /\ LifeInv /\ ReqInv /\ SpareInv /\ OnInv /\ OwnInv
  BY Parts
<1>1. /\ pc[p] \in {"initialize", "notify"} /\ pc' = [pc EXCEPT ![p] = "stopping-failed"]
      /\ proc' = [proc EXCEPT ![at[p]] = "none"]
      /\ ready' = [ready EXCEPT ![at[p]] = FALSE]
      /\ tainted' = [tainted EXCEPT ![at[p]] = FALSE]
      /\ late' = [late EXCEPT ![at[p]] = {}]
      /\ cut' \subseteq cut \union Calls
      /\ req' = [req EXCEPT ![at[p]] = Without(@, p)]
      /\ idle' = [idle EXCEPT ![at[p]] = @ /\ ~HoldsReq(p)]
      /\ UNCHANGED <<registered, created, life, at, on, starts, outcome>>
  BY DEF HandshakeFails, GoTo, LetGo
<1>a. HoldsLife(p) /\ at[p] \in Clients /\ pc[p] \in Locking
  BY <1>0, <1>1, LifeHeld DEF HasLife
<1>b. at[p] = on[p] /\ on[p] \in Clients
  BY <1>0, <1>1, <1>a DEF OnInv
<1>2. LifeInv' /\ LifeType'
  BY <1>0, <1>1, <1>a, LifeKept DEF OthersStay, Stays, Locking, HasLife, RestType
<1>3. ReqInv' /\ SpareInv' /\ ReqType'
  <2> DEFINE w == Without(req[on[p]], p)
  <2>1. Distinct(req[on[p]]) /\ req[on[p]] \in Seq(Calls)
    BY <1>0, <1>b DEF ReqInv, ReqType
  <2>2. /\ w \in Seq(Calls) /\ Distinct(w)
        /\ \A r : Within(r, w) <=> Within(r, req[on[p]]) /\ r # p
        /\ req[on[p]] # <<>> /\ Head(req[on[p]]) # p => w # <<>> /\ Head(w) = Head(req[on[p]])
        /\ req[on[p]] = <<>> => w = <<>>
    BY <2>1, WithoutFacts
  <2>3. /\ req' = [req EXCEPT ![on[p]] = w] /\ idle'[on[p]] = (idle[on[p]] /\ ~HoldsReq(p))
        /\ \A d \in Clients : idle'[d] => idle[d]
        /\ pc'[p] = "stopping-failed" /\ \A r \in Calls : r # p => pc'[r] = pc[r]
    BY <1>0, <1>1, <1>b DEF RestType
  <2>4. idle'[on[p]] => req[on[p]] = <<>> \/ Head(req[on[p]]) # p
    BY <1>b, <2>3 DEF HoldsReq
  <2> HIDE DEF w
  <2>5. idle'[on[p]] /\ w # <<>> /\ Head(w) # p =>
          req[on[p]] # <<>> /\ Head(w) = Head(req[on[p]])
    BY <2>2, <2>4
  <2>6. /\ pc'[p] \notin Exchanging /\ pc'[p] # "request" /\ on'[p] = on[p]
        /\ \A r \in Calls : r # p => pc'[r] = pc[r] /\ on'[r] = on[r]
    BY <1>1, <2>3 DEF Exchanging
  <2> QED
    BY <1>0, <1>b, <2>2, <2>3, <2>5, <2>6, ReqSet
<1>4. RestType'
  BY <1>0, <1>1 DEF RestType, CallPcs, ReaperPcs, ShutdownPcs
<1>5. OnInv'
  BY <1>0, <1>1 DEF OnInv, RestType
<1>6. OwnInv'
  BY <1>0, <1>1 DEF OwnInv
<1> QED
  BY <1>2, <1>3, <1>4, <1>5, <1>6, PartsNext

LEMMA BeginRequestStep == ASSUME IInv, NEW p \in Calls, BeginRequest(p) PROVE IInv'
<1> USE ThreadFacts, MCPSentinelAssumption
<1>0. RestType /\ LifeType /\ ReqType /\ LifeInv /\ ReqInv /\ SpareInv /\ OnInv /\ OwnInv
  BY Parts
<1>1. /\ pc[p] = "request" /\ HoldsReq(p) /\ pc' = [pc EXCEPT ![p] = "exchange"]
      /\ idle' = [idle EXCEPT ![on[p]] = FALSE]
      /\ UNCHANGED <<registered, created, proc, ready, tainted, late, life, req, at, on, starts, cut, outcome>>
  BY DEF BeginRequest, GoTo, lockVars, callVars
<1>2. LifeInv' /\ LifeType'
  BY <1>0, <1>1, LifeKept DEF OthersStay, Stays, Locking, HasLife, RestType
<1>3. ReqInv' /\ SpareInv' /\ ReqType'
  BY <1>0, <1>1, ReqKept DEF KeepsPlace, Requesting, RestType
<1>4. RestType'
  BY <1>0, <1>1 DEF RestType, CallPcs, ReaperPcs, ShutdownPcs
<1>5. OnInv'
  BY <1>0, <1>1 DEF OnInv, RestType
<1>6. OwnInv'
  BY <1>0, <1>1 DEF OwnInv
<1> QED
  BY <1>2, <1>3, <1>4, <1>5, <1>6, PartsNext

LEMMA TimeoutStep == ASSUME IInv, NEW p \in Calls, Timeout(p) PROVE IInv'
<1> USE ThreadFacts, MCPSentinelAssumption
<1>0. RestType /\ LifeType /\ ReqType /\ LifeInv /\ ReqInv /\ SpareInv /\ OnInv /\ OwnInv
  BY Parts
<1>1. /\ pc[p] = "exchange" /\ pc' = [pc EXCEPT ![p] = "notify-cancelled"]
      /\ tainted' = [tainted EXCEPT ![on[p]] = TRUE]
      /\ late' = late \/ late' = [late EXCEPT ![on[p]] = @ \union {p}]
      /\ cut' = cut \ {p}
      /\ UNCHANGED <<registered, created, proc, ready, idle, life, req, at, on, starts, outcome>>
  BY DEF Timeout, GoTo, OwedReply, lockVars
<1>2. LifeInv' /\ LifeType'
  BY <1>0, <1>1, LifeKept DEF OthersStay, Stays, Locking, HasLife, RestType
<1>3. ReqInv' /\ SpareInv' /\ ReqType'
  BY <1>0, <1>1, ReqKept DEF KeepsPlace, Requesting, RestType
<1>4. RestType'
  <2>1. late' \in [Clients -> SUBSET Calls]
    BY <1>0, <1>1 DEF RestType
  <2> QED
    BY <1>0, <1>1, <2>1 DEF RestType, CallPcs
<1>5. OnInv'
  BY <1>0, <1>1 DEF OnInv, RestType
<1>6. OwnInv'
  BY <1>0, <1>1 DEF OwnInv
<1> QED
  BY <1>2, <1>3, <1>4, <1>5, <1>6, PartsNext

LEMMA ExitStep == ASSUME IInv, NEW c \in Clients, Exit(c) PROVE IInv'
<1> USE ThreadFacts, MCPSentinelAssumption
<1>0. RestType /\ LifeType /\ ReqType /\ LifeInv /\ ReqInv /\ SpareInv /\ OnInv /\ OwnInv
  BY Parts
<1>1. /\ proc' = [proc EXCEPT ![c] = "exited"]
      /\ UNCHANGED <<registered, created, ready, tainted, idle, late, pc, at, life, req, on, starts, cut, outcome>>
  BY DEF Exit, lockVars, callVars
<1>2. LifeInv' /\ LifeType'
  <2>1. OthersStay(Reaper)
    BY <1>1 DEF OthersStay, Stays
  <2> QED
    BY <1>0, <1>1, <2>1, LifeKept, LifeHeld
<1>3. ReqInv' /\ SpareInv' /\ ReqType'
  BY <1>0, <1>1, ReqKept DEF KeepsPlace, Requesting, RestType
<1>4. RestType'
  BY <1>0, <1>1 DEF RestType, CallPcs, ReaperPcs, ShutdownPcs
<1>5. OnInv'
  BY <1>0, <1>1 DEF OnInv, RestType
<1>6. OwnInv'
  BY <1>0, <1>1 DEF OwnInv
<1> QED
  BY <1>2, <1>3, <1>4, <1>5, <1>6, PartsNext

LEMMA BecomeIdleStep == ASSUME IInv, NEW c \in Clients, BecomeIdle(c) PROVE IInv'
<1> USE ThreadFacts, MCPSentinelAssumption
<1>0. RestType /\ LifeType /\ ReqType /\ LifeInv /\ ReqInv /\ SpareInv /\ OnInv /\ OwnInv
  BY Parts
<1>1. /\ idle' = [idle EXCEPT ![c] = TRUE]
      /\ ~\E p \in Calls : pc[p] = "request" /\ on[p] = c /\ HoldsReq(p)
      /\ UNCHANGED <<registered, created, proc, ready, tainted, late, pc, at, life, req, on, starts, cut, outcome>>
  BY DEF BecomeIdle, lockVars, callVars
<1>2. LifeInv' /\ LifeType'
  <2>1. OthersStay(Reaper)
    BY <1>1 DEF OthersStay, Stays
  <2> QED
    BY <1>0, <1>1, <2>1, LifeKept, LifeHeld
<1>3. ReqInv' /\ SpareInv' /\ ReqType'
  <2>1. ASSUME req[c] # <<>>, pc[Head(req[c])] = "request" PROVE FALSE
    <3>1. Within(Head(req[c]), req[c]) /\ Head(req[c]) \in Calls
      BY <1>0, <2>1, WithinFacts DEF ReqType
    <3>2. on[Head(req[c])] = c
      BY <1>0, <3>1 DEF ReqInv
    <3> QED
      BY <1>1, <2>1, <3>1, <3>2 DEF HoldsReq
  <2>2. \A d \in Clients : d # c => idle'[d] = idle[d]
    BY <1>0, <1>1 DEF RestType
  <2> QED
    BY <1>0, <1>1, <2>1, <2>2 DEF ReqInv, SpareInv, ReqType, HoldsReq
<1>4. RestType'
  BY <1>0, <1>1 DEF RestType, CallPcs, ReaperPcs, ShutdownPcs
<1>5. OnInv'
  BY <1>0, <1>1 DEF OnInv, RestType
<1>6. OwnInv'
  BY <1>0, <1>1 DEF OwnInv
<1> QED
  BY <1>2, <1>3, <1>4, <1>5, <1>6, PartsNext

LEMMA StopAllStep == ASSUME IInv, StopAll PROVE IInv'
<1> USE ThreadFacts, MCPSentinelAssumption
<1>0. RestType /\ LifeType /\ ReqType /\ LifeInv /\ ReqInv /\ SpareInv /\ OnInv /\ OwnInv
  BY Parts
<1>1. /\ pc[Shutdown] = "new"
      /\ registered' = NoClient
      /\ pc' = [pc EXCEPT ![Shutdown] = IF registered = NoClient THEN "finished" ELSE "stop", ![Reaper] = "absent"]
      /\ at' = [at EXCEPT ![Shutdown] = registered, ![Reaper] = NoClient]
      /\ life' = [c \in Clients |-> IF c = registered THEN Append(Without(life[c], Reaper), Shutdown) ELSE Without(life[c], Reaper)]
      /\ UNCHANGED <<created, proc, ready, tainted, idle, late, req, on, starts, cut, outcome>>
  BY DEF StopAll, clientVars, callVars
<1>2. LifeInv' /\ LifeType'
  <2>1. ASSUME NEW c \in Clients
        PROVE  /\ Without(life[c], Reaper) \in Seq(Threads)
               /\ \A r : Within(r, Without(life[c], Reaper)) <=> Within(r, life[c]) /\ r # Reaper
               /\ Distinct(Without(life[c], Reaper))
               /\ life[c] # <<>> /\ Head(life[c]) # Reaper =>
                    /\ Without(life[c], Reaper) # <<>>
                    /\ Head(Without(life[c], Reaper)) = Head(life[c])
               /\ \A r : Within(r, life[c]) => life[c] # <<>>
    BY <1>0, WithoutFacts, WithinFacts DEF LifeInv, LifeType
  <2>2. ASSUME NEW c \in Clients, c = registered
        PROVE  /\ life'[c] \in Seq(Threads)
               /\ \A r : Within(r, life'[c]) <=> (Within(r, life[c]) /\ r # Reaper) \/ r = Shutdown
               /\ Distinct(life'[c])
               /\ life[c] # <<>> /\ Head(life[c]) # Reaper => Head(life'[c]) = Head(life[c])
    <3>1. life'[c] = Append(Without(life[c], Reaper), Shutdown)
      BY <1>1, <2>2
    <3>2. ~Within(Shutdown, Without(life[c], Reaper))
      BY <1>0, <1>1, <2>1 DEF LifeInv, Locking, HasLife
    <3> DEFINE w == Without(life[c], Reaper)
    <3>3. w \in Seq(Threads) /\ Distinct(w) /\ ~Within(Shutdown, w)
      BY <2>1, <3>2
    <3>4. /\ \A r : Within(r, w) <=> Within(r, life[c]) /\ r # Reaper
          /\ life[c] # <<>> /\ Head(life[c]) # Reaper => w # <<>> /\ Head(w) = Head(life[c])
      BY <2>1
    <3>5. life'[c] = Append(w, Shutdown)
      BY <3>1
    <3> HIDE DEF w
    <3>6. /\ life'[c] \in Seq(Threads) /\ Distinct(life'[c])
          /\ \A r : Within(r, life'[c]) <=> Within(r, w) \/ r = Shutdown
          /\ Head(life'[c]) = IF w = <<>> THEN Shutdown ELSE Head(w)
      BY <3>3, <3>5, AppendFacts
    <3> QED
      BY <3>4, <3>6
  <2>3. ASSUME NEW c \in Clients, c # registered
        PROVE  /\ life'[c] \in Seq(Threads)
               /\ \A r : Within(r, life'[c]) <=> Within(r, life[c]) /\ r # Reaper
               /\ Distinct(life'[c])
               /\ life[c] # <<>> /\ Head(life[c]) # Reaper => Head(life'[c]) = Head(life[c])
    BY <1>1, <2>1, <2>3
  <2>4. LifeType'
    <3>1. life' = [c \in Clients |-> life'[c]]
      BY <1>1
    <3> QED
      BY <2>2, <2>3, <3>1 DEF LifeType
  <2>5. \A r \in Threads : r # Reaper /\ r # Shutdown => pc'[r] = pc[r] /\ at'[r] = at[r]
    BY <1>0, <1>1 DEF RestType
  <2>6. /\ pc'[Reaper] = "absent" /\ at'[Shutdown] = registered
        /\ pc'[Shutdown] = IF registered = NoClient THEN "finished" ELSE "stop"
    BY <1>0, <1>1 DEF RestType
  <2>7. /\ pc'[Reaper] \notin Locking /\ pc'[Shutdown] \notin HasLife
        /\ pc'[Shutdown] \in Locking <=> registered # NoClient
        /\ \A r \in Threads : pc'[r] \in HasLife => pc'[r] \in Locking
        /\ registered \in Clients \union {NoClient}
    BY <1>0, <2>6 DEF Locking, HasLife, RestType
  <2>8. ASSUME NEW r \in Threads, NEW c \in Clients, Within(r, life'[c])
        PROVE  at'[r] = c /\ pc'[r] \in Locking
    <3>1. CASE r = Shutdown
      <4>1. ~Within(r, life[c])
        BY <1>0, <1>1, <3>1 DEF LifeInv, Locking, HasLife
      <4>2. c = registered
        BY <2>3, <2>8, <4>1
      <4> QED
        BY <2>6, <2>7, <3>1, <4>2
    <3>2. CASE r # Shutdown
      <4>1. Within(r, life[c]) /\ r # Reaper
        BY <2>2, <2>3, <2>8, <3>2
      <4> QED
        BY <1>0, <2>5, <3>2, <4>1 DEF LifeInv
    <3> QED
      BY <3>1, <3>2
  <2>9. ASSUME NEW r \in Threads, pc'[r] \in Locking
        PROVE  /\ at'[r] \in Clients /\ Within(r, life'[at'[r]])
               /\ pc'[r] \in HasLife => Head(life'[at'[r]]) = r
    <3>1. CASE r = Shutdown
      BY <2>2, <2>6, <2>7, <2>9, <3>1
    <3>2. CASE r # Shutdown
      <4>1. r # Reaper /\ pc'[r] = pc[r] /\ at'[r] = at[r] /\ at[r] \in Clients /\ Within(r, life[at[r]])
        BY <1>0, <2>5, <2>7, <2>9, <3>2 DEF LifeInv
      <4>2. pc[r] \in HasLife => Head(life[at[r]]) = r
        BY <1>0 DEF LifeInv
      <4> QED
        BY <2>1, <2>2, <2>3, <4>1, <4>2
    <3> QED
      BY <3>1, <3>2
  <2>10. \A c \in Clients : Distinct(life'[c])
    BY <2>2, <2>3
  <2> QED
    BY <2>4, <2>7, <2>8, <2>9, <2>10 DEF LifeInv
<1>3. ReqInv' /\ SpareInv' /\ ReqType'
  BY <1>0, <1>1, ReqKept DEF KeepsPlace, Requesting, RestType
<1>4. RestType'
  <2>1. /\ registered \in Clients \union {NoClient}
        /\ at' \in [Threads -> Clients \union {NoClient}]
    BY <1>0, <1>1 DEF RestType
  <2> QED
    BY <1>0, <1>1, <2>1 DEF RestType, ReaperPcs, ShutdownPcs
<1>5. OnInv'
  BY <1>0, <1>1 DEF OnInv, RestType
<1>6. OwnInv'
  BY <1>0, <1>1 DEF OwnInv
<1> QED
  BY <1>2, <1>3, <1>4, <1>5, <1>6, PartsNext

(* A call ends, at whatever await, with its own reply or a failure.        *)
LEMMA FinishStep ==
  ASSUME IInv, NEW p \in Calls, NEW a \in {p} \union Failures, Finish(p, a),
         pc[p] # "new", UNCHANGED <<proc, ready>>,
         tainted' = tainted \/ tainted' = [tainted EXCEPT ![on[p]] = TRUE],
         late' = late \/ late' = [late EXCEPT ![on[p]] = @ \union {p}]
  PROVE  IInv'
<1> USE ThreadFacts, MCPSentinelAssumption
<1>0. RestType /\ LifeType /\ ReqType /\ LifeInv /\ ReqInv /\ SpareInv /\ OnInv /\ OwnInv
  BY Parts
<1>1. /\ pc' = [pc EXCEPT ![p] = "finished"]
      /\ outcome' = [outcome EXCEPT ![p] = a]
      /\ life' = [c \in Clients |-> Without(life[c], p)]
      /\ req' = [c \in Clients |-> Without(req[c], p)]
      /\ at' = [at EXCEPT ![p] = NoClient]
      /\ cut' = cut \ {p}
      /\ idle' = IF HoldsReq(p) THEN [idle EXCEPT ![on[p]] = FALSE] ELSE idle
      /\ UNCHANGED <<registered, created, on, starts>>
  BY DEF Finish, GoTo
<1>b. on[p] \in Clients
  BY <1>0 DEF OnInv, RestType
<1>2. LifeInv' /\ LifeType'
  <2>1. OthersStay(p) /\ pc'[p] \notin Locking
    BY <1>0, <1>1 DEF OthersStay, Stays, RestType, Locking, HasLife
  <2> QED
    BY <1>0, <1>1, <2>1, LifeLeft
<1>3. ReqInv' /\ SpareInv' /\ ReqType'
  <2> DEFINE w == Without(req[on[p]], p)
  <2>1. Distinct(req[on[p]]) /\ req[on[p]] \in Seq(Calls)
    BY <1>0, <1>b DEF ReqInv, ReqType
  <2>2. /\ w \in Seq(Calls) /\ Distinct(w)
        /\ \A r : Within(r, w) <=> Within(r, req[on[p]]) /\ r # p
        /\ req[on[p]] # <<>> /\ Head(req[on[p]]) # p => w # <<>> /\ Head(w) = Head(req[on[p]])
        /\ req[on[p]] = <<>> => w = <<>>
    BY <2>1, WithoutFacts
  <2>3. req' = [req EXCEPT ![on[p]] = w]
    <3>1. ASSUME NEW c \in Clients, c # on[p] PROVE Without(req[c], p) = req[c]
      <4>1. ~Within(p, req[c])
        BY <1>0, <3>1 DEF ReqInv
      <4> QED
        BY <4>1 DEF Within, Without
    <3> HIDE DEF w
    <3>2. w = Without(req[on[p]], p)
      BY DEF w
    <3> QED
      BY <1>0, <1>1, <3>1, <3>2 DEF ReqType
  <2>4. /\ idle'[on[p]] => idle[on[p]] /\ ~HoldsReq(p)
        /\ \A d \in Clients : idle'[d] => idle[d]
        /\ pc'[p] = "finished" /\ \A r \in Calls : r # p => pc'[r] = pc[r]
    BY <1>0, <1>1, <1>b DEF RestType
  <2>5. idle'[on[p]] => req[on[p]] = <<>> \/ Head(req[on[p]]) # p
    BY <1>b, <2>4 DEF HoldsReq
  <2> HIDE DEF w
  <2> QED
    BY <1>0, <1>1, <1>b, <2>2, <2>3, <2>4, <2>5, ReqSet DEF Exchanging
<1>4. RestType'
  <2>1. late' \in [Clients -> SUBSET Calls]
    <3>1. CASE late' = late
      BY <1>0, <3>1 DEF RestType
    <3>2. CASE late' = [late EXCEPT ![on[p]] = @ \union {p}]
      <4>1. late \in [Clients -> SUBSET Calls] /\ late[on[p]] \union {p} \in SUBSET Calls
        BY <1>0, <1>b DEF RestType
      <4> QED
        BY <3>2, <4>1
    <3> QED
      BY <3>1, <3>2
  <2>2. idle' \in [Clients -> BOOLEAN]
    BY <1>0, <1>1 DEF RestType
  <2>3. pc' \in [Threads -> CallPcs \union ReaperPcs \union ShutdownPcs]
    BY <1>0, <1>1 DEF RestType, CallPcs
  <2>4. outcome' \in [Calls -> Calls \union Failures]
    BY <1>0, <1>1 DEF RestType
  <2> QED
    BY <1>0, <1>1, <2>1, <2>2, <2>3, <2>4 DEF RestType, CallPcs
<1>5. OnInv'
  BY <1>0, <1>1 DEF OnInv, RestType
<1>6. OwnInv'
  BY <1>0, <1>1 DEF OwnInv, RestType
<1> QED
  BY <1>2, <1>3, <1>4, <1>5, <1>6, PartsNext

(* LeaveStart: the lifecycle lock is given back, and the call asks for the *)
(* request lock or queues for its next start().                            *)
LEMMA LeaveStartLife ==
  ASSUME LifeInv, LifeType, RestType, NEW p \in Calls, HoldsLife(p), pc[p] \in Locking,
         at[p] \in Clients, NEW q, LeaveStart(p, at[p], q)
  PROVE  LifeInv' /\ LifeType'
<1> USE ThreadFacts
<1>1. CASE Len(life[at[p]]) = 1 \/ starts[p] = 3
  <2>1. /\ life' = [life EXCEPT ![at[p]] = Tail(@)]
        /\ at' = [at EXCEPT ![p] = NoClient]
        /\ pc' = [pc EXCEPT ![p] = IF q = <<>> THEN "exchange" ELSE "request"]
    BY <1>1 DEF LeaveStart, GoTo
  <2>2. OthersStay(p) /\ pc'[p] \notin Locking
    BY <2>1 DEF OthersStay, Stays, RestType, Locking, HasLife
  <2> QED
    BY <2>1, <2>2, LifeReleased
<1>2. CASE ~(Len(life[at[p]]) = 1 \/ starts[p] = 3)
  <2>1. /\ life' = [life EXCEPT ![at[p]] = Append(Tail(@), p)]
        /\ at' = at /\ pc' = [pc EXCEPT ![p] = "start"]
    BY <1>2 DEF LeaveStart, GoTo
  <2>2. OthersStay(p) /\ pc'[p] \in Locking \ HasLife
    BY <2>1 DEF OthersStay, Stays, RestType, Locking, HasLife
  <2> QED
    BY <2>1, <2>2, LifeMoved
<1> QED
  BY <1>1, <1>2

LEMMA LeaveStartReq ==
  ASSUME ReqInv, SpareInv, ReqType, RestType, NEW p \in Calls, on[p] \in Clients,
         UNCHANGED on, NEW q \in Seq(Calls), LeaveStart(p, on[p], q), Distinct(q),
         \A r : Within(r, q) <=> Within(r, req[on[p]]) /\ r # p,
         req[on[p]] # <<>> /\ Head(req[on[p]]) # p => q # <<>> /\ Head(q) = Head(req[on[p]]),
         \A d \in Clients : idle'[d] => idle[d],
         idle'[on[p]] => q = req[on[p]]
  PROVE  ReqInv' /\ SpareInv' /\ ReqType'
<1> USE ThreadFacts
<1>a. ~Within(p, q) /\ (q # <<>> => Head(q) # p)
  BY WithinFacts
<1>1. CASE Len(life[on[p]]) = 1 \/ starts[p] = 3
  <2> DEFINE w == Append(q, p)
  <2>1. /\ req' = [req EXCEPT ![on[p]] = w]
        /\ pc' = [pc EXCEPT ![p] = IF q = <<>> THEN "exchange" ELSE "request"]
    BY <1>1 DEF LeaveStart, GoTo
  <2>2. /\ w \in Seq(Calls) /\ Distinct(w) /\ w # <<>>
        /\ \A r : Within(r, w) <=> Within(r, q) \/ r = p
        /\ Head(w) = IF q = <<>> THEN p ELSE Head(q)
    BY <1>a, AppendFacts
  <2>3. /\ pc'[p] = IF q = <<>> THEN "exchange" ELSE "request"
        /\ \A r \in Calls : r # p => pc'[r] = pc[r]
    BY <2>1 DEF RestType
  <2>4. pc'[p] \in Requesting
    BY <2>3 DEF Requesting
  <2>5. \A r : Within(r, w) => (Within(r, req[on[p]]) /\ r # p) \/ (r = p /\ pc'[p] \in Requesting)
    BY <2>2, <2>4
  <2>6. /\ pc'[p] \in Exchanging => Head(w) = p
        /\ pc'[p] = "request" => Head(w) # p
    BY <1>a, <2>2, <2>3 DEF Exchanging
  <2> HIDE DEF w
  <2> QED
    BY <1>a, <2>1, <2>2, <2>3, <2>5, <2>6, ReqSet
<1>2. CASE ~(Len(life[on[p]]) = 1 \/ starts[p] = 3)
  <2>1. req' = [req EXCEPT ![on[p]] = q] /\ pc' = [pc EXCEPT ![p] = "start"]
    BY <1>2 DEF LeaveStart, GoTo
  <2>2. pc'[p] = "start" /\ \A r \in Calls : r # p => pc'[r] = pc[r]
    BY <2>1 DEF RestType
  <2> QED
    BY <1>a, <2>1, <2>2, ReqSet DEF Exchanging
<1> QED
  BY <1>1, <1>2

LEMMA LeaveStartRest ==
  ASSUME RestType, OnInv, NEW p \in Calls, pc[p] \in {"start", "notify"}, at[p] \in Clients,
         UNCHANGED on, NEW q, LeaveStart(p, at[p], q)
  PROVE  /\ pc' \in [Threads -> CallPcs \union ReaperPcs \union ShutdownPcs]
         /\ \A r \in Calls : pc'[r] \in CallPcs
         /\ pc'[Reaper] = pc[Reaper] /\ pc'[Shutdown] = pc[Shutdown]
         /\ at' \in [Threads -> Clients \union {NoClient}]
         /\ starts' \in [Calls -> 0..3]
         /\ OnInv'
<1> USE ThreadFacts
<1>0. starts[p] \in 1..3 /\ at[p] = on[p]
  BY DEF OnInv
<1>1. CASE Len(life[at[p]]) = 1 \/ starts[p] = 3
  <2>1. /\ starts' = [starts EXCEPT ![p] = 3]
        /\ at' = [at EXCEPT ![p] = NoClient]
        /\ pc' = [pc EXCEPT ![p] = IF q = <<>> THEN "exchange" ELSE "request"]
    BY <1>1 DEF LeaveStart, GoTo
  <2> QED
    BY <2>1 DEF RestType, OnInv, CallPcs
<1>2. CASE ~(Len(life[at[p]]) = 1 \/ starts[p] = 3)
  <2>1. /\ starts' = [starts EXCEPT ![p] = @ + 1]
        /\ at' = at /\ pc' = [pc EXCEPT ![p] = "start"]
    BY <1>2 DEF LeaveStart, GoTo
  <2>2. starts[p] + 1 \in 1..3
    BY <1>0, <1>2
  <2> QED
    BY <1>0, <2>1, <2>2 DEF RestType, OnInv, CallPcs
<1> QED
  BY <1>1, <1>2

LEMMA PassStartStep == ASSUME IInv, NEW p \in Calls, PassStart(p) PROVE IInv'
<1> USE ThreadFacts, MCPSentinelAssumption
<1>0. RestType /\ LifeType /\ ReqType /\ LifeInv /\ ReqInv /\ SpareInv /\ OnInv /\ OwnInv
  BY Parts
<1>1. /\ pc[p] = "start" /\ HoldsLife(p) /\ LeaveStart(p, at[p], req[at[p]])
      /\ idle' = [idle EXCEPT ![at[p]] = @ /\ pc'[p] # "exchange"]
      /\ UNCHANGED <<registered, created, proc, ready, tainted, late, on, cut, outcome>>
  BY DEF PassStart
<1>a. pc[p] \in Locking /\ at[p] \in Clients /\ at[p] = on[p]
  BY <1>0, <1>1 DEF LifeInv, OnInv, Locking
<1>2. LifeInv' /\ LifeType'
  BY <1>0, <1>1, <1>a, LeaveStartLife
<1>3. ReqInv' /\ SpareInv' /\ ReqType'
  <2>1. /\ req[on[p]] \in Seq(Calls) /\ Distinct(req[on[p]]) /\ ~Within(p, req[on[p]])
        /\ \A d \in Clients : idle'[d] => idle[d]
    BY <1>0, <1>1, <1>a DEF ReqInv, ReqType, RestType, Requesting
  <2> QED
    BY <1>0, <1>1, <1>a, <2>1, LeaveStartReq
<1>4. RestType' /\ OnInv'
  <2>1. idle' \in [Clients -> BOOLEAN]
    BY <1>0, <1>1 DEF RestType
  <2> QED
    BY <1>0, <1>1, <1>a, <2>1, LeaveStartRest DEF RestType
<1>6. OwnInv'
  BY <1>0, <1>1 DEF OwnInv
<1> QED
  BY <1>2, <1>3, <1>4, <1>6, PartsNext

LEMMA NotifiedStep == ASSUME IInv, NEW p \in Calls, Notified(p) PROVE IInv'
<1> USE ThreadFacts, MCPSentinelAssumption
<1>0. RestType /\ LifeType /\ ReqType /\ LifeInv /\ ReqInv /\ SpareInv /\ OnInv /\ OwnInv
  BY Parts
<1>1. /\ pc[p] = "notify" /\ HoldsReq(p) /\ LeaveStart(p, at[p], Tail(req[at[p]]))
      /\ idle' = [idle EXCEPT ![at[p]] = FALSE]
      /\ ready' = [ready EXCEPT ![at[p]] = TRUE]
      /\ UNCHANGED <<registered, created, proc, tainted, late, on, cut, outcome>>
  BY DEF Notified
<1>a. pc[p] \in Locking /\ HoldsLife(p) /\ at[p] \in Clients /\ at[p] = on[p]
  BY <1>0, <1>1, LifeHeld DEF HasLife, OnInv
<1>2. LifeInv' /\ LifeType'
  BY <1>0, <1>1, <1>a, LeaveStartLife
<1>3. ReqInv' /\ SpareInv' /\ ReqType'
  <2>1. /\ req[on[p]] \in Seq(Calls) /\ Distinct(req[on[p]]) /\ req[on[p]] # <<>>
        /\ Head(req[on[p]]) = p
    BY <1>0, <1>1, <1>a DEF ReqInv, ReqType, HoldsReq
  <2>2. /\ ~idle'[on[p]]
        /\ \A d \in Clients : idle'[d] => idle[d]
    BY <1>0, <1>1, <1>a DEF RestType
  <2> DEFINE q == Tail(req[on[p]])
  <2>3. /\ q \in Seq(Calls) /\ Distinct(q)
        /\ \A r : Within(r, q) <=> Within(r, req[on[p]]) /\ r # p
    BY <2>1, TailFacts
  <2>4. LeaveStart(p, on[p], q)
    BY <1>1, <1>a
  <2> HIDE DEF q
  <2> QED
    BY <1>0, <1>1, <1>a, <2>1, <2>2, <2>3, <2>4, LeaveStartReq
<1>4. RestType' /\ OnInv'
  <2>1. idle' \in [Clients -> BOOLEAN] /\ ready' \in [Clients -> BOOLEAN]
    BY <1>0, <1>1 DEF RestType
  <2> QED
    BY <1>0, <1>1, <1>a, <2>1, LeaveStartRest DEF RestType
<1>6. OwnInv'
  BY <1>0, <1>1 DEF OwnInv
<1> QED
  BY <1>2, <1>3, <1>4, <1>6, PartsNext

LEMMA SpawnFailsStep == ASSUME IInv, NEW p \in Calls, SpawnFails(p) PROVE IInv'
  BY FinishStep DEF SpawnFails, Failures

LEMMA FailedStoppedStep == ASSUME IInv, NEW p \in Calls, FailedStopped(p) PROVE IInv'
  BY FinishStep DEF FailedStopped, Failures

LEMMA BeginFailsStep == ASSUME IInv, NEW p \in Calls, BeginFails(p) PROVE IInv'
  BY FinishStep DEF BeginFails, Failures

LEMMA EndOfFileStep == ASSUME IInv, NEW p \in Calls, EndOfFile(p) PROVE IInv'
  BY FinishStep DEF EndOfFile, Failures

LEMMA CancelledNotifiedStep == ASSUME IInv, NEW p \in Calls, CancelledNotified(p) PROVE IInv'
  BY FinishStep DEF CancelledNotified, Failures

LEMMA TimeoutUnheardStep == ASSUME IInv, NEW p \in Calls, TimeoutUnheard(p) PROVE IInv'
  BY FinishStep DEF TimeoutUnheard, Failures, OwedReply

LEMMA ListingTimeoutStep == ASSUME IInv, NEW p \in Calls, ListingTimeout(p) PROVE IInv'
  BY FinishStep DEF ListingTimeout, Failures, OwedReply

LEMMA CancelCallStep == ASSUME IInv, NEW p \in Calls, CancelCall(p) PROVE IInv'
  BY FinishStep DEF CancelCall, Failures, OwedReply

LEMMA ReplyStep == ASSUME IInv, NEW p \in Calls, Reply(p) PROVE IInv'
  BY FinishStep DEF Reply, Failures, Accepts

(***************************************************************************)
(* The invariant and the theorems.                                         *)
(***************************************************************************)
LEMMA InitInv == Init => IInv
<1> SUFFICES ASSUME Init PROVE IInv
  OBVIOUS
<1> USE ThreadFacts, MCPSentinelAssumption, EmptyQueue DEF Init
<1>1. RestType
  BY DEF RestType, CallPcs, ReaperPcs, ShutdownPcs, Failures
<1>2. LifeType /\ ReqType
  BY DEF LifeType, ReqType
<1>3. LifeInv
  <2>1. \A p \in Threads : pc[p] \notin Locking /\ pc[p] \notin HasLife
    BY DEF Locking, HasLife
  <2> QED
    BY <2>1 DEF LifeInv
<1>4. ReqInv /\ SpareInv
  BY DEF ReqInv, SpareInv, Exchanging
<1>5. OnInv /\ OwnInv
  BY DEF OnInv, OwnInv, Failures
<1> QED
  BY <1>1, <1>2, <1>3, <1>4, <1>5, Parts

LEMMA NextInv == IInv /\ [Next]_vars => IInv'
<1> SUFFICES ASSUME IInv, [Next]_vars PROVE IInv'
  OBVIOUS
<1>1. ASSUME NEW p \in Calls, GetOrStart(p) \/ CallStep(p) \/ CancelCall(p) PROVE IInv'
  BY <1>1,
     GetOrStartStep, StopStaleStep, StaleStoppedStep, PassStartStep,
        RestartStep, RestartStoppedStep, SpawnFailsStep, SpawnedStep,
        InitializedStep, NotifiedStep, HandshakeFailsStep, FailedStoppedStep,
        BeginRequestStep, BeginFailsStep, ReplyStep, EndOfFileStep,
        TimeoutStep, TimeoutUnheardStep, CancelledNotifiedStep, ListingTimeoutStep,
        CancelCallStep
  DEF CallStep
<1>2. ASSUME ReaperWakes \/ ReaperStep \/ StopAll \/ ShutdownStep PROVE IInv'
  BY <1>2,
     ReaperWakesStep, ReapDeadStep, ReapSparesStep, ReapIdleStep,
        IdleStoppedStep, PopDeadStep, StopAllStep, StopLastStep,
        LastStoppedStep
  DEF ReaperStep, ShutdownStep
<1>3. ASSUME NEW c \in Clients, Exit(c) \/ BecomeIdle(c) PROVE IInv'
  BY <1>3, ExitStep, BecomeIdleStep
<1>4. CASE UNCHANGED vars
  BY <1>4 DEF vars, clientVars, lockVars, callVars, IInv, TypeOK, LockInv, LifeInv, ReqInv,
              OnInv, SpareInv, OwnInv
<1> QED
  BY <1>1, <1>2, <1>3, <1>4 DEF Next

LEMMA Inductive == Spec => []IInv
BY InitInv, NextInv, PTL DEF Spec

(* Registry, clients, locks and calls keep their types.                    *)
THEOREM TypeCorrect == Spec => []TypeOK
<1>1. IInv => TypeOK
  BY DEF IInv
<1> QED
  BY <1>1, Inductive, PTL

(* A reply goes to the call whose id it carries                            *)
(* (_read_jsonrpc_response), whatever is left in the pipe.                 *)
THEOREM RepliesGoToTheirCalls == Spec => []RepliesAreOwn
<1>1. IInv => RepliesAreOwn
  BY MCPSentinelAssumption DEF IInv, OwnInv, RepliesAreOwn
<1> QED
  BY <1>1, Inductive, PTL

(* The reaper lets a process go only when nobody stands in the queue of    *)
(* its request lock (reap_if_idle).                                        *)
THEOREM CallsAreSpared == Spec => ReaperSparesCalls
<1> DEFINE Spares == \A c \in Clients :
      pc[Reaper] = "reap" /\ pc'[Reaper] = "stopping-idle" /\ at[Reaper] = c => req[c] = <<>>
<1>1. IInv /\ [Next]_vars => [Spares]_vars
  <2> SUFFICES ASSUME IInv, [Next]_vars, NEW c \in Clients, pc[Reaper] = "reap",
                      pc'[Reaper] = "stopping-idle", at[Reaper] = c
               PROVE  req[c] = <<>>
    OBVIOUS
  <2> USE ThreadFacts
  <2>0. RestType /\ ReqType /\ ReqInv /\ SpareInv
    BY Parts
  <2>1. ReapIdle
    <3>1. ASSUME NEW p \in Calls, GetOrStart(p) PROVE FALSE
      BY <2>0, <3>1 DEF GetOrStart, RestType
    <3>2. ASSUME NEW p \in Calls, CallStep(p) \/ CancelCall(p) PROVE FALSE
      <4>1. pc'[Reaper] = pc[Reaper]
        BY <2>0, <3>2 DEF CallStep, CancelCall, StopStale, StaleStopped, PassStart,
           LeaveStart, Restart, RestartStopped, SpawnFails, Spawned, Initialized, Notified,
           HandshakeFails, FailedStopped, BeginRequest, BeginFails, Reply, EndOfFile,
           Timeout, TimeoutUnheard, CancelledNotified, ListingTimeout, Finish, GoTo, RestType
      <4> QED
        BY <4>1
    <3>3. ASSUME ReaperWakes \/ ReapDead \/ ReapSpares \/ IdleStopped \/ PopDead PROVE FALSE
      BY <2>0, <3>3 DEF ReaperWakes, ReapDead, ReapSpares, IdleStopped, PopDead, GoTo, RestType
    <3>4. ASSUME StopAll \/ StopLast \/ LastStopped PROVE FALSE
      BY <2>0, <3>4 DEF StopAll, StopLast, LastStopped, GoTo, RestType
    <3>5. ASSUME UNCHANGED pc PROVE FALSE
      BY <3>5
    <3> QED
      BY <3>1, <3>2, <3>3, <3>4, <3>5
      DEF Next, ReaperStep, ShutdownStep, Exit, BecomeIdle, vars
  <2>2. ~Inflight(c) /\ idle[c]
    BY <2>1 DEF ReapIdle
  <2>3. ASSUME req[c] # <<>> PROVE FALSE
    <3> DEFINE h == Head(req[c])
    <3>1. Within(h, req[c]) /\ h \in Calls
      BY <2>0, <2>3, WithinFacts DEF ReqType
    <3>2. on[h] = c /\ pc[h] \in Requesting
      BY <2>0, <3>1 DEF ReqInv
    <3>3. HoldsReq(h)
      BY <2>3, <3>2, MCPSentinelAssumption DEF HoldsReq
    <3>4. pc[h] # "request"
      BY <2>0, <2>2, <2>3 DEF SpareInv
    <3> HIDE DEF h
    <3> QED
      BY <2>2, <3>1, <3>2, <3>3, <3>4 DEF Inflight, Requesting, Exchanging
  <2> QED
    BY <2>3
<1> QED
  BY <1>1, Inductive, PTL DEF Spec, ReaperSparesCalls

(***************************************************************************)
(* Who waits for a request lock stands in its queue, and who has not ended *)
(* has come to nothing yet.                                                *)
(***************************************************************************)
QueuedInv ==
  \A p \in Calls : pc[p] \in {"initialize", "notify", "request"} => Within(p, req[on[p]])
OpenInv == \A p \in Calls : pc[p] # "finished" => outcome[p] = "none"

(* A step that changes neither a queue of a request lock nor an outcome:   *)
(* no call starts or stops to stand in such a queue, speak, or have ended. *)
Calm(r) ==
  \/ pc'[r] = pc[r] /\ on'[r] = on[r]
  \/ /\ {pc[r], pc'[r]} \intersect Requesting = {}
     /\ pc[r] # "finished" /\ pc'[r] # "finished"
  \/ pc[r] = "exchange" /\ pc'[r] = "notify-cancelled" /\ on'[r] = on[r]
Quiet == UNCHANGED <<req, outcome>> /\ \A r \in Calls : Calm(r)

(* A step of p that changes at most the queue of its client, which becomes *)
(* w, and leaves the others in that queue in it.                           *)
Moves(p, w) ==
  /\ on[p] \in Clients /\ w \in Seq(Calls)
  /\ req' = [req EXCEPT ![on[p]] = w]
  /\ UNCHANGED on
  /\ \A r \in Calls : r # p => pc'[r] = pc[r]
  /\ \A r : r # p => (Within(r, w) <=> Within(r, req[on[p]]))
  /\ pc'[p] \in Requesting => Within(p, w)

LEMMA QuietCallSteps ==
  ASSUME IInv, NEW p \in Calls,
         \/ StopStale(p) \/ StaleStopped(p) \/ Restart(p) \/ RestartStopped(p)
         \/ GetOrStart(p) \/ Timeout(p)
  PROVE  Quiet
<1> USE ThreadFacts
<1>0. RestType
  BY Parts
<1>1. CASE StopStale(p) \/ StaleStopped(p) \/ RestartStopped(p)
  BY <1>0, <1>1 DEF StopStale, StaleStopped, RestartStopped, GoTo, LetGo, RestType,
     lockVars, callVars, Quiet, Calm, Requesting
<1>2. CASE Restart(p)
  <2>1. CASE proc[at[p]] # "none"
    BY <1>0, <1>2, <2>1 DEF Restart, GoTo, LetGo, RestType, lockVars, Quiet, Calm, Requesting
  <2>2. CASE proc[at[p]] = "none"
    BY <1>0, <1>2, <2>2 DEF Restart, GoTo, RestType, lockVars, Quiet, Calm, Requesting
  <2> QED
    BY <2>1, <2>2
<1>3. CASE GetOrStart(p)
  <2>1. \A r \in Calls : r # p => pc'[r] = pc[r] /\ on'[r] = on[r]
    BY <1>0, <1>3 DEF GetOrStart, RestType
  <2>2. pc[p] = "new" /\ pc'[p] \in {"stop-stale", "start"} /\ UNCHANGED <<req, outcome>>
    BY <1>0, <1>3 DEF GetOrStart, RestType
  <2> QED
    BY <2>1, <2>2 DEF Quiet, Calm, Requesting
<1>4. CASE Timeout(p)
  BY <1>0, <1>4 DEF Timeout, GoTo, RestType, lockVars, callVars, Quiet, Calm
<1> QED
  BY <1>1, <1>2, <1>3, <1>4

LEMMA QuietOtherSteps ==
  ASSUME IInv,
         \/ ReaperWakes \/ ReaperStep \/ StopAll \/ ShutdownStep
         \/ \E c \in Clients : Exit(c) \/ BecomeIdle(c)
         \/ UNCHANGED vars
  PROVE  Quiet
<1> USE ThreadFacts
<1>0. RestType
  BY Parts
<1>1. CASE ReaperWakes \/ ReaperStep
  BY <1>0, <1>1 DEF ReaperWakes, ReaperStep, ReapDead, ReapSpares, ReapIdle, IdleStopped,
     PopDead, GoTo, LetGo, RestType, lockVars, callVars, Quiet, Calm
<1>2. CASE StopAll \/ ShutdownStep
  BY <1>0, <1>2 DEF StopAll, ShutdownStep, StopLast, LastStopped, GoTo, LetGo, RestType,
     lockVars, callVars, Quiet, Calm
<1>3. CASE \E c \in Clients : Exit(c) \/ BecomeIdle(c)
  BY <1>3 DEF Exit, BecomeIdle, lockVars, callVars, Quiet, Calm
<1>4. CASE UNCHANGED vars
  BY <1>4 DEF vars, lockVars, callVars, Quiet, Calm
<1> QED
  BY <1>1, <1>2, <1>3, <1>4

(* Finish moves p out of the queue of its client.                          *)
LEMMA FinishMoves ==
  ASSUME IInv, NEW p \in Calls, NEW a, Finish(p, a), pc[p] # "new"
  PROVE  /\ Moves(p, Without(req[on[p]], p))
         /\ pc'[p] = "finished"
         /\ outcome' = [outcome EXCEPT ![p] = a]
<1> USE ThreadFacts
<1>0. RestType /\ ReqType /\ ReqInv /\ OnInv
  BY Parts
<1>1. /\ pc' = [pc EXCEPT ![p] = "finished"]
      /\ outcome' = [outcome EXCEPT ![p] = a]
      /\ req' = [c \in Clients |-> Without(req[c], p)]
      /\ UNCHANGED on
  BY DEF Finish, GoTo
<1>2. on[p] \in Clients
  BY <1>0 DEF OnInv, RestType
<1> DEFINE w == Without(req[on[p]], p)
<1>3. w \in Seq(Calls) /\ \A r : Within(r, w) <=> Within(r, req[on[p]]) /\ r # p
  BY <1>0, <1>2, WithoutFacts DEF ReqInv, ReqType
<1>4. ASSUME NEW c \in Clients, c # on[p] PROVE Without(req[c], p) = req[c]
  <2>1. ~Within(p, req[c])
    BY <1>0, <1>4 DEF ReqInv
  <2> QED
    BY <2>1 DEF Within, Without
<1>5. w = Without(req[on[p]], p)
  OBVIOUS
<1> HIDE DEF w
<1>6. req' = [req EXCEPT ![on[p]] = w]
  BY <1>0, <1>1, <1>4, <1>5 DEF ReqType
<1>7. pc'[p] = "finished" /\ \A r \in Calls : r # p => pc'[r] = pc[r]
  BY <1>0, <1>1 DEF RestType
<1> QED
  BY <1>1, <1>2, <1>3, <1>5, <1>6, <1>7 DEF Moves, Requesting

(* A call that leaves start() asks for the request lock, of which q is the *)
(* queue without it, or starts anew.                                       *)
LEMMA LeaveStartMoves ==
  ASSUME IInv, NEW p \in Calls, on[p] \in Clients, at[p] = on[p], UNCHANGED <<on, outcome>>,
         NEW q \in Seq(Calls), LeaveStart(p, at[p], q),
         \A r : Within(r, q) <=> Within(r, req[on[p]]) /\ r # p
  PROVE  \/ /\ Moves(p, Append(q, p))
            /\ pc'[p] = IF q = <<>> THEN "exchange" ELSE "request"
         \/ Moves(p, q) /\ pc'[p] = "start"
<1> USE ThreadFacts
<1>0. RestType
  BY Parts
<1>1. CASE Len(life[at[p]]) = 1 \/ starts[p] = 3
  <2> DEFINE w == Append(q, p)
  <2>1. /\ req' = [req EXCEPT ![on[p]] = w]
        /\ pc' = [pc EXCEPT ![p] = IF q = <<>> THEN "exchange" ELSE "request"]
    BY <1>1 DEF LeaveStart, GoTo
  <2>2. w \in Seq(Calls) /\ \A r : Within(r, w) <=> Within(r, q) \/ r = p
    <3>1. /\ w \in Seq(Calls) /\ Len(w) = Len(q) + 1 /\ Len(q) \in Nat
          /\ \A i \in 1..Len(q) : w[i] = q[i]
          /\ w[Len(q) + 1] = p
      OBVIOUS
    <3> QED
      BY <3>1 DEF Within
  <2> HIDE DEF w
  <2>3. /\ pc'[p] = IF q = <<>> THEN "exchange" ELSE "request"
        /\ \A r \in Calls : r # p => pc'[r] = pc[r]
    BY <1>0, <2>1 DEF RestType
  <2>4. Moves(p, w)
    BY <2>1, <2>2, <2>3 DEF Moves
  <2> QED
    BY <2>3, <2>4 DEF w
<1>2. CASE ~(Len(life[at[p]]) = 1 \/ starts[p] = 3)
  <2>1. req' = [req EXCEPT ![on[p]] = q] /\ pc' = [pc EXCEPT ![p] = "start"]
    BY <1>2 DEF LeaveStart, GoTo
  <2>2. pc'[p] = "start" /\ \A r \in Calls : r # p => pc'[r] = pc[r]
    BY <1>0, <2>1 DEF RestType
  <2>3. Moves(p, q)
    BY <2>1, <2>2 DEF Moves, Requesting
  <2> QED
    BY <2>2, <2>3
<1> QED
  BY <1>1, <1>2

(* The other steps of a call, with the queue each leaves behind.           *)
LEMMA SpawnedMoves ==
  ASSUME IInv, NEW p \in Calls, Spawned(p)
  PROVE  /\ Moves(p, Append(req[on[p]], p)) /\ UNCHANGED outcome
         /\ pc[p] = "spawning" /\ pc'[p] = "initialize"
<1> USE ThreadFacts
<1>0. RestType /\ ReqType /\ LifeInv /\ LifeType /\ OnInv /\ ReqInv
  BY Parts
<1>1. /\ pc[p] = "spawning" /\ pc' = [pc EXCEPT ![p] = "initialize"]
      /\ req' = [req EXCEPT ![at[p]] = Append(@, p)]
      /\ UNCHANGED <<on, outcome>>
  BY DEF Spawned, GoTo, callVars
<1>2. at[p] = on[p] /\ on[p] \in Clients
  BY <1>0, <1>1, LifeHeld DEF HasLife, OnInv
<1>3. Append(req[on[p]], p) \in Seq(Calls)
      /\ \A r : Within(r, Append(req[on[p]], p)) <=> Within(r, req[on[p]]) \/ r = p
  BY <1>0, <1>2, AppendFacts DEF ReqType
<1> QED
  BY <1>0, <1>1, <1>2, <1>3 DEF Moves, RestType

LEMMA InitializedMoves ==
  ASSUME IInv, NEW p \in Calls, Initialized(p)
  PROVE  /\ Moves(p, Append(Tail(req[on[p]]), p)) /\ UNCHANGED outcome
         /\ HoldsReq(p) /\ pc[p] = "initialize" /\ pc'[p] = "notify"
<1> USE ThreadFacts
<1>0. RestType /\ ReqType /\ LifeInv /\ LifeType /\ OnInv /\ ReqInv
  BY Parts
<1>1. /\ pc[p] = "initialize" /\ pc' = [pc EXCEPT ![p] = "notify"] /\ HoldsReq(p)
      /\ req' = [req EXCEPT ![at[p]] = Append(Tail(@), p)]
      /\ UNCHANGED <<on, outcome>>
  BY DEF Initialized, GoTo, callVars
<1>2. at[p] = on[p] /\ on[p] \in Clients
  BY <1>0, <1>1, LifeHeld DEF HasLife, OnInv
<1> DEFINE q == Tail(req[on[p]])
<1>3. q \in Seq(Calls) /\ \A r : Within(r, q) <=> Within(r, req[on[p]]) /\ r # p
  BY <1>0, <1>1, <1>2, TailFacts DEF HoldsReq, ReqInv, ReqType
<1>4. req' = [req EXCEPT ![on[p]] = Append(q, p)]
  BY <1>1, <1>2
<1> HIDE DEF q
<1>5. Append(q, p) \in Seq(Calls) /\ \A r : Within(r, Append(q, p)) <=> Within(r, q) \/ r = p
  BY <1>3, AppendFacts
<1>6. Moves(p, Append(q, p))
  BY <1>0, <1>1, <1>2, <1>3, <1>4, <1>5 DEF Moves, RestType
<1> QED
  BY <1>0, <1>1, <1>6 DEF q, RestType

LEMMA HandshakeFailsMoves ==
  ASSUME IInv, NEW p \in Calls, HandshakeFails(p)
  PROVE  /\ Moves(p, Without(req[on[p]], p)) /\ UNCHANGED outcome
         /\ pc[p] \in {"initialize", "notify"} /\ pc'[p] = "stopping-failed"
<1> USE ThreadFacts
<1>0. RestType /\ ReqType /\ LifeInv /\ LifeType /\ OnInv /\ ReqInv
  BY Parts
<1>1. /\ pc[p] \in {"initialize", "notify"} /\ pc' = [pc EXCEPT ![p] = "stopping-failed"]
      /\ req' = [req EXCEPT ![at[p]] = Without(@, p)]
      /\ UNCHANGED <<on, outcome>>
  BY DEF HandshakeFails, GoTo
<1>2. at[p] = on[p] /\ on[p] \in Clients
  BY <1>0, <1>1, LifeHeld DEF HasLife, OnInv
<1> DEFINE q == Without(req[on[p]], p)
<1>3. q \in Seq(Calls) /\ \A r : Within(r, q) <=> Within(r, req[on[p]]) /\ r # p
  BY <1>0, <1>2, WithoutFacts DEF ReqInv, ReqType
<1>4. req' = [req EXCEPT ![on[p]] = q]
  BY <1>1, <1>2
<1> HIDE DEF q
<1>5. Moves(p, q)
  BY <1>0, <1>1, <1>2, <1>3, <1>4 DEF Moves, RestType, Requesting
<1> QED
  BY <1>0, <1>1, <1>5 DEF q, RestType

LEMMA BeginRequestMoves ==
  ASSUME IInv, NEW p \in Calls, BeginRequest(p)
  PROVE  /\ Moves(p, req[on[p]]) /\ UNCHANGED outcome
         /\ HoldsReq(p) /\ pc[p] = "request" /\ pc'[p] = "exchange"
<1> USE ThreadFacts, MCPSentinelAssumption
<1>0. RestType /\ ReqType /\ OnInv /\ ReqInv
  BY Parts
<1>1. /\ pc[p] = "request" /\ pc' = [pc EXCEPT ![p] = "exchange"] /\ HoldsReq(p)
      /\ UNCHANGED <<req, on, outcome>>
  BY DEF BeginRequest, GoTo, lockVars, callVars
<1>2. on[p] \in Clients
  BY <1>0, <1>1 DEF HoldsReq, RestType
<1>3. Within(p, req[on[p]])
  BY <1>0, <1>1, <1>2, WithinFacts DEF HoldsReq, ReqType
<1> QED
  BY <1>0, <1>1, <1>2, <1>3 DEF Moves, RestType, ReqType

LEMMA NotifiedMoves ==
  ASSUME IInv, NEW p \in Calls, Notified(p)
  PROVE  /\ HoldsReq(p) /\ pc[p] = "notify" /\ UNCHANGED outcome
         /\ \/ /\ Moves(p, Append(Tail(req[on[p]]), p))
               /\ pc'[p] = IF Tail(req[on[p]]) = <<>> THEN "exchange" ELSE "request"
            \/ Moves(p, Tail(req[on[p]])) /\ pc'[p] = "start"
<1>0. RestType /\ ReqType /\ LifeInv /\ LifeType /\ OnInv /\ ReqInv
  BY Parts
<1>1. /\ pc[p] = "notify" /\ HoldsReq(p) /\ LeaveStart(p, at[p], Tail(req[at[p]]))
      /\ UNCHANGED <<on, outcome>>
  BY DEF Notified
<1>2. at[p] = on[p] /\ on[p] \in Clients
  BY <1>0, <1>1, LifeHeld, ThreadFacts DEF HasLife, OnInv
<1> DEFINE q == Tail(req[on[p]])
<1>3. q \in Seq(Calls) /\ \A r : Within(r, q) <=> Within(r, req[on[p]]) /\ r # p
  BY <1>0, <1>1, <1>2, TailFacts DEF HoldsReq, ReqInv, ReqType
<1>4. LeaveStart(p, at[p], q)
  BY <1>1, <1>2
<1> HIDE DEF q
<1>5. \/ /\ Moves(p, Append(q, p))
         /\ pc'[p] = IF q = <<>> THEN "exchange" ELSE "request"
      \/ Moves(p, q) /\ pc'[p] = "start"
  BY <1>1, <1>2, <1>3, <1>4, LeaveStartMoves
<1> QED
  BY <1>1, <1>5 DEF q

LEMMA PassStartMoves ==
  ASSUME IInv, NEW p \in Calls, PassStart(p)
  PROVE  /\ pc[p] = "start" /\ UNCHANGED outcome
         /\ \/ /\ Moves(p, Append(req[on[p]], p))
               /\ pc'[p] = IF req[on[p]] = <<>> THEN "exchange" ELSE "request"
            \/ Moves(p, req[on[p]]) /\ pc'[p] = "start"
<1>0. RestType /\ ReqType /\ LifeInv /\ LifeType /\ OnInv /\ ReqInv
  BY Parts
<1>1. /\ pc[p] = "start" /\ LeaveStart(p, at[p], req[at[p]])
      /\ UNCHANGED <<on, outcome>>
  BY DEF PassStart
<1>2. at[p] = on[p] /\ on[p] \in Clients
  BY <1>0, <1>1, ThreadFacts DEF LifeInv, Locking, OnInv
<1>3. req[on[p]] \in Seq(Calls) /\ ~Within(p, req[on[p]])
  BY <1>0, <1>1, <1>2 DEF ReqInv, ReqType, Requesting
<1>4. LeaveStart(p, at[p], req[on[p]])
  BY <1>1, <1>2
<1> QED
  BY <1>1, <1>2, <1>3, <1>4, LeaveStartMoves

PlaceInv == QueuedInv /\ OpenInv

LEMMA QuietPlace == ASSUME PlaceInv, Quiet PROVE PlaceInv'
<1> SUFFICES ASSUME NEW r \in Calls
             PROVE  /\ pc'[r] \in {"initialize", "notify", "request"} => Within(r, req'[on'[r]])
                    /\ pc'[r] # "finished" => outcome'[r] = "none"
  BY DEF PlaceInv, QueuedInv, OpenInv
<1>1. Calm(r) /\ UNCHANGED <<req, outcome>>
  BY DEF Quiet
<1> QED
  BY <1>1 DEF Calm, PlaceInv, QueuedInv, OpenInv, Requesting

LEMMA MovesPlace ==
  ASSUME IInv, PlaceInv, NEW p \in Calls, NEW w, Moves(p, w),
         \/ UNCHANGED outcome /\ pc[p] # "finished"
         \/ pc'[p] = "finished" /\ \E a : outcome' = [outcome EXCEPT ![p] = a]
  PROVE  PlaceInv'
<1>0. RestType /\ ReqType
  BY Parts
<1>1. /\ on' = on /\ \A r \in Calls : r # p => pc'[r] = pc[r]
      /\ req'[on[p]] = w /\ \A c \in Clients : c # on[p] => req'[c] = req[c]
      /\ pc'[p] \in Requesting => Within(p, w)
      /\ \A r : r # p => (Within(r, w) <=> Within(r, req[on[p]]))
  BY <1>0 DEF Moves, ReqType
<1>2. \A r \in Calls : on[r] \notin Clients => req'[on[r]] = req[on[r]]
  BY <1>0 DEF Moves, ReqType
<1>3. ASSUME NEW r \in Calls, pc'[r] \in {"initialize", "notify", "request"}
      PROVE  Within(r, req'[on'[r]])
  <2>1. CASE r = p
    BY <1>1, <1>3, <2>1 DEF Requesting
  <2>2. CASE r # p
    <3>1. Within(r, req[on[r]])
      BY <1>1, <1>3, <2>2 DEF PlaceInv, QueuedInv
    <3> QED
      BY <1>1, <1>2, <2>2, <3>1
  <2> QED
    BY <2>1, <2>2
<1>4. \A r \in Calls : pc'[r] # "finished" => outcome'[r] = "none"
  BY <1>0, <1>1 DEF PlaceInv, OpenInv, RestType
<1> QED
  BY <1>3, <1>4 DEF PlaceInv, QueuedInv, OpenInv

(* What a call may do: a quiet step, one of those above, or its end: with  *)
(* a failure, or with its own reply if it has asked.                       *)
Ends(p) ==
  /\ pc[p] \notin {"new", "finished"}
  /\ \E a \in {p} \union (Failures \ {"none"}) :
       Finish(p, a) /\ (a = p => pc[p] \in Exchanging)

LEMMA CallSteps ==
  ASSUME IInv, NEW p \in Calls, GetOrStart(p) \/ CallStep(p) \/ CancelCall(p)
  PROVE  \/ Quiet \/ Ends(p)
         \/ Spawned(p) \/ Initialized(p) \/ HandshakeFails(p) \/ BeginRequest(p)
         \/ Notified(p) \/ PassStart(p)
<1>1. CASE StopStale(p) \/ StaleStopped(p) \/ Restart(p) \/ RestartStopped(p)
           \/ GetOrStart(p) \/ Timeout(p)
  BY <1>1, QuietCallSteps
<1>2. CASE SpawnFails(p) \/ FailedStopped(p) \/ BeginFails(p) \/ EndOfFile(p)
           \/ TimeoutUnheard(p) \/ CancelledNotified(p) \/ ListingTimeout(p) \/ CancelCall(p)
  <2>1. /\ pc[p] \notin {"new", "finished"}
        /\ \E a \in {"error", "timeout", "cancelled"} : Finish(p, a)
    BY <1>2 DEF SpawnFails, FailedStopped, BeginFails, EndOfFile, CancelledNotified,
       TimeoutUnheard, ListingTimeout, CancelCall
  <2>2. \A a \in {"error", "timeout", "cancelled"} : a \in Failures \ {"none"} /\ a # p
    BY MCPSentinelAssumption DEF Failures
  <2> QED
    BY <2>1, <2>2 DEF Ends
<1>3. CASE Reply(p)
  BY <1>3 DEF Reply, Accepts, Ends, Exchanging
<1> QED
  BY <1>1, <1>2, <1>3 DEF CallStep

LEMMA NextPlace == ASSUME IInv, PlaceInv, [Next]_vars PROVE PlaceInv'
<1>1. ASSUME NEW p \in Calls, GetOrStart(p) \/ CallStep(p) \/ CancelCall(p) PROVE PlaceInv'
  <2>1. CASE Quiet
    BY <2>1, QuietPlace
  <2>2. CASE Ends(p)
    BY <2>2, FinishMoves, MovesPlace DEF Ends
  <2>3. CASE Spawned(p)
    BY <2>3, SpawnedMoves, MovesPlace
  <2>4. CASE Initialized(p)
    BY <2>4, InitializedMoves, MovesPlace
  <2>5. CASE HandshakeFails(p)
    BY <2>5, HandshakeFailsMoves, MovesPlace
  <2>6. CASE BeginRequest(p)
    BY <2>6, BeginRequestMoves, MovesPlace
  <2>7. CASE Notified(p)
    BY <2>7, NotifiedMoves, MovesPlace
  <2>8. CASE PassStart(p)
    BY <2>8, PassStartMoves, MovesPlace
  <2> QED
    BY <1>1, <2>1, <2>2, <2>3, <2>4, <2>5, <2>6, <2>7, <2>8, CallSteps
<1>2. CASE \/ ReaperWakes \/ ReaperStep \/ StopAll \/ ShutdownStep
           \/ \E c \in Clients : Exit(c) \/ BecomeIdle(c)
           \/ UNCHANGED vars
  BY <1>2, QuietOtherSteps, QuietPlace
<1> QED
  BY <1>1, <1>2 DEF Next

LEMMA WholeInv == Spec => [](IInv /\ PlaceInv)
<1>1. Init => PlaceInv
  BY ThreadFacts DEF Init, PlaceInv, QueuedInv, OpenInv
<1> QED
  BY <1>1, InitInv, NextInv, NextPlace, PTL DEF Spec

(***************************************************************************)
(* Waiting for the locks ends.                                             *)
(***************************************************************************)
(* Who holds a request lock waits for no lock.                             *)
LEMMA ReqHeadGoesOn ==
  ASSUME IInv, NEW c \in Clients, req[c] # <<>>
  PROVE  Head(req[c]) \in Calls /\ GoesOn(Head(req[c]))
<1> DEFINE h == Head(req[c])
<1>1. Within(h, req[c]) /\ h \in Calls
  BY Parts, WithinFacts DEF ReqType
<1>2. on[h] = c /\ pc[h] \in Requesting
  BY <1>1, Parts DEF ReqInv
<1>3. HoldsReq(h)
  BY <1>2, MCPSentinelAssumption DEF HoldsReq
<1> HIDE DEF h
<1>4. ~WaitsForLife(h) /\ ~WaitsForReq(h)
  BY <1>2, <1>3 DEF WaitsForLife, WaitsForReq, Requesting
<1>5. h \in Calls /\ GoesOn(h)
  BY <1>1, <1>2, <1>4, ThreadFacts DEF GoesOn, Waits, Requesting
<1> QED
  BY <1>5 DEF h

LEMMA ReqWaiterEnds ==
  ASSUME IInv, PlaceInv, NEW p \in Threads, WaitsForReq(p)
  PROVE  WaitsFor(p) \in Calls /\ GoesOn(WaitsFor(p))
<1>1. ~WaitsForLife(p)
  <2>1. p \in Calls /\ pc[p] \in {"initialize", "notify", "request"}
    BY DEF WaitsForReq
  <2> QED
    BY <2>1 DEF WaitsForLife
<1>2. p \in Calls /\ Within(p, req[on[p]]) /\ on[p] \in Clients
  BY Parts DEF WaitsForReq, PlaceInv, QueuedInv, OnInv, RestType
<1>3. req[on[p]] # <<>>
  BY <1>2, Parts, WithinFacts DEF ReqType
<1> QED
  BY <1>1, <1>2, <1>3, ReqHeadGoesOn DEF WaitsFor

LEMMA WaitingEnds == IInv /\ PlaceInv => WaitsEnd
<1> SUFFICES ASSUME IInv, PlaceInv, NEW p \in Threads, Waits(p)
             PROVE  \/ GoesOn(WaitsFor(p))
                    \/ Waits(WaitsFor(p)) /\ GoesOn(WaitsFor(WaitsFor(p)))
  BY DEF WaitsEnd
<1>1. CASE WaitsForReq(p)
  BY <1>1, ReqWaiterEnds
<1>2. CASE WaitsForLife(p)
  <2> DEFINE c == at[p]
             q == Head(life[c])
  <2>1. c \in Clients /\ Within(p, life[c])
    BY <1>2, Parts DEF WaitsForLife, LifeInv, Locking, HasLife
  <2>2. life[c] # <<>> /\ Within(q, life[c]) /\ q \in Threads
    BY <2>1, Parts, WithinFacts DEF LifeType
  <2>3. at[q] = c /\ pc[q] \in Locking
    BY <2>1, <2>2, Parts DEF LifeInv
  <2>4. HoldsLife(q)
    BY <2>1, <2>2, <2>3, MCPSentinelAssumption DEF HoldsLife
  <2>5. WaitsFor(p) = q
    BY <1>2 DEF WaitsFor
  <2> HIDE DEF q
  <2>6. CASE WaitsForReq(q)
    BY <2>2, <2>5, <2>6, ReqWaiterEnds DEF Waits
  <2>7. CASE ~WaitsForReq(q)
    <3>1. ~Waits(q)
      BY <2>4, <2>7 DEF Waits, WaitsForLife
    <3> QED
      BY <2>2, <2>3, <2>5, <3>1 DEF GoesOn, Locking, HasLife
  <2> QED
    BY <2>6, <2>7
<1> QED
  BY <1>1, <1>2 DEF Waits

(* The two locks are taken without circles, in whatever order start(),     *)
(* _perform_request, the reaper, failures and cancellations queue for them:*)
(* the chain of who waits for whom has at most two links.                  *)
THEOREM LocksDoNotDeadlock == Spec => []WaitsEnd
BY WaitingEnds, WholeInv, PTL

(***************************************************************************)
(* Who speaks to a process: the pipes keep the promise of SerialPipe.      *)
(***************************************************************************)
Greets(p) == pc[p] \in {"initialize", "notify"}
HeadOf(c) == IF req[c] = <<>> THEN {} ELSE {Head(req[c])}

(* Only the holder of a request lock speaks.                               *)
SpeakersAre ==
  \A c \in Clients :
    /\ HeadOf(c) \subseteq Calls
    /\ \A p \in HeadOf(c) : Within(p, req[c]) /\ on[p] = c /\ pc[p] \in Requesting
    /\ Greeters(c) = {p \in HeadOf(c) : Greets(p)}
    /\ Askers(c) = {p \in HeadOf(c) : pc[p] \in Exchanging}

LEMMA Speakers == IInv => SpeakersAre
<1> SUFFICES ASSUME IInv, NEW c \in Clients
             PROVE  /\ HeadOf(c) \subseteq Calls
                    /\ \A p \in HeadOf(c) :
                         Within(p, req[c]) /\ on[p] = c /\ pc[p] \in Requesting
                    /\ Greeters(c) = {p \in HeadOf(c) : Greets(p)}
                    /\ Askers(c) = {p \in HeadOf(c) : pc[p] \in Exchanging}
  BY DEF SpeakersAre
<1>0. ReqInv /\ ReqType
  BY Parts
<1>1. ASSUME NEW p \in HeadOf(c)
      PROVE  /\ p \in Calls /\ Within(p, req[c]) /\ on[p] = c
             /\ pc[p] \in Requesting /\ HoldsReq(p)
  <2>1. req[c] # <<>> /\ p = Head(req[c])
    BY DEF HeadOf
  <2>2. Within(p, req[c]) /\ p \in Calls
    BY <1>0, <2>1, WithinFacts DEF ReqType
  <2>3. on[p] = c /\ pc[p] \in Requesting
    BY <1>0, <2>2 DEF ReqInv
  <2> QED
    BY <2>1, <2>2, <2>3, MCPSentinelAssumption DEF HoldsReq
<1>2. \A p \in Calls : on[p] = c /\ HoldsReq(p) => p \in HeadOf(c)
  BY DEF HoldsReq, HeadOf
<1>3. \A p \in Calls : on[p] = c /\ pc[p] \in Exchanging => p \in HeadOf(c)
  BY <1>0 DEF ReqInv, HeadOf
<1> QED
  BY <1>1, <1>2, <1>3 DEF Greeters, Askers, Greets

LEMMA SpeakersNext == IInv' => SpeakersAre'
BY Speakers, PTL

(* A quiet step leaves who speaks as it is.                                *)
LEMMA QuietPipe == ASSUME IInv, Quiet PROVE UNCHANGED Pipe!vars
<1>1. (\A r \in Calls : Calm(r)) /\ req' = req /\ outcome' = outcome
  BY DEF Quiet
<1>2. ASSUME NEW c \in Clients PROVE Greeters(c)' = Greeters(c) /\ Askers(c)' = Askers(c)
  BY <1>1 DEF Calm, Greeters, Askers, HoldsReq, Requesting, Exchanging
<1> QED
  BY <1>1, <1>2 DEF Pipe!vars, GreetersOf, AskersOf

(* A step that moves p changes who speaks at its client only.              *)
LEMMA MovesElsewhere ==
  ASSUME IInv, IInv', NEW p \in Calls, NEW c, on[p] = c, NEW w, Moves(p, w)
  PROVE  /\ GreetersOf' = [GreetersOf EXCEPT ![c] = Greeters(c)']
         /\ AskersOf' = [AskersOf EXCEPT ![c] = Askers(c)']
         /\ Greeters(c)' = Greeters(c) => UNCHANGED GreetersOf
         /\ Askers(c)' = Askers(c) => UNCHANGED AskersOf
         /\ HeadOf(c)' = IF w = <<>> THEN {} ELSE {Head(w)}
<1>0. ReqType
  BY Parts
<1>1. c \in Clients /\ req'[c] = w /\ on' = on
      /\ \A d \in Clients : d # c => req'[d] = req[d]
  BY <1>0 DEF Moves, ReqType
<1>2. ASSUME NEW d \in Clients, d # c
      PROVE  Greeters(d)' = Greeters(d) /\ Askers(d)' = Askers(d)
  <2>1. \A r \in Calls : on[r] = d => pc'[r] = pc[r] /\ (HoldsReq(r)' <=> HoldsReq(r))
    BY <1>1, <1>2 DEF Moves, HoldsReq
  <2> QED
    BY <1>1, <2>1 DEF Greeters, Askers
<1> QED
  BY <1>1, <1>2 DEF GreetersOf, AskersOf, HeadOf

(* The same, for who spoke there before and who speaks there now.          *)
LEMMA MovesSpeakers ==
  ASSUME IInv, IInv', PlaceInv, NEW p \in Calls, NEW c, on[p] = c, NEW w, Moves(p, w)
  PROVE  /\ c \in Clients /\ HeadOf(c) \subseteq Calls
         /\ HeadOf(c)' = (IF w = <<>> THEN {} ELSE {Head(w)})
         /\ HeadOf(c)' \subseteq Calls
         /\ Greeters(c) = {r \in HeadOf(c) : Greets(r)}
         /\ Askers(c) = {r \in HeadOf(c) : pc[r] \in Exchanging}
         /\ \A r \in Calls \ {p} : pc'[r] = pc[r]
         /\ Greeters(c)' = {r \in HeadOf(c)' : pc'[r] \in {"initialize", "notify"}}
         /\ Askers(c)' = {r \in HeadOf(c)' : pc'[r] \in Exchanging}
         /\ GreetersOf' = [GreetersOf EXCEPT ![c] = Greeters(c)']
         /\ AskersOf' = [AskersOf EXCEPT ![c] = Askers(c)']
         /\ Greeters(c)' = Greeters(c) => UNCHANGED GreetersOf
         /\ Askers(c)' = Askers(c) => UNCHANGED AskersOf
         /\ \A r \in HeadOf(c)' \ HeadOf(c) :
              r # p => pc[r] \notin Exchanging /\ outcome[r] = "none"
<1>0. SpeakersAre /\ SpeakersAre' /\ ReqInv
  BY Speakers, SpeakersNext, Parts
<1>1. c \in Clients /\ UNCHANGED on /\ \A r \in Calls : r # p => pc'[r] = pc[r]
  BY DEF Moves
<1>2. /\ GreetersOf' = [GreetersOf EXCEPT ![c] = Greeters(c)']
      /\ AskersOf' = [AskersOf EXCEPT ![c] = Askers(c)']
      /\ HeadOf(c)' = IF w = <<>> THEN {} ELSE {Head(w)}
      /\ Greeters(c)' = Greeters(c) => UNCHANGED GreetersOf
      /\ Askers(c)' = Askers(c) => UNCHANGED AskersOf
  BY MovesElsewhere
<1>3. /\ HeadOf(c) \subseteq Calls
      /\ Greeters(c) = {r \in HeadOf(c) : Greets(r)}
      /\ Askers(c) = {r \in HeadOf(c) : pc[r] \in Exchanging}
  BY <1>0, <1>1 DEF SpeakersAre
<1>4. /\ HeadOf(c)' \subseteq Calls
      /\ \A r \in HeadOf(c)' : pc'[r] \in Requesting /\ on'[r] = c
      /\ Greeters(c)' = {r \in HeadOf(c)' : pc'[r] \in {"initialize", "notify"}}
      /\ Askers(c)' = {r \in HeadOf(c)' : pc'[r] \in Exchanging}
  BY <1>0, <1>1 DEF SpeakersAre, Greets
<1>5. ASSUME NEW r \in HeadOf(c)' \ HeadOf(c), r # p
      PROVE  pc[r] \notin Exchanging /\ outcome[r] = "none"
  <2>1. r \in Calls /\ pc[r] \in Requesting /\ on[r] = c
    BY <1>1, <1>4, <1>5
  <2>2. pc[r] \in Exchanging => r \in HeadOf(c)
    BY <1>0, <2>1 DEF ReqInv, HeadOf
  <2> QED
    BY <1>5, <2>1, <2>2 DEF PlaceInv, OpenInv, Requesting
<1> QED
  BY <1>1, <1>2, <1>3, <1>4, <1>5

Mapped == Pipe!Next \/ UNCHANGED Pipe!vars

(* p, who handshakes, gives the request lock back or stands behind others  *)
(* that wait for it: it steps back, and none of the others speaks yet.     *)
LEMMA StepsBack ==
  ASSUME IInv, IInv', PlaceInv, NEW p \in Calls, NEW c, on[p] = c, NEW w, Moves(p, w),
         UNCHANGED outcome,
         HeadOf(c) = {p}, Greets(p), p \notin HeadOf(c)',
         \A r \in HeadOf(c)' : ~Greets(r)
  PROVE  Mapped
<1>0. /\ c \in Clients /\ HeadOf(c) \subseteq Calls /\ HeadOf(c)' \subseteq Calls
      /\ Greeters(c) = {r \in HeadOf(c) : Greets(r)}
      /\ Askers(c) = {r \in HeadOf(c) : pc[r] \in Exchanging}
      /\ \A r \in Calls \ {p} : pc'[r] = pc[r]
      /\ Greeters(c)' = {r \in HeadOf(c)' : pc'[r] \in {"initialize", "notify"}}
      /\ Askers(c)' = {r \in HeadOf(c)' : pc'[r] \in Exchanging}
      /\ GreetersOf' = [GreetersOf EXCEPT ![c] = Greeters(c)']
      /\ AskersOf' = [AskersOf EXCEPT ![c] = Askers(c)']
      /\ Greeters(c)' = Greeters(c) => UNCHANGED GreetersOf
      /\ Askers(c)' = Askers(c) => UNCHANGED AskersOf
      /\ \A r \in HeadOf(c)' \ HeadOf(c) : r # p => pc[r] \notin Exchanging
  BY MovesSpeakers
<1>1. Greeters(c) = {p} /\ Askers(c) = {}
  BY <1>0 DEF Greets, Exchanging
<1>2. Greeters(c)' = {} /\ Askers(c)' = {}
  <2>1. \A r \in HeadOf(c)' : r \in Calls /\ r # p /\ pc'[r] = pc[r] /\ r \notin HeadOf(c)
    BY <1>0
  <2> QED
    BY <1>0, <2>1 DEF Greets
<1>4. GreetersOf[c] = {p} /\ GreetersOf' = [GreetersOf EXCEPT ![c] = {}] /\ AskersOf' = AskersOf
  BY <1>0, <1>1, <1>2 DEF GreetersOf, AskersOf
<1>5. Pipe!StepBack(p, c)
  BY <1>4 DEF Pipe!StepBack
<1> QED
  BY <1>0, <1>5 DEF Mapped, Pipe!Next

(* p holds the request lock and writes its request.                        *)
LEMMA AsksNow ==
  ASSUME IInv, IInv', PlaceInv, NEW p \in Calls, NEW c, on[p] = c, NEW w, Moves(p, w),
         UNCHANGED outcome,
         HeadOf(c) \subseteq {p}, HeadOf(c)' = {p},
         pc[p] \notin Exchanging, pc[p] # "finished", pc'[p] \in Exchanging
  PROVE  Mapped
<1>0. /\ c \in Clients /\ HeadOf(c) \subseteq Calls /\ HeadOf(c)' \subseteq Calls
      /\ Greeters(c) = {r \in HeadOf(c) : Greets(r)}
      /\ Askers(c) = {r \in HeadOf(c) : pc[r] \in Exchanging}
      /\ \A r \in Calls \ {p} : pc'[r] = pc[r]
      /\ Greeters(c)' = {r \in HeadOf(c)' : pc'[r] \in {"initialize", "notify"}}
      /\ Askers(c)' = {r \in HeadOf(c)' : pc'[r] \in Exchanging}
      /\ GreetersOf' = [GreetersOf EXCEPT ![c] = Greeters(c)']
      /\ AskersOf' = [AskersOf EXCEPT ![c] = Askers(c)']
  BY MovesSpeakers
<1>1. Greeters(c) \subseteq {p} /\ Askers(c) = {}
  BY <1>0
<1>2. Greeters(c)' = {} /\ Askers(c)' = {p}
  BY <1>0 DEF Exchanging
<1>4. /\ GreetersOf[c] \subseteq {p} /\ AskersOf[c] = {}
      /\ GreetersOf' = [GreetersOf EXCEPT ![c] = {}]
      /\ AskersOf' = [AskersOf EXCEPT ![c] = {p}]
  BY <1>0, <1>1, <1>2 DEF GreetersOf, AskersOf
<1>5. p \notin Pipe!Asking /\ p \in Pipe!Open
  BY DEF Pipe!Asking, Pipe!Open, AskersOf, Askers, PlaceInv, OpenInv
<1>6. Pipe!Ask(p, c)
  BY <1>4, <1>5 DEF Pipe!Ask
<1> QED
  BY <1>0, <1>6 DEF Mapped, Pipe!Next

(* p moves behind the holder of the request lock, or on as the holder.     *)
LEMMA Behind ==
  ASSUME IInv, IInv', PlaceInv, NEW p \in Calls, NEW c, on[p] = c, NEW w, Moves(p, w),
         UNCHANGED outcome,
         HeadOf(c)' = HeadOf(c),
         p \in HeadOf(c) => Greets(p) /\ pc'[p] \in {"initialize", "notify"}
  PROVE  Mapped
<1>0. /\ c \in Clients /\ HeadOf(c) \subseteq Calls /\ HeadOf(c)' \subseteq Calls
      /\ Greeters(c) = {r \in HeadOf(c) : Greets(r)}
      /\ Askers(c) = {r \in HeadOf(c) : pc[r] \in Exchanging}
      /\ \A r \in Calls \ {p} : pc'[r] = pc[r]
      /\ Greeters(c)' = {r \in HeadOf(c)' : pc'[r] \in {"initialize", "notify"}}
      /\ Askers(c)' = {r \in HeadOf(c)' : pc'[r] \in Exchanging}
      /\ GreetersOf' = [GreetersOf EXCEPT ![c] = Greeters(c)']
      /\ AskersOf' = [AskersOf EXCEPT ![c] = Askers(c)']
      /\ Greeters(c)' = Greeters(c) => UNCHANGED GreetersOf
      /\ Askers(c)' = Askers(c) => UNCHANGED AskersOf
  BY MovesSpeakers
<1>1. Greeters(c)' = Greeters(c) /\ Askers(c)' = Askers(c)
  <2>1. ASSUME NEW r \in HeadOf(c)
        PROVE  /\ Greets(r) <=> pc'[r] \in {"initialize", "notify"}
               /\ pc[r] \in Exchanging <=> pc'[r] \in Exchanging
    BY <1>0 DEF Greets, Exchanging
  <2> QED
    BY <1>0, <2>1
<1>2. UNCHANGED <<GreetersOf, AskersOf>>
  BY <1>0, <1>1
<1> QED
  BY <1>2 DEF Mapped, Pipe!vars

(* A call ends: whoever is handed the request lock has not asked yet.      *)
LEMMA EndsMapped ==
  ASSUME IInv, IInv', PlaceInv, NEW p \in Calls, NEW c, on[p] = c, Ends(p)
  PROVE  Mapped
<1> DEFINE w == Without(req[c], p)
<1>1. PICK a \in {p} \union (Failures \ {"none"}) :
        Finish(p, a) /\ (a = p => pc[p] \in Exchanging)
  BY DEF Ends
<1>2. /\ Moves(p, w) /\ pc'[p] = "finished" /\ outcome' = [outcome EXCEPT ![p] = a]
      /\ pc[p] # "finished"
  BY <1>1, FinishMoves DEF Ends
<1> HIDE DEF w
<1>3. /\ c \in Clients /\ HeadOf(c) \subseteq Calls /\ HeadOf(c)' \subseteq Calls
      /\ Greeters(c) = {r \in HeadOf(c) : Greets(r)}
      /\ Askers(c) = {r \in HeadOf(c) : pc[r] \in Exchanging}
      /\ \A r \in Calls \ {p} : pc'[r] = pc[r]
      /\ Greeters(c)' = {r \in HeadOf(c)' : pc'[r] \in {"initialize", "notify"}}
      /\ Askers(c)' = {r \in HeadOf(c)' : pc'[r] \in Exchanging}
      /\ GreetersOf' = [GreetersOf EXCEPT ![c] = Greeters(c)']
      /\ AskersOf' = [AskersOf EXCEPT ![c] = Askers(c)']
      /\ Greeters(c)' = Greeters(c) => UNCHANGED GreetersOf
      /\ Askers(c)' = Askers(c) => UNCHANGED AskersOf
      /\ \A r \in HeadOf(c)' \ HeadOf(c) :
           r # p => pc[r] \notin Exchanging /\ outcome[r] = "none"
  BY <1>2, MovesSpeakers
<1>4. p \in Pipe!Open
  BY <1>2 DEF Pipe!Open, PlaceInv, OpenInv
<1>5. p \notin HeadOf(c)'
  <2>1. pc'[p] \notin Requesting
    BY <1>2 DEF Requesting
  <2> QED
    BY <1>3, <2>1, SpeakersNext DEF SpeakersAre
<1>6. CASE p \in HeadOf(c)
  <2>1. HeadOf(c) = {p}
    BY <1>6 DEF HeadOf
  <2>2. Greeters(c) \subseteq {p} /\ Askers(c)' = {}
    BY <1>3, <1>5, <2>1
  <2>3. \E next \in {{}} \union {{q} : q \in Pipe!Open \ {p}} : Greeters(c)' = next
    <3>1. CASE Greeters(c)' = {}
      BY <3>1
    <3>2. CASE Greeters(c)' # {}
      <4>1. PICK q \in HeadOf(c)' : q \in Greeters(c)'
        BY <1>3, <3>2
      <4>2. Greeters(c)' = {q}
        BY <1>3, <4>1 DEF HeadOf
      <4>3. q \in Pipe!Open \ {p}
        BY <1>3, <1>5, <2>1, <4>1 DEF Pipe!Open
      <4> QED
        BY <4>2, <4>3
    <3> QED
      BY <3>1, <3>2
  <2>4. Pipe!Turn(p, c)
    BY <1>3, <2>2, <2>3 DEF Pipe!Turn, GreetersOf, AskersOf
  <2>5. CASE pc[p] \in Exchanging
    <3>1. AskersOf[c] = {p} /\ AskersOf' = [AskersOf EXCEPT ![c] = {}]
      BY <1>3, <2>1, <2>2, <2>5 DEF AskersOf
    <3>2. Pipe!Settle(p, c)
      BY <1>1, <1>2, <1>4, <2>4, <3>1 DEF Pipe!Settle
    <3> QED
      BY <1>3, <3>2 DEF Mapped, Pipe!Next
  <2>6. CASE pc[p] \notin Exchanging
    <3>1. Askers(c) = {} /\ AskersOf' = AskersOf
      BY <1>3, <2>1, <2>2, <2>6 DEF AskersOf
    <3>2. p \notin Pipe!Asking
      BY <2>6 DEF Pipe!Asking, AskersOf, Askers
    <3>3. Pipe!Fail(p, c)
      BY <1>1, <1>2, <1>4, <2>4, <2>6, <3>1, <3>2 DEF Pipe!Fail
    <3> QED
      BY <1>3, <3>3 DEF Mapped, Pipe!Next
  <2> QED
    BY <2>5, <2>6
<1>7. CASE p \notin HeadOf(c)
  <2>1. pc[p] \notin Exchanging
    BY <1>7, Parts DEF ReqInv, HeadOf
  <2>2. HeadOf(c)' = HeadOf(c)
    <3>1. HeadOf(c)' = IF w = <<>> THEN {} ELSE {Head(w)}
      BY <1>2, MovesSpeakers
    <3>2. req[c] \in Seq(Calls) /\ Distinct(req[c])
      BY <1>3, Parts DEF ReqType, ReqInv
    <3> QED
      BY <1>7, <3>1, <3>2, WithoutFacts DEF HeadOf, w
  <2>3. Greeters(c)' = Greeters(c) /\ Askers(c)' = Askers(c)
    BY <1>3, <1>7, <2>2 DEF Greets
  <2>4. UNCHANGED <<GreetersOf, AskersOf>>
    BY <1>3, <2>3
  <2>5. p \notin Pipe!Greeting /\ p \notin Pipe!Asking
    <3>1. \A d \in Clients : p \in Greeters(d) \/ p \in Askers(d) => d = c
      BY DEF Greeters, Askers
    <3>2. p \notin Greeters(c) /\ p \notin Askers(c)
      BY <1>3, <1>7
    <3> QED
      BY <3>1, <3>2 DEF Pipe!Greeting, Pipe!Asking, GreetersOf, AskersOf
  <2>6. Pipe!Fail(p, c)
    BY <1>1, <1>2, <1>4, <2>1, <2>4, <2>5 DEF Pipe!Fail, Pipe!Turn
  <2> QED
    BY <1>3, <2>6 DEF Mapped, Pipe!Next
<1> QED
  BY <1>6, <1>7

(* The queues the other steps leave behind, and who is at their head.      *)
LEMMA SpawnedMapped == ASSUME IInv, IInv', PlaceInv, NEW p \in Calls, Spawned(p) PROVE Mapped
<1>5. PICK c : on[p] = c
  OBVIOUS
<1> DEFINE w == Append(req[c], p)
<1>1. Moves(p, w) /\ UNCHANGED outcome /\ pc[p] = "spawning" /\ pc'[p] = "initialize"
  BY <1>5, SpawnedMoves
<1>2. c \in Clients /\ req[c] \in Seq(Calls)
  BY <1>1, <1>5, Parts DEF Moves, ReqType
<1>3. Head(w) = IF req[c] = <<>> THEN p ELSE Head(req[c])
  BY <1>2, AppendFacts
<1>4. w # <<>>
  BY <1>2, AppendFacts
<1> HIDE DEF w
<1>0. /\ HeadOf(c) \subseteq Calls /\ HeadOf(c)' \subseteq Calls
      /\ HeadOf(c)' = IF w = <<>> THEN {} ELSE {Head(w)}
      /\ Greeters(c) = {r \in HeadOf(c) : Greets(r)}
      /\ Askers(c) = {r \in HeadOf(c) : pc[r] \in Exchanging}
      /\ \A r \in Calls \ {p} : pc'[r] = pc[r]
      /\ Greeters(c)' = {r \in HeadOf(c)' : pc'[r] \in {"initialize", "notify"}}
      /\ Askers(c)' = {r \in HeadOf(c)' : pc'[r] \in Exchanging}
      /\ GreetersOf' = [GreetersOf EXCEPT ![c] = Greeters(c)']
      /\ AskersOf' = [AskersOf EXCEPT ![c] = Askers(c)']
      /\ Askers(c)' = Askers(c) => UNCHANGED AskersOf
  BY <1>1, <1>5, MovesSpeakers
<1>6. p \notin HeadOf(c)
  <2>1. ~Within(p, req[c])
    BY <1>1, <1>2, Parts DEF ReqInv, Requesting
  <2> QED
    BY <1>2, <2>1, Speakers DEF SpeakersAre
<1>7. CASE req[c] = <<>>
  <2>1. HeadOf(c) = {} /\ HeadOf(c)' = {p}
    BY <1>0, <1>3, <1>4, <1>7 DEF HeadOf
  <2>2. Greeters(c) = {} /\ Askers(c) = {} /\ Greeters(c)' = {p} /\ Askers(c)' = {}
    BY <1>0, <1>1, <2>1 DEF Exchanging
  <2>3. /\ GreetersOf[c] = {} /\ AskersOf[c] = {}
        /\ GreetersOf' = [GreetersOf EXCEPT ![c] = {p}] /\ AskersOf' = AskersOf
    BY <1>0, <1>2, <2>2 DEF GreetersOf, AskersOf
  <2>4. p \in Pipe!Open \ Pipe!Greeting
    BY <1>1 DEF Pipe!Open, Pipe!Greeting, GreetersOf, Greeters, PlaceInv, OpenInv
  <2>5. Pipe!Greet(p, c)
    BY <1>1, <2>3, <2>4 DEF Pipe!Greet
  <2> QED
    BY <1>2, <2>5 DEF Mapped, Pipe!Next
<1>8. CASE req[c] # <<>>
  <2>1. HeadOf(c)' = HeadOf(c)
    BY <1>0, <1>3, <1>4, <1>8 DEF HeadOf
  <2> QED
    BY <1>1, <1>5, <1>6, <2>1, Behind
<1> QED
  BY <1>7, <1>8

(* Nobody but p, who holds the lifecycle lock, is in a handshake with c.   *)
LEMMA OneHandshake ==
  ASSUME IInv, NEW p \in Calls, Greets(p), NEW r \in Calls, Greets(r), on[r] = on[p]
  PROVE  r = p
<1>1. /\ at[p] = on[p] /\ at[r] = on[r]
      /\ Head(life[at[p]]) = p /\ Head(life[at[r]]) = r
  BY Parts, ThreadFacts DEF Greets, OnInv, LifeInv, HasLife
<1> QED
  BY <1>1

(* p, at the head, handshakes: the queue without it is led by one that     *)
(* waits to write its request.                                             *)
LEMMA NextInQueue ==
  ASSUME IInv, NEW p \in Calls, Greets(p), HoldsReq(p)
  PROVE  LET q == Tail(req[on[p]]) IN
         /\ on[p] \in Clients /\ HeadOf(on[p]) = {p} /\ q \in Seq(Calls)
         /\ q # <<>> => /\ Head(q) \in Calls /\ Head(q) # p /\ ~Greets(Head(q))
<1> DEFINE c == on[p]
           q == Tail(req[c])
<1>1. c \in Clients /\ req[c] # <<>> /\ Head(req[c]) = p
  BY Parts, MCPSentinelAssumption DEF HoldsReq, RestType
<1>2. HeadOf(c) = {p} /\ req[c] \in Seq(Calls) /\ Distinct(req[c])
  BY <1>1, Parts DEF HeadOf, ReqType, ReqInv
<1>3. q \in Seq(Calls) /\ \A r : Within(r, q) <=> Within(r, req[c]) /\ r # p
  BY <1>1, <1>2, TailFacts
<1> HIDE DEF q, c
<1>4. ASSUME q # <<>> PROVE Head(q) \in Calls /\ Head(q) # p /\ ~Greets(Head(q))
  <2> DEFINE h == Head(q)
  <2>1. Within(h, q) /\ h \in Calls
    BY <1>3, <1>4, WithinFacts
  <2>2. h # p /\ on[h] = c
    BY <1>1, <1>3, <2>1, Parts DEF ReqInv
  <2> HIDE DEF h
  <2>3. ~Greets(h)
    BY <2>1, <2>2, OneHandshake DEF c
  <2> QED
    BY <2>1, <2>2, <2>3 DEF h
<1> QED
  BY <1>1, <1>2, <1>3, <1>4 DEF q, c

LEMMA InitializedMapped ==
  ASSUME IInv, IInv', PlaceInv, NEW p \in Calls, Initialized(p) PROVE Mapped
<1>4. PICK c : on[p] = c
  OBVIOUS
<1> DEFINE q == Tail(req[c])
           w == Append(q, p)
<1>1. Moves(p, w) /\ UNCHANGED outcome /\ HoldsReq(p) /\ Greets(p) /\ pc'[p] = "notify"
  BY <1>4, InitializedMoves DEF Greets
<1>2. /\ c \in Clients /\ HeadOf(c) = {p} /\ q \in Seq(Calls)
      /\ q # <<>> => Head(q) \in Calls /\ Head(q) # p /\ ~Greets(Head(q))
  BY <1>1, <1>4, NextInQueue
<1> HIDE DEF q
<1>3. w # <<>> /\ Head(w) = IF q = <<>> THEN p ELSE Head(q)
  BY <1>2, AppendFacts
<1> HIDE DEF w
<1>5. HeadOf(c)' = {Head(w)} /\ \A r \in Calls \ {p} : pc'[r] = pc[r]
  BY <1>1, <1>3, <1>4, MovesSpeakers
<1>6. CASE q = <<>>
  BY <1>1, <1>2, <1>3, <1>4, <1>5, <1>6, Behind
<1>7. CASE q # <<>>
  BY <1>1, <1>2, <1>3, <1>4, <1>5, <1>7, StepsBack DEF Greets
<1> QED
  BY <1>6, <1>7

LEMMA NotifiedMapped == ASSUME IInv, IInv', PlaceInv, NEW p \in Calls, Notified(p) PROVE Mapped
<1>1. PICK c : on[p] = c
  OBVIOUS
<1> DEFINE q == Tail(req[c])
           w == Append(q, p)
<1>2. /\ UNCHANGED outcome /\ HoldsReq(p) /\ Greets(p) /\ pc[p] = "notify"
      /\ \/ Moves(p, w) /\ pc'[p] = IF q = <<>> THEN "exchange" ELSE "request"
         \/ Moves(p, q) /\ pc'[p] = "start"
  BY <1>1, NotifiedMoves DEF Greets
<1>3. /\ c \in Clients /\ HeadOf(c) = {p} /\ q \in Seq(Calls)
      /\ q # <<>> => Head(q) \in Calls /\ Head(q) # p /\ ~Greets(Head(q))
  BY <1>1, <1>2, NextInQueue
<1> HIDE DEF q
<1>4. w # <<>> /\ Head(w) = IF q = <<>> THEN p ELSE Head(q)
  BY <1>3, AppendFacts
<1> HIDE DEF w
<1>5. CASE Moves(p, w) /\ q = <<>> /\ pc'[p] = "exchange"
  <2>a. HeadOf(c)' = IF w = <<>> THEN {} ELSE {Head(w)}
    BY <1>1, <1>5, MovesSpeakers
  <2>1. HeadOf(c)' = {p}
    BY <1>4, <1>5, <2>a
  <2> QED
    BY <1>1, <1>2, <1>3, <1>5, <2>1, AsksNow DEF Exchanging
<1>6. CASE q # <<>> /\ (Moves(p, w) \/ Moves(p, q))
  <2>1. HeadOf(c)' = {Head(q)}
    BY <1>1, <1>4, <1>6, MovesSpeakers
  <2>2. Head(q) # p /\ ~Greets(Head(q))
    BY <1>3, <1>6
  <2> QED
    BY <1>1, <1>2, <1>3, <1>6, <2>1, <2>2, StepsBack
<1>7. CASE q = <<>> /\ Moves(p, q)
  <2>1. HeadOf(c)' = {}
    BY <1>1, <1>7, MovesSpeakers
  <2> QED
    BY <1>1, <1>2, <1>3, <1>7, <2>1, StepsBack
<1> QED
  BY <1>2, <1>5, <1>6, <1>7

LEMMA HandshakeFailsMapped ==
  ASSUME IInv, IInv', PlaceInv, NEW p \in Calls, HandshakeFails(p) PROVE Mapped
<1>1. PICK c : on[p] = c
  OBVIOUS
<1> DEFINE w == Without(req[c], p)
<1>2. /\ Moves(p, w) /\ UNCHANGED outcome /\ Greets(p) /\ pc'[p] = "stopping-failed"
  BY <1>1, HandshakeFailsMoves DEF Greets
<1>3. c \in Clients /\ req[c] \in Seq(Calls) /\ Distinct(req[c])
  BY <1>1, <1>2, Parts DEF Moves, ReqType, ReqInv
<1>4. /\ w \in Seq(Calls) /\ \A r : Within(r, w) <=> Within(r, req[c]) /\ r # p
      /\ req[c] # <<>> /\ Head(req[c]) # p => w # <<>> /\ Head(w) = Head(req[c])
      /\ req[c] = <<>> => w = <<>>
  BY <1>3, WithoutFacts
<1> HIDE DEF w
<1>5. HeadOf(c)' = IF w = <<>> THEN {} ELSE {Head(w)}
  BY <1>1, <1>2, MovesSpeakers
<1>6. CASE p \in HeadOf(c)
  <2>1. HeadOf(c) = {p}
    BY <1>6 DEF HeadOf
  <2>2. ASSUME NEW r \in HeadOf(c)' PROVE r # p /\ ~Greets(r)
    <3>1. w # <<>> /\ r = Head(w)
      BY <1>5
    <3>2. Within(r, w) /\ r \in Calls
      BY <1>4, <3>1, WithinFacts
    <3>3. r # p /\ on[r] = c
      BY <1>3, <1>4, <3>2, Parts DEF ReqInv
    <3> QED
      BY <1>1, <1>2, <3>2, <3>3, OneHandshake
  <2> QED
    BY <1>1, <1>2, <2>1, <2>2, StepsBack
<1>7. CASE p \notin HeadOf(c)
  <2>1. HeadOf(c)' = HeadOf(c)
    BY <1>4, <1>5, <1>7 DEF HeadOf
  <2> QED
    BY <1>1, <1>2, <1>7, <2>1, Behind
<1> QED
  BY <1>6, <1>7

LEMMA BeginRequestMapped ==
  ASSUME IInv, IInv', PlaceInv, NEW p \in Calls, BeginRequest(p) PROVE Mapped
<1>1. PICK c : on[p] = c
  OBVIOUS
<1>2. /\ Moves(p, req[c]) /\ UNCHANGED outcome /\ HoldsReq(p)
      /\ pc[p] = "request" /\ pc'[p] = "exchange"
  BY <1>1, BeginRequestMoves
<1>3. req[c] # <<>> /\ Head(req[c]) = p
  BY <1>1, <1>2 DEF HoldsReq
<1>4. HeadOf(c) = {p} /\ HeadOf(c)' = {p}
  <2>1. HeadOf(c)' = IF req[c] = <<>> THEN {} ELSE {Head(req[c])}
    BY <1>1, <1>2, MovesSpeakers
  <2> QED
    BY <1>3, <2>1 DEF HeadOf
<1> QED
  BY <1>1, <1>2, <1>4, AsksNow DEF Exchanging

LEMMA PassStartMapped ==
  ASSUME IInv, IInv', PlaceInv, NEW p \in Calls, PassStart(p) PROVE Mapped
<1>1. PICK c : on[p] = c
  OBVIOUS
<1> DEFINE q == req[c]
           w == Append(q, p)
<1>2. /\ UNCHANGED outcome /\ pc[p] = "start"
      /\ \/ Moves(p, w) /\ pc'[p] = IF q = <<>> THEN "exchange" ELSE "request"
         \/ Moves(p, q) /\ pc'[p] = "start"
  BY <1>1, PassStartMoves
<1>3. c \in Clients /\ q \in Seq(Calls) /\ HeadOf(c) = IF q = <<>> THEN {} ELSE {Head(q)}
  BY <1>1, <1>2, Parts DEF Moves, ReqType, HeadOf
<1>4. p \notin HeadOf(c)
  BY <1>2, <1>3, Speakers DEF SpeakersAre, Requesting
<1> HIDE DEF q
<1>5. w # <<>> /\ Head(w) = IF q = <<>> THEN p ELSE Head(q)
  BY <1>3, AppendFacts
<1> HIDE DEF w
<1>6. CASE Moves(p, w) /\ q = <<>> /\ pc'[p] = "exchange"
  <2>1. HeadOf(c)' = {p} /\ HeadOf(c) = {}
    BY <1>1, <1>3, <1>5, <1>6, MovesSpeakers
  <2> QED
    BY <1>1, <1>2, <1>6, <2>1, AsksNow DEF Exchanging
<1>7. CASE Moves(p, q) \/ (Moves(p, w) /\ q # <<>>)
  <2>1. HeadOf(c)' = HeadOf(c)
    BY <1>1, <1>3, <1>5, <1>7, MovesSpeakers
  <2> QED
    BY <1>1, <1>2, <1>4, <1>7, <2>1, Behind
<1> QED
  BY <1>2, <1>6, <1>7

(* Every step on the locks and pipes is one of SerialPipe, or nothing to   *)
(* it.                                                                     *)
LEMMA PipeStep == ASSUME IInv, IInv', PlaceInv, [Next]_vars PROVE Mapped
<1>1. ASSUME NEW p \in Calls, GetOrStart(p) \/ CallStep(p) \/ CancelCall(p) PROVE Mapped
  <2>1. Quiet => Mapped
    BY QuietPipe DEF Mapped
  <2>2. Ends(p) => Mapped
    BY EndsMapped
  <2> QED
    BY <1>1, <2>1, <2>2, CallSteps, SpawnedMapped, InitializedMapped, NotifiedMapped,
       HandshakeFailsMapped, BeginRequestMapped, PassStartMapped
<1>2. CASE \/ ReaperWakes \/ ReaperStep \/ StopAll \/ ShutdownStep
           \/ \E c \in Clients : Exit(c) \/ BecomeIdle(c)
           \/ UNCHANGED vars
  BY <1>2, QuietOtherSteps, QuietPipe DEF Mapped
<1> QED
  BY <1>1, <1>2 DEF Next

(* The request lock makes of a process, whatever happens to it, something  *)
(* one call at a time speaks to, and of a reply something that settles the *)
(* call that has asked and no other (start, _perform_request).             *)
THEOREM PipesAreSerial == Spec => OneSpeaks
<1>1. Init => Pipe!Init
  BY ThreadFacts DEF Init, Pipe!Init, GreetersOf, AskersOf, Greeters, Askers, Exchanging
<1>2. IInv /\ IInv' /\ PlaceInv /\ [Next]_vars => [Pipe!Next]_(Pipe!vars)
  BY PipeStep DEF Mapped
<1> QED
  BY <1>1, <1>2, WholeInv, PTL DEF Spec, OneSpeaks, Pipe!Spec
=============================================================================
