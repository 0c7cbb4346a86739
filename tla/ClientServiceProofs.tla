------------------------- MODULE ClientServiceProofs -------------------------
(***************************************************************************)
(* The client list and the batches, for any number of connections, threads *)
(* and descriptors: types, count and list, ranges and claims, and coverage *)
(* of the list in a tick; and the descriptors: no listed client's is       *)
(* closed for another, although connection_close closes a number it has    *)
(* given up already.                                                       *)
(***************************************************************************)
EXTENDS ClientService, FiniteSetTheorems, SequenceTheorems, WellFoundedInduction, TLAPS

\* Where a thread is in update_client.
Working == {"update", "read", "handle", "handleOpen", "handled", "timeout",
            "lock", "stream", "descriptor", "exiting"}

ListTypes ==
  /\ main \in MainPlaces
  /\ clients \in Seq(Conns)
  /\ live \subseteq Conns
  /\ index \in Nat
  /\ pc \in [Batches -> Places]
  /\ first \in [Batches -> Conns \cup {NoConn}] /\ amount \in [Batches -> Nat]
  /\ rest \in [Batches -> Seq(Conns)]
  /\ served \subseteq Conns

Distinct(s) == \A j, k \in 1 .. Len(s) : s[j] = s[k] => j = k

ListSound == Distinct(clients) /\ ToSet(clients) \subseteq live /\ CountMatches

\* What a thread has taken off the list is still listed, but for the client it is updating.
RestSound ==
  \A i \in Batches :
    /\ pc[i] \in Working <=> rest[i] # <<>>
    /\ Distinct(rest[i])
    /\ \A j \in 2 .. Len(rest[i]) : rest[i][j] \in ToSet(clients)
    /\ Closing(i) => Current(i) \notin ToSet(clients)

\* A batch's clients lie together in the list, wherever others have shrunk it.
QueuedSound ==
  \A i \in Batches : pc[i] = "queued" /\ amount[i] > 0 =>
    \E p \in 1 .. Len(clients) : clients[p] = first[i] /\ p + amount[i] - 1 <= Len(clients)

\* The entries before position n.
Upto(n) == {clients[k] : k \in 1 .. n}

\* How many clients the first n batches are sized for.
Dispatched(n) == IF n = ThreadCount THEN Len(clients) ELSE n * (Len(clients) \div ThreadCount)

NoneDropped == \A i \in Batches : pc[i] # "dropped"

\* The clients that have been updated, or that some thread has claimed.
Covered == served \cup UNION {Claim(i) : i \in Batches}

\* The first n batches are handed out, and take clients before index only.
ServeSound(n) ==
  /\ \A k \in Batches : pc[k] = "none" <=> k >= n
  /\ index <= Dispatched(n)
  /\ \A i \in Batches : Claim(i) \subseteq Upto(index)
  /\ NoneDropped => index = Dispatched(n) /\ Upto(index) \subseteq Covered

PhaseSound ==
  /\ main = "accept" => \A i \in Batches : pc[i] = "none"
  /\ main = "serve" => \E n \in 0 .. ThreadCount : ServeSound(n)
  /\ main # "serve" => index = 0
  /\ main = "wait" => \A i \in Batches : pc[i] # "none"
  /\ main = "clock" => \A i \in Batches : pc[i] \in {"done", "dropped"}
  /\ main \in {"wait", "clock"} /\ NoneDropped => ToSet(clients) \subseteq Covered

\* Who has been served is nobody's any more, and whose turn comes is still a client.
OnceSound ==
  /\ \A i \in Batches : Claim(i) \cap served = {}
  /\ \A i \in Batches : pc[i] = "update" => Current(i) \in ToSet(clients)
  /\ main = "accept" => served = {}
  /\ main = "serve" => served \subseteq Upto(index)

ListInv ==
  ListTypes /\ ListSound /\ RestSound /\ NoSharing /\ QueuedSound /\ PhaseSound /\ OnceSound

-----------------------------------------------------------------------------
(* A place in a list.                                                       *)

LEMMA ListLength ==
  ASSUME ListTypes
  PROVE  Len(clients) \in Nat /\ DOMAIN clients = 1 .. Len(clients)
BY LenProperties DEF ListTypes

\* A connection is listed in one place.
LEMMA PositionOf ==
  ASSUME ListTypes, Distinct(clients), NEW k \in 1 .. Len(clients)
  PROVE  Position(clients[k]) = k
<1>1. DOMAIN clients = 1 .. Len(clients)
  BY ListLength
<1> QED BY <1>1 DEF Position, Distinct

LEMMA ThreadCountPositive == ThreadCount \in Nat /\ ThreadCount > 0
BY ThreadCountAssumption

-----------------------------------------------------------------------------
(* Claims.                                                                 *)

\* What a batch that is queued claims, once its first client is found.
LEMMA QueuedClaim ==
  ASSUME ListTypes, Distinct(clients), NEW i \in Batches, pc[i] = "queued",
         NEW p \in 1 .. Len(clients), clients[p] = first[i],
         p + amount[i] - 1 <= Len(clients)
  PROVE  Claim(i) = {clients[k] : k \in p .. p + amount[i] - 1}
<1>1. Position(first[i]) = p
  BY PositionOf
<1>2. DOMAIN clients = 1 .. Len(clients) /\ Len(clients) \in Nat
  BY ListLength
<1>3. amount[i] \in Nat
  BY DEF ListTypes
<1>4. {k \in DOMAIN clients : amount[i] > 0 /\ k >= p /\ k < p + amount[i]} = p .. p + amount[i] - 1
  BY <1>2, <1>3
<1> QED BY <1>1, <1>4 DEF Claim

LEMMA EmptyClaim ==
  ASSUME ListTypes, NEW i \in Batches, pc[i] = "queued", amount[i] = 0
  PROVE  Claim(i) = {}
BY DEF Claim

LEMMA IdleClaim ==
  ASSUME ListTypes, RestSound, NEW i \in Batches, pc[i] \notin Working, pc[i] # "queued"
  PROVE  Claim(i) = {} /\ rest[i] = <<>>
<1>1. rest[i] = <<>>
  BY DEF RestSound
<1>2. ToSet(<<>>) = {}
  BY DEF ToSet
<1> QED BY <1>1, <1>2 DEF Claim

LEMMA WorkingClaim ==
  ASSUME ListTypes, RestSound, NEW i \in Batches, pc[i] \in Working
  PROVE  /\ Claim(i) = {rest[i][j] : j \in 1 .. Len(rest[i])}
         /\ Len(rest[i]) \in Nat /\ Len(rest[i]) > 0
         /\ rest[i][1] = Current(i) /\ Current(i) \in Claim(i)
         /\ Current(i) \in Conns
<1>1. rest[i] \in Seq(Conns) /\ rest[i] # <<>>
  BY DEF ListTypes, RestSound
<1>2. Len(rest[i]) \in Nat /\ Len(rest[i]) > 0 /\ DOMAIN rest[i] = 1 .. Len(rest[i])
  BY <1>1, EmptySeq, LenProperties
<1>3. pc[i] # "queued"
  BY DEF Working
<1>4. rest[i][1] = Current(i) /\ rest[i][1] \in Conns
  BY <1>1, <1>2, HeadTailProperties, ElementOfSeq DEF Current
<1> QED BY <1>2, <1>3, <1>4 DEF Claim, ToSet

\* A batch claims what it claimed unless something it is about has changed.
LEMMA ClaimKept ==
  ASSUME NEW i \in Batches, clients' = clients,
         first'[i] = first[i], amount'[i] = amount[i], rest'[i] = rest[i],
         pc[i] = "queued" <=> pc'[i] = "queued"
  PROVE  Claim(i)' = Claim(i)
BY DEF Claim, Position

\* Claims are clients.
LEMMA ClaimConns ==
  ASSUME ListTypes, NEW i \in Batches
  PROVE  Claim(i) \subseteq Conns
<1>1. rest[i] \in Seq(Conns) /\ clients \in Seq(Conns)
  BY DEF ListTypes
<1>2. \A j \in DOMAIN rest[i] : rest[i][j] \in Conns
  BY <1>1, LenProperties, ElementOfSeq
<1>3. \A j \in DOMAIN clients : clients[j] \in Conns
  BY <1>1, LenProperties, ElementOfSeq
<1> QED BY <1>2, <1>3 DEF Claim, ToSet

-----------------------------------------------------------------------------
(* Steps that leave the list and the dispatch alone.                       *)

\* The tick's phase is sound after a step that lets threads move on and cover no less.
LEMMA PhaseKept ==
  ASSUME ListTypes, PhaseSound, main' = main, clients' = clients, index' = index,
         \A i \in Batches : /\ pc[i] = "none" <=> pc'[i] = "none"
                            /\ pc[i] = "dropped" <=> pc'[i] = "dropped"
                            /\ pc[i] = "done" => pc'[i] = "done"
                            /\ Claim(i)' \subseteq Claim(i),
         Covered \subseteq Covered'
  PROVE  PhaseSound'
<1>1. NoneDropped' <=> NoneDropped
  BY DEF NoneDropped
<1>2. ASSUME NEW n \in 0 .. ThreadCount, ServeSound(n) PROVE ServeSound(n)'
  <2>1. Dispatched(n)' = Dispatched(n) /\ Upto(index)' = Upto(index)
    BY DEF Dispatched, Upto
  <2>2. \A k \in Batches : pc'[k] = "none" <=> k >= n
    BY <1>2 DEF ServeSound
  <2>3. \A i \in Batches : Claim(i)' \subseteq Upto(index)
    BY <1>2 DEF ServeSound
  <2>4. NoneDropped' => index' = Dispatched(n) /\ Upto(index) \subseteq Covered'
    BY <1>1, <1>2 DEF ServeSound
  <2> QED BY <1>2, <2>1, <2>2, <2>3, <2>4 DEF ServeSound
<1>3. main' = "serve" => \E n \in 0 .. ThreadCount : ServeSound(n)'
  BY <1>2 DEF PhaseSound
<1>4. /\ main' = "accept" => \A i \in Batches : pc'[i] = "none"
      /\ main' # "serve" => index' = 0
      /\ main' = "wait" => \A i \in Batches : pc'[i] # "none"
      /\ main' = "clock" => \A i \in Batches : pc'[i] \in {"done", "dropped"}
  BY DEF PhaseSound
<1>5. main' \in {"wait", "clock"} /\ NoneDropped' => ToSet(clients') \subseteq Covered'
  BY <1>1 DEF PhaseSound
<1> QED BY <1>3, <1>4, <1>5 DEF PhaseSound

\* One thread moves on within update_client, or none does.
Quiet(i) ==
  \/ pc' = pc
  \/ \E place \in Working :
       /\ pc[i] \in Working /\ Goto(i, place) /\ place # "update"
       /\ place \in {"stream", "descriptor"} => Closing(i)

\* What that means for each thread.
MovesWithin(k) ==
  \/ pc'[k] = pc[k]
  \/ /\ pc[k] \in Working /\ pc'[k] \in Working /\ pc'[k] # "update"
     /\ pc'[k] \in {"stream", "descriptor"} => Closing(k)

LEMMA QuietPlaces ==
  ASSUME ListTypes, NEW i \in Batches, Quiet(i)
  PROVE  /\ pc' \in [Batches -> Places]
         /\ \A k \in Batches : MovesWithin(k)
<1>1. CASE pc' = pc
  BY <1>1 DEF ListTypes, MovesWithin
<1>2. ASSUME NEW place \in Working, pc[i] \in Working, Goto(i, place), place # "update",
             place \in {"stream", "descriptor"} => Closing(i)
      PROVE  /\ pc' \in [Batches -> Places]
             /\ \A k \in Batches : MovesWithin(k)
  <2>1. place \in Places
    BY DEF Working, Places
  <2>2. pc' = [pc EXCEPT ![i] = place] /\ pc \in [Batches -> Places]
    BY <1>2 DEF Goto, ListTypes
  <2> QED BY <1>2, <2>1, <2>2 DEF MovesWithin
<1> QED BY <1>1, <1>2 DEF Quiet

LEMMA QuietStep ==
  ASSUME ListInv, NEW i \in Batches, Quiet(i),
         UNCHANGED <<main, listVars, index, batchVars, rest, served>>,
         live' \subseteq Conns, ToSet(clients) \subseteq live'
  PROVE  ListInv'
<1> USE DEF listVars, batchVars
<1>1. ListTypes /\ ListSound /\ RestSound /\ NoSharing /\ QueuedSound /\ PhaseSound /\ OnceSound
  BY DEF ListInv
<1>2. \A k \in Batches : MovesWithin(k)
  BY <1>1, QuietPlaces
<1>3. ListTypes'
  BY <1>1, QuietPlaces DEF ListTypes
<1>4. ListSound'
  BY <1>1 DEF ListSound, Distinct, ToSet, CountMatches
<1>5. \A k \in Batches : Claim(k)' = Claim(k)
  BY <1>2, ClaimKept DEF Working, MovesWithin
<1>6. RestSound'
  <2> SUFFICES ASSUME NEW k \in Batches
               PROVE  /\ pc'[k] \in Working <=> rest[k] # <<>>
                      /\ Distinct(rest[k])
                      /\ \A j \in 2 .. Len(rest[k]) : rest[k][j] \in ToSet(clients)
                      /\ Closing(k)' => Current(k) \notin ToSet(clients)
    BY DEF RestSound, Distinct, ToSet, Current
  <2>1. pc'[k] \in Working <=> pc[k] \in Working
    BY <1>2 DEF MovesWithin
  <2>2. Closing(k)' => Closing(k)
    BY <1>2 DEF Closing, MovesWithin
  <2> QED BY <1>1, <2>1, <2>2 DEF RestSound
<1>7. NoSharing'
  BY <1>1, <1>5 DEF NoSharing
<1>8. QueuedSound'
  BY <1>1, <1>2 DEF QueuedSound, Working, MovesWithin
<1>9. PhaseSound'
  <2>1. \A k \in Batches : /\ pc[k] = "none" <=> pc'[k] = "none"
                           /\ pc[k] = "dropped" <=> pc'[k] = "dropped"
                           /\ pc[k] = "done" => pc'[k] = "done"
                           /\ Claim(k)' \subseteq Claim(k)
    BY <1>2, <1>5 DEF Working, MovesWithin
  <2>2. Covered \subseteq Covered'
    BY <1>5 DEF Covered
  <2> QED BY <1>1, <2>1, <2>2, PhaseKept
<1>10. OnceSound'
  <2>1. \A k \in Batches : Claim(k)' \cap served' = {}
    BY <1>1, <1>5 DEF OnceSound
  <2>2. \A k \in Batches : pc'[k] = "update" => Current(k)' \in ToSet(clients)'
    BY <1>1, <1>2 DEF OnceSound, MovesWithin, Current, ToSet
  <2> QED BY <1>1, <2>1, <2>2 DEF OnceSound, Upto
<1> QED BY <1>3, <1>4, <1>6, <1>7, <1>8, <1>9, <1>10 DEF ListInv

\* A thread is done with a client, which counts as served.
LEMMA AdvanceStep ==
  ASSUME ListInv, NEW i \in Batches, pc[i] \in Working, NextClient(i),
         UNCHANGED <<main, listVars, index, batchVars>>,
         live' \subseteq Conns, ToSet(clients) \subseteq live'
  PROVE  ListInv'
<1> USE DEF listVars, batchVars
<1> DEFINE r == rest[i]
           t == Tail(rest[i])
<1>1. ListTypes /\ ListSound /\ RestSound /\ NoSharing /\ QueuedSound /\ PhaseSound /\ OnceSound
  BY DEF ListInv
<1>2. /\ Claim(i) = {r[j] : j \in 1 .. Len(r)}
      /\ Len(r) \in Nat /\ Len(r) > 0 /\ r[1] = Current(i)
      /\ Current(i) \in Claim(i) /\ Current(i) \in Conns
  BY <1>1, WorkingClaim
<1>3. r \in Seq(Conns) /\ r # <<>>
  BY <1>1 DEF ListTypes, RestSound
<1>4. /\ t \in Seq(Conns) /\ Len(t) = Len(r) - 1 /\ Len(t) \in Nat
      /\ \A j \in 1 .. Len(t) : t[j] = r[j + 1]
  BY <1>3, HeadTailProperties, LenProperties
<1>5. DOMAIN t = 1 .. Len(t)
  BY <1>4, LenProperties
<1>6. /\ rest' = [rest EXCEPT ![i] = t] /\ served' = served \cup {Current(i)}
      /\ pc' = [pc EXCEPT ![i] = IF Len(r) = 1 THEN "done" ELSE "update"]
  BY DEF NextClient, Goto
<1>7. /\ rest'[i] = t /\ \A k \in Batches \ {i} : rest'[k] = rest[k]
      /\ pc'[i] = (IF Len(r) = 1 THEN "done" ELSE "update")
      /\ \A k \in Batches \ {i} : pc'[k] = pc[k]
      /\ rest' \in [Batches -> Seq(Conns)] /\ pc' \in [Batches -> Places]
  BY <1>1, <1>4, <1>6 DEF ListTypes, Places
<1>8. ListTypes'
  BY <1>1, <1>2, <1>6, <1>7 DEF ListTypes
<1>9. ListSound'
  BY <1>1 DEF ListSound, Distinct, ToSet, CountMatches
<1>10. \A k \in Batches \ {i} : Claim(k)' = Claim(k)
  BY <1>7, ClaimKept
<1>11. Claim(i)' = {t[j] : j \in 1 .. Len(t)}
  BY <1>5, <1>7 DEF Claim, ToSet
<1>12. Claim(i)' \subseteq Claim(i) /\ Claim(i) \subseteq Claim(i)' \cup {Current(i)}
  <2>1. \A j \in 1 .. Len(t) : j + 1 \in 1 .. Len(r)
    BY <1>2, <1>4
  <2>2. \A j \in 1 .. Len(r) : j = 1 \/ j - 1 \in 1 .. Len(t)
    BY <1>2, <1>4
  <2>3. \A j \in 1 .. Len(r) : j = 1 \/ r[j] = t[j - 1]
    BY <1>2, <1>4, <2>2
  <2> HIDE DEF r, t
  <2>4. Claim(i)' \subseteq Claim(i)
    BY <1>2, <1>4, <1>11, <2>1
  <2>5. ASSUME NEW x \in Claim(i) PROVE x \in Claim(i)' \cup {Current(i)}
    <3>1. PICK j \in 1 .. Len(r) : x = r[j]
      BY <1>2
    <3> QED BY <3>1, <2>2, <2>3, <1>2, <1>11
  <2> QED BY <2>4, <2>5
<1>13. RestSound'
  <2> SUFFICES ASSUME NEW k \in Batches
               PROVE  /\ pc'[k] \in Working <=> rest'[k] # <<>>
                      /\ Distinct(rest'[k])
                      /\ \A j \in 2 .. Len(rest'[k]) : rest'[k][j] \in ToSet(clients)
                      /\ Closing(k)' => Current(k)' \notin ToSet(clients)
    BY DEF RestSound, Distinct, ToSet
  <2>1. CASE k # i
    BY <1>1, <1>7, <2>1 DEF RestSound, Closing, Current
  <2>2. CASE k = i
    <3>1. pc'[i] \in Working <=> t # <<>>
      <4>1. t = <<>> <=> Len(t) = 0
        BY <1>4, EmptySeq
      <4>2. Len(r) = 1 <=> Len(t) = 0
        BY <1>2, <1>4
      <4>3. pc'[i] \in Working <=> Len(r) # 1
        BY <1>7 DEF Working
      <4> QED BY <4>1, <4>2, <4>3
    <3>2. Distinct(r) /\ \A j \in 2 .. Len(r) : r[j] \in ToSet(clients)
      BY <1>1 DEF RestSound
    <3>3. \A j \in 1 .. Len(t) : j + 1 \in 2 .. Len(r) /\ j + 1 \in 1 .. Len(r)
      BY <1>2, <1>4
    <3>4. \A j \in 2 .. Len(t) : j \in 1 .. Len(t)
      BY <1>4
    <3>5. ~Closing(i)'
      BY <1>7 DEF Closing
    <3> HIDE DEF r, t
    <3>6. \A j \in 2 .. Len(t) : t[j] \in ToSet(clients)
      BY <1>4, <3>2, <3>3, <3>4
    <3>7. Distinct(t)
      <4> SUFFICES ASSUME NEW j \in 1 .. Len(t), NEW m \in 1 .. Len(t), t[j] = t[m]
                   PROVE  j = m
        BY DEF Distinct
      <4>1. j + 1 = m + 1
        BY <1>4, <3>2, <3>3 DEF Distinct
      <4> QED BY <4>1, <1>4
    <3> QED BY <1>7, <2>2, <3>1, <3>5, <3>6, <3>7
  <2> QED BY <2>1, <2>2
<1>14. NoSharing'
  <2>1. \A k \in Batches : Claim(k)' \subseteq Claim(k)
    BY <1>10, <1>12
  <2> QED BY <1>1, <2>1 DEF NoSharing
<1>15. QueuedSound'
  BY <1>1, <1>7 DEF QueuedSound
<1>16. PhaseSound'
  <2>1. \A k \in Batches : /\ pc[k] = "none" <=> pc'[k] = "none"
                           /\ pc[k] = "dropped" <=> pc'[k] = "dropped"
                           /\ pc[k] = "done" => pc'[k] = "done"
                           /\ Claim(k)' \subseteq Claim(k)
    BY <1>7, <1>10, <1>12 DEF Working
  <2>2. Covered \subseteq Covered'
    BY <1>6, <1>10, <1>12 DEF Covered
  <2> QED BY <1>1, <2>1, <2>2, PhaseKept
<1>17. OnceSound'
  <2>1. Distinct(r) /\ \A j \in 2 .. Len(r) : r[j] \in ToSet(clients)
    BY <1>1 DEF RestSound
  <2>2. \A j \in 1 .. Len(t) : j + 1 \in 1 .. Len(r) /\ j + 1 \in 2 .. Len(r) /\ 1 \in 1 .. Len(r) /\ j + 1 # 1
    BY <1>2, <1>4
  <2>3. Current(i) \notin Claim(i)'
    <3> HIDE DEF r, t
    <3> QED BY <1>2, <1>4, <1>11, <2>1, <2>2 DEF Distinct
  <2>4. \A k \in Batches : Claim(k)' \cap served' = {}
    <3>1. \A k \in Batches \ {i} : Current(i) \notin Claim(k)
      BY <1>1, <1>2 DEF NoSharing
    <3>2. \A k \in Batches : Current(i) \notin Claim(k)' /\ Claim(k)' \subseteq Claim(k)
      BY <1>10, <1>12, <2>3, <3>1
    <3> QED BY <1>1, <1>6, <3>2 DEF OnceSound
  <2>5. \A k \in Batches : pc'[k] = "update" => Current(k)' \in ToSet(clients)
    <3>1. ASSUME NEW k \in Batches \ {i}, pc'[k] = "update" PROVE Current(k)' \in ToSet(clients)
      BY <1>1, <1>7, <3>1 DEF OnceSound, Current
    <3>2. ASSUME pc'[i] = "update" PROVE Current(i)' \in ToSet(clients)
      <4>1. Len(r) # 1
        BY <1>7, <3>2
      <4>2. 1 \in 1 .. Len(t) /\ t # <<>>
        <5> HIDE DEF r, t
        <5>1. Len(t) # 0 /\ Len(t) \in Nat
          BY <1>2, <1>4, <4>1
        <5>2. t # <<>>
          BY <5>1, EmptySeq
        <5> QED BY <5>1, <5>2
      <4>3. Current(i)' = t[1]
        BY <1>4, <1>7, <4>2, HeadTailProperties DEF Current
      <4>4. t[1] = r[1 + 1] /\ 1 + 1 \in 2 .. Len(r)
        <5> HIDE DEF r, t
        <5> QED BY <1>4, <2>2, <4>2
      <4> QED BY <2>1, <4>3, <4>4
    <3> QED BY <3>1, <3>2
  <2>6. main = "serve" => served' \subseteq Upto(index)
    <3> SUFFICES ASSUME main = "serve" PROVE served' \subseteq Upto(index)
      OBVIOUS
    <3>1. Claim(i) \subseteq Upto(index)
      BY <1>1 DEF PhaseSound, ServeSound
    <3> QED BY <1>1, <1>2, <1>6, <3>1 DEF OnceSound
  <2>7. main # "accept"
    BY <1>1 DEF PhaseSound, Working
  <2>8. Upto(index)' = Upto(index) /\ ToSet(clients)' = ToSet(clients)
    BY DEF Upto, ToSet
  <2> QED BY <2>4, <2>5, <2>6, <2>7, <2>8 DEF OnceSound
<1> QED BY <1>8, <1>9, <1>13, <1>14, <1>15, <1>16, <1>17 DEF ListInv

-----------------------------------------------------------------------------
(* A batch begins: what it claimed by its range it now claims by its copy. *)

\* A step that changes one thread's place and copy, but no claim.
LEMMA SameClaimsStep ==
  ASSUME ListInv, NEW i \in Batches, NEW place \in Places, NEW r \in Seq(Conns),
         pc[i] = "queued", place \notin {"none", "queued", "dropped", "stream", "descriptor"},
         Goto(i, place), rest' = [rest EXCEPT ![i] = r], Claim(i)' = Claim(i),
         place \in Working <=> r # <<>>, Distinct(r),
         \A j \in 1 .. Len(r) : r[j] \in ToSet(clients),
         UNCHANGED <<main, listVars, live, index, batchVars, served>>
  PROVE  ListInv'
<1> USE DEF listVars, batchVars
<1>1. ListTypes /\ ListSound /\ RestSound /\ NoSharing /\ QueuedSound /\ PhaseSound /\ OnceSound
  BY DEF ListInv
<1>2. /\ rest'[i] = r /\ \A k \in Batches \ {i} : rest'[k] = rest[k]
      /\ pc'[i] = place /\ \A k \in Batches \ {i} : pc'[k] = pc[k]
      /\ rest' \in [Batches -> Seq(Conns)] /\ pc' \in [Batches -> Places]
  BY <1>1 DEF ListTypes, Goto
<1>3. ListTypes'
  BY <1>1, <1>2 DEF ListTypes
<1>4. ListSound'
  BY <1>1 DEF ListSound, Distinct, ToSet, CountMatches
<1>5. \A k \in Batches : Claim(k)' = Claim(k)
  <2>1. \A k \in Batches \ {i} : Claim(k)' = Claim(k)
    BY <1>2, ClaimKept
  <2> QED BY <2>1
<1>6. RestSound'
  <2> SUFFICES ASSUME NEW k \in Batches
               PROVE  /\ pc'[k] \in Working <=> rest'[k] # <<>>
                      /\ Distinct(rest'[k])
                      /\ \A j \in 2 .. Len(rest'[k]) : rest'[k][j] \in ToSet(clients)
                      /\ Closing(k)' => Current(k)' \notin ToSet(clients)
    BY DEF RestSound, Distinct, ToSet
  <2>1. CASE k # i
    BY <1>1, <1>2, <2>1 DEF RestSound, Closing, Current
  <2>2. CASE k = i
    <3>1. \A j \in 2 .. Len(r) : j \in 1 .. Len(r)
      BY LenProperties
    <3> QED BY <1>2, <2>2, <3>1 DEF Closing
  <2> QED BY <2>1, <2>2
<1>7. NoSharing'
  BY <1>1, <1>5 DEF NoSharing
<1>8. QueuedSound'
  BY <1>1, <1>2 DEF QueuedSound
<1>9. PhaseSound'
  <2>1. \A k \in Batches : /\ pc[k] = "none" <=> pc'[k] = "none"
                           /\ pc[k] = "dropped" <=> pc'[k] = "dropped"
                           /\ pc[k] = "done" => pc'[k] = "done"
                           /\ Claim(k)' \subseteq Claim(k)
    BY <1>2, <1>5
  <2>2. Covered \subseteq Covered'
    BY <1>5 DEF Covered
  <2> QED BY <1>1, <2>1, <2>2, PhaseKept
<1>10. OnceSound'
  <2>1. \A k \in Batches : Claim(k)' \cap served' = {}
    BY <1>1, <1>5 DEF OnceSound
  <2>2. ASSUME NEW k \in Batches, pc'[k] = "update" PROVE Current(k)' \in ToSet(clients)'
    <3>1. CASE k # i
      BY <1>1, <1>2, <2>2, <3>1 DEF OnceSound, Current, ToSet
    <3>2. CASE k = i
      <4>1. r # <<>>
        BY <1>2, <2>2, <3>2 DEF Working
      <4>2. 1 \in 1 .. Len(r) /\ Head(r) = r[1]
        BY <4>1, EmptySeq, LenProperties, HeadTailProperties
      <4> QED BY <1>2, <3>2, <4>2 DEF Current, ToSet
    <3> QED BY <3>1, <3>2
  <2> QED BY <1>1, <2>1, <2>2 DEF OnceSound, Upto
<1> QED BY <1>3, <1>4, <1>6, <1>7, <1>8, <1>9, <1>10 DEF ListInv

LEMMA StartStep ==
  ASSUME ListInv, NEW i \in Batches, StartBatch(i)
  PROVE  ListInv'
<1> USE DEF listVars, batchVars
<1>1. ListTypes /\ ListSound /\ RestSound /\ QueuedSound
  BY DEF ListInv
<1>2. pc[i] = "queued" /\ rest[i] = <<>> /\ amount[i] \in Nat
  <2>1. pc[i] = "queued"
    BY DEF StartBatch, At
  <2> QED BY <1>1, <2>1 DEF RestSound, ListTypes, Working
<1>3. UNCHANGED <<main, clients, client_count, live, index, first, amount, served>>
  BY DEF StartBatch, connVars
<1>4. CASE amount[i] = 0
  <2>1. Goto(i, "done") /\ rest' = [rest EXCEPT ![i] = <<>>]
    BY <1>1, <1>2, <1>4 DEF StartBatch, ListTypes
  <2>2. pc'[i] = "done" /\ rest'[i] = <<>>
    BY <1>1, <2>1 DEF Goto, ListTypes
  <2>3. ToSet(<<>>) = {} /\ Distinct(<<>>) /\ <<>> \in Seq(Conns)
    BY DEF ToSet, Distinct
  <2>4. Claim(i)' = Claim(i)
    BY <1>1, <1>2, <1>4, <2>2, <2>3, EmptyClaim DEF Claim
  <2>5. "done" \in Places /\ "done" \notin Working
    BY DEF Places, Working
  <2>6. \A j \in 1 .. Len(<<>>) : <<>>[j] \in ToSet(clients)
    OBVIOUS
  <2> QED BY <1>2, <1>3, <2>1, <2>3, <2>4, <2>5, <2>6, SameClaimsStep
<1>5. CASE amount[i] > 0
  <2>1. PICK p \in 1 .. Len(clients) : /\ clients[p] = first[i]
                                       /\ p + amount[i] - 1 <= Len(clients)
    BY <1>1, <1>2, <1>5 DEF QueuedSound
  <2>2. PICK n : n = Len(clients)
    OBVIOUS
  <2>3. PICK q : q = p + amount[i] - 1
    OBVIOUS
  <2>4. n \in Nat /\ p \in 1 .. n /\ q \in p .. n /\ amount[i] = q - p + 1
    BY <1>1, <1>2, <1>5, <2>1, <2>2, <2>3, ListLength
  <2>5. clients \in Seq(Conns) /\ Distinct(clients) /\ \A j \in 1 .. n : clients[j] \in Conns
    BY <1>1, <2>2, ElementOfSeq DEF ListTypes, ListSound
  <2>6. PICK r : r = SubSeq(clients, p, q)
    OBVIOUS
  <2>7. /\ r \in Seq(Conns) /\ Len(r) = q - p + 1
        /\ \A j \in 1 .. Len(r) : r[j] = clients[p + j - 1]
    <3>1. p \in Int /\ q \in Int /\ \A j \in p .. q : clients[j] \in Conns
      BY <2>4, <2>5
    <3>2. /\ SubSeq(clients, p, q) \in Seq(Conns)
          /\ Len(SubSeq(clients, p, q)) = IF p <= q THEN q - p + 1 ELSE 0
          /\ \A j \in 1 .. q - p + 1 : SubSeq(clients, p, q)[j] = clients[p + j - 1]
      BY <3>1, SubSeqProperties
    <3> QED BY <2>4, <2>6, <3>2
  <2>8. Goto(i, "update") /\ rest' = [rest EXCEPT ![i] = r]
    <3>1. Position(first[i]) = p
      BY <1>1, <2>1, PositionOf DEF ListSound
    <3> QED BY <1>2, <1>5, <2>3, <2>6, <3>1 DEF StartBatch
  <2>9. pc'[i] = "update" /\ rest'[i] = r /\ DOMAIN r = 1 .. Len(r)
    BY <1>1, <2>7, <2>8, LenProperties DEF Goto, ListTypes
  <2>10. Claim(i) = {clients[k] : k \in p .. q}
    BY <1>1, <1>2, <2>1, <2>3, QueuedClaim DEF ListSound
  <2>11. Claim(i)' = {r[j] : j \in 1 .. Len(r)}
    BY <2>9 DEF Claim, ToSet
  <2>12. Claim(i)' = Claim(i)
    <3>1. \A j \in 1 .. Len(r) : p + j - 1 \in p .. q
      BY <2>4, <2>7
    <3>2. \A k \in p .. q : k - p + 1 \in 1 .. Len(r) /\ clients[k] = r[k - p + 1]
      BY <2>4, <2>7
    <3> QED BY <2>7, <2>10, <2>11, <3>1, <3>2
  <2>13. Distinct(r) /\ \A j \in 1 .. Len(r) : r[j] \in ToSet(clients)
    <3>1. \A j \in 1 .. Len(r) : p + j - 1 \in 1 .. n
      BY <2>4, <2>7
    <3>2. \A j \in 1 .. Len(r) : r[j] \in ToSet(clients)
      BY <1>1, <2>2, <2>7, <3>1, ListLength DEF ToSet
    <3>3. ASSUME NEW j \in 1 .. Len(r), NEW k \in 1 .. Len(r), r[j] = r[k] PROVE j = k
      <4>1. clients[p + j - 1] = clients[p + k - 1]
        BY <2>7, <3>3
      <4>2. p + j - 1 = p + k - 1
        BY <2>2, <2>5, <3>1, <4>1 DEF Distinct
      <4> QED BY <2>4, <2>7, <4>2
    <3> QED BY <3>2, <3>3 DEF Distinct
  <2>14. r # <<>>
    BY <2>4, <2>7, EmptySeq
  <2>15. "update" \in Places /\ "update" \in Working
    BY DEF Places, Working
  <2> QED BY <1>2, <1>3, <2>7, <2>8, <2>12, <2>13, <2>14, <2>15, SameClaimsStep
<1> QED BY <1>2, <1>4, <1>5

-----------------------------------------------------------------------------
(* connection_close takes an entry out of the list.                        *)

LEMMA RemoveAtProperties ==
  ASSUME NEW S, NEW s \in Seq(S), NEW q \in 1 .. Len(s)
  PROVE  /\ RemoveAt(s, q) \in Seq(S) /\ Len(RemoveAt(s, q)) = Len(s) - 1
         /\ \A k \in 1 .. Len(s) - 1 :
              RemoveAt(s, q)[k] = IF k < q THEN s[k] ELSE s[k + 1]
<1>1. PICK n \in Nat : n = Len(s)
  BY LenProperties
<1>2. q \in 1 .. n /\ \A k \in 1 .. n : s[k] \in S
  BY <1>1, ElementOfSeq
<1> DEFINE a == SubSeq(s, 1, q - 1)
           b == SubSeq(s, q + 1, n)
<1>3. /\ a \in Seq(S) /\ Len(a) = q - 1 /\ \A k \in 1 .. q - 1 : a[k] = s[k]
  <2>1. 1 \in Int /\ q - 1 \in Int /\ \A k \in 1 .. q - 1 : s[k] \in S
    BY <1>2
  <2>2. /\ a \in Seq(S) /\ Len(a) = IF 1 <= q - 1 THEN q - 1 - 1 + 1 ELSE 0
        /\ \A k \in 1 .. q - 1 - 1 + 1 : a[k] = s[1 + k - 1]
    BY <2>1, SubSeqProperties
  <2> QED BY <1>2, <2>2
<1>4. /\ b \in Seq(S) /\ Len(b) = n - q /\ \A k \in 1 .. n - q : b[k] = s[q + k]
  <2>1. q + 1 \in Int /\ n \in Int /\ \A k \in q + 1 .. n : s[k] \in S
    BY <1>2
  <2>2. /\ b \in Seq(S) /\ Len(b) = IF q + 1 <= n THEN n - (q + 1) + 1 ELSE 0
        /\ \A k \in 1 .. n - (q + 1) + 1 : b[k] = s[q + 1 + k - 1]
    BY <2>1, SubSeqProperties
  <2> QED BY <1>2, <2>2
<1>5. RemoveAt(s, q) = a \o b
  BY <1>1 DEF RemoveAt
<1> HIDE DEF a, b
<1>6. /\ a \o b \in Seq(S) /\ Len(a \o b) = Len(a) + Len(b)
      /\ \A k \in 1 .. Len(a) + Len(b) : (a \o b)[k] = IF k <= Len(a) THEN a[k] ELSE b[k - Len(a)]
  BY <1>3, <1>4, ConcatProperties
<1>7. Len(a \o b) = n - 1
  BY <1>2, <1>3, <1>4, <1>6
<1>8. ASSUME NEW k \in 1 .. n - 1 PROVE (a \o b)[k] = IF k < q THEN s[k] ELSE s[k + 1]
  <2>1. (a \o b)[k] = IF k <= q - 1 THEN a[k] ELSE b[k - (q - 1)]
    BY <1>2, <1>3, <1>4, <1>6
  <2>2. CASE k < q
    BY <1>2, <1>3, <2>1, <2>2
  <2>3. CASE ~ (k < q)
    <3>1. k - (q - 1) \in 1 .. n - q /\ q + (k - (q - 1)) = k + 1
      BY <1>2, <2>3
    <3> QED BY <1>2, <1>4, <2>1, <2>3, <3>1
  <2> QED BY <2>2, <2>3
<1> QED BY <1>1, <1>5, <1>6, <1>7, <1>8

\* What the list is afterwards.
LEMMA Removed ==
  ASSUME ListTypes, Distinct(clients), NEW q \in 1 .. Len(clients),
         clients' = RemoveAt(clients, q)
  PROVE  /\ clients' \in Seq(Conns) /\ Len(clients') = Len(clients) - 1
         /\ Len(clients') \in Nat /\ DOMAIN clients' = 1 .. Len(clients')
         /\ \A k \in 1 .. Len(clients') : clients'[k] = IF k < q THEN clients[k] ELSE clients[k + 1]
         /\ Distinct(clients')
         /\ ToSet(clients') = ToSet(clients) \ {clients[q]}
<1>1. PICK n : n = Len(clients)
  OBVIOUS
<1>2. n \in Nat /\ DOMAIN clients = 1 .. n /\ q \in 1 .. n /\ n - 1 \in Nat
  BY <1>1, ListLength
<1>3. /\ clients' \in Seq(Conns) /\ Len(clients') = n - 1
      /\ \A k \in 1 .. n - 1 : clients'[k] = IF k < q THEN clients[k] ELSE clients[k + 1]
  BY <1>1, RemoveAtProperties DEF ListTypes
<1>4. DOMAIN clients' = 1 .. n - 1
  BY <1>3, LenProperties
<1>5. Distinct(clients')
  <2> SUFFICES ASSUME NEW j \in 1 .. n - 1, NEW k \in 1 .. n - 1, clients'[j] = clients'[k]
               PROVE  j = k
    BY <1>3 DEF Distinct
  <2>1. PICK u \in 1 .. n : clients'[j] = clients[u] /\ u = IF j < q THEN j ELSE j + 1
    <3>1. j \in 1 .. n /\ j + 1 \in 1 .. n
      BY <1>2
    <3> QED BY <1>3, <3>1
  <2>2. PICK v \in 1 .. n : clients'[k] = clients[v] /\ v = IF k < q THEN k ELSE k + 1
    <3>1. k \in 1 .. n /\ k + 1 \in 1 .. n
      BY <1>2
    <3> QED BY <1>3, <3>1
  <2>3. u = v
    BY <1>1, <2>1, <2>2 DEF Distinct
  <2> QED BY <1>2, <2>1, <2>2, <2>3
<1>6. ToSet(clients') \subseteq ToSet(clients) \ {clients[q]}
  <2> SUFFICES ASSUME NEW k \in 1 .. n - 1
               PROVE  clients'[k] \in ToSet(clients) \ {clients[q]}
    BY <1>4 DEF ToSet
  <2>1. PICK u \in 1 .. n : clients'[k] = clients[u] /\ u # q
    <3>1. k \in 1 .. n /\ k + 1 \in 1 .. n
      BY <1>2
    <3>2. CASE k < q
      BY <1>2, <1>3, <3>1, <3>2
    <3>3. CASE ~ (k < q)
      BY <1>2, <1>3, <3>1, <3>3
    <3> QED BY <3>2, <3>3
  <2>2. clients[u] # clients[q]
    BY <1>1, <1>2, <2>1 DEF Distinct
  <2> QED BY <1>2, <2>1, <2>2 DEF ToSet
<1>7. ToSet(clients) \ {clients[q]} \subseteq ToSet(clients')
  <2> SUFFICES ASSUME NEW u \in 1 .. n, clients[u] # clients[q]
               PROVE  clients[u] \in ToSet(clients')
    BY <1>2 DEF ToSet
  <2>1. CASE u < q
    <3>1. u \in 1 .. n - 1
      BY <1>2, <2>1
    <3> QED BY <1>3, <1>4, <2>1, <3>1 DEF ToSet
  <2>2. CASE u > q
    <3>1. u - 1 \in 1 .. n - 1 /\ ~ (u - 1 < q) /\ (u - 1) + 1 = u
      BY <1>2, <2>2
    <3>2. clients'[u - 1] = clients[u]
      BY <1>3, <3>1
    <3> QED BY <1>4, <3>1, <3>2 DEF ToSet
  <2> QED BY <1>2, <2>1, <2>2
<1> QED BY <1>1, <1>2, <1>3, <1>4, <1>5, <1>6, <1>7

\* A range that does not hold the removed entry moves as a whole, and holds what it held.
LEMMA RangeMoves ==
  ASSUME ListTypes, Distinct(clients), NEW q \in 1 .. Len(clients),
         clients' = RemoveAt(clients, q),
         NEW i \in Batches, pc[i] = "queued", pc'[i] = "queued", amount[i] > 0,
         first'[i] = first[i], amount'[i] = amount[i],
         clients[q] \notin Claim(i),
         NEW p \in 1 .. Len(clients), clients[p] = first[i],
         p + amount[i] - 1 <= Len(clients)
  PROVE  /\ Claim(i)' = Claim(i)
         /\ \E b \in 1 .. Len(clients') : /\ clients'[b] = first'[i]
                                          /\ b + amount'[i] - 1 <= Len(clients')
<1>1. PICK n : n = Len(clients)
  OBVIOUS
<1>2. PICK a : a = amount[i]
  OBVIOUS
<1>3. n \in Nat /\ a \in Nat /\ a > 0 /\ q \in 1 .. n /\ p \in 1 .. n /\ p + a - 1 <= n
  BY <1>1, <1>2, ListLength DEF ListTypes
<1>4. Claim(i) = {clients[k] : k \in p .. p + a - 1}
  BY <1>2, QueuedClaim
<1>5. /\ Len(clients') = n - 1 /\ DOMAIN clients' = 1 .. n - 1
      /\ \A k \in 1 .. n - 1 : clients'[k] = IF k < q THEN clients[k] ELSE clients[k + 1]
      /\ Distinct(clients')
  BY <1>1, Removed
<1>6. q < p \/ q > p + a - 1
  <2>1. q \notin p .. p + a - 1
    BY <1>4
  <2> QED BY <1>3, <2>1
<1>7. PICK b : b = IF q < p THEN p - 1 ELSE p
  OBVIOUS
<1>8. b \in 1 .. n - 1 /\ b + a - 1 <= n - 1
  BY <1>3, <1>6, <1>7
<1>9. \A k \in 0 .. a - 1 : /\ b + k \in 1 .. n - 1 /\ p + k \in 1 .. n
                             /\ clients'[b + k] = clients[p + k]
  <2> SUFFICES ASSUME NEW k \in 0 .. a - 1
               PROVE  /\ b + k \in 1 .. n - 1 /\ p + k \in 1 .. n
                      /\ clients'[b + k] = clients[p + k]
    OBVIOUS
  <2>1. b + k \in 1 .. n - 1 /\ p + k \in 1 .. n
    BY <1>3, <1>8
  <2>2. CASE q < p
    <3>1. ~ (b + k < q) /\ (b + k) + 1 = p + k
      BY <1>3, <1>7, <2>2
    <3> QED BY <1>5, <2>1, <3>1
  <2>3. CASE q > p + a - 1
    <3>1. b + k < q /\ b + k = p + k
      BY <1>3, <1>7, <2>3
    <3> QED BY <1>5, <2>1, <3>1
  <2> QED BY <1>6, <2>1, <2>2, <2>3
<1>10. clients'[b] = first[i]
  <2>1. 0 \in 0 .. a - 1 /\ b + 0 = b /\ p + 0 = p
    BY <1>3, <1>8
  <2> QED BY <1>9, <2>1
<1>11. Position(first[i])' = b
  <2>1. \A j \in 1 .. n - 1 : clients'[j] = first[i] <=> j = b
    BY <1>5, <1>8, <1>10 DEF Distinct
  <2>2. Position(first[i])' = CHOOSE j \in 1 .. n - 1 : clients'[j] = first'[i]
    BY <1>5 DEF Position
  <2> QED BY <1>8, <2>1, <2>2
<1>12. Claim(i)' = {clients'[k] : k \in b .. b + a - 1}
  <2>1. {k \in 1 .. n - 1 : a > 0 /\ k >= b /\ k < b + a} = b .. b + a - 1
    BY <1>3, <1>8
  <2>2. Claim(i)' = {clients'[k] : k \in {k \in 1 .. n - 1 : a > 0 /\ k >= b /\ k < b + a}}
    BY <1>2, <1>5, <1>11 DEF Claim
  <2> QED BY <2>1, <2>2
<1>13. Claim(i)' = Claim(i)
  <2>1. \A k \in b .. b + a - 1 : k - b \in 0 .. a - 1 /\ b + (k - b) = k
    BY <1>3, <1>8
  <2>2. \A k \in p .. p + a - 1 : k - p \in 0 .. a - 1 /\ p + (k - p) = k
    BY <1>3
  <2>3. \A k \in 0 .. a - 1 : p + k \in p .. p + a - 1 /\ b + k \in b .. b + a - 1
    BY <1>3, <1>8
  <2>4. ASSUME NEW x \in Claim(i)' PROVE x \in Claim(i)
    <3>1. PICK k \in b .. b + a - 1 : x = clients'[k]
      BY <1>12
    <3>2. x = clients[p + (k - b)]
      BY <1>9, <2>1, <3>1
    <3> QED BY <1>4, <2>1, <2>3, <3>2
  <2>5. ASSUME NEW x \in Claim(i) PROVE x \in Claim(i)'
    <3>1. PICK k \in p .. p + a - 1 : x = clients[k]
      BY <1>4
    <3>2. x = clients'[b + (k - p)]
      BY <1>9, <2>2, <3>1
    <3> QED BY <1>12, <2>2, <2>3, <3>2
  <2> QED BY <2>4, <2>5
<1> QED BY <1>2, <1>5, <1>8, <1>10, <1>13

LEMMA RemoveStep ==
  ASSUME ListInv, NEW i \in Batches, CloseRemoves(i)
  PROVE  ListInv'
<1> USE DEF listVars, batchVars
<1>1. ListTypes /\ ListSound /\ RestSound /\ NoSharing /\ QueuedSound /\ PhaseSound /\ OnceSound
  BY DEF ListInv
<1>2. /\ pc[i] = "lock" /\ main # "serve" /\ client_count' = client_count - 1
      /\ clients' = RemoveAt(clients, Position(Current(i)))
      /\ UNCHANGED <<main, live, index, first, amount, rest, served>>
      /\ Contains(clients, Current(i)) /\ Goto(i, "stream")
  BY DEF CloseRemoves, At, WriteLockFree, connVars
<1>3. Distinct(clients) /\ ToSet(clients) \subseteq live /\ client_count = Len(clients)
  BY <1>1 DEF ListSound, CountMatches
<1>4. main = "wait"
  BY <1>1, <1>2 DEF PhaseSound, ListTypes, MainPlaces
<1>5. PICK q \in 1 .. Len(clients) : clients[q] = Current(i) /\ clients' = RemoveAt(clients, q)
  <2>1. PICK q \in 1 .. Len(clients) : clients[q] = Current(i)
    BY <1>2 DEF Contains
  <2>2. Position(clients[q]) = q
    BY <1>1, <1>3, PositionOf
  <2> QED BY <1>2, <2>1, <2>2
<1>6. /\ clients' \in Seq(Conns) /\ Len(clients') = Len(clients) - 1 /\ Distinct(clients')
      /\ ToSet(clients') = ToSet(clients) \ {Current(i)}
  BY <1>1, <1>3, <1>5, Removed
<1>7. /\ pc'[i] = "stream" /\ \A k \in Batches \ {i} : pc'[k] = pc[k]
      /\ pc' \in [Batches -> Places]
  BY <1>1, <1>2 DEF Goto, ListTypes, Places
<1>8. /\ Claim(i) = {rest[i][j] : j \in 1 .. Len(rest[i])} /\ Current(i) \in Claim(i)
      /\ rest[i][1] = Current(i) /\ Len(rest[i]) \in Nat /\ Len(rest[i]) > 0
  BY <1>1, <1>2, WorkingClaim DEF Working
<1>9. \A k \in Batches \ {i} : Current(i) \notin Claim(k)
  BY <1>1, <1>8 DEF NoSharing
<1>10. ListTypes'
  BY <1>1, <1>2, <1>6, <1>7 DEF ListTypes
<1>11. ListSound'
  BY <1>2, <1>3, <1>6 DEF ListSound, CountMatches
<1>12. \A k \in Batches : pc'[k] = "queued" <=> pc[k] = "queued"
  BY <1>2, <1>7
<1>13. ASSUME NEW k \in Batches, pc[k] = "queued", amount[k] > 0
       PROVE  /\ Claim(k)' = Claim(k)
              /\ \E b \in 1 .. Len(clients') : /\ clients'[b] = first'[k]
                                               /\ b + amount'[k] - 1 <= Len(clients')
  <2>1. PICK p \in 1 .. Len(clients) : clients[p] = first[k] /\ p + amount[k] - 1 <= Len(clients)
    BY <1>1, <1>13 DEF QueuedSound
  <2>2. k # i /\ clients[q] \notin Claim(k) /\ pc'[k] = "queued"
    BY <1>2, <1>5, <1>9, <1>12, <1>13
  <2> QED BY <1>1, <1>2, <1>3, <1>5, <1>13, <2>1, <2>2, RangeMoves
<1>14. \A k \in Batches : Claim(k)' = Claim(k)
  <2> SUFFICES ASSUME NEW k \in Batches PROVE Claim(k)' = Claim(k)
    OBVIOUS
  <2>1. CASE pc[k] # "queued"
    BY <1>2, <1>12, <2>1 DEF Claim
  <2>2. CASE pc[k] = "queued" /\ amount[k] > 0
    BY <1>13, <2>2
  <2>3. CASE pc[k] = "queued" /\ amount[k] = 0
    <3>1. Claim(k) = {}
      BY <1>1, <2>3, EmptyClaim
    <3>2. Claim(k)' = {}
      BY <1>2, <1>12, <2>3 DEF Claim
    <3> QED BY <3>1, <3>2
  <2>4. amount[k] \in Nat
    BY <1>1 DEF ListTypes
  <2> QED BY <2>1, <2>2, <2>3, <2>4
<1>15. RestSound'
  <2> SUFFICES ASSUME NEW k \in Batches
               PROVE  /\ pc'[k] \in Working <=> rest[k] # <<>>
                      /\ Distinct(rest[k])
                      /\ \A j \in 2 .. Len(rest[k]) : rest[k][j] \in ToSet(clients')
                      /\ Closing(k)' => Current(k) \notin ToSet(clients')
    BY <1>2 DEF RestSound, Distinct, ToSet, Current
  <2>1. pc'[k] \in Working <=> pc[k] \in Working
    BY <1>2, <1>7 DEF Working
  <2>2. Closing(k)' => Current(k) \notin ToSet(clients')
    BY <1>1, <1>6, <1>7 DEF RestSound, Closing
  <2>3. ASSUME NEW j \in 2 .. Len(rest[k]) PROVE rest[k][j] \in ToSet(clients')
    <3>1. rest[k][j] \in ToSet(clients)
      BY <1>1 DEF RestSound
    <3>2. CASE k = i
      <4>1. 1 \in 1 .. Len(rest[i]) /\ j \in 1 .. Len(rest[i]) /\ j # 1
        BY <1>8, <3>2
      <4>2. rest[i][j] # rest[i][1]
        BY <1>1, <4>1 DEF RestSound, Distinct
      <4> QED BY <1>6, <1>8, <3>1, <3>2, <4>2
    <3>3. CASE k # i
      <4>1. Len(rest[k]) \in Nat /\ rest[k] \in Seq(Conns)
        BY <1>1, LenProperties DEF ListTypes
      <4>2. j \in 1 .. Len(rest[k])
        BY <4>1
      <4>3. pc[k] \in Working
        <5>1. rest[k] # <<>>
          BY <4>1, <4>2, EmptySeq
        <5> QED BY <1>1, <5>1 DEF RestSound
      <4>4. rest[k][j] \in Claim(k)
        BY <1>1, <4>2, <4>3, WorkingClaim
      <4> QED BY <1>6, <1>9, <3>1, <3>3, <4>4
    <3> QED BY <3>2, <3>3
  <2> QED BY <1>1, <2>1, <2>2, <2>3 DEF RestSound
<1>16. NoSharing'
  BY <1>1, <1>14 DEF NoSharing
<1>17. QueuedSound'
  BY <1>2, <1>12, <1>13 DEF QueuedSound
<1>18. PhaseSound'
  <2>1. main' = "wait" /\ index' = 0
    BY <1>1, <1>2, <1>4 DEF PhaseSound
  <2>2. \A k \in Batches : pc'[k] # "none"
    BY <1>1, <1>4, <1>7 DEF PhaseSound
  <2>3. NoneDropped' => NoneDropped
    BY <1>2, <1>7 DEF NoneDropped
  <2>4. Covered' = Covered
    BY <1>2, <1>14 DEF Covered
  <2>5. NoneDropped' => ToSet(clients') \subseteq Covered'
    BY <1>1, <1>4, <1>6, <2>3, <2>4 DEF PhaseSound
  <2> QED BY <2>1, <2>2, <2>5 DEF PhaseSound
<1>19. OnceSound'
  <2>1. \A k \in Batches : Claim(k)' \cap served' = {}
    BY <1>1, <1>2, <1>14 DEF OnceSound
  <2>2. ASSUME NEW k \in Batches, pc'[k] = "update" PROVE Current(k)' \in ToSet(clients')
    <3>1. k # i /\ pc[k] = "update"
      BY <1>7, <2>2
    <3>2. Current(k) \in Claim(k) /\ Current(k) \in ToSet(clients)
      BY <1>1, <3>1, WorkingClaim DEF OnceSound, Working
    <3>3. Current(k) # Current(i)
      BY <1>9, <3>1, <3>2
    <3> QED BY <1>2, <1>6, <3>2, <3>3 DEF Current
  <2> QED BY <1>2, <1>4, <2>1, <2>2 DEF OnceSound
<1> QED BY <1>10, <1>11, <1>15, <1>16, <1>17, <1>18, <1>19 DEF ListInv

-----------------------------------------------------------------------------
(* The sizes of the batches add up to the list.                            *)

LEMMA Quotient ==
  ASSUME NEW t \in Nat \ {0}, NEW n \in Nat
  PROVE  /\ n \div t \in Nat /\ n % t \in Nat
         /\ n = t * (n \div t) + (n % t)
OBVIOUS

LEMMA Multiples ==
  ASSUME NEW t \in Nat, NEW q \in Nat, NEW k \in 0 .. t
  PROVE  k * q \in Nat /\ k * q <= t * q /\ (k + 1) * q = k * q + q
<1>1. k * q \in Nat /\ (t - k) * q \in Nat
  OBVIOUS
<1>2. t * q = k * q + (t - k) * q
  OBVIOUS
<1>3. (k + 1) * q = k * q + q
  OBVIOUS
<1> QED BY <1>1, <1>2, <1>3

LEMMA DispatchedNat ==
  ASSUME ListTypes, NEW n \in 0 .. ThreadCount
  PROVE  Dispatched(n) \in Nat /\ Dispatched(n) <= Len(clients)
<1>1. PICK t : t = ThreadCount
  OBVIOUS
<1>2. PICK len : len = Len(clients)
  OBVIOUS
<1>3. t \in Nat \ {0} /\ len \in Nat /\ n \in 0 .. t
  BY <1>1, <1>2, ListLength, ThreadCountAssumption
<1>4. PICK q \in Nat, r \in Nat : q = len \div t /\ len = t * q + r
  BY <1>3, Quotient
<1>5. n * q \in Nat /\ n * q <= t * q /\ t * q \in Nat
  BY <1>3, <1>4, Multiples
<1>6. n * q <= len
  BY <1>3, <1>4, <1>5
<1> QED BY <1>1, <1>2, <1>3, <1>4, <1>5, <1>6 DEF Dispatched

LEMMA SizesAddUp ==
  ASSUME ListTypes, CountMatches, NEW i \in Batches
  PROVE  /\ BatchSize(i) \in Nat /\ i + 1 \in 0 .. ThreadCount /\ i \in 0 .. ThreadCount
         /\ Dispatched(i) + BatchSize(i) = Dispatched(i + 1)
<1>1. PICK t : t = ThreadCount
  OBVIOUS
<1>2. PICK len : len = Len(clients)
  OBVIOUS
<1>3. t \in Nat \ {0} /\ len \in Nat /\ i \in 0 .. t - 1
  BY <1>1, <1>2, ListLength, ThreadCountAssumption DEF Batches
<1>4. PICK q \in Nat, r \in Nat : q = len \div t /\ r = len % t /\ len = t * q + r
  BY <1>3, Quotient
<1>5. i # t /\ i + 1 \in 0 .. t /\ i \in 0 .. t
  BY <1>3
<1>6. Dispatched(i) = i * q
  BY <1>1, <1>2, <1>4, <1>5 DEF Dispatched
<1>7. BatchSize(i) = q + (IF i = t - 1 THEN r ELSE 0)
  BY <1>1, <1>2, <1>4 DEF BatchSize, CountMatches
<1>8. i * q \in Nat /\ (i + 1) * q = i * q + q
  BY <1>3, <1>4, <1>5, Multiples
<1>9. q + 0 = q /\ q + r \in Nat
  OBVIOUS
<1>10. CASE i = t - 1
  <2>1. i + 1 = t
    BY <1>3, <1>10
  <2>2. Dispatched(i + 1) = len
    BY <1>1, <1>2, <2>1 DEF Dispatched
  <2>3. t * q = i * q + q
    BY <1>8, <2>1
  <2>4. len = i * q + (q + r)
    BY <1>4, <1>8, <2>3
  <2>5. BatchSize(i) = q + r
    BY <1>7, <1>10
  <2> QED BY <1>1, <1>5, <1>6, <1>9, <2>1, <2>2, <2>4, <2>5
<1>11. CASE i # t - 1
  <2>1. i + 1 # t
    BY <1>3, <1>11
  <2>2. Dispatched(i + 1) = (i + 1) * q
    BY <1>1, <1>2, <1>4, <2>1 DEF Dispatched
  <2>3. BatchSize(i) = q
    BY <1>7, <1>11, <1>9
  <2> QED BY <1>1, <1>5, <1>6, <1>8, <2>2, <2>3
<1> QED BY <1>10, <1>11

\* The number of batches handed out is the next batch's.
LEMMA HandedOut ==
  ASSUME NEW i \in Batches, NEW n \in 0 .. ThreadCount,
         \A k \in Batches : pc[k] = "none" <=> k >= i,
         \A k \in Batches : pc[k] = "none" <=> k >= n
  PROVE  n = i
<1>1. ThreadCount \in Nat /\ i \in 0 .. ThreadCount - 1
  BY ThreadCountAssumption DEF Batches
<1>2. CASE n > i
  BY <1>1, <1>2
<1>3. CASE n < i
  <2>1. n \in Batches
    BY <1>1, <1>3 DEF Batches
  <2> QED BY <1>1, <1>3, <2>1
<1> QED BY <1>1, <1>2, <1>3

-----------------------------------------------------------------------------
(* serve_clients hands out the batches.                                    *)

LEMMA Serving ==
  ASSUME ListInv, NEW i \in Batches, NextBatch(i)
  PROVE  ServeSound(i) /\ main = "serve"
<1>1. PhaseSound /\ main = "serve" /\ \A k \in Batches : pc[k] = "none" <=> k >= i
  BY DEF ListInv, NextBatch
<1>2. PICK n \in 0 .. ThreadCount : ServeSound(n)
  BY <1>1 DEF PhaseSound
<1>3. n = i
  BY <1>1, <1>2, HandedOut DEF ServeSound
<1> QED BY <1>1, <1>2, <1>3

\* What handing out batch i has to keep, whatever becomes of it.
LEMMA HandOutStep ==
  ASSUME ListInv, NEW i \in Batches, NextBatch(i),
         UNCHANGED <<main, listVars, live, rest, served>>,
         NEW place \in {"queued", "done", "dropped"}, Goto(i, place),
         first' \in [Batches -> Conns \cup {NoConn}], amount' \in [Batches -> Nat],
         \A k \in Batches \ {i} : first'[k] = first[k] /\ amount'[k] = amount[k],
         index' \in Nat, index <= index', index' <= Dispatched(i + 1),
         Claim(i)' \subseteq Upto(index'), Claim(i)' \cap Upto(index) = {},
         place # "dropped" /\ index = Dispatched(i) =>
           index' = Dispatched(i + 1) /\ Upto(index') \subseteq Upto(index) \cup Claim(i)',
         place = "queued" /\ amount'[i] > 0 =>
           \E p \in 1 .. Len(clients) : clients[p] = first'[i] /\ p + amount'[i] - 1 <= Len(clients)
  PROVE  ListInv'
<1> USE DEF listVars
<1>1. ListTypes /\ ListSound /\ RestSound /\ NoSharing /\ QueuedSound /\ PhaseSound /\ OnceSound
  BY DEF ListInv
<1>2. main = "serve" /\ ServeSound(i)
  BY Serving
<1>3. /\ pc'[i] = place /\ \A k \in Batches \ {i} : pc'[k] = pc[k]
      /\ pc' \in [Batches -> Places]
  BY <1>1 DEF Goto, ListTypes, Places
<1>4. i \in 0 .. ThreadCount - 1 /\ ThreadCount \in Nat /\ i + 1 \in 0 .. ThreadCount
  BY ThreadCountAssumption DEF Batches
<1>5. pc[i] = "none" /\ \A k \in Batches : pc[k] = "none" <=> k >= i
  BY <1>4 DEF NextBatch
<1>6. ListTypes'
  BY <1>1, <1>3 DEF ListTypes
<1>7. ListSound'
  BY <1>1 DEF ListSound, Distinct, ToSet, CountMatches
<1>8. \A k \in Batches \ {i} : Claim(k)' = Claim(k)
  BY <1>3, ClaimKept
<1>9. Claim(i) = {}
  BY <1>1, <1>5, IdleClaim DEF Working
<1>10. \A k \in Batches : Claim(k) \subseteq Upto(index)
  BY <1>2 DEF ServeSound
<1>11. RestSound'
  <2> SUFFICES ASSUME NEW k \in Batches
               PROVE  /\ pc'[k] \in Working <=> rest[k] # <<>>
                      /\ Distinct(rest[k])
                      /\ \A j \in 2 .. Len(rest[k]) : rest[k][j] \in ToSet(clients)
                      /\ Closing(k)' => Current(k) \notin ToSet(clients)
    BY DEF RestSound, Distinct, ToSet, Current
  <2>1. pc'[k] \in Working <=> pc[k] \in Working
    BY <1>3, <1>5 DEF Working
  <2>2. Closing(k)' => Closing(k)
    BY <1>3 DEF Closing
  <2> QED BY <1>1, <2>1, <2>2 DEF RestSound
<1>12. NoSharing'
  <2>1. \A k \in Batches \ {i} : Claim(i)' \cap Claim(k)' = {}
    BY <1>8, <1>10
  <2> SUFFICES ASSUME NEW j \in Batches, NEW k \in Batches, j # k
               PROVE  Claim(j)' \cap Claim(k)' = {}
    BY DEF NoSharing
  <2>2. CASE j # i /\ k # i
    <3>1. Claim(j) \cap Claim(k) = {}
      BY <1>1 DEF NoSharing
    <3> QED BY <1>8, <2>2, <3>1
  <2> QED BY <2>1, <2>2
<1>13. QueuedSound'
  BY <1>1, <1>3 DEF QueuedSound
<1>14. ServeSound(i + 1)'
  <2>1. Dispatched(i + 1)' = Dispatched(i + 1) /\ Upto(index)' = Upto(index')
    BY DEF Dispatched, Upto
  <2>2. \A k \in Batches : pc'[k] = "none" <=> k >= i + 1
    <3>1. \A k \in Batches : k \in Int /\ (k >= i + 1 <=> k >= i /\ k # i)
      BY <1>4 DEF Batches
    <3> QED BY <1>3, <1>5, <3>1
  <2>3. Upto(index) \subseteq Upto(index')
    <3>1. \A k \in 1 .. index : k \in 1 .. index'
      BY <1>1 DEF ListTypes
    <3> QED BY <3>1 DEF Upto
  <2>4. \A k \in Batches : Claim(k)' \subseteq Upto(index')
    BY <1>8, <1>10, <2>3
  <2>5. Covered \cup Claim(i)' \subseteq Covered'
    BY <1>8, <1>9 DEF Covered
  <2>6. ASSUME NoneDropped' PROVE index' = Dispatched(i + 1) /\ Upto(index') \subseteq Covered'
    <3>1. NoneDropped /\ place # "dropped"
      BY <1>3, <1>5, <2>6 DEF NoneDropped
    <3>2. index = Dispatched(i) /\ Upto(index) \subseteq Covered
      BY <1>2, <3>1 DEF ServeSound
    <3> QED BY <2>5, <3>1, <3>2
  <2> QED BY <2>1, <2>2, <2>4, <2>6 DEF ServeSound
<1>15. PhaseSound'
  BY <1>2, <1>4, <1>14 DEF PhaseSound
<1>16. OnceSound'
  <2>1. served \subseteq Upto(index)
    BY <1>1, <1>2 DEF OnceSound
  <2>2. \A k \in Batches : Claim(k)' \cap served' = {}
    BY <1>1, <1>8, <2>1 DEF OnceSound
  <2>3. \A k \in Batches : pc'[k] = "update" => Current(k)' \in ToSet(clients)'
    BY <1>1, <1>3 DEF OnceSound, Current, ToSet
  <2>4. Upto(index) \subseteq Upto(index)'
    <3>1. \A k \in 1 .. index : k \in 1 .. index'
      BY <1>1 DEF ListTypes
    <3> QED BY <3>1 DEF Upto
  <2> QED BY <1>2, <2>1, <2>2, <2>3, <2>4 DEF OnceSound
<1> QED BY <1>6, <1>7, <1>11, <1>12, <1>13, <1>15, <1>16 DEF ListInv

LEMMA DispatchStep ==
  ASSUME ListInv, NEW i \in Batches, DispatchBatch(i)
  PROVE  ListInv'
<1> USE DEF listVars
<1>1. ListTypes /\ ListSound /\ RestSound
  BY DEF ListInv
<1>2. /\ NextBatch(i) /\ index < Len(clients) /\ Goto(i, "queued")
      /\ first' = [first EXCEPT ![i] = clients[index + 1]]
      /\ amount' = [amount EXCEPT ![i] = BatchSize(i)]
      /\ index' = index + BatchSize(i)
      /\ UNCHANGED <<main, listVars, live, rest, served>>
  BY DEF DispatchBatch, connVars
<1>3. ServeSound(i)
  BY <1>2, Serving
<1>4. PICK s : s = BatchSize(i)
  OBVIOUS
<1>5. PICK n : n = Len(clients)
  OBVIOUS
<1>6. s \in Nat /\ n \in Nat /\ index \in Nat /\ index < n /\ Distinct(clients)
  BY <1>1, <1>2, <1>4, <1>5, ListLength, SizesAddUp DEF ListTypes, ListSound
<1>7. /\ Dispatched(i) \in Nat /\ index <= Dispatched(i) /\ Dispatched(i + 1) \in Nat
      /\ Dispatched(i) + s = Dispatched(i + 1) /\ Dispatched(i + 1) <= n
  BY <1>1, <1>3, <1>4, <1>5, DispatchedNat, SizesAddUp DEF ServeSound, ListSound
<1>8. index' = index + s /\ index' \in Nat /\ index <= index' /\ index' <= Dispatched(i + 1) /\ index' <= n
  BY <1>2, <1>4, <1>6, <1>7
<1>9. index + 1 \in 1 .. n /\ clients[index + 1] \in Conns
  BY <1>1, <1>5, <1>6, ElementOfSeq DEF ListTypes
<1>10. /\ first' \in [Batches -> Conns \cup {NoConn}] /\ amount' \in [Batches -> Nat]
       /\ \A k \in Batches \ {i} : first'[k] = first[k] /\ amount'[k] = amount[k]
       /\ first'[i] = clients[index + 1] /\ amount'[i] = s
       /\ pc'[i] = "queued"
  BY <1>1, <1>2, <1>4, <1>6, <1>9 DEF ListTypes, Goto
<1>11. Claim(i)' = {clients[k] : k \in index + 1 .. index + s}
  <2>1. Position(first[i])' = index + 1
    <3>1. Position(first[i])' = Position(clients[index + 1])
      BY <1>2, <1>10 DEF Position
    <3> QED BY <1>1, <1>5, <1>6, <1>9, <3>1, PositionOf
  <2>2. DOMAIN clients = 1 .. n
    BY <1>1, <1>5, ListLength
  <2>3. {k \in 1 .. n : s > 0 /\ k >= index + 1 /\ k < (index + 1) + s} = index + 1 .. index + s
    BY <1>6, <1>8
  <2>4. Claim(i)' = {clients[k] : k \in {k \in 1 .. n : s > 0 /\ k >= index + 1 /\ k < (index + 1) + s}}
    BY <1>2, <1>10, <2>1, <2>2 DEF Claim
  <2> QED BY <2>3, <2>4
<1>12. Claim(i)' \subseteq Upto(index')
  <2>1. \A k \in index + 1 .. index + s : k \in 1 .. index'
    BY <1>6, <1>8
  <2> QED BY <1>11, <2>1 DEF Upto
<1>13. Claim(i)' \cap Upto(index) = {}
  <2> SUFFICES ASSUME NEW j \in 1 .. index, NEW k \in index + 1 .. index + s, clients[j] = clients[k]
               PROVE  FALSE
    BY <1>11 DEF Upto
  <2>1. j \in 1 .. n /\ k \in 1 .. n /\ j # k
    BY <1>6, <1>8
  <2> QED BY <1>5, <1>6, <2>1 DEF Distinct
<1>14. index = Dispatched(i) => index' = Dispatched(i + 1)
  BY <1>7, <1>8
<1>15. Upto(index') \subseteq Upto(index) \cup Claim(i)'
  <2>1. \A k \in 1 .. index' : k \in 1 .. index \/ k \in index + 1 .. index + s
    BY <1>6, <1>8
  <2> QED BY <1>11, <2>1 DEF Upto
<1>16. \E p \in 1 .. Len(clients) : clients[p] = first'[i] /\ p + amount'[i] - 1 <= Len(clients)
  <2>1. (index + 1) + s - 1 <= n
    BY <1>6, <1>8
  <2> QED BY <1>5, <1>9, <1>10, <2>1
<1> QED BY <1>2, <1>8, <1>10, <1>12, <1>13, <1>14, <1>15, <1>16, HandOutStep

LEMMA NoClaimNext ==
  ASSUME NEW i \in Batches, pc'[i] # "queued", rest'[i] = <<>>
  PROVE  Claim(i)' = {}
<1>1. ToSet(<<>>) = {}
  BY DEF ToSet
<1> QED BY <1>1 DEF Claim

LEMMA SkipOrDropStep ==
  ASSUME ListInv, NEW i \in Batches, SkipBatch(i) \/ DropBatch(i)
  PROVE  ListInv'
<1> USE DEF listVars, batchVars
<1>1. ListTypes /\ ListSound /\ RestSound
  BY DEF ListInv
<1>2. /\ NextBatch(i)
      /\ UNCHANGED <<main, listVars, live, rest, served, first, amount>>
      /\ Goto(i, "done") \/ Goto(i, "dropped")
  BY DEF SkipBatch, DropBatch, connVars
<1>3. ServeSound(i)
  BY <1>2, Serving
<1>4. PICK s : s = BatchSize(i)
  OBVIOUS
<1>5. PICK n : n = Len(clients)
  OBVIOUS
<1>6. s \in Nat /\ n \in Nat /\ index \in Nat
  BY <1>1, <1>4, <1>5, ListLength, SizesAddUp DEF ListTypes, ListSound
<1>7. /\ Dispatched(i) \in Nat /\ index <= Dispatched(i) /\ Dispatched(i + 1) \in Nat
      /\ Dispatched(i) + s = Dispatched(i + 1) /\ Dispatched(i + 1) <= n
  BY <1>1, <1>3, <1>4, <1>5, DispatchedNat, SizesAddUp DEF ServeSound, ListSound
<1>8. /\ index' = index \/ index' = index + s
      /\ SkipBatch(i) => index' = index /\ index >= n /\ Goto(i, "done")
      /\ DropBatch(i) => Goto(i, "dropped")
  BY <1>4, <1>5 DEF SkipBatch, DropBatch
<1>9. index' \in Nat /\ index <= index' /\ index' <= Dispatched(i + 1)
  BY <1>6, <1>7, <1>8
<1>10. ThreadCount \in Nat /\ i \in 0 .. ThreadCount - 1
  BY ThreadCountAssumption DEF Batches
<1>11. pc[i] = "none"
  BY <1>2, <1>10 DEF NextBatch
<1>12. rest[i] = <<>> /\ first \in [Batches -> Conns \cup {NoConn}] /\ amount \in [Batches -> Nat]
  BY <1>1, <1>11 DEF RestSound, Working, ListTypes
<1>13. Claim(i)' = {}
  <2>1. pc'[i] = "done" \/ pc'[i] = "dropped"
    BY <1>1, <1>2 DEF Goto, ListTypes
  <2> QED BY <1>2, <1>12, <2>1, NoClaimNext
<1>14. CASE SkipBatch(i)
  <2>1. index = Dispatched(i) => index' = Dispatched(i + 1) /\ Upto(index') \subseteq Upto(index)
    BY <1>6, <1>7, <1>8, <1>14
  <2>2. Goto(i, "done")
    BY <1>8, <1>14
  <2> HIDE DEF listVars, batchVars
  <2> QED BY <1>2, <1>9, <1>12, <1>13, <2>1, <2>2, HandOutStep DEF batchVars
<1>15. CASE DropBatch(i)
  <2>1. Goto(i, "dropped")
    BY <1>8, <1>15
  <2> HIDE DEF listVars, batchVars
  <2> QED BY <1>2, <1>9, <1>12, <1>13, <2>1, HandOutStep DEF batchVars
<1> QED BY <1>14, <1>15

-----------------------------------------------------------------------------
(* The rest of the main thread's tick.                                     *)

LEMMA ListInit ==
  ASSUME Init
  PROVE  ListInv
<1>1. \A i \in Batches : pc[i] = "none" /\ rest[i] = <<>>
  BY DEF Init
<1>2. ListTypes
  BY DEF Init, ListTypes, MainPlaces, Places
<1>3. ListSound
  BY DEF Init, ListSound, Distinct, ToSet, CountMatches
<1>4. RestSound
  BY <1>1 DEF RestSound, Distinct, Closing, Working
<1>5. NoSharing
  BY <1>1 DEF NoSharing, Claim, ToSet
<1>6. QueuedSound
  BY <1>1 DEF QueuedSound
<1>7. PhaseSound
  BY <1>1 DEF PhaseSound, Init
<1>8. OnceSound
  BY <1>1 DEF Init, OnceSound, Upto
<1> QED BY <1>2, <1>3, <1>4, <1>5, <1>6, <1>7, <1>8 DEF ListInv

\* With no batch under way nothing is claimed.
LEMMA Idle ==
  ASSUME ListTypes, RestSound, NEW P, P \subseteq {"none", "done", "dropped"},
         \A i \in Batches : pc[i] \in P
  PROVE  \A i \in Batches : rest[i] = <<>> /\ Claim(i) = {}
BY IdleClaim DEF Working

LEMMA AcceptStep ==
  ASSUME ListInv, NEW c \in Conns, AcceptConnection(c)
  PROVE  ListInv'
<1> USE DEF batchVars
<1>1. ListTypes /\ ListSound /\ RestSound /\ PhaseSound /\ OnceSound
  BY DEF ListInv
<1>2. /\ main = "accept" /\ c \notin live /\ clients' = Append(clients, c)
      /\ client_count' = client_count + 1 /\ live' = live \cup {c}
      /\ UNCHANGED <<main, index, pc, first, amount, rest, served>>
  BY DEF AcceptConnection
<1>3. \A i \in Batches : pc[i] = "none"
  BY <1>1, <1>2 DEF PhaseSound
<1>4. \A i \in Batches : rest[i] = <<>>
  BY <1>1, <1>3, Idle
<1>5. PICK n : n = Len(clients)
  OBVIOUS
<1>6. n \in Nat /\ DOMAIN clients = 1 .. n
  BY <1>1, <1>5, ListLength
<1>7. /\ clients' \in Seq(Conns) /\ Len(clients') = n + 1
      /\ \A k \in 1 .. n : clients'[k] = clients[k]
      /\ clients'[n + 1] = c
  BY <1>1, <1>2, <1>5, AppendProperties DEF ListTypes
<1>8. DOMAIN clients' = 1 .. n + 1
  BY <1>7, LenProperties
<1>9. \A k \in 1 .. n : clients[k] # c
  BY <1>1, <1>2, <1>6 DEF ListSound, ToSet
<1>10. ListTypes'
  BY <1>1, <1>2, <1>7 DEF ListTypes
<1>11. ListSound'
  <2>1. Distinct(clients')
    <3> SUFFICES ASSUME NEW j \in 1 .. n + 1, NEW k \in 1 .. n + 1, clients'[j] = clients'[k]
                 PROVE  j = k
      BY <1>7 DEF Distinct
    <3>1. CASE j = n + 1 \/ k = n + 1
      <4>1. j \in 1 .. n \/ j = n + 1
        BY <1>6
      <4>2. k \in 1 .. n \/ k = n + 1
        BY <1>6
      <4> QED BY <1>7, <1>9, <3>1, <4>1, <4>2
    <3>2. CASE j # n + 1 /\ k # n + 1
      <4>1. j \in 1 .. n /\ k \in 1 .. n
        BY <1>6, <3>2
      <4> QED BY <1>1, <1>5, <1>7, <4>1 DEF ListSound, Distinct
    <3> QED BY <3>1, <3>2
  <2>2. ToSet(clients') \subseteq live'
    <3>1. \A k \in 1 .. n + 1 : k \in 1 .. n \/ k = n + 1
      BY <1>6
    <3>2. \A k \in 1 .. n : clients[k] \in live
      BY <1>1, <1>6 DEF ListSound, ToSet
    <3> QED BY <1>2, <1>7, <1>8, <3>1, <3>2 DEF ToSet
  <2>3. client_count' = Len(clients')
    BY <1>1, <1>2, <1>5, <1>7 DEF ListSound, CountMatches
  <2> QED BY <2>1, <2>2, <2>3 DEF ListSound, CountMatches
<1>12. RestSound'
  BY <1>2, <1>3, <1>4 DEF RestSound, Distinct, Closing, Working
<1>13. NoSharing'
  <2>1. \A i \in Batches : Claim(i)' = {}
    BY <1>2, <1>3, <1>4, NoClaimNext
  <2> QED BY <2>1 DEF NoSharing
<1>14. QueuedSound'
  BY <1>2, <1>3 DEF QueuedSound
<1>15. PhaseSound'
  BY <1>1, <1>2, <1>3 DEF PhaseSound
<1>16. OnceSound'
  BY <1>1, <1>2, <1>3 DEF OnceSound
<1> QED BY <1>10, <1>11, <1>12, <1>13, <1>14, <1>15, <1>16 DEF ListInv

LEMMA ClaimsKept ==
  ASSUME UNCHANGED <<clients, pc, first, amount, rest>>
  PROVE  \A i \in Batches : Claim(i)' = Claim(i)
BY ClaimKept

\* Only the tick's phase moves on.
LEMMA TickStep ==
  ASSUME ListInv, UNCHANGED <<listVars, live, pc, batchVars, rest, served>>,
         main' \in MainPlaces, index' \in Nat, PhaseSound',
         main' # "accept", main' = "serve" => served = {}
  PROVE  ListInv'
<1> USE DEF listVars, batchVars
<1>1. ListTypes /\ ListSound /\ RestSound /\ NoSharing /\ QueuedSound /\ OnceSound
  BY DEF ListInv
<1>2. ListTypes'
  BY <1>1 DEF ListTypes
<1>3. ListSound'
  BY <1>1 DEF ListSound, Distinct, ToSet, CountMatches
<1>4. RestSound'
  BY <1>1 DEF RestSound, Distinct, ToSet, Closing, Current
<1>5. NoSharing'
  BY <1>1, ClaimsKept DEF NoSharing
<1>6. QueuedSound'
  BY <1>1 DEF QueuedSound
<1>7. OnceSound'
  BY <1>1, ClaimsKept DEF OnceSound, Current, ToSet
<1> QED BY <1>2, <1>3, <1>4, <1>5, <1>6, <1>7 DEF ListInv

LEMMA AcceptEndsStep ==
  ASSUME ListInv, AcceptEnds
  PROVE  ListInv'
<1>1. ListTypes /\ RestSound /\ PhaseSound /\ OnceSound
  BY DEF ListInv
<1>2. /\ main = "accept" /\ main' = "serve"
      /\ UNCHANGED <<listVars, live, index, pc, batchVars, rest, served>>
  BY DEF AcceptEnds, connVars
<1>3. UNCHANGED <<clients, pc, first, amount, rest, index>>
  BY <1>2 DEF listVars, batchVars
<1>4. (\A i \in Batches : pc[i] = "none") /\ index = 0
  BY <1>1, <1>2 DEF PhaseSound
<1>5. \A i \in Batches : Claim(i)' = {}
  BY <1>1, <1>3, <1>4, Idle, ClaimsKept
<1>6. ServeSound(0)'
  <2>1. Dispatched(0)' = 0 /\ Upto(index)' = {}
    <3>1. ThreadCount # 0 /\ Len(clients) \div ThreadCount \in Nat
      BY <1>1, ThreadCountAssumption, ListLength, Quotient
    <3>2. 0 * (Len(clients) \div ThreadCount) = 0
      BY <3>1
    <3> QED BY <1>3, <1>4, <3>1, <3>2 DEF Dispatched, Upto
  <2>2. \A k \in Batches : pc'[k] = "none" <=> k >= 0
    BY <1>3, <1>4, ThreadCountAssumption DEF Batches
  <2> QED BY <1>3, <1>4, <1>5, <2>1, <2>2 DEF ServeSound
<1>7. PhaseSound'
  BY <1>2, <1>6, ThreadCountAssumption DEF PhaseSound
<1>8. served = {}
  BY <1>1, <1>2 DEF OnceSound
<1> QED BY <1>1, <1>2, <1>3, <1>4, <1>7, <1>8, TickStep DEF MainPlaces

LEMMA DispatchEndsStep ==
  ASSUME ListInv, DispatchEnds
  PROVE  ListInv'
<1>1. ListTypes /\ PhaseSound
  BY DEF ListInv
<1>2. /\ main = "serve" /\ main' = "wait" /\ index' = 0 /\ \A i \in Batches : pc[i] # "none"
      /\ UNCHANGED <<listVars, live, pc, batchVars, rest, served>>
  BY DEF DispatchEnds, connVars
<1>3. UNCHANGED <<clients, pc, first, amount, rest>>
  BY <1>2 DEF listVars, batchVars
<1>4. PICK n \in 0 .. ThreadCount : ServeSound(n)
  BY <1>1, <1>2 DEF PhaseSound
<1>5. n = ThreadCount
  <2>1. ASSUME n # ThreadCount PROVE FALSE
    <3>1. n \in Batches /\ n >= n
      BY <2>1, ThreadCountAssumption DEF Batches
    <3> QED BY <1>2, <1>4, <3>1 DEF ServeSound
  <2> QED BY <2>1
<1>6. NoneDropped => ToSet(clients) \subseteq Covered
  <2>1. Upto(Len(clients)) = ToSet(clients)
    BY <1>1, ListLength DEF Upto, ToSet
  <2>2. NoneDropped => Upto(Len(clients)) \subseteq Covered
    BY <1>4, <1>5 DEF ServeSound, Dispatched
  <2> QED BY <2>1, <2>2
<1>7. Covered' = Covered /\ NoneDropped' = NoneDropped /\ ToSet(clients') = ToSet(clients)
  BY <1>2, <1>3, ClaimsKept DEF Covered, NoneDropped, ToSet
<1>8. PhaseSound'
  BY <1>2, <1>3, <1>6, <1>7 DEF PhaseSound
<1> QED BY <1>2, <1>8, TickStep DEF MainPlaces

LEMMA WaitEndsStep ==
  ASSUME ListInv, WaitEnds
  PROVE  ListInv'
<1>1. ListTypes /\ PhaseSound
  BY DEF ListInv
<1>2. /\ main = "wait" /\ main' = "clock" /\ \A i \in Batches : pc[i] \in {"done", "dropped"}
      /\ UNCHANGED <<listVars, live, index, pc, batchVars, rest, served>>
  BY DEF WaitEnds, connVars
<1>3. UNCHANGED <<clients, pc, first, amount, rest>>
  BY <1>2 DEF listVars, batchVars
<1>4. Covered' = Covered /\ NoneDropped' = NoneDropped /\ ToSet(clients') = ToSet(clients)
  BY <1>2, <1>3, ClaimsKept DEF Covered, NoneDropped, ToSet
<1>5. PhaseSound'
  BY <1>1, <1>2, <1>4 DEF PhaseSound
<1>6. index' \in Nat
  BY <1>1, <1>2 DEF ListTypes
<1> QED BY <1>2, <1>5, <1>6, TickStep DEF MainPlaces

LEMMA ClockStep ==
  ASSUME ListInv, Clock
  PROVE  ListInv'
<1> USE DEF listVars
<1>1. ListTypes /\ ListSound /\ RestSound /\ PhaseSound
  BY DEF ListInv
<1>2. /\ main = "clock" /\ main' = "accept" /\ pc' = [i \in Batches |-> "none"]
      /\ first' = [i \in Batches |-> NoConn] /\ amount' = [i \in Batches |-> 0] /\ served' = {}
      /\ UNCHANGED <<listVars, live, index, rest>>
  BY DEF Clock, connVars
<1>3. \A i \in Batches : pc[i] \in {"done", "dropped"}
  BY <1>1, <1>2 DEF PhaseSound
<1>4. \A i \in Batches : rest[i] = <<>>
  BY <1>1, <1>3, Idle
<1>5. ListTypes'
  BY <1>1, <1>2 DEF ListTypes, MainPlaces, Places
<1>6. ListSound'
  BY <1>1, <1>2 DEF ListSound, Distinct, ToSet, CountMatches
<1>7. RestSound'
  BY <1>2, <1>4 DEF RestSound, Distinct, Closing, Working
<1>8. NoSharing'
  <2>1. \A i \in Batches : Claim(i)' = {}
    BY <1>2, <1>4, NoClaimNext
  <2> QED BY <2>1 DEF NoSharing
<1>9. QueuedSound'
  BY <1>2 DEF QueuedSound
<1>10. PhaseSound'
  BY <1>1, <1>2 DEF PhaseSound
<1>11. OnceSound'
  BY <1>2 DEF OnceSound
<1> QED BY <1>5, <1>6, <1>7, <1>8, <1>9, <1>10, <1>11 DEF ListInv

-----------------------------------------------------------------------------
(* A thread's steps.                                                       *)

LEMMA QuietLive ==
  ASSUME ListInv, NEW i \in Batches, Quiet(i),
         UNCHANGED <<main, listVars, live, index, batchVars, rest, served>>
  PROVE  ListInv'
<1>1. live' \subseteq Conns /\ ToSet(clients) \subseteq live'
  BY DEF ListInv, ListTypes, ListSound
<1> QED BY <1>1, QuietStep

\* The actions that read, handle and report packets, and what each does to the place.
LEMMA QuietActions ==
  ASSUME NEW i \in Batches,
         \/ SendKeepalive(i) \/ ReadPacket(i) \/ ReadNothing(i) \/ ReadFails(i) \/ ReadFreed(i)
         \/ HandlerOpens(i) \/ HandlerCloses(i) \/ HandlePacket(i) \/ HandlerDies(i)
         \/ Timeout(i) \/ CloseExits(i) \/ CloseStream(i)
  PROVE  Quiet(i) /\ UNCHANGED <<main, listVars, live, index, batchVars, rest, served>>
<1> USE DEF Quiet, At, connVars, Working
<1>1. CASE SendKeepalive(i)
  BY <1>1 DEF SendKeepalive
<1>2. CASE ReadPacket(i)
  BY <1>2 DEF ReadPacket
<1>3. CASE ReadNothing(i)
  BY <1>3 DEF ReadNothing
<1>4. CASE ReadFails(i)
  BY <1>4 DEF ReadFails
<1>5. CASE ReadFreed(i)
  BY <1>5 DEF ReadFreed
<1>6. CASE HandlerOpens(i)
  BY <1>6 DEF HandlerOpens
<1>7. CASE HandlerCloses(i)
  BY <1>7 DEF HandlerCloses
<1>8. CASE HandlePacket(i)
  BY <1>8 DEF HandlePacket
<1>9. CASE HandlerDies(i)
  BY <1>9 DEF HandlerDies
<1>10. CASE Timeout(i)
  BY <1>10 DEF Timeout
<1>11. CASE CloseExits(i)
  BY <1>11 DEF CloseExits
<1>12. CASE CloseStream(i)
  BY <1>12 DEF CloseStream, Closing
<1> QED BY <1>1, <1>2, <1>3, <1>4, <1>5, <1>6, <1>7, <1>8, <1>9, <1>10, <1>11, <1>12

LEMMA NoTimeoutStep ==
  ASSUME ListInv, NEW i \in Batches, NoTimeout(i)
  PROVE  ListInv'
<1>1. /\ pc[i] \in Working /\ NextClient(i)
      /\ UNCHANGED <<main, listVars, live, index, batchVars>>
  BY DEF NoTimeout, At, Working, connVars
<1>2. live' \subseteq Conns /\ ToSet(clients) \subseteq live'
  BY <1>1 DEF ListInv, ListTypes, ListSound
<1> QED BY <1>1, <1>2, AdvanceStep

LEMMA CloseDescriptorStep ==
  ASSUME ListInv, NEW i \in Batches, CloseDescriptor(i)
  PROVE  ListInv'
<1>1. /\ pc[i] = "descriptor" /\ live' = live \ {Current(i)}
      /\ UNCHANGED <<main, listVars, index, batchVars>>
      /\ \/ Goto(i, "read") /\ UNCHANGED <<served, rest>>
         \/ NextClient(i)
  BY DEF CloseDescriptor, At
<1>2. Current(i) \notin ToSet(clients)
  BY <1>1 DEF ListInv, RestSound, Closing
<1>3. live' \subseteq Conns /\ ToSet(clients) \subseteq live'
  BY <1>1, <1>2 DEF ListInv, ListTypes, ListSound
<1>4. pc[i] \in Working
  BY <1>1 DEF Working
<1>5. CASE Goto(i, "read") /\ UNCHANGED <<served, rest>>
  <2>1. Quiet(i)
    BY <1>4, <1>5 DEF Quiet, Working
  <2> QED BY <1>1, <1>3, <1>5, <2>1, QuietStep
<1>6. CASE NextClient(i)
  BY <1>1, <1>3, <1>4, <1>6, AdvanceStep
<1> QED BY <1>1, <1>5, <1>6

LEMMA ListNext ==
  ASSUME ListInv, [Next]_vars
  PROVE  ListInv'
<1>1. CASE MainStep
  <2>1. CASE AcceptLeaks
    <3>1. UNCHANGED <<main, listVars, live, index, batchVars, rest, served, pc>>
      BY <2>1 DEF AcceptLeaks, connVars
    <3>2. 0 \in Batches
      BY ThreadCountAssumption DEF Batches
    <3> QED BY <3>1, <3>2, QuietLive DEF Quiet
  <2> QED BY <1>1, <2>1, AcceptStep, AcceptEndsStep, DispatchEndsStep, WaitEndsStep, ClockStep,
             DispatchStep, SkipOrDropStep DEF MainStep
<1>2. ASSUME NEW i \in Batches, BatchStep(i) PROVE ListInv'
  <2>1. CASE \/ SendKeepalive(i) \/ ReadPacket(i) \/ ReadNothing(i) \/ ReadFails(i) \/ ReadFreed(i)
             \/ HandlerOpens(i) \/ HandlerCloses(i) \/ HandlePacket(i) \/ HandlerDies(i)
             \/ Timeout(i) \/ CloseExits(i) \/ CloseStream(i)
    BY <2>1, QuietActions, QuietLive
  <2> QED BY <1>2, <2>1, StartStep, NoTimeoutStep, RemoveStep, CloseDescriptorStep DEF BatchStep
<1>3. CASE UNCHANGED vars
  <2>1. UNCHANGED <<main, listVars, live, index, batchVars, rest, served, pc>>
    BY <1>3 DEF vars, connVars
  <2>2. 0 \in Batches
    BY ThreadCountAssumption DEF Batches
  <2> QED BY <2>1, <2>2, QuietLive DEF Quiet
<1> QED BY <1>1, <1>2, <1>3 DEF Next

LEMMA ListCorrect == Spec => []ListInv
<1>1. Init => ListInv
  BY ListInit
<1>2. ListInv /\ [Next]_vars => ListInv'
  BY ListNext
<1> QED BY <1>1, <1>2, PTL DEF Spec

-----------------------------------------------------------------------------

\* client_count, which every accept and close counts by hand, is the list's length
\* (network.c:206, 398, 533).
THEOREM CountCorrect == Spec => []CountMatches
<1>1. ListInv => CountMatches
  BY DEF ListInv, ListSound
<1> QED BY <1>1, ListCorrect, PTL

\* The list holds every connection once, and none that is freed or that a thread is past taking
\* off it (network.c:192-218).
THEOREM ListedCorrect == Spec => []ListedAlive
<1>1. ListInv => ListedAlive
  <2> SUFFICES ASSUME ListInv PROVE ListedAlive
    OBVIOUS
  <2>1. DOMAIN clients = 1 .. Len(clients)
    BY ListLength DEF ListInv
  <2>2. ASSUME NEW i \in Batches, Closing(i) PROVE ~Contains(clients, Current(i))
    <3>1. Current(i) \notin ToSet(clients)
      BY <2>2 DEF ListInv, RestSound
    <3> QED BY <2>1, <3>1 DEF Contains, ToSet
  <2> QED BY <2>1, <2>2 DEF ListInv, ListSound, ListedAlive, Distinct
<1> QED BY <1>1, ListCorrect, PTL

\* A batch finds all the entries it was told to take, however the list has been shrunk
\* meanwhile (network.c:517).
THEOREM BatchesCorrect == Spec => []BatchesReadable
<1>1. ListInv => BatchesReadable
  <2> SUFFICES ASSUME ListInv, NEW i \in Batches, pc[i] = "queued", amount[i] > 0
               PROVE  /\ Contains(clients, first[i])
                      /\ Position(first[i]) + amount[i] - 1 <= Len(clients)
    BY DEF BatchesReadable
  <2>1. PICK p \in 1 .. Len(clients) : clients[p] = first[i] /\ p + amount[i] - 1 <= Len(clients)
    BY DEF ListInv, QueuedSound
  <2>2. Position(first[i]) = p
    BY <2>1, PositionOf DEF ListInv, ListSound
  <2> QED BY <2>1, <2>2 DEF Contains
<1> QED BY <1>1, ListCorrect, PTL

\* No two threads ever update one client: the batches are disjoint, whatever is removed while
\* they run (network.c:533-556).
THEOREM SharingCorrect == Spec => []NoSharing
<1>1. ListInv => NoSharing
  BY DEF ListInv
<1> QED BY <1>1, ListCorrect, PTL

\* A tick leaves no client out unless a batch was lost for want of memory (network.c:533-560).
THEOREM TickCorrect == Spec => []TickServesAll
<1>1. ListInv => TickServesAll
  <2> SUFFICES ASSUME ListInv, main = "clock", NoneDropped
               PROVE  ToSet(clients) \subseteq served
    BY DEF TickServesAll, NoneDropped
  <2>1. ListTypes /\ RestSound /\ PhaseSound
    BY DEF ListInv
  <2>2. \A i \in Batches : pc[i] \in {"done", "dropped"}
    BY <2>1 DEF PhaseSound
  <2>3. \A i \in Batches : Claim(i) = {}
    BY <2>1, <2>2, Idle
  <2>4. ToSet(clients) \subseteq Covered
    BY <2>1 DEF PhaseSound
  <2> QED BY <2>3, <2>4 DEF Covered
<1> QED BY <1>1, ListCorrect, PTL
-----------------------------------------------------------------------------
(* The ticks are rounds of visits.                                          *)

LEMMA WorkingPlaces == Working = InUpdate \cup {"update"}
BY DEF Working, InUpdate

LEMMA VisitingOf ==
  /\ \A c : c \in Visiting <=> \E k \in Batches : pc[k] \in InUpdate /\ Current(k) = c
  /\ \A c : c \in Visiting' <=> \E k \in Batches : pc'[k] \in InUpdate /\ Current(k)' = c
BY DEF Visiting

\* A thread keeps to its client, or to having none.
LEMMA VisitingKept ==
  ASSUME \A k \in Batches : /\ pc'[k] \in InUpdate <=> pc[k] \in InUpdate
                            /\ pc[k] \in InUpdate => rest'[k] = rest[k]
  PROVE  Visiting' = Visiting
<1>1. \A k \in Batches : pc[k] \in InUpdate => Current(k)' = Current(k)
  BY DEF Current
<1>2. \A c : c \in Visiting' <=> c \in Visiting
  BY <1>1, VisitingOf
<1> QED BY <1>2

LEMMA VisitBegins ==
  ASSUME NEW i \in Batches, pc[i] \notin InUpdate, pc'[i] \in InUpdate, rest' = rest,
         \A k \in Batches \ {i} : pc'[k] = pc[k]
  PROVE  Visiting' = Visiting \cup {Current(i)}
<1>1. \A k \in Batches : Current(k)' = Current(k)
  BY DEF Current
<1>2. \A c : c \in Visiting' <=> c \in Visiting \cup {Current(i)}
  BY <1>1, VisitingOf
<1> QED BY <1>2

LEMMA VisitEnds ==
  ASSUME ListInv, NEW i \in Batches, pc[i] \in InUpdate, pc'[i] \notin InUpdate,
         \A k \in Batches \ {i} : pc'[k] = pc[k] /\ rest'[k] = rest[k]
  PROVE  Visiting' = Visiting \ {Current(i)}
<1>1. \A k \in Batches \ {i} : Current(k)' = Current(k)
  BY DEF Current
<1>2. \A k \in Batches \ {i} : pc[k] \in InUpdate => Current(k) # Current(i)
  <2> SUFFICES ASSUME NEW k \in Batches \ {i}, pc[k] \in InUpdate PROVE Current(k) # Current(i)
    OBVIOUS
  <2>1. Current(k) \in Claim(k) /\ Current(i) \in Claim(i)
    BY WorkingClaim, WorkingPlaces DEF ListInv
  <2> QED BY <2>1 DEF ListInv, NoSharing
<1>3. \A c : c \in Visiting' <=> c \in Visiting \ {Current(i)}
  BY <1>1, <1>2, VisitingOf
<1> QED BY <1>3

\* While a thread is busy with a batch, a round is on.
LEMMA RoundIsOn ==
  ASSUME ListInv, NEW i \in Batches, pc[i] \in Working
  PROVE  Phase = "round"
<1>1. main \in {"serve", "wait"}
  BY DEF ListInv, ListTypes, MainPlaces, PhaseSound, Working
<1> QED BY <1>1 DEF Phase

LEMMA RoundsStutter ==
  ASSUME clients' = clients, served' = served, Visiting' = Visiting, Phase' = Phase,
         Lossy' <=> Lossy
  PROVE  UNCHANGED Rounds!rvars
<1>1. ToSet(clients)' = ToSet(clients) /\ (served \cup Visiting)' = served \cup Visiting
  BY DEF ToSet
<1>2. Lossy' = Lossy
  BY DEF Lossy
<1> QED BY <1>1, <1>2 DEF Rounds!rvars

\* One thread stays within its visit.
LEMMA VisitGoesOn ==
  ASSUME ListInv, NEW i \in Batches, pc[i] \in InUpdate,
         pc' = pc \/ \E place \in InUpdate : Goto(i, place),
         UNCHANGED <<main, clients, rest, served>>
  PROVE  UNCHANGED Rounds!rvars
<1>1. \A k \in Batches : pc'[k] = pc[k] \/ (pc[k] \in InUpdate /\ pc'[k] \in InUpdate)
  BY DEF ListInv, ListTypes, Goto
<1>2. Visiting' = Visiting
  BY <1>1, VisitingKept
<1>3. Lossy' <=> Lossy
  BY <1>1 DEF Lossy, InUpdate
<1> QED BY <1>2, <1>3, RoundsStutter DEF Phase

\* Nobody is busy, and what the threads do outside their visits nobody sees.
LEMMA OutsideVisits ==
  ASSUME \A k \in Batches : /\ \/ pc'[k] \notin InUpdate /\ pc[k] \notin InUpdate
                               \/ pc'[k] = pc[k] /\ rest'[k] = rest[k]
                            /\ pc'[k] = "dropped" <=> pc[k] = "dropped",
         clients' = clients, served' = served, Phase' = Phase
  PROVE  UNCHANGED Rounds!rvars
<1>1. Visiting' = Visiting
  BY VisitingKept
<1>2. Lossy' <=> Lossy
  BY DEF Lossy
<1> QED BY <1>1, <1>2, RoundsStutter

LEMMA ToSetAppend ==
  ASSUME NEW s \in Seq(Conns), NEW c \in Conns
  PROVE  ToSet(Append(s, c)) = ToSet(s) \cup {c}
<1>1. /\ DOMAIN s = 1 .. Len(s) /\ DOMAIN Append(s, c) = 1 .. Len(s) + 1 /\ Len(s) \in Nat
      /\ \A k \in 1 .. Len(s) : Append(s, c)[k] = s[k]
      /\ Append(s, c)[Len(s) + 1] = c
  BY LenProperties, AppendProperties
<1>2. 1 .. Len(s) + 1 = (1 .. Len(s)) \cup {Len(s) + 1}
  BY <1>1
<1> QED BY <1>1, <1>2 DEF ToSet

LEMMA AcceptJoins ==
  ASSUME ListInv, NEW c \in Conns, AcceptConnection(c)
  PROVE  Rounds!Join(c)
<1> USE DEF batchVars
<1>1. /\ main = "accept" /\ c \notin live /\ clients' = Append(clients, c)
      /\ UNCHANGED <<main, pc, rest, served>>
  BY DEF AcceptConnection
<1>2. ToSet(clients)' = ToSet(clients) \cup {c}
  <2>1. ToSet(clients)' = ToSet(clients')
    BY DEF ToSet
  <2> QED BY <1>1, <2>1, ToSetAppend DEF ListInv, ListTypes
<1>3. c \notin ToSet(clients)
  BY <1>1 DEF ListInv, ListSound
<1>4. Visiting' = Visiting
  BY <1>1, VisitingKept
<1>5. Phase = "open" /\ Phase' = Phase /\ Lossy' = Lossy
  BY <1>1 DEF Phase, Lossy
<1> QED BY <1>1, <1>2, <1>3, <1>4, <1>5 DEF Rounds!Join

LEMMA DropLoses ==
  ASSUME ListInv, NEW i \in Batches, DropBatch(i)
  PROVE  Rounds!LoseVisits
<1>1. /\ main = "serve" /\ pc[i] = "none" /\ pc' = [pc EXCEPT ![i] = "dropped"]
      /\ UNCHANGED <<main, clients, rest, served>>
  <2>1. main = "serve" /\ pc[i] = "none"
    BY DEF DropBatch, NextBatch, Batches
  <2> QED BY <2>1 DEF DropBatch, Goto, listVars
<1>2. /\ pc'[i] = "dropped" /\ \A k \in Batches \ {i} : pc'[k] = pc[k]
  BY <1>1 DEF ListInv, ListTypes
<1>3. Visiting' = Visiting
  BY <1>1, <1>2, VisitingKept DEF InUpdate
<1>4. Phase = "round" /\ Phase' = Phase /\ Lossy' = TRUE
  BY <1>1, <1>2 DEF Phase, Lossy
<1>5. ToSet(clients)' = ToSet(clients)
  BY <1>1 DEF ToSet
<1> QED BY <1>1, <1>3, <1>4, <1>5 DEF Rounds!LoseVisits

LEMMA WaitEndsRound ==
  ASSUME ListInv, WaitEnds
  PROVE  Rounds!EndRound
<1>1. /\ main = "wait" /\ main' = "clock" /\ \A k \in Batches : pc[k] \in {"done", "dropped"}
      /\ UNCHANGED <<clients, pc, rest, served>>
  BY DEF WaitEnds, listVars
<1>2. Visiting = {} /\ Visiting' = Visiting
  <2>1. \A k \in Batches : pc[k] \notin InUpdate
    BY <1>1 DEF InUpdate
  <2> QED BY <1>1, <2>1, VisitingOf
<1>3. Lossy \/ ToSet(clients) \subseteq served
  <2> SUFFICES ASSUME ~Lossy PROVE ToSet(clients) \subseteq served
    OBVIOUS
  <2>1. ToSet(clients) \subseteq Covered
    BY <1>1 DEF ListInv, PhaseSound, NoneDropped, Lossy
  <2>2. \A k \in Batches : Claim(k) = {}
    BY <1>1, IdleClaim DEF ListInv, Working
  <2> QED BY <2>1, <2>2 DEF Covered
<1>4. Phase = "round" /\ Phase' = "over"
  BY <1>1 DEF Phase
<1>5. ToSet(clients)' = ToSet(clients) /\ Lossy' = Lossy
  BY <1>1 DEF ToSet, Lossy
<1> QED BY <1>1, <1>2, <1>3, <1>4, <1>5 DEF Rounds!EndRound

LEMMA ClockStartsRound ==
  ASSUME ListInv, Clock
  PROVE  Rounds!NewRound
<1>1. /\ main = "clock" /\ main' = "accept" /\ pc' = [k \in Batches |-> "none"] /\ served' = {}
      /\ UNCHANGED <<clients, rest>>
  BY DEF Clock, listVars
<1>2. \A k \in Batches : pc[k] \notin InUpdate /\ pc'[k] \notin InUpdate /\ pc'[k] # "dropped"
  BY <1>1 DEF ListInv, PhaseSound, InUpdate
<1>3. Visiting = {} /\ Visiting' = {}
  BY <1>2, VisitingOf
<1>4. Phase = "over" /\ Phase' = "open" /\ Lossy' = FALSE
  BY <1>1, <1>2 DEF Phase, Lossy
<1>5. ToSet(clients)' = ToSet(clients)
  BY <1>1 DEF ToSet
<1> QED BY <1>1, <1>3, <1>4, <1>5 DEF Rounds!NewRound

\* The main thread's other steps.
LEMMA MainRounds ==
  ASSUME ListInv, MainStep
  PROVE  [Rounds!Next]_Rounds!rvars
<1> USE DEF listVars, batchVars
<1>1. CASE \E c \in Conns : AcceptConnection(c)
  BY <1>1, AcceptJoins DEF Rounds!Next
<1>2. CASE AcceptLeaks
  BY <1>2, OutsideVisits DEF AcceptLeaks, Phase
<1>3. CASE AcceptEnds
  <2>1. Phase = "open" /\ Phase' = "round" /\ UNCHANGED <<clients, pc, rest, served>>
    BY <1>3 DEF AcceptEnds, Phase
  <2>2. Visiting' = Visiting /\ Lossy' = Lossy /\ ToSet(clients)' = ToSet(clients)
    BY <2>1, VisitingKept DEF Lossy, ToSet
  <2> QED BY <2>1, <2>2 DEF Rounds!BeginRound, Rounds!Next
<1>4. CASE DispatchEnds
  BY <1>4, OutsideVisits DEF DispatchEnds, Phase
<1>5. CASE WaitEnds
  BY <1>5, WaitEndsRound DEF Rounds!Next
<1>6. CASE Clock
  BY <1>6, ClockStartsRound DEF Rounds!Next
<1>7. ASSUME NEW i \in Batches, DispatchBatch(i) \/ SkipBatch(i) PROVE UNCHANGED Rounds!rvars
  <2>1. /\ pc[i] = "none" /\ \E place \in {"queued", "done"} : pc' = [pc EXCEPT ![i] = place]
        /\ UNCHANGED <<main, clients, rest, served>>
    <3>1. pc[i] = "none"
      BY <1>7 DEF DispatchBatch, SkipBatch, NextBatch, Batches
    <3> QED BY <1>7, <3>1 DEF DispatchBatch, SkipBatch, Goto
  <2>2. pc'[i] \in {"queued", "done"} /\ \A k \in Batches \ {i} : pc'[k] = pc[k]
    BY <2>1 DEF ListInv, ListTypes
  <2>3. \A k \in Batches : /\ \/ pc'[k] \notin InUpdate /\ pc[k] \notin InUpdate
                              \/ pc'[k] = pc[k] /\ rest'[k] = rest[k]
                           /\ pc'[k] = "dropped" <=> pc[k] = "dropped"
    BY <2>1, <2>2 DEF InUpdate
  <2> QED BY <2>1, <2>3, OutsideVisits DEF Phase
<1>8. ASSUME NEW i \in Batches, DropBatch(i) PROVE Rounds!Next
  BY <1>8, DropLoses DEF Rounds!Next
<1> QED BY <1>1, <1>2, <1>3, <1>4, <1>5, <1>6, <1>7, <1>8 DEF MainStep

LEMMA StartRounds ==
  ASSUME ListInv, NEW i \in Batches, StartBatch(i)
  PROVE  UNCHANGED Rounds!rvars
<1>1. /\ pc[i] = "queued" /\ UNCHANGED <<main, clients, served>>
      /\ \E place \in {"done", "update"} : Goto(i, place)
      /\ rest' = rest \/ \E s : rest' = [rest EXCEPT ![i] = s]
  BY DEF StartBatch, At, listVars
<1>2. /\ pc'[i] \in {"done", "update"}
      /\ \A k \in Batches \ {i} : pc'[k] = pc[k] /\ rest'[k] = rest[k]
  BY <1>1 DEF ListInv, ListTypes, Goto
<1>3. \A k \in Batches : /\ \/ pc'[k] \notin InUpdate /\ pc[k] \notin InUpdate
                            \/ pc'[k] = pc[k] /\ rest'[k] = rest[k]
                         /\ pc'[k] = "dropped" <=> pc[k] = "dropped"
  BY <1>1, <1>2 DEF InUpdate
<1> QED BY <1>1, <1>3, OutsideVisits DEF Phase

LEMMA KeepaliveRounds ==
  ASSUME ListInv, NEW i \in Batches, SendKeepalive(i)
  PROVE  Rounds!Visit(Current(i)) \/ UNCHANGED Rounds!rvars
<1>1. pc[i] = "update" /\ UNCHANGED <<main, clients, rest, served>>
  BY DEF SendKeepalive, At, listVars, batchVars
<1>2. CASE pc' = pc
  BY <1>1, <1>2, OutsideVisits DEF Phase
<1>3. ASSUME NEW place \in {"read", "lock"}, Goto(i, place) PROVE Rounds!Visit(Current(i))
  <2>1. pc'[i] = place /\ \A k \in Batches \ {i} : pc'[k] = pc[k]
    BY <1>3 DEF ListInv, ListTypes, Goto
  <2>2. Visiting' = Visiting \cup {Current(i)}
    BY <1>1, <2>1, VisitBegins DEF InUpdate
  <2>3. Current(i) \in ToSet(clients) /\ Current(i) \notin served
    <3>1. Current(i) \in Claim(i)
      BY <1>1, WorkingClaim DEF ListInv, Working
    <3> QED BY <1>1, <3>1 DEF ListInv, OnceSound
  <2>4. Current(i) \notin Visiting
    <3> SUFFICES ASSUME NEW k \in Batches, pc[k] \in InUpdate, Current(k) = Current(i)
                 PROVE  FALSE
      BY VisitingOf
    <3>1. k # i
      BY <1>1 DEF InUpdate
    <3>2. Current(k) \in Claim(k) /\ Current(i) \in Claim(i)
      BY <1>1, WorkingClaim, WorkingPlaces DEF ListInv
    <3> QED BY <3>1, <3>2 DEF ListInv, NoSharing
  <2>5. Phase = "round" /\ Phase' = Phase
    BY <1>1, RoundIsOn DEF Phase, Working
  <2>6. Lossy' = Lossy /\ ToSet(clients)' = ToSet(clients)
    BY <1>1, <2>1 DEF Lossy, ToSet
  <2>7. (served \cup Visiting)' = (served \cup Visiting) \cup {Current(i)}
    BY <1>1, <2>2
  <2> QED BY <2>2, <2>3, <2>4, <2>5, <2>6, <2>7 DEF Rounds!Visit
<1>4. pc' = pc \/ Goto(i, "read") \/ Goto(i, "lock")
  BY DEF SendKeepalive
<1> QED BY <1>2, <1>3, <1>4

LEMMA CloseLeaves ==
  ASSUME ListInv, NEW i \in Batches, CloseRemoves(i)
  PROVE  Rounds!Leave(Current(i))
<1>1. /\ pc[i] = "lock" /\ Contains(clients, Current(i))
      /\ clients' = RemoveAt(clients, Position(Current(i))) /\ pc' = [pc EXCEPT ![i] = "stream"]
      /\ UNCHANGED <<main, rest, served>>
  BY DEF CloseRemoves, At, Goto
<1>2. PICK q \in 1 .. Len(clients) : clients[q] = Current(i)
  BY <1>1 DEF Contains
<1>3. Position(Current(i)) = q
  BY <1>2, PositionOf DEF ListInv, ListSound
<1>4. ToSet(clients') = ToSet(clients) \ {Current(i)}
  BY <1>1, <1>2, <1>3, Removed DEF ListInv, ListSound
<1>5. Current(i) \in ToSet(clients)
  BY <1>2, ListLength DEF ListInv, ToSet
<1>6. pc'[i] = "stream" /\ \A k \in Batches \ {i} : pc'[k] = pc[k]
  BY <1>1 DEF ListInv, ListTypes
<1>7. Visiting' = Visiting /\ Current(i) \in Visiting
  BY <1>1, <1>6, VisitingKept, VisitingOf DEF InUpdate
<1>8. Phase = "round" /\ Phase' = Phase /\ Lossy' = Lossy
  BY <1>1, <1>6, RoundIsOn DEF Phase, Lossy, Working
<1>9. ToSet(clients)' = ToSet(clients) \ {Current(i)}
  BY <1>4 DEF ToSet
<1> QED BY <1>1, <1>5, <1>7, <1>8, <1>9 DEF Rounds!Leave

LEMMA NextEndsVisit ==
  ASSUME ListInv, NEW i \in Batches, pc[i] \in InUpdate, NextClient(i), UNCHANGED <<main, clients>>
  PROVE  Rounds!EndVisit(Current(i))
<1>1. /\ pc'[i] \in {"done", "update"} /\ served' = served \cup {Current(i)}
      /\ \A k \in Batches \ {i} : pc'[k] = pc[k] /\ rest'[k] = rest[k]
  BY DEF NextClient, Goto, ListInv, ListTypes
<1>2. Visiting' = Visiting \ {Current(i)} /\ Current(i) \in Visiting
  BY <1>1, VisitEnds, VisitingOf DEF InUpdate
<1>3. (served \cup Visiting)' = served \cup Visiting
  BY <1>1, <1>2
<1>4. Phase = "round" /\ Phase' = Phase
  BY RoundIsOn, WorkingPlaces DEF Phase
<1>5. Lossy' = Lossy /\ ToSet(clients)' = ToSet(clients)
  BY <1>1 DEF Lossy, InUpdate, ToSet
<1> QED BY <1>2, <1>3, <1>4, <1>5 DEF Rounds!EndVisit

\* What a thread does between taking its client up and being done with it.
LEMMA WithinVisit ==
  ASSUME ListInv, NEW i \in Batches,
         \/ ReadPacket(i) \/ ReadNothing(i) \/ ReadFails(i) \/ ReadFreed(i)
         \/ HandlerOpens(i) \/ HandlerCloses(i) \/ HandlePacket(i) \/ HandlerDies(i)
         \/ Timeout(i) \/ CloseExits(i) \/ CloseStream(i)
  PROVE  UNCHANGED Rounds!rvars
<1>1. UNCHANGED <<main, clients, rest, served>>
  BY DEF ReadPacket, ReadNothing, ReadFails, ReadFreed, HandlerOpens, HandlerCloses, HandlePacket,
         HandlerDies, Timeout, CloseExits, CloseStream, listVars, batchVars
<1>2. pc[i] \in InUpdate
  BY DEF ReadPacket, ReadNothing, ReadFails, ReadFreed, HandlerOpens, HandlerCloses, HandlePacket,
         HandlerDies, Timeout, CloseExits, CloseStream, At, InUpdate
<1>3. pc' = pc \/ \E place \in InUpdate : Goto(i, place)
  BY DEF ReadPacket, ReadNothing, ReadFails, ReadFreed, HandlerOpens, HandlerCloses, HandlePacket,
         HandlerDies, Timeout, CloseExits, CloseStream, InUpdate
<1> QED BY <1>1, <1>2, <1>3, VisitGoesOn

LEMMA BatchRounds ==
  ASSUME ListInv, NEW i \in Batches, BatchStep(i)
  PROVE  [Rounds!Next]_Rounds!rvars
<1>1. CASE StartBatch(i)
  BY <1>1, StartRounds
<1>2. ASSUME pc[i] \in Working, \/ Rounds!Visit(Current(i)) \/ Rounds!Leave(Current(i))
                                \/ Rounds!EndVisit(Current(i))
      PROVE  Rounds!Next
  <2>1. Current(i) \in Conns
    BY <1>2, WorkingClaim DEF ListInv
  <2> QED BY <1>2, <2>1 DEF Rounds!Next
<1>3. CASE SendKeepalive(i)
  BY <1>2, <1>3, KeepaliveRounds DEF SendKeepalive, At, Working
<1>4. CASE NoTimeout(i)
  <2>1. pc[i] = "timeout" /\ NextClient(i) /\ UNCHANGED <<main, clients>>
    BY <1>4 DEF NoTimeout, At, listVars
  <2> QED BY <1>2, <2>1, NextEndsVisit DEF InUpdate, Working
<1>5. CASE CloseRemoves(i)
  BY <1>2, <1>5, CloseLeaves DEF CloseRemoves, At, Working
<1>6. CASE CloseDescriptor(i)
  <2>1. pc[i] = "descriptor" /\ UNCHANGED <<main, clients>>
    BY <1>6 DEF CloseDescriptor, At, listVars
  <2>2. CASE NextClient(i)
    BY <1>2, <2>1, <2>2, NextEndsVisit DEF InUpdate, Working
  <2>3. CASE Goto(i, "read") /\ UNCHANGED <<served, rest>>
    BY <2>1, <2>3, VisitGoesOn DEF InUpdate
  <2> QED BY <1>6, <2>2, <2>3 DEF CloseDescriptor
<1> QED BY <1>1, <1>3, <1>4, <1>5, <1>6, WithinVisit DEF BatchStep

LEMMA RoundsInit ==
  ASSUME Init
  PROVE  Rounds!Init
<1>1. ToSet(clients) = {}
  BY DEF Init, ToSet
<1>2. Visiting = {}
  BY DEF Init, Visiting, InUpdate
<1>3. Phase = "open" /\ Lossy = FALSE
  BY DEF Init, Phase, Lossy
<1> QED BY <1>1, <1>2, <1>3 DEF Init, Rounds!Init

\* Every tick is a round of visits: each client of the list is visited once, by one thread, is taken
\* off by its visitor only, and is visited before the round is over unless memory ran out
\* (serve_clients, serve_client_batch, connection_close).
THEOREM RoundsImplemented == Spec => ImplementsRounds
<1>1. Init => Rounds!Init
  BY RoundsInit
<1>2. ListInv /\ [Next]_vars => [Rounds!Next]_Rounds!rvars
  <2> SUFFICES ASSUME ListInv, [Next]_vars PROVE [Rounds!Next]_Rounds!rvars
    OBVIOUS
  <2>1. CASE UNCHANGED vars
    <3>1. UNCHANGED <<main, clients, pc, rest, served>>
      BY <2>1 DEF vars, listVars
    <3> QED BY <3>1, OutsideVisits DEF Phase
  <2> QED BY <2>1, MainRounds, BatchRounds DEF Next
<1> QED BY <1>1, <1>2, ListCorrect, PTL DEF Spec, ImplementsRounds, Rounds!Spec

-----------------------------------------------------------------------------
(* The descriptors of the clients.                                         *)

\* The descriptors of the listed clients.
Listed == {fd[c] : c \in ToSet(clients)}

\* The number a thread is about to close is no listed client's.
Doomed(i) ==
  /\ Closing(i) => fd[Current(i)] \notin Listed
  /\ pc[i] = "handleOpen" => fd[i] \notin Listed

FdTypes ==
  /\ player \subseteq Conns /\ is_closed \subseteq Conns
  /\ state \in [Conns -> States]
  /\ fd \in [Conns \cup Batches -> Fds] /\ open \subseteq Fds
  /\ after \in [Batches -> {"none", "read", "next"}]
  /\ process \in {"running"} \cup Deaths

FdInv == FdTypes /\ SocketsOwn /\ \A i \in Batches : Doomed(i)

-----------------------------------------------------------------------------
(* The smallest element of a set of numbers.                               *)

LEMMA MinOf ==
  ASSUME NEW T, T \subseteq Nat, T # {}
  PROVE  Min(T) \in T
<1> DEFINE R == OpToRel(<, Nat)
<1>1. IsWellFoundedOn(R, Nat)
  BY NatLessThanWellFounded
<1>2. \A x, y \in Nat : x < y => <<x, y>> \in R
  BY DEF OpToRel
<1> HIDE DEF R
<1>3. PICK x \in T : \A y \in T : ~ (<<y, x>> \in R)
  BY <1>1, WFMin
<1>4. ASSUME NEW y \in T PROVE x <= y
  <2>1. x \in Nat /\ y \in Nat
    OBVIOUS
  <2>2. ~ (<<y, x>> \in R)
    BY <1>3
  <2> QED BY <2>1, <2>2, <1>2
<1> QED BY <1>4 DEF Min

\* accept and open give out a number that nobody has.
LEMMA LowestFreeOf ==
  ASSUME open \subseteq Fds, open # Fds
  PROVE  LowestFree \in Fds /\ LowestFree \notin open
<1>1. Fds \ open \subseteq Nat /\ Fds \ open # {}
  BY FdsAssumption
<1> QED BY <1>1, MinOf DEF LowestFree

LEMMA ResetFd == Min(Fds) \in Fds
BY FdsAssumption, MinOf

-----------------------------------------------------------------------------
(* What a step may do to the descriptors.                                  *)

\* The listed clients keep theirs.
SocketsKept ==
  /\ ToSet(clients') \subseteq ToSet(clients)
  /\ \A c \in ToSet(clients') : fd'[c] = fd[c] /\ (fd[c] \in open => fd[c] \in open')

\* A thread comes to close no number but one it was about to close.
CloserKept(k) ==
  /\ Closing(k)' => Closing(k) /\ Current(k)' = Current(k) /\ fd'[Current(k)] = fd[Current(k)]
  /\ pc'[k] = "handleOpen" => pc[k] = "handleOpen" /\ fd'[k] = fd[k]

LEMMA KeptSockets ==
  ASSUME SocketsOwn, SocketsKept
  PROVE  SocketsOwn' /\ Listed' \subseteq Listed
<1>1. \A c \in ToSet(clients') : c \in ToSet(clients) /\ fd'[c] = fd[c] /\ fd[c] \in open'
  BY DEF SocketsOwn, SocketsKept
<1>2. ToSet(clients)' = ToSet(clients')
  BY DEF ToSet
<1> QED BY <1>1, <1>2 DEF SocketsOwn, Listed

LEMMA KeptCloser ==
  ASSUME NEW k \in Batches, Doomed(k), CloserKept(k), Listed' \subseteq Listed
  PROVE  Doomed(k)'
BY DEF Doomed, CloserKept

LEMMA KeptBoth ==
  ASSUME SocketsOwn, SocketsKept, \A k \in Batches : Doomed(k) /\ CloserKept(k)
  PROVE  SocketsOwn' /\ \A k \in Batches : Doomed(k)'
BY KeptSockets, KeptCloser

\* Nothing happens to the descriptors or the list.
LEMMA StillStep ==
  ASSUME SocketsOwn, \A k \in Batches : Doomed(k), UNCHANGED <<clients, fd>>, open \subseteq open',
         \A k \in Batches : /\ Closing(k)' => Closing(k) /\ rest'[k] = rest[k]
                            /\ pc'[k] = "handleOpen" => pc[k] = "handleOpen"
  PROVE  SocketsOwn' /\ \A k \in Batches : Doomed(k)'
<1>1. SocketsKept
  BY DEF SocketsKept
<1>2. \A k \in Batches : CloserKept(k)
  BY DEF CloserKept, Current
<1> QED BY <1>1, <1>2, KeptBoth

\* One thread moves to a place from which it closes nothing.
Harmless == Places \ {"stream", "descriptor", "handleOpen"}

LEMMA HarmlessMove ==
  ASSUME ListTypes, SocketsOwn, \A k \in Batches : Doomed(k),
         UNCHANGED <<clients, fd>>, open \subseteq open',
         NEW i \in Batches, NEW place \in Harmless, Goto(i, place),
         \A k \in Batches \ {i} : rest'[k] = rest[k]
  PROVE  SocketsOwn' /\ \A k \in Batches : Doomed(k)'
<1>1. pc'[i] = place /\ \A k \in Batches \ {i} : pc'[k] = pc[k]
  BY DEF Goto, ListTypes
<1>2. \A k \in Batches : /\ Closing(k)' => Closing(k) /\ rest'[k] = rest[k]
                         /\ pc'[k] = "handleOpen" => pc[k] = "handleOpen"
  BY <1>1 DEF Closing, Harmless
<1> QED BY <1>2, StillStep

-----------------------------------------------------------------------------
(* The types.                                                              *)

LEMMA CurrentConn ==
  ASSUME ListInv, NEW i \in Batches, pc[i] \in Working
  PROVE  Current(i) \in Conns
BY WorkingClaim DEF ListInv

LEMMA StateAfterTypes ==
  ASSUME NEW s \in States
  PROVE  StatesAfter(s) \subseteq States
BY DEF StatesAfter, States

LEMMA McprCloseTypes ==
  ASSUME FdTypes, NEW c \in Conns, McprClose(c)
  PROVE  is_closed' \subseteq Conns /\ process' \in {"running"} \cup Deaths
<1>1. state[c] \in States
  BY DEF FdTypes
<1>2. CASE c \in is_closed \/ state[c] \in {"handshake", "status"}
  BY <1>2 DEF McprClose, FdTypes
<1>3. CASE ~ (c \in is_closed \/ state[c] \in {"handshake", "status"})
  <2>1. c \notin is_closed /\ state[c] \in {"login", "play"}
    BY <1>1, <1>3 DEF States
  <2> QED BY <1>3, <2>1 DEF McprClose, FdTypes, Deaths
<1> QED BY <1>2, <1>3

-----------------------------------------------------------------------------
(* The main thread's steps.                                                *)

LEMMA AcceptSockets ==
  ASSUME ListInv, FdInv, NEW c \in Conns, AcceptConnection(c)
  PROVE  FdInv'
<1>1. /\ main = "accept" /\ c \notin live /\ open # Fds
      /\ fd' = [fd EXCEPT ![c] = LowestFree] /\ open' = open \cup {LowestFree}
      /\ state' = [state EXCEPT ![c] = "handshake"] /\ clients' = Append(clients, c)
      /\ UNCHANGED <<player, is_closed, pc, after, process>>
  BY DEF AcceptConnection
<1>2. LowestFree \in Fds /\ LowestFree \notin open
  BY <1>1, LowestFreeOf DEF FdInv, FdTypes
<1>3. FdTypes'
  BY <1>1, <1>2 DEF FdInv, FdTypes, States
<1>4. \A k \in Batches : pc'[k] = "none"
  BY <1>1 DEF ListInv, PhaseSound
<1>5. \A k \in Batches : Doomed(k)'
  BY <1>4 DEF Doomed, Closing
<1>6. /\ ToSet(clients)' = ToSet(clients) \cup {c}
      /\ c \notin ToSet(clients) /\ ToSet(clients) \subseteq Conns
  <2>1. clients \in Seq(Conns) /\ ToSet(clients) \subseteq live /\ live \subseteq Conns
    BY DEF ListInv, ListTypes, ListSound
  <2>2. PICK n \in Nat : n = Len(clients)
    BY <2>1, LenProperties
  <2>3. /\ clients' \in Seq(Conns) /\ Len(clients') = n + 1 /\ clients'[n + 1] = c
        /\ \A k \in 1 .. n : clients'[k] = clients[k]
    BY <1>1, <2>1, <2>2, AppendProperties
  <2>4. DOMAIN clients = 1 .. n /\ DOMAIN clients' = 1 .. n + 1
    BY <2>1, <2>2, <2>3, LenProperties
  <2>5. 1 .. n + 1 = (1 .. n) \cup {n + 1}
    BY <2>2
  <2> QED BY <1>1, <2>1, <2>3, <2>4, <2>5 DEF ToSet
<1>7. fd'[c] = LowestFree /\ \A d \in ToSet(clients) : fd'[d] = fd[d] /\ fd'[d] \in open
  BY <1>1, <1>6 DEF FdInv, FdTypes, SocketsOwn
<1>8. SocketsOwn'
  <2>1. \A d \in ToSet(clients)' : fd'[d] \in open'
    BY <1>1, <1>6, <1>7
  <2>2. ASSUME NEW d \in ToSet(clients)', NEW e \in ToSet(clients)', fd'[d] = fd'[e] PROVE d = e
    <3>1. CASE d = c /\ e = c
      BY <3>1
    <3>2. CASE d = c /\ e \in ToSet(clients)
      BY <1>2, <1>7, <2>2, <3>2
    <3>3. CASE d \in ToSet(clients) /\ e = c
      BY <1>2, <1>7, <2>2, <3>3
    <3>4. CASE d \in ToSet(clients) /\ e \in ToSet(clients)
      BY <1>7, <2>2, <3>4 DEF FdInv, SocketsOwn
    <3> QED BY <1>6, <3>1, <3>2, <3>3, <3>4
  <2> QED BY <2>1, <2>2 DEF SocketsOwn
<1> QED BY <1>3, <1>5, <1>8 DEF FdInv

LEMMA LeakSockets ==
  ASSUME ListInv, FdInv, AcceptLeaks
  PROVE  FdInv'
<1>1. /\ open # Fds /\ open' = open \cup {LowestFree}
      /\ UNCHANGED <<clients, player, is_closed, state, fd, pc, rest, after, process>>
  BY DEF AcceptLeaks, listVars, connVars
<1>2. LowestFree \in Fds
  BY <1>1, LowestFreeOf DEF FdInv, FdTypes
<1>3. FdTypes'
  BY <1>1, <1>2 DEF FdInv, FdTypes
<1>4. \A k \in Batches : /\ Closing(k)' => Closing(k) /\ rest'[k] = rest[k]
                         /\ pc'[k] = "handleOpen" => pc[k] = "handleOpen"
  BY <1>1 DEF Closing
<1> QED BY <1>1, <1>3, <1>4, StillStep DEF FdInv

\* The dispatch, the wait and the clock leave the descriptors alone.
LEMMA TickSockets ==
  ASSUME ListInv, FdInv,
         \/ AcceptEnds \/ DispatchEnds \/ WaitEnds \/ Clock
         \/ \E i \in Batches : DispatchBatch(i) \/ SkipBatch(i) \/ DropBatch(i)
  PROVE  FdInv'
<1>1. /\ UNCHANGED <<clients, player, is_closed, state, fd, open, rest, process>>
      /\ UNCHANGED after
  BY DEF AcceptEnds, DispatchEnds, WaitEnds, Clock, DispatchBatch, SkipBatch, DropBatch,
         listVars, connVars, fdVars
<1>2. FdTypes'
  BY <1>1 DEF FdInv, FdTypes
<1>3. CASE pc' = pc
  <2>1. \A k \in Batches : /\ Closing(k)' => Closing(k) /\ rest'[k] = rest[k]
                           /\ pc'[k] = "handleOpen" => pc[k] = "handleOpen"
    BY <1>1, <1>3 DEF Closing
  <2> QED BY <1>1, <1>2, <2>1, StillStep DEF FdInv
<1>4. CASE pc' = [i \in Batches |-> "none"]
  BY <1>1, <1>2, <1>4, StillStep DEF FdInv, Closing
<1>5. ASSUME NEW i \in Batches, NEW place \in {"queued", "done", "dropped"}, Goto(i, place)
      PROVE  FdInv'
  <2>1. place \in Harmless
    BY DEF Harmless, Places
  <2> QED BY <1>1, <1>2, <1>5, <2>1, HarmlessMove DEF FdInv, ListInv
<1>6. \/ pc' = pc
      \/ pc' = [i \in Batches |-> "none"]
      \/ \E i \in Batches : \E place \in {"queued", "done", "dropped"} : Goto(i, place)
  BY DEF AcceptEnds, DispatchEnds, WaitEnds, Clock, DispatchBatch, SkipBatch, DropBatch
<1> QED BY <1>3, <1>4, <1>5, <1>6

-----------------------------------------------------------------------------
(* A thread's steps.                                                       *)

\* Those that neither open nor close a descriptor.
LEMMA ReadSockets ==
  ASSUME ListInv, FdInv, NEW i \in Batches,
         \/ StartBatch(i) \/ SendKeepalive(i)
         \/ ReadPacket(i) \/ ReadNothing(i) \/ ReadFails(i) \/ ReadFreed(i)
         \/ HandlePacket(i) \/ HandlerDies(i) \/ NoTimeout(i) \/ Timeout(i) \/ CloseExits(i)
  PROVE  FdInv'
<1> USE DEF listVars, connVars, fdVars
<1>1. UNCHANGED <<clients, fd, open>> /\ \A k \in Batches \ {i} : rest'[k] = rest[k]
  BY DEF StartBatch, SendKeepalive, ReadPacket, ReadNothing, ReadFails, ReadFreed, HandlePacket,
         HandlerDies, NoTimeout, Timeout, CloseExits, NextClient, ListInv, ListTypes
<1>2. \/ pc' = pc /\ rest' = rest
      \/ \E place \in Harmless : Goto(i, place)
  BY DEF StartBatch, SendKeepalive, ReadPacket, ReadNothing, ReadFails, ReadFreed, HandlePacket,
         HandlerDies, NoTimeout, Timeout, CloseExits, NextClient, Harmless, Places
<1>3. SocketsOwn' /\ \A k \in Batches : Doomed(k)'
  <2>1. CASE pc' = pc /\ rest' = rest
    BY <1>1, <2>1, StillStep DEF FdInv, Closing
  <2>2. CASE \E place \in Harmless : Goto(i, place)
    BY <1>1, <2>2, HarmlessMove DEF FdInv, ListInv
  <2> QED BY <1>2, <2>1, <2>2
<1>4. FdTypes'
  <2>1. CASE HandlePacket(i)
    <3>1. Current(i) \in Conns
      BY <2>1, CurrentConn DEF HandlePacket, At, Working
    <3>2. PICK s \in StatesAfter(state[Current(i)]) :
             /\ state' = [state EXCEPT ![Current(i)] = s]
             /\ player' = IF s = "play" THEN player \cup {Current(i)} ELSE player
      BY <2>1 DEF HandlePacket
    <3>3. s \in States
      BY <3>1, StateAfterTypes DEF FdInv, FdTypes
    <3>4. is_closed' = is_closed /\ after' = [after EXCEPT ![i] = "read"] /\ process' = process
      BY <2>1 DEF HandlePacket
    <3> QED BY <1>1, <3>1, <3>2, <3>3, <3>4 DEF FdInv, FdTypes
  <2>2. CASE ReadFails(i)
    <3>1. Current(i) \in Conns
      BY <2>2, CurrentConn DEF ReadFails, At, Working
    <3>2. \/ McprClose(Current(i))
          \/ process' = "badfree" /\ UNCHANGED is_closed
      BY <2>2 DEF ReadFails
    <3>3. is_closed' \subseteq Conns /\ process' \in {"running"} \cup Deaths
      BY <3>1, <3>2, McprCloseTypes DEF FdInv, FdTypes, Deaths
    <3>4. UNCHANGED <<player, state, after>>
      BY <2>2 DEF ReadFails
    <3> QED BY <1>1, <3>3, <3>4 DEF FdInv, FdTypes
  <2>3. CASE ~HandlePacket(i) /\ ~ReadFails(i)
    <3>1. UNCHANGED <<player, is_closed, state>>
      BY <2>3 DEF StartBatch, SendKeepalive, ReadPacket, ReadNothing, ReadFreed,
                  HandlerDies, NoTimeout, Timeout, CloseExits
    <3>2. after' = after \/ after' = [after EXCEPT ![i] = "next"]
      BY <2>3 DEF StartBatch, SendKeepalive, ReadPacket, ReadNothing, ReadFreed,
                  HandlerDies, NoTimeout, Timeout, CloseExits
    <3>3. process' = process \/ process' \in Deaths
      BY <2>3 DEF StartBatch, SendKeepalive, ReadPacket, ReadNothing, ReadFreed,
                  HandlerDies, NoTimeout, Timeout, CloseExits, Deaths
    <3> QED BY <1>1, <3>1, <3>2, <3>3 DEF FdInv, FdTypes
  <2> QED BY <2>1, <2>2, <2>3
<1> QED BY <1>3, <1>4 DEF FdInv

\* What happens to the descriptors a thread is about to close when another thread moves.
LEMMA OthersKept ==
  ASSUME ListInv, FdInv, NEW i \in Batches, NEW place, Goto(i, place),
         Listed' \subseteq Listed,
         \A k \in Batches \ {i} :
            /\ Closing(k) => rest'[k] = rest[k] /\ fd'[Current(k)] = fd[Current(k)]
            /\ pc[k] = "handleOpen" => fd'[k] = fd[k]
  PROVE  pc'[i] = place /\ \A k \in Batches \ {i} : Doomed(k)'
<1>1. pc'[i] = place /\ \A k \in Batches \ {i} : pc'[k] = pc[k]
  BY DEF Goto, ListInv, ListTypes
<1>2. \A k \in Batches \ {i} : CloserKept(k)
  BY <1>1 DEF CloserKept, Closing, Current
<1> QED BY <1>1, <1>2, KeptCloser DEF FdInv

LEMMA ClosingConn ==
  ASSUME ListInv, NEW k \in Batches, Closing(k)
  PROVE  Current(k) \in Conns
BY CurrentConn DEF Closing, Working

LEMMA ListedConns ==
  ASSUME ListInv
  PROVE  ToSet(clients) \subseteq Conns
BY DEF ListInv, ListTypes, ListSound

LEMMA OpensSockets ==
  ASSUME ListInv, FdInv, NEW i \in Batches, HandlerOpens(i)
  PROVE  FdInv'
<1>1. /\ open # Fds /\ fd' = [fd EXCEPT ![i] = LowestFree] /\ open' = open \cup {LowestFree}
      /\ Goto(i, "handleOpen")
      /\ UNCHANGED <<clients, player, is_closed, state, rest, after, process>>
  BY DEF HandlerOpens, listVars, connVars
<1>2. LowestFree \in Fds /\ LowestFree \notin open
  BY <1>1, LowestFreeOf DEF FdInv, FdTypes
<1>3. /\ fd'[i] = LowestFree /\ fd' \in [Conns \cup Batches -> Fds]
      /\ \A h \in (Conns \cup Batches) \ {i} : fd'[h] = fd[h]
  BY <1>1, <1>2 DEF FdInv, FdTypes
<1>4. FdTypes'
  BY <1>1, <1>2, <1>3 DEF FdInv, FdTypes
<1>5. SocketsKept
  BY <1>1, <1>3, ListedConns, HoldersAssumption DEF SocketsKept, ToSet
<1>6. SocketsOwn' /\ Listed' \subseteq Listed
  BY <1>5, KeptSockets DEF FdInv
<1>7. pc'[i] = "handleOpen" /\ \A k \in Batches \ {i} : Doomed(k)'
  <2>1. \A k \in Batches \ {i} :
            /\ Closing(k) => rest'[k] = rest[k] /\ fd'[Current(k)] = fd[Current(k)]
            /\ pc[k] = "handleOpen" => fd'[k] = fd[k]
    BY <1>1, <1>3, ClosingConn, HoldersAssumption
  <2> QED BY <1>1, <1>6, <2>1, OthersKept
<1>8. Doomed(i)'
  <2>1. Listed \subseteq open
    BY DEF FdInv, SocketsOwn, Listed
  <2>2. fd'[i] \notin Listed'
    BY <1>2, <1>3, <1>6, <2>1
  <2>3. ~ Closing(i)'
    BY <1>7 DEF Closing
  <2> QED BY <2>2, <2>3 DEF Doomed
<1> QED BY <1>4, <1>6, <1>7, <1>8 DEF FdInv

LEMMA ClosesSockets ==
  ASSUME ListInv, FdInv, NEW i \in Batches, HandlerCloses(i)
  PROVE  FdInv'
<1>1. /\ pc[i] = "handleOpen" /\ open' = open \ {fd[i]} /\ fd' = [fd EXCEPT ![i] = Min(Fds)]
      /\ Goto(i, "handled")
      /\ UNCHANGED <<clients, player, is_closed, state, rest, after, process>>
  BY DEF HandlerCloses, At, listVars, connVars
<1>2. fd' \in [Conns \cup Batches -> Fds] /\ \A h \in (Conns \cup Batches) \ {i} : fd'[h] = fd[h]
  BY <1>1, ResetFd DEF FdInv, FdTypes
<1>3. FdTypes'
  BY <1>1, <1>2 DEF FdInv, FdTypes
<1>4. SocketsKept
  <2>1. fd[i] \notin Listed
    BY <1>1 DEF FdInv, Doomed
  <2>2. \A c \in ToSet(clients) : fd[c] # fd[i]
    BY <2>1 DEF Listed
  <2> QED BY <1>1, <1>2, <2>2, ListedConns, HoldersAssumption DEF SocketsKept, ToSet
<1>5. SocketsOwn' /\ Listed' \subseteq Listed
  BY <1>4, KeptSockets DEF FdInv
<1>6. pc'[i] = "handled" /\ \A k \in Batches \ {i} : Doomed(k)'
  <2>1. \A k \in Batches \ {i} :
            /\ Closing(k) => rest'[k] = rest[k] /\ fd'[Current(k)] = fd[Current(k)]
            /\ pc[k] = "handleOpen" => fd'[k] = fd[k]
    BY <1>1, <1>2, ClosingConn, HoldersAssumption
  <2> QED BY <1>1, <1>5, <2>1, OthersKept
<1> QED BY <1>3, <1>5, <1>6 DEF FdInv, Doomed, Closing

LEMMA RemoveSockets ==
  ASSUME ListInv, FdInv, NEW i \in Batches, CloseRemoves(i)
  PROVE  FdInv'
<1>1. /\ Contains(clients, Current(i)) /\ Goto(i, "stream")
      /\ clients' = RemoveAt(clients, Position(Current(i)))
      /\ UNCHANGED <<player, is_closed, state, fd, open, rest, after, process>>
  BY DEF CloseRemoves, connVars, fdVars
<1>2. FdTypes'
  BY <1>1 DEF FdInv, FdTypes
<1>3. PICK q \in 1 .. Len(clients) : clients[q] = Current(i) /\ clients' = RemoveAt(clients, q)
  <2>1. PICK q \in 1 .. Len(clients) : clients[q] = Current(i)
    BY <1>1 DEF Contains
  <2>2. Position(clients[q]) = q
    BY PositionOf DEF ListInv, ListSound
  <2> QED BY <1>1, <2>1, <2>2
<1>4. ToSet(clients') = ToSet(clients) \ {Current(i)} /\ Current(i) \in ToSet(clients)
  <2>1. ToSet(clients') = ToSet(clients) \ {Current(i)}
    BY <1>3, Removed DEF ListInv, ListSound
  <2>2. DOMAIN clients = 1 .. Len(clients)
    BY ListLength DEF ListInv
  <2> QED BY <1>3, <2>1, <2>2 DEF ToSet
<1>5. SocketsKept
  BY <1>1, <1>4 DEF SocketsKept
<1>6. SocketsOwn' /\ Listed' \subseteq Listed
  BY <1>5, KeptSockets DEF FdInv
<1>7. pc'[i] = "stream" /\ \A k \in Batches \ {i} : Doomed(k)'
  BY <1>1, <1>6, OthersKept
<1>8. Doomed(i)'
  <2>1. \A c \in ToSet(clients') : fd[c] # fd[Current(i)]
    BY <1>4 DEF FdInv, SocketsOwn
  <2>2. fd[Current(i)] \notin Listed'
    BY <1>1, <2>1 DEF Listed, ToSet
  <2> QED BY <1>1, <1>7, <2>2 DEF Doomed, Current
<1> QED BY <1>2, <1>6, <1>7, <1>8 DEF FdInv

LEMMA StreamSockets ==
  ASSUME ListInv, FdInv, NEW i \in Batches, CloseStream(i)
  PROVE  FdInv'
<1>1. /\ pc[i] = "stream" /\ McprClose(Current(i))
      /\ \/ Goto(i, "descriptor") /\ open' = open \ {fd[Current(i)]}
         \/ UNCHANGED <<pc, open>>
      /\ UNCHANGED <<clients, player, state, fd, rest, after>>
  BY DEF CloseStream, At, listVars
<1>2. Closing(i) /\ Current(i) \in Conns
  BY <1>1, ClosingConn DEF Closing
<1>3. is_closed' \subseteq Conns /\ process' \in {"running"} \cup Deaths
  BY <1>1, <1>2, McprCloseTypes DEF FdInv
<1>4. FdTypes'
  BY <1>1, <1>3 DEF FdInv, FdTypes
<1>5. SocketsKept
  <2>1. \A c \in ToSet(clients) : fd[c] # fd[Current(i)]
    BY <1>2 DEF FdInv, Doomed, Listed
  <2> QED BY <1>1, <2>1 DEF SocketsKept, ToSet
<1>6. \A k \in Batches : CloserKept(k)
  <2>1. \A k \in Batches : pc'[k] = pc[k] \/ (k = i /\ pc'[k] = "descriptor")
    BY <1>1 DEF Goto, ListInv, ListTypes
  <2> QED BY <1>1, <1>2, <2>1 DEF CloserKept, Closing, Current
<1> QED BY <1>4, <1>5, <1>6, KeptBoth DEF FdInv

LEMMA DescriptorSockets ==
  ASSUME ListInv, FdInv, NEW i \in Batches, CloseDescriptor(i)
  PROVE  FdInv'
<1> DEFINE c == Current(i)
<1>1. /\ pc[i] = "descriptor" /\ open' = open \ {fd[c]} /\ fd' = [fd EXCEPT ![c] = Min(Fds)]
      /\ player' = player \ {c} /\ is_closed' = is_closed \ {c}
      /\ state' = [state EXCEPT ![c] = "handshake"] /\ after' = [after EXCEPT ![i] = "none"]
      /\ UNCHANGED <<clients, process>>
      /\ \A k \in Batches \ {i} : rest'[k] = rest[k]
      /\ \E place \in {"read", "done", "update"} : Goto(i, place)
  BY DEF CloseDescriptor, NextClient, At, listVars, ListInv, ListTypes
<1>2. Closing(i) /\ c \in Conns /\ c \notin ToSet(clients)
  BY <1>1, ClosingConn DEF Closing, ListInv, RestSound
<1>3. fd' \in [Conns \cup Batches -> Fds] /\ \A h \in (Conns \cup Batches) \ {c} : fd'[h] = fd[h]
  BY <1>1, ResetFd DEF FdInv, FdTypes
<1>4. FdTypes'
  <2> HIDE DEF c
  <2> QED BY <1>1, <1>3 DEF FdInv, FdTypes, States
<1>5. SocketsKept
  <2>1. \A d \in ToSet(clients) : fd[d] # fd[c]
    BY <1>2 DEF FdInv, Doomed, Listed
  <2> HIDE DEF c
  <2> QED BY <1>1, <1>2, <1>3, <2>1, ListedConns DEF SocketsKept, ToSet
<1>6. SocketsOwn' /\ Listed' \subseteq Listed
  BY <1>5, KeptSockets DEF FdInv
<1>7. PICK place \in {"read", "done", "update"} : Goto(i, place)
  BY <1>1
<1>8. \A k \in Batches \ {i} : Closing(k) => Current(k) # c
  <2>1. ASSUME NEW k \in Batches \ {i}, Closing(k) PROVE Current(k) # c
    <3>1. Current(k) \in Claim(k) /\ c \in Claim(i)
      BY <1>2, <2>1, WorkingClaim DEF ListInv, Closing, Working
    <3> QED BY <3>1 DEF ListInv, NoSharing
  <2> QED BY <2>1
<1>9. \A k \in Batches \ {i} :
            /\ Closing(k) => rest'[k] = rest[k] /\ fd'[Current(k)] = fd[Current(k)]
            /\ pc[k] = "handleOpen" => fd'[k] = fd[k]
  BY <1>1, <1>2, <1>3, <1>8, ClosingConn, HoldersAssumption
<1>10. pc'[i] = place /\ \A k \in Batches \ {i} : Doomed(k)'
  BY <1>6, <1>7, <1>9, OthersKept
<1> QED BY <1>4, <1>6, <1>7, <1>10 DEF FdInv, Doomed, Closing

-----------------------------------------------------------------------------

LEMMA SocketsNext ==
  ASSUME ListInv, FdInv, [Next]_vars
  PROVE  FdInv'
<1>1. CASE MainStep
  BY <1>1, AcceptSockets, LeakSockets, TickSockets DEF MainStep
<1>2. ASSUME NEW i \in Batches, BatchStep(i) PROVE FdInv'
  BY <1>2, ReadSockets, OpensSockets, ClosesSockets, RemoveSockets, StreamSockets,
     DescriptorSockets DEF BatchStep
<1>3. CASE UNCHANGED vars
  <2>1. UNCHANGED <<clients, player, is_closed, state, fd, open, pc, rest, after, process>>
    BY <1>3 DEF vars, listVars, connVars, fdVars
  <2>2. FdTypes'
    BY <2>1 DEF FdInv, FdTypes
  <2>3. \A k \in Batches : /\ Closing(k)' => Closing(k) /\ rest'[k] = rest[k]
                           /\ pc'[k] = "handleOpen" => pc[k] = "handleOpen"
    BY <2>1 DEF Closing
  <2> QED BY <2>1, <2>2, <2>3, StillStep DEF FdInv
<1> QED BY <1>1, <1>2, <1>3 DEF Next

LEMMA SocketsInit ==
  ASSUME Init
  PROVE  FdInv
<1>1. FdTypes
  BY ResetFd DEF Init, FdTypes, States
<1>2. ToSet(clients) = {}
  BY DEF Init, ToSet
<1> QED BY <1>1, <1>2 DEF Init, FdInv, SocketsOwn, Doomed, Closing

LEMMA FdCorrect == Spec => [](ListInv /\ FdInv)
<1>1. Init => ListInv /\ FdInv
  BY ListInit, SocketsInit
<1>2. ListInv /\ FdInv /\ [Next]_vars => (ListInv /\ FdInv)'
  BY ListNext, SocketsNext
<1> QED BY <1>1, <1>2, PTL DEF Spec

\* Every listed client keeps a descriptor of its own, whoever opens or closes one meanwhile
\* (network.c:209-210, 343).
THEOREM SocketsCorrect == Spec => []SocketsOwn
<1>1. FdInv => SocketsOwn
  BY DEF FdInv
<1> QED BY <1>1, FdCorrect, PTL

\* The server keeps to its types: client_count is never negative, and connections and batches
\* remember descriptors only (network.c:192-218, 343-398).
THEOREM TypeCorrect == Spec => []TypeOK
<1>1. ListInv /\ FdInv => TypeOK
  <2> SUFFICES ASSUME ListInv, FdInv PROVE TypeOK
    OBVIOUS
  <2>1. client_count \in Nat
    BY ListLength DEF ListInv, ListSound, CountMatches
  <2> QED BY <2>1 DEF ListInv, ListTypes, FdInv, FdTypes, TypeOK
<1> QED BY <1>1, FdCorrect, PTL
=============================================================================
