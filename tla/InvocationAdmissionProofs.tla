------------------------ MODULE InvocationAdmissionProofs ------------------------
(***************************************************************************)
(* The invocation admission is correct for any leases, owners and limits:  *)
(* its invariants, the order in which it serves owners, and that it is a    *)
(* pool of permits.                                                        *)
(*                                                                         *)
(* A step of the program changes the counters, the queues and the ring in   *)
(* one of few ways (an "effect" below), whatever lease it is about; what is *)
(* shared by all leases is proved for the effects, and the actions of a     *)
(* lease are shown to have one.                                             *)
(***************************************************************************)
EXTENDS InvocationAdmissionProperties, FiniteSetTheorems, SequenceTheorems, TLAPS

-----------------------------------------------------------------------------
(* Sequences without repetition. *)

LEMMA AppendKeeps ==
  ASSUME NEW S, NEW s \in Seq(S), NEW x \in S
  PROVE  /\ Append(s, x) \in Seq(S) /\ Len(Append(s, x)) = Len(s) + 1
         /\ ToSet(Append(s, x)) = ToSet(s) \union {x}
         /\ IsInjective(s) /\ x \notin ToSet(s) => IsInjective(Append(s, x))
         /\ \A y, z \in S : Precedes(s, y, z) /\ y # x => Precedes(Append(s, x), y, z)
         /\ \A y \in S : x \notin ToSet(s) /\ y # x => Precedes(Append(s, x), y, x)
<1> DEFINE t == Append(s, x)
<1>1. /\ t \in Seq(S) /\ Len(t) = Len(s) + 1 /\ DOMAIN t = 1 .. Len(s) + 1
      /\ DOMAIN s = 1 .. Len(s) /\ Len(s) \in Nat
      /\ \A i \in 1 .. Len(s) : t[i] = s[i]
      /\ t[Len(s) + 1] = x
  OBVIOUS
<1> HIDE DEF t
<1>2. ToSet(t) = ToSet(s) \union {x}
  BY <1>1 DEF ToSet
<1>3. IsInjective(s) /\ x \notin ToSet(s) => IsInjective(t)
  BY <1>1 DEF IsInjective, ToSet
<1>4. \A y, z \in S : Precedes(s, y, z) /\ y # x => Precedes(t, y, z)
  BY <1>1 DEF Precedes
<1>5. \A y \in S : x \notin ToSet(s) /\ y # x => Precedes(t, y, x)
  BY <1>1 DEF Precedes, ToSet
<1> QED BY <1>1, <1>2, <1>3, <1>4, <1>5 DEF t

LEMMA TailKeeps ==
  ASSUME NEW S, NEW s \in Seq(S), s # <<>>, IsInjective(s)
  PROVE  /\ Head(s) \in S /\ Head(s) \in ToSet(s)
         /\ Tail(s) \in Seq(S) /\ Len(Tail(s)) = Len(s) - 1
         /\ ToSet(Tail(s)) = ToSet(s) \ {Head(s)} /\ IsInjective(Tail(s))
         /\ \A y, z \in S : Precedes(s, y, z) => Precedes(Tail(s), y, z)
         /\ \A y \in S : Precedes(s, y, Head(s)) => y \notin ToSet(s)
<1> DEFINE t == Tail(s)
           h == Head(s)
<1>1. /\ t \in Seq(S) /\ Len(t) = Len(s) - 1 /\ DOMAIN t = 1 .. Len(s) - 1
      /\ DOMAIN s = 1 .. Len(s) /\ Len(s) \in Nat \ {0}
      /\ \A i \in 1 .. Len(s) - 1 : t[i] = s[i + 1]
      /\ h = s[1] /\ h \in S
  OBVIOUS
<1> HIDE DEF t, h
<1>2. ToSet(t) = ToSet(s) \ {h}
  <2>1. ASSUME NEW y \in ToSet(t) PROVE y \in ToSet(s) \ {h}
    <3>1. PICK i \in 1 .. Len(s) - 1 : y = s[i + 1]
      BY <1>1, <2>1 DEF ToSet
    <3>2. i + 1 \in DOMAIN s /\ 1 \in DOMAIN s /\ i + 1 # 1
      BY <1>1
    <3> QED BY <1>1, <3>1, <3>2, Zenon DEF ToSet, IsInjective
  <2>2. ASSUME NEW y \in ToSet(s) \ {h} PROVE y \in ToSet(t)
    <3>1. PICK i \in 1 .. Len(s) : y = s[i] /\ i # 1
      BY <1>1 DEF ToSet
    <3>2. i - 1 \in 1 .. Len(s) - 1 /\ t[i - 1] = y
      BY <1>1, <3>1
    <3> QED BY <1>1, <3>2 DEF ToSet
  <2> QED BY <2>1, <2>2
<1>3. IsInjective(t)
  BY <1>1 DEF IsInjective
<1>4. ASSUME NEW y \in S, NEW z \in S, Precedes(s, y, z) PROVE Precedes(t, y, z)
  <2> SUFFICES ASSUME NEW i \in 1 .. Len(s) - 1, NEW j \in 1 .. Len(s) - 1,
                      t[i] = y, t[j] = z
               PROVE  i < j
    BY <1>1 DEF Precedes
  <2>1. s[i + 1] = y /\ s[j + 1] = z /\ i + 1 \in DOMAIN s /\ j + 1 \in DOMAIN s
    BY <1>1
  <2> QED BY <1>4, <2>1 DEF Precedes
<1>5. \A y \in S : Precedes(s, y, h) => y \notin ToSet(s)
  BY <1>1 DEF Precedes, ToSet
<1>6. h \in ToSet(s)
  BY <1>1 DEF ToSet
<1> QED BY <1>1, <1>2, <1>3, <1>4, <1>5, <1>6 DEF t, h

LEMMA RemoveAtKeeps ==
  ASSUME NEW S, NEW s \in Seq(S), IsInjective(s), NEW k \in 1 .. Len(s)
  PROVE  /\ RemoveAt(s, k) \in Seq(S) /\ Len(RemoveAt(s, k)) = Len(s) - 1
         /\ ToSet(RemoveAt(s, k)) = ToSet(s) \ {s[k]} /\ IsInjective(RemoveAt(s, k))
         /\ \A y, z \in S : Precedes(s, y, z) => Precedes(RemoveAt(s, k), y, z)
<1> DEFINE t == RemoveAt(s, k)
           from(i) == IF i < k THEN i ELSE i + 1
<1>1. /\ t \in Seq(S) /\ Len(t) = Len(s) - 1 /\ DOMAIN t = 1 .. Len(s) - 1
      /\ DOMAIN s = 1 .. Len(s) /\ Len(s) \in Nat \ {0} /\ k \in Nat
      /\ \A i \in 1 .. Len(s) - 1 : t[i] = s[from(i)]
  <2> DEFINE u == SubSeq(s, 1, k - 1)
             v == SubSeq(s, k + 1, Len(s))
  <2>1. /\ u \in Seq(S) /\ Len(u) = k - 1 /\ \A i \in 1 .. k - 1 : u[i] = s[i]
        /\ v \in Seq(S) /\ Len(v) = Len(s) - k
        /\ \A i \in 1 .. Len(s) - k : v[i] = s[k + i]
    OBVIOUS
  <2>2. t = u \o v
    BY DEF RemoveAt
  <2> HIDE DEF t, u, v
  <2>3. /\ t \in Seq(S) /\ Len(t) = Len(s) - 1
        /\ \A i \in 1 .. Len(s) - 1 : t[i] = IF i <= k - 1 THEN u[i] ELSE v[i - (k - 1)]
    <3>1. k - 1 \in Nat /\ Len(s) - k \in Nat /\ (k - 1) + (Len(s) - k) = Len(s) - 1
      OBVIOUS
    <3>2. /\ u \o v \in Seq(S) /\ Len(u \o v) = Len(u) + Len(v)
          /\ \A i \in 1 .. Len(u) + Len(v) :
                (u \o v)[i] = IF i <= Len(u) THEN u[i] ELSE v[i - Len(u)]
      BY <2>1, ConcatProperties, Zenon
    <3>3. Len(u) + Len(v) = Len(s) - 1
      BY <2>1, <3>1
    <3> QED BY <2>1, <2>2, <3>2, <3>3, Zenon
  <2>4. ASSUME NEW i \in 1 .. Len(s) - 1 PROVE t[i] = s[from(i)]
    <3>1. CASE i <= k - 1
      <4>1. i \in 1 .. k - 1 /\ i < k
        BY <3>1
      <4>2. t[i] = u[i] /\ u[i] = s[i]
        BY <2>1, <2>3, <3>1, <4>1, Zenon
      <4> QED BY <4>1, <4>2, Zenon
    <3>2. CASE i > k - 1
      <4>1. i - (k - 1) \in 1 .. Len(s) - k /\ ~(i <= k - 1) /\ ~(i < k)
        BY <3>2
      <4>2. k + (i - (k - 1)) = i + 1
        BY <3>2
      <4>3. v[i - (k - 1)] = s[k + (i - (k - 1))]
        BY <2>1, <4>1, Zenon
      <4>4. t[i] = v[i - (k - 1)]
        BY <2>3, <4>1, Zenon
      <4> QED BY <4>1, <4>2, <4>3, <4>4, Zenon
    <3> QED BY <3>1, <3>2
  <2>5. DOMAIN t = 1 .. Len(s) - 1 /\ DOMAIN s = 1 .. Len(s)
    BY <2>3
  <2>6. Len(s) \in Nat \ {0} /\ k \in Nat
    OBVIOUS
  <2> QED BY <2>3, <2>4, <2>5, <2>6, Zenon
<1> HIDE DEF t
<1>2. /\ \A i \in 1 .. Len(s) - 1 : from(i) \in 1 .. Len(s) /\ from(i) # k
      /\ \A i, j \in 1 .. Len(s) - 1 : i < j <=> from(i) < from(j)
      /\ \A i, j \in 1 .. Len(s) - 1 : from(i) = from(j) => i = j
      /\ \A i \in 1 .. Len(s) : i # k => \E j \in 1 .. Len(s) - 1 : from(j) = i
  <2>1. ASSUME NEW i \in 1 .. Len(s), i # k PROVE \E j \in 1 .. Len(s) - 1 : from(j) = i
    <3>1. CASE i < k
      BY <1>1, <3>1
    <3>2. CASE i > k
      <4>1. i - 1 \in 1 .. Len(s) - 1 /\ from(i - 1) = i
        BY <1>1, <3>2
      <4> QED BY <4>1
    <3> QED BY <1>1, <2>1, <3>1, <3>2
  <2> QED BY <1>1, <2>1
<1> HIDE DEF from
<1>3. ToSet(t) = ToSet(s) \ {s[k]}
  <2>1. ASSUME NEW y \in ToSet(t) PROVE y \in ToSet(s) \ {s[k]}
    <3>1. PICK i \in 1 .. Len(s) - 1 : y = s[from(i)]
      BY <1>1, <2>1, Zenon DEF ToSet
    <3>2. from(i) \in DOMAIN s /\ k \in DOMAIN s /\ from(i) # k
      BY <1>1, <1>2
    <3> QED BY <3>1, <3>2, Zenon DEF ToSet, IsInjective
  <2>2. ASSUME NEW y \in ToSet(s) \ {s[k]} PROVE y \in ToSet(t)
    <3>1. PICK i \in 1 .. Len(s) : y = s[i] /\ i # k
      BY <1>1, <2>2, Zenon DEF ToSet
    <3>2. PICK j \in 1 .. Len(s) - 1 : from(j) = i
      BY <1>2, <3>1, Zenon
    <3> QED BY <1>1, <3>1, <3>2, Zenon DEF ToSet
  <2> QED BY <2>1, <2>2, Zenon
<1>4. IsInjective(t)
  BY <1>1, <1>2, Zenon DEF IsInjective
<1>5. \A y, z \in S : Precedes(s, y, z) => Precedes(t, y, z)
  <2> SUFFICES ASSUME NEW y \in S, NEW z \in S, Precedes(s, y, z),
                      NEW i \in 1 .. Len(s) - 1, NEW j \in 1 .. Len(s) - 1,
                      t[i] = y, t[j] = z
               PROVE  i < j
    BY <1>1, Zenon DEF Precedes
  <2>1. s[from(i)] = y /\ s[from(j)] = z /\ from(i) \in DOMAIN s /\ from(j) \in DOMAIN s
    BY <1>1, <1>2, Zenon
  <2>2. from(i) < from(j)
    BY <2>1, Zenon DEF Precedes
  <2> QED BY <1>2, <2>2, Zenon
<1> QED BY <1>1, <1>3, <1>4, <1>5 DEF t

-----------------------------------------------------------------------------
(* Counting leases. *)

Of(S, o) == {l \in S : OwnerOf[l] = o}

LEMMA LeasesAreFinite ==
  ASSUME NEW S \in SUBSET Lease
  PROVE  IsFiniteSet(S) /\ Cardinality(S) \in Nat
BY AdmissionAssumption, FS_Subset, FS_CardinalityType

LEMMA OneMore ==
  ASSUME NEW S \in SUBSET Lease, NEW l \in Lease, l \notin S
  PROVE  /\ Cardinality(S \union {l}) = Cardinality(S) + 1
         /\ \A o : Cardinality(Of(S \union {l}, o)) =
                Cardinality(Of(S, o)) + (IF o = OwnerOf[l] THEN 1 ELSE 0)
<1>1. Cardinality(S \union {l}) = Cardinality(S) + 1
  BY LeasesAreFinite, FS_AddElement
<1>2. ASSUME NEW o PROVE Cardinality(Of(S \union {l}, o)) =
                Cardinality(Of(S, o)) + (IF o = OwnerOf[l] THEN 1 ELSE 0)
  <2>1. Of(S, o) \in SUBSET Lease /\ l \notin Of(S, o)
    BY DEF Of
  <2>2. IsFiniteSet(Of(S, o)) /\ Cardinality(Of(S, o)) \in Nat
    BY <2>1, LeasesAreFinite
  <2>3. CASE o = OwnerOf[l]
    <3>1. Of(S \union {l}, o) = Of(S, o) \union {l}
      BY <2>3 DEF Of
    <3> QED BY <2>1, <2>2, <2>3, <3>1, FS_AddElement
  <2>4. CASE o # OwnerOf[l]
    <3>1. Of(S \union {l}, o) = Of(S, o)
      BY <2>4 DEF Of
    <3> QED BY <2>2, <2>4, <3>1
  <2> QED BY <2>3, <2>4
<1> QED BY <1>1, <1>2

LEMMA OneLess ==
  ASSUME NEW S \in SUBSET Lease, NEW l \in S
  PROVE  /\ Cardinality(S \ {l}) = Cardinality(S) - 1
         /\ \A o : Cardinality(Of(S \ {l}, o)) =
                Cardinality(Of(S, o)) - (IF o = OwnerOf[l] THEN 1 ELSE 0)
<1>1. S \ {l} \in SUBSET Lease /\ l \in Lease /\ l \notin S \ {l} /\ (S \ {l}) \union {l} = S
  OBVIOUS
<1>2. /\ Cardinality(S) = Cardinality(S \ {l}) + 1
      /\ \A o : Cardinality(Of(S, o)) =
                Cardinality(Of(S \ {l}, o)) + (IF o = OwnerOf[l] THEN 1 ELSE 0)
  <2> DEFINE R == S \ {l}
  <2> HIDE DEF R
  <2>1. /\ Cardinality(R \union {l}) = Cardinality(R) + 1
        /\ \A o : Cardinality(Of(R \union {l}, o)) =
                Cardinality(Of(R, o)) + (IF o = OwnerOf[l] THEN 1 ELSE 0)
    BY <1>1, OneMore, Zenon DEF R
  <2> QED BY <1>1, <2>1 DEF R
<1>3. \A o : Of(S \ {l}, o) \in SUBSET Lease
  BY DEF Of
<1>4. Cardinality(S \ {l}) \in Nat /\ \A o : Cardinality(Of(S \ {l}, o)) \in Nat
  BY <1>1, <1>3, LeasesAreFinite
<1>5. Cardinality(S \ {l}) = Cardinality(S) - 1
  BY <1>2, <1>4
<1>6. ASSUME NEW o PROVE Cardinality(Of(S \ {l}, o)) =
                Cardinality(Of(S, o)) - (IF o = OwnerOf[l] THEN 1 ELSE 0)
  <2>1. /\ Cardinality(Of(S, o)) = Cardinality(Of(S \ {l}, o)) + (IF o = OwnerOf[l] THEN 1 ELSE 0)
        /\ Cardinality(Of(S \ {l}, o)) \in Nat
    BY <1>2, <1>4, Zenon
  <2> DEFINE x == Cardinality(Of(S \ {l}, o))
             y == Cardinality(Of(S, o))
  <2> HIDE DEF x, y
  <2>2. y = x + (IF o = OwnerOf[l] THEN 1 ELSE 0) /\ x \in Nat
    BY <2>1 DEF x, y
  <2>3. x = y - (IF o = OwnerOf[l] THEN 1 ELSE 0)
    BY <2>2
  <2> QED BY <2>3 DEF x, y
<1> QED BY <1>5, <1>6

\* The counters say how many leases of S hold a permit and how many of W wait.
CountersFit(S, W) ==
  /\ active = Cardinality(S) /\ active <= Capacity
  /\ \A o \in Owners : activeOf[o] = Cardinality(Of(S, o)) /\ activeOf[o] <= Limit
  /\ pending = Cardinality(W) /\ pending <= MaxPending

LEMMA AccountsOfSets ==
  /\ PermitsAccounted <=> CountersFit(Out, Waiters)
  /\ PermitsAccounted' <=> CountersFit(Out, Waiters)'
  /\ Out \in SUBSET Lease /\ Waiters \in SUBSET Lease
BY DEF PermitsAccounted, CountersFit, Out, OutOf, Of, Waiters

-----------------------------------------------------------------------------
(* The effects of a step on what the leases share. *)

\* Nothing changes.
Same ==
  UNCHANGED <<queue, ring, counters, round>> /\ Out' = Out /\ Waiters' = Waiters

\* A permit goes out without waiting.
Takes(l) ==
  /\ Free /\ active < Capacity /\ pending = 0 /\ activeOf[OwnerOf[l]] < Limit
  /\ GrantPermit(OwnerOf[l]) /\ UNCHANGED <<queue, ring, pending, round>>
  /\ l \notin Out /\ Out' = Out \union {l} /\ Waiters' = Waiters

Joins(l) ==
  /\ Free /\ pending < MaxPending /\ Enqueue(l)
  /\ l \notin Waiters /\ Waiters' = Waiters \union {l} /\ Out' = Out

GivesBack(l) ==
  /\ Free /\ ReleasePermit(OwnerOf[l])
  /\ l \in Out /\ Out' = Out \ {l} /\ Waiters' = Waiters

Leaves(l) ==
  /\ Free /\ Unqueue(l)
  /\ l \in Waiters /\ Waiters' = Waiters \ {l} /\ Out' = Out

\* The first waiter of the owner at the head of the ring.
First == Head(queue[Head(ring)])

Serves ==
  /\ round.on /\ round.left > 0 /\ active < Capacity /\ Serve
  /\ First \in Waiters /\ First \notin Out /\ OwnerOf[First] = Head(ring)
  /\ Waiters' = Waiters \ {First} /\ Out' = Out \union {First}

Passes ==
  round.on /\ round.left > 0 /\ active < Capacity /\ Skip /\ Out' = Out /\ Waiters' = Waiters

Turns == Rounds /\ Out' = Out /\ Waiters' = Waiters

Empties ==
  /\ Free /\ UNCHANGED <<active, activeOf, round>>
  /\ queue' = [o \in Owners |-> <<>>] /\ ring' = <<>> /\ pending' = 0
  /\ Out' = Out /\ Waiters' = {}

Effect(l) ==
  \/ Same \/ Takes(l) \/ Joins(l) \/ GivesBack(l) \/ Leaves(l)
  \/ Serves \/ Passes \/ Turns \/ Empties

LEMMA OwnersOfLeases == \A l \in Lease : OwnerOf[l] \in Owners
BY DEF Owners

\* What a step of one lease does to the counters.
LEMMA PermitsKept ==
  ASSUME AdmissionTypeOK, PermitsAccounted, NEW l \in Lease, Effect(l)
  PROVE  PermitsAccounted'
<1> DEFINE S == Out
           W == Waiters
<1>1. CountersFit(S, W) /\ S \in SUBSET Lease /\ W \in SUBSET Lease
  BY AccountsOfSets
<1>2. /\ active \in Nat /\ activeOf \in [Owners -> Nat] /\ pending \in Nat
      /\ Capacity \in Nat /\ Limit \in Nat /\ MaxPending \in Nat
  BY AdmissionAssumption DEF AdmissionTypeOK
<1>3. \A m \in Lease : OwnerOf[m] \in Owners
  BY OwnersOfLeases
<1> SUFFICES CountersFit(S, W)'
  BY AccountsOfSets
<1> USE DEF CountersFit
<1>same. CASE Same \/ Turns \/ Passes
  BY <1>1, <1>same DEF Same, Turns, Passes, Rounds, Skip, counters
<1>takes. CASE Takes(l)
  <2>1. /\ Cardinality(S \union {l}) = Cardinality(S) + 1
        /\ \A o : Cardinality(Of(S \union {l}, o)) =
               Cardinality(Of(S, o)) + (IF o = OwnerOf[l] THEN 1 ELSE 0)
    BY <1>1, <1>takes, OneMore DEF Takes
  <2> HIDE DEF S, W
  <2>2. /\ S' = S \union {l} /\ W' = W /\ active' = active + 1 /\ active < Capacity
        /\ activeOf' = [activeOf EXCEPT ![OwnerOf[l]] = @ + 1] /\ pending' = pending
        /\ activeOf[OwnerOf[l]] < Limit
    BY <1>takes DEF Takes, GrantPermit, S, W
  <2> QED BY <1>1, <1>2, <1>3, <2>1, <2>2
<1>joins. CASE Joins(l)
  <2>1. Cardinality(W \union {l}) = Cardinality(W) + 1
    BY <1>1, <1>joins, OneMore DEF Joins
  <2> HIDE DEF S, W
  <2>2. /\ S' = S /\ W' = W \union {l} /\ UNCHANGED <<active, activeOf>>
        /\ pending' = pending + 1 /\ pending < MaxPending
    BY <1>joins DEF Joins, Enqueue, S, W
  <2> QED BY <1>1, <1>2, <2>1, <2>2
<1>back. CASE GivesBack(l)
  <2>1. /\ Cardinality(S \ {l}) = Cardinality(S) - 1
        /\ \A o : Cardinality(Of(S \ {l}, o)) =
               Cardinality(Of(S, o)) - (IF o = OwnerOf[l] THEN 1 ELSE 0)
    BY <1>1, <1>back, OneLess DEF GivesBack
  <2> HIDE DEF S, W
  <2>2. /\ S' = S \ {l} /\ W' = W /\ active' = active - 1
        /\ activeOf' = [activeOf EXCEPT ![OwnerOf[l]] = @ - 1] /\ pending' = pending
    BY <1>back DEF GivesBack, ReleasePermit, S, W
  <2>3. active' = Cardinality(S') /\ active' <= Capacity /\ pending' = Cardinality(W')
    BY <1>1, <1>2, <2>1, <2>2
  <2>4. ASSUME NEW o \in Owners PROVE activeOf'[o] = Cardinality(Of(S', o)) /\ activeOf'[o] <= Limit
    <3>1. activeOf[o] = Cardinality(Of(S, o)) /\ activeOf[o] <= Limit /\ activeOf[o] \in Nat
      BY <1>1, <1>2
    <3>2. Cardinality(Of(S', o)) = activeOf[o] - (IF o = OwnerOf[l] THEN 1 ELSE 0)
      BY <2>1, <2>2, <3>1, Zenon
    <3>3. activeOf'[o] = IF o = OwnerOf[l] THEN activeOf[o] - 1 ELSE activeOf[o]
      BY <1>2, <1>3, <2>2, Zenon
    <3>4. activeOf'[o] = activeOf[o] - (IF o = OwnerOf[l] THEN 1 ELSE 0)
      BY <3>1, <3>3
    <3> QED BY <1>2, <3>1, <3>2, <3>4
  <2> QED BY <1>1, <2>2, <2>3, <2>4
<1>leaves. CASE Leaves(l)
  <2>1. Cardinality(W \ {l}) = Cardinality(W) - 1
    BY <1>1, <1>leaves, OneLess DEF Leaves
  <2> HIDE DEF S, W
  <2>2. /\ S' = S /\ W' = W \ {l} /\ UNCHANGED <<active, activeOf>>
        /\ pending' = pending - 1
    BY <1>leaves DEF Leaves, Unqueue, S, W
  <2> QED BY <1>1, <1>2, <2>1, <2>2
<1>serves. CASE Serves
  <2> DEFINE m == First
  <2>1. m \in W /\ m \notin S /\ m \in Lease
    BY <1>1, <1>serves DEF Serves
  <2>2. /\ Cardinality(S \union {m}) = Cardinality(S) + 1
        /\ \A o : Cardinality(Of(S \union {m}, o)) =
               Cardinality(Of(S, o)) + (IF o = OwnerOf[m] THEN 1 ELSE 0)
        /\ Cardinality(W \ {m}) = Cardinality(W) - 1
    <3> HIDE DEF S, W, m
    <3> QED BY <1>1, <2>1, OneMore, OneLess
  <2>3. /\ S' = S \union {m} /\ W' = W \ {m} /\ active' = active + 1 /\ active < Capacity
        /\ activeOf' = [activeOf EXCEPT ![OwnerOf[m]] = @ + 1] /\ pending' = pending - 1
        /\ activeOf[OwnerOf[m]] < Limit
    BY <1>serves DEF Serves, Serve, GrantPermit, First
  <2> HIDE DEF S, W, m
  <2>4. active' = Cardinality(S') /\ active' <= Capacity /\ pending' = Cardinality(W')
    BY <1>1, <1>2, <2>2, <2>3
  <2>5. ASSUME NEW o \in Owners PROVE activeOf'[o] = Cardinality(Of(S', o)) /\ activeOf'[o] <= Limit
    <3>1. activeOf[o] = Cardinality(Of(S, o)) /\ activeOf[o] <= Limit /\ activeOf[o] \in Nat
      BY <1>1, <1>2
    <3>2. Cardinality(Of(S', o)) = activeOf[o] + (IF o = OwnerOf[m] THEN 1 ELSE 0)
      BY <2>2, <2>3, <3>1, Zenon
    <3>3. activeOf'[o] = IF o = OwnerOf[m] THEN activeOf[o] + 1 ELSE activeOf[o]
      BY <1>2, <1>3, <2>1, <2>3, Zenon
    <3>4. activeOf'[o] = activeOf[o] + (IF o = OwnerOf[m] THEN 1 ELSE 0)
      BY <3>1, <3>3
    <3> QED BY <1>2, <2>3, <3>1, <3>2, <3>4
  <2>6. pending' <= MaxPending
    <3>1. pending <= MaxPending
      BY <1>1
    <3> QED BY <1>2, <2>3, <3>1
  <2> QED BY <2>4, <2>5, <2>6
<1>empties. CASE Empties
  <2>1. Cardinality({}) = 0
    BY FS_EmptySet
  <2> HIDE DEF S, W
  <2>2. S' = S /\ W' = {} /\ UNCHANGED <<active, activeOf>> /\ pending' = 0
    BY <1>empties DEF Empties, S, W
  <2> QED BY <1>1, <1>2, <2>1, <2>2
<1> QED
  BY <1>same, <1>takes, <1>joins, <1>back, <1>leaves, <1>serves, <1>empties DEF Effect

-----------------------------------------------------------------------------
(* The queues and the ring. *)

\* q and r hold the waiters W and their owners.
QueuesFit(q, r, W) ==
  /\ q \in [Owners -> Seq(Lease)] /\ r \in Seq(Owners)
  /\ IsInjective(r) /\ \A o \in Owners : o \in ToSet(r) <=> q[o] # <<>>
  /\ \A o \in Owners : IsInjective(q[o]) /\ ToSet(q[o]) = Of(W, o)

LEMMA RangeOfSequence ==
  ASSUME NEW S, NEW s \in Seq(S)
  PROVE  /\ ToSet(s) \in SUBSET S
         /\ s = <<>> <=> Len(s) = 0
         /\ s = <<>> <=> ToSet(s) = {}
         /\ s # <<>> => Head(s) \in ToSet(s)
<1>1. DOMAIN s = 1 .. Len(s) /\ Len(s) \in Nat /\ \A i \in 1 .. Len(s) : s[i] \in S
  OBVIOUS
<1>2. s = <<>> <=> Len(s) = 0
  OBVIOUS
<1>3. s # <<>> => Head(s) = s[1] /\ 1 \in DOMAIN s
  BY <1>1, <1>2
<1>4. s = <<>> => ToSet(s) = {}
  BY <1>1, <1>2 DEF ToSet
<1>5. s # <<>> => Head(s) \in ToSet(s)
  BY <1>3 DEF ToSet
<1>6. ToSet(s) \in SUBSET S
  BY <1>1 DEF ToSet
<1> QED BY <1>2, <1>4, <1>5, <1>6, Zenon

LEMMA QueuesOfState ==
  /\ AdmissionTypeOK /\ OwnersQueued => QueuesFit(queue, ring, Waiters)
  /\ QueuesFit(queue', ring', Waiters') => OwnersQueued'
<1>1. ASSUME AdmissionTypeOK, OwnersQueued PROVE QueuesFit(queue, ring, Waiters)
  BY <1>1 DEF AdmissionTypeOK, OwnersQueued, QueuesFit, Of, Waiting
<1>2. ASSUME QueuesFit(queue', ring', Waiters') PROVE OwnersQueued'
  <2>1. ToSet(ring') \in SUBSET Owners
    BY <1>2, RangeOfSequence DEF QueuesFit
  <2>2. ToSet(ring') = {o \in Owners : queue'[o] # <<>>}
    BY <1>2, <2>1 DEF QueuesFit
  <2>3. \A o \in Owners : IsInjective(queue'[o])
                       /\ ToSet(queue'[o]) = {l \in Waiters' : OwnerOf[l] = o}
    BY <1>2, Zenon DEF QueuesFit, Of
  <2> QED BY <1>2, <2>2, <2>3, Zenon DEF QueuesFit, OwnersQueued, Waiting
<1> QED BY <1>1, <1>2

\* A waiter joins.
LEMMA FitAfterJoin ==
  ASSUME NEW q, NEW r, NEW W, QueuesFit(q, r, W), NEW l \in Lease, l \notin W
  PROVE  QueuesFit([q EXCEPT ![OwnerOf[l]] = Append(@, l)],
                   IF q[OwnerOf[l]] # <<>> THEN r ELSE Append(r, OwnerOf[l]), W \union {l})
<1> DEFINE o == OwnerOf[l]
           q1 == [q EXCEPT ![o] = Append(@, l)]
           r1 == IF q[o] # <<>> THEN r ELSE Append(r, o)
           W1 == W \union {l}
<1>1. o \in Owners
  BY OwnersOfLeases
<1>2. /\ q[o] \in Seq(Lease) /\ r \in Seq(Owners)
      /\ l \notin ToSet(q[o]) /\ IsInjective(q[o]) /\ ToSet(q[o]) = Of(W, o)
  BY <1>1 DEF QueuesFit, Of
<1>3. /\ Append(q[o], l) \in Seq(Lease) /\ IsInjective(Append(q[o], l))
      /\ ToSet(Append(q[o], l)) = Of(W, o) \union {l} /\ Append(q[o], l) # <<>>
  BY <1>2, AppendKeeps, AppendProperties
<1>4. q[o] = <<>> => /\ Append(r, o) \in Seq(Owners) /\ IsInjective(Append(r, o))
                     /\ ToSet(Append(r, o)) = ToSet(r) \union {o}
  BY <1>1, <1>2, AppendKeeps DEF QueuesFit
<1>5. /\ q1 \in [Owners -> Seq(Lease)] /\ q1[o] = Append(q[o], l)
      /\ \A p \in Owners : p # o => q1[p] = q[p]
  BY <1>1, <1>3 DEF QueuesFit
<1>6. /\ Of(W1, o) = Of(W, o) \union {l}
      /\ \A p \in Owners : p # o => Of(W1, p) = Of(W, p)
  BY DEF Of
<1> HIDE DEF o, q1, W1
<1>7. r1 \in Seq(Owners) /\ IsInjective(r1) /\ ToSet(r1) = ToSet(r) \union {o}
  <2>1. CASE q[o] = <<>>
    BY <1>4, <2>1
  <2>2. CASE q[o] # <<>>
    <3>1. o \in ToSet(r)
      BY <1>1, <2>2 DEF QueuesFit
    <3> QED BY <2>2, <3>1 DEF QueuesFit
  <2> QED BY <2>1, <2>2
<1> HIDE DEF r1
<1>8. \A p \in Owners : p \in ToSet(r1) <=> q1[p] # <<>>
  BY <1>1, <1>3, <1>5, <1>7, Zenon DEF QueuesFit
<1>9. \A p \in Owners : IsInjective(q1[p]) /\ ToSet(q1[p]) = Of(W1, p)
  BY <1>1, <1>2, <1>3, <1>5, <1>6, Zenon DEF QueuesFit
<1>10. QueuesFit(q1, r1, W1)
  BY <1>5, <1>7, <1>8, <1>9, Zenon DEF QueuesFit
<1> QED BY <1>10, Zenon DEF q1, r1, W1, o

\* A waiter leaves its owner's queue, which is u now, and r1 is the ring.
LEMMA FitAfterExit ==
  ASSUME NEW q, NEW r, NEW W, QueuesFit(q, r, W), NEW l \in Lease,
         NEW u \in Seq(Lease), IsInjective(u), ToSet(u) = ToSet(q[OwnerOf[l]]) \ {l},
         NEW r1 \in Seq(Owners), IsInjective(r1), OwnerOf[l] \in ToSet(r),
         ToSet(r1) = IF u = <<>> THEN ToSet(r) \ {OwnerOf[l]} ELSE ToSet(r)
  PROVE  QueuesFit([q EXCEPT ![OwnerOf[l]] = u], r1, W \ {l})
<1> DEFINE o == OwnerOf[l]
           q1 == [q EXCEPT ![o] = u]
           W1 == W \ {l}
<1>1. o \in Owners
  BY OwnersOfLeases
<1>2. ToSet(u) = Of(W, o) \ {l} /\ o \in ToSet(r)
  BY <1>1 DEF QueuesFit
<1>3. q1 \in [Owners -> Seq(Lease)] /\ q1[o] = u /\ \A p \in Owners : p # o => q1[p] = q[p]
  BY <1>1 DEF QueuesFit
<1>4. Of(W1, o) = Of(W, o) \ {l} /\ \A p \in Owners : p # o => Of(W1, p) = Of(W, p)
  BY DEF Of
<1>5. ToSet(r1) = IF u = <<>> THEN ToSet(r) \ {o} ELSE ToSet(r)
  OBVIOUS
<1> HIDE DEF o, q1, W1
<1>6. ASSUME NEW p \in Owners PROVE p \in ToSet(r1) <=> q1[p] # <<>>
  <2>1. CASE p = o
    BY <1>2, <1>3, <1>5, <2>1
  <2>2. CASE p # o
    <3>1. p \in ToSet(r1) <=> p \in ToSet(r)
      BY <1>5, <2>2
    <3> QED BY <1>3, <2>2, <3>1, Zenon DEF QueuesFit
  <2> QED BY <2>1, <2>2
<1>7. \A p \in Owners : IsInjective(q1[p]) /\ ToSet(q1[p]) = Of(W1, p)
  BY <1>1, <1>2, <1>3, <1>4, Zenon DEF QueuesFit
<1>8. QueuesFit(q1, r1, W1)
  BY <1>3, <1>6, <1>7, Zenon DEF QueuesFit
<1> QED BY <1>8, Zenon DEF q1, W1, o

LEMMA FitAfterLeave ==
  ASSUME NEW q, NEW r, NEW W, QueuesFit(q, r, W), NEW l \in Lease,
         NEW i \in 1 .. Len(q[OwnerOf[l]]), q[OwnerOf[l]][i] = l, NEW r1,
         \/ Len(q[OwnerOf[l]]) # 1 /\ r1 = r
         \/ /\ Len(q[OwnerOf[l]]) = 1
            /\ \E j \in 1 .. Len(r) : r[j] = OwnerOf[l] /\ r1 = RemoveAt(r, j)
  PROVE  QueuesFit([q EXCEPT ![OwnerOf[l]] = RemoveAt(@, i)], r1, W \ {l})
<1> DEFINE o == OwnerOf[l]
           u == RemoveAt(q[o], i)
<1>1. /\ o \in Owners /\ q[o] \in Seq(Lease) /\ IsInjective(q[o])
      /\ r \in Seq(Owners) /\ IsInjective(r) /\ q[o] # <<>>
  BY OwnersOfLeases DEF QueuesFit
<1>2. /\ u \in Seq(Lease) /\ Len(u) = Len(q[o]) - 1
      /\ ToSet(u) = ToSet(q[o]) \ {l} /\ IsInjective(u)
  <2>1. i \in 1 .. Len(q[o]) /\ q[o][i] = l
    OBVIOUS
  <2> HIDE DEF o
  <2> QED BY <1>1, <2>1, RemoveAtKeeps, SMTT(20)
<1>3. u = <<>> <=> Len(q[o]) = 1
  <2>1. Len(q[o]) \in Nat
    BY <1>1
  <2>2. u = <<>> <=> Len(u) = 0
    BY <1>2, RangeOfSequence
  <2> HIDE DEF u, o
  <2> QED BY <1>2, <2>1, <2>2
<1>4. o \in ToSet(r)
  BY <1>1 DEF QueuesFit
<1>5. /\ r1 \in Seq(Owners) /\ IsInjective(r1)
      /\ ToSet(r1) = IF u = <<>> THEN ToSet(r) \ {o} ELSE ToSet(r)
  <2> HIDE DEF u
  <2>1. CASE Len(q[o]) # 1
    BY <1>1, <1>3, <2>1
  <2>2. CASE Len(q[o]) = 1
    <3>1. PICK j \in 1 .. Len(r) : r[j] = o /\ r1 = RemoveAt(r, j)
      BY <2>2
    <3>2. /\ RemoveAt(r, j) \in Seq(Owners) /\ IsInjective(RemoveAt(r, j))
          /\ ToSet(RemoveAt(r, j)) = ToSet(r) \ {r[j]}
      <4> HIDE DEF o
      <4> QED BY <1>1, <3>1, RemoveAtKeeps
    <3> QED BY <1>3, <2>2, <3>1, <3>2
  <2> QED BY <2>1, <2>2
<1> HIDE DEF u
<1>6. QueuesFit([q EXCEPT ![o] = u], r1, W \ {l})
  BY <1>2, <1>4, <1>5, FitAfterExit
<1> QED BY <1>6 DEF u

LEMMA FitAfterServe ==
  ASSUME NEW q, NEW r, NEW W, QueuesFit(q, r, W), r # <<>>
  PROVE  LET o == Head(r)
             l == Head(q[o])
         IN  /\ o \in Owners /\ q[o] # <<>> /\ l \in W /\ OwnerOf[l] = o
             /\ QueuesFit([q EXCEPT ![o] = Tail(@)],
                          IF Len(q[o]) > 1 THEN Append(Tail(r), o) ELSE Tail(r), W \ {l})
<1> DEFINE o == Head(r)
           l == Head(q[o])
           u == Tail(q[o])
           r1 == IF Len(q[o]) > 1 THEN Append(Tail(r), o) ELSE Tail(r)
<1>1. /\ r \in Seq(Owners) /\ IsInjective(r) /\ o \in Owners /\ o \in ToSet(r)
      /\ Tail(r) \in Seq(Owners) /\ IsInjective(Tail(r)) /\ ToSet(Tail(r)) = ToSet(r) \ {o}
  BY TailKeeps DEF QueuesFit
<1>2. q[o] \in Seq(Lease) /\ q[o] # <<>> /\ IsInjective(q[o]) /\ ToSet(q[o]) = Of(W, o)
  BY <1>1 DEF QueuesFit
<1>3. /\ l \in Lease /\ l \in ToSet(q[o]) /\ u \in Seq(Lease) /\ Len(u) = Len(q[o]) - 1
      /\ ToSet(u) = ToSet(q[o]) \ {l} /\ IsInjective(u)
  BY <1>2, TailKeeps
<1>4. l \in W /\ OwnerOf[l] = o
  BY <1>2, <1>3 DEF Of
<1>5. u = <<>> <=> ~(Len(q[o]) > 1)
  <2> HIDE DEF u
  <2> QED BY <1>2, <1>3
<1>6. /\ Append(Tail(r), o) \in Seq(Owners) /\ IsInjective(Append(Tail(r), o))
      /\ ToSet(Append(Tail(r), o)) = ToSet(r)
  <2> DEFINE t == Tail(r)
  <2> HIDE DEF t
  <2>1. t \in Seq(Owners) /\ IsInjective(t) /\ ToSet(t) = ToSet(r) \ {o} /\ o \in ToSet(r)
    BY <1>1 DEF t
  <2>2. /\ Append(t, o) \in Seq(Owners) /\ IsInjective(Append(t, o))
        /\ ToSet(Append(t, o)) = ToSet(t) \union {o}
    BY <1>1, <2>1, AppendKeeps
  <2>3. ToSet(t) \union {o} = ToSet(r)
    BY <2>1
  <2> QED BY <2>2, <2>3 DEF t
<1>7. /\ r1 \in Seq(Owners) /\ IsInjective(r1)
      /\ ToSet(r1) = IF u = <<>> THEN ToSet(r) \ {o} ELSE ToSet(r)
  <2> HIDE DEF u
  <2> QED BY <1>1, <1>5, <1>6
<1> HIDE DEF u, r1, o, l
<1>8. QueuesFit([q EXCEPT ![o] = u], r1, W \ {l})
  BY <1>1, <1>3, <1>4, <1>7, FitAfterExit
<1>9. [q EXCEPT ![o] = u] = [q EXCEPT ![o] = Tail(@)]
  BY DEF u
<1> QED BY <1>1, <1>2, <1>4, <1>8, <1>9, Zenon DEF r1, o, l

LEMMA FitAfterSkip ==
  ASSUME NEW q, NEW r, NEW W, QueuesFit(q, r, W), r # <<>>
  PROVE  QueuesFit(q, Append(Tail(r), Head(r)), W)
<1> DEFINE o == Head(r)
           t == Tail(r)
<1>1. /\ t \in Seq(Owners) /\ IsInjective(t) /\ ToSet(t) = ToSet(r) \ {o}
      /\ o \in Owners /\ o \in ToSet(r)
  BY TailKeeps DEF QueuesFit
<1> HIDE DEF o, t
<1>2. /\ Append(t, o) \in Seq(Owners) /\ IsInjective(Append(t, o))
      /\ ToSet(Append(t, o)) = ToSet(t) \union {o}
  BY <1>1, AppendKeeps
<1>3. ToSet(Append(t, o)) = ToSet(r)
  BY <1>1, <1>2
<1> QED BY <1>2, <1>3, Zenon DEF QueuesFit, o, t

LEMMA QueuesKept ==
  ASSUME AdmissionTypeOK, OwnersQueued, RoundSound, NEW l \in Lease, Effect(l)
  PROVE  OwnersQueued' /\ queue' \in [Owners -> Seq(Lease)] /\ ring' \in Seq(Owners)
<1> DEFINE q == queue
           r == ring
           W == Waiters
           o == OwnerOf[l]
<1>1. QueuesFit(q, r, W)
  BY QueuesOfState
<1> SUFFICES QueuesFit(q', r', W')
  <2> HIDE DEF W
  <2>1. q' \in [Owners -> Seq(Lease)] /\ r' \in Seq(Owners)
    BY Zenon DEF QueuesFit
  <2> QED BY <2>1, QueuesOfState, Zenon DEF W
<1>same. CASE Same \/ Turns \/ Takes(l) \/ GivesBack(l)
  <2>1. q' = q /\ r' = r /\ W' = W
    BY <1>same DEF Same, Turns, Rounds, Takes, GivesBack, ReleasePermit
  <2> HIDE DEF q, r, W
  <2> QED BY <1>1, <2>1
<1>joins. CASE Joins(l)
  <2>1. /\ q' = [q EXCEPT ![o] = Append(@, l)] /\ W' = W \union {l} /\ l \notin W
        /\ r' = IF q[o] # <<>> THEN r ELSE Append(r, o)
    BY <1>joins DEF Joins, Enqueue, Waiting
  <2> HIDE DEF q, r, W
  <2> QED BY <1>1, <2>1, FitAfterJoin
<1>leaves. CASE Leaves(l)
  <2>1. PICK i \in 1 .. Len(q[o]) : q[o][i] = l /\ q' = [q EXCEPT ![o] = RemoveAt(@, i)]
    BY <1>leaves DEF Leaves, Unqueue
  <2>2. /\ W' = W \ {l}
        /\ \/ Len(q[o]) # 1 /\ r' = r
           \/ /\ Len(q[o]) = 1
              /\ \E j \in 1 .. Len(r) : r[j] = o /\ r' = RemoveAt(r, j)
    BY <1>leaves DEF Leaves, Unqueue
  <2> HIDE DEF q, r, W
  <2>3. QueuesFit([q EXCEPT ![OwnerOf[l]] = RemoveAt(@, i)], r', W \ {l})
    BY <1>1, <2>1, <2>2, FitAfterLeave
  <2> QED BY <2>1, <2>2, <2>3
<1>ring. CASE Serves \/ Passes
  <2>1. r # <<>>
    <3>1. r \in Seq(Owners) /\ round.left \in Nat /\ round.left > 0 /\ round.left <= Len(r)
      BY <1>ring DEF AdmissionTypeOK, RoundSound, RoundStates, Serves, Passes
    <3> QED BY <3>1
  <2>2. CASE Serves
    <3>1. /\ q' = [q EXCEPT ![Head(r)] = Tail(@)] /\ W' = W \ {Head(q[Head(r)])}
          /\ r' = IF Len(q[Head(r)]) > 1 THEN Append(Tail(r), Head(r)) ELSE Tail(r)
      BY <2>2 DEF Serves, Serve, First
    <3> HIDE DEF q, r, W
    <3> QED BY <1>1, <2>1, <3>1, FitAfterServe
  <2>3. CASE Passes
    <3>1. q' = q /\ W' = W /\ r' = Append(Tail(r), Head(r))
      BY <2>3 DEF Passes, Skip
    <3> HIDE DEF q, r, W
    <3> QED BY <1>1, <2>1, <3>1, FitAfterSkip
  <2> QED BY <1>ring, <2>2, <2>3
<1>empties. CASE Empties
  <2>1. q' = [p \in Owners |-> <<>>] /\ r' = <<>> /\ W' = {}
    BY <1>empties DEF Empties
  <2> HIDE DEF q, r, W
  <2>2. <<>> \in Seq(Lease) /\ <<>> \in Seq(Owners)
    OBVIOUS
  <2>3. ToSet(<<>>) = {} /\ IsInjective(<<>>)
    BY DEF ToSet, IsInjective
  <2>4. \A p \in Owners : q'[p] = <<>>
    BY <2>1
  <2>5. q' \in [Owners -> Seq(Lease)]
    BY <2>1, <2>2
  <2>6. \A p : Of({}, p) = {}
    BY DEF Of
  <2> QED BY <2>1, <2>2, <2>3, <2>4, <2>5, <2>6, Zenon DEF QueuesFit
<1> QED BY <1>same, <1>joins, <1>leaves, <1>ring, <1>empties DEF Effect

-----------------------------------------------------------------------------
(* Where dispatch() is, and that it leaves no permit idle. *)

LEMMA NobodyWaits ==
  ASSUME AdmissionTypeOK, PermitsAccounted, OwnersQueued, pending = 0
  PROVE  \A o \in Owners : ~Waiting(o)
<1>1. Waiters = {}
  BY AccountsOfSets, LeasesAreFinite, FS_EmptySet DEF PermitsAccounted
<1>2. QueuesFit(queue, ring, {})
  BY <1>1, QueuesOfState
<1>3. ASSUME NEW o \in Owners PROVE ~Waiting(o)
  <2>1. ToSet(queue[o]) = {} /\ queue[o] \in Seq(Lease)
    BY <1>2 DEF QueuesFit, Of
  <2> QED BY <2>1, RangeOfSequence DEF Waiting
<1> QED BY <1>3

LEMMA WaitersAreRinged ==
  ASSUME AdmissionTypeOK, OwnersQueued, NEW o \in Owners, Waiting(o)
  PROVE  ring # <<>> /\ \E i \in 1 .. Len(ring) : ring[i] = o
<1>1. o \in ToSet(ring) /\ ring \in Seq(Owners)
  BY DEF OwnersQueued, AdmissionTypeOK
<1>2. DOMAIN ring = 1 .. Len(ring)
  BY <1>1
<1>3. ring # <<>>
  BY <1>1, RangeOfSequence
<1> QED BY <1>1, <1>2, <1>3 DEF ToSet

\* What a visit does to the ring.
LEMMA RingAfterVisit ==
  ASSUME NEW r \in Seq(Owners), r # <<>>
  PROVE  /\ Len(r) \in Nat /\ Head(r) = r[1] /\ Tail(r) \in Seq(Owners) /\ Head(r) \in Owners
         /\ Len(Tail(r)) = Len(r) - 1 /\ Len(Append(Tail(r), Head(r))) = Len(r)
         /\ \A i \in 1 .. Len(r) - 1 : Append(Tail(r), Head(r))[i] = r[i + 1]
         /\ Append(Tail(r), Head(r))[Len(r)] = r[1]
OBVIOUS

LEMMA RoundKept ==
  ASSUME AdmissionTypeOK, ring' \in Seq(Owners), RoundSound, NEW l \in Lease, Effect(l)
  PROVE  RoundSound' /\ round' \in RoundStates
<1>1. /\ round \in RoundStates /\ ring \in Seq(Owners) /\ activeOf \in [Owners -> Nat]
      /\ Limit \in Nat /\ Len(ring) \in Nat /\ Len(ring') \in Nat
  BY AdmissionAssumption DEF AdmissionTypeOK
<1>2. Quiet \in RoundStates
  BY DEF Quiet, RoundStates
<1>same. CASE Same
  <2>1. UNCHANGED <<ring, activeOf, round>>
    BY <1>same DEF Same, counters
  <2> QED BY <1>1, <2>1 DEF RoundSound
<1>takes. CASE Takes(l) \/ Empties
  <2>1. round' = Quiet
    BY <1>takes DEF Takes, Empties, Free, RoundSound
  <2> QED BY <1>1, <1>2, <2>1 DEF RoundSound, Quiet
<1>dispatch. CASE Joins(l) \/ GivesBack(l) \/ Leaves(l)
  <2>1. round' = [on |-> TRUE, left |-> 0, granted |-> TRUE]
    BY <1>dispatch DEF Joins, GivesBack, Leaves, Enqueue, ReleasePermit, Unqueue, Dispatch
  <2> QED BY <1>1, <2>1 DEF RoundSound, RoundStates
<1>turns. CASE Turns
  <2>1. UNCHANGED <<ring, activeOf>>
    BY <1>turns DEF Turns, Rounds, counters
  <2>2. \/ round' = [on |-> TRUE, left |-> Len(ring), granted |-> FALSE]
        \/ round' = Quiet
    BY <1>turns DEF Turns, Rounds
  <2>3. CASE round' = [on |-> TRUE, left |-> Len(ring), granted |-> FALSE]
    BY <1>1, <2>1, <2>3 DEF RoundSound, RoundStates
  <2>4. CASE round' = Quiet
    BY <1>1, <1>2, <2>1, <2>4 DEF RoundSound, Quiet
  <2> QED BY <2>2, <2>3, <2>4
<1>visit. CASE Serves \/ Passes
  <2>1. /\ round.on = TRUE /\ round.left \in Nat \ {0} /\ round.left <= Len(ring)
        /\ round.granted \in BOOLEAN
        /\ round = [on |-> round.on, left |-> round.left, granted |-> round.granted]
    BY <1>1, <1>visit DEF Serves, Passes, RoundStates, RoundSound
  <2>2. ring # <<>>
    BY <1>1, <2>1
  <2>3. CASE Serves
    <3>1. round' = [on |-> TRUE, left |-> round.left - 1, granted |-> TRUE]
      BY <1>1, <2>1, <2>3 DEF Serves, Serve, RoundStates
    <3>2. Len(ring') >= Len(ring) - 1
      <4>1. ring' = Append(Tail(ring), Head(ring)) \/ ring' = Tail(ring)
        BY <2>3 DEF Serves, Serve
      <4> QED BY <1>1, <2>2, <4>1, RingAfterVisit
    <3> QED BY <1>1, <2>1, <3>1, <3>2 DEF RoundSound, RoundStates
  <2>4. CASE Passes
    <3>1. /\ round' = [on |-> TRUE, left |-> round.left - 1, granted |-> round.granted]
          /\ ring' = Append(Tail(ring), Head(ring)) /\ activeOf' = activeOf
          /\ activeOf[Head(ring)] >= Limit
      BY <1>1, <2>1, <2>4 DEF Passes, Skip, RoundStates, counters
    <3>2. /\ Len(ring') = Len(ring) /\ ring'[Len(ring)] = Head(ring)
          /\ \A i \in 1 .. Len(ring) - 1 : ring'[i] = ring[i + 1]
      BY <1>1, <2>2, <3>1, RingAfterVisit
    <3>3. ASSUME ~round.granted, NEW i \in round.left .. Len(ring)
          PROVE  activeOf[ring'[i]] >= Limit
      <4>1. CASE i = Len(ring)
        BY <3>1, <3>2, <4>1
      <4>2. CASE i # Len(ring)
        <5>1. i \in 1 .. Len(ring) - 1 /\ i + 1 \in round.left + 1 .. Len(ring)
          BY <1>1, <2>1, <4>2
        <5>2. activeOf[ring[i + 1]] >= Limit
          BY <2>1, <3>3, <5>1 DEF RoundSound
        <5> QED BY <3>2, <5>1, <5>2
      <4> QED BY <4>1, <4>2
    <3> DEFINE k == round.left
               g == round.granted
    <3>4. /\ k \in Nat \ {0} /\ k <= Len(ring) /\ g \in BOOLEAN /\ activeOf' = activeOf
          /\ round' = [on |-> TRUE, left |-> k - 1, granted |-> g] /\ Len(ring') = Len(ring)
          /\ ~g => \A i \in k .. Len(ring) : activeOf[ring'[i]] >= Limit
      BY <2>1, <3>1, <3>2, <3>3
    <3> HIDE DEF k, g
    <3>5. /\ k - 1 \in Nat /\ k - 1 <= Len(ring') /\ (k - 1) + 1 = k
          /\ round'.on = TRUE /\ round'.left = k - 1 /\ round'.granted = g
      BY <1>1, <3>4
    <3>6. round' \in RoundStates
      BY <3>4, <3>5 DEF RoundStates
    <3>7. ~g => \A i \in (k - 1) + 1 .. Len(ring') : activeOf'[ring'[i]] >= Limit
      BY <3>4, <3>5
    <3> QED BY <3>5, <3>6, <3>7 DEF RoundSound
  <2> QED BY <1>visit, <2>3, <2>4
<1> QED BY <1>same, <1>takes, <1>dispatch, <1>turns, <1>visit DEF Effect

LEMMA IdleKept ==
  ASSUME AdmissionTypeOK, PermitsAccounted, OwnersQueued, WorkConserving, RoundSound,
         NEW l \in Lease, Effect(l)
  PROVE  WorkConserving'
<1>1. /\ round \in RoundStates /\ activeOf \in [Owners -> Nat] /\ Limit \in Nat
      /\ active \in Nat /\ Capacity \in Nat /\ pending \in Nat
  BY AdmissionAssumption DEF AdmissionTypeOK
<1>same. CASE Same
  <2>1. UNCHANGED <<queue, active, activeOf, round>>
    BY <1>same DEF Same, counters
  <2> QED BY <2>1 DEF WorkConserving, Free, Eligible, Waiting
<1>takes. CASE Takes(l)
  <2>1. queue' = queue /\ \A o \in Owners : ~Waiting(o)
    BY <1>takes, NobodyWaits DEF Takes
  <2> QED BY <2>1 DEF WorkConserving, Eligible, Waiting
<1>empties. CASE Empties
  <2>1. \A o \in Owners : queue'[o] = <<>>
    BY <1>empties DEF Empties
  <2> QED BY <2>1 DEF WorkConserving, Eligible, Waiting
<1>inside. CASE Joins(l) \/ GivesBack(l) \/ Leaves(l) \/ Serves \/ Passes
  <2>1. round'.on = TRUE
    <3>1. CASE Joins(l) \/ GivesBack(l) \/ Leaves(l)
      BY <3>1 DEF Joins, GivesBack, Leaves, Enqueue, ReleasePermit, Unqueue, Dispatch
    <3>2. CASE Serves
      BY <1>1, <3>2 DEF Serves, Serve, RoundStates
    <3>3. CASE Passes
      BY <1>1, <3>3 DEF Passes, Skip, RoundStates
    <3> QED BY <1>inside, <3>1, <3>2, <3>3
  <2> QED BY <2>1 DEF WorkConserving, Free
<1>turns. CASE Turns
  <2> SUFFICES ASSUME Free', active' < Capacity, NEW o \in Owners, Eligible(o)'
               PROVE  FALSE
    BY DEF WorkConserving
  <2>1. /\ UNCHANGED <<queue, ring, active, activeOf, pending>> /\ round.on /\ round'.on = FALSE
        /\ ~(round.granted /\ active < Capacity /\ pending > 0 /\ ring # <<>>)
        /\ round.left = 0 \/ active >= Capacity
    BY <1>turns DEF Turns, Rounds, counters, Free
  <2>2. Waiting(o) /\ activeOf[o] < Limit
    BY <2>1 DEF Eligible, Waiting
  <2>3. pending # 0 /\ ring # <<>>
    BY <2>2, NobodyWaits, WaitersAreRinged
  <2>4. ~round.granted /\ round.left = 0
    BY <1>1, <2>1, <2>3
  <2>5. PICK i \in 1 .. Len(ring) : ring[i] = o
    BY <2>2, WaitersAreRinged
  <2>6. activeOf[ring[i]] >= Limit
    BY <2>1, <2>4, <2>5 DEF RoundSound
  <2> QED BY <1>1, <2>2, <2>5, <2>6
<1> QED BY <1>same, <1>takes, <1>empties, <1>inside, <1>turns DEF Effect

-----------------------------------------------------------------------------
(* The order in which owners are served. *)

LEMMA ServedByEffect ==
  ASSUME AdmissionTypeOK, RoundSound, NEW l \in Lease, Effect(l), ~Takes(l)
  PROVE  \/ Served = {} /\ ~Serves
         \/ Serves /\ ring # <<>> /\ Head(ring) \in Owners /\ Served = {Head(ring)}
<1>1. activeOf \in [Owners -> Nat] /\ ring \in Seq(Owners) /\ OwnerOf[l] \in Owners
  BY OwnersOfLeases DEF AdmissionTypeOK
<1>2. CASE Same \/ Joins(l) \/ Leaves(l) \/ Passes \/ Turns \/ Empties
  <2>1. activeOf' = activeOf
    BY <1>2 DEF Same, Joins, Enqueue, Leaves, Unqueue, Passes, Skip, Turns, Rounds, Empties,
                counters
  <2>2. Served = {}
    BY <1>1, <2>1 DEF Served
  <2>3. CASE Serves
    <3>1. ring # <<>> /\ activeOf'[Head(ring)] = activeOf[Head(ring)] + 1 /\ Head(ring) \in Owners
      <4>1. ring # <<>>
        BY <1>1, <2>3 DEF Serves, RoundSound, AdmissionTypeOK, RoundStates
      <4>2. Head(ring) \in Owners
        BY <1>1, <4>1
      <4> QED BY <1>1, <2>3, <4>1, <4>2 DEF Serves, Serve, GrantPermit
    <3> QED BY <1>1, <2>1, <3>1
  <2> QED BY <2>2, <2>3
<1>3. CASE GivesBack(l)
  <2>1. activeOf' = [activeOf EXCEPT ![OwnerOf[l]] = @ - 1] /\ ~round.on
    BY <1>3 DEF GivesBack, ReleasePermit, Free
  <2>2. \A p \in Owners : activeOf'[p] <= activeOf[p]
    BY <1>1, <2>1
  <2>3. Served = {}
    BY <1>1, <2>1, <2>2 DEF Served
  <2> QED BY <2>1, <2>3 DEF Serves
<1>4. CASE Serves
  <2>1. ring # <<>>
    BY <1>1, <1>4 DEF Serves, RoundSound, AdmissionTypeOK, RoundStates
  <2>2. Head(ring) \in Owners
    BY <1>1, <2>1
  <2>3. activeOf' = [activeOf EXCEPT ![Head(ring)] = @ + 1]
    BY <1>4 DEF Serves, Serve, GrantPermit
  <2>4. /\ activeOf'[Head(ring)] > activeOf[Head(ring)]
        /\ \A p \in Owners : p # Head(ring) => ~(activeOf'[p] > activeOf[p])
    BY <1>1, <2>2, <2>3
  <2> QED BY <1>4, <2>1, <2>2, <2>4 DEF Served
<1> QED BY <1>2, <1>3, <1>4 DEF Effect

\* An owner that could be served and was not stays before those it stood before, and
\* comes before the one served.
LEMMA OrderKept ==
  ASSUME AdmissionTypeOK, OwnersQueued, RoundSound, NEW l \in Lease, Effect(l), ~Takes(l),
         NEW o \in Owners, Eligible(o), o \notin Served,
         NEW p \in Owners, Precedes(ring, o, p) \/ p \in Served
  PROVE  Precedes(ring', o, p)
<1>1. ring \in Seq(Owners) /\ IsInjective(ring) /\ OwnerOf[l] \in Owners
  BY OwnersOfLeases DEF AdmissionTypeOK, OwnersQueued
<1>2. CASE Serves
  <2> DEFINE h == Head(ring)
             t == Tail(ring)
  <2>1. h \in Owners /\ Served = {h} /\ ring # <<>>
    BY <1>2, ServedByEffect
  <2>2. /\ t \in Seq(Owners) /\ h \notin ToSet(t)
        /\ Precedes(ring, o, p) => Precedes(t, o, p)
    BY <1>1, <2>1, TailKeeps
  <2>3. ring' = Append(t, h) \/ ring' = t
    BY <1>2 DEF Serves, Serve
  <2> HIDE DEF h, t
  <2>4. o # h /\ (Precedes(ring, o, p) \/ p = h)
    BY <2>1
  <2>5. CASE ring' = Append(t, h)
    <3>1. /\ Precedes(t, o, p) /\ o # h => Precedes(Append(t, h), o, p)
          /\ h \notin ToSet(t) /\ o # h => Precedes(Append(t, h), o, h)
      BY <2>1, <2>2, AppendKeeps
    <3> QED BY <2>2, <2>4, <2>5, <3>1
  <2>6. CASE ring' = t
    <3>1. h \notin ToSet(t) => Precedes(t, o, h)
      BY DEF Precedes, ToSet
    <3> QED BY <2>2, <2>4, <2>6, <3>1
  <2> QED BY <2>3, <2>5, <2>6
<1>3. CASE ~Serves
  <2>1. Precedes(ring, o, p)
    BY <1>3, ServedByEffect
  <2>2. CASE Same \/ Turns \/ GivesBack(l)
    <3>1. ring' = ring
      BY <2>2 DEF Same, Turns, Rounds, GivesBack, ReleasePermit
    <3> QED BY <2>1, <3>1
  <2>3. CASE Joins(l)
    <3>1. ring' = ring \/ (OwnerOf[l] # o /\ ring' = Append(ring, OwnerOf[l]))
      BY <2>3 DEF Joins, Enqueue, Eligible
    <3>2. \A y, z \in Owners : Precedes(ring, y, z) /\ y # OwnerOf[l]
                                  => Precedes(Append(ring, OwnerOf[l]), y, z)
      BY <1>1, AppendKeeps
    <3> QED BY <2>1, <3>1, <3>2
  <2>4. CASE Leaves(l)
    <3>1. ring' = ring \/ \E j \in 1 .. Len(ring) : ring' = RemoveAt(ring, j)
      BY <2>4 DEF Leaves, Unqueue
    <3>2. ASSUME NEW j \in 1 .. Len(ring) PROVE Precedes(RemoveAt(ring, j), o, p)
      <4>1. \A y, z \in Owners : Precedes(ring, y, z) => Precedes(RemoveAt(ring, j), y, z)
        BY <1>1, RemoveAtKeeps
      <4> QED BY <2>1, <4>1
    <3> QED BY <2>1, <3>1, <3>2
  <2>5. CASE Passes
    <3> DEFINE h == Head(ring)
               t == Tail(ring)
    <3>1. ring # <<>>
      BY <1>1, <2>5 DEF Passes, RoundSound, AdmissionTypeOK, RoundStates
    <3>2. t \in Seq(Owners) /\ h \in Owners /\ Precedes(t, o, p)
      BY <1>1, <2>1, <3>1, TailKeeps
    <3>3. ring' = Append(t, h) /\ h # o
      <4>1. activeOf[h] >= Limit /\ activeOf[o] < Limit /\ activeOf[o] \in Nat /\ Limit \in Nat
        BY <2>5, AdmissionAssumption DEF Passes, Skip, Eligible, AdmissionTypeOK
      <4> QED BY <2>5, <4>1 DEF Passes, Skip
    <3> HIDE DEF h, t
    <3> QED BY <3>2, <3>3, AppendKeeps
  <2>6. CASE Empties
    <3>1. ring' = <<>>
      BY <2>6 DEF Empties
    <3> QED BY <3>1 DEF Precedes
  <2> QED BY <1>3, <2>2, <2>3, <2>4, <2>5, <2>6 DEF Effect
<1> QED BY <1>2, <1>3

LEMMA SinceKept ==
  ASSUME AdmissionTypeOK, PermitsAccounted, OwnersQueued, RoundSound, SinceSound,
         NEW l \in Lease, Effect(l), Track
  PROVE  SinceSound' /\ since' \in [Owners -> SUBSET Owners]
<1>1. /\ since \in [Owners -> SUBSET Owners] /\ Served \subseteq Owners
      /\ since' = [o \in Owners |->
            IF Eligible(o) /\ Eligible(o)' /\ o \notin Served THEN since[o] \union Served ELSE {}]
  BY Zenon DEF AdmissionTypeOK, Served, Track
<1>2. since' \in [Owners -> SUBSET Owners]
  BY <1>1
<1>3. ASSUME NEW o \in Owners, ~Eligible(o)' PROVE since'[o] = {}
  BY <1>1, <1>3, Zenon
<1>4. ASSUME NEW o \in Owners, NEW p \in since'[o] PROVE Precedes(ring', o, p)
  <2>1. Eligible(o) /\ o \notin Served /\ p \in since[o] \union Served
    BY <1>1, <1>4, Zenon
  <2>2. p \in Owners /\ (Precedes(ring, o, p) \/ p \in Served)
    BY <1>1, <2>1 DEF SinceSound
  <2>3. ~Takes(l)
    BY <2>1, NobodyWaits DEF Takes, Eligible
  <2> QED BY <2>1, <2>2, <2>3, OrderKept, Zenon
<1> QED BY <1>2, <1>3, <1>4, Zenon DEF SinceSound

LEMMA NobodyOvertakes ==
  ASSUME AdmissionTypeOK, PermitsAccounted, OwnersQueued, RoundSound, SinceSound,
         NEW l \in Lease, Effect(l),
         NEW o \in Owners, NEW p \in Served, Eligible(o), p # o
  PROVE  p \notin since[o]
<1>1. ~Takes(l)
  BY NobodyWaits DEF Takes, Eligible
<1>2. ring # <<>> /\ Head(ring) \in Owners /\ p = Head(ring)
  BY <1>1, ServedByEffect
<1>3. ring \in Seq(Owners) /\ IsInjective(ring) /\ o \in ToSet(ring)
  BY DEF AdmissionTypeOK, OwnersQueued, Eligible
<1>4. ~Precedes(ring, o, p)
  BY <1>2, <1>3, TailKeeps
<1> QED BY <1>4 DEF SinceSound

-----------------------------------------------------------------------------
(* The leases. *)

\* A step leaves lease l in state s with acquisition x, and no other lease changes.
Leads(l, s, x) ==
  /\ state' = [state EXCEPT ![l] = s] /\ s \in LeaseStates
  /\ acq' = [acq EXCEPT ![l] = x] /\ x \in Acquisitions
  /\ x = "queued" => s = "acquiring"
  /\ s = "active" => x \in {"none", "over"}
  /\ s = "acquiring" => x # "none"

LeasesKept ==
  /\ state' \in [Lease -> LeaseStates] /\ acq' \in [Lease -> Acquisitions] /\ LeasesSound'

LEMMA OneLeaseMoves ==
  ASSUME AdmissionTypeOK, LeasesSound, NEW l \in Lease, NEW s, NEW x, Leads(l, s, x)
  PROVE  /\ LeasesKept
         /\ Out' = IF x = "granted" \/ s = "active" THEN Out \union {l} ELSE Out \ {l}
         /\ Waiters' = IF x = "queued" THEN Waiters \union {l} ELSE Waiters \ {l}
<1>1. /\ state \in [Lease -> LeaseStates] /\ acq \in [Lease -> Acquisitions]
      /\ state' = [state EXCEPT ![l] = s] /\ s \in LeaseStates
      /\ acq' = [acq EXCEPT ![l] = x] /\ x \in Acquisitions
  BY DEF AdmissionTypeOK, Leads
<1>2. /\ state'[l] = s /\ acq'[l] = x
      /\ \A m \in Lease : m # l => state'[m] = state[m] /\ acq'[m] = acq[m]
      /\ state' \in [Lease -> LeaseStates] /\ acq' \in [Lease -> Acquisitions]
  BY <1>1
<1>3. LeasesSound'
  BY <1>2 DEF LeasesSound, Leads
<1>4. Out' = IF x = "granted" \/ s = "active" THEN Out \union {l} ELSE Out \ {l}
  BY <1>2 DEF Out
<1>5. Waiters' = IF x = "queued" THEN Waiters \union {l} ELSE Waiters \ {l}
  BY <1>2 DEF Waiters
<1> QED BY <1>2, <1>3, <1>4, <1>5 DEF LeasesKept

LEMMA NoLeaseMoves ==
  ASSUME AdmissionTypeOK, LeasesSound, UNCHANGED <<state, acq>>
  PROVE  LeasesKept /\ Out' = Out /\ Waiters' = Waiters
BY DEF AdmissionTypeOK, LeasesSound, LeasesKept, Out, Waiters

\* A lease that is not named keeps what it has: EXCEPT of its own value.
LEMMA KeepsOwn ==
  ASSUME AdmissionTypeOK, NEW l \in Lease
  PROVE  /\ state = [state EXCEPT ![l] = state[l]] /\ acq = [acq EXCEPT ![l] = acq[l]]
         /\ state[l] \in LeaseStates /\ acq[l] \in Acquisitions
         /\ l \in Out <=> acq[l] = "granted" \/ state[l] = "active"
         /\ l \in Waiters <=> acq[l] = "queued"
BY DEF AdmissionTypeOK, Out, Waiters

LEMMA AcquireHasEffect ==
  ASSUME AdmissionTypeOK, LeasesSound, Free, NEW l \in Lease, Acquire(l)
  PROVE  LeasesKept /\ Effect(l)
<1>1. l \notin Out /\ l \notin Waiters
  BY KeepsOwn DEF Acquire
<1>2. CASE Refused(l)
  <2>1. Leads(l, "acquiring", "over") /\ UNCHANGED <<queue, ring, counters, round>>
    BY <1>2 DEF Refused, Leads, LeaseStates, Acquisitions
  <2>2. LeasesKept /\ Out' = Out \ {l} /\ Waiters' = Waiters \ {l}
    BY <2>1, OneLeaseMoves
  <2> QED BY <1>1, <2>1, <2>2 DEF Effect, Same
<1>3. CASE Granted(l)
  <2>1. Leads(l, "acquiring", "granted")
    BY <1>3 DEF Granted, Leads, LeaseStates, Acquisitions
  <2>2. LeasesKept /\ Out' = Out \union {l} /\ Waiters' = Waiters \ {l}
    BY <2>1, OneLeaseMoves
  <2> QED BY <1>1, <1>3, <2>2 DEF Effect, Takes, Granted
<1>4. CASE Queued(l)
  <2>1. Leads(l, "acquiring", "queued")
    BY <1>4 DEF Queued, Leads, LeaseStates, Acquisitions
  <2>2. LeasesKept /\ Out' = Out \ {l} /\ Waiters' = Waiters \union {l}
    BY <2>1, OneLeaseMoves
  <2> QED BY <1>1, <1>4, <2>2 DEF Effect, Joins, Queued
<1> QED BY <1>2, <1>3, <1>4 DEF Acquire

LEMMA GiveUpHasEffect ==
  ASSUME AdmissionTypeOK, LeasesSound, Free, NEW l \in Lease,
         NEW s \in {"suspended", "released"}, GiveUp(l, s)
  PROVE  LeasesKept /\ Effect(l) /\ aborted' \subseteq Lease
<1>1. /\ acq[l] = "queued" => state[l] = "acquiring"
      /\ state[l] = "active" => acq[l] \in {"none", "over"}
      /\ l \in Out <=> acq[l] = "granted" \/ state[l] = "active"
      /\ l \in Waiters <=> acq[l] = "queued"
      /\ acq[l] \in Acquisitions /\ acq = [acq EXCEPT ![l] = acq[l]]
      /\ aborted \subseteq Lease
  BY KeepsOwn DEF LeasesSound, AdmissionTypeOK
<1>2. state' = [state EXCEPT ![l] = s] /\ s \in LeaseStates /\ s # "active" /\ s # "acquiring"
  BY DEF GiveUp, LeaseStates
<1>3. CASE state[l] = "active" /\ ReleasePermit(OwnerOf[l]) /\ UNCHANGED <<acq, aborted>>
  <2>1. Leads(l, s, acq[l])
    BY <1>1, <1>2, <1>3 DEF Leads
  <2>2. LeasesKept /\ Out' = Out \ {l} /\ Waiters' = Waiters \ {l}
    BY <1>1, <1>2, <1>3, <2>1, OneLeaseMoves
  <2> QED BY <1>1, <1>3, <2>2 DEF Effect, GivesBack
<1>4. CASE /\ state[l] # "active" /\ acq[l] = "queued"
           /\ acq' = [acq EXCEPT ![l] = "over"] /\ Unqueue(l) /\ UNCHANGED aborted
  <2>1. Leads(l, s, "over")
    BY <1>2, <1>4 DEF Leads, Acquisitions
  <2>2. LeasesKept /\ Out' = Out \ {l} /\ Waiters' = Waiters \ {l}
    BY <1>2, <2>1, OneLeaseMoves
  <2> QED BY <1>1, <1>4, <2>2 DEF Effect, Leaves
<1>5. CASE /\ state[l] # "active" /\ acq[l] = "granted" /\ aborted' = aborted \union {l}
           /\ UNCHANGED <<queue, ring, counters, round, acq>>
  <2>1. Leads(l, s, "granted")
    BY <1>1, <1>2, <1>5 DEF Leads
  <2>2. LeasesKept /\ Out' = Out \union {l} /\ Waiters' = Waiters \ {l}
    BY <2>1, OneLeaseMoves
  <2> QED BY <1>1, <1>5, <2>2 DEF Effect, Same
<1>6. CASE /\ state[l] # "active" /\ acq[l] \notin {"queued", "granted"}
           /\ UNCHANGED <<queue, ring, counters, round, acq, aborted>>
  <2>1. Leads(l, s, acq[l])
    BY <1>1, <1>2, <1>6 DEF Leads
  <2>2. LeasesKept /\ Out' = Out \ {l} /\ Waiters' = Waiters \ {l}
    BY <1>2, <1>6, <2>1, OneLeaseMoves
  <2> QED BY <1>1, <1>6, <2>2 DEF Effect, Same
<1> QED BY <1>3, <1>4, <1>5, <1>6 DEF GiveUp

LEMMA AbortHasEffect ==
  ASSUME AdmissionTypeOK, LeasesSound, NEW l \in Lease, Abort(l)
  PROVE  LeasesKept /\ Effect(l) /\ aborted' \subseteq Lease
<1>1. /\ l \in Out <=> acq[l] = "granted" \/ state[l] = "active"
      /\ l \in Waiters <=> acq[l] = "queued"
      /\ state[l] = "acquiring" /\ "acquiring" \in LeaseStates
      /\ state = [state EXCEPT ![l] = "acquiring"]
      /\ acq = [acq EXCEPT ![l] = acq[l]]
      /\ aborted \subseteq Lease /\ state' = state /\ Free
  BY KeepsOwn DEF AdmissionTypeOK, Abort, LeaseStates
<1>2. CASE acq[l] = "queued" /\ acq' = [acq EXCEPT ![l] = "over"] /\ Unqueue(l) /\ UNCHANGED aborted
  <2>1. Leads(l, "acquiring", "over")
    BY <1>1, <1>2 DEF Leads, Acquisitions
  <2>2. LeasesKept /\ Out' = Out \ {l} /\ Waiters' = Waiters \ {l}
    BY <2>1, OneLeaseMoves
  <2> QED BY <1>1, <1>2, <2>2 DEF Effect, Leaves
<1>3. CASE /\ acq[l] = "granted" /\ aborted' = aborted \union {l}
           /\ UNCHANGED <<queue, ring, counters, round, acq>>
  <2>1. LeasesKept /\ Out' = Out /\ Waiters' = Waiters
    BY <1>1, <1>3, NoLeaseMoves
  <2> QED BY <1>1, <1>3, <2>1 DEF Effect, Same
<1> QED BY <1>2, <1>3 DEF Abort

LEMMA ArriveHasEffect ==
  ASSUME AdmissionTypeOK, LeasesSound, NEW l \in Lease, Arrive(l)
  PROVE  LeasesKept /\ Effect(l)
<1>1. /\ l \in Out /\ l \notin Waiters /\ state[l] # "active" /\ Free
      /\ state = [state EXCEPT ![l] = state[l]] /\ state[l] \in LeaseStates
      /\ acq' = [acq EXCEPT ![l] = "over"]
  BY KeepsOwn DEF Arrive, LeasesSound
<1>2. CASE /\ l \notin aborted /\ state[l] = "acquiring"
           /\ state' = [state EXCEPT ![l] = "active"]
           /\ UNCHANGED <<queue, ring, counters, round>>
  <2>1. Leads(l, "active", "over")
    BY <1>1, <1>2 DEF Leads, LeaseStates, Acquisitions
  <2>2. LeasesKept /\ Out' = Out \union {l} /\ Waiters' = Waiters \ {l}
    BY <2>1, OneLeaseMoves
  <2> QED BY <1>1, <1>2, <2>2 DEF Effect, Same
<1>3. CASE ReleasePermit(OwnerOf[l]) /\ UNCHANGED state
  <2>1. Leads(l, state[l], "over")
    BY <1>1, <1>3 DEF Leads, Acquisitions
  <2>2. LeasesKept /\ Out' = Out \ {l} /\ Waiters' = Waiters \ {l}
    BY <1>1, <2>1, OneLeaseMoves
  <2> QED BY <1>1, <1>3, <2>2 DEF Effect, GivesBack
<1> QED BY <1>2, <1>3 DEF Arrive

LEMMA FinishHasEffect ==
  ASSUME AdmissionTypeOK, LeasesSound, NEW l \in Lease, Finish(l)
  PROVE  LeasesKept /\ Effect(l) /\ aborted' \subseteq Lease
<1> DEFINE s == IF state[l] = "acquiring" THEN "suspended" ELSE state[l]
<1>1. /\ l \in Out <=> acq[l] = "granted" \/ state[l] = "active"
      /\ l \notin Waiters /\ acq[l] = "over" /\ state[l] \in LeaseStates
      /\ acq' = [acq EXCEPT ![l] = "none"] /\ aborted' \subseteq Lease
      /\ UNCHANGED <<queue, ring, counters, round>>
  BY KeepsOwn DEF Finish, AdmissionTypeOK
<1>2. state' = [state EXCEPT ![l] = s]
  BY DEF Finish
<1>3. s \in LeaseStates /\ s # "acquiring" /\ (s = "active" <=> state[l] = "active")
  BY <1>1 DEF LeaseStates
<1> HIDE DEF s
<1>4. Leads(l, s, "none")
  BY <1>1, <1>2, <1>3 DEF Leads, Acquisitions
<1>5. /\ LeasesKept /\ Waiters' = Waiters \ {l}
      /\ Out' = IF s = "active" THEN Out \union {l} ELSE Out \ {l}
  BY <1>4, OneLeaseMoves
<1>6. Out' = Out
  BY <1>1, <1>3, <1>5
<1> QED BY <1>1, <1>5, <1>6 DEF Effect, Same

LEMMA RenewHasEffect ==
  ASSUME AdmissionTypeOK, LeasesSound, NEW l \in Lease, Renew(l)
  PROVE  LeasesKept /\ Effect(l)
<1>1. /\ l \notin Out /\ l \notin Waiters /\ acq = [acq EXCEPT ![l] = "none"]
      /\ state' = [state EXCEPT ![l] = "suspended"] /\ acq' = acq
      /\ UNCHANGED <<queue, ring, counters, round>>
  BY KeepsOwn DEF Renew
<1>2. Leads(l, "suspended", "none")
  BY <1>1 DEF Leads, LeaseStates, Acquisitions
<1>3. LeasesKept /\ Out' = Out \ {l} /\ Waiters' = Waiters \ {l}
  BY <1>2, OneLeaseMoves
<1> QED BY <1>1, <1>3 DEF Effect, Same

LEMMA ServeHasEffect ==
  ASSUME AdmissionTypeOK, OwnersQueued, LeasesSound, RoundSound, Visit, Serve, NEW l \in Lease
  PROVE  LeasesKept /\ Effect(l)
<1>1. ring # <<>> /\ ring \in Seq(Owners)
  BY DEF AdmissionTypeOK, RoundStates, RoundSound, Visit
<1>2. First \in Waiters /\ OwnerOf[First] = Head(ring)
  BY <1>1, QueuesOfState, FitAfterServe DEF First
<1> DEFINE m == First
<1>3. /\ m \in Lease /\ acq[m] = "queued" /\ state[m] = "acquiring" /\ m \notin Out
      /\ state = [state EXCEPT ![m] = "acquiring"] /\ state' = state
      /\ acq' = [acq EXCEPT ![m] = "granted"]
  <2>1. m \in Lease /\ acq[m] = "queued"
    BY <1>2 DEF Waiters
  <2>2. state[m] = "acquiring"
    BY <2>1 DEF LeasesSound
  <2>3. state' = state /\ acq' = [acq EXCEPT ![m] = "granted"]
    BY DEF Visit, Serve, First
  <2> HIDE DEF m
  <2> QED BY <2>1, <2>2, <2>3, KeepsOwn
<1>4. LeasesKept /\ Out' = Out \union {m} /\ Waiters' = Waiters \ {m}
  <2> HIDE DEF m
  <2>1. Leads(m, "acquiring", "granted")
    BY <1>3 DEF Leads, LeaseStates, Acquisitions
  <2> QED BY <1>3, <2>1, OneLeaseMoves
<1> QED BY <1>2, <1>3, <1>4 DEF Effect, Serves, Visit

LEMMA CloseHasEffect ==
  ASSUME AdmissionTypeOK, LeasesSound, Close, NEW l \in Lease
  PROVE  LeasesKept /\ Effect(l)
<1>1. /\ state' = state /\ state \in [Lease -> LeaseStates] /\ acq \in [Lease -> Acquisitions]
      /\ acq' = [m \in Lease |-> IF acq[m] = "queued" THEN "over" ELSE acq[m]]
  BY DEF Close, AdmissionTypeOK
<1>2. \A m \in Lease : /\ acq[m] = "queued" => acq'[m] = "over"
                       /\ acq[m] # "queued" => acq'[m] = acq[m]
  BY <1>1
<1>3. acq' \in [Lease -> Acquisitions]
  BY <1>1 DEF Acquisitions
<1>4. LeasesSound'
  BY <1>1, <1>2 DEF LeasesSound
<1>5. Out' = Out /\ Waiters' = {}
  BY <1>1, <1>2 DEF Out, Waiters, LeasesSound
<1> QED BY <1>1, <1>3, <1>4, <1>5 DEF LeasesKept, Effect, Empties, Close

\* A lease may give a permit back or take one in every operation on it.
LEMMA UseHasEffect ==
  ASSUME AdmissionTypeOK, LeasesSound, NEW l \in Lease, Use(l)
  PROVE  LeasesKept /\ Effect(l) /\ aborted' \subseteq Lease /\ again' \subseteq Lease /\ closed' = closed
<1>1. aborted \subseteq Lease /\ again \subseteq Lease
  BY DEF AdmissionTypeOK
<1>same. ASSUME UNCHANGED <<queue, ring, counters, round, state, acq>> PROVE LeasesKept /\ Effect(l)
  BY <1>same, NoLeaseMoves DEF Effect, Same
<1>2. CASE Resume(l)
  BY <1>1, <1>2, AcquireHasEffect DEF Resume
<1>3. CASE ResumeLater(l)
  BY <1>1, <1>3, <1>same DEF ResumeLater
<1>4. CASE ResumeAgain(l)
  <2>1. LeasesKept /\ Effect(l)
    <3>1. CASE Acquire(l)
      BY <1>4, <3>1, AcquireHasEffect DEF ResumeAgain
    <3>2. CASE UNCHANGED <<queue, ring, counters, round, state, acq>>
      BY <3>2, <1>same
    <3> QED BY <1>4, <3>1, <3>2 DEF ResumeAgain
  <2> QED BY <1>1, <1>4, <2>1 DEF ResumeAgain
<1>5. CASE Suspend(l)
  BY <1>1, <1>5, GiveUpHasEffect DEF Suspend, GiveUp
<1>6. CASE Release(l)
  BY <1>1, <1>6, GiveUpHasEffect DEF Release, GiveUp
<1>7. CASE Abort(l)
  BY <1>1, <1>7, AbortHasEffect DEF Abort
<1>8. CASE Arrive(l)
  BY <1>1, <1>8, ArriveHasEffect DEF Arrive
<1>9. CASE Finish(l)
  BY <1>1, <1>9, FinishHasEffect DEF Finish
<1>10. CASE Renew(l)
  BY <1>1, <1>10, RenewHasEffect DEF Renew
<1> QED BY <1>2, <1>3, <1>4, <1>5, <1>6, <1>7, <1>8, <1>9, <1>10 DEF Use

LEMMA StepHasEffect ==
  ASSUME AdmissionSound, Next
  PROVE  /\ Track /\ LeasesKept /\ \E l \in Lease : Effect(l)
         /\ aborted' \subseteq Lease /\ again' \subseteq Lease /\ closed' \in BOOLEAN
<1>1. /\ AdmissionTypeOK /\ OwnersQueued /\ LeasesSound /\ RoundSound
      /\ aborted \subseteq Lease /\ again \subseteq Lease /\ closed \in BOOLEAN
  BY DEF AdmissionSound, AdmissionTypeOK
<1>2. PICK m \in Lease : TRUE
  BY AdmissionAssumption
<1>3. CASE Rounds /\ Track
  <2>1. UNCHANGED <<state, acq, aborted, again, closed>>
    BY <1>3 DEF Rounds, leases
  <2>2. LeasesKept /\ Effect(m)
    BY <1>1, <1>3, <2>1, NoLeaseMoves DEF Effect, Turns
  <2> QED BY <1>1, <1>2, <1>3, <2>1, <2>2
<1>4. CASE Visit /\ Track
  <2>1. UNCHANGED <<closed, state, aborted, again>>
    BY <1>4 DEF Visit
  <2>2. CASE Skip
    <3>1. LeasesKept /\ Effect(m)
      BY <1>1, <1>4, <2>1, <2>2, NoLeaseMoves DEF Skip, Effect, Passes, Visit
    <3> QED BY <1>1, <1>2, <1>4, <2>1, <3>1
  <2>3. CASE Serve
    <3>1. LeasesKept /\ Effect(m)
      BY <1>1, <1>2, <1>4, <2>3, ServeHasEffect
    <3> QED BY <1>1, <1>2, <1>4, <2>1, <3>1
  <2> QED BY <1>4, <2>2, <2>3 DEF Visit
<1>5. CASE Close /\ Track
  <2>1. LeasesKept /\ Effect(m)
    BY <1>1, <1>2, <1>5, CloseHasEffect
  <2>2. closed' = TRUE /\ UNCHANGED <<aborted, again>>
    BY <1>5 DEF Close
  <2> QED BY <1>1, <1>2, <1>5, <2>1, <2>2
<1>6. CASE \E l \in Lease : Use(l) /\ Track
  BY <1>1, <1>6, UseHasEffect
<1> QED BY <1>3, <1>4, <1>5, <1>6 DEF Next

\* The counters are numbers, as they count.
LEMMA CountersTyped ==
  ASSUME AdmissionTypeOK, PermitsAccounted', NEW l \in Lease, Effect(l)
  PROVE  active' \in Nat /\ activeOf' \in [Owners -> Nat] /\ pending' \in Nat
<1>1. /\ Out' \in SUBSET Lease /\ Waiters' \in SUBSET Lease
      /\ \A o : OutOf(o)' \in SUBSET Lease
  BY DEF Out, Waiters, OutOf
<1>2. /\ active' = Cardinality(Out') /\ pending' = Cardinality(Waiters')
      /\ \A o \in Owners : activeOf'[o] = Cardinality(OutOf(o)')
  BY DEF PermitsAccounted
<1>3. active' \in Nat /\ pending' \in Nat /\ \A o \in Owners : activeOf'[o] \in Nat
  BY <1>1, <1>2, LeasesAreFinite
<1>4. activeOf' = [o \in Owners |-> activeOf'[o]]
  <2>1. activeOf \in [Owners -> Nat]
    BY DEF AdmissionTypeOK
  <2>2. \/ activeOf' = activeOf
        \/ \E o, n : activeOf' = [activeOf EXCEPT ![o] = n]
    <3>1. CASE Takes(l) \/ Serves
      BY <3>1 DEF Takes, Serves, Serve, GrantPermit
    <3>2. CASE GivesBack(l)
      BY <3>2 DEF GivesBack, ReleasePermit
    <3>3. CASE ~(Takes(l) \/ Serves \/ GivesBack(l))
      BY <3>3 DEF Effect, Same, Joins, Enqueue, Leaves, Unqueue, Passes, Skip, Turns, Rounds,
                  Empties, counters
    <3> QED BY <3>1, <3>2, <3>3
  <2> QED BY <2>1, <2>2
<1> QED BY <1>3, <1>4

LEMMA NextKeepsSound ==
  ASSUME AdmissionSound, Next
  PROVE  AdmissionSound'
<1>1. /\ AdmissionTypeOK /\ PermitsAccounted /\ OwnersQueued /\ WorkConserving
      /\ LeasesSound /\ RoundSound /\ SinceSound
  BY DEF AdmissionSound
<1>2. PICK l \in Lease : Effect(l)
  BY StepHasEffect
<1>3. /\ Track /\ LeasesKept /\ aborted' \subseteq Lease /\ again' \subseteq Lease
      /\ closed' \in BOOLEAN
  BY StepHasEffect
<1>4. PermitsAccounted'
  BY <1>1, <1>2, PermitsKept
<1>5. OwnersQueued' /\ queue' \in [Owners -> Seq(Lease)] /\ ring' \in Seq(Owners)
  BY <1>1, <1>2, QueuesKept
<1>6. RoundSound' /\ round' \in RoundStates
  BY <1>1, <1>2, <1>5, RoundKept
<1>7. WorkConserving'
  BY <1>1, <1>2, IdleKept
<1>8. SinceSound' /\ since' \in [Owners -> SUBSET Owners]
  BY <1>1, <1>2, <1>3, SinceKept
<1>9. active' \in Nat /\ activeOf' \in [Owners -> Nat] /\ pending' \in Nat
  BY <1>1, <1>2, <1>4, CountersTyped
<1>10. AdmissionTypeOK'
  BY <1>3, <1>5, <1>6, <1>8, <1>9 DEF AdmissionTypeOK, LeasesKept
<1> QED BY <1>3, <1>4, <1>5, <1>6, <1>7, <1>8, <1>10 DEF AdmissionSound, LeasesKept

LEMMA InitSound == Init => AdmissionSound
<1> SUFFICES ASSUME Init PROVE AdmissionSound
  OBVIOUS
<1>1. /\ queue = [o \in Owners |-> <<>>] /\ ring = <<>>
      /\ active = 0 /\ activeOf = [o \in Owners |-> 0] /\ pending = 0
      /\ closed = FALSE /\ round = Quiet
      /\ state = [l \in Lease |-> "suspended"] /\ acq = [l \in Lease |-> "none"]
      /\ aborted = {} /\ again = {} /\ since = [o \in Owners |-> {}]
  BY DEF Init
<1>2. <<>> \in Seq(Lease) /\ <<>> \in Seq(Owners) /\ Quiet \in RoundStates
  BY DEF Quiet, RoundStates
<1>3. AdmissionTypeOK
  BY <1>1, <1>2 DEF AdmissionTypeOK, LeaseStates, Acquisitions
<1>4. Out = {} /\ Waiters = {} /\ \A o : Of(Out, o) = {}
  BY <1>1 DEF Out, Waiters, Of
<1>5. PermitsAccounted
  <2>1. Cardinality({}) = 0
    BY FS_EmptySet
  <2>2. Cardinality(Out) = 0 /\ Cardinality(Waiters) = 0
        /\ \A o \in Owners : activeOf[o] = 0 /\ Cardinality(Of(Out, o)) = 0
    BY <1>1, <1>4, <2>1
  <2>3. 0 <= Capacity /\ 0 <= Limit /\ 0 <= MaxPending
    BY AdmissionAssumption
  <2>4. CountersFit(Out, Waiters)
    BY <1>1, <2>2, <2>3, Zenon DEF CountersFit
  <2> QED BY <2>4, AccountsOfSets
<1>6. OwnersQueued
  <2>1. ToSet(<<>>) = {} /\ IsInjective(<<>>)
    BY DEF ToSet, IsInjective
  <2>2. \A o \in Owners : queue[o] = <<>>
    BY <1>1
  <2>3. /\ {o \in Owners : Waiting(o)} = {}
        /\ \A o \in Owners : {l \in Waiters : OwnerOf[l] = o} = {}
    BY <1>4, <2>2 DEF Waiting
  <2> QED BY <1>1, <2>1, <2>2, <2>3, Zenon DEF OwnersQueued
<1>7. WorkConserving /\ SinceSound /\ LeasesSound
  BY <1>1 DEF WorkConserving, SinceSound, LeasesSound, Eligible, Waiting
<1>8. RoundSound
  BY <1>1 DEF RoundSound, Quiet
<1> QED BY <1>3, <1>5, <1>6, <1>7, <1>8 DEF AdmissionSound

-----------------------------------------------------------------------------
(* The theorems. *)

\* The inductive invariant: the counters, the queues and the ring agree with the leases, a
\* round of dispatch() only passes owners at their limit, and the owners served before
\* one that waits stand behind it.
THEOREM AdmissionIsSound == Spec => []AdmissionSound
<1>1. ASSUME AdmissionSound, UNCHANGED vars PROVE AdmissionSound'
  <2>1. /\ UNCHANGED <<queue, ring, active, activeOf, pending, closed, round>>
        /\ UNCHANGED <<state, acq, aborted, again, since>>
    BY <1>1 DEF vars
  <2>2. AdmissionTypeOK'
    BY <1>1, <2>1 DEF AdmissionSound, AdmissionTypeOK
  <2>3. PermitsAccounted'
    BY <1>1, <2>1 DEF AdmissionSound, PermitsAccounted, Out, OutOf, Waiters
  <2>4. OwnersQueued'
    BY <1>1, <2>1 DEF AdmissionSound, OwnersQueued, Waiters, Waiting
  <2>5. WorkConserving' /\ RoundSound'
    BY <1>1, <2>1 DEF AdmissionSound, WorkConserving, RoundSound, Eligible, Waiting, Free
  <2>6. LeasesSound' /\ SinceSound'
    BY <1>1, <2>1 DEF AdmissionSound, LeasesSound, SinceSound, Eligible, Waiting
  <2> QED BY <2>2, <2>3, <2>4, <2>5, <2>6 DEF AdmissionSound
<1> QED BY <1>1, InitSound, NextKeepsSound, PTL DEF Spec

\* Whatever becomes of a lease while its acquisition is under way, the permits counted are
\* those held, and no limit is exceeded: acquire(), grant() and releaseWithReason().
THEOREM PermitsAreAccounted == Spec => []PermitsAccounted
<1>1. AdmissionSound => PermitsAccounted
  BY DEF AdmissionSound
<1> QED BY <1>1, AdmissionIsSound, PTL

\* The ring of dispatch() names the owners with waiters, and the queues hold the waiters.
THEOREM OwnersAreQueued == Spec => []OwnersQueued
<1>1. AdmissionSound => OwnersQueued
  BY DEF AdmissionSound
<1> QED BY <1>1, AdmissionIsSound, PTL

\* dispatch() leaves no permit idle that a waiter could have.
THEOREM NoPermitIsIdle == Spec => []WorkConserving
<1>1. AdmissionSound => WorkConserving
  BY DEF AdmissionSound
<1> QED BY <1>1, AdmissionIsSound, PTL

\* Owners take turns: none is served twice while another can be served.
THEOREM NobodyIsOvertaken == Spec => NoOvertaking
<1> DEFINE Fair == \A o \in Owners, p \in Served : Eligible(o) /\ p # o => p \notin since[o]
<1>1. ASSUME AdmissionSound, Next PROVE Fair
  <2>1. PICK l \in Lease : Effect(l)
    BY <1>1, StepHasEffect
  <2> QED BY <1>1, <2>1, NobodyOvertakes DEF AdmissionSound
<1>2. AdmissionSound /\ [Next]_vars => [Fair]_vars
  BY <1>1
<1> HIDE DEF Fair
<1>3. Spec => [][Fair]_vars
  BY <1>2, AdmissionIsSound, PTL DEF Spec
<1> QED BY <1>3 DEF NoOvertaking, Fair

\* A lease that becomes active fits: its own permit is counted and was not yet active.
LEMMA ArrivalFits ==
  ASSUME AdmissionTypeOK, PermitsAccounted, LeasesSound, NEW l \in Lease, acq[l] = "granted"
  PROVE  Pool!Fits(l)
<1> DEFINE o == OwnerOf[l]
           S == Pool!Active
           T == Pool!ActiveOf(o)
<1>1. l \in Out /\ l \in OutOf(o) /\ l \notin S /\ l \notin T /\ o \in Owners
  BY OwnersOfLeases DEF Out, OutOf, LeasesSound, Pool!Active, Pool!ActiveOf
<1>2. /\ S \in SUBSET Out /\ T \in SUBSET OutOf(o)
      /\ Out \in SUBSET Lease /\ OutOf(o) \in SUBSET Lease
  BY DEF Out, OutOf, Pool!Active, Pool!ActiveOf
<1>3. /\ Cardinality(Out) <= Capacity /\ Cardinality(OutOf(o)) <= Limit
      /\ Capacity \in Nat /\ Limit \in Nat
  BY <1>1, AdmissionAssumption DEF PermitsAccounted
<1>4. ASSUME NEW A \in SUBSET Lease, NEW B \in SUBSET A, l \in A, l \notin B
      PROVE  Cardinality(B) < Cardinality(A)
  <2>1. IsFiniteSet(A) /\ Cardinality(A) \in Nat
    BY LeasesAreFinite
  <2>2. Cardinality(A \ {l}) = Cardinality(A) - 1 /\ IsFiniteSet(A \ {l})
    BY <1>4, <2>1, FS_RemoveElement
  <2>3. B \in SUBSET (A \ {l})
    BY <1>4
  <2>4. Cardinality(B) <= Cardinality(A \ {l}) /\ Cardinality(B) \in Nat
    BY <2>2, <2>3, LeasesAreFinite, FS_Subset
  <2> QED BY <2>1, <2>2, <2>4
<1> HIDE DEF S, T
<1>5. /\ Cardinality(S) < Cardinality(Out) /\ Cardinality(T) < Cardinality(OutOf(o))
      /\ Cardinality(S) \in Nat /\ Cardinality(T) \in Nat
      /\ Cardinality(Out) \in Nat /\ Cardinality(OutOf(o)) \in Nat
  <2>1. Cardinality(S) < Cardinality(Out)
    BY <1>1, <1>2, <1>4
  <2>2. Cardinality(T) < Cardinality(OutOf(o))
    BY <1>1, <1>2, <1>4
  <2>3. S \in SUBSET Lease /\ T \in SUBSET Lease
    BY <1>2
  <2> QED BY <1>2, <2>1, <2>2, <2>3, LeasesAreFinite
<1>6. Cardinality(S) < Capacity /\ Cardinality(T) < Limit
  BY <1>3, <1>5
<1> QED BY <1>6, Zenon DEF Pool!Fits, S, T, Cardinality, Pool!Cardinality

LEMMA UseIsPooled ==
  ASSUME AdmissionSound, NEW l \in Lease, Use(l)
  PROVE  [Pool!Next]_state
<1>1. /\ AdmissionTypeOK /\ PermitsAccounted /\ LeasesSound
      /\ state = [state EXCEPT ![l] = state[l]] /\ state[l] \in LeaseStates
  BY KeepsOwn DEF AdmissionSound
<1> USE DEF Pool!Becomes
<1>acquire. ASSUME Acquire(l) PROVE Pool!Resume(l)
  BY <1>acquire DEF Acquire, Refused, Granted, Queued, Pool!Resume
<1>2. CASE Resume(l)
  BY <1>2, <1>acquire DEF Resume, Pool!Next
<1>3. CASE ResumeLater(l)
  BY <1>3 DEF ResumeLater
<1>4. CASE ResumeAgain(l)
  BY <1>4, <1>acquire DEF ResumeAgain, Pool!Next
<1>5. CASE Suspend(l)
  <2>1. Pool!Suspend(l)
    BY <1>5 DEF Suspend, GiveUp, Pool!Suspend
  <2> QED BY <2>1 DEF Pool!Next
<1>6. CASE Release(l)
  <2>1. Pool!Release(l)
    BY <1>6 DEF Release, GiveUp, Pool!Release
  <2> QED BY <2>1 DEF Pool!Next
<1>7. CASE Abort(l)
  BY <1>7 DEF Abort
<1>8. CASE Arrive(l)
  <2>1. CASE state' = state
    BY <2>1
  <2>2. CASE state[l] = "acquiring" /\ state' = [state EXCEPT ![l] = "active"]
    <3>1. Pool!Fits(l)
      BY <1>1, <1>8, ArrivalFits DEF Arrive
    <3>2. Pool!Grant(l)
      BY <2>2, <3>1 DEF Pool!Grant
    <3> QED BY <3>2 DEF Pool!Next
  <2> QED BY <1>8, <2>1, <2>2 DEF Arrive
<1>9. CASE Finish(l)
  <2>1. CASE state[l] = "acquiring"
    <3>0. state' = [state EXCEPT ![l] = IF state[l] = "acquiring" THEN "suspended" ELSE state[l]]
      BY <1>9 DEF Finish
    <3>1. Pool!Refuse(l)
      BY <2>1, <3>0 DEF Pool!Refuse
    <3> QED BY <3>1 DEF Pool!Next
  <2>2. CASE state[l] # "acquiring"
    BY <1>1, <1>9, <2>2 DEF Finish
  <2> QED BY <2>1, <2>2
<1>10. CASE Renew(l)
  <2>1. Pool!Renew(l)
    BY <1>10 DEF Renew, Pool!Renew
  <2> QED BY <2>1 DEF Pool!Next
<1> QED BY <1>2, <1>3, <1>4, <1>5, <1>6, <1>7, <1>8, <1>9, <1>10 DEF Use

\* To the turns that hold leases the admission is a pool of permits: a lease is active only
\* while the process and its owner are within their limits, whatever the queues do.
THEOREM AdmissionIsPool == Spec => ImplementsPool
<1>1. Init => Pool!Init
  BY DEF Init, Pool!Init
<1>2. ASSUME AdmissionSound, [Next]_vars PROVE [Pool!Next]_state
  <2>1. CASE UNCHANGED vars
    BY <2>1 DEF vars
  <2>2. CASE Rounds \/ Visit \/ Close
    BY <2>2 DEF Rounds, Visit, Close, leases
  <2>3. CASE \E l \in Lease : Use(l) /\ Track
    BY <1>2, <2>3, UseIsPooled
  <2> QED BY <1>2, <2>1, <2>2, <2>3 DEF Next
<1>3. Spec => Pool!Init /\ [][Pool!Next]_state
  BY <1>1, <1>2, AdmissionIsSound, PTL DEF Spec
<1> QED BY <1>3 DEF ImplementsPool, Pool!Spec

=============================================================================
