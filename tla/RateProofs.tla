----------------------------- MODULE RateProofs -----------------------------
(***************************************************************************)
(* What TLAPS proves of the rate limiter, for every set of clients, every  *)
(* route table and every rate and burst that satisfy FullBeforeSweep.      *)
(***************************************************************************)
EXTENDS RateHistory, FiniteSetTheorems, TLAPS

\* A tick adds the rate and stops at the burst.
LEMMA RefilledBounds ==
    ASSUME NEW n \in Nat, NEW r \in Nat, NEW m \in Nat, n <= m
    PROVE  /\ Refilled(n, r, m) \in Nat
           /\ Refilled(n, r, m) <= m
           /\ n <= Refilled(n, r, m)
           /\ Refilled(n, r, m) <= n + r
           /\ Refilled(n, r, m) = m \/ Refilled(n, r, m) = n + r
BY DEF Refilled

\* The limits of a bucket are numbers.
LEMMA BucketLimits ==
    ASSUME NEW b \in Buckets
    PROVE  b[2] \in Routes /\ Rate[b[2]] \in Nat /\ Burst[b[2]] \in Nat
BY RatesAssumption DEF Buckets

\* A bucket, remembered or not, holds no more than its burst.
LEMMA TokensNat ==
    ASSUME TypeOK, NEW b \in Buckets
    PROVE  Tokens(b) \in Nat /\ Tokens(b) <= Burst[b[2]]
BY BucketLimits DEF TypeOK, Tokens, Visitors

\* A visitor is a record of its two fields.
LEMMA VisitorFields ==
    ASSUME NEW n \in Nat, NEW i \in 0..(IdleLimit + 1)
    PROVE  /\ [tokens |-> n, idle |-> i] \in Visitors
           /\ [tokens |-> n, idle |-> i] # None
           /\ [tokens |-> n, idle |-> i].tokens = n
           /\ [tokens |-> n, idle |-> i].idle = i
BY NoneAssumption DEF Visitors

\* The limiter a request is charged to loses one token, if it has one; no
\* other limiter changes.
LEMMA AllowEffect ==
    ASSUME TypeOK, NEW w \in Workers, NEW route \in Routes, VisitorAllow(w, route),
           NEW b, b = Visitor(w, route)
    PROVE  /\ b \in Buckets
           /\ visitors' \in [Buckets -> Visitors \cup {None}]
           /\ visitors'[b] # None
           /\ visitors'[b].idle = 0
           /\ visitors'[b].tokens \in Nat
           /\ visitors'[b].tokens = IF Tokens(b) > 0 THEN Tokens(b) - 1 ELSE 0
           /\ \A d \in Buckets : d # b => visitors'[d] = visitors[d]
<1> DEFINE n == IF Tokens(b) > 0 THEN Tokens(b) - 1 ELSE 0
           v == [tokens |-> n, idle |-> 0]
<1>1. b \in Buckets
  BY DEF TypeOK, VisitorAllow, Visitor, Buckets
<1>2. n \in Nat
  BY <1>1, TokensNat
<1>3. v \in Visitors /\ v # None /\ v.tokens = n /\ v.idle = 0
  <2>1. 0 \in 0..(IdleLimit + 1)
    BY RatesAssumption
  <2> HIDE DEF n
  <2> QED BY <1>2, <2>1, VisitorFields
<1>4. visitors' = [visitors EXCEPT ![b] = v]
  BY DEF VisitorAllow
<1> HIDE DEF v
<1>5. visitors'[b] = v /\ \A d \in Buckets : d # b => visitors'[d] = visitors[d]
  BY <1>1, <1>4 DEF TypeOK
<1>6. visitors' \in [Buckets -> Visitors \cup {None}]
  BY <1>1, <1>3, <1>4 DEF TypeOK
<1> QED BY <1>1, <1>2, <1>3, <1>5, <1>6

\* A tick refills every limiter that exists.
LEMMA TickEffect ==
    ASSUME TypeOK, Tick, NEW b \in Buckets
    PROVE  /\ visitors[b] = None => visitors'[b] = None
           /\ visitors[b] # None =>
                /\ visitors'[b] # None
                /\ visitors'[b].tokens = Refilled(visitors[b].tokens, Rate[b[2]], Burst[b[2]])
                /\ visitors'[b].idle = Refilled(visitors[b].idle, 1, IdleLimit + 1)
                /\ visitors'[b].tokens \in Nat
                /\ visitors'[b].idle \in 0..(IdleLimit + 1)
           /\ visitors'[b] \in Visitors \cup {None}
<1> DEFINE n == Refilled(visitors[b].tokens, Rate[b[2]], Burst[b[2]])
           i == Refilled(visitors[b].idle, 1, IdleLimit + 1)
           v == [tokens |-> n, idle |-> i]
<1>1. visitors'[b] = IF visitors[b] = None THEN None ELSE v
  BY DEF Tick
<1>2. CASE visitors[b] = None
  BY <1>1, <1>2
<1>3. CASE visitors[b] # None
  <2>1. /\ visitors[b].tokens \in Nat /\ visitors[b].tokens <= Burst[b[2]]
        /\ visitors[b].idle \in 0..(IdleLimit + 1)
    BY <1>3 DEF TypeOK, Visitors, Tokens
  <2>2. n \in Nat
    BY <2>1, BucketLimits, RefilledBounds
  <2>3. i \in 0..(IdleLimit + 1)
    BY <2>1, RatesAssumption DEF Refilled
  <2> HIDE DEF n, i
  <2>4. v \in Visitors /\ v # None /\ v.tokens = n /\ v.idle = i
    BY <2>2, <2>3, VisitorFields
  <2>5. visitors'[b] = v
    BY <1>1, <1>3
  <2> HIDE DEF v
  <2>6. visitors'[b] # None /\ visitors'[b].tokens = n /\ visitors'[b].idle = i
          /\ visitors'[b] \in Visitors
    BY <2>4, <2>5
  <2> QED BY <1>3, <2>2, <2>3, <2>6 DEF n, i
<1> QED BY <1>2, <1>3

\* A sweep keeps a limiter or forgets it.
LEMMA SweepEffect ==
    ASSUME TypeOK, Sweep, NEW b \in Buckets
    PROVE  \/ visitors'[b] = visitors[b]
           \/ /\ visitors'[b] = None /\ visitors[b] # None
              /\ visitors[b].idle > IdleLimit
BY DEF Sweep

-----------------------------------------------------------------------------
\* A limiter that is swept away is full, so the one that replaces it is equal.
LEMMA SweptIsFull ==
    ASSUME TypeOK, IdleIsFull, NEW b \in Buckets, visitors[b] # None,
           visitors[b].idle > IdleLimit
    PROVE  visitors[b].tokens = Burst[b[2]]
<1> DEFINE r == Rate[b[2]]
           m == Burst[b[2]]
           n == visitors[b].tokens
<1>1. r \in Nat /\ m \in Nat /\ m <= r * IdleLimit
  BY BucketLimits, FullBeforeSweep
<1>2. n \in Nat /\ n <= m /\ visitors[b].idle = IdleLimit + 1 /\ IdleLimit \in Nat
  BY RatesAssumption DEF TypeOK, Visitors, Tokens
<1>3. n = m \/ n >= r * (IdleLimit + 1)
  BY <1>2 DEF IdleIsFull
<1> HIDE DEF r, m, n
<1>4. r * (IdleLimit + 1) = r * IdleLimit + r /\ r * IdleLimit \in Nat
  BY <1>1, <1>2
<1>5. n = m
  BY <1>1, <1>2, <1>3, <1>4
<1> QED BY <1>5 DEF n, m

\* A sweep changes the tokens of no bucket.
LEMMA SweepKeepsTokens ==
    ASSUME TypeOK, IdleIsFull, Sweep, NEW b \in Buckets
    PROVE  Tokens(b)' = Tokens(b)
BY SweepEffect, SweptIsFull DEF Tokens

\* A tick refills every bucket, remembered or not.
LEMMA TickRefills ==
    ASSUME TypeOK, Tick, NEW b \in Buckets
    PROVE  Tokens(b)' = Refilled(Tokens(b), Rate[b[2]], Burst[b[2]])
<1>1. CASE visitors[b] = None
  <2>1. Tokens(b)' = Burst[b[2]] /\ Tokens(b) = Burst[b[2]]
    BY <1>1, TickEffect DEF Tokens
  <2>2. Refilled(Burst[b[2]], Rate[b[2]], Burst[b[2]]) = Burst[b[2]]
    BY BucketLimits DEF Refilled
  <2> QED BY <2>1, <2>2
<1>2. CASE visitors[b] # None
  BY <1>2, TickEffect DEF Tokens
<1> QED BY <1>1, <1>2

-----------------------------------------------------------------------------
\* The invariant holds initially.
LEMMA InitInvariant == Init => TypeOK /\ IdleIsFull
<1> SUFFICES ASSUME Init PROVE TypeOK /\ IdleIsFull
  OBVIOUS
<1>1. \A b \in Buckets : visitors[b] = None /\ Tokens(b) <= Burst[b[2]]
  BY BucketLimits DEF Init, Tokens
<1> QED BY <1>1, RatesAssumption DEF Init, TypeOK, IdleIsFull

\* Every step keeps it.
LEMMA NextInvariant ==
    ASSUME TypeOK, IdleIsFull, [Next]_vars
    PROVE  TypeOK' /\ IdleIsFull'
<1>1. CASE UNCHANGED vars
  BY <1>1 DEF vars, TypeOK, IdleIsFull, Tokens
<1>2. CASE Sweep
  <2>1. global' \in 0..GlobalBurst /\ serving' \in [Workers -> (Clients \X Paths) \cup {None}]
    BY <1>2 DEF Sweep, TypeOK
  <2>2. visitors' \in [Buckets -> Visitors \cup {None}]
    BY <1>2 DEF Sweep, TypeOK
  <2>3. \A b \in Buckets : Tokens(b)' <= Burst[b[2]]
    BY <1>2, SweepKeepsTokens, TokensNat
  <2>4. IdleIsFull'
    BY <1>2, SweepEffect DEF IdleIsFull
  <2> QED BY <2>1, <2>2, <2>3, <2>4 DEF TypeOK
<1>3. CASE Tick
  <2>1. global' \in 0..GlobalBurst /\ serving' \in [Workers -> (Clients \X Paths) \cup {None}]
    BY <1>3, RatesAssumption DEF Tick, TypeOK, Refilled
  <2>2. visitors' \in [Buckets -> Visitors \cup {None}]
    <3>1. \A b \in Buckets : visitors'[b] \in Visitors \cup {None}
      BY <1>3, TickEffect
    <3>2. visitors' = [b \in Buckets |-> visitors'[b]]
      BY <1>3 DEF Tick
    <3> QED BY <3>1, <3>2
  <2>3. \A b \in Buckets : Tokens(b)' <= Burst[b[2]]
    <3> TAKE b \in Buckets
    <3>1. /\ Tokens(b) \in Nat /\ Tokens(b) <= Burst[b[2]]
          /\ Rate[b[2]] \in Nat /\ Burst[b[2]] \in Nat
      BY TokensNat, BucketLimits
    <3>2. Refilled(Tokens(b), Rate[b[2]], Burst[b[2]]) <= Burst[b[2]]
      BY <3>1, RefilledBounds
    <3> QED BY <1>3, <3>2, TickRefills
  <2>4. ASSUME NEW b \in Buckets, visitors'[b] # None
        PROVE  visitors'[b].tokens = Burst[b[2]]
                 \/ visitors'[b].tokens >= Rate[b[2]] * visitors'[b].idle
    <3> DEFINE r == Rate[b[2]]
               m == Burst[b[2]]
               n == visitors[b].tokens
               i == visitors[b].idle
    <3>1. /\ visitors[b] # None
          /\ visitors'[b].tokens = Refilled(n, r, m)
          /\ visitors'[b].idle = Refilled(i, 1, IdleLimit + 1)
      BY <1>3, <2>4, TickEffect
    <3>2. n \in Nat /\ r \in Nat /\ m \in Nat /\ n <= m /\ i \in Nat
      BY <3>1, BucketLimits DEF TypeOK, Visitors, Tokens
    <3>3. n = m \/ n >= r * i
      BY <3>1 DEF IdleIsFull
    <3> DEFINE j == Refilled(i, 1, IdleLimit + 1)
    <3>4. j \in Nat /\ (j = i + 1 \/ j <= i)
      BY <3>1, RatesAssumption DEF TypeOK, Visitors, Refilled
    <3> HIDE DEF r, m, n, i, j
    <3>5. r * j <= r * i + r
      <4>1. r * (i + 1) = r * i + r /\ r * i \in Nat
        BY <3>2
      <4>2. CASE j = i + 1
        <5>1. r * j = r * (i + 1)
          BY <4>2
        <5>2. r * i + r \in Nat
          BY <3>2, <4>1
        <5> QED BY <4>1, <5>1, <5>2
      <4>3. CASE j <= i
        <5>1. r * j <= r * i
          <6>1. PICK d \in Nat : i = j + d
            BY <3>2, <3>4, <4>3
          <6>2. r * i = r * j + r * d /\ r * d \in Nat /\ r * j \in Nat
            BY <3>2, <3>4, <6>1
          <6> QED BY <6>2
        <5> QED BY <5>1, <4>1, <3>2, <3>4
      <4> QED BY <3>4, <4>2, <4>3
    <3>6. Refilled(n, r, m) = m \/ Refilled(n, r, m) >= r * j
      <4>1. Refilled(n, r, m) = m \/ Refilled(n, r, m) = n + r
        BY <3>2, RefilledBounds
      <4>2. CASE Refilled(n, r, m) = n + r
        <5>1. CASE n = m
          BY <3>2, <4>2, <5>1 DEF Refilled
        <5>2. CASE n >= r * i
          <6>1. r * i \in Nat /\ r * j \in Nat
            BY <3>2, <3>4
          <6> QED BY <3>2, <3>5, <4>2, <5>2, <6>1
        <5> QED BY <3>3, <5>1, <5>2
      <4> QED BY <4>1, <4>2
    <3> QED BY <3>1, <3>6 DEF r, m, j
  <2>5. IdleIsFull'
    BY <2>4 DEF IdleIsFull
  <2> QED BY <2>1, <2>2, <2>3, <2>5 DEF TypeOK
<1>4. ASSUME NEW w \in Workers, NEW route \in Routes, VisitorAllow(w, route)
      PROVE  TypeOK' /\ IdleIsFull'
  <2> DEFINE b == Visitor(w, route)
  <2>1. /\ b \in Buckets
        /\ visitors' \in [Buckets -> Visitors \cup {None}]
        /\ visitors'[b] # None
        /\ visitors'[b].idle = 0
        /\ visitors'[b].tokens \in Nat
        /\ visitors'[b].tokens = IF Tokens(b) > 0 THEN Tokens(b) - 1 ELSE 0
        /\ \A d \in Buckets : d # b => visitors'[d] = visitors[d]
    BY <1>4, AllowEffect
  <2>2. global' \in 0..GlobalBurst /\ serving' \in [Workers -> (Clients \X Paths) \cup {None}]
    BY <1>4 DEF VisitorAllow, TypeOK
  <2> HIDE DEF b
  <2>3. visitors'[b].tokens <= Burst[b[2]]
    <3>1. Tokens(b) \in Nat /\ Tokens(b) <= Burst[b[2]] /\ Burst[b[2]] \in Nat
      BY <2>1, TokensNat, BucketLimits
    <3> QED BY <2>1, <3>1
  <2>4. ASSUME NEW d \in Buckets PROVE Tokens(d)' <= Burst[d[2]]
    <3>1. CASE d = b
      BY <2>1, <2>3, <3>1 DEF Tokens
    <3>2. CASE d # b
      <4>1. visitors'[d] = visitors[d]
        BY <2>1, <3>2
      <4>2. Tokens(d)' = Tokens(d)
        BY <4>1 DEF Tokens
      <4> QED BY <4>2, TokensNat
    <3> QED BY <3>1, <3>2
  <2>5. visitors'[b].tokens >= Rate[b[2]] * visitors'[b].idle
    <3>1. Rate[b[2]] * 0 = 0
      BY <2>1, BucketLimits
    <3> QED BY <2>1, <3>1
  <2>6. IdleIsFull'
    BY <2>1, <2>5 DEF IdleIsFull
  <2> QED BY <2>1, <2>2, <2>4, <2>6 DEF TypeOK
<1>5. ASSUME NEW w \in Workers, NEW c \in Clients, NEW path \in Paths,
             GlobalAllow(w, c, path)
      PROVE  TypeOK' /\ IdleIsFull'
  <2>1. global' \in 0..GlobalBurst
    BY <1>5, RatesAssumption DEF GlobalAllow, TypeOK
  <2>2. serving' \in [Workers -> (Clients \X Paths) \cup {None}]
    BY <1>5 DEF GlobalAllow, TypeOK
  <2> QED BY <1>5, <2>1, <2>2 DEF GlobalAllow, TypeOK, IdleIsFull, Tokens
<1>6. ASSUME NEW w \in Workers, NEW c \in Clients, NEW path \in Paths,
             GlobalRefuse(w, c, path)
      PROVE  TypeOK' /\ IdleIsFull'
  BY <1>1, <1>6 DEF GlobalRefuse
<1> QED BY <1>1, <1>2, <1>3, <1>4, <1>5, <1>6 DEF Next

\* Types, and that a limiter idle for some ticks has had them to refill.
THEOREM LimiterInvariant == Spec => [](TypeOK /\ IdleIsFull)
BY InitInvariant, NextInvariant, PTL DEF Spec

-----------------------------------------------------------------------------
\* The limiter behaves as if every client had had its buckets from the start:
\* sweeping an idle client away never gives it an extra request.
THEOREM LimiterImplementsBuckets == Spec => ImplementsBuckets
<1>1. Init => Promise!Init
  BY DEF Init, Promise!Init, Tokens
<1>2. TypeOK /\ IdleIsFull /\ [Next]_vars => [Promise!Next]_(Promise!vars)
  <2> SUFFICES ASSUME TypeOK, IdleIsFull, [Next]_vars
               PROVE  Promise!Next \/ UNCHANGED Promise!vars
    OBVIOUS
  <2> DEFINE T == [b \in Buckets |-> Tokens(b)]
  <2>1. CASE UNCHANGED vars
    BY <2>1 DEF vars, Promise!vars, Tokens
  <2>2. CASE Sweep
    <3>1. T' = T
      BY <2>2, SweepKeepsTokens
    <3> QED BY <2>2, <3>1 DEF Sweep, Promise!vars
  <2>3. CASE Tick
    <3>1. T' = [b \in Buckets |-> Refilled(T[b], Rate[b[2]], Burst[b[2]])]
      BY <2>3, TickRefills
    <3>2. Promise!Tick
      BY <2>3, <3>1 DEF Tick, Promise!Tick, Promise!Refilled, Refilled
    <3> QED BY <3>2 DEF Promise!Next
  <2>4. ASSUME NEW w \in Workers, NEW route \in Routes, VisitorAllow(w, route)
        PROVE  Promise!Next \/ UNCHANGED Promise!vars
    <3>1. PICK b \in Buckets :
            /\ visitors'[b] # None
            /\ visitors'[b].tokens = IF Tokens(b) > 0 THEN Tokens(b) - 1 ELSE 0
            /\ \A d \in Buckets : d # b => visitors'[d] = visitors[d]
      BY <2>4, AllowEffect
    <3>2. \A d \in Buckets : d # b => Tokens(d)' = Tokens(d)
      BY <3>1 DEF Tokens
    <3>3. Tokens(b)' = IF Tokens(b) > 0 THEN Tokens(b) - 1 ELSE 0
      BY <3>1 DEF Tokens
    <3>4. Tokens(b) \in Nat
      BY TokensNat
    <3>5. global' = global
      BY <2>4 DEF VisitorAllow
    <3>6. CASE Tokens(b) > 0
      <4>1. T' = [T EXCEPT ![b] = T[b] - 1]
        BY <3>2, <3>3, <3>6
      <4>2. Promise!Take(b)
        BY <3>5, <3>6, <4>1 DEF Promise!Take
      <4> QED BY <4>2 DEF Promise!Next
    <3>7. CASE ~(Tokens(b) > 0)
      <4>1. T' = T
        BY <3>2, <3>3, <3>4, <3>7
      <4> QED BY <3>5, <4>1 DEF Promise!vars
    <3> QED BY <3>6, <3>7
  <2>5. ASSUME NEW w \in Workers, NEW c \in Clients, NEW path \in Paths,
               GlobalAllow(w, c, path)
        PROVE  Promise!Next
    BY <2>5 DEF GlobalAllow, Promise!Next, Promise!TakeGlobal, Tokens
  <2>6. ASSUME NEW w \in Workers, NEW c \in Clients, NEW path \in Paths,
               GlobalRefuse(w, c, path)
        PROVE  UNCHANGED Promise!vars
    BY <2>1, <2>6 DEF GlobalRefuse, vars, Promise!vars, Tokens
  <2> QED BY <2>1, <2>2, <2>3, <2>4, <2>5, <2>6 DEF Next
<1> QED BY <1>1, <1>2, LimiterInvariant, PTL DEF Spec, ImplementsBuckets, Promise!Spec


-----------------------------------------------------------------------------
\* What was granted since the window opened and what is left in the bucket come
\* from its burst and from the rate; this is what a sweep must not disturb.
Granted ==
    /\ age \in Nat
    /\ passed \in [Buckets -> Nat]
    /\ \A b \in Buckets : passed[b] + Tokens(b) <= Burst[b[2]] + Rate[b[2]] * age

WindowInv == TypeOK /\ IdleIsFull /\ Granted

\* A step of the window's specification is one of the limiter's.
LEMMA WindowStep == [RNext]_allVars => [Next]_vars
BY DEF RNext, allVars, vars, Next, Reopen

\* A window that opens now has granted nothing.
LEMMA WindowOpens ==
    ASSUME TypeOK, UNCHANGED vars, age' = 0, passed' = [b \in Buckets |-> 0]
    PROVE  Granted'
<1>1. ASSUME NEW b \in Buckets PROVE (passed[b] + Tokens(b) <= Burst[b[2]] + Rate[b[2]] * age)'
  <2>1. Tokens(b)' = Tokens(b)
    BY DEF vars, Tokens
  <2>2. Tokens(b) \in Nat /\ Tokens(b) <= Burst[b[2]] /\ Burst[b[2]] \in Nat /\ Rate[b[2]] \in Nat
    BY TokensNat, BucketLimits
  <2>3. Rate[b[2]] * 0 = 0
    BY <2>2
  <2>4. passed'[b] = 0
    OBVIOUS
  <2> QED BY <2>1, <2>2, <2>3, <2>4
<1> QED BY <1>1 DEF Granted

\* A request that is admitted takes the token it is counted for.
LEMMA WindowAllows ==
    ASSUME WindowInv, NEW w \in Workers, NEW route \in Routes,
           VisitorAllow(w, route), Count(w, route), UNCHANGED age
    PROVE  Granted'
<1> DEFINE b == Visitor(w, route)
<1>1. /\ b \in Buckets
      /\ visitors'[b] # None
      /\ visitors'[b].tokens = IF Tokens(b) > 0 THEN Tokens(b) - 1 ELSE 0
      /\ \A d \in Buckets : d # b => visitors'[d] = visitors[d]
  BY AllowEffect DEF WindowInv
<1>2. passed' = IF Tokens(b) > 0 THEN [passed EXCEPT ![b] = @ + 1] ELSE passed
  BY DEF Count, counts
<1> HIDE DEF b
<1>3. passed' \in [Buckets -> Nat]
  BY <1>1, <1>2 DEF WindowInv, Granted
<1>4. ASSUME NEW d \in Buckets PROVE passed'[d] + Tokens(d)' = passed[d] + Tokens(d)
  <2>1. Tokens(d) \in Nat /\ passed[d] \in Nat
    BY TokensNat DEF WindowInv, Granted
  <2>2. CASE d = b
    <3>1. Tokens(d)' = IF Tokens(d) > 0 THEN Tokens(d) - 1 ELSE 0
      BY <1>1, <2>2 DEF Tokens
    <3>2. passed'[d] = IF Tokens(d) > 0 THEN passed[d] + 1 ELSE passed[d]
      BY <1>2, <2>2 DEF WindowInv, Granted
    <3> QED BY <2>1, <3>1, <3>2
  <2>3. CASE d # b
    <3>1. visitors'[d] = visitors[d]
      BY <1>1, <2>3
    <3>2. Tokens(d)' = Tokens(d)
      BY <3>1 DEF Tokens
    <3>3. passed'[d] = passed[d]
      BY <1>2, <2>3 DEF WindowInv, Granted
    <3> QED BY <3>2, <3>3
  <2> QED BY <2>2, <2>3
<1> QED BY <1>3, <1>4 DEF WindowInv, Granted

\* A tick lets the bound grow by the rate, and the bucket by no more.
LEMMA WindowTicks ==
    ASSUME WindowInv, Tick, age' = age + 1, UNCHANGED passed
    PROVE  Granted'
<1>1. age \in Nat /\ age' \in Nat
  BY DEF WindowInv, Granted
<1>2. ASSUME NEW b \in Buckets
      PROVE  (passed[b] + Tokens(b) <= Burst[b[2]] + Rate[b[2]] * age)'
  <2> DEFINE r == Rate[b[2]]  m == Burst[b[2]]  n == Tokens(b)
  <2>1. r \in Nat /\ m \in Nat /\ n \in Nat /\ n <= m
    BY TokensNat, BucketLimits DEF WindowInv
  <2>2. Tokens(b)' = Refilled(n, r, m)
    BY TickRefills DEF WindowInv
  <2>3. Refilled(n, r, m) \in Nat /\ Refilled(n, r, m) <= n + r
    BY <2>1, RefilledBounds
  <2>4. passed[b] \in Nat /\ passed'[b] = passed[b] /\ passed[b] + n <= m + r * age
    BY DEF WindowInv, Granted
  <2> HIDE DEF r, m, n
  <2>5. r * (age + 1) = r * age + r /\ r * age \in Nat
    BY <1>1, <2>1
  <2>6. passed'[b] + Tokens(b)' <= m + r * age'
    BY <2>1, <2>2, <2>3, <2>4, <2>5
  <2> QED BY <2>6 DEF r, m
<1> QED BY <1>1, <1>2 DEF WindowInv, Granted

\* What neither the tokens nor the counts see.
LEMMA WindowStays ==
    ASSUME WindowInv, UNCHANGED <<age, passed>>, \A b \in Buckets : Tokens(b)' = Tokens(b)
    PROVE  Granted'
BY DEF WindowInv, Granted

LEMMA WindowInvariant ==
    ASSUME WindowInv, [RNext]_allVars
    PROVE  WindowInv'
<1>1. TypeOK' /\ IdleIsFull'
  BY WindowStep, NextInvariant DEF WindowInv
<1>2. ASSUME Reopen PROVE Granted'
  <2>1. UNCHANGED vars /\ age' = 0 /\ passed' = [b \in Buckets |-> 0]
    BY <1>2 DEF Reopen
  <2> QED BY <2>1, WindowOpens DEF WindowInv
<1>3. ASSUME NEW w \in Workers, NEW route \in Routes,
             VisitorAllow(w, route), Count(w, route), UNCHANGED age
      PROVE  Granted'
  BY <1>3, WindowAllows
<1>4. ASSUME NEW w \in Workers, NEW c \in Clients, NEW path \in Paths,
             GlobalAllow(w, c, path) \/ GlobalRefuse(w, c, path),
             UNCHANGED <<age, counts>>
      PROVE  Granted'
  <2>1. visitors' = visitors
    BY <1>4 DEF GlobalAllow, GlobalRefuse, vars
  <2>2. UNCHANGED <<age, passed>>
    BY <1>4 DEF counts
  <2> QED BY <2>1, <2>2, WindowStays DEF Tokens
<1>5. ASSUME Sweep, UNCHANGED <<age, counts>> PROVE Granted'
  <2>1. UNCHANGED <<age, passed>>
    BY <1>5 DEF counts
  <2>2. \A b \in Buckets : Tokens(b)' = Tokens(b)
    BY <1>5, SweepKeepsTokens DEF WindowInv
  <2> QED BY <2>1, <2>2, WindowStays
<1>6. ASSUME Tick, age' = age + 1, UNCHANGED counts PROVE Granted'
  <2>1. Tick /\ age' = age + 1 /\ UNCHANGED passed
    BY <1>6 DEF counts
  <2> QED BY <2>1, WindowTicks
<1>7. ASSUME UNCHANGED allVars PROVE Granted'
  <2>1. UNCHANGED <<age, passed>> /\ visitors' = visitors
    BY <1>7 DEF allVars, vars, counts
  <2>2. \A b \in Buckets : Tokens(b)' = Tokens(b)
    BY <2>1 DEF Tokens
  <2> QED BY <2>1, <2>2, WindowStays
<1> QED BY <1>1, <1>2, <1>3, <1>4, <1>5, <1>6, <1>7 DEF RNext, WindowInv

LEMMA InitWindow == RInit => WindowInv
<1> SUFFICES ASSUME RInit PROVE WindowInv
  OBVIOUS
<1>1. TypeOK /\ IdleIsFull
  BY InitInvariant DEF RInit
<1>2. ASSUME NEW b \in Buckets PROVE passed[b] + Tokens(b) <= Burst[b[2]] + Rate[b[2]] * age
  <2>1. Tokens(b) \in Nat /\ Tokens(b) <= Burst[b[2]] /\ Burst[b[2]] \in Nat /\ Rate[b[2]] \in Nat
    BY <1>1, TokensNat, BucketLimits
  <2>2. Rate[b[2]] * 0 = 0
    BY <2>1
  <2>3. passed[b] = 0 /\ age = 0
    BY DEF RInit
  <2> QED BY <2>1, <2>2, <2>3
<1>3. age \in Nat /\ passed \in [Buckets -> Nat]
  BY DEF RInit
<1> QED BY <1>1, <1>2, <1>3 DEF WindowInv, Granted

LEMMA GrantedIsBounded == WindowInv => WindowBound
<1> SUFFICES ASSUME WindowInv, NEW b \in Buckets
             PROVE  passed[b] <= Burst[b[2]] + Rate[b[2]] * age
  BY DEF WindowBound
<1>1. passed[b] + Tokens(b) <= Burst[b[2]] + Rate[b[2]] * age /\ passed[b] \in Nat
        /\ Tokens(b) \in Nat
  BY TokensNat DEF WindowInv, Granted
<1>2. Burst[b[2]] \in Nat /\ Rate[b[2]] * age \in Nat
  BY BucketLimits DEF WindowInv, Granted
<1> QED BY <1>1, <1>2

\* In any window of time a client is granted no more of a route than the burst
\* and the rate over the window, however often its limiter is swept away and
\* made anew (ratelimit.go:109).
THEOREM WindowBounded == RSpec => []WindowBound
BY InitWindow, GrantedIsBounded, WindowInvariant, PTL DEF RSpec

-----------------------------------------------------------------------------
(* A path that several routes match, and the server's own limiter.         *)

\* The first tokens of each route: a sum as the size of a set.
TokenSet(routes, n) == UNION {{r} \X (1..n[r]) : r \in routes}

\* The tokens that requests of any path took from the client's limiters of the
\* routes this path matches.
PassedOf(c) == [r \in Routes |-> passed[<<c, r>>]]
TakenFor(c, path) == TokenSet(Matches[path], PassedOf(c))

ServedOK ==
    /\ served \in [Clients \X Paths -> Nat]
    /\ \A c \in Clients, path \in Paths : served[<<c, path>>] <= Cardinality(TakenFor(c, path))

\* Each token of the server's limiter is there, in the hands of a request, or used.
Busy == {w \in Workers : serving[w] # None}

ServerOK ==
    /\ admitted \in Nat
    /\ admitted + global + Cardinality(Busy) <= GlobalBurst + GlobalRate * age + Cardinality(Workers)

LEMMA TokenSetIsFinite ==
    ASSUME NEW routes \in SUBSET Routes, NEW n \in [Routes -> Nat]
    PROVE  IsFiniteSet(TokenSet(routes, n)) /\ Cardinality(TokenSet(routes, n)) \in Nat
<1> DEFINE rows == {{r} \X (1..n[r]) : r \in routes}
           row == [r \in routes |-> {r} \X (1..n[r])]
<1>1. IsFiniteSet(routes)
  BY FiniteAssumption, FS_Subset
<1>2. row \in Surjection(routes, rows)
  BY DEF Surjection
<1>3. IsFiniteSet(rows)
  <2> HIDE DEF row, rows
  <2> QED BY <1>1, <1>2, FS_Surjection
<1>4. \A R \in rows : IsFiniteSet(R)
  <2> SUFFICES ASSUME NEW r \in routes PROVE IsFiniteSet({r} \X (1..n[r]))
    OBVIOUS
  <2>1. IsFiniteSet({r}) /\ IsFiniteSet(1..n[r])
    <3>1. 1 \in Int /\ n[r] \in Int
      OBVIOUS
    <3> QED BY <3>1, FS_Singleton, FS_Interval, Zenon
  <2> QED BY <2>1, FS_Product
<1>5. IsFiniteSet(UNION rows)
  <2> HIDE DEF rows
  <2> QED BY <1>3, <1>4, FS_UNION
<1> QED BY <1>5, FS_CardinalityType DEF TokenSet

LEMMA TokenSetGrows ==
    ASSUME NEW routes \in SUBSET Routes, NEW n \in [Routes -> Nat], NEW m \in [Routes -> Nat],
           \A r \in routes : n[r] <= m[r]
    PROVE  /\ TokenSet(routes, n) \subseteq TokenSet(routes, m)
           /\ Cardinality(TokenSet(routes, n)) <= Cardinality(TokenSet(routes, m))
           /\ \A r \in routes : n[r] < m[r] =>
                 Cardinality(TokenSet(routes, n)) + 1 <= Cardinality(TokenSet(routes, m))
<1>1. TokenSet(routes, n) \subseteq TokenSet(routes, m)
  <2> SUFFICES ASSUME NEW r \in routes PROVE {r} \X (1..n[r]) \subseteq {r} \X (1..m[r])
    BY DEF TokenSet
  <2> QED OBVIOUS
<1>2. /\ IsFiniteSet(TokenSet(routes, n)) /\ IsFiniteSet(TokenSet(routes, m))
      /\ Cardinality(TokenSet(routes, n)) \in Nat /\ Cardinality(TokenSet(routes, m)) \in Nat
  BY TokenSetIsFinite
<1>3. ASSUME NEW r \in routes, n[r] < m[r]
      PROVE  Cardinality(TokenSet(routes, n)) # Cardinality(TokenSet(routes, m))
  <2>1. <<r, m[r]>> \in TokenSet(routes, m)
    BY <1>3 DEF TokenSet
  <2>2. <<r, m[r]>> \notin TokenSet(routes, n)
    BY <1>3 DEF TokenSet
  <2> QED BY <1>1, <1>2, <2>1, <2>2, FS_Subset
<1>4. Cardinality(TokenSet(routes, n)) <= Cardinality(TokenSet(routes, m))
  BY <1>1, <1>2, FS_Subset
<1> QED BY <1>1, <1>2, <1>3, <1>4

LEMMA PassedOfType ==
    ASSUME NEW c \in Clients, passed \in [Buckets -> Nat]
    PROVE  PassedOf(c) \in [Routes -> Nat] /\ \A r \in Routes : PassedOf(c)[r] = passed[<<c, r>>]
BY DEF PassedOf, Buckets

LEMMA BusyIsFinite ==
    /\ IsFiniteSet(Busy) /\ Cardinality(Busy) \in Nat /\ Cardinality(Workers) \in Nat
    /\ Cardinality(Busy) <= Cardinality(Workers)
BY FiniteAssumption, FS_Subset, FS_CardinalityType DEF Busy

ChargesInv == WindowInv /\ ServedOK /\ ServerOK

LEMMA ServerNumbers ==
    ASSUME WindowInv
    PROVE  /\ Cardinality(Busy) \in Nat /\ Cardinality(Workers) \in Nat
           /\ global \in Nat /\ global <= GlobalBurst /\ age \in Nat
           /\ GlobalBurst \in Nat /\ GlobalRate \in Nat /\ GlobalRate * age \in Nat
<1>1. GlobalBurst \in Nat /\ GlobalRate \in Nat
  BY RatesAssumption
<1>2. age \in Nat /\ global \in 0..GlobalBurst
  BY DEF WindowInv, TypeOK, Granted
<1> QED BY <1>1, <1>2, BusyIsFinite

\* A request whose visitor's limiter has a token adds one to what was taken for its
\* path, and perhaps for others, and is not in the server's hands any more.
LEMMA ChargesAllow ==
    ASSUME ChargesInv, NEW w \in Workers, NEW route \in Routes,
           VisitorAllow(w, route), Count(w, route), UNCHANGED age, WindowInv'
    PROVE  ServedOK' /\ ServerOK'
<1> DEFINE b == Visitor(w, route)
<1>1. PICK c0 \in Clients, path0 \in Paths : serving[w] = <<c0, path0>>
  BY DEF ChargesInv, WindowInv, TypeOK, VisitorAllow
<1>2. b = <<c0, route>> /\ b \in Buckets /\ route \in Matches[path0]
  BY <1>1 DEF Visitor, Buckets, VisitorAllow
<1>3. passed \in [Buckets -> Nat] /\ passed' \in [Buckets -> Nat]
  BY DEF ChargesInv, WindowInv, Granted
<1>4. served \in [Clients \X Paths -> Nat] /\ admitted \in Nat
  BY DEF ChargesInv, ServedOK, ServerOK
<1>5. serving' = [serving EXCEPT ![w] = None] /\ global' = global
  BY DEF VisitorAllow
<1>6. Cardinality(Busy') = Cardinality(Busy) - 1
  <2>1. Busy' = Busy \ {w} /\ w \in Busy
    <3>1. serving \in [Workers -> (Clients \X Paths) \cup {None}]
      BY DEF ChargesInv, WindowInv, TypeOK
    <3>2. serving[w] # None
      BY <1>1, NoneAssumption
    <3>3. \A v \in Workers : serving'[v] = IF v = w THEN None ELSE serving[v]
      BY <1>5, <3>1
    <3> QED BY <3>2, <3>3 DEF Busy
  <2> QED BY <2>1, BusyIsFinite, FS_RemoveElement
<1>7. CASE Tokens(b) > 0
  <2>1. /\ passed' = [passed EXCEPT ![b] = @ + 1]
        /\ served' = [served EXCEPT ![<<c0, path0>>] = @ + 1]
        /\ admitted' = admitted + 1
    BY <1>1, <1>7 DEF Count
  <2> HIDE DEF b
  <2>2. ASSUME NEW c \in Clients, NEW path \in Paths
        PROVE  /\ served'[<<c, path>>] \in Nat
               /\ served'[<<c, path>>] <= Cardinality(TakenFor(c, path)')
    <3> DEFINE n == PassedOf(c)
               m == PassedOf(c)'
               routes == Matches[path]
    <3>1. /\ n \in [Routes -> Nat] /\ m \in [Routes -> Nat] /\ routes \in SUBSET Routes
          /\ \A r \in Routes : n[r] = passed[<<c, r>>] /\ m[r] = passed'[<<c, r>>]
      BY <1>3, MatchesAssumption DEF PassedOf, Buckets
    <3>2. \A r \in Routes : n[r] <= m[r] /\ (<<c, r>> = b => n[r] < m[r])
      <4> TAKE r \in Routes
      <4>1. <<c, r>> \in Buckets
        BY DEF Buckets
      <4>2. passed'[<<c, r>>] = IF <<c, r>> = b THEN passed[<<c, r>>] + 1 ELSE passed[<<c, r>>]
        BY <1>3, <2>1, <4>1
      <4>3. passed[<<c, r>>] \in Nat
        BY <1>3, <4>1
      <4> QED BY <3>1, <4>2, <4>3
    <3>3. served[<<c, path>>] \in Nat /\ served[<<c, path>>] <= Cardinality(TokenSet(routes, n))
      BY <1>4 DEF ChargesInv, ServedOK, TakenFor
    <3>4. TakenFor(c, path)' = TokenSet(routes, m)
      BY DEF TakenFor
    <3> HIDE DEF n, m, routes
    <3>5. /\ Cardinality(TokenSet(routes, n)) \in Nat /\ Cardinality(TokenSet(routes, m)) \in Nat
          /\ Cardinality(TokenSet(routes, n)) <= Cardinality(TokenSet(routes, m))
      BY <3>1, <3>2, TokenSetIsFinite, TokenSetGrows
    <3>6. CASE c = c0 /\ path = path0
      <4>1. served'[<<c, path>>] = served[<<c, path>>] + 1
        BY <1>4, <2>1, <3>6
      <4>2. n[route] < m[route] /\ route \in routes
        BY <1>2, <3>2, <3>6 DEF routes
      <4>3. Cardinality(TokenSet(routes, n)) + 1 <= Cardinality(TokenSet(routes, m))
        BY <3>1, <3>2, <4>2, TokenSetGrows
      <4> QED BY <3>3, <3>4, <3>5, <4>1, <4>3
    <3>7. CASE ~(c = c0 /\ path = path0)
      <4>1. served'[<<c, path>>] = served[<<c, path>>]
        BY <1>4, <2>1, <3>7
      <4> QED BY <3>3, <3>4, <3>5, <4>1
    <3> QED BY <3>6, <3>7
  <2>3. ServedOK'
    <3>1. served' \in [Clients \X Paths -> Nat]
      BY <1>4, <2>1
    <3> QED BY <2>2, <3>1 DEF ServedOK
  <2>4. ServerOK'
    BY <1>4, <1>5, <1>6, <2>1, ServerNumbers DEF ServerOK, ChargesInv
  <2> QED BY <2>3, <2>4
<1>8. CASE ~(Tokens(b) > 0)
  <2>1. passed' = passed /\ served' = served /\ admitted' = admitted
    BY <1>8 DEF Count, counts
  <2>2. ServedOK'
    BY <2>1 DEF ChargesInv, ServedOK, TakenFor, PassedOf
  <2>3. ServerOK'
    BY <1>4, <1>5, <1>6, <2>1, ServerNumbers DEF ServerOK, ChargesInv
  <2> QED BY <2>2, <2>3
<1> QED BY <1>7, <1>8

\* What changes neither the counts nor the requests in hand, and takes no token back.
LEMMA ChargesStay ==
    ASSUME ChargesInv, UNCHANGED <<age, counts>>, WindowInv',
           global' + Cardinality(Busy') = global + Cardinality(Busy)
    PROVE  ServedOK' /\ ServerOK'
<1>1. passed' = passed /\ served' = served /\ admitted' = admitted /\ age' = age
  BY DEF counts
<1>2. ServedOK'
  BY <1>1 DEF ChargesInv, ServedOK, TakenFor, PassedOf
<1>3. ServerOK'
  <2>1. global' \in Nat /\ Cardinality(Busy') \in Nat
    BY FiniteAssumption, FS_Subset, FS_CardinalityType DEF Busy, WindowInv, TypeOK
  <2> QED BY <1>1, <2>1, ServerNumbers DEF ChargesInv, ServerOK
<1> QED BY <1>2, <1>3

LEMMA ChargesGlobal ==
    ASSUME ChargesInv, NEW w \in Workers, NEW c \in Clients, NEW path \in Paths,
           GlobalAllow(w, c, path), UNCHANGED <<age, counts>>, WindowInv'
    PROVE  ServedOK' /\ ServerOK'
<1>1. Busy' = Busy \cup {w} /\ w \notin Busy
  <2>1. serving \in [Workers -> (Clients \X Paths) \cup {None}]
    BY DEF ChargesInv, WindowInv, TypeOK
  <2>2. <<c, path>> # None
    BY NoneAssumption
  <2>3. \A v \in Workers : serving'[v] = IF v = w THEN <<c, path>> ELSE serving[v]
    BY <2>1 DEF GlobalAllow
  <2> QED BY <2>2, <2>3 DEF Busy, GlobalAllow
<1>2. Cardinality(Busy') = Cardinality(Busy) + 1
  BY <1>1, BusyIsFinite, FS_AddElement
<1>3. global' + Cardinality(Busy') = global + Cardinality(Busy)
  BY <1>2, ServerNumbers DEF GlobalAllow, ChargesInv
<1> QED BY <1>3, ChargesStay

LEMMA ChargesTick ==
    ASSUME ChargesInv, Tick, age' = age + 1, UNCHANGED counts
    PROVE  ServedOK' /\ ServerOK'
<1>1. passed' = passed /\ served' = served /\ admitted' = admitted /\ serving' = serving
  BY DEF counts, Tick
<1>2. ServedOK'
  BY <1>1 DEF ChargesInv, ServedOK, TakenFor, PassedOf
<1>3. /\ Cardinality(Busy) \in Nat /\ Cardinality(Workers) \in Nat
      /\ global \in Nat /\ global <= GlobalBurst /\ age \in Nat
      /\ GlobalBurst \in Nat /\ GlobalRate \in Nat /\ GlobalRate * age \in Nat
  BY ServerNumbers DEF ChargesInv
<1>4. global' \in Nat /\ global' <= global + GlobalRate
  BY <1>3, RefilledBounds DEF Tick
<1>5. GlobalRate * (age + 1) = GlobalRate * age + GlobalRate
  BY <1>3
<1>6. Busy' = Busy
  BY <1>1 DEF Busy
<1>7. ServerOK'
  BY <1>1, <1>3, <1>4, <1>5, <1>6 DEF ChargesInv, ServerOK
<1> QED BY <1>2, <1>7

LEMMA ChargesOpen ==
    ASSUME WindowInv, UNCHANGED vars, age' = 0, served' = [q \in Clients \X Paths |-> 0],
           admitted' = 0, passed' = [b \in Buckets |-> 0]
    PROVE  ServedOK' /\ ServerOK'
<1>1. ServedOK'
  <2> SUFFICES ASSUME NEW c \in Clients, NEW path \in Paths
               PROVE  served'[<<c, path>>] <= Cardinality(TakenFor(c, path)')
    BY DEF ServedOK
  <2> DEFINE n == PassedOf(c)'
  <2>1. n \in [Routes -> Nat] /\ Matches[path] \in SUBSET Routes
    BY MatchesAssumption DEF PassedOf, Buckets
  <2>2. TakenFor(c, path)' = TokenSet(Matches[path], n)
    BY DEF TakenFor
  <2> HIDE DEF n
  <2>3. Cardinality(TokenSet(Matches[path], n)) \in Nat
    BY <2>1, TokenSetIsFinite
  <2> QED BY <2>2, <2>3
<1>2. ServerOK'
  <2>1. Busy' = Busy /\ global' = global
    BY DEF Busy, vars
  <2>2. GlobalRate * 0 = 0
    BY ServerNumbers
  <2> QED BY <2>1, <2>2, ServerNumbers, BusyIsFinite DEF ServerOK
<1> QED BY <1>1, <1>2

LEMMA ChargesInvariant ==
    ASSUME ChargesInv, [RNext]_allVars
    PROVE  ChargesInv'
<1>1. WindowInv'
  BY WindowInvariant DEF ChargesInv
<1>2. ASSUME Reopen PROVE ServedOK' /\ ServerOK'
  BY <1>2, ChargesOpen DEF Reopen, ChargesInv
<1>3. ASSUME NEW w \in Workers, NEW route \in Routes,
             VisitorAllow(w, route), Count(w, route), UNCHANGED age
      PROVE  ServedOK' /\ ServerOK'
  BY <1>1, <1>3, ChargesAllow
<1>4. ASSUME NEW w \in Workers, NEW c \in Clients, NEW path \in Paths,
             GlobalAllow(w, c, path), UNCHANGED <<age, counts>>
      PROVE  ServedOK' /\ ServerOK'
  BY <1>1, <1>4, ChargesGlobal
<1>5. ASSUME UNCHANGED <<global, serving>>, UNCHANGED <<age, counts>>
      PROVE  ServedOK' /\ ServerOK'
  <2>1. global' + Cardinality(Busy') = global + Cardinality(Busy)
    BY <1>5 DEF Busy
  <2> QED BY <1>1, <1>5, <2>1, ChargesStay
<1>6. ASSUME Tick, age' = age + 1, UNCHANGED counts PROVE ServedOK' /\ ServerOK'
  BY <1>6, ChargesTick
<1>7. ASSUME NEW w \in Workers, NEW c \in Clients, NEW path \in Paths,
             GlobalRefuse(w, c, path), UNCHANGED <<age, counts>>
      PROVE  ServedOK' /\ ServerOK'
  BY <1>5, <1>7 DEF GlobalRefuse, vars
<1>8. ASSUME Sweep, UNCHANGED <<age, counts>> PROVE ServedOK' /\ ServerOK'
  BY <1>5, <1>8 DEF Sweep
<1>9. ASSUME UNCHANGED allVars PROVE ServedOK' /\ ServerOK'
  BY <1>5, <1>9 DEF allVars, vars
<1>10. ServedOK' /\ ServerOK'
  BY <1>2, <1>3, <1>4, <1>6, <1>7, <1>8, <1>9 DEF RNext
<1> QED BY <1>1, <1>10 DEF ChargesInv

\* In any window, every request that is admitted took a token of the server's limiter and
\* one of a limiter its path matches, and no token is counted twice (ratelimit.go:128-166).
THEOREM ChargesHold == RSpec => []ChargesInv
<1>1. RInit => ChargesInv
  <2> SUFFICES ASSUME RInit PROVE ChargesInv
    OBVIOUS
  <2>1. WindowInv
    BY InitWindow
  <2>2. ServedOK
    <3> SUFFICES ASSUME NEW c \in Clients, NEW path \in Paths
                 PROVE  served[<<c, path>>] <= Cardinality(TakenFor(c, path))
      BY DEF ServedOK, RInit
    <3>1. PassedOf(c) \in [Routes -> Nat] /\ Matches[path] \in SUBSET Routes
      BY <2>1, MatchesAssumption, PassedOfType DEF WindowInv, Granted
    <3>2. Cardinality(TakenFor(c, path)) \in Nat
      BY <3>1, TokenSetIsFinite DEF TakenFor
    <3>3. served[<<c, path>>] = 0
      BY DEF RInit
    <3> QED BY <3>2, <3>3
  <2>3. ServerOK
    <3>1. Busy = {}
      BY DEF RInit, Init, Busy
    <3>2. Cardinality(Busy) = 0
      BY <3>1, FS_EmptySet
    <3>3. GlobalRate * 0 = 0
      BY <2>1, ServerNumbers
    <3> QED BY <2>1, <3>2, <3>3, ServerNumbers DEF ServerOK, RInit, Init
  <2> QED BY <2>1, <2>2, <2>3 DEF ChargesInv
<1> QED BY <1>1, ChargesInvariant, PTL DEF RSpec

\* A client gets no more of a path in any window than the limiters of all the routes
\* that match it grant together, whichever of them each request is charged to
\* (ratelimit.go:120, matchRoute).
THEOREM PathBounded == RSpec => []PathBound
<1>1. ASSUME ChargesInv, NEW c \in Clients, NEW path \in Paths
      PROVE  served[<<c, path>>] <= Cardinality(TokensFor(path))
  <2> DEFINE n == PassedOf(c)
             m == [r \in Routes |-> Burst[r] + Rate[r] * age]
             routes == Matches[path]
  <2>1. n \in [Routes -> Nat] /\ routes \in SUBSET Routes
    BY <1>1, MatchesAssumption, PassedOfType DEF ChargesInv, WindowInv, Granted
  <2>2. m \in [Routes -> Nat]
    BY <1>1, RatesAssumption DEF ChargesInv, WindowInv, Granted
  <2>3. \A r \in Routes : n[r] <= m[r]
    <3> TAKE r \in Routes
    <3>1. passed[<<c, r>>] <= Burst[r] + Rate[r] * age
      <4>1. <<c, r>> \in Buckets /\ <<c, r>>[2] = r
        BY DEF Buckets
      <4>2. WindowBound
        BY <1>1, GrantedIsBounded DEF ChargesInv
      <4> QED BY <4>1, <4>2 DEF WindowBound
    <3> QED BY <3>1 DEF PassedOf
  <2>4. TokensFor(path) = TokenSet(routes, m)
    BY <2>1 DEF TokensFor, TokenSet
  <2>5. served[<<c, path>>] \in Nat /\ served[<<c, path>>] <= Cardinality(TokenSet(routes, n))
    BY <1>1 DEF ChargesInv, ServedOK, TakenFor
  <2> HIDE DEF n, m, routes
  <2>6. /\ Cardinality(TokenSet(routes, n)) <= Cardinality(TokenSet(routes, m))
        /\ Cardinality(TokenSet(routes, n)) \in Nat /\ Cardinality(TokenSet(routes, m)) \in Nat
    BY <2>1, <2>2, <2>3, TokenSetGrows, TokenSetIsFinite
  <2> QED BY <2>4, <2>5, <2>6
<1>2. ChargesInv => PathBound
  BY <1>1 DEF PathBound
<1> QED BY <1>2, ChargesHold, PTL

\* All clients together get no more in any window than the server's limiter grants,
\* and the requests that were past it when the window opened (ratelimit.go:137).
THEOREM ServerBounded == RSpec => []ServerBound
<1>1. ChargesInv => ServerBound
  BY ServerNumbers DEF ChargesInv, ServerOK, ServerBound
<1> QED BY <1>1, ChargesHold, PTL

=============================================================================
