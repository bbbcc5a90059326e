---------------------------- MODULE OwnerProofs ----------------------------
(***************************************************************************)
(* What TLAPS proves of the owner store in memory and its web UI, for      *)
(* every set of accounts, sessions and keys.                               *)
(***************************************************************************)
EXTENDS OwnerCommands, SequenceTheorems, TLAPS

-----------------------------------------------------------------------------
(* Arrays and cells.                                                       *)

\* append writes one cell and leaves the others as they are.
LEMMA WriteCell ==
    ASSUME NEW a \in Seq(Records), NEW i \in 1..(Len(a) + 1), NEW r \in Records
    PROVE  /\ Write(a, i, r) \in Seq(Records)
           /\ Len(Write(a, i, r)) \in Nat
           /\ Len(a) <= Len(Write(a, i, r))
           /\ i <= Len(Write(a, i, r))
           /\ Write(a, i, r)[i] = r
           /\ \A j \in 1..Len(a) : j # i => Write(a, i, r)[j] = a[j]
<1> DEFINE n == IF i > Len(a) THEN i ELSE Len(a)
           e(j) == IF j = i THEN r ELSE a[j]
<1>1. n \in Nat /\ i \in 1..n /\ Len(a) <= n /\ Len(a) \in Nat
  OBVIOUS
<1>2. \A j \in 1..n : e(j) \in Records
  OBVIOUS
<1>3. Write(a, i, r) = [j \in 1..n |-> e(j)]
  BY DEF Write
<1> HIDE DEF n
<1>4. [j \in 1..n |-> e(j)] \in Seq(Records)
  BY <1>1, <1>2, IsASeq
<1>5. Len([j \in 1..n |-> e(j)]) = n
  BY <1>1, <1>4
<1>6. \A j \in 1..Len(a) : j \in 1..n
  BY <1>1
<1> QED BY <1>1, <1>3, <1>4, <1>5, <1>6

\* A removal moves the records behind the removed one forward.
LEMMA ShiftCells ==
    ASSUME NEW a \in Seq(Records), NEW n \in 1..Len(a), NEW p \in 1..n
    PROVE  /\ Shift(a, p, n) \in Seq(Records)
           /\ Len(Shift(a, p, n)) = Len(a)
           /\ \A j \in 1..(n - 1) : Shift(a, p, n)[j] = IF p <= j THEN a[j + 1] ELSE a[j]
<1> DEFINE e(j) == IF p <= j /\ j < n THEN a[j + 1] ELSE a[j]
<1>1. \A j \in 1..Len(a) : e(j) \in Records
  OBVIOUS
<1>2. Shift(a, p, n) = [j \in 1..Len(a) |-> e(j)]
  BY DEF Shift
<1>3. [j \in 1..Len(a) |-> e(j)] \in Seq(Records)
  BY <1>1, IsASeq
<1> QED BY <1>2, <1>3

\* The slice lies in the newest array.
LEMMA SliceInArray ==
    ASSUME TypeOK, NEW x \in Sessions
    PROVE  /\ length[x] \in Nat
           /\ arrays[x] \in Seq(Seq(Records))
           /\ length[x] > 0 => arrays[x] # <<>>
           /\ arrays[x] # <<>> => /\ Len(arrays[x]) \in Nat \ {0}
                                  /\ Current(x) \in Seq(Records)
                                  /\ Len(Current(x)) \in Nat
                                  /\ length[x] <= Len(Current(x))
           /\ arrays[x] = <<>> => length[x] = 0
BY EmptySeq DEF TypeOK, Current

\* A ref leads to a record.
LEMMA RefFields ==
    ASSUME TypeOK, NEW k \in Keys, Claimed(k)
    PROVE  /\ ref[k] \in Refs
           /\ ref[k].object \in Sessions
           /\ ref[k].array \in 1..Len(arrays[ref[k].object])
           /\ arrays[ref[k].object][ref[k].array] \in Seq(Records)
           /\ ref[k].index \in 1..Len(arrays[ref[k].object][ref[k].array])
           /\ Gate(k) \in Records
<1>1. ref[k] \in Refs /\ ref[k].object \in Sessions
  BY DEF TypeOK, Claimed, Refs
<1>2. /\ ref[k].array \in 1..Len(arrays[ref[k].object])
      /\ ref[k].index \in 1..Len(arrays[ref[k].object][ref[k].array])
      /\ arrays[ref[k].object] \in Seq(Seq(Records))
  BY <1>1 DEF TypeOK
<1> QED BY <1>1, <1>2 DEF Gate

LEMMA PositionOfKey ==
    ASSUME NEW x, NEW k \in LinkedKeys(x)
    PROVE  Position(x, k) \in 1..length[x] /\ Current(x)[Position(x, k)].key = k
BY DEF LinkedKeys, Position

-----------------------------------------------------------------------------
\* An object is its account's, and who picked a key has an owner.
Belongs ==
    /\ \A o \in Owners : owners[o] # None => OwnerOf[owners[o]] = o
    /\ \A s \in Sessions :
          /\ login[s] # None => OwnerOf[login[s]] = OwnerOf[s]
          /\ picked[s] # None => Object(s) # None

-----------------------------------------------------------------------------
(* What each command does to arrays, lengths and refs.                     *)

\* AddKey turns an object's arrays A with a slice of n keys into B: the record
\* is in a new cell behind the slice, in the newest array or in a new one that
\* starts with a copy of the slice; the cells up to n keep their records.
GrownInto(A, B, n, record) ==
    /\ B \in Seq(Seq(Records))
    /\ Len(B) \in Nat \ {0}
    /\ Len(A) <= Len(B)
    /\ n + 1 <= Len(B[Len(B)])
    /\ B[Len(B)][n + 1] = record
    /\ \A i \in 1..n : B[Len(B)][i] = A[Len(A)][i]
    /\ \A a \in 1..Len(A) :
          /\ Len(A[a]) <= Len(B[a])
          /\ \A i \in 1..Len(A[a]) : i <= n => B[a][i] = A[a][i]

LEMMA GrowInPlace ==
    ASSUME NEW A \in Seq(Seq(Records)), A # <<>>, NEW n \in Nat, n <= Len(A[Len(A)]),
           NEW record \in Records
    PROVE  GrownInto(A, [A EXCEPT ![Len(A)] = Write(@, n + 1, record)], n, record)
<1> DEFINE c == A[Len(A)]
           w == Write(c, n + 1, record)
           B == [A EXCEPT ![Len(A)] = w]
<1>1. Len(A) \in Nat \ {0} /\ c \in Seq(Records) /\ Len(c) \in Nat /\ n <= Len(c)
  BY EmptySeq
<1>2. n + 1 \in 1..(Len(c) + 1)
  BY <1>1
<1> HIDE DEF c
<1>3. /\ w \in Seq(Records) /\ Len(w) \in Nat /\ Len(c) <= Len(w)
      /\ n + 1 <= Len(w) /\ w[n + 1] = record
      /\ \A j \in 1..Len(c) : j # n + 1 => w[j] = c[j]
  BY <1>1, <1>2, WriteCell
<1> HIDE DEF w
<1>4. \A i \in 1..Len(c) : i <= n => w[i] = c[i]
  BY <1>1, <1>3
<1>5. \A i \in 1..n : w[i] = c[i]
  BY <1>1, <1>4
<1>6. /\ B \in Seq(Seq(Records)) /\ Len(B) = Len(A)
      /\ \A a \in 1..Len(A) : B[a] = IF a = Len(A) THEN w ELSE A[a]
  BY <1>1, <1>3, ExceptSeq
<1> HIDE DEF B
<1>7. B[Len(B)] = w /\ A[Len(A)] = c
  BY <1>1, <1>6 DEF c
<1>8. ASSUME NEW a \in 1..Len(A)
      PROVE  /\ Len(A[a]) <= Len(B[a])
             /\ \A i \in 1..Len(A[a]) : i <= n => B[a][i] = A[a][i]
  <2>1. CASE a = Len(A)
    BY <2>1, <1>3, <1>4, <1>6, <1>7
  <2>2. CASE a # Len(A)
    <3>1. A[a] \in Seq(Records) /\ B[a] = A[a]
      BY <2>2, <1>6
    <3> QED BY <3>1
  <2> QED BY <2>1, <2>2
<1>9. GrownInto(A, B, n, record)
  BY <1>1, <1>3, <1>5, <1>6, <1>7, <1>8 DEF GrownInto
<1> QED BY <1>9 DEF B, w, c

LEMMA GrowInNewArray ==
    ASSUME NEW A \in Seq(Seq(Records)), NEW n \in Nat, A = <<>> => n = 0,
           A # <<>> => n <= Len(A[Len(A)]), NEW s, s = [i \in 1..n |-> A[Len(A)][i]],
           NEW record \in Records
    PROVE  GrownInto(A, Append(A, Write(s, n + 1, record)), n, record)
<1> DEFINE e(i) == A[Len(A)][i]
           w == Write(s, n + 1, record)
           B == Append(A, w)
<1>1. \A i \in 1..n : e(i) \in Records
  <2>1. CASE A = <<>>
    BY <2>1
  <2>2. CASE A # <<>>
    <3>1. Len(A) \in Nat \ {0} /\ A[Len(A)] \in Seq(Records)
      BY <2>2, EmptySeq
    <3> QED BY <2>2, <3>1
  <2> QED BY <2>1, <2>2
<1>2. [i \in 1..n |-> e(i)] \in Seq(Records)
  BY <1>1, IsASeq
<1>3. s \in Seq(Records) /\ Len(s) = n /\ \A i \in 1..n : s[i] = e(i)
  BY <1>2
<1>4. n + 1 \in 1..(Len(s) + 1)
  BY <1>3
<1>5. /\ w \in Seq(Records) /\ n + 1 <= Len(w) /\ w[n + 1] = record
      /\ \A j \in 1..Len(s) : j # n + 1 => w[j] = s[j]
  BY <1>3, <1>4, WriteCell
<1> HIDE DEF w
<1>6. \A i \in 1..n : w[i] = A[Len(A)][i]
  BY <1>3, <1>5
<1>7. /\ B \in Seq(Seq(Records)) /\ Len(A) \in Nat /\ Len(B) = Len(A) + 1 /\ B[Len(B)] = w
      /\ \A a \in 1..Len(A) : B[a] = A[a] /\ Len(A[a]) \in Nat
  <2>1. w \in Seq(Records)
    BY <1>5
  <2> HIDE DEF w
  <2>2. B \in Seq(Seq(Records)) /\ Len(A) \in Nat /\ Len(B) = Len(A) + 1 /\ B[Len(B)] = w
    BY <2>1
  <2>3. ASSUME NEW a \in 1..Len(A) PROVE B[a] = A[a]
    BY <2>1, <2>3
  <2>4. ASSUME NEW a \in 1..Len(A) PROVE Len(A[a]) \in Nat
    <3>1. A[a] \in Seq(Records)
      BY <2>4
    <3> QED BY <3>1
  <2> QED BY <2>2, <2>3, <2>4
<1> HIDE DEF B
<1>8. /\ Len(B) \in Nat \ {0} /\ Len(A) <= Len(B) /\ n + 1 <= Len(B[Len(B)])
      /\ B[Len(B)][n + 1] = record
      /\ \A i \in 1..n : B[Len(B)][i] = A[Len(A)][i]
  BY <1>5, <1>6, <1>7
<1>9. ASSUME NEW a \in 1..Len(A)
      PROVE  /\ Len(A[a]) <= Len(B[a])
             /\ \A i \in 1..Len(A[a]) : i <= n => B[a][i] = A[a][i]
  BY <1>7
<1>10. GrownInto(A, B, n, record)
  BY <1>7, <1>8, <1>9 DEF GrownInto
<1> QED BY <1>10 DEF B, w

NewRecord(k) == [key |-> k, status |-> "active", permission |-> FALSE]

LEMMA AddEffect ==
    ASSUME TypeOK, NEW s \in Sessions, NEW k \in Keys, AddKey(s, k), NEW x, x = Object(s)
    PROVE  /\ x \in Sessions
           /\ k \notin LinkedKeys(x)
           /\ arrays' \in [Sessions -> Seq(Seq(Records))]
           /\ \A y \in Sessions : y # x => arrays'[y] = arrays[y]
           /\ GrownInto(arrays[x], arrays'[x], length[x], NewRecord(k))
           /\ length' = [length EXCEPT ![x] = @ + 1]
           /\ ref' = [ref EXCEPT ![k] = [object |-> x, array |-> Len(arrays'[x]),
                                         index |-> length[x] + 1]]
           /\ UNCHANGED <<owners, login, picked>>
<1>1. x \in Sessions
  BY OwnerOfAssumption DEF TypeOK, AddKey, Object
<1>2. /\ arrays[x] \in Seq(Seq(Records)) /\ length[x] \in Nat
      /\ arrays[x] = <<>> => length[x] = 0
      /\ arrays[x] # <<>> => length[x] <= Len(arrays[x][Len(arrays[x])])
  BY <1>1, SliceInArray DEF Current
<1>3. NewRecord(k) \in Records
  BY DEF NewRecord, Records, Statuses
<1>4. ASSUME NEW B, GrownInto(arrays[x], B, length[x], NewRecord(k)),
             arrays' = [arrays EXCEPT ![x] = B]
      PROVE  /\ arrays' \in [Sessions -> Seq(Seq(Records))]
             /\ \A y \in Sessions : y # x => arrays'[y] = arrays[y]
             /\ GrownInto(arrays[x], arrays'[x], length[x], NewRecord(k))
  <2>1. B \in Seq(Seq(Records))
    BY <1>4 DEF GrownInto
  <2>2. arrays'[x] = B
    BY <1>1, <1>4 DEF TypeOK
  <2> QED BY <1>1, <1>4, <2>1, <2>2 DEF TypeOK
<1>5. CASE length[x] < Capacity(x)
  <2>1. arrays[x] # <<>>
    BY <1>2, <1>5 DEF Capacity
  <2> DEFINE B == [arrays[x] EXCEPT ![Len(arrays[x])] = Write(@, length[x] + 1, NewRecord(k))]
  <2>2. GrownInto(arrays[x], B, length[x], NewRecord(k))
    BY <1>2, <1>3, <2>1, GrowInPlace
  <2>3. arrays' = [arrays EXCEPT ![x] = B]
    BY <1>5 DEF AddKey, NewRecord
  <2> HIDE DEF B
  <2>4. /\ arrays' \in [Sessions -> Seq(Seq(Records))]
        /\ \A y \in Sessions : y # x => arrays'[y] = arrays[y]
        /\ GrownInto(arrays[x], arrays'[x], length[x], NewRecord(k))
    BY <1>4, <2>2, <2>3
  <2> QED BY <1>1, <2>4 DEF AddKey, NewRef
<1>6. CASE ~(length[x] < Capacity(x))
  <2> DEFINE B == Append(arrays[x], Write(Slice(x), length[x] + 1, NewRecord(k)))
  <2>1. Slice(x) = [i \in 1..length[x] |-> arrays[x][Len(arrays[x])][i]]
    BY DEF Slice, Current
  <2>2. GrownInto(arrays[x], B, length[x], NewRecord(k))
    BY <1>2, <1>3, <2>1, GrowInNewArray
  <2>3. arrays' = [arrays EXCEPT ![x] = B]
    BY <1>6 DEF AddKey, NewRecord
  <2> HIDE DEF B
  <2>4. /\ arrays' \in [Sessions -> Seq(Seq(Records))]
        /\ \A y \in Sessions : y # x => arrays'[y] = arrays[y]
        /\ GrownInto(arrays[x], arrays'[x], length[x], NewRecord(k))
    BY <1>4, <2>2, <2>3
  <2> QED BY <1>1, <2>4 DEF AddKey, NewRef
<1> QED BY <1>5, <1>6

\* RemoveKey shortens a slice and closes the gap; no array changes its length.
Shifted(x, p) ==
    /\ p \in 1..length[x]
    /\ arrays' \in [Sessions -> Seq(Seq(Records))]
    /\ length' = [length EXCEPT ![x] = @ - 1]
    /\ \A y \in Sessions : y # x => arrays'[y] = arrays[y]
    /\ Len(arrays'[x]) = Len(arrays[x])
    /\ \A a \in 1..Len(arrays[x]) : Len(arrays'[x][a]) = Len(arrays[x][a])
    /\ \A i \in 1..(length[x] - 1) :
          Current(x)'[i] = Current(x)[IF p <= i THEN i + 1 ELSE i]

LEMMA RemoveEffect ==
    ASSUME TypeOK, Belongs, NEW s \in Sessions, RemoveKey(s), NEW x, x = Object(s)
    PROVE  /\ picked[s] \in Keys
           /\ picked' = [picked EXCEPT ![s] = None]
           /\ UNCHANGED <<owners, login>>
           /\ \/ /\ x \in Sessions
                 /\ picked[s] \in LinkedKeys(x)
                 /\ Shifted(x, Position(x, picked[s]))
                 /\ ref' = [ref EXCEPT ![picked[s]] = None]
              \/ UNCHANGED <<arrays, length, ref>>
<1>1. picked[s] \in Keys /\ picked' = [picked EXCEPT ![s] = None] /\ UNCHANGED <<owners, login>>
  BY DEF RemoveKey, TypeOK
<1> SUFFICES ASSUME ~UNCHANGED <<arrays, length, ref>>
             PROVE  /\ x \in Sessions
                    /\ picked[s] \in LinkedKeys(x)
                    /\ Shifted(x, Position(x, picked[s]))
                    /\ ref' = [ref EXCEPT ![picked[s]] = None]
  BY <1>1
<1> DEFINE k == picked[s]
           p == Position(x, k)
           A == arrays[x]
           c == A[Len(A)]
<1>2. /\ k \in LinkedKeys(x)
      /\ arrays' = [arrays EXCEPT ![x][Len(A)] = Shift(@, p, length[x])]
      /\ length' = [length EXCEPT ![x] = @ - 1]
      /\ ref' = [ref EXCEPT ![k] = None]
  BY DEF RemoveKey
<1>3. p \in 1..length[x]
  BY <1>2, PositionOfKey
<1>4. x \in Sessions
  BY <1>1, OwnerOfAssumption, NoneAssumption DEF TypeOK, Belongs, Object
<1>5. A \in Seq(Seq(Records)) /\ length[x] \in Nat /\ length[x] > 0
  BY <1>3, <1>4, SliceInArray
<1>6. Len(A) \in Nat \ {0} /\ c \in Seq(Records) /\ Len(c) \in Nat /\ length[x] <= Len(c)
  BY <1>4, <1>5, SliceInArray DEF Current
<1>7. length[x] \in 1..Len(c)
  BY <1>5, <1>6
<1> DEFINE w == Shift(c, p, length[x])
           B == [A EXCEPT ![Len(A)] = w]
<1>8. arrays' = [arrays EXCEPT ![x] = B]
  BY <1>2
<1> HIDE DEF p, c
<1>9. /\ w \in Seq(Records) /\ Len(w) = Len(c)
      /\ \A i \in 1..(length[x] - 1) : w[i] = IF p <= i THEN c[i + 1] ELSE c[i]
  BY <1>3, <1>6, <1>7, ShiftCells
<1> HIDE DEF w
<1>10. /\ B \in Seq(Seq(Records)) /\ Len(B) = Len(A)
       /\ \A a \in 1..Len(A) : B[a] = IF a = Len(A) THEN w ELSE A[a]
  BY <1>5, <1>6, <1>9, ExceptSeq
<1> HIDE DEF A, B
<1>11. /\ arrays'[x] = B /\ arrays' \in [Sessions -> Seq(Seq(Records))]
       /\ \A y \in Sessions : y # x => arrays'[y] = arrays[y]
  BY <1>4, <1>8, <1>10 DEF TypeOK
<1>12. Current(x)' = w /\ Current(x) = c
  BY <1>6, <1>10, <1>11 DEF Current, A, c
<1>13. \A a \in 1..Len(A) : Len(B[a]) = Len(A[a])
  BY <1>6, <1>9, <1>10 DEF c
<1>14. \A i \in 1..(length[x] - 1) : w[i] = c[IF p <= i THEN i + 1 ELSE i]
  BY <1>9
<1>15. Shifted(x, p)
  BY <1>2, <1>3, <1>10, <1>11, <1>12, <1>13, <1>14 DEF Shifted, A
<1> QED BY <1>2, <1>4, <1>15 DEF p

\* A change of status or permission writes one cell, found through the ref,
\* and leaves every cell its key.
CellChanged(k, record) ==
    /\ arrays' \in [Sessions -> Seq(Seq(Records))]
    /\ \A y \in Sessions :
          /\ Len(arrays'[y]) = Len(arrays[y])
          /\ \A a \in 1..Len(arrays[y]) :
                /\ Len(arrays'[y][a]) = Len(arrays[y][a])
                /\ \A i \in 1..Len(arrays[y][a]) :
                      /\ arrays'[y][a][i].key = arrays[y][a][i].key
                      /\ arrays'[y][a][i] =
                            IF y = ref[k].object /\ a = ref[k].array /\ i = ref[k].index
                            THEN record ELSE arrays[y][a][i]

LEMMA ChangeEffect ==
    ASSUME TypeOK, NEW s \in Sessions, NEW record, ChangeRecord(s, record),
           Owns(s, picked[s]) => record \in Records /\ record.key = Gate(picked[s]).key
    PROVE  /\ picked[s] \in Keys
           /\ picked' = [picked EXCEPT ![s] = None]
           /\ UNCHANGED <<owners, length, ref, login>>
           /\ \/ Owns(s, picked[s]) /\ CellChanged(picked[s], record)
              \/ ~Owns(s, picked[s]) /\ UNCHANGED arrays
<1> DEFINE k == picked[s]
           x == ref[k].object
           b == ref[k].array
           p == ref[k].index
           A == arrays[x]
           w == [A[b] EXCEPT ![p] = record]
           B == [A EXCEPT ![b] = w]
<1>1. k \in Keys /\ picked' = [picked EXCEPT ![s] = None] /\ UNCHANGED <<owners, length, ref, login>>
  BY DEF ChangeRecord, TypeOK
<1>2. CASE ~Owns(s, k)
  BY <1>1, <1>2 DEF ChangeRecord
<1>3. CASE Owns(s, k)
  <2>1. Claimed(k)
    BY <1>3 DEF Owns
  <2>2. /\ x \in Sessions /\ b \in 1..Len(A) /\ A[b] \in Seq(Records)
        /\ p \in 1..Len(A[b]) /\ A \in Seq(Seq(Records)) /\ Len(A[b]) \in Nat
    BY <1>1, <2>1, RefFields DEF TypeOK
  <2>3. arrays' = [arrays EXCEPT ![x] = B]
    BY <1>3 DEF ChangeRecord
  <2>4. record \in Records /\ record.key = A[b][p].key
    BY <1>3 DEF Gate
  <2> HIDE DEF A, x, b, p
  <2>5. /\ w \in Seq(Records) /\ Len(w) = Len(A[b])
        /\ \A i \in 1..Len(A[b]) : w[i] = IF i = p THEN record ELSE A[b][i]
    BY <2>2, <2>4, ExceptSeq
  <2> HIDE DEF w
  <2>6. /\ B \in Seq(Seq(Records)) /\ Len(B) = Len(A)
        /\ \A a \in 1..Len(A) : B[a] = IF a = b THEN w ELSE A[a]
    BY <2>2, <2>5, ExceptSeq
  <2> HIDE DEF B
  <2>7. arrays'[x] = B /\ arrays' \in [Sessions -> Seq(Seq(Records))]
          /\ \A y \in Sessions : y # x => arrays'[y] = arrays[y]
    BY <2>2, <2>3, <2>6 DEF TypeOK
  <2>8. \A a \in 1..Len(A) :
           /\ Len(B[a]) = Len(A[a])
           /\ \A i \in 1..Len(A[a]) :
                 /\ B[a][i].key = A[a][i].key
                 /\ B[a][i] = IF a = b /\ i = p THEN record ELSE A[a][i]
    BY <2>2, <2>4, <2>5, <2>6
  <2>9. CellChanged(k, record)
    <3>1. ASSUME NEW y \in Sessions
          PROVE  /\ Len(arrays'[y]) = Len(arrays[y])
                 /\ \A a \in 1..Len(arrays[y]) :
                       /\ Len(arrays'[y][a]) = Len(arrays[y][a])
                       /\ \A i \in 1..Len(arrays[y][a]) :
                             /\ arrays'[y][a][i].key = arrays[y][a][i].key
                             /\ arrays'[y][a][i] = IF y = x /\ a = b /\ i = p THEN record
                                                   ELSE arrays[y][a][i]
      <4>1. CASE y = x
        BY <4>1, <2>6, <2>7, <2>8 DEF A
      <4>2. CASE y # x
        BY <4>2, <2>7
      <4> QED BY <4>1, <4>2
    <3> QED BY <2>7, <3>1 DEF CellChanged, x, b, p
  <2> QED BY <1>1, <1>3, <2>9
<1> QED BY <1>2, <1>3

-----------------------------------------------------------------------------
(* The inductive invariant of the store, one lemma per command.            *)

StoreOK == TypeOK /\ Belongs /\ KeysAreDistinct /\ ClaimedKeyIsLinked

\* The part of TypeOK that relates pointers and slices to the arrays.
InRange ==
    /\ \A x \in Sessions : length[x] <= IF arrays[x] = <<>> THEN 0 ELSE Len(Current(x))
    /\ \A k \in Keys : Claimed(k) =>
          /\ ref[k].array \in 1..Len(arrays[ref[k].object])
          /\ ref[k].index \in 1..Len(arrays[ref[k].object][ref[k].array])

LEMMA ObjectOrNone ==
    ASSUME TypeOK, NEW s \in Sessions
    PROVE  Object(s) \in Sessions \cup {None}
BY OwnerOfAssumption DEF TypeOK, Object

\* What holds of arrays, lengths and refs, while they stay as they are.
LEMMA SameMemory ==
    ASSUME StoreOK, UNCHANGED <<arrays, length, ref>>
    PROVE  InRange' /\ KeysAreDistinct' /\ ClaimedKeyIsLinked'
BY DEF StoreOK, TypeOK, InRange, KeysAreDistinct, ClaimedKeyIsLinked, Claimed, Current, LinkedKeys

LEMMA StoreInit == Init => StoreOK
<1> SUFFICES ASSUME Init PROVE StoreOK
  OBVIOUS
<1>1. /\ arrays \in [Sessions -> Seq(Seq(Records))] /\ length \in [Sessions -> Nat]
      /\ \A x \in Sessions : arrays[x] = <<>> /\ length[x] = 0
  BY DEF Init
<1>2. \A k \in Keys : ~Claimed(k)
  BY DEF Init, Claimed
<1>3. TypeOK
  BY <1>1, <1>2 DEF Init, TypeOK
<1> QED BY <1>1, <1>2, <1>3 DEF Init, StoreOK, Belongs, KeysAreDistinct, ClaimedKeyIsLinked, Object

LEMMA StoreLookUp ==
    ASSUME StoreOK, NEW s \in Sessions, LookUp(s)
    PROVE  StoreOK'
<1>1. Object(s) \in Sessions \cup {None} /\ (Object(s) # None => OwnerOf[Object(s)] = OwnerOf[s])
  BY ObjectOrNone, OwnerOfAssumption DEF StoreOK, Belongs, Object
<1>2. UNCHANGED <<owners, arrays, length, ref, picked>>
        /\ login' = [login EXCEPT ![s] = IF Object(s) = None THEN s ELSE Object(s)]
  BY DEF LookUp
<1>3. InRange' /\ KeysAreDistinct' /\ ClaimedKeyIsLinked'
  BY <1>2, SameMemory
<1>4. TypeOK'
  BY <1>1, <1>2, <1>3 DEF StoreOK, TypeOK, InRange
<1>5. Belongs'
  BY <1>1, <1>2 DEF StoreOK, TypeOK, Belongs, Object
<1> QED BY <1>3, <1>4, <1>5 DEF StoreOK

LEMMA StorePickKey ==
    ASSUME StoreOK, NEW s \in Sessions, PickKey(s)
    PROVE  StoreOK'
<1>1. UNCHANGED <<owners, arrays, length, ref, login>>
  BY DEF PickKey
<1>2. InRange' /\ KeysAreDistinct' /\ ClaimedKeyIsLinked'
  BY <1>1, SameMemory
<1>3. Object(s) \in Sessions
  BY ObjectOrNone DEF StoreOK, PickKey
<1>4. PICK k \in LinkedKeys(Object(s)) : picked' = [picked EXCEPT ![s] = k]
  BY DEF PickKey
<1>5. k \in Keys
  <2>1. PICK i \in 1..length[Object(s)] : k = Current(Object(s))[i].key
    BY <1>4 DEF LinkedKeys
  <2>2. Current(Object(s))[i] \in Records
    BY <1>3, <2>1, SliceInArray DEF StoreOK
  <2> QED BY <2>1, <2>2 DEF Records
<1>6. TypeOK'
  BY <1>1, <1>2, <1>4, <1>5 DEF StoreOK, TypeOK, InRange
<1>7. Belongs'
  BY <1>1, <1>3, <1>4, NoneAssumption DEF StoreOK, TypeOK, Belongs, Object
<1> QED BY <1>2, <1>6, <1>7 DEF StoreOK

LEMMA StoreSave ==
    ASSUME StoreOK, NEW s \in Sessions, Save(s)
    PROVE  StoreOK'
<1> DEFINE x == login[s]
           there(k) == [object |-> x, array |-> Len(arrays[x]), index |-> Position(x, k)]
<1>1. /\ x \in Sessions /\ OwnerOf[x] = OwnerOf[s]
      /\ UNCHANGED <<arrays, length, picked>>
      /\ owners' = [owners EXCEPT ![OwnerOf[s]] = x]
      /\ login' = [login EXCEPT ![s] = None]
      /\ ref' = [k \in Keys |-> IF k \in LinkedKeys(x) THEN there(k) ELSE ref[k]]
  BY DEF Save, StoreOK, TypeOK, Belongs
<1> HIDE DEF x
<1>2. ASSUME NEW k \in LinkedKeys(x)
      PROVE  /\ there(k) \in Refs /\ there(k).object = x
             /\ there(k).array \in 1..Len(arrays[x])
             /\ there(k).index \in 1..Len(arrays[x][there(k).array])
  <2>1. Position(x, k) \in 1..length[x]
    BY <1>2, PositionOfKey
  <2> QED BY <1>1, <2>1, SliceInArray DEF StoreOK, Refs, Current
<1>3. ASSUME NEW k \in Keys, Claimed(k)'
      PROVE  \/ k \in LinkedKeys(x) /\ ref'[k] = there(k)
             \/ k \notin LinkedKeys(x) /\ Claimed(k) /\ ref'[k] = ref[k]
  BY <1>1, <1>3 DEF Claimed
<1>4. \A y : LinkedKeys(y)' = LinkedKeys(y) /\ Current(y)' = Current(y)
  BY <1>1 DEF LinkedKeys, Current
<1>5. InRange'
  <2>1. \A y \in Sessions : (length[y] <= IF arrays[y] = <<>> THEN 0 ELSE Len(Current(y)))'
    BY <1>1, <1>4 DEF StoreOK, TypeOK
  <2>2. ASSUME NEW k \in Keys, Claimed(k)'
        PROVE  /\ ref'[k].array \in 1..Len(arrays'[ref'[k].object])
               /\ ref'[k].index \in 1..Len(arrays'[ref'[k].object][ref'[k].array])
    <3> HIDE DEF there
    <3>1. CASE k \in LinkedKeys(x) /\ ref'[k] = there(k)
      BY <1>1, <1>2, <3>1
    <3>2. CASE Claimed(k) /\ ref'[k] = ref[k]
      BY <1>1, <3>2 DEF StoreOK, TypeOK
    <3> QED BY <1>3, <2>2, <3>1, <3>2
  <2> QED BY <2>1, <2>2 DEF InRange
<1>6. TypeOK'
  <2>1. ref' \in [Keys -> Refs \cup {None}]
    <3> HIDE DEF there
    <3> QED BY <1>1, <1>2 DEF StoreOK, TypeOK
  <2>2. owners' \in [Owners -> Sessions \cup {None}] /\ login' \in [Sessions -> Sessions \cup {None}]
    BY <1>1 DEF StoreOK, TypeOK
  <2> QED BY <1>1, <1>5, <2>1, <2>2 DEF StoreOK, TypeOK, InRange
<1>7. Belongs'
  <2>1. \A o \in Owners : owners'[o] = IF o = OwnerOf[s] THEN x ELSE owners[o]
    BY <1>1, OwnerOfAssumption DEF StoreOK, TypeOK
  <2>2. \A t \in Sessions : OwnerOf[t] \in Owners
    BY OwnerOfAssumption
  <2>3. x # None
    BY <1>1, NoneAssumption
  <2> QED BY <1>1, <2>1, <2>2, <2>3 DEF StoreOK, TypeOK, Belongs, Object
<1>8. KeysAreDistinct'
  BY <1>1, <1>4 DEF StoreOK, KeysAreDistinct
<1>9. ClaimedKeyIsLinked'
  BY <1>2, <1>3, <1>4 DEF StoreOK, ClaimedKeyIsLinked
<1> QED BY <1>6, <1>7, <1>8, <1>9 DEF StoreOK

LEMMA StoreAddKey ==
    ASSUME StoreOK, NEW s \in Sessions, NEW k \in Keys, AddKey(s, k)
    PROVE  StoreOK'
<1>1. PICK x : x = Object(s)
  OBVIOUS
<1> DEFINE A == arrays[x]
           B == arrays'[x]
           n == length[x]
           new == [object |-> x, array |-> Len(B), index |-> n + 1]
<1>2. /\ x \in Sessions
      /\ k \notin LinkedKeys(x)
      /\ arrays' \in [Sessions -> Seq(Seq(Records))]
      /\ \A y \in Sessions : y # x => arrays'[y] = arrays[y]
      /\ GrownInto(A, B, n, NewRecord(k))
      /\ length' = [length EXCEPT ![x] = n + 1]
      /\ ref' = [ref EXCEPT ![k] = new]
      /\ UNCHANGED <<owners, login, picked>>
  BY <1>1, AddEffect DEF StoreOK
<1>3. n \in Nat /\ length'[x] = n + 1 /\ \A y \in Sessions : y # x => length'[y] = length[y]
  BY <1>2 DEF StoreOK, TypeOK
<1>4. /\ Len(B) \in Nat \ {0} /\ Len(A) <= Len(B)
      /\ n + 1 <= Len(B[Len(B)])
      /\ Current(x)'[n + 1].key = k
      /\ \A i \in 1..n : Current(x)'[i] = Current(x)[i]
      /\ \A a \in 1..Len(A) : Len(A[a]) <= Len(B[a])
  <2>1. Current(x)' = B[Len(B)] /\ Current(x) = A[Len(A)]
    BY DEF Current
  <2>2. NewRecord(k).key = k
    BY DEF NewRecord
  <2> HIDE DEF A, B
  <2> QED BY <1>2, <2>1, <2>2 DEF GrownInto
<1>5. A \in Seq(Seq(Records)) /\ Len(A) \in Nat /\ B \in Seq(Seq(Records))
  BY <1>2, SliceInArray DEF StoreOK
<1>6. \A y \in Sessions : y # x => Current(y)' = Current(y) /\ LinkedKeys(y)' = LinkedKeys(y)
  BY <1>2, <1>3 DEF Current, LinkedKeys
<1>7. LinkedKeys(x) \subseteq LinkedKeys(x)' /\ k \in LinkedKeys(x)'
  <2>1. LinkedKeys(x)' = {Current(x)'[i].key : i \in 1..(n + 1)}
    BY <1>3 DEF LinkedKeys
  <2>2. n + 1 \in 1..(n + 1) /\ 1..n \subseteq 1..(n + 1)
    BY <1>3
  <2>3. \A i \in 1..n : Current(x)'[i].key = Current(x)[i].key
    BY <1>4
  <2> QED BY <1>4, <2>1, <2>2, <2>3 DEF LinkedKeys
<1>8. ref' \in [Keys -> Refs \cup {None}] /\ ref'[k] = new
        /\ \A j \in Keys : j # k => ref'[j] = ref[j]
  <2>1. new \in Refs
    BY <1>2, <1>3, <1>4 DEF Refs
  <2> HIDE DEF new
  <2> QED BY <1>2, <2>1 DEF StoreOK, TypeOK
<1>9. InRange'
  <2>1. ASSUME NEW y \in Sessions
        PROVE  (length[y] <= IF arrays[y] = <<>> THEN 0 ELSE Len(Current(y)))'
    <3>1. CASE y = x
      <4>1. arrays'[x] # <<>> /\ Current(x)' = B[Len(B)]
        BY <1>4 DEF Current
      <4> QED BY <1>3, <1>4, <3>1, <4>1
    <3>2. CASE y # x
      BY <1>2, <1>3, <1>6, <3>2 DEF StoreOK, TypeOK
    <3> QED BY <3>1, <3>2
  <2>2. ASSUME NEW j \in Keys, Claimed(j)'
        PROVE  /\ ref'[j].array \in 1..Len(arrays'[ref'[j].object])
               /\ ref'[j].index \in 1..Len(arrays'[ref'[j].object][ref'[j].array])
    <3>1. CASE j = k
      <4>1. Len(B[Len(B)]) \in Nat
        BY <1>4, <1>5
      <4> QED BY <1>3, <1>4, <1>8, <3>1, <4>1
    <3>2. CASE j # k /\ ref[j].object # x
      <4>1. Claimed(j) /\ ref'[j] = ref[j]
        BY <1>8, <2>2, <3>2 DEF Claimed
      <4>2. arrays'[ref[j].object] = arrays[ref[j].object]
        BY <1>2, <3>2, <4>1, RefFields DEF StoreOK
      <4> QED BY <4>1, <4>2, RefFields DEF StoreOK
    <3>3. CASE j # k /\ ref[j].object = x
      <4>1. Claimed(j) /\ ref'[j] = ref[j]
        BY <1>8, <2>2, <3>3 DEF Claimed
      <4>2. ref[j].array \in 1..Len(A) /\ ref[j].index \in 1..Len(A[ref[j].array])
        BY <3>3, <4>1, RefFields DEF StoreOK
      <4> DEFINE a == ref[j].array
      <4>3. ref'[j].object = x /\ ref'[j].array = a /\ ref'[j].index = ref[j].index
        BY <3>3, <4>1
      <4> HIDE DEF a, A, B
      <4>4. a \in 1..Len(A) /\ ref[j].index \in 1..Len(A[a])
        BY <4>2 DEF a
      <4>5. a \in 1..Len(B) /\ Len(A[a]) <= Len(B[a])
        BY <1>4, <1>5, <4>4
      <4>6. A[a] \in Seq(Records) /\ B[a] \in Seq(Records)
        BY <1>5, <4>4, <4>5
      <4>7. ref[j].index \in 1..Len(B[a])
        BY <4>4, <4>5, <4>6
      <4> QED BY <4>3, <4>5, <4>7 DEF B
    <3> QED BY <3>1, <3>2, <3>3
  <2> QED BY <2>1, <2>2 DEF InRange
<1>10. TypeOK'
  <2>1. length' \in [Sessions -> Nat]
    BY <1>2, <1>3 DEF StoreOK, TypeOK
  <2> QED BY <1>2, <1>8, <1>9, <2>1 DEF StoreOK, TypeOK, InRange
<1>11. Belongs'
  BY <1>2 DEF StoreOK, Belongs, Object
<1>12. KeysAreDistinct'
  <2> SUFFICES ASSUME NEW y \in Sessions, NEW i \in 1..length'[y], NEW j \in 1..length'[y],
                      Current(y)'[i].key = Current(y)'[j].key
               PROVE  i = j
    BY DEF KeysAreDistinct
  <2>1. CASE y # x
    BY <1>3, <1>6, <2>1 DEF StoreOK, KeysAreDistinct
  <2>2. CASE y = x
    <3>1. \A m \in 1..n : Current(x)'[m].key # k
      BY <1>2, <1>4 DEF LinkedKeys
    <3>2. CASE i \in 1..n /\ j \in 1..n
      BY <1>2, <1>4, <2>2, <3>2 DEF StoreOK, KeysAreDistinct
    <3>3. CASE i = n + 1 \/ j = n + 1
      BY <1>3, <1>4, <2>2, <3>1, <3>3
    <3> QED BY <1>3, <2>2, <3>2, <3>3
  <2> QED BY <2>1, <2>2
<1>13. ClaimedKeyIsLinked'
  <2> SUFFICES ASSUME NEW j \in Keys, Claimed(j)'
               PROVE  (j \in LinkedKeys(ref[j].object))'
    BY DEF ClaimedKeyIsLinked
  <2>1. CASE j = k
    BY <1>7, <1>8, <2>1
  <2>2. CASE j # k
    <3>1. Claimed(j) /\ ref'[j] = ref[j]
      BY <1>8, <2>2 DEF Claimed
    <3>2. j \in LinkedKeys(ref[j].object) /\ ref[j].object \in Sessions
      BY <3>1, RefFields DEF StoreOK, ClaimedKeyIsLinked
    <3> QED BY <1>6, <1>7, <3>1, <3>2
  <2> QED BY <2>1, <2>2
<1> QED BY <1>10, <1>11, <1>12, <1>13 DEF StoreOK

LEMMA StoreRemoveKey ==
    ASSUME StoreOK, NEW s \in Sessions, RemoveKey(s)
    PROVE  StoreOK'
<1>1. PICK x : x = Object(s)
  OBVIOUS
<1> DEFINE k == picked[s]
           p == Position(x, k)
           n == length[x]
<1>2. /\ k \in Keys
      /\ picked' = [picked EXCEPT ![s] = None]
      /\ UNCHANGED <<owners, login>>
      /\ \/ x \in Sessions /\ k \in LinkedKeys(x) /\ Shifted(x, p)
              /\ ref' = [ref EXCEPT ![k] = None]
         \/ UNCHANGED <<arrays, length, ref>>
  BY <1>1, RemoveEffect DEF StoreOK
<1>3. picked' \in [Sessions -> Keys \cup {None}]
  BY <1>2 DEF StoreOK, TypeOK
<1>4. Belongs'
  BY <1>2 DEF StoreOK, Belongs, Object, TypeOK
<1>5. CASE UNCHANGED <<arrays, length, ref>>
  <2>1. InRange' /\ KeysAreDistinct' /\ ClaimedKeyIsLinked'
    BY <1>5, SameMemory
  <2>2. TypeOK'
    BY <1>2, <1>3, <1>5, <2>1 DEF StoreOK, TypeOK, InRange
  <2> QED BY <1>4, <2>1, <2>2 DEF StoreOK
<1>6. CASE x \in Sessions /\ k \in LinkedKeys(x) /\ Shifted(x, p) /\ ref' = [ref EXCEPT ![k] = None]
  <2>1. /\ n \in Nat /\ p \in 1..n /\ Current(x)[p].key = k
        /\ length'[x] = n - 1 /\ \A y \in Sessions : y # x => length'[y] = length[y]
        /\ length' \in [Sessions -> Nat]
    BY <1>6, PositionOfKey DEF StoreOK, TypeOK, Shifted
  <2>2. /\ arrays' \in [Sessions -> Seq(Seq(Records))]
        /\ \A y \in Sessions : y # x => arrays'[y] = arrays[y]
        /\ \A i \in 1..(n - 1) : Current(x)'[i] = Current(x)[IF p <= i THEN i + 1 ELSE i]
    BY <1>6 DEF Shifted
  <2>3. \A y \in Sessions : y # x => Current(y)' = Current(y) /\ LinkedKeys(y)' = LinkedKeys(y)
    BY <2>1, <2>2 DEF Current, LinkedKeys
  <2>4. \A y \in Sessions :
           /\ Len(arrays'[y]) = Len(arrays[y])
           /\ \A a \in 1..Len(arrays[y]) : Len(arrays'[y][a]) = Len(arrays[y][a])
    BY <1>6, <2>2 DEF Shifted
  <2>5. \A j \in Keys : ref'[j] = IF j = k THEN None ELSE ref[j]
    BY <1>6 DEF StoreOK, TypeOK
  <2>6. LinkedKeys(x) \ {k} \subseteq LinkedKeys(x)'
    <3> SUFFICES ASSUME NEW j \in LinkedKeys(x), j # k
                 PROVE  j \in LinkedKeys(x)'
      OBVIOUS
    <3>1. PICK i \in 1..n : Current(x)[i].key = j
      BY DEF LinkedKeys
    <3>2. i # p
      BY <2>1, <3>1
    <3> DEFINE m == IF i > p THEN i - 1 ELSE i
    <3>3. m \in 1..(n - 1) /\ i = IF p <= m THEN m + 1 ELSE m
      BY <2>1, <3>1, <3>2
    <3>4. Current(x)'[m].key = j
      BY <2>2, <3>1, <3>3
    <3> QED BY <2>1, <3>3, <3>4 DEF LinkedKeys
  <2>7. InRange'
    <3>1. ASSUME NEW y \in Sessions
          PROVE  (length[y] <= IF arrays[y] = <<>> THEN 0 ELSE Len(Current(y)))'
      <4>1. CASE y # x
        BY <2>1, <2>2, <2>3, <4>1 DEF StoreOK, TypeOK
      <4>2. CASE y = x
        <5>1. arrays[x] # <<>> /\ Len(arrays[x]) \in Nat \ {0} /\ n <= Len(Current(x))
                /\ Len(Current(x)) \in Nat
          BY <1>6, <2>1, SliceInArray DEF StoreOK
        <5>2. Len(Current(x)') = Len(Current(x)) /\ arrays'[x] # <<>>
          <6>1. Len(arrays'[x]) = Len(arrays[x])
            BY <1>6, <2>4
          <6>2. Len(arrays[x]) \in 1..Len(arrays[x])
            BY <5>1
          <6>3. Current(x)' = arrays'[x][Len(arrays[x])] /\ Current(x) = arrays[x][Len(arrays[x])]
            BY <6>1 DEF Current
          <6>4. arrays'[x] # <<>>
            BY <5>1, <6>1
          <6> QED BY <1>6, <2>4, <6>2, <6>3, <6>4
        <5> QED BY <2>1, <4>2, <5>1, <5>2
      <4> QED BY <4>1, <4>2
    <3>2. ASSUME NEW j \in Keys, Claimed(j)'
          PROVE  /\ ref'[j].array \in 1..Len(arrays'[ref'[j].object])
                 /\ ref'[j].index \in 1..Len(arrays'[ref'[j].object][ref'[j].array])
      <4>1. Claimed(j) /\ ref'[j] = ref[j]
        BY <2>5, <3>2 DEF Claimed
      <4> QED BY <2>4, <4>1, RefFields DEF StoreOK
    <3> QED BY <3>1, <3>2 DEF InRange
  <2>8. TypeOK'
    <3>1. ref' \in [Keys -> Refs \cup {None}]
      BY <1>6 DEF StoreOK, TypeOK
    <3> QED BY <1>2, <1>3, <2>1, <2>2, <2>7, <3>1 DEF StoreOK, TypeOK, InRange
  <2>9. KeysAreDistinct'
    <3> SUFFICES ASSUME NEW y \in Sessions, NEW i \in 1..length'[y], NEW j \in 1..length'[y],
                        Current(y)'[i].key = Current(y)'[j].key
                 PROVE  i = j
      BY DEF KeysAreDistinct
    <3>1. CASE y # x
      BY <2>1, <2>3, <3>1 DEF StoreOK, KeysAreDistinct
    <3>2. CASE y = x
      <4> DEFINE from(m) == IF p <= m THEN m + 1 ELSE m
      <4>1. i \in 1..(n - 1) /\ j \in 1..(n - 1)
        BY <2>1, <3>2
      <4>2. from(i) \in 1..n /\ from(j) \in 1..n
        BY <2>1, <4>1
      <4>3. Current(x)[from(i)].key = Current(x)[from(j)].key
        BY <2>2, <3>2, <4>1
      <4> HIDE DEF from
      <4>4. from(i) = from(j)
        BY <1>6, <4>2, <4>3 DEF StoreOK, KeysAreDistinct
      <4> QED BY <2>1, <4>1, <4>4 DEF from
    <3> QED BY <3>1, <3>2
  <2>10. ClaimedKeyIsLinked'
    <3> SUFFICES ASSUME NEW j \in Keys, Claimed(j)'
                 PROVE  (j \in LinkedKeys(ref[j].object))'
      BY DEF ClaimedKeyIsLinked
    <3>1. j # k /\ Claimed(j) /\ ref'[j] = ref[j]
      BY <2>5 DEF Claimed
    <3>2. j \in LinkedKeys(ref[j].object) /\ ref[j].object \in Sessions
      BY <3>1, RefFields DEF StoreOK, ClaimedKeyIsLinked
    <3> QED BY <2>3, <2>6, <3>1, <3>2
  <2> QED BY <1>4, <2>8, <2>9, <2>10 DEF StoreOK
<1> QED BY <1>2, <1>5, <1>6

\* A cell that changes leaves all slices their keys.
LEMMA SameKeys ==
    ASSUME StoreOK, UNCHANGED length, NEW k, NEW record, CellChanged(k, record),
           NEW y \in Sessions
    PROVE  /\ \A i \in 1..length[y] : Current(y)'[i].key = Current(y)[i].key
           /\ LinkedKeys(y)' = LinkedKeys(y)
<1>1. ASSUME NEW i \in 1..length[y]
      PROVE  Current(y)'[i].key = Current(y)[i].key
  <2>1. /\ length[y] \in Nat /\ length[y] > 0
    BY <1>1, SliceInArray DEF StoreOK
  <2>2. /\ Len(arrays[y]) \in 1..Len(arrays[y])
        /\ i \in 1..Len(arrays[y][Len(arrays[y])])
    BY <1>1, <2>1, SliceInArray DEF StoreOK, Current
  <2>3. Len(arrays'[y]) = Len(arrays[y])
    BY DEF CellChanged
  <2>4. Current(y)' = arrays'[y][Len(arrays[y])] /\ Current(y) = arrays[y][Len(arrays[y])]
    BY <2>3 DEF Current
  <2>5. \A a \in 1..Len(arrays[y]) : \A j \in 1..Len(arrays[y][a]) :
           arrays'[y][a][j].key = arrays[y][a][j].key
    BY DEF CellChanged
  <2>6. arrays'[y][Len(arrays[y])][i].key = arrays[y][Len(arrays[y])][i].key
    BY <2>2, <2>5
  <2> QED BY <2>4, <2>6
<1>2. LinkedKeys(y)' = {Current(y)'[i].key : i \in 1..length[y]}
  BY DEF LinkedKeys
<1> QED BY <1>1, <1>2 DEF LinkedKeys

\* The record a status or a permission is changed to.
LEMMA ChangedRecord ==
    ASSUME TypeOK, NEW s \in Sessions, Owns(s, picked[s]), picked[s] \in Keys,
           NEW status \in Statuses, NEW allowed \in BOOLEAN
    PROVE  /\ [Gate(picked[s]) EXCEPT !.status = status] \in Records
           /\ [Gate(picked[s]) EXCEPT !.status = status].key = Gate(picked[s]).key
           /\ [Gate(picked[s]) EXCEPT !.permission = allowed] \in Records
           /\ [Gate(picked[s]) EXCEPT !.permission = allowed].key = Gate(picked[s]).key
<1>1. Gate(picked[s]) \in Records
  BY RefFields DEF Owns
<1> QED BY <1>1 DEF Records

LEMMA StoreChangeRecord ==
    ASSUME StoreOK, NEW s \in Sessions, NEW record, ChangeRecord(s, record),
           Owns(s, picked[s]) => record \in Records /\ record.key = Gate(picked[s]).key
    PROVE  StoreOK'
<1>1. /\ picked[s] \in Keys
      /\ picked' = [picked EXCEPT ![s] = None]
      /\ UNCHANGED <<owners, length, ref, login>>
      /\ CellChanged(picked[s], record) \/ UNCHANGED arrays
  BY ChangeEffect DEF StoreOK
<1>2. picked' \in [Sessions -> Keys \cup {None}]
  BY <1>1 DEF StoreOK, TypeOK
<1>3. Belongs'
  BY <1>1 DEF StoreOK, Belongs, Object, TypeOK
<1>4. CASE UNCHANGED arrays
  <2>1. InRange' /\ KeysAreDistinct' /\ ClaimedKeyIsLinked'
    BY <1>1, <1>4, SameMemory
  <2>2. TypeOK'
    BY <1>1, <1>2, <1>4, <2>1 DEF StoreOK, TypeOK, InRange
  <2> QED BY <1>3, <2>1, <2>2 DEF StoreOK
<1>5. CASE CellChanged(picked[s], record)
  <2>1. InRange'
    <3>1. ASSUME NEW y \in Sessions
          PROVE  (length[y] <= IF arrays[y] = <<>> THEN 0 ELSE Len(Current(y)))'
      <4>1. CASE arrays[y] = <<>>
        BY <1>1, <4>1, SliceInArray, <1>5 DEF StoreOK, CellChanged, Current
      <4>2. CASE arrays[y] # <<>>
        <5>1. Len(arrays[y]) \in 1..Len(arrays[y]) /\ length[y] <= Len(arrays[y][Len(arrays[y])])
          BY <4>2, SliceInArray DEF StoreOK, Current
        <5>2. Len(arrays'[y]) = Len(arrays[y])
                /\ Len(arrays'[y][Len(arrays[y])]) = Len(arrays[y][Len(arrays[y])])
          BY <1>5, <5>1 DEF CellChanged
        <5>3. arrays'[y] # <<>>
          BY <5>1, <5>2
        <5> QED BY <1>1, <5>1, <5>2, <5>3 DEF Current
      <4> QED BY <4>1, <4>2
    <3>2. ASSUME NEW j \in Keys, Claimed(j)
          PROVE  /\ ref[j].array \in 1..Len(arrays'[ref[j].object])
                 /\ ref[j].index \in 1..Len(arrays'[ref[j].object][ref[j].array])
      BY <1>5, <3>2, RefFields DEF StoreOK, CellChanged
    <3> QED BY <1>1, <3>1, <3>2 DEF InRange, Claimed
  <2>2. TypeOK'
    BY <1>1, <1>2, <1>5, <2>1 DEF StoreOK, TypeOK, InRange, CellChanged
  <2>3. KeysAreDistinct'
    BY <1>1, <1>5, SameKeys DEF StoreOK, KeysAreDistinct
  <2>4. ClaimedKeyIsLinked'
    <3> SUFFICES ASSUME NEW j \in Keys, Claimed(j)'
                 PROVE  (j \in LinkedKeys(ref[j].object))'
      BY DEF ClaimedKeyIsLinked
    <3>1. Claimed(j) /\ ref'[j] = ref[j]
      BY <1>1 DEF Claimed
    <3>2. j \in LinkedKeys(ref[j].object) /\ ref[j].object \in Sessions
      BY <3>1, RefFields DEF StoreOK, ClaimedKeyIsLinked
    <3>3. LinkedKeys(ref[j].object)' = LinkedKeys(ref[j].object)
      BY <1>1, <1>5, <3>1, <3>2, SameKeys DEF LinkedKeys
    <3> QED BY <3>2, <3>3
  <2> QED BY <1>3, <2>2, <2>3, <2>4 DEF StoreOK
<1> QED BY <1>1, <1>4, <1>5

LEMMA StoreSetKeyStatus ==
    ASSUME StoreOK, NEW s \in Sessions, NEW status \in Statuses, SetKeyStatus(s, status)
    PROVE  StoreOK'
<1>1. picked[s] \in Keys
  BY DEF SetKeyStatus, ChangeRecord, StoreOK, TypeOK
<1>2. TRUE \in BOOLEAN
  OBVIOUS
<1> QED BY <1>1, <1>2, ChangedRecord, StoreChangeRecord DEF SetKeyStatus, StoreOK

LEMMA StoreSetPublishPermission ==
    ASSUME StoreOK, NEW s \in Sessions, NEW allowed \in BOOLEAN, SetPublishPermission(s, allowed)
    PROVE  StoreOK'
<1>1. picked[s] \in Keys
  BY DEF SetPublishPermission, ChangeRecord, StoreOK, TypeOK
<1>2. "active" \in Statuses
  BY DEF Statuses
<1> QED BY <1>1, <1>2, ChangedRecord, StoreChangeRecord DEF SetPublishPermission, StoreOK

-----------------------------------------------------------------------------
(* Every step of CNext is a step of the store.                             *)

LEMMA StoreNext ==
    ASSUME StoreOK, [CNext]_allVars
    PROVE  StoreOK'
<1>1. ASSUME NEW s \in Sessions, CLookUp(s) PROVE StoreOK'
  BY <1>1, StoreLookUp DEF CLookUp
<1>2. ASSUME NEW s \in Sessions, CSave(s) PROVE StoreOK'
  BY <1>2, StoreSave DEF CSave
<1>3. ASSUME NEW s \in Sessions, NEW k \in Keys, CAddKey(s, k) PROVE StoreOK'
  BY <1>3, StoreAddKey DEF CAddKey
<1>4. ASSUME NEW s \in Sessions, CPickKey(s) PROVE StoreOK'
  BY <1>4, StorePickKey DEF CPickKey
<1>5. ASSUME NEW s \in Sessions, CRemoveKey(s) PROVE StoreOK'
  BY <1>5, StoreRemoveKey DEF CRemoveKey
<1>6. ASSUME NEW s \in Sessions, NEW status \in Statuses, CSetKeyStatus(s, status) PROVE StoreOK'
  BY <1>6, StoreSetKeyStatus DEF CSetKeyStatus
<1>7. ASSUME NEW s \in Sessions, NEW allowed \in BOOLEAN, CSetPublishPermission(s, allowed)
      PROVE  StoreOK'
  BY <1>7, StoreSetPublishPermission DEF CSetPublishPermission
<1>8. CASE UNCHANGED allVars
  <2>1. UNCHANGED vars
    BY <1>8 DEF allVars
  <2>2. InRange' /\ KeysAreDistinct' /\ ClaimedKeyIsLinked'
    BY <2>1, SameMemory DEF vars
  <2> QED BY <2>1, <2>2 DEF StoreOK, TypeOK, InRange, Belongs, Object, vars
<1> QED BY <1>1, <1>2, <1>3, <1>4, <1>5, <1>6, <1>7, <1>8 DEF CNext

\* Every pointer of ByKey leads to a cell that was written, every slice lies
\* in its array, no slice holds a key twice, and a key that gets past
\* KEY_NOT_CLAIMED is in the slice of the owner its ref names.
THEOREM StoreInvariant == CSpec => []StoreOK
<1>1. CInit => StoreOK
  BY StoreInit DEF CInit
<1>2. StoreOK /\ [CNext]_allVars => StoreOK'
  BY StoreNext
<1> QED BY <1>1, <1>2, PTL DEF CSpec

\* No access through a pointer or an index of the store is out of range, for
\* any number of accounts, sessions and keys (owner.go:102-160).
THEOREM TypeCorrect == CSpec => []TypeOK
<1>1. StoreOK => TypeOK
  BY DEF StoreOK
<1> QED BY <1>1, StoreInvariant, PTL

\* The gates never let a key pass as claimed that its owner does not list,
\* whatever mix of logins, removals and growing slices led there (owner.go:75).
THEOREM ClaimedKeyIsLinkedHolds == CSpec => []ClaimedKeyIsLinked
<1>1. StoreOK => ClaimedKeyIsLinked
  BY DEF StoreOK
<1> QED BY <1>1, StoreInvariant, PTL

-----------------------------------------------------------------------------
(* The gates follow the commands.                                          *)

\* While nothing was moved, every ref points into the front of its array that
\* the slice covered when the key was added, so that append never writes into
\* its cell, and no two keys share a cell, for the cell holds the key itself.
RefsAreFresh ==
    /\ wanted \in [Keys -> Records \cup {None}]
    /\ ~moved => \A k \in Keys : Claimed(k) =>
          /\ ref[k].index <= length[ref[k].object]
          /\ Gate(k) = wanted[k]
          /\ wanted[k].key = k

LEMMA FreshInit == CInit => RefsAreFresh
BY DEF CInit, Init, RefsAreFresh, Claimed

LEMMA FreshSave ==
    ASSUME StoreOK, RefsAreFresh, NEW s \in Sessions, CSave(s)
    PROVE  RefsAreFresh'
<1> SUFFICES ASSUME ~moved'
             PROVE  \A k \in Keys : Claimed(k)' =>
                        /\ ref'[k].index <= length'[ref'[k].object]
                        /\ Gate(k)' = wanted'[k]
                        /\ wanted'[k].key = k
  BY DEF CSave, RefsAreFresh
<1>1. login[s] \in Sessions /\ length[login[s]] \in Nat /\ ~(length[login[s]] > 0) /\ ~moved
  BY DEF CSave, Save, StoreOK, TypeOK
<1>2. LinkedKeys(login[s]) = {}
  BY <1>1 DEF LinkedKeys
<1>3. \A k \in Keys : ref'[k] = ref[k]
  BY <1>2 DEF CSave, Save, StoreOK, TypeOK
<1>4. UNCHANGED <<arrays, length, wanted>>
  BY DEF CSave, Save
<1> QED BY <1>1, <1>3, <1>4 DEF RefsAreFresh, Claimed, Gate

LEMMA FreshAddKey ==
    ASSUME StoreOK, RefsAreFresh, NEW s \in Sessions, NEW k \in Keys, CAddKey(s, k)
    PROVE  RefsAreFresh'
<1>1. PICK x : x = Object(s)
  OBVIOUS
<1> DEFINE A == arrays[x]
           B == arrays'[x]
           n == length[x]
<1>2. /\ x \in Sessions
      /\ \A y \in Sessions : y # x => arrays'[y] = arrays[y]
      /\ GrownInto(A, B, n, NewRecord(k))
      /\ length' = [length EXCEPT ![x] = n + 1]
      /\ ref' = [ref EXCEPT ![k] = [object |-> x, array |-> Len(B), index |-> n + 1]]
  BY <1>1, AddEffect DEF StoreOK, CAddKey
<1>3. n \in Nat /\ length'[x] = n + 1 /\ \A y \in Sessions : y # x => length'[y] = length[y]
  BY <1>2 DEF StoreOK, TypeOK
<1>4. wanted' = [wanted EXCEPT ![k] = NewRecord(k)] /\ moved' = moved
  BY DEF CAddKey, Wants, NewRecord
<1>5. NewRecord(k) \in Records /\ NewRecord(k).key = k
  BY DEF NewRecord, Records, Statuses
<1>6. wanted' \in [Keys -> Records \cup {None}] /\ wanted'[k] = NewRecord(k)
        /\ \A j \in Keys : j # k => wanted'[j] = wanted[j]
  BY <1>4, <1>5 DEF RefsAreFresh
<1>7. ref'[k] = [object |-> x, array |-> Len(B), index |-> n + 1]
        /\ \A j \in Keys : j # k => ref'[j] = ref[j]
  BY <1>2 DEF StoreOK, TypeOK
<1>8. B[Len(B)][n + 1] = NewRecord(k)
  BY <1>2 DEF GrownInto
<1>9. ASSUME ~moved', NEW j \in Keys, Claimed(j)'
      PROVE  /\ ref'[j].index <= length'[ref'[j].object]
             /\ Gate(j)' = wanted'[j]
             /\ wanted'[j].key = j
  <2>1. CASE j = k
    BY <1>3, <1>5, <1>6, <1>7, <1>8, <2>1 DEF Gate
  <2>2. CASE j # k
    <3> DEFINE y == ref[j].object
               a == ref[j].array
               i == ref[j].index
    <3>1. Claimed(j) /\ ref'[j] = ref[j] /\ wanted'[j] = wanted[j]
      BY <1>6, <1>7, <1>9, <2>2 DEF Claimed
    <3>2. i <= length[y] /\ Gate(j) = wanted[j] /\ wanted[j].key = j
      BY <1>4, <1>9, <3>1 DEF RefsAreFresh
    <3>3. y \in Sessions /\ a \in 1..Len(arrays[y]) /\ i \in 1..Len(arrays[y][a])
      BY <3>1, RefFields DEF StoreOK
    <3>4. arrays'[y][a][i] = arrays[y][a][i]
      <4>1. CASE y # x
        BY <1>2, <3>3, <4>1
      <4>2. CASE y = x
        <5> HIDE DEF A, B, n, a, i, y
        <5>1. \A b \in 1..Len(A) : \A m \in 1..Len(A[b]) : m <= n => B[b][m] = A[b][m]
          BY <1>2 DEF GrownInto
        <5>2. a \in 1..Len(A) /\ i \in 1..Len(A[a]) /\ i <= n
          BY <3>2, <3>3, <4>2 DEF A, n
        <5> QED BY <4>2, <5>1, <5>2 DEF A, B
      <4> QED BY <4>1, <4>2
    <3>5. Gate(j)' = Gate(j)
      BY <3>1, <3>4 DEF Gate
    <3>6. length[y] <= length'[y]
      <4>1. length[y] \in Nat
        BY <3>3 DEF StoreOK, TypeOK
      <4> QED BY <1>3, <3>3, <4>1
    <3>7. length[y] \in Nat /\ length'[y] \in Nat /\ i \in Nat
      <4>1. ref[j] \in [object : Sessions, array : Nat \ {0}, index : Nat \ {0}]
        BY <3>1, RefFields DEF StoreOK, Refs
      <4>2. length[y] \in Nat
        BY <3>3 DEF StoreOK, TypeOK
      <4>3. i \in Nat
        BY <4>1
      <4>4. length'[y] \in Nat
        BY <1>3, <3>3, <4>2
      <4> QED BY <4>2, <4>3, <4>4
    <3> QED BY <3>1, <3>2, <3>5, <3>6, <3>7
  <2> QED BY <2>1, <2>2
<1> QED BY <1>6, <1>9 DEF RefsAreFresh

\* A removal that changes anything counts as a move.
LEMMA FreshRemoveKey ==
    ASSUME StoreOK, RefsAreFresh, NEW s \in Sessions, CRemoveKey(s)
    PROVE  RefsAreFresh'
<1>1. picked[s] \in Keys
  BY RemoveEffect DEF StoreOK, CRemoveKey
<1>2. CASE length' # length
  BY <1>1, <1>2 DEF CRemoveKey, Unlinked, RefsAreFresh
<1>3. CASE length' = length
  <2>1. UNCHANGED <<arrays, length, ref>>
    <3>1. PICK x : x = Object(s)
      OBVIOUS
    <3>2. \/ x \in Sessions /\ Shifted(x, Position(x, picked[s]))
          \/ UNCHANGED <<arrays, length, ref>>
      BY <3>1, RemoveEffect DEF StoreOK, CRemoveKey
    <3>3. ASSUME x \in Sessions, Shifted(x, Position(x, picked[s]))
          PROVE  FALSE
      <4>1. length[x] \in Nat /\ length'[x] = length[x] - 1
        BY <3>3 DEF Shifted, StoreOK, TypeOK
      <4>2. length'[x] = length[x]
        BY <1>3
      <4> QED BY <4>1, <4>2
    <3> QED BY <3>2, <3>3
  <2>2. UNCHANGED history
    BY <1>3 DEF CRemoveKey
  <2> QED BY <2>1, <2>2 DEF RefsAreFresh, Claimed, Gate, history
<1> QED BY <1>2, <1>3

\* A command writes what is wanted into the cell of the key, and into no other.
LEMMA FreshChange ==
    ASSUME StoreOK, RefsAreFresh, NEW s \in Sessions, NEW record, NEW want,
           ChangeRecord(s, record),
           Owns(s, picked[s]) => record \in Records /\ record.key = Gate(picked[s]).key,
           Commands(s) => want \in Records /\ (Gate(picked[s]) = wanted[picked[s]] => want = record),
           \/ Commands(s) /\ wanted' = [wanted EXCEPT ![picked[s]] = want]
           \/ ~Commands(s) /\ UNCHANGED wanted,
           UNCHANGED moved
    PROVE  RefsAreFresh'
<1> DEFINE k == picked[s]
<1>1. /\ k \in Keys
      /\ UNCHANGED <<owners, length, ref, login>>
      /\ \/ Owns(s, k) /\ CellChanged(k, record)
         \/ ~Owns(s, k) /\ UNCHANGED arrays
  BY ChangeEffect DEF StoreOK
<1>2. wanted' \in [Keys -> Records \cup {None}]
  BY <1>1 DEF RefsAreFresh
<1>3. CASE ~Owns(s, k)
  <2>1. UNCHANGED <<arrays, wanted>>
    BY <1>1, <1>3 DEF Commands
  <2> QED BY <1>1, <1>2, <2>1 DEF RefsAreFresh, Claimed, Gate
<1>4. CASE Owns(s, k)
  <2> SUFFICES ASSUME ~moved, NEW j \in Keys, Claimed(j)
               PROVE  /\ ref[j].index <= length[ref[j].object]
                      /\ Gate(j)' = wanted'[j]
                      /\ wanted'[j].key = j
    BY <1>1, <1>2 DEF RefsAreFresh, Claimed
  <2>1. /\ Claimed(k) /\ Gate(k) \in Records /\ Gate(k) = wanted[k] /\ wanted[k].key = k
    BY <1>1, <1>4, RefFields DEF StoreOK, RefsAreFresh, Owns
  <2>2. Commands(s)
    BY <1>4, <2>1, NoRefAssumption DEF Commands
  <2>3. want = record /\ wanted' = [wanted EXCEPT ![k] = record] /\ record.key = k
    BY <1>4, <2>1, <2>2
  <2>4. wanted'[k] = record /\ \A i \in Keys : i # k => wanted'[i] = wanted[i]
    BY <1>1, <2>3 DEF RefsAreFresh
  <2>5. /\ ref[j].index <= length[ref[j].object] /\ Gate(j) = wanted[j] /\ wanted[j].key = j
    BY DEF RefsAreFresh
  <2> DEFINE here(i) == /\ ref[i].object = ref[k].object /\ ref[i].array = ref[k].array
                        /\ ref[i].index = ref[k].index
  <2>6. Gate(j)' = IF here(j) THEN record ELSE Gate(j)
    <3>1. /\ ref[j].object \in Sessions
          /\ ref[j].array \in 1..Len(arrays[ref[j].object])
          /\ ref[j].index \in 1..Len(arrays[ref[j].object][ref[j].array])
      BY RefFields DEF StoreOK
    <3>2. CellChanged(k, record)
      BY <1>1, <1>4
    <3> QED BY <1>1, <3>1, <3>2 DEF Gate, CellChanged
  <2>7. here(j) => j = k
    <3>1. here(j) => Gate(j) = Gate(k)
      BY DEF Gate
    <3> QED BY <2>1, <2>5, <3>1
  <2>8. CASE j = k
    BY <2>3, <2>4, <2>5, <2>6, <2>8
  <2>9. CASE j # k
    BY <2>4, <2>5, <2>6, <2>7, <2>9
  <2> QED BY <2>8, <2>9
<1> QED BY <1>3, <1>4

LEMMA FreshNext ==
    ASSUME StoreOK, RefsAreFresh, [CNext]_allVars
    PROVE  RefsAreFresh'
<1>1. ASSUME NEW s \in Sessions, CLookUp(s) \/ CPickKey(s) PROVE RefsAreFresh'
  BY <1>1 DEF CLookUp, CPickKey, LookUp, PickKey, history, RefsAreFresh, Claimed, Gate
<1>2. ASSUME NEW s \in Sessions, CSave(s) PROVE RefsAreFresh'
  BY <1>2, FreshSave
<1>3. ASSUME NEW s \in Sessions, NEW k \in Keys, CAddKey(s, k) PROVE RefsAreFresh'
  BY <1>3, FreshAddKey
<1>4. ASSUME NEW s \in Sessions, CRemoveKey(s) PROVE RefsAreFresh'
  BY <1>4, FreshRemoveKey
<1>5. ASSUME NEW s \in Sessions, NEW status \in Statuses, CSetKeyStatus(s, status)
      PROVE  RefsAreFresh'
  <2> DEFINE k == picked[s]
             record == [Gate(k) EXCEPT !.status = status]
             want == [wanted[k] EXCEPT !.status = status]
  <2>1. k \in Keys /\ TRUE \in BOOLEAN
    BY <1>5 DEF CSetKeyStatus, SetKeyStatus, ChangeRecord, StoreOK, TypeOK
  <2>2. Owns(s, k) => record \in Records /\ record.key = Gate(k).key
    BY <2>1, ChangedRecord DEF StoreOK
  <2>3. Commands(s) => want \in Records /\ (Gate(k) = wanted[k] => want = record)
    <3>1. Commands(s) => wanted[k] \in Records
      BY <2>1 DEF Commands, RefsAreFresh
    <3> QED BY <3>1 DEF Records
  <2>4. /\ ChangeRecord(s, record)
        /\ \/ Commands(s) /\ wanted' = [wanted EXCEPT ![k] = want]
           \/ ~Commands(s) /\ UNCHANGED wanted
        /\ UNCHANGED moved
    BY <1>5 DEF CSetKeyStatus, SetKeyStatus, Wants
  <2> HIDE DEF record, want
  <2> QED BY <2>2, <2>3, <2>4, FreshChange
<1>6. ASSUME NEW s \in Sessions, NEW allowed \in BOOLEAN, CSetPublishPermission(s, allowed)
      PROVE  RefsAreFresh'
  <2> DEFINE k == picked[s]
             record == [Gate(k) EXCEPT !.permission = allowed]
             want == [wanted[k] EXCEPT !.permission = allowed]
  <2>1. k \in Keys /\ "active" \in Statuses
    BY <1>6 DEF CSetPublishPermission, SetPublishPermission, ChangeRecord, StoreOK, TypeOK, Statuses
  <2>2. Owns(s, k) => record \in Records /\ record.key = Gate(k).key
    BY <2>1, ChangedRecord DEF StoreOK
  <2>3. Commands(s) => want \in Records /\ (Gate(k) = wanted[k] => want = record)
    <3>1. Commands(s) => wanted[k] \in Records
      BY <2>1 DEF Commands, RefsAreFresh
    <3> QED BY <3>1 DEF Records
  <2>4. /\ ChangeRecord(s, record)
        /\ \/ Commands(s) /\ wanted' = [wanted EXCEPT ![k] = want]
           \/ ~Commands(s) /\ UNCHANGED wanted
        /\ UNCHANGED moved
    BY <1>6 DEF CSetPublishPermission, SetPublishPermission, Wants
  <2> HIDE DEF record, want
  <2> QED BY <2>2, <2>3, <2>4, FreshChange
<1>7. CASE UNCHANGED allVars
  BY <1>7 DEF allVars, vars, history, RefsAreFresh, Claimed, Gate
<1> QED BY <1>1, <1>2, <1>3, <1>4, <1>5, <1>6, <1>7 DEF CNext

\* While no key is removed and no account with keys logs in again, the gates
\* read exactly what the owners' commands asked for, however often append has
\* moved the slices away from the arrays the refs point into (owner.go:113).
THEOREM GatesFollowCommandsHolds == CSpec => []GatesFollowCommands
<1>1. CInit => StoreOK /\ RefsAreFresh
  BY StoreInit, FreshInit DEF CInit
<1>2. StoreOK /\ RefsAreFresh /\ [CNext]_allVars => StoreOK' /\ RefsAreFresh'
  BY StoreNext, FreshNext
<1>3. RefsAreFresh => GatesFollowCommands
  BY DEF RefsAreFresh, GatesFollowCommands
<1> QED BY <1>1, <1>2, <1>3, PTL DEF CSpec

-----------------------------------------------------------------------------
(* A login puts the pointers right.                                        *)

\* For an account whose keys are as its last login left them, the ref of each
\* key points to the very cell of the slice that holds the key.
RefsFollowSlice ==
    \A o \in Owners : owners[o] # None /\ aligned[o] =>
        \A i \in 1..length[owners[o]] :
            ref[Current(owners[o])[i].key] =
                [object |-> owners[o], array |-> Len(arrays[owners[o]]), index |-> i]

LEMMA SliceKeys ==
    ASSUME TypeOK, NEW x \in Sessions, NEW i \in 1..length[x]
    PROVE  Current(x)[i].key \in Keys /\ Current(x)[i].key \in LinkedKeys(x)
<1>1. Current(x)[i] \in Records
  BY SliceInArray
<1> QED BY <1>1 DEF Records, LinkedKeys

\* A step that leaves the object of an account its slice and the refs of its
\* keys leaves it aligned.
LEMMA AlignedStays ==
    ASSUME RefsFollowSlice, NEW o \in Owners, owners[o] # None, aligned[o],
           NEW y, y = owners[o], owners'[o] = y, length'[y] = length[y],
           Len(arrays'[y]) = Len(arrays[y]),
           \A i \in 1..length[y] : /\ Current(y)'[i].key = Current(y)[i].key
                                   /\ ref'[Current(y)[i].key] = ref[Current(y)[i].key]
    PROVE  \A i \in 1..length'[y] :
              ref'[Current(y)'[i].key] = [object |-> y, array |-> Len(arrays'[y]), index |-> i]
BY DEF RefsFollowSlice

LEMMA AlignedSave ==
    ASSUME StoreOK, RefsFollowSlice, NEW s \in Sessions, CSave(s)
    PROVE  RefsFollowSlice'
<1>1. PICK x : x = login[s]
  OBVIOUS
<1>2. /\ x \in Sessions
      /\ UNCHANGED <<arrays, length>>
      /\ owners' = [owners EXCEPT ![OwnerOf[s]] = x]
      /\ \A k \in Keys : ref'[k] = IF k \in LinkedKeys(x)
                                   THEN [object |-> x, array |-> Len(arrays[x]),
                                         index |-> Position(x, k)]
                                   ELSE ref[k]
  BY <1>1 DEF CSave, Save, StoreOK, TypeOK
<1> SUFFICES ASSUME NEW o \in Owners, owners'[o] # None, aligned'[o], NEW y, y = owners'[o]
             PROVE  \A i \in 1..length'[y] : ref'[Current(y)'[i].key] =
                        [object |-> y, array |-> Len(arrays'[y]), index |-> i]
  BY DEF RefsFollowSlice
<1>3. CASE o = OwnerOf[s]
  <2>1. y = x
    BY <1>2, <1>3 DEF StoreOK, TypeOK
  <2>2. ASSUME NEW i \in 1..length[x]
        PROVE  ref'[Current(x)[i].key] = [object |-> x, array |-> Len(arrays[x]), index |-> i]
    <3> DEFINE k == Current(x)[i].key
    <3>1. k \in Keys /\ k \in LinkedKeys(x)
      BY <1>2, SliceKeys DEF StoreOK
    <3>2. Position(x, k) = i
      BY <1>2, <3>1, PositionOfKey DEF StoreOK, KeysAreDistinct
    <3> QED BY <1>2, <3>1, <3>2
  <2> QED BY <1>2, <2>1, <2>2 DEF Current
<1>4. CASE o # OwnerOf[s]
  <2>1. owners'[o] = owners[o] /\ y \in Sessions
    BY <1>2, <1>4 DEF StoreOK, TypeOK
  <2>2. aligned[o] /\ LinkedKeys(y) \cap LinkedKeys(x) = {}
    BY <1>1, <1>4, <2>1 DEF CSave
  <2>3. \A i \in 1..length[y] : ref'[Current(y)[i].key] = ref[Current(y)[i].key]
    BY <1>2, <2>1, <2>2, SliceKeys DEF StoreOK
  <2> QED BY <1>2, <2>1, <2>2, <2>3, AlignedStays DEF Current
<1> QED BY <1>3, <1>4

LEMMA AlignedAddKey ==
    ASSUME StoreOK, RefsFollowSlice, NEW s \in Sessions, NEW k \in Keys, CAddKey(s, k)
    PROVE  RefsFollowSlice'
<1>1. PICK x : x = Object(s)
  OBVIOUS
<1>2. /\ x \in Sessions
      /\ \A y \in Sessions : y # x => arrays'[y] = arrays[y]
      /\ length' = [length EXCEPT ![x] = @ + 1]
      /\ \A j \in Keys : j # k => ref'[j] = ref[j]
      /\ UNCHANGED owners
  BY <1>1, AddEffect DEF StoreOK, TypeOK, CAddKey
<1> SUFFICES ASSUME NEW o \in Owners, owners[o] # None, aligned'[o], NEW y, y = owners[o]
             PROVE  \A i \in 1..length'[y] : ref'[Current(y)'[i].key] =
                        [object |-> y, array |-> Len(arrays'[y]), index |-> i]
  BY <1>2 DEF RefsFollowSlice
<1>3. y \in Sessions /\ aligned[o] /\ k \notin LinkedKeys(y) /\ length'[y] = length[y]
  BY DEF CAddKey, Touch, StoreOK, TypeOK
<1>4. y # x
  <2>1. length[x] \in Nat /\ length'[x] = length[x] + 1
    BY <1>2 DEF StoreOK, TypeOK
  <2> QED BY <1>3, <2>1
<1>5. arrays'[y] = arrays[y] /\ Current(y)' = Current(y)
  BY <1>2, <1>3, <1>4 DEF Current
<1>6. \A i \in 1..length[y] : ref'[Current(y)[i].key] = ref[Current(y)[i].key]
  BY <1>2, <1>3, SliceKeys DEF StoreOK
<1> QED BY <1>2, <1>3, <1>5, <1>6, AlignedStays

LEMMA AlignedRemoveKey ==
    ASSUME StoreOK, RefsFollowSlice, NEW s \in Sessions, CRemoveKey(s)
    PROVE  RefsFollowSlice'
<1>1. PICK x : x = Object(s)
  OBVIOUS
<1>2. /\ UNCHANGED owners
      /\ \/ /\ x \in Sessions /\ Shifted(x, Position(x, picked[s]))
            /\ ref' = [ref EXCEPT ![picked[s]] = None]
         \/ UNCHANGED <<arrays, length, ref>>
  BY <1>1, RemoveEffect DEF StoreOK, CRemoveKey
<1>3. CASE UNCHANGED <<arrays, length, ref>>
  <2>1. UNCHANGED history \/ length' # length
    BY DEF CRemoveKey
  <2> QED BY <1>2, <1>3, <2>1 DEF RefsFollowSlice, Current, history
<1>4. CASE x \in Sessions /\ Shifted(x, Position(x, picked[s]))
             /\ ref' = [ref EXCEPT ![picked[s]] = None]
  <2>1. /\ length[x] \in Nat /\ length'[x] = length[x] - 1
        /\ \A y \in Sessions : y # x => arrays'[y] = arrays[y]
        /\ \A j \in Keys : j # picked[s] => ref'[j] = ref[j]
    BY <1>4 DEF Shifted, StoreOK, TypeOK
  <2>2. Touch(picked[s])
    <3>1. length' # length
      BY <2>1
    <3> QED BY <3>1 DEF CRemoveKey
  <2> SUFFICES ASSUME NEW o \in Owners, owners[o] # None, aligned'[o], NEW y, y = owners[o]
               PROVE  \A i \in 1..length'[y] : ref'[Current(y)'[i].key] =
                          [object |-> y, array |-> Len(arrays'[y]), index |-> i]
    BY <1>2 DEF RefsFollowSlice
  <2>3. /\ y \in Sessions /\ aligned[o]
        /\ picked[s] \notin LinkedKeys(y) /\ length'[y] = length[y]
    BY <2>2 DEF Touch, StoreOK, TypeOK
  <2>4. y # x
    BY <2>1, <2>3
  <2>5. arrays'[y] = arrays[y] /\ Current(y)' = Current(y)
    BY <2>1, <2>3, <2>4 DEF Current
  <2>6. \A i \in 1..length[y] : ref'[Current(y)[i].key] = ref[Current(y)[i].key]
    BY <2>1, <2>3, SliceKeys DEF StoreOK
  <2> QED BY <1>2, <2>3, <2>5, <2>6, AlignedStays
<1> QED BY <1>2, <1>3, <1>4

LEMMA AlignedChange ==
    ASSUME StoreOK, RefsFollowSlice, NEW s \in Sessions, NEW record, ChangeRecord(s, record),
           Owns(s, picked[s]) => record \in Records /\ record.key = Gate(picked[s]).key,
           UNCHANGED aligned
    PROVE  RefsFollowSlice'
<1>1. /\ UNCHANGED <<owners, length, ref>>
      /\ CellChanged(picked[s], record) \/ UNCHANGED arrays
  BY ChangeEffect DEF StoreOK
<1>2. CASE UNCHANGED arrays
  BY <1>1, <1>2 DEF RefsFollowSlice, Current
<1>3. CASE CellChanged(picked[s], record)
  <2> SUFFICES ASSUME NEW o \in Owners, owners[o] # None, aligned[o], NEW y, y = owners[o]
               PROVE  \A i \in 1..length'[y] : ref'[Current(y)'[i].key] =
                          [object |-> y, array |-> Len(arrays'[y]), index |-> i]
    BY <1>1 DEF RefsFollowSlice
  <2>1. y \in Sessions
    BY DEF StoreOK, TypeOK
  <2>2. Len(arrays'[y]) = Len(arrays[y])
    BY <1>3, <2>1 DEF CellChanged
  <2>3. \A i \in 1..length[y] : Current(y)'[i].key = Current(y)[i].key
    BY <1>1, <1>3, <2>1, SameKeys
  <2> QED BY <1>1, <2>2, <2>3, AlignedStays
<1> QED BY <1>1, <1>2, <1>3

LEMMA AlignedInit == ASSUME CInit PROVE RefsFollowSlice
BY DEF CInit, Init, RefsFollowSlice

LEMMA AlignedNext ==
    ASSUME StoreOK, RefsFollowSlice, [CNext]_allVars
    PROVE  RefsFollowSlice'
<1>1. ASSUME NEW s \in Sessions, CLookUp(s) \/ CPickKey(s) PROVE RefsFollowSlice'
  BY <1>1 DEF CLookUp, CPickKey, LookUp, PickKey, history, RefsFollowSlice, Current
<1>2. ASSUME NEW s \in Sessions, CSave(s) PROVE RefsFollowSlice'
  BY <1>2, AlignedSave
<1>3. ASSUME NEW s \in Sessions, NEW k \in Keys, CAddKey(s, k) PROVE RefsFollowSlice'
  BY <1>3, AlignedAddKey
<1>4. ASSUME NEW s \in Sessions, CRemoveKey(s) PROVE RefsFollowSlice'
  BY <1>4, AlignedRemoveKey
<1>5. ASSUME NEW s \in Sessions, NEW status \in Statuses, CSetKeyStatus(s, status)
      PROVE  RefsFollowSlice'
  <2> DEFINE k == picked[s]
             record == [Gate(k) EXCEPT !.status = status]
  <2>1. k \in Keys /\ TRUE \in BOOLEAN
    BY <1>5 DEF CSetKeyStatus, SetKeyStatus, ChangeRecord, StoreOK, TypeOK
  <2>2. Owns(s, k) => record \in Records /\ record.key = Gate(k).key
    BY <2>1, ChangedRecord DEF StoreOK
  <2>3. ChangeRecord(s, record) /\ UNCHANGED aligned
    BY <1>5 DEF CSetKeyStatus, SetKeyStatus
  <2> HIDE DEF record
  <2> QED BY <2>2, <2>3, AlignedChange
<1>6. ASSUME NEW s \in Sessions, NEW allowed \in BOOLEAN, CSetPublishPermission(s, allowed)
      PROVE  RefsFollowSlice'
  <2> DEFINE k == picked[s]
             record == [Gate(k) EXCEPT !.permission = allowed]
  <2>1. k \in Keys /\ "active" \in Statuses
    BY <1>6 DEF CSetPublishPermission, SetPublishPermission, ChangeRecord, StoreOK, TypeOK, Statuses
  <2>2. Owns(s, k) => record \in Records /\ record.key = Gate(k).key
    BY <2>1, ChangedRecord DEF StoreOK
  <2>3. ChangeRecord(s, record) /\ UNCHANGED aligned
    BY <1>6 DEF CSetPublishPermission, SetPublishPermission
  <2> HIDE DEF record
  <2> QED BY <2>2, <2>3, AlignedChange
<1>7. CASE UNCHANGED allVars
  BY <1>7 DEF allVars, vars, history, RefsFollowSlice, Current
<1> QED BY <1>1, <1>2, <1>3, <1>4, <1>5, <1>6, <1>7 DEF CNext

LEMMA AlignedMeaning ==
    ASSUME StoreOK, RefsFollowSlice
    PROVE  LoginAlignsRefs
<1> SUFFICES ASSUME NEW o \in Owners, owners[o] # None, aligned[o],
                    NEW k \in LinkedKeys(owners[o])
             PROVE  Claimed(k) /\ Gate(k) = Current(owners[o])[Position(owners[o], k)]
  BY DEF LoginAlignsRefs
<1>1. PICK x : x = owners[o]
  OBVIOUS
<1>2. PICK i : i = Position(x, k)
  OBVIOUS
<1>3. x \in Sessions
  BY <1>1 DEF StoreOK, TypeOK
<1>4. i \in 1..length[x] /\ Current(x)[i].key = k
  BY <1>1, <1>2, <1>3, PositionOfKey DEF StoreOK
<1>5. k \in Keys
  BY <1>3, <1>4, SliceKeys DEF StoreOK
<1>6. ref[k] = [object |-> x, array |-> Len(arrays[x]), index |-> i]
  BY <1>1, <1>4 DEF RefsFollowSlice
<1>7. ref[k].object = x /\ ref[k].array = Len(arrays[x]) /\ ref[k].index = i
  BY <1>6
<1>8. Claimed(k)
  <2>1. Len(arrays[x]) \in Nat \ {0}
    <3>1. Len(arrays[x]) \in Nat /\ arrays[x] \in Seq(Seq(Records))
      BY <1>3 DEF StoreOK, TypeOK
    <3>2. arrays[x] # <<>>
      BY <1>3, <1>4 DEF StoreOK, TypeOK
    <3> QED BY <3>1, <3>2
  <2>2. i \in Nat \ {0}
    BY <1>3, <1>4 DEF StoreOK, TypeOK
  <2>3. ref[k] \in Refs
    BY <1>3, <1>6, <2>1, <2>2 DEF Refs
  <2> QED BY <2>3, NoRefAssumption DEF Claimed
<1>9. Gate(k) = Current(x)[i]
  BY <1>7 DEF Gate, Current
<1> QED BY <1>1, <1>2, <1>8, <1>9

\* After a login, and until the keys of the account change again, the dashboard
\* and the gates read the same records (owner.go:61-66).
THEOREM LoginAlignsRefsHolds == CSpec => []LoginAlignsRefs
<1>1. CInit => StoreOK /\ RefsFollowSlice
  BY StoreInit, AlignedInit DEF CInit
<1>2. StoreOK /\ RefsFollowSlice /\ [CNext]_allVars => StoreOK' /\ RefsFollowSlice'
  BY StoreNext, AlignedNext
<1>3. StoreOK /\ RefsFollowSlice => LoginAlignsRefs
  BY AlignedMeaning
<1> QED BY <1>1, <1>2, <1>3, PTL DEF CSpec

=============================================================================
