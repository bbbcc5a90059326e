--------------------------- MODULE S3OwnerProofs ---------------------------
(***************************************************************************)
(* What TLAPS proves of the owner store over S3, for every number of       *)
(* servers, accounts, keys and failures of S3.                             *)
(***************************************************************************)
EXTENDS S3OwnerHistory, FiniteSetTheorems, SequenceTheorems, TLAPS

-----------------------------------------------------------------------------
(* Lists of keys.                                                          *)

IsDistinct(keys) == \A j, l \in DOMAIN keys : keys[j].key = keys[l].key => j = l

\* What an Owner's Keys may hold: no key twice.
Lists == {keys \in Seq(Records) : IsDistinct(keys)}

LEMMA RecordFields ==
    ASSUME NEW r \in Records
    PROVE  r.key \in Keys /\ r # None
BY NoneAssumption DEF Records

LEMMA PositionOfKey ==
    ASSUME NEW keys, NEW k \in LinkedKeys(keys)
    PROVE  Position(keys, k) \in DOMAIN keys /\ keys[Position(keys, k)].key = k
BY DEF LinkedKeys, Position

LEMMA PositionIsUnique ==
    ASSUME NEW keys \in Lists, NEW j \in DOMAIN keys
    PROVE  /\ keys[j] \in Records
           /\ keys[j].key \in LinkedKeys(keys)
           /\ Position(keys, keys[j].key) = j
<1>1. keys[j].key \in LinkedKeys(keys)
  BY DEF LinkedKeys
<1>2. keys[j] \in Records
  BY DEF Lists
<1> QED BY <1>1, <1>2, PositionOfKey DEF Lists, IsDistinct

LEMMA ListedEntries ==
    ASSUME NEW keys \in Lists
    PROVE  /\ Listed(keys) \in [Keys -> Records \cup {None}]
           /\ LinkedKeys(keys) \subseteq Keys
           /\ \A k \in Keys : Listed(keys)[k] # None <=> k \in LinkedKeys(keys)
           /\ \A k \in LinkedKeys(keys) : Listed(keys)[k] = keys[Position(keys, k)]
           /\ \A j \in DOMAIN keys : Listed(keys)[keys[j].key] = keys[j]
<1>1. \A k \in LinkedKeys(keys) :
         /\ k \in Keys /\ Position(keys, k) \in DOMAIN keys
         /\ keys[Position(keys, k)] \in Records /\ keys[Position(keys, k)] # None
  <2> SUFFICES ASSUME NEW k \in LinkedKeys(keys)
               PROVE  /\ k \in Keys /\ Position(keys, k) \in DOMAIN keys
                      /\ keys[Position(keys, k)] \in Records /\ keys[Position(keys, k)] # None
    OBVIOUS
  <2>1. Position(keys, k) \in DOMAIN keys /\ keys[Position(keys, k)].key = k
    BY PositionOfKey
  <2>2. keys[Position(keys, k)] \in Records
    BY <2>1, PositionIsUnique
  <2> QED BY <2>1, <2>2, RecordFields
<1>2. Listed(keys) \in [Keys -> Records \cup {None}]
  BY <1>1 DEF Listed
<1>3. \A k \in LinkedKeys(keys) : Listed(keys)[k] = keys[Position(keys, k)]
  BY <1>1 DEF Listed
<1>4. \A k \in Keys : Listed(keys)[k] # None <=> k \in LinkedKeys(keys)
  BY <1>1 DEF Listed
<1>5. \A j \in DOMAIN keys : Listed(keys)[keys[j].key] = keys[j]
  BY <1>3, PositionIsUnique
<1> QED BY <1>1, <1>2, <1>3, <1>4, <1>5

LEMMA SameListing ==
    ASSUME NEW keys \in Lists, NEW others \in Lists, Listed(keys) = Listed(others)
    PROVE  LinkedKeys(keys) = LinkedKeys(others)
<1>1. \A k \in Keys : k \in LinkedKeys(keys) <=> k \in LinkedKeys(others)
  BY ListedEntries
<1> QED BY <1>1, ListedEntries

\* What a list of keys says of each key.
LEMMA ListedIs ==
    ASSUME NEW keys \in Lists, NEW f \in [Keys -> Records \cup {None}],
           \A j \in DOMAIN keys : f[keys[j].key] = keys[j],
           \A k \in Keys : f[k] # None => k \in LinkedKeys(keys)
    PROVE  Listed(keys) = f
<1>1. Listed(keys) \in [Keys -> Records \cup {None}]
  BY ListedEntries
<1>2. ASSUME NEW k \in Keys PROVE Listed(keys)[k] = f[k]
  <2>1. CASE k \in LinkedKeys(keys)
    BY <2>1, PositionOfKey, ListedEntries
  <2>2. CASE k \notin LinkedKeys(keys)
    BY <2>2, ListedEntries
  <2> QED BY <2>1, <2>2
<1> QED BY <1>1, <1>2

LEMMA EmptyList ==
    <<>> \in Lists /\ LinkedKeys(<<>>) = {} /\ Listed(<<>>) = [k \in Keys |-> None]
<1>1. <<>> \in Lists /\ LinkedKeys(<<>>) = {}
  BY DEF Lists, IsDistinct, LinkedKeys
<1> QED BY <1>1 DEF Listed

-----------------------------------------------------------------------------
(* The memory of one server.                                               *)

Memories ==
    [owners : [Accounts -> Objects \cup {None}], heap : [Objects -> OwnerObjects \cup {None}],
     ref : [Keys -> Refs \cup {None}]]

\* The account of the Owner that ByKey has for a key.
Claimant(m, k) == m.heap[m.ref[k].object].account

\* No pointer leads nowhere, and no slice holds a key twice.
MemoryOK(m) ==
    /\ m \in Memories
    /\ \A x \in Objects : m.heap[x] # None =>
          m.heap[x].length <= Len(m.heap[x].cells) /\ IsDistinct(Slice(m, x))
    /\ \A o \in Accounts : m.owners[o] # None =>
          m.heap[m.owners[o]] # None /\ m.heap[m.owners[o]].account = o
    /\ \A k \in Keys : m.ref[k] # None =>
          /\ m.heap[m.ref[k].object] # None
          /\ m.ref[k].index <= Len(m.heap[m.ref[k].object].cells)

\* What a server holds of an account and a key, the owner has added.
Claims(m, added) ==
    /\ \A x \in Objects : m.heap[x] # None =>
          LinkedKeys(Slice(m, x)) \subseteq added[m.heap[x].account]
    /\ \A k \in Keys : m.ref[k] # None => k \in added[Claimant(m, k)]

\* A ref to an Owner of the account leads to the one the dashboard shows, which
\* lists the key.
RefsOwn(m, o) ==
    \A k \in Keys : m.ref[k] # None /\ Claimant(m, k) = o =>
        /\ m.owners[o] # None
        /\ m.ref[k].object = m.owners[o]
        /\ k \in LinkedKeys(Slice(m, m.owners[o]))

\* It leads to the key's own record.
RefsExact(m, o) ==
    \A k \in Keys : m.ref[k] # None /\ Claimant(m, k) = o =>
        m.ref[k].index <= m.heap[m.ref[k].object].length /\ Gate(m, k).key = k

\* A listed key that no other account has ever added has its ref.
RefsKept(m, o, added) ==
    m.owners[o] # None =>
        \A k \in LinkedKeys(Slice(m, m.owners[o])) :
            (\A p \in Accounts \ {o} : k \notin added[p]) => m.ref[k] # None /\ Claimant(m, k) = o

LEMMA ObjectFields ==
    ASSUME NEW m, MemoryOK(m), NEW x \in Objects, m.heap[x] # None
    PROVE  /\ m.heap[x] \in OwnerObjects
           /\ m.heap[x].account \in Accounts
           /\ m.heap[x].cells \in Seq(Records)
           /\ Len(m.heap[x].cells) \in Nat
           /\ m.heap[x].length \in Nat
           /\ m.heap[x].length <= Len(m.heap[x].cells)
           /\ m.heap[x] = [account |-> m.heap[x].account, cells |-> m.heap[x].cells,
                           length |-> m.heap[x].length]
<1>1. m.heap[x] \in OwnerObjects
  BY DEF MemoryOK, Memories
<1> QED BY <1>1 DEF MemoryOK, OwnerObjects

LEMMA RefFields ==
    ASSUME NEW m, MemoryOK(m), NEW k \in Keys, m.ref[k] # None
    PROVE  /\ m.ref[k] \in Refs /\ m.ref[k].object \in Objects
           /\ m.heap[m.ref[k].object] # None
           /\ m.ref[k].index \in 1..Len(m.heap[m.ref[k].object].cells)
           /\ Claimant(m, k) \in Accounts
           /\ Gate(m, k) \in Records
<1>1. m.ref[k] \in Refs /\ m.ref[k].object \in Objects /\ m.ref[k].index \in Nat \ {0}
  BY DEF MemoryOK, Memories, Refs
<1>2. /\ m.heap[m.ref[k].object] # None
      /\ m.ref[k].index <= Len(m.heap[m.ref[k].object].cells)
  BY DEF MemoryOK
<1>3. /\ m.heap[m.ref[k].object].cells \in Seq(Records)
      /\ Len(m.heap[m.ref[k].object].cells) \in Nat
      /\ m.heap[m.ref[k].object].account \in Accounts
  BY <1>1, <1>2, ObjectFields
<1>4. m.ref[k].index \in 1..Len(m.heap[m.ref[k].object].cells)
  BY <1>1, <1>2, <1>3
<1> QED BY <1>1, <1>2, <1>3, <1>4 DEF Claimant, Gate

LEMMA OwnerFields ==
    ASSUME NEW m, MemoryOK(m), NEW o \in Accounts, m.owners[o] # None
    PROVE  /\ m.owners[o] \in Objects
           /\ m.heap[m.owners[o]] # None /\ m.heap[m.owners[o]].account = o
BY DEF MemoryOK, Memories

\* The slice is the front of the array.
LEMMA SliceIs ==
    ASSUME NEW m, MemoryOK(m), NEW x \in Objects, m.heap[x] # None
    PROVE  /\ Slice(m, x) \in Lists
           /\ Len(Slice(m, x)) = m.heap[x].length
           /\ DOMAIN Slice(m, x) = 1..m.heap[x].length
           /\ \A j \in 1..m.heap[x].length : Slice(m, x)[j] = m.heap[x].cells[j]
           /\ LinkedKeys(Slice(m, x)) \subseteq Keys
<1> DEFINE cells == m.heap[x].cells
           n == m.heap[x].length
<1>1. cells \in Seq(Records) /\ n \in Nat /\ Len(cells) \in Nat /\ n <= Len(cells)
  BY ObjectFields
<1>2. Slice(m, x) = SubSeq(cells, 1, n)
  BY DEF Slice
<1> HIDE DEF cells, n
<1>3. /\ SubSeq(cells, 1, n) \in Seq(Records)
      /\ Len(SubSeq(cells, 1, n)) = n
      /\ \A j \in 1..n : SubSeq(cells, 1, n)[j] = cells[j]
  BY <1>1
<1>4. Slice(m, x) \in Lists
  BY <1>2, <1>3 DEF Lists, MemoryOK
<1> USE DEF n, cells
<1> QED BY <1>1, <1>2, <1>3, <1>4, ListedEntries

\* Two slices are the same if their objects are, or have the same front.
LEMMA SliceDependsOnFront ==
    ASSUME NEW m, MemoryOK(m), NEW x \in Objects, m.heap[x] # None,
           NEW keys \in Seq(Records), Len(keys) = m.heap[x].length,
           \A j \in 1..m.heap[x].length : keys[j] = m.heap[x].cells[j]
    PROVE  Slice(m, x) = keys
<1>1. /\ Slice(m, x) \in Seq(Records) /\ Len(Slice(m, x)) = m.heap[x].length
      /\ \A j \in 1..m.heap[x].length : Slice(m, x)[j] = keys[j]
  BY SliceIs DEF Lists
<1>2. m.heap[x].length \in Nat
  BY ObjectFields
<1> QED BY <1>1, <1>2

LEMMA SameObjectSameSlice ==
    ASSUME NEW m, NEW n, NEW x, n.heap[x] = m.heap[x]
    PROVE  Slice(n, x) = Slice(m, x)
BY DEF Slice

-----------------------------------------------------------------------------
(* What the operations do to an account that they are not about.           *)

\* n is m after an operation that has nothing to do with account p: a key of p
\* loses its ref only to an account that has added it too.
Apart(m, n, p, added) ==
    /\ n.owners[p] = m.owners[p]
    /\ \A x \in Objects : m.heap[x] # None =>
          /\ n.heap[x] # None /\ n.heap[x].account = m.heap[x].account
          /\ m.heap[x].account = p => n.heap[x] = m.heap[x]
    /\ \A k \in Keys :
          \/ n.ref[k] = m.ref[k]
          \/ /\ n.ref[k] = None \/ Claimant(n, k) # p
             /\ \E q \in Accounts \ {p} : k \in added[q]

\* What the memory says of an account as long as it follows its owner.
Shows(m, o, added) == RefsOwn(m, o) /\ RefsKept(m, o, added)

LEMMA ApartKeeps ==
    ASSUME NEW m, NEW n, MemoryOK(m), MemoryOK(n), NEW p \in Accounts, NEW added,
           Apart(m, n, p, added)
    PROVE  /\ Shows(m, p, added) => Shows(n, p, added)
           /\ RefsExact(m, p) => RefsExact(n, p)
           /\ \A x \in Objects : m.heap[x] # None /\ m.heap[x].account = p =>
                 Slice(n, x) = Slice(m, x)
           /\ m.owners[p] # None => Slice(n, n.owners[p]) = Slice(m, m.owners[p])
<1>1. \A x \in Objects : m.heap[x] # None /\ m.heap[x].account = p =>
         n.heap[x] = m.heap[x] /\ Slice(n, x) = Slice(m, x)
  BY SameObjectSameSlice DEF Apart
<1>2. m.owners[p] # None => /\ n.owners[p] = m.owners[p]
                            /\ Slice(n, n.owners[p]) = Slice(m, m.owners[p])
  BY <1>1, OwnerFields DEF Apart
<1>3. ASSUME NEW k \in Keys, n.ref[k] # None, Claimant(n, k) = p
      PROVE  /\ m.ref[k] = n.ref[k] /\ Claimant(m, k) = p
             /\ n.heap[n.ref[k].object] = m.heap[m.ref[k].object]
  <2>1. n.ref[k] = m.ref[k]
    BY <1>3 DEF Apart
  <2>2. m.ref[k].object \in Objects /\ m.heap[m.ref[k].object] # None
    BY <1>3, <2>1, RefFields
  <2>3. Claimant(m, k) = p
    BY <1>3, <2>1, <2>2 DEF Claimant, Apart
  <2> QED BY <2>1, <2>2, <2>3, <1>1 DEF Claimant
<1>4. RefsOwn(m, p) => RefsOwn(n, p)
  BY <1>2, <1>3 DEF RefsOwn, Apart
<1>5. RefsExact(m, p) => RefsExact(n, p)
  BY <1>3 DEF RefsExact, Gate
<1>6. RefsKept(m, p, added) => RefsKept(n, p, added)
  <2> SUFFICES ASSUME RefsKept(m, p, added), n.owners[p] # None,
                      NEW k \in LinkedKeys(Slice(n, n.owners[p])),
                      \A q \in Accounts \ {p} : k \notin added[q]
               PROVE  n.ref[k] # None /\ Claimant(n, k) = p
    BY DEF RefsKept
  <2>1. m.owners[p] # None /\ k \in LinkedKeys(Slice(m, m.owners[p]))
    BY <1>2 DEF Apart
  <2>2. m.ref[k] # None /\ Claimant(m, k) = p
    BY <2>1 DEF RefsKept
  <2>3. k \in Keys
    BY <2>1, OwnerFields, SliceIs
  <2>4. n.ref[k] = m.ref[k]
    BY <2>3 DEF Apart
  <2>5. m.ref[k].object \in Objects /\ m.heap[m.ref[k].object] # None
    BY <2>2, <2>3, RefFields
  <2> QED BY <2>2, <2>4, <2>5 DEF Claimant, Apart
<1> QED BY <1>1, <1>2, <1>4, <1>5, <1>6 DEF Shows

\* That an owner adds one more key disturbs no other account.
LEMMA AddingKeeps ==
    ASSUME NEW m, NEW o \in Accounts, NEW added, NEW more,
           \A p \in Accounts : added[p] \subseteq more[p]
    PROVE  /\ RefsKept(m, o, added) => RefsKept(m, o, more)
           /\ Shows(m, o, added) => Shows(m, o, more)
<1>1. RefsKept(m, o, added) => RefsKept(m, o, more)
  BY DEF RefsKept
<1> QED BY <1>1 DEF Shows

LEMMA ClaimsGrow ==
    ASSUME NEW m, MemoryOK(m), NEW added, NEW more, Claims(m, added),
           \A p \in Accounts : added[p] \subseteq more[p]
    PROVE  Claims(m, more)
<1>1. ASSUME NEW x \in Objects, m.heap[x] # None
      PROVE  LinkedKeys(Slice(m, x)) \subseteq more[m.heap[x].account]
  BY <1>1, ObjectFields DEF Claims
<1>2. ASSUME NEW k \in Keys, m.ref[k] # None PROVE k \in more[Claimant(m, k)]
  BY <1>2, RefFields DEF Claims
<1> QED BY <1>1, <1>2 DEF Claims

-----------------------------------------------------------------------------
(* Garbage.                                                                *)

\* m without the objects that are not in U.
Collected(m, U) ==
    [owners |-> m.owners, heap |-> [x \in Objects |-> IF x \in U THEN m.heap[x] ELSE None],
     ref |-> m.ref]

LEMMA CollectKeeps ==
    ASSUME NEW m, MemoryOK(m), NEW U,
           \A o \in Accounts : m.owners[o] # None => m.owners[o] \in U,
           \A k \in Keys : m.ref[k] # None => m.ref[k].object \in U
    PROVE  LET n == Collected(m, U) IN
           /\ MemoryOK(n)
           /\ \A added : Claims(m, added) => Claims(n, added)
           /\ \A o \in Accounts : \A added : Shows(m, o, added) => Shows(n, o, added)
           /\ \A o \in Accounts : RefsExact(m, o) => RefsExact(n, o)
           /\ \A o \in Accounts : m.owners[o] # None =>
                 Slice(n, n.owners[o]) = Slice(m, m.owners[o])
           /\ n.owners = m.owners
           /\ \A x \in Objects : x \in U => n.heap[x] = m.heap[x] /\ Slice(n, x) = Slice(m, x)
           /\ \A x \in Objects : n.heap[x] # None => x \in U
<1> DEFINE n == Collected(m, U)
<1>1. n.owners = m.owners /\ n.ref = m.ref
  BY DEF Collected
<1>2. \A x \in Objects : n.heap[x] = IF x \in U THEN m.heap[x] ELSE None
  BY DEF Collected
<1>3. n \in Memories
  BY DEF Collected, MemoryOK, Memories
<1> HIDE DEF n
<1>4. \A x \in Objects : x \in U => n.heap[x] = m.heap[x] /\ Slice(n, x) = Slice(m, x)
  BY <1>2, SameObjectSameSlice
<1>5. \A x \in Objects : n.heap[x] # None =>
         x \in U /\ m.heap[x] # None /\ n.heap[x] = m.heap[x] /\ Slice(n, x) = Slice(m, x)
  BY <1>2, <1>4
<1>6. \A o \in Accounts : m.owners[o] # None =>
         /\ m.owners[o] \in Objects
         /\ n.heap[m.owners[o]] = m.heap[m.owners[o]]
         /\ Slice(n, n.owners[o]) = Slice(m, m.owners[o])
  BY <1>1, <1>4, OwnerFields
<1>7. \A k \in Keys : m.ref[k] # None =>
         /\ m.ref[k].object \in Objects
         /\ n.heap[m.ref[k].object] = m.heap[m.ref[k].object]
         /\ Claimant(n, k) = Claimant(m, k)
         /\ Gate(n, k) = Gate(m, k)
  BY <1>1, <1>4, RefFields DEF Claimant, Gate
<1>8. MemoryOK(n)
  <2>1. \A x \in Objects : n.heap[x] # None =>
           n.heap[x].length <= Len(n.heap[x].cells) /\ IsDistinct(Slice(n, x))
    BY <1>5 DEF MemoryOK
  <2>2. \A o \in Accounts : n.owners[o] # None =>
           n.heap[n.owners[o]] # None /\ n.heap[n.owners[o]].account = o
    BY <1>1, <1>6 DEF MemoryOK
  <2>3. \A k \in Keys : n.ref[k] # None =>
           /\ n.heap[n.ref[k].object] # None
           /\ n.ref[k].index <= Len(n.heap[n.ref[k].object].cells)
    BY <1>1, <1>7 DEF MemoryOK
  <2> QED BY <1>3, <2>1, <2>2, <2>3 DEF MemoryOK
<1>9. \A added : Claims(m, added) => Claims(n, added)
  <2> TAKE added
  <2> HAVE Claims(m, added)
  <2>1. \A x \in Objects : n.heap[x] # None =>
           LinkedKeys(Slice(n, x)) \subseteq added[n.heap[x].account]
    BY <1>5 DEF Claims
  <2>2. \A k \in Keys : n.ref[k] # None => k \in added[Claimant(n, k)]
    BY <1>1, <1>7 DEF Claims
  <2> QED BY <2>1, <2>2 DEF Claims
<1>10. \A o \in Accounts : RefsOwn(m, o) => RefsOwn(n, o)
  BY <1>1, <1>6, <1>7 DEF RefsOwn
<1>11. \A o \in Accounts : RefsExact(m, o) => RefsExact(n, o)
  BY <1>1, <1>7 DEF RefsExact
<1>12. \A o \in Accounts : \A added : RefsKept(m, o, added) => RefsKept(n, o, added)
  <2> SUFFICES ASSUME NEW o \in Accounts, NEW added, RefsKept(m, o, added), n.owners[o] # None,
                      NEW k \in LinkedKeys(Slice(n, n.owners[o])),
                      \A q \in Accounts \ {o} : k \notin added[q]
               PROVE  n.ref[k] # None /\ Claimant(n, k) = o
    BY DEF RefsKept
  <2>1. m.owners[o] # None /\ k \in LinkedKeys(Slice(m, m.owners[o]))
    BY <1>1, <1>6
  <2>2. k \in Keys
    BY <2>1, OwnerFields, SliceIs
  <2> QED BY <2>1, <2>2, <1>1, <1>7 DEF RefsKept
<1> QED BY <1>1, <1>4, <1>5, <1>6, <1>8, <1>9, <1>10, <1>11, <1>12 DEF Shows, n

-----------------------------------------------------------------------------
(* The operations on a server's memory.                                    *)

\* A decoded Owner is an object of its own, which nothing points to yet.
LEMMA DecodeIs ==
    ASSUME NEW m, MemoryOK(m), \E x \in Objects : m.heap[x] = None,
           NEW o \in Accounts, NEW keys \in Lists
    PROVE  LET x == NewObject(m)
               n == Decode(m, o, keys)
           IN
           /\ x \in Objects /\ m.heap[x] = None
           /\ MemoryOK(n) /\ n.owners = m.owners /\ n.ref = m.ref
           /\ n.heap[x] # None /\ n.heap[x].account = o /\ Slice(n, x) = keys
           /\ \A p \in Accounts : \A added : Apart(m, n, p, added)
           /\ \A added : Claims(m, added) /\ LinkedKeys(keys) \subseteq added[o] => Claims(n, added)
<1> DEFINE x == NewObject(m)
           n == Decode(m, o, keys)
           object == [account |-> o, cells |-> keys, length |-> Len(keys)]
<1>1. x \in Objects /\ m.heap[x] = None
  BY DEF NewObject
<1> HIDE DEF x
<1>2. keys \in Seq(Records) /\ Len(keys) \in Nat /\ object \in OwnerObjects /\ object # None
  BY NoneAssumption DEF Lists, OwnerObjects
<1>3. m \in Memories
  BY DEF MemoryOK
<1>4. n = [m EXCEPT !.heap = [m.heap EXCEPT ![x] = object]]
  BY <1>3 DEF Decode, x, Memories
<1>5. n.owners = m.owners /\ n.ref = m.ref /\ n.heap = [m.heap EXCEPT ![x] = object]
  BY <1>3, <1>4 DEF Memories
<1>6. n \in Memories
  BY <1>1, <1>2, <1>3, <1>4 DEF Memories
<1> HIDE DEF n
<1>7. n.heap[x] = object /\ \A y \in Objects : m.heap[y] # None => y # x /\ n.heap[y] = m.heap[y]
  BY <1>1, <1>3, <1>5 DEF Memories
<1>8. Slice(n, x) = keys
  <2>1. Slice(n, x) = SubSeq(keys, 1, Len(keys))
    BY <1>7 DEF Slice
  <2> QED BY <1>2, <2>1
<1>9. \A y \in Objects : n.heap[y] # None =>
         y = x \/ (m.heap[y] # None /\ n.heap[y] = m.heap[y] /\ Slice(n, y) = Slice(m, y))
  BY <1>1, <1>3, <1>5, SameObjectSameSlice DEF Memories
<1>10. \A k \in Keys : n.ref[k] # None =>
          /\ n.ref[k].object \in Objects /\ n.heap[n.ref[k].object] = m.heap[m.ref[k].object]
          /\ Claimant(n, k) = Claimant(m, k)
  BY <1>5, <1>7, RefFields DEF Claimant
<1>11. MemoryOK(n)
  <2>1. \A y \in Objects : n.heap[y] # None =>
           n.heap[y].length <= Len(n.heap[y].cells) /\ IsDistinct(Slice(n, y))
    BY <1>2, <1>7, <1>8, <1>9 DEF MemoryOK, Lists
  <2>2. \A p \in Accounts : n.owners[p] # None =>
           n.heap[n.owners[p]] # None /\ n.heap[n.owners[p]].account = p
    BY <1>5, <1>7, OwnerFields
  <2>3. \A k \in Keys : n.ref[k] # None =>
           /\ n.heap[n.ref[k].object] # None
           /\ n.ref[k].index <= Len(n.heap[n.ref[k].object].cells)
    BY <1>5, <1>10 DEF MemoryOK
  <2> QED BY <1>6, <2>1, <2>2, <2>3 DEF MemoryOK
<1>12. \A p \in Accounts : \A added : Apart(m, n, p, added)
  BY <1>5, <1>7 DEF Apart
<1>13. \A added : Claims(m, added) /\ LinkedKeys(keys) \subseteq added[o] => Claims(n, added)
  <2> TAKE added
  <2> HAVE Claims(m, added) /\ LinkedKeys(keys) \subseteq added[o]
  <2>1. \A y \in Objects : n.heap[y] # None =>
           LinkedKeys(Slice(n, y)) \subseteq added[n.heap[y].account]
    BY <1>7, <1>8, <1>9 DEF Claims
  <2>2. \A k \in Keys : n.ref[k] # None => k \in added[Claimant(n, k)]
    BY <1>5, <1>10 DEF Claims
  <2> QED BY <2>1, <2>2 DEF Claims
<1> QED BY <1>1, <1>2, <1>5, <1>7, <1>8, <1>11, <1>12, <1>13 DEF x, n

\* Save puts the refs of an account right, if they are about no other keys.
LEMMA SaveIs ==
    ASSUME NEW m, MemoryOK(m), NEW x \in Objects, m.heap[x] # None
    PROVE  LET o == m.heap[x].account
               n == Save(m, x)
           IN
           /\ o \in Accounts /\ MemoryOK(n) /\ n.heap = m.heap
           /\ n.owners = [m.owners EXCEPT ![o] = x]
           /\ \A y : Slice(n, y) = Slice(m, y)
           /\ \A added : Claims(m, added) =>
                 /\ Claims(n, added)
                 /\ \A p \in Accounts : p # o => Apart(m, n, p, added)
           /\ (\A k \in Keys : m.ref[k] # None /\ Claimant(m, k) = o => k \in LinkedKeys(Slice(m, x)))
                 => RefsExact(n, o) /\ \A added : Shows(n, o, added)
<1> DEFINE o == m.heap[x].account
           n == Save(m, x)
           keys == Slice(m, x)
           new == [k \in Keys |-> IF k \in LinkedKeys(keys)
                                  THEN [object |-> x, index |-> Position(keys, k)] ELSE m.ref[k]]
<1>1. m \in Memories /\ o \in Accounts
  BY ObjectFields DEF MemoryOK
<1>2. /\ keys \in Lists /\ LinkedKeys(keys) \subseteq Keys
      /\ DOMAIN keys = 1..m.heap[x].length /\ m.heap[x].length \in Nat
      /\ m.heap[x].length <= Len(m.heap[x].cells) /\ Len(m.heap[x].cells) \in Nat
      /\ \A j \in 1..m.heap[x].length : keys[j] = m.heap[x].cells[j]
  BY SliceIs, ObjectFields
<1>3. n = [m EXCEPT !.owners = [m.owners EXCEPT ![o] = x], !.ref = new]
  BY <1>1 DEF Save, Memories
<1>4. n.owners = [m.owners EXCEPT ![o] = x] /\ n.heap = m.heap /\ n.ref = new
  BY <1>1, <1>3 DEF Memories
<1>5. \A k \in LinkedKeys(keys) :
         /\ Position(keys, k) \in 1..m.heap[x].length
         /\ m.heap[x].cells[Position(keys, k)].key = k
  BY <1>2, PositionOfKey
<1>6. new \in [Keys -> Refs \cup {None}]
  <2>1. \A k \in LinkedKeys(keys) : [object |-> x, index |-> Position(keys, k)] \in Refs
    BY <1>2, <1>5 DEF Refs
  <2> QED BY <1>1, <2>1 DEF Memories
<1>7. \A k \in Keys : n.ref[k] = IF k \in LinkedKeys(keys)
                                 THEN [object |-> x, index |-> Position(keys, k)] ELSE m.ref[k]
  BY <1>4
<1> HIDE DEF n, new
<1>8. n \in Memories
  BY <1>1, <1>3, <1>6 DEF Memories
<1>9. \A y : Slice(n, y) = Slice(m, y)
  BY <1>4 DEF Slice
<1> HIDE DEF keys
<1>10. \A k \in Keys : k \in LinkedKeys(keys) =>
          n.ref[k] # None /\ n.ref[k].object = x /\ n.ref[k].index = Position(keys, k)
          /\ Claimant(n, k) = o
  <2> SUFFICES ASSUME NEW k \in Keys, k \in LinkedKeys(keys)
               PROVE  n.ref[k] # None /\ n.ref[k].object = x /\ n.ref[k].index = Position(keys, k)
                      /\ Claimant(n, k) = o
    OBVIOUS
  <2>1. n.ref[k] = [object |-> x, index |-> Position(keys, k)]
    BY <1>7
  <2>2. n.ref[k] \in Refs
    BY <1>2, <1>5, <2>1 DEF Refs
  <2> QED BY <1>4, <2>1, <2>2, NoneAssumption DEF Claimant
<1>11. \A k \in Keys : k \notin LinkedKeys(keys) => n.ref[k] = m.ref[k] /\ Claimant(n, k) = Claimant(m, k)
  BY <1>4, <1>7 DEF Claimant
<1>12. MemoryOK(n)
  <2>1. \A y \in Objects : n.heap[y] # None =>
           n.heap[y].length <= Len(n.heap[y].cells) /\ IsDistinct(Slice(n, y))
    BY <1>4, <1>9 DEF MemoryOK
  <2>2. \A p \in Accounts : n.owners[p] # None =>
           n.heap[n.owners[p]] # None /\ n.heap[n.owners[p]].account = p
    BY <1>1, <1>4 DEF MemoryOK, Memories
  <2>3. ASSUME NEW k \in Keys, n.ref[k] # None
        PROVE  /\ n.heap[n.ref[k].object] # None
               /\ n.ref[k].index <= Len(n.heap[n.ref[k].object].cells)
    <3>1. CASE k \in LinkedKeys(keys)
      BY <3>1, <1>2, <1>4, <1>5, <1>10
    <3>2. CASE k \notin LinkedKeys(keys)
      BY <2>3, <3>2, <1>4, <1>11 DEF MemoryOK
    <3> QED BY <3>1, <3>2
  <2> QED BY <1>8, <2>1, <2>2, <2>3 DEF MemoryOK
<1>13. ASSUME NEW added, Claims(m, added)
       PROVE  /\ Claims(n, added)
              /\ \A p \in Accounts : p # o => Apart(m, n, p, added)
  <2>1. LinkedKeys(keys) \subseteq added[o]
    BY <1>13 DEF Claims, keys
  <2>2. \A k \in Keys : n.ref[k] # None => k \in added[Claimant(n, k)]
    BY <2>1, <1>10, <1>11, <1>13 DEF Claims
  <2>3. Claims(n, added)
    BY <2>2, <1>4, <1>9, <1>13 DEF Claims
  <2>4. ASSUME NEW p \in Accounts, p # o PROVE Apart(m, n, p, added)
    <3>1. n.owners[p] = m.owners[p]
      BY <1>1, <1>4, <2>4 DEF Memories
    <3>2. ASSUME NEW k \in Keys
          PROVE  \/ n.ref[k] = m.ref[k]
                 \/ /\ n.ref[k] = None \/ Claimant(n, k) # p
                    /\ \E q \in Accounts \ {p} : k \in added[q]
      BY <1>1, <1>10, <1>11, <2>1, <2>4
    <3> QED BY <3>1, <3>2, <1>4 DEF Apart
  <2> QED BY <2>3, <2>4
<1>14. ASSUME \A k \in Keys : m.ref[k] # None /\ Claimant(m, k) = o => k \in LinkedKeys(keys)
       PROVE  RefsExact(n, o) /\ \A added : Shows(n, o, added)
  <2>1. n.owners[o] = x /\ x # None
    BY <1>1, <1>4, NoneAssumption DEF Memories
  <2>2. \A k \in Keys : n.ref[k] # None /\ Claimant(n, k) = o => k \in LinkedKeys(keys)
    BY <1>11, <1>14
  <2>3. RefsOwn(n, o)
    BY <2>1, <2>2, <1>9, <1>10 DEF RefsOwn, keys
  <2>4. RefsExact(n, o)
    BY <2>2, <1>2, <1>4, <1>5, <1>10 DEF RefsExact, Gate
  <2>5. \A added : RefsKept(n, o, added)
    BY <2>1, <1>2, <1>9, <1>10 DEF RefsKept, keys
  <2> QED BY <2>3, <2>4, <2>5 DEF Shows
<1> QED BY <1>1, <1>4, <1>9, <1>12, <1>13, <1>14 DEF n, keys

\* An operation that changes the keys of one object of account o, and the ref
\* of one key.
OneObject(m, n, x, k) ==
    /\ n \in Memories /\ n.owners = m.owners
    /\ \A y \in Objects : y # x => n.heap[y] = m.heap[y]
    /\ n.heap[x] # None /\ n.heap[x].account = m.heap[x].account
    /\ n.heap[x].length <= Len(n.heap[x].cells)
    /\ Len(m.heap[x].cells) <= Len(n.heap[x].cells)
    /\ IsDistinct(Slice(n, x))
    /\ \A l \in Keys : l # k => n.ref[l] = m.ref[l]
    /\ n.ref[k] # None => /\ n.heap[n.ref[k].object] # None
                          /\ n.ref[k].index <= Len(n.heap[n.ref[k].object].cells)

LEMMA ObjectChanges ==
    ASSUME NEW m, MemoryOK(m), NEW x \in Objects, m.heap[x] # None, NEW k \in Keys,
           NEW n, OneObject(m, n, x, k)
    PROVE  LET o == m.heap[x].account IN
           /\ MemoryOK(n)
           /\ \A y \in Objects : m.heap[y] # None =>
                 n.heap[y] # None /\ n.heap[y].account = m.heap[y].account
           /\ \A l \in Keys : l # k /\ m.ref[l] # None => Claimant(n, l) = Claimant(m, l)
           /\ \A added : Claims(m, added) /\ LinkedKeys(Slice(n, x)) \subseteq added[o]
                         /\ (n.ref[k] # None => k \in added[Claimant(n, k)]) => Claims(n, added)
           /\ \A p \in Accounts : \A added :
                 /\ p # o
                 /\ \/ n.ref[k] = m.ref[k]
                    \/ (n.ref[k] = None \/ Claimant(n, k) # p) /\ k \in added[o]
                 => Apart(m, n, p, added)
<1> DEFINE o == m.heap[x].account
<1>1. m \in Memories /\ o \in Accounts
  BY ObjectFields DEF MemoryOK
<1>2. /\ n.owners = m.owners /\ n \in Memories
      /\ \A l \in Keys : l # k => n.ref[l] = m.ref[l]
      /\ n.heap[x] # None /\ n.heap[x].account = o
      /\ Len(m.heap[x].cells) <= Len(n.heap[x].cells)
  BY DEF OneObject
<1>3. \A y \in Objects : y # x => n.heap[y] = m.heap[y] /\ Slice(n, y) = Slice(m, y)
  BY SameObjectSameSlice DEF OneObject
<1>4. \A y \in Objects : m.heap[y] # None =>
         /\ n.heap[y] # None /\ n.heap[y].account = m.heap[y].account
         /\ Len(m.heap[y].cells) <= Len(n.heap[y].cells)
  BY <1>2, <1>3, ObjectFields
<1>5. \A l \in Keys : m.ref[l] # None =>
         /\ m.ref[l].object \in Objects /\ m.heap[m.ref[l].object] # None
         /\ n.heap[m.ref[l].object] # None
         /\ m.ref[l].index <= Len(n.heap[m.ref[l].object].cells)
  <2> SUFFICES ASSUME NEW l \in Keys, m.ref[l] # None
               PROVE  /\ m.ref[l].object \in Objects /\ m.heap[m.ref[l].object] # None
                      /\ n.heap[m.ref[l].object] # None
                      /\ m.ref[l].index <= Len(n.heap[m.ref[l].object].cells)
    OBVIOUS
  <2>1. m.ref[l].object \in Objects /\ m.heap[m.ref[l].object] # None
        /\ m.ref[l].index \in 1..Len(m.heap[m.ref[l].object].cells)
    BY RefFields
  <2>2. CASE m.ref[l].object = x
    <3>1. n.heap[x].cells \in Seq(Records) /\ m.heap[x].cells \in Seq(Records)
      BY <1>1, <1>2 DEF Memories, OwnerObjects
    <3> QED BY <3>1, <2>1, <2>2, <1>2
  <2>3. CASE m.ref[l].object # x
    BY <2>1, <2>3, <1>3
  <2> QED BY <2>1, <2>2, <2>3, <1>4
<1>6. \A l \in Keys : l # k /\ m.ref[l] # None => Claimant(n, l) = Claimant(m, l)
  BY <1>2, <1>4, <1>5 DEF Claimant
<1>7. MemoryOK(n)
  <2>1. \A y \in Objects : n.heap[y] # None =>
           n.heap[y].length <= Len(n.heap[y].cells) /\ IsDistinct(Slice(n, y))
    BY <1>3 DEF MemoryOK, OneObject
  <2>2. \A p \in Accounts : n.owners[p] # None =>
           n.heap[n.owners[p]] # None /\ n.heap[n.owners[p]].account = p
    BY <1>2, <1>4, OwnerFields
  <2>3. \A l \in Keys : n.ref[l] # None =>
           /\ n.heap[n.ref[l].object] # None
           /\ n.ref[l].index <= Len(n.heap[n.ref[l].object].cells)
    BY <1>2, <1>5 DEF OneObject
  <2> QED BY <1>2, <2>1, <2>2, <2>3 DEF MemoryOK
<1>8. ASSUME NEW added, Claims(m, added), LinkedKeys(Slice(n, x)) \subseteq added[o],
             n.ref[k] # None => k \in added[Claimant(n, k)]
      PROVE  Claims(n, added)
  <2>1. \A y \in Objects : n.heap[y] # None =>
           LinkedKeys(Slice(n, y)) \subseteq added[n.heap[y].account]
    BY <1>2, <1>3, <1>8 DEF Claims
  <2>2. \A l \in Keys : n.ref[l] # None => l \in added[Claimant(n, l)]
    BY <1>2, <1>6, <1>8 DEF Claims
  <2> QED BY <2>1, <2>2 DEF Claims
<1>9. ASSUME NEW p \in Accounts, NEW added, p # o,
             \/ n.ref[k] = m.ref[k]
             \/ (n.ref[k] = None \/ Claimant(n, k) # p) /\ k \in added[o]
      PROVE  Apart(m, n, p, added)
  <2>1. \A y \in Objects : m.heap[y] # None =>
           /\ n.heap[y] # None /\ n.heap[y].account = m.heap[y].account
           /\ m.heap[y].account = p => n.heap[y] = m.heap[y]
    BY <1>3, <1>4, <1>9
  <2>2. \A l \in Keys :
           \/ n.ref[l] = m.ref[l]
           \/ /\ n.ref[l] = None \/ Claimant(n, l) # p
              /\ \E q \in Accounts \ {p} : l \in added[q]
    BY <1>1, <1>2, <1>9
  <2> QED BY <1>2, <2>1, <2>2 DEF Apart
<1> QED BY <1>4, <1>6, <1>7, <1>8, <1>9

NewRecord(k) == [key |-> k, status |-> "active", permission |-> FALSE]

\* append writes behind the slice.
Appended(cells, n, r) ==
    IF n + 1 <= Len(cells) THEN [cells EXCEPT ![n + 1] = r] ELSE Append(cells, r)

LEMMA AppendedCells ==
    ASSUME NEW cells \in Seq(Records), NEW n \in Nat, n <= Len(cells), NEW r \in Records
    PROVE  LET new == Appended(cells, n, r) IN
           /\ new \in Seq(Records) /\ Len(new) \in Nat
           /\ n + 1 <= Len(new) /\ Len(cells) <= Len(new) /\ Len(cells) \in Nat
           /\ new[n + 1] = r
           /\ \A j \in 1..n : new[j] = cells[j]
<1>1. CASE n + 1 <= Len(cells)
  <2>1. /\ [cells EXCEPT ![n + 1] = r] \in Seq(Records)
        /\ Len([cells EXCEPT ![n + 1] = r]) = Len(cells)
    BY <1>1, ExceptSeq
  <2> QED BY <1>1, <2>1 DEF Appended
<1>2. CASE ~(n + 1 <= Len(cells))
  <2>1. n = Len(cells)
    BY <1>2
  <2> QED BY <1>2, <2>1 DEF Appended
<1> QED BY <1>1, <1>2

\* No object leaves the memory or changes hands.
ObjectsStay(m, n) ==
    \A y \in Objects : m.heap[y] # None => n.heap[y] # None /\ n.heap[y].account = m.heap[y].account

With(f, k, record) == [f EXCEPT ![k] = record]

LEMMA LinkIs ==
    ASSUME NEW m, MemoryOK(m), NEW o \in Accounts, m.owners[o] # None,
           NEW k \in Keys, k \notin LinkedKeys(Slice(m, m.owners[o]))
    PROVE  LET x == m.owners[o]
               n == Link(m, x, k)
           IN
           /\ MemoryOK(n) /\ n.owners = m.owners
           /\ ObjectsStay(m, n)
           /\ Listed(Slice(n, x)) = With(Listed(Slice(m, x)), k, NewRecord(k))
           /\ RefsOwn(m, o) => RefsOwn(n, o)
           /\ RefsOwn(m, o) /\ RefsExact(m, o) => RefsExact(n, o)
           /\ \A added : RefsKept(m, o, added) => RefsKept(n, o, added)
           /\ \A added : Claims(m, added) /\ k \in added[o] =>
                 Claims(n, added) /\ \A p \in Accounts : p # o => Apart(m, n, p, added)
<1> DEFINE x == m.owners[o]
           n == Link(m, x, k)
           keys == Slice(m, x)
           len == m.heap[x].length
           cells == m.heap[x].cells
           new == Appended(cells, len, NewRecord(k))
           object == [account |-> o, length |-> len + 1, cells |-> new]
           r == [m.ref EXCEPT ![k] = [object |-> x, index |-> len + 1]]
<1>1. /\ m \in Memories /\ x \in Objects /\ m.heap[x] # None /\ m.heap[x].account = o
      /\ cells \in Seq(Records) /\ len \in Nat /\ len <= Len(cells) /\ Len(cells) \in Nat
      /\ m.heap[x].cells = cells /\ m.heap[x].length = len /\ m.owners[o] = x
      /\ k \notin LinkedKeys(keys)
  BY OwnerFields, ObjectFields DEF MemoryOK
<1>2. /\ keys \in Lists /\ LinkedKeys(keys) \subseteq Keys /\ DOMAIN keys = 1..len /\ Len(keys) = len
      /\ \A j \in 1..len : keys[j] = cells[j]
  BY <1>1, SliceIs
<1>3. NewRecord(k) \in Records
  BY DEF NewRecord, Records
<1>4. /\ new \in Seq(Records) /\ Len(new) \in Nat
      /\ len + 1 <= Len(new) /\ Len(cells) <= Len(new)
      /\ new[len + 1] = NewRecord(k)
      /\ \A j \in 1..len : new[j] = cells[j]
  <2> HIDE DEF n, keys, x, len, cells
  <2>1. PICK record : record = NewRecord(k)
    OBVIOUS
  <2>2. LET c == Appended(cells, len, record) IN
        /\ c \in Seq(Records) /\ Len(c) \in Nat /\ len + 1 <= Len(c) /\ Len(cells) <= Len(c)
        /\ c[len + 1] = record
        /\ \A j \in 1..len : c[j] = cells[j]
    <3>1. cells \in Seq(Records) /\ len \in Nat /\ len <= Len(cells) /\ record \in Records
      BY <2>1, <1>1, <1>3
    <3> QED BY <3>1, AppendedCells
  <2> QED BY <2>1, <2>2
<1>5. n = [owners |-> m.owners, heap |-> [m.heap EXCEPT ![x] = object], ref |-> r]
  <2>1. n = [m EXCEPT !.heap = [m.heap EXCEPT ![x] = object], !.ref = r]
    BY <1>1 DEF Link, NewRecord, Memories, Appended
  <2> QED BY <1>1, <2>1 DEF Memories
<1> HIDE DEF n, keys, new, x, len, cells
<1>6. object \in OwnerObjects /\ object.account = o /\ object.length = len + 1 /\ object.cells = new
  BY <1>1, <1>4 DEF OwnerObjects
<1>7. /\ r \in [Keys -> Refs \cup {None}] /\ \A l \in Keys : l # k => r[l] = m.ref[l]
      /\ r[k] # None /\ r[k].object = x /\ r[k].index = len + 1
  <2>1. [object |-> x, index |-> len + 1] \in Refs
    BY <1>1 DEF Refs
  <2> QED BY <1>1, <2>1, NoneAssumption DEF Memories
<1> HIDE DEF object, r
<1>8. n.heap[x] = object /\ n.heap[x] # None /\ n.ref = r
  BY <1>1, <1>5, <1>6, NoneAssumption DEF Memories
<1>9. /\ Slice(n, x) \in Seq(Records) /\ Len(Slice(n, x)) = len + 1 /\ DOMAIN Slice(n, x) = 1..(len + 1)
      /\ \A j \in 1..len : Slice(n, x)[j] = keys[j]
      /\ Slice(n, x)[len + 1] = NewRecord(k)
  <2>1. Slice(n, x) = SubSeq(new, 1, len + 1)
    BY <1>6, <1>8 DEF Slice
  <2>2. len + 1 \in Nat /\ 1 <= len + 1
    BY <1>1
  <2>3. /\ SubSeq(new, 1, len + 1) \in Seq(Records)
        /\ Len(SubSeq(new, 1, len + 1)) = len + 1
        /\ \A j \in 1..(len + 1) : SubSeq(new, 1, len + 1)[j] = new[j]
    BY <2>2, <1>4
  <2> QED BY <2>1, <2>2, <2>3, <1>1, <1>2, <1>4
<1>10. IsDistinct(Slice(n, x))
  <2>1. \A j \in 1..len : keys[j].key # k
    BY <1>1, <1>2 DEF LinkedKeys
  <2> SUFFICES ASSUME NEW j \in 1..(len + 1), NEW l \in 1..(len + 1),
                      Slice(n, x)[j].key = Slice(n, x)[l].key
               PROVE  j = l
    BY <1>9 DEF IsDistinct
  <2>2. NewRecord(k).key = k
    BY DEF NewRecord
  <2>3. CASE j = len + 1 \/ l = len + 1
    BY <1>1, <1>9, <2>1, <2>2, <2>3
  <2>4. CASE j \in 1..len /\ l \in 1..len
    BY <1>2, <1>9, <2>4 DEF Lists, IsDistinct
  <2> QED BY <1>1, <2>3, <2>4
<1>11. LinkedKeys(Slice(n, x)) = LinkedKeys(keys) \cup {k}
  <2>1. NewRecord(k).key = k
    BY DEF NewRecord
  <2> QED BY <1>1, <1>2, <1>9, <2>1 DEF LinkedKeys
<1>12. Listed(Slice(n, x)) = [Listed(keys) EXCEPT ![k] = NewRecord(k)]
  <2> DEFINE f == [Listed(keys) EXCEPT ![k] = NewRecord(k)]
  <2>1. f \in [Keys -> Records \cup {None}]
    BY <1>2, <1>3, ListedEntries
  <2>2. Slice(n, x) \in Lists
    BY <1>9, <1>10 DEF Lists
  <2>3. ASSUME NEW j \in 1..(len + 1) PROVE f[Slice(n, x)[j].key] = Slice(n, x)[j]
    <3>1. CASE j = len + 1
      <4>1. Slice(n, x)[j] = NewRecord(k) /\ NewRecord(k).key = k
        BY <3>1, <1>9 DEF NewRecord
      <4> QED BY <4>1, <1>2, ListedEntries
    <3>2. CASE j \in 1..len
      <4>1. keys[j].key # k /\ keys[j].key \in Keys /\ Listed(keys)[keys[j].key] = keys[j]
        BY <3>2, <1>1, <1>2, ListedEntries DEF LinkedKeys
      <4> QED BY <3>2, <4>1, <1>2, <1>9, ListedEntries
    <3> QED BY <1>1, <3>1, <3>2
  <2>4. ASSUME NEW l \in Keys, f[l] # None PROVE l \in LinkedKeys(Slice(n, x))
    BY <2>4, <1>2, <1>11, ListedEntries
  <2> HIDE DEF f
  <2>5. Listed(Slice(n, x)) = f
    BY <2>1, <2>2, <2>3, <2>4, <1>9, ListedIs
  <2> QED BY <2>5 DEF f
<1>13. OneObject(m, n, x, k)
  <2>1. n \in Memories /\ n.owners = m.owners /\ \A y \in Objects : y # x => n.heap[y] = m.heap[y]
    BY <1>1, <1>5, <1>6, <1>7 DEF Memories
  <2> QED BY <2>1, <1>1, <1>4, <1>6, <1>7, <1>8, <1>10 DEF OneObject
<1>14. Claimant(n, k) = o
  BY <1>6, <1>7, <1>8 DEF Claimant
<1>15. /\ MemoryOK(n) /\ n.owners = m.owners
       /\ \A y \in Objects : m.heap[y] # None =>
             n.heap[y] # None /\ n.heap[y].account = m.heap[y].account
       /\ \A l \in Keys : l # k /\ m.ref[l] # None => Claimant(n, l) = Claimant(m, l)
       /\ \A added : Claims(m, added) /\ LinkedKeys(Slice(n, x)) \subseteq added[o] /\ k \in added[o]
                        => Claims(n, added)
       /\ \A p \in Accounts : \A added : p # o /\ k \in added[o] => Apart(m, n, p, added)
  BY <1>1, <1>13, <1>14, ObjectChanges DEF OneObject
<1>16. RefsOwn(m, o) => RefsOwn(n, o)
  BY <1>1, <1>2, <1>7, <1>8, <1>11, <1>14, <1>15 DEF RefsOwn, keys
<1>17. ASSUME RefsOwn(m, o), RefsExact(m, o) PROVE RefsExact(n, o)
  <2> SUFFICES ASSUME NEW l \in Keys, n.ref[l] # None, Claimant(n, l) = o
               PROVE  n.ref[l].index <= n.heap[n.ref[l].object].length /\ Gate(n, l).key = l
    BY DEF RefsExact
  <2>1. CASE l = k
    BY <2>1, <1>1, <1>4, <1>6, <1>7, <1>8 DEF Gate, NewRecord
  <2>2. CASE l # k
    <3>1. m.ref[l] = n.ref[l] /\ m.ref[l] # None /\ Claimant(m, l) = o
      BY <2>2, <1>7, <1>8, <1>15
    <3>2. m.ref[l].object = x /\ m.ref[l].index <= len /\ cells[m.ref[l].index].key = l
          /\ m.ref[l].index \in 1..Len(cells)
      BY <3>1, <1>1, <1>17, RefFields DEF RefsOwn, RefsExact, Gate
    <3> QED BY <3>1, <3>2, <1>1, <1>4, <1>6, <1>8 DEF Gate
  <2> QED BY <2>1, <2>2
<1>18. ASSUME NEW added, RefsKept(m, o, added) PROVE RefsKept(n, o, added)
  <2> SUFFICES ASSUME NEW l \in LinkedKeys(Slice(n, x)), \A p \in Accounts \ {o} : l \notin added[p]
               PROVE  n.ref[l] # None /\ Claimant(n, l) = o
    BY <1>1, <1>15 DEF RefsKept
  <2>1. CASE l = k
    BY <2>1, <1>7, <1>8, <1>14
  <2>2. CASE l # k
    <3>1. l \in LinkedKeys(keys) /\ l \in Keys
      BY <2>2, <1>2, <1>11
    <3>2. m.ref[l] # None /\ Claimant(m, l) = o
      BY <3>1, <1>1, <1>18, NoneAssumption DEF RefsKept, keys
    <3> QED BY <2>2, <3>1, <3>2, <1>7, <1>8, <1>15
  <2> QED BY <2>1, <2>2
<1>19. ASSUME NEW added, Claims(m, added), k \in added[o]
       PROVE  Claims(n, added) /\ \A p \in Accounts : p # o => Apart(m, n, p, added)
  <2>1. LinkedKeys(keys) \subseteq added[o]
    BY <1>1, <1>19 DEF Claims, keys
  <2> QED BY <2>1, <1>11, <1>14, <1>15, <1>19
<1> QED BY <1>12, <1>15, <1>16, <1>17, <1>18, <1>19 DEF n, keys, x, With, ObjectsStay

LEMMA UnlinkIs ==
    ASSUME NEW m, MemoryOK(m), NEW o \in Accounts, m.owners[o] # None,
           NEW k \in Keys, k \in LinkedKeys(Slice(m, m.owners[o]))
    PROVE  LET x == m.owners[o]
               n == Unlink(m, x, k)
           IN
           /\ MemoryOK(n) /\ n.owners = m.owners
           /\ ObjectsStay(m, n)
           /\ Listed(Slice(n, x)) = With(Listed(Slice(m, x)), k, None)
           /\ RefsOwn(m, o) => RefsOwn(n, o)
           /\ \A added : RefsKept(m, o, added) => RefsKept(n, o, added)
           /\ \A added : Claims(m, added) =>
                 Claims(n, added) /\ \A p \in Accounts : p # o => Apart(m, n, p, added)
<1> DEFINE x == m.owners[o]
           n == Unlink(m, x, k)
           keys == Slice(m, x)
           len == m.heap[x].length
           cells == m.heap[x].cells
           at == Position(keys, k)
           new == [j \in DOMAIN cells |-> IF at <= j /\ j < len THEN cells[j + 1] ELSE cells[j]]
           object == [account |-> o, length |-> len - 1, cells |-> new]
           r == [m.ref EXCEPT ![k] = None]
<1>1. /\ m \in Memories /\ x \in Objects /\ m.heap[x] # None /\ m.heap[x].account = o
      /\ cells \in Seq(Records) /\ len \in Nat /\ len <= Len(cells) /\ Len(cells) \in Nat
      /\ m.heap[x].cells = cells /\ m.heap[x].length = len /\ m.owners[o] = x
      /\ k \in LinkedKeys(keys)
  BY OwnerFields, ObjectFields DEF MemoryOK
<1>2. /\ keys \in Lists /\ LinkedKeys(keys) \subseteq Keys /\ DOMAIN keys = 1..len /\ Len(keys) = len
      /\ \A j \in 1..len : keys[j] = cells[j]
  BY <1>1, SliceIs
<1>3. at \in 1..len /\ keys[at].key = k
  BY <1>1, <1>2, PositionOfKey
<1>4. n = [owners |-> m.owners, heap |-> [m.heap EXCEPT ![x] = object], ref |-> r]
  <2>1. n = [m EXCEPT !.heap = [m.heap EXCEPT ![x] = object], !.ref = r]
    BY <1>1 DEF Unlink, Memories
  <2> QED BY <1>1, <2>1 DEF Memories
<1> HIDE DEF n, keys, x, len, cells, at
<1>5. /\ new \in Seq(Records) /\ Len(new) = Len(cells)
      /\ \A j \in 1..(len - 1) : new[j] = IF at <= j THEN cells[j + 1] ELSE cells[j]
  <2>1. DOMAIN cells = 1..Len(cells) /\ \A j \in 1..Len(cells) : cells[j] \in Records
    BY <1>1
  <2>2. \A j \in 1..Len(cells) : new[j] \in Records
    BY <1>1, <1>3, <2>1
  <2>3. new \in [1..Len(cells) -> Records]
    BY <2>1, <2>2
  <2>4. \A j \in 1..(len - 1) : j \in DOMAIN cells /\ j < len
    BY <1>1, <2>1
  <2> QED BY <1>1, <2>1, <2>3, <2>4
<1>6. len - 1 \in Nat /\ len - 1 <= Len(new) /\ len - 1 < len
  BY <1>1, <1>3, <1>5
<1> HIDE DEF new
<1>7. object \in OwnerObjects /\ object.account = o /\ object.length = len - 1 /\ object.cells = new
  BY <1>1, <1>5, <1>6 DEF OwnerObjects
<1>8. r \in [Keys -> Refs \cup {None}] /\ r[k] = None /\ \A l \in Keys : l # k => r[l] = m.ref[l]
  BY <1>1 DEF Memories
<1> HIDE DEF object, r
<1>9. n.heap[x] = object /\ n.heap[x] # None /\ n.ref = r
  BY <1>1, <1>4, <1>7, NoneAssumption DEF Memories
<1>10. /\ Slice(n, x) \in Seq(Records) /\ Len(Slice(n, x)) = len - 1
       /\ DOMAIN Slice(n, x) = 1..(len - 1)
       /\ \A j \in 1..(len - 1) : Slice(n, x)[j] = keys[IF at <= j THEN j + 1 ELSE j]
  <2>1. Slice(n, x) = SubSeq(new, 1, len - 1)
    BY <1>7, <1>9 DEF Slice
  <2>2. /\ SubSeq(new, 1, len - 1) \in Seq(Records)
        /\ Len(SubSeq(new, 1, len - 1)) = len - 1
        /\ \A j \in 1..(len - 1) : SubSeq(new, 1, len - 1)[j] = new[j]
    BY <1>5, <1>6
  <2>3. \A j \in 1..(len - 1) : new[j] = keys[IF at <= j THEN j + 1 ELSE j]
    BY <1>1, <1>2, <1>5, <1>6
  <2> QED BY <2>1, <2>2, <2>3, <1>6
<1>11. \A j \in 1..len : j # at => keys[j].key # k
  BY <1>2, <1>3 DEF Lists, IsDistinct
<1>12. /\ IsDistinct(Slice(n, x))
       /\ \A j \in 1..(len - 1) : /\ Slice(n, x)[j].key # k /\ Slice(n, x)[j].key \in Keys
                                  /\ Listed(keys)[Slice(n, x)[j].key] = Slice(n, x)[j]
  <2> DEFINE f(j) == IF at <= j THEN j + 1 ELSE j
  <2>1. \A j \in 1..(len - 1) : f(j) \in 1..len /\ f(j) # at /\ Slice(n, x)[j] = keys[f(j)]
    BY <1>1, <1>3, <1>10
  <2>2. \A j, l \in 1..(len - 1) : f(j) = f(l) => j = l
    BY <1>1, <1>3
  <2> HIDE DEF f
  <2>3. IsDistinct(Slice(n, x))
    BY <2>1, <2>2, <1>2, <1>10 DEF IsDistinct, Lists
  <2> QED BY <2>1, <2>3, <1>2, <1>11, ListedEntries, PositionIsUnique
<1>13. LinkedKeys(Slice(n, x)) = LinkedKeys(keys) \ {k}
  <2>1. LinkedKeys(Slice(n, x)) \subseteq LinkedKeys(keys) \ {k}
    <3> SUFFICES ASSUME NEW j \in 1..(len - 1) PROVE Slice(n, x)[j].key \in LinkedKeys(keys) \ {k}
      BY <1>10 DEF LinkedKeys
    <3>1. (IF at <= j THEN j + 1 ELSE j) \in 1..len
      BY <1>1, <1>3
    <3> QED BY <3>1, <1>2, <1>10, <1>12 DEF LinkedKeys
  <2>2. ASSUME NEW l \in LinkedKeys(keys), l # k PROVE l \in LinkedKeys(Slice(n, x))
    <3>1. PICK j \in 1..len : keys[j].key = l
      BY <2>2, <1>2 DEF LinkedKeys
    <3>2. j # at
      BY <2>2, <3>1, <1>3
    <3>3. CASE j < at
      <4>1. j \in 1..(len - 1) /\ ~(at <= j)
        BY <3>3, <1>1, <1>3
      <4> QED BY <3>1, <4>1, <1>10 DEF LinkedKeys
    <3>4. CASE at < j
      <4>1. j - 1 \in 1..(len - 1) /\ at <= j - 1 /\ (j - 1) + 1 = j
        BY <3>4, <1>1, <1>3
      <4> QED BY <3>1, <4>1, <1>10 DEF LinkedKeys
    <3> QED BY <3>2, <3>3, <3>4, <1>1, <1>3
  <2> QED BY <2>1, <2>2
<1>14. Listed(Slice(n, x)) = [Listed(keys) EXCEPT ![k] = None]
  <2> DEFINE f == [Listed(keys) EXCEPT ![k] = None]
  <2>1. f \in [Keys -> Records \cup {None}] /\ f[k] = None /\ \A l \in Keys : l # k => f[l] = Listed(keys)[l]
    BY <1>2, ListedEntries
  <2>2. Slice(n, x) \in Lists
    BY <1>10, <1>12 DEF Lists
  <2> HIDE DEF f
  <2>3. \A j \in 1..(len - 1) : f[Slice(n, x)[j].key] = Slice(n, x)[j]
    BY <2>1, <1>12
  <2>4. ASSUME NEW l \in Keys, f[l] # None PROVE l \in LinkedKeys(Slice(n, x))
    BY <2>1, <2>4, <1>2, <1>13, ListedEntries
  <2>5. Listed(Slice(n, x)) = f
    BY <2>1, <2>2, <2>3, <2>4, <1>10, ListedIs
  <2> QED BY <2>5 DEF f
<1>15. OneObject(m, n, x, k)
  <2>1. n \in Memories /\ n.owners = m.owners /\ \A y \in Objects : y # x => n.heap[y] = m.heap[y]
    BY <1>1, <1>4, <1>7, <1>8 DEF Memories
  <2> QED BY <2>1, <1>1, <1>5, <1>6, <1>7, <1>8, <1>9, <1>12 DEF OneObject
<1>16. /\ MemoryOK(n) /\ n.owners = m.owners /\ n.ref[k] = None
       /\ \A y \in Objects : m.heap[y] # None =>
             n.heap[y] # None /\ n.heap[y].account = m.heap[y].account
       /\ \A l \in Keys : l # k /\ m.ref[l] # None => Claimant(n, l) = Claimant(m, l)
       /\ \A added : Claims(m, added) /\ LinkedKeys(Slice(n, x)) \subseteq added[o] => Claims(n, added)
       /\ \A p \in Accounts : \A added : p # o /\ k \in added[o] => Apart(m, n, p, added)
  <2>1. n.ref[k] = None /\ n.owners = m.owners
    BY <1>8, <1>9, <1>15 DEF OneObject
  <2>2. /\ MemoryOK(n)
        /\ \A y \in Objects : m.heap[y] # None =>
              n.heap[y] # None /\ n.heap[y].account = m.heap[y].account
        /\ \A l \in Keys : l # k /\ m.ref[l] # None => Claimant(n, l) = Claimant(m, l)
    BY <1>1, <1>15, ObjectChanges
  <2>3. ASSUME NEW added
        PROVE  /\ Claims(m, added) /\ LinkedKeys(Slice(n, x)) \subseteq added[o] => Claims(n, added)
               /\ \A p \in Accounts : p # o /\ k \in added[o] => Apart(m, n, p, added)
    BY <2>1, <1>1, <1>15, ObjectChanges
  <2> QED BY <2>1, <2>2, <2>3
<1>17. RefsOwn(m, o) => RefsOwn(n, o)
  BY <1>1, <1>2, <1>8, <1>9, <1>13, <1>16 DEF RefsOwn, keys
<1>18. ASSUME NEW added, RefsKept(m, o, added) PROVE RefsKept(n, o, added)
  <2> SUFFICES ASSUME NEW l \in LinkedKeys(Slice(n, x)), \A p \in Accounts \ {o} : l \notin added[p]
               PROVE  n.ref[l] # None /\ Claimant(n, l) = o
    BY <1>1, <1>16 DEF RefsKept
  <2>1. l \in LinkedKeys(keys) /\ l \in Keys /\ l # k
    BY <1>2, <1>13
  <2>2. m.ref[l] # None /\ Claimant(m, l) = o
    BY <2>1, <1>1, <1>18, NoneAssumption DEF RefsKept, keys
  <2> QED BY <2>1, <2>2, <1>8, <1>9, <1>16
<1>19. ASSUME NEW added, Claims(m, added)
       PROVE  Claims(n, added) /\ \A p \in Accounts : p # o => Apart(m, n, p, added)
  <2>1. LinkedKeys(keys) \subseteq added[o]
    BY <1>1, <1>19 DEF Claims, keys
  <2> QED BY <2>1, <1>1, <1>13, <1>16, <1>19
<1> QED BY <1>14, <1>16, <1>17, <1>18, <1>19 DEF n, keys, x, With, ObjectsStay

LEMMA ChangedRecord ==
    ASSUME NEW r \in Records, NEW kind
    PROVE  Changed(r, kind) \in Records /\ Changed(r, kind).key = r.key
BY DEF Changed, Records

LEMMA ChangeIs ==
    ASSUME NEW m, MemoryOK(m), NEW k \in Keys, m.ref[k] # None, NEW kind
    PROVE  LET o == Claimant(m, k)
               n == Change(m, k, kind)
           IN
           /\ MemoryOK(n) /\ n.owners = m.owners
           /\ ObjectsStay(m, n)
           /\ RefsOwn(m, o) /\ RefsExact(m, o) =>
                 LET f == Listed(Slice(m, m.owners[o])) IN
                 f[k] # None /\ Listed(Slice(n, m.owners[o])) = With(f, k, Changed(f[k], kind))
           /\ RefsOwn(m, o) => RefsOwn(n, o)
           /\ RefsExact(m, o) => RefsExact(n, o)
           /\ \A added : RefsKept(m, o, added) => RefsKept(n, o, added)
           /\ \A added : Claims(m, added) =>
                 Claims(n, added) /\ \A p \in Accounts : p # o => Apart(m, n, p, added)
<1> DEFINE o == Claimant(m, k)
           n == Change(m, k, kind)
           x == m.ref[k].object
           at == m.ref[k].index
           keys == Slice(m, x)
           len == m.heap[x].length
           cells == m.heap[x].cells
           new == [cells EXCEPT ![at] = Changed(@, kind)]
           object == [account |-> o, length |-> len, cells |-> new]
<1>1. /\ m \in Memories /\ x \in Objects /\ m.heap[x] # None /\ m.heap[x].account = o /\ o \in Accounts
      /\ m.ref[k].object = x /\ m.ref[k].index = at /\ at \in 1..Len(cells)
      /\ cells \in Seq(Records) /\ len \in Nat /\ len <= Len(cells) /\ Len(cells) \in Nat
      /\ m.heap[x].cells = cells /\ m.heap[x].length = len
      /\ m.heap[x] = [account |-> o, cells |-> cells, length |-> len]
  <2>1. x \in Objects /\ m.heap[x] # None /\ o \in Accounts /\ at \in 1..Len(cells)
    BY RefFields
  <2> QED BY <2>1, ObjectFields DEF MemoryOK, Claimant
<1>2. /\ keys \in Lists /\ DOMAIN keys = 1..len /\ Len(keys) = len
      /\ \A j \in 1..len : keys[j] = cells[j]
  BY <1>1, SliceIs
<1>3. n = [owners |-> m.owners, heap |-> [m.heap EXCEPT ![x] = object], ref |-> m.ref]
  <2>1. n = [m EXCEPT !.heap = [m.heap EXCEPT ![x] = [m.heap[x] EXCEPT !.cells = new]]]
    BY <1>1 DEF Change, Memories
  <2>2. [m.heap[x] EXCEPT !.cells = new] = object
    <3> HIDE DEF o, x, len, cells, new
    <3> QED BY <1>1
  <2> QED BY <1>1, <2>1, <2>2 DEF Memories
<1> HIDE DEF o, n, keys, x, len, cells, at
<1>4. /\ new \in Seq(Records) /\ Len(new) = Len(cells)
      /\ new[at] = Changed(cells[at], kind)
      /\ \A j \in 1..Len(cells) : /\ j # at => new[j] = cells[j]
                                  /\ new[j].key = cells[j].key
  <2>1. DOMAIN cells = 1..Len(cells) /\ \A j \in 1..Len(cells) : cells[j] \in Records
    BY <1>1
  <2>2. Changed(cells[at], kind) \in Records /\ Changed(cells[at], kind).key = cells[at].key
    BY <1>1, <2>1, ChangedRecord
  <2>3. new \in Seq(Records) /\ Len(new) = Len(cells)
    BY <1>1, <2>2, ExceptSeq
  <2>4. \A j \in 1..Len(cells) : new[j] = IF j = at THEN Changed(cells[at], kind) ELSE cells[j]
    BY <2>1
  <2> HIDE DEF new
  <2> QED BY <1>1, <2>1, <2>2, <2>3, <2>4
<1> HIDE DEF new
<1>5. object \in OwnerObjects /\ object.account = o /\ object.length = len /\ object.cells = new
  BY <1>1, <1>4 DEF OwnerObjects
<1> HIDE DEF object
<1>6. n.heap[x] = object /\ n.heap[x] # None /\ n.ref = m.ref
  BY <1>1, <1>3, <1>5, NoneAssumption DEF Memories
<1>7. /\ Slice(n, x) \in Seq(Records) /\ Len(Slice(n, x)) = len /\ DOMAIN Slice(n, x) = 1..len
      /\ \A j \in 1..len : Slice(n, x)[j] = new[j] /\ Slice(n, x)[j].key = keys[j].key
  <2>1. Slice(n, x) = SubSeq(new, 1, len)
    BY <1>5, <1>6 DEF Slice
  <2>2. /\ SubSeq(new, 1, len) \in Seq(Records) /\ Len(SubSeq(new, 1, len)) = len
        /\ \A j \in 1..len : SubSeq(new, 1, len)[j] = new[j]
    BY <1>1, <1>4
  <2>3. \A j \in 1..len : new[j].key = keys[j].key
    BY <1>1, <1>2, <1>4
  <2> QED BY <2>1, <2>2, <2>3, <1>1
<1>8. IsDistinct(Slice(n, x)) /\ LinkedKeys(Slice(n, x)) = LinkedKeys(keys)
  BY <1>2, <1>7 DEF IsDistinct, LinkedKeys, Lists
<1>9. OneObject(m, n, x, k)
  <2>1. n \in Memories /\ n.owners = m.owners /\ \A y \in Objects : y # x => n.heap[y] = m.heap[y]
    BY <1>1, <1>3, <1>5 DEF Memories
  <2>2. n.heap[n.ref[k].object] # None /\ n.ref[k].index <= Len(n.heap[n.ref[k].object].cells)
    BY <1>1, <1>4, <1>5, <1>6
  <2> QED BY <2>1, <2>2, <1>1, <1>4, <1>5, <1>6, <1>8 DEF OneObject
<1>10. /\ MemoryOK(n) /\ n.owners = m.owners
       /\ \A y \in Objects : y # x => n.heap[y] = m.heap[y] /\ Slice(n, y) = Slice(m, y)
       /\ \A y \in Objects : m.heap[y] # None =>
             n.heap[y] # None /\ n.heap[y].account = m.heap[y].account
       /\ \A l \in Keys : m.ref[l] # None => Claimant(n, l) = Claimant(m, l)
       /\ \A added : Claims(m, added) => Claims(n, added)
       /\ \A p \in Accounts : \A added : p # o => Apart(m, n, p, added)
  <2>1. n.owners = m.owners /\ \A y \in Objects : y # x => n.heap[y] = m.heap[y] /\ Slice(n, y) = Slice(m, y)
    BY <1>9, SameObjectSameSlice DEF OneObject
  <2>2. Claimant(n, k) = Claimant(m, k)
    BY <1>1, <1>5, <1>6 DEF Claimant
  <2>3. /\ MemoryOK(n)
        /\ \A y \in Objects : m.heap[y] # None =>
             n.heap[y] # None /\ n.heap[y].account = m.heap[y].account
        /\ \A l \in Keys : l # k /\ m.ref[l] # None => Claimant(n, l) = Claimant(m, l)
        /\ \A added : Claims(m, added) /\ LinkedKeys(Slice(n, x)) \subseteq added[o]
                      /\ (n.ref[k] # None => k \in added[Claimant(n, k)]) => Claims(n, added)
        /\ \A p \in Accounts : \A added : p # o => Apart(m, n, p, added)
    BY <1>1, <1>6, <1>9, ObjectChanges
  <2>4. ASSUME NEW added, Claims(m, added) PROVE Claims(n, added)
    <3>1. LinkedKeys(Slice(n, x)) \subseteq added[o] /\ (n.ref[k] # None => k \in added[Claimant(n, k)])
      BY <2>2, <2>4, <1>1, <1>6, <1>8 DEF Claims, keys
    <3> QED BY <2>3, <2>4, <3>1
  <2> QED BY <2>1, <2>2, <2>3, <2>4
<1>11. \A y \in Objects : m.heap[y] # None => LinkedKeys(Slice(n, y)) = LinkedKeys(Slice(m, y))
  BY <1>8, <1>10 DEF keys
<1>12. RefsOwn(m, o) => RefsOwn(n, o)
  BY <1>6, <1>10, <1>11, <1>1, OwnerFields DEF RefsOwn
<1>13. ASSUME RefsExact(m, o) PROVE RefsExact(n, o)
  <2> SUFFICES ASSUME NEW l \in Keys, n.ref[l] # None, Claimant(n, l) = o
               PROVE  n.ref[l].index <= n.heap[n.ref[l].object].length /\ Gate(n, l).key = l
    BY DEF RefsExact
  <2>1. m.ref[l] = n.ref[l] /\ m.ref[l] # None /\ Claimant(m, l) = o
    BY <1>6, <1>10
  <2>2. m.ref[l].index <= m.heap[m.ref[l].object].length /\ Gate(m, l).key = l
        /\ m.ref[l].index \in 1..Len(m.heap[m.ref[l].object].cells) /\ m.ref[l].object \in Objects
    BY <2>1, <1>13, RefFields DEF RefsExact
  <2>3. CASE m.ref[l].object = x
    BY <2>1, <2>2, <2>3, <1>1, <1>4, <1>5, <1>6 DEF Gate
  <2>4. CASE m.ref[l].object # x
    BY <2>1, <2>2, <2>4, <1>10 DEF Gate
  <2> QED BY <2>3, <2>4
<1>14. ASSUME NEW added, RefsKept(m, o, added) PROVE RefsKept(n, o, added)
  <2> SUFFICES ASSUME n.owners[o] # None,
                      NEW l \in LinkedKeys(Slice(n, n.owners[o])), \A p \in Accounts \ {o} : l \notin added[p]
               PROVE  n.ref[l] # None /\ Claimant(n, l) = o
    BY DEF RefsKept
  <2>1. m.owners[o] # None /\ m.owners[o] \in Objects /\ m.heap[m.owners[o]] # None
        /\ n.owners[o] = m.owners[o]
    BY <1>1, <1>10, OwnerFields
  <2>2. l \in LinkedKeys(Slice(m, m.owners[o])) /\ l \in Keys
    BY <2>1, <1>11, SliceIs
  <2>3. m.ref[l] # None /\ Claimant(m, l) = o
    BY <2>1, <2>2, <1>14 DEF RefsKept
  <2> QED BY <2>2, <2>3, <1>6, <1>10
<1>15. ASSUME RefsOwn(m, o), RefsExact(m, o)
       PROVE  /\ x = m.owners[o] /\ Listed(keys)[k] # None
              /\ Listed(Slice(n, x)) = [Listed(keys) EXCEPT ![k] = Changed(@, kind)]
  <2> DEFINE f == [Listed(keys) EXCEPT ![k] = Changed(@, kind)]
  <2>1. x = m.owners[o] /\ at \in 1..len /\ keys[at].key = k
    <3>1. Claimant(m, k) = o
      BY DEF o
    <3> QED BY <3>1, <1>1, <1>2, <1>15 DEF RefsOwn, RefsExact, Gate
  <2>2. /\ Listed(keys) \in [Keys -> Records \cup {None}]
        /\ Listed(keys)[k] = keys[at] /\ keys[at] \in Records /\ k \in LinkedKeys(keys)
        /\ \A l \in Keys : Listed(keys)[l] # None <=> l \in LinkedKeys(keys)
        /\ \A j \in 1..len : /\ Listed(keys)[keys[j].key] = keys[j] /\ keys[j].key \in Keys
                             /\ keys[j].key = k => j = at
    BY <2>1, <1>2, ListedEntries, PositionIsUnique
  <2>3. Listed(keys)[k] # None
    BY <2>2, RecordFields
  <2>4. f \in [Keys -> Records \cup {None}] /\ f[k] = Changed(keys[at], kind)
        /\ \A l \in Keys : l # k => f[l] = Listed(keys)[l]
    BY <2>2, ChangedRecord
  <2>5. Slice(n, x) \in Lists
    BY <1>7, <1>8 DEF Lists
  <2> HIDE DEF f
  <2>6. ASSUME NEW j \in 1..len PROVE f[Slice(n, x)[j].key] = Slice(n, x)[j]
    <3>1. CASE j = at
      BY <3>1, <2>1, <2>4, <1>2, <1>4, <1>7
    <3>2. CASE j # at
      <4>1. Slice(n, x)[j] = keys[j] /\ keys[j].key # k
        BY <3>2, <2>2, <1>1, <1>2, <1>4, <1>7
      <4> QED BY <4>1, <2>2, <2>4
    <3> QED BY <3>1, <3>2
  <2>7. ASSUME NEW l \in Keys, f[l] # None PROVE l \in LinkedKeys(Slice(n, x))
    BY <2>2, <2>4, <2>7, <1>8
  <2>8. Listed(Slice(n, x)) = f
    BY <2>4, <2>5, <2>6, <2>7, <1>7, ListedIs
  <2> QED BY <2>1, <2>3, <2>8 DEF f
<1> QED BY <1>10, <1>12, <1>13, <1>14, <1>15 DEF n, keys, o, With, ObjectsStay

-----------------------------------------------------------------------------
(* There is always a name for one more object.                             *)

LEMMA ImageIsSmall ==
    ASSUME NEW S, IsFiniteSet(S), NEW f, f = [s \in S |-> f[s]]
    PROVE  LET T == {f[s] : s \in S} IN
           IsFiniteSet(T) /\ Cardinality(T) \in Nat /\ Cardinality(T) <= Cardinality(S)
<1> DEFINE T == {f[s] : s \in S}
<1>1. f \in Surjection(S, T)
  BY DEF Surjection
<1> HIDE DEF T
<1>2. IsFiniteSet(T) /\ Cardinality(T) <= Cardinality(S)
  BY <1>1, FS_Surjection
<1>3. Cardinality(T) \in Nat
  BY <1>2, FS_CardinalityType
<1> QED BY <1>2, <1>3 DEF T

LEMMA ObjectsOutnumberPointers ==
    ASSUME NEW f, f = [o \in Accounts |-> f[o]], NEW g, g = [k \in Keys |-> g[k]], NEW y
    PROVE  \E x \in Objects : x \notin {f[o] : o \in Accounts} \cup {g[k] : k \in Keys} \cup {y}
<1> DEFINE F == {f[o] : o \in Accounts}
           G == {g[k] : k \in Keys}
<1>1. /\ IsFiniteSet(Accounts) /\ IsFiniteSet(Keys) /\ IsFiniteSet(Objects)
      /\ Cardinality(Objects) > Cardinality(Accounts) + Cardinality(Keys) + 1
  BY ObjectsAssumption
<1>2. /\ Cardinality(Accounts) \in Nat /\ Cardinality(Keys) \in Nat /\ Cardinality(Objects) \in Nat
  BY <1>1, FS_CardinalityType
<1>3. IsFiniteSet(F) /\ Cardinality(F) \in Nat /\ Cardinality(F) <= Cardinality(Accounts)
  BY <1>1, ImageIsSmall
<1>4. IsFiniteSet(G) /\ Cardinality(G) \in Nat /\ Cardinality(G) <= Cardinality(Keys)
  BY <1>1, ImageIsSmall
<1>5. IsFiniteSet({y}) /\ Cardinality({y}) = 1
  BY FS_Singleton
<1> HIDE DEF F, G
<1>6. IsFiniteSet(F \cup G) /\ Cardinality(F \cup G) \in Nat
      /\ Cardinality(F \cup G) <= Cardinality(F) + Cardinality(G)
  <2>1. IsFiniteSet(F \cap G) /\ Cardinality(F \cap G) \in Nat
    BY <1>3, FS_Subset, FS_CardinalityType
  <2>2. IsFiniteSet(F \cup G) /\ Cardinality(F \cup G) = Cardinality(F) + Cardinality(G) - Cardinality(F \cap G)
    BY <1>3, <1>4, FS_Union
  <2> QED BY <2>1, <2>2, <1>3, <1>4, FS_CardinalityType
<1>7. IsFiniteSet(F \cup G \cup {y}) /\ Cardinality(F \cup G \cup {y}) \in Nat
      /\ Cardinality(F \cup G \cup {y}) <= Cardinality(F) + Cardinality(G) + 1
  <2>1. IsFiniteSet((F \cup G) \cap {y}) /\ Cardinality((F \cup G) \cap {y}) \in Nat
    BY <1>6, FS_Subset, FS_CardinalityType
  <2>2. /\ IsFiniteSet(F \cup G \cup {y})
        /\ Cardinality(F \cup G \cup {y}) = Cardinality(F \cup G) + 1 - Cardinality((F \cup G) \cap {y})
    BY <1>5, <1>6, FS_Union
  <2> QED BY <2>1, <2>2, <1>3, <1>4, <1>6, FS_CardinalityType
<1>8. ~(Objects \subseteq F \cup G \cup {y})
  <2> SUFFICES ASSUME Objects \subseteq F \cup G \cup {y} PROVE FALSE
    OBVIOUS
  <2>1. Cardinality(Objects) <= Cardinality(F \cup G \cup {y})
    BY <1>7, FS_Subset
  <2> QED BY <2>1, <1>1, <1>2, <1>3, <1>4, <1>7
<1> QED BY <1>8 DEF F, G

-----------------------------------------------------------------------------
(* The inductive invariant.                                                *)

\* What S3 has of an account: an account without an owner.json has no keys.
Bucket(o) == IF bucket[o] = None THEN <<>> ELSE bucket[o]

\* The command on account o has changed server i's memory, not yet the bucket.
Past(i, o) == Commanding(i, o) /\ cmd[i].phase \in {"save", "put"}

CommandOK(i) ==
    LET c == cmd[i] IN
    c # None =>
        /\ c.kind # "login" => c.key \in Keys
        /\ c.phase = "op" => c.kind # "login"
        /\ c.phase \in {"op", "save"} /\ c.kind # "login" => owners[i][c.account] # None
        /\ c.phase \in {"op", "save"} /\ c.kind \notin KeyActions => c.object # None
        /\ c.object # None => /\ c.phase \in {"op", "save"} /\ c.kind \notin KeyActions
                              /\ heap[i][c.object] # None /\ heap[i][c.object].account = c.account
        /\ c.phase \in {"load", "put"} =>
              c.data \in Lists /\ LinkedKeys(c.data) \subseteq claimed[c.account]

ReloadOK(i) ==
    LET r == reload[i] IN
    r # None =>
        /\ \A o \in r.todo : bucket[o] # None
        /\ r.at # None => r.data \in Lists /\ LinkedKeys(r.data) \subseteq claimed[r.at]

Typed ==
    /\ bucket \in [Accounts -> Lists \cup {None}]
    /\ owners \in [Servers -> [Accounts -> Objects \cup {None}]]
    /\ heap \in [Servers -> [Objects -> OwnerObjects \cup {None}]]
    /\ ref \in [Servers -> [Keys -> Refs \cup {None}]]
    /\ cmd \in [Servers -> Commands \cup {None}]
    /\ reload \in [Servers -> Reloads \cup {None}]
    /\ failures \in 0..MaxFailures
    /\ wanted \in [Accounts -> [Keys -> Records \cup {None}]]
    /\ claimed \in [Accounts -> SUBSET Keys]
    /\ calm \in [Accounts -> BOOLEAN]
    /\ behind \in [Servers -> SUBSET Accounts]

\* S3 lists no key that the owner has not added.
BucketOK == \A o \in Accounts : LinkedKeys(Bucket(o)) \subseteq claimed[o]

ServerOK(i) ==
    /\ MemoryOK(Memory(i)) /\ Claims(Memory(i), claimed)
    /\ CommandOK(i) /\ ReloadOK(i)
    /\ \A x \in Objects : heap[i][x] # None => x \in InUse(i)

StoreOK == Typed /\ BucketOK /\ \A i \in Servers : ServerOK(i)

\* What the command will save is the object the dashboard shows, or a new
\* owner's first.
SaveReady(i, o) ==
    LET c == cmd[i] IN
    IF owners[i][o] # None THEN c.kind \in KeyActions \/ c.object = owners[i][o]
    ELSE c.kind = "login" /\ Listed(Slice(Memory(i), c.object)) = wanted[o]

\* A command on account o.
CommandFollows(i, o) ==
    LET c == cmd[i] IN
    /\ o \notin behind[i]
    /\ c.phase = "get" => owners[i][o] = None
    /\ c.phase = "load" => owners[i][o] = None /\ c.data = bucket[o]
    /\ c.phase = "op" /\ c.kind = "add" => c.object = owners[i][o]
    /\ c.phase = "save" => SaveReady(i, o)
    /\ c.phase = "put" => Listed(c.data) = wanted[o] /\ owners[i][o] # None

\* Between the memory's part of a command and its Save, a ref may lead to a cell
\* that is not the key's.
ServerFollows(i, o) ==
    /\ Shows(Memory(i), o, claimed)
    /\ ~(Commanding(i, o) /\ cmd[i].phase = "save") => RefsExact(Memory(i), o)
    /\ owners[i][o] # None =>
          Listed(Slice(Memory(i), owners[i][o])) =
              IF Past(i, o) THEN wanted[o] ELSE Listed(Bucket(o))

\* What a calm account's servers and bucket have in common.
Follows(o) ==
    /\ \A i, j \in Servers : Commanding(i, o) /\ Commanding(j, o) => i = j
    /\ (\A i \in Servers : ~Past(i, o)) => wanted[o] = Listed(Bucket(o))
    /\ \A i \in Servers : Commanding(i, o) => CommandFollows(i, o)
    /\ \A i \in Servers : o \notin behind[i] => ServerFollows(i, o)

Inv == StoreOK /\ \A o \in Accounts : calm[o] => Follows(o)

LEMMA FreeExists ==
    ASSUME Typed, NEW i \in Servers, \A x \in Objects : heap[i][x] # None => x \in InUse(i)
    PROVE  \E x \in Objects : Memory(i).heap[x] = None
<1> DEFINE f == [o \in Accounts |-> owners[i][o]]
           g == [k \in Keys |-> IF ref[i][k] # None THEN ref[i][k].object ELSE None]
<1>1. PICK x \in Objects : x \notin {f[o] : o \in Accounts} \cup {g[k] : k \in Keys} \cup {cmd[i].object}
  <2>1. f = [o \in Accounts |-> f[o]] /\ g = [k \in Keys |-> g[k]]
    OBVIOUS
  <2> HIDE DEF f, g
  <2> QED BY <2>1, ObjectsOutnumberPointers
<1>2. x \notin InUse(i)
  <2>1. \A o \in Accounts : x # owners[i][o]
    BY <1>1
  <2>2. \A k \in Keys : ref[i][k] # None => x # ref[i][k].object
    BY <1>1
  <2>3. x # cmd[i].object
    BY <1>1
  <2> QED BY <2>1, <2>2, <2>3 DEF InUse
<1> QED BY <1>2 DEF Memory

-----------------------------------------------------------------------------
(* What a step does to a server's memory.                                  *)

LEMMA SetMemoryIs ==
    ASSUME Typed, NEW i \in Servers, NEW m, MemoryOK(m), SetMemory(i, m)
    PROVE  /\ owners' \in [Servers -> [Accounts -> Objects \cup {None}]]
           /\ heap' \in [Servers -> [Objects -> OwnerObjects \cup {None}]]
           /\ ref' \in [Servers -> [Keys -> Refs \cup {None}]]
           /\ owners'[i] = m.owners
           /\ \A j \in Servers : j # i => Memory(j)' = Memory(j) /\ owners'[j] = owners[j]
           /\ MemoryOK(Memory(i)')
           /\ \A added : Claims(m, added) => Claims(Memory(i)', added)
           /\ \A o \in Accounts : \A added : Shows(m, o, added) => Shows(Memory(i)', o, added)
           /\ \A o \in Accounts : RefsExact(m, o) => RefsExact(Memory(i)', o)
           /\ \A o \in Accounts : m.owners[o] # None =>
                 Slice(Memory(i)', owners'[i][o]) = Slice(m, m.owners[o])
           /\ \A x \in Objects : x \in InUse(i)' =>
                 heap'[i][x] = m.heap[x] /\ Slice(Memory(i)', x) = Slice(m, x)
           /\ \A x \in Objects : heap'[i][x] # None => x \in InUse(i)'
<1>1. m \in Memories
  BY DEF MemoryOK
<1>2. /\ owners' = [owners EXCEPT ![i] = m.owners]
      /\ ref' = [ref EXCEPT ![i] = m.ref]
      /\ heap' = [heap EXCEPT ![i] = [x \in Objects |-> IF x \in InUse(i)' THEN m.heap[x] ELSE None]]
  BY DEF SetMemory
<1>3. /\ owners' \in [Servers -> [Accounts -> Objects \cup {None}]]
      /\ heap' \in [Servers -> [Objects -> OwnerObjects \cup {None}]]
      /\ ref' \in [Servers -> [Keys -> Refs \cup {None}]]
  <2>1. [x \in Objects |-> IF x \in InUse(i)' THEN m.heap[x] ELSE None]
           \in [Objects -> OwnerObjects \cup {None}]
    BY <1>1 DEF Memories
  <2> QED BY <2>1, <1>1, <1>2 DEF Typed, Memories
<1>4. owners'[i] = m.owners /\ ref'[i] = m.ref
      /\ heap'[i] = [x \in Objects |-> IF x \in InUse(i)' THEN m.heap[x] ELSE None]
  BY <1>2 DEF Typed
<1>5. \A j \in Servers : j # i => Memory(j)' = Memory(j) /\ owners'[j] = owners[j]
  BY <1>2 DEF Typed, Memory
<1>6. Memory(i)' = Collected(m, InUse(i)')
  BY <1>4 DEF Memory, Collected
<1>7. Memory(i)'.heap = heap'[i] /\ Memory(i)'.owners = owners'[i]
  BY DEF Memory
<1>8. /\ \A o \in Accounts : m.owners[o] # None => m.owners[o] \in InUse(i)'
      /\ \A k \in Keys : m.ref[k] # None => m.ref[k].object \in InUse(i)'
  BY <1>4 DEF InUse
<1> QED BY <1>3, <1>4, <1>5, <1>6, <1>7, <1>8, CollectKeeps

LEMMA ApartTwice ==
    ASSUME NEW m, NEW n, NEW l, MemoryOK(n), NEW p \in Accounts, NEW added,
           Apart(m, n, p, added), Apart(n, l, p, added)
    PROVE  Apart(m, l, p, added)
<1>1. l.owners[p] = m.owners[p]
  BY DEF Apart
<1>2. \A x \in Objects : m.heap[x] # None =>
         /\ l.heap[x] # None /\ l.heap[x].account = m.heap[x].account
         /\ m.heap[x].account = p => l.heap[x] = m.heap[x]
  BY DEF Apart
<1>3. ASSUME NEW k \in Keys
      PROVE  \/ l.ref[k] = m.ref[k]
             \/ /\ l.ref[k] = None \/ Claimant(l, k) # p
                /\ \E q \in Accounts \ {p} : k \in added[q]
  <2>1. CASE l.ref[k] = n.ref[k] /\ n.ref[k] # None
    <3>1. n.ref[k].object \in Objects /\ n.heap[n.ref[k].object] # None
      BY <2>1, RefFields
    <3>2. Claimant(l, k) = Claimant(n, k)
      BY <2>1, <3>1 DEF Claimant, Apart
    <3> QED BY <2>1, <3>2 DEF Apart
  <2>2. CASE l.ref[k] = n.ref[k] /\ n.ref[k] = None
    BY <2>2 DEF Apart
  <2>3. CASE l.ref[k] # n.ref[k]
    BY <2>3 DEF Apart
  <2> QED BY <2>1, <2>2, <2>3
<1> QED BY <1>1, <1>2, <1>3 DEF Apart

\* Owners only ever add to what they have added.
Growing == \A o \in Accounts : claimed[o] \subseteq claimed'[o]

LEMMA ServerStaysOK ==
    ASSUME StoreOK, Typed', Growing, NEW j \in Servers,
           Memory(j)' = Memory(j), cmd'[j] = cmd[j], reload'[j] = reload[j],
           \A o \in Accounts : bucket[o] # None => bucket'[o] # None
    PROVE  ServerOK(j)'
<1>1. owners'[j] = owners[j] /\ heap'[j] = heap[j] /\ ref'[j] = ref[j]
  BY DEF Memory
<1>2. ServerOK(j) /\ Typed
  BY DEF StoreOK
<1>3. MemoryOK(Memory(j)') /\ Claims(Memory(j)', claimed')
  BY <1>2, ClaimsGrow DEF ServerOK, Growing
<1>4. CommandOK(j)'
  <2>1. cmd[j] # None => cmd[j].account \in Accounts
    BY <1>2 DEF Typed, Commands
  <2> QED BY <2>1, <1>1, <1>2 DEF ServerOK, CommandOK, Growing
<1>5. ReloadOK(j)'
  <2>1. reload[j] # None => reload[j].todo \subseteq Accounts /\ reload[j].at \in Accounts \cup {None}
    BY <1>2 DEF Typed, Reloads
  <2> QED BY <2>1, <1>1, <1>2 DEF ServerOK, ReloadOK, Growing
<1>6. \A x \in Objects : heap'[j][x] # None => x \in InUse(j)'
  <2>1. InUse(j)' = InUse(j)
    BY <1>1 DEF InUse
  <2> QED BY <2>1, <1>1, <1>2 DEF ServerOK
<1> QED BY <1>3, <1>4, <1>5, <1>6 DEF ServerOK

\* A step of server j that has nothing to do with account p.
Untouched(j, p) ==
    /\ Commanding(j, p) \/ Commanding(j, p)' => cmd'[j] = cmd[j]
    /\ owners'[j][p] = owners[j][p]
    /\ Shows(Memory(j), p, claimed) => Shows(Memory(j)', p, claimed')
    /\ RefsExact(Memory(j), p) => RefsExact(Memory(j)', p)
    /\ owners[j][p] # None => Slice(Memory(j)', owners[j][p]) = Slice(Memory(j), owners[j][p])
    /\ Commanding(j, p) /\ cmd[j].object # None =>
          Slice(Memory(j)', cmd[j].object) = Slice(Memory(j), cmd[j].object)
    /\ p \in behind[j] => p \in behind'[j]
    /\ Commanding(j, p) => (p \in behind'[j] => p \in behind[j])

LEMMA UntouchedIfUnchanged ==
    ASSUME Growing, NEW j \in Servers, NEW p \in Accounts, Memory(j)' = Memory(j),
           Commanding(j, p) \/ Commanding(j, p)' => cmd'[j] = cmd[j],
           p \in behind'[j] <=> p \in behind[j]
    PROVE  Untouched(j, p)
<1>1. owners'[j] = owners[j]
  BY DEF Memory
<1>2. Shows(Memory(j), p, claimed) => Shows(Memory(j)', p, claimed')
  BY AddingKeeps DEF Growing
<1> QED BY <1>1, <1>2 DEF Untouched

LEMMA UntouchedIfApart ==
    ASSUME StoreOK, Typed', Growing, NEW i \in Servers, NEW p \in Accounts,
           NEW m, MemoryOK(m), SetMemory(i, m), Apart(Memory(i), m, p, claimed'),
           Commanding(i, p) \/ Commanding(i, p)' => cmd'[i] = cmd[i],
           p \in behind'[i] <=> p \in behind[i]
    PROVE  Untouched(i, p)
<1>1. Typed /\ MemoryOK(Memory(i)) /\ CommandOK(i)
  BY DEF StoreOK, ServerOK
<1>2. owners'[i][p] = owners[i][p]
  <2>1. owners'[i] = m.owners
    BY <1>1, SetMemoryIs
  <2> QED BY <2>1 DEF Apart, Memory
<1>3. /\ Shows(Memory(i), p, claimed') => Shows(m, p, claimed')
      /\ RefsExact(Memory(i), p) => RefsExact(m, p)
      /\ \A x \in Objects : heap[i][x] # None /\ heap[i][x].account = p => Slice(m, x) = Slice(Memory(i), x)
      /\ owners[i][p] # None => Slice(m, owners[i][p]) = Slice(Memory(i), owners[i][p])
  BY <1>1, ApartKeeps DEF Memory, Apart
<1>4. /\ \A o \in Accounts : \A added : Shows(m, o, added) => Shows(Memory(i)', o, added)
      /\ \A o \in Accounts : RefsExact(m, o) => RefsExact(Memory(i)', o)
      /\ \A x \in Objects : x \in InUse(i)' => Slice(Memory(i)', x) = Slice(m, x)
  BY <1>1, SetMemoryIs
<1>5. Shows(Memory(i), p, claimed) => Shows(Memory(i)', p, claimed')
  BY <1>3, <1>4, AddingKeeps DEF Growing
<1>6. owners[i][p] # None => Slice(Memory(i)', owners[i][p]) = Slice(Memory(i), owners[i][p])
  <2> HAVE owners[i][p] # None
  <2>1. owners[i][p] \in Objects
    BY <1>1 DEF Typed
  <2>2. owners[i][p] \in InUse(i)'
    BY <1>2 DEF InUse
  <2> QED BY <2>1, <2>2, <1>3, <1>4
<1>7. Commanding(i, p) /\ cmd[i].object # None =>
         Slice(Memory(i)', cmd[i].object) = Slice(Memory(i), cmd[i].object)
  <2> HAVE Commanding(i, p) /\ cmd[i].object # None
  <2>1. cmd[i].object \in Objects
    BY <1>1 DEF Typed, Commands, Commanding
  <2>2. heap[i][cmd[i].object] # None /\ heap[i][cmd[i].object].account = p
    BY <1>1 DEF CommandOK, Commanding
  <2>3. cmd[i].object \in InUse(i)'
    BY DEF InUse, Commanding
  <2> QED BY <2>1, <2>2, <2>3, <1>3, <1>4
<1> QED BY <1>2, <1>3, <1>4, <1>5, <1>6, <1>7 DEF Untouched

LEMMA FollowsKept ==
    ASSUME StoreOK, NEW p \in Accounts, Follows(p), wanted'[p] = wanted[p], bucket'[p] = bucket[p],
           \A j \in Servers : Untouched(j, p)
    PROVE  Follows(p)'
<1>1. \A j \in Servers : Commanding(j, p)' <=> Commanding(j, p)
  BY DEF Untouched, Commanding
<1>2. \A j \in Servers : Commanding(j, p) => cmd'[j] = cmd[j]
  BY DEF Untouched
<1>3. \A j \in Servers : Past(j, p)' <=> Past(j, p)
  BY <1>1, <1>2 DEF Past
<1>4. Bucket(p)' = Bucket(p)
  BY DEF Bucket
<1>5. (\A j \in Servers : ~Past(j, p)') => wanted'[p] = Listed(Bucket(p))
  BY <1>3 DEF Follows
<1>6. ASSUME NEW j \in Servers, Commanding(j, p) PROVE CommandFollows(j, p)'
  <2>1. CommandFollows(j, p) /\ cmd'[j] = cmd[j] /\ CommandOK(j)
    BY <1>2, <1>6 DEF Follows, StoreOK, ServerOK
  <2>2. SaveReady(j, p) /\ cmd[j].phase = "save" => SaveReady(j, p)'
    <3> HAVE SaveReady(j, p) /\ cmd[j].phase = "save"
    <3>1. owners'[j][p] = owners[j][p]
      BY DEF Untouched
    <3>2. CASE owners[j][p] # None
      BY <2>1, <3>1, <3>2 DEF SaveReady
    <3>3. CASE owners[j][p] = None
      <4>1. cmd[j].object # None
        BY <2>1, <3>3, <1>6 DEF SaveReady, CommandOK, Commanding, KeyActions
      <4>2. Slice(Memory(j)', cmd[j].object) = Slice(Memory(j), cmd[j].object)
        BY <4>1, <1>6 DEF Untouched
      <4> QED BY <2>1, <3>1, <3>3, <4>2 DEF SaveReady
    <3> QED BY <3>2, <3>3
  <2> QED BY <2>1, <2>2, <1>6 DEF CommandFollows, Untouched
<1>7. ASSUME NEW j \in Servers, p \notin behind'[j] PROVE ServerFollows(j, p)'
  <2>1. ServerFollows(j, p)
    BY <1>7 DEF Follows, Untouched
  <2>2. owners'[j][p] # None =>
           Listed(Slice(Memory(j)', owners'[j][p])) = Listed(Slice(Memory(j), owners[j][p]))
    BY DEF Untouched
  <2>3. Commanding(j, p)' /\ cmd'[j].phase = "save" <=> Commanding(j, p) /\ cmd[j].phase = "save"
    BY <1>1, <1>2
  <2> QED BY <2>1, <2>2, <2>3, <1>3, <1>4 DEF ServerFollows, Untouched
<1> QED BY <1>1, <1>4, <1>5, <1>6, <1>7 DEF Follows

-----------------------------------------------------------------------------
(* One lemma for each action.                                              *)

LEMMA HStartKeeps ==
    ASSUME Inv, NEW i \in Servers, HStart(i)
    PROVE  Inv'
<1>1. StoreOK /\ Typed /\ BucketOK /\ ServerOK(i)
  BY DEF Inv, StoreOK
<1>2. PICK kind \in Kinds, o \in Accounts, k \in Keys \cup {None} :
         Command(i, kind, o, k) /\ (kind # "login" => k \in Keys)
  BY AskedAssumption DEF HStart, Start, Kinds
<1> DEFINE x == owners[i][o]
           c == [kind |-> kind, account |-> o, key |-> k, data |-> None,
                 object |-> IF kind \in KeyActions THEN None ELSE x,
                 phase |-> IF x = None THEN "get" ELSE IF kind = "login" THEN "save" ELSE "op"]
<1>3. /\ cmd[i] = None /\ cmd' = [cmd EXCEPT ![i] = c]
      /\ UNCHANGED <<bucket, owners, heap, ref, reload, failures, wanted, claimed, behind>>
  BY <1>2 DEF Command, memory, HStart
<1>4. x \in Objects \cup {None} /\ c \in Commands
  BY <1>1 DEF Typed, Commands
<1>5. c # None
  BY <1>4, NoneAssumption
<1>6. /\ c.kind = kind /\ c.account = o /\ c.key = k /\ c.data = None
      /\ c.object = IF kind \in KeyActions THEN None ELSE x
      /\ c.phase = IF x = None THEN "get" ELSE IF kind = "login" THEN "save" ELSE "op"
  OBVIOUS
<1>7. \A j \in Servers : j # i => cmd'[j] = cmd[j]
  BY <1>1, <1>3 DEF Typed
<1> HIDE DEF c
<1>8. cmd'[i] = c
  BY <1>1, <1>3 DEF Typed
<1>9. calm' = [calm EXCEPT ![o] =
         @ /\ ~(o \in behind[i] \/ \E j \in Servers \ {i} : Commanding(j, o))]
  BY <1>6, <1>8 DEF HStart, Disturb
<1>10. Typed'
  <2>1. cmd' \in [Servers -> Commands \cup {None}]
    BY <1>1, <1>3, <1>4 DEF Typed
  <2>2. calm' \in [Accounts -> BOOLEAN]
    BY <1>1, <1>9 DEF Typed
  <2> QED BY <2>1, <2>2, <1>1, <1>3 DEF Typed
<1>11. Growing /\ \A j \in Servers : Memory(j)' = Memory(j)
  BY <1>3 DEF Growing, Memory
<1>12. ServerOK(i)'
  <2>1. MemoryOK(Memory(i)') /\ Claims(Memory(i)', claimed')
    BY <1>1, <1>3, <1>11 DEF ServerOK
  <2>2. CommandOK(i)'
    <3>1. x # None => heap[i][x] # None /\ heap[i][x].account = o
      BY <1>1, OwnerFields DEF ServerOK, Memory
    <3> QED BY <3>1, <1>2, <1>3, <1>6, <1>8 DEF CommandOK, Kinds
  <2>3. ReloadOK(i)'
    BY <1>1, <1>3 DEF ServerOK, ReloadOK
  <2>4. \A y \in Objects : heap'[i][y] # None => y \in InUse(i)'
    <3>1. InUse(i) \subseteq InUse(i)'
      BY <1>3 DEF InUse
    <3> QED BY <3>1, <1>1, <1>3 DEF ServerOK
  <2> QED BY <2>1, <2>2, <2>3, <2>4 DEF ServerOK
<1>13. \A j \in Servers : ServerOK(j)'
  BY <1>1, <1>3, <1>7, <1>10, <1>11, <1>12, ServerStaysOK
<1>14. BucketOK'
  BY <1>1, <1>3 DEF BucketOK, Bucket
<1>15. ASSUME NEW p \in Accounts, calm'[p] PROVE Follows(p)'
  <2>1. calm[p] /\ Follows(p)
    BY <1>1, <1>9, <1>15 DEF Typed, Inv
  <2>2. CASE p # o
    <3>1. ~Commanding(i, p) /\ ~Commanding(i, p)'
      BY <2>2, <1>3, <1>6, <1>8 DEF Commanding
    <3>2. \A j \in Servers : Untouched(j, p)
      BY <3>1, <1>3, <1>7, <1>11, UntouchedIfUnchanged
    <3> QED BY <2>1, <3>2, <1>1, <1>3, FollowsKept
  <2>3. CASE p = o
    <3>1. o \notin behind[i] /\ \A j \in Servers : ~Commanding(j, o)
      BY <2>3, <1>1, <1>3, <1>9, <1>15 DEF Typed, Commanding
    <3>2. /\ wanted[o] = Listed(Bucket(o)) /\ ServerFollows(i, o)
          /\ \A j \in Servers : ~Past(j, o)
      BY <3>1, <2>1, <2>3 DEF Follows, Past
    <3>3. \A j \in Servers : j # i => ~Commanding(j, o)'
      BY <3>1, <1>7 DEF Commanding
    <3>4. Bucket(o)' = Bucket(o) /\ wanted'[o] = wanted[o]
      BY <1>3 DEF Bucket
    <3>5. CommandFollows(i, o)'
      BY <3>1, <1>2, <1>3, <1>6, <1>8 DEF CommandFollows, SaveReady, KeyActions
    <3>6. ASSUME NEW j \in Servers, o \notin behind'[j] PROVE ServerFollows(j, o)'
      <4>1. ServerFollows(j, o)
        BY <3>6, <2>1, <2>3, <1>3 DEF Follows
      <4>2. ~Past(j, o) /\ ~Commanding(j, o)
        BY <3>1, <3>2
      <4>3. owners'[j][o] # None =>
               Listed(Slice(Memory(j), owners[j][o])) = wanted[o] /\ owners[j][o] # None
        BY <4>1, <4>2, <3>2, <1>3 DEF ServerFollows
      <4> QED BY <4>1, <4>2, <4>3, <3>2, <3>4, <1>3, <1>11 DEF ServerFollows
    <3> QED BY <2>3, <3>2, <3>3, <3>4, <3>5, <3>6 DEF Follows
  <2> QED BY <2>2, <2>3
<1> QED BY <1>10, <1>13, <1>14, <1>15 DEF Inv, StoreOK

\* cmd after server i's command has gone on to a phase.
NextPhase(commands, i, phase, x, data) ==
    [commands EXCEPT ![i].phase = phase, ![i].object = x, ![i].data = data]

LEMMA PhaseChanges ==
    ASSUME NEW c \in Commands, NEW phase \in {"get", "load", "op", "save", "put"},
           NEW n, n = [c EXCEPT !.phase = phase]
    PROVE  /\ n \in Commands
           /\ n.kind = c.kind /\ n.account = c.account /\ n.key = c.key
           /\ n.phase = phase /\ n.object = c.object /\ n.data = c.data
BY DEF Commands

LEMMA HeldChanges ==
    ASSUME NEW c \in Commands, NEW x \in Objects \cup {None},
           NEW n, n = [c EXCEPT !.object = x]
    PROVE  /\ n \in Commands
           /\ n.kind = c.kind /\ n.account = c.account /\ n.key = c.key
           /\ n.phase = c.phase /\ n.object = x /\ n.data = c.data
BY DEF Commands

LEMMA DataChanges ==
    ASSUME NEW c \in Commands, NEW data \in Seq(Records) \cup {None},
           NEW n, n = [c EXCEPT !.data = data]
    PROVE  /\ n \in Commands
           /\ n.kind = c.kind /\ n.account = c.account /\ n.key = c.key
           /\ n.phase = c.phase /\ n.object = c.object /\ n.data = data
BY DEF Commands

LEMMA CommandIsRecord ==
    ASSUME NEW c \in Commands
    PROVE  c = [kind |-> c.kind, account |-> c.account, key |-> c.key, phase |-> c.phase,
                object |-> c.object, data |-> c.data]
BY DEF Commands

LEMMA NextPhaseIs ==
    ASSUME NEW commands \in [Servers -> Commands \cup {None}],
           NEW i \in Servers, commands[i] # None, NEW x \in Objects \cup {None},
           NEW phase \in {"get", "load", "op", "save", "put"},
           NEW data \in Seq(Records) \cup {None}
    PROVE  NextPhase(commands, i, phase, x, data) =
             [commands EXCEPT ![i] =
                [kind |-> commands[i].kind, account |-> commands[i].account, key |-> commands[i].key,
                 phase |-> phase, object |-> x, data |-> data]]
<1> DEFINE c == commands[i]
           c1 == [c EXCEPT !.phase = phase]
           c2 == [c1 EXCEPT !.object = x]
           c3 == [c2 EXCEPT !.data = data]
<1>1. c \in Commands
  OBVIOUS
<1>2. NextPhase(commands, i, phase, x, data) = [commands EXCEPT ![i] = c3]
  BY DEF NextPhase
<1> HIDE DEF c
<1>3. c1 = [c EXCEPT !.phase = phase]
  OBVIOUS
<1> HIDE DEF c1
<1>4. /\ c1 \in Commands
      /\ c1.kind = c.kind /\ c1.account = c.account /\ c1.key = c.key /\ c1.phase = phase
  BY <1>1, <1>3, PhaseChanges
<1>5. c2 = [c1 EXCEPT !.object = x]
  OBVIOUS
<1> HIDE DEF c2
<1>6. /\ c2 \in Commands
      /\ c2.kind = c1.kind /\ c2.account = c1.account /\ c2.key = c1.key /\ c2.phase = c1.phase
      /\ c2.object = x
  BY <1>4, <1>5, HeldChanges
<1>7. c3 = [c2 EXCEPT !.data = data]
  OBVIOUS
<1> HIDE DEF c3
<1>8. /\ c3 \in Commands
      /\ c3.kind = c2.kind /\ c3.account = c2.account /\ c3.key = c2.key /\ c3.phase = c2.phase
      /\ c3.object = c2.object /\ c3.data = data
  BY <1>6, <1>7, DataChanges
<1>9. c3 = [kind |-> c.kind, account |-> c.account, key |-> c.key, phase |-> phase,
            object |-> x, data |-> data]
  BY <1>4, <1>6, <1>8, CommandIsRecord
<1> QED BY <1>2, <1>9 DEF c

\* cmd after server i's command has read an owner.
Loading(commands, i, data) == [commands EXCEPT ![i].phase = "load", ![i].data = data]

LEMMA LoadingIs ==
    ASSUME NEW commands \in [Servers -> Commands \cup {None}],
           NEW i \in Servers, commands[i] # None, NEW data \in Seq(Records) \cup {None}
    PROVE  Loading(commands, i, data) =
             NextPhase(commands, i, "load", commands[i].object, data)
<1> DEFINE c == commands[i]
           c1 == [c EXCEPT !.phase = "load"]
           c2 == [c1 EXCEPT !.data = data]
<1>1. c \in Commands
  OBVIOUS
<1>2. Loading(commands, i, data) = [commands EXCEPT ![i] = c2]
  BY DEF Loading
<1> HIDE DEF c
<1>3. c1 = [c EXCEPT !.phase = "load"]
  OBVIOUS
<1> HIDE DEF c1
<1>4. /\ c1 \in Commands
      /\ c1.kind = c.kind /\ c1.account = c.account /\ c1.key = c.key /\ c1.phase = "load"
      /\ c1.object = c.object
  BY <1>1, <1>3, PhaseChanges
<1>5. c2 = [c1 EXCEPT !.data = data]
  OBVIOUS
<1> HIDE DEF c2
<1>6. /\ c2 \in Commands
      /\ c2.kind = c1.kind /\ c2.account = c1.account /\ c2.key = c1.key /\ c2.phase = c1.phase
      /\ c2.object = c1.object /\ c2.data = data
  BY <1>4, <1>5, DataChanges
<1>7. c2 = [kind |-> c.kind, account |-> c.account, key |-> c.key, phase |-> "load",
            object |-> c.object, data |-> data]
  BY <1>4, <1>6, CommandIsRecord
<1> DEFINE x == c.object
<1>8. x \in Objects \cup {None}
  BY <1>1 DEF Commands
<1> HIDE DEF x
<1>9. NextPhase(commands, i, "load", x, data) =
         [commands EXCEPT ![i] = [kind |-> c.kind, account |-> c.account, key |-> c.key,
                                  phase |-> "load", object |-> x, data |-> data]]
  BY <1>8, NextPhaseIs DEF c
<1> QED BY <1>2, <1>7, <1>9 DEF c, x

LEMMA GoIs ==
    ASSUME Typed, NEW i \in Servers, cmd[i] # None, NEW x \in Objects \cup {None},
           NEW phase \in {"get", "load", "op", "save", "put"},
           NEW data \in Seq(Records) \cup {None},
           cmd' = NextPhase(cmd, i, phase, x, data)
    PROVE  /\ cmd' \in [Servers -> Commands \cup {None}]
           /\ \A j \in Servers : j # i => cmd'[j] = cmd[j]
           /\ cmd'[i] # None
           /\ cmd'[i].kind = cmd[i].kind /\ cmd'[i].account = cmd[i].account /\ cmd'[i].key = cmd[i].key
           /\ cmd'[i].phase = phase /\ cmd'[i].object = x /\ cmd'[i].data = data
<1> DEFINE c == cmd[i]
           new == [kind |-> c.kind, account |-> c.account, key |-> c.key, phase |-> phase,
                   object |-> x, data |-> data]
<1>1. c \in Commands /\ cmd \in [Servers -> Commands \cup {None}]
  BY DEF Typed
<1>2. new \in Commands /\ new # None
  BY <1>1, NoneAssumption DEF Commands
<1>3. cmd' = [cmd EXCEPT ![i] = new]
  BY <1>1, NextPhaseIs
<1>4. /\ new.kind = c.kind /\ new.account = c.account /\ new.key = c.key
      /\ new.phase = phase /\ new.object = x /\ new.data = data
  OBVIOUS
<1> HIDE DEF new
<1> QED BY <1>1, <1>2, <1>3, <1>4

LEMMA FinishIs ==
    ASSUME Typed, NEW i \in Servers, Finish(i)
    PROVE  /\ cmd' \in [Servers -> Commands \cup {None}]
           /\ \A j \in Servers : j # i => cmd'[j] = cmd[j]
           /\ cmd'[i] = None
BY DEF Typed, Finish

\* What is known of the command that server i runs.
LEMMA CommandIs ==
    ASSUME StoreOK, NEW i \in Servers, cmd[i] # None
    PROVE  /\ cmd[i] \in Commands /\ cmd[i].account \in Accounts
           /\ cmd[i].kind \in Kinds /\ cmd[i].object \in Objects \cup {None}
           /\ Commanding(i, cmd[i].account)
           /\ CommandOK(i)
BY DEF StoreOK, ServerOK, Typed, Commands, Commanding

\* After a step that has changed server i's memory to m.
LEMMA ServersStayOK ==
    ASSUME StoreOK, Typed', Growing, NEW i \in Servers, NEW m, MemoryOK(m), SetMemory(i, m),
           Claims(m, claimed'), CommandOK(i)', ReloadOK(i)',
           \A j \in Servers : j # i => cmd'[j] = cmd[j] /\ reload'[j] = reload[j],
           \A o \in Accounts : bucket[o] # None => bucket'[o] # None
    PROVE  \A j \in Servers : ServerOK(j)'
<1>1. Typed
  BY DEF StoreOK
<1>2. /\ \A j \in Servers : j # i => Memory(j)' = Memory(j)
      /\ MemoryOK(Memory(i)') /\ Claims(Memory(i)', claimed')
      /\ \A x \in Objects : heap'[i][x] # None => x \in InUse(i)'
  BY <1>1, SetMemoryIs
<1>3. ServerOK(i)'
  BY <1>2 DEF ServerOK
<1> QED BY <1>2, <1>3, ServerStaysOK

LEMMA OthersFollow ==
    ASSUME StoreOK, Typed', Growing, NEW i \in Servers, NEW m, MemoryOK(m), SetMemory(i, m),
           \A j \in Servers : j # i => cmd'[j] = cmd[j],
           NEW p \in Accounts, Follows(p), Apart(Memory(i), m, p, claimed'),
           Commanding(i, p) \/ Commanding(i, p)' => cmd'[i] = cmd[i],
           \A j \in Servers : p \in behind'[j] <=> p \in behind[j],
           wanted'[p] = wanted[p], bucket'[p] = bucket[p]
    PROVE  Follows(p)'
<1>1. Typed
  BY DEF StoreOK
<1>2. \A j \in Servers : j # i => Memory(j)' = Memory(j)
  BY <1>1, SetMemoryIs
<1>3. Untouched(i, p)
  BY UntouchedIfApart
<1>4. \A j \in Servers : j # i => Untouched(j, p)
  BY <1>2, UntouchedIfUnchanged
<1> QED BY <1>3, <1>4, FollowsKept

LEMMA ServerFollowsMemory ==
    ASSUME Typed, NEW i \in Servers, NEW m, MemoryOK(m), SetMemory(i, m), NEW o \in Accounts,
           Shows(m, o, claimed'),
           (Commanding(i, o)' /\ cmd'[i].phase = "save") \/ RefsExact(m, o),
           m.owners[o] # None =>
              Listed(Slice(m, m.owners[o])) = (IF Past(i, o)' THEN wanted'[o] ELSE Listed(Bucket(o)'))
    PROVE  ServerFollows(i, o)'
<1>1. /\ owners'[i] = m.owners
      /\ Shows(Memory(i)', o, claimed')
      /\ RefsExact(m, o) => RefsExact(Memory(i)', o)
      /\ m.owners[o] # None => Slice(Memory(i)', owners'[i][o]) = Slice(m, m.owners[o])
  BY SetMemoryIs
<1> QED BY <1>1 DEF ServerFollows

LEMMA OtherServersFollow ==
    ASSUME Growing, NEW j \in Servers, NEW o \in Accounts, ServerFollows(j, o),
           Memory(j)' = Memory(j), ~Commanding(j, o), ~Commanding(j, o)',
           owners[j][o] # None => Bucket(o)' = Bucket(o)
    PROVE  ServerFollows(j, o)'
<1>1. owners'[j] = owners[j]
  BY DEF Memory
<1>2. Shows(Memory(j)', o, claimed')
  BY AddingKeeps DEF ServerFollows, Growing
<1>3. ~Past(j, o) /\ ~Past(j, o)'
  BY DEF Past
<1> QED BY <1>1, <1>2, <1>3 DEF ServerFollows

LEMMA ProceedIs ==
    ASSUME StoreOK, NEW i \in Servers, cmd[i] # None, NEW m, NEW x \in Objects, Proceed(i, m, x)
    PROVE  /\ cmd' \in [Servers -> Commands \cup {None}]
           /\ \A j \in Servers : j # i => cmd'[j] = cmd[j]
           /\ cmd'[i] # None =>
                 /\ cmd'[i].kind = cmd[i].kind /\ cmd'[i].account = cmd[i].account
                 /\ cmd'[i].key = cmd[i].key /\ cmd'[i].data = None
                 /\ \/ cmd[i].kind = "login" /\ cmd'[i].phase = "save" /\ cmd'[i].object = x
                    \/ cmd[i].kind = "add" /\ cmd'[i].phase = "op" /\ cmd'[i].object = x
                    \/ cmd[i].kind \in KeyActions /\ cmd'[i].phase = "op" /\ cmd'[i].object = None
<1>1. Typed /\ cmd[i].kind \in Kinds
  BY CommandIs DEF StoreOK
<1>2. \A phase, y : Go(i, phase, y) => cmd' = NextPhase(cmd, i, phase, y, None)
  BY DEF Go, NextPhase
<1>3. CASE cmd[i].kind = "login" /\ Go(i, "save", x)
  BY <1>1, <1>2, <1>3, GoIs
<1>4. CASE cmd[i].kind = "add" /\ Go(i, "op", x)
  BY <1>1, <1>2, <1>4, GoIs
<1>5. CASE cmd[i].kind \in KeyActions /\ Go(i, "op", None)
  <2>1. cmd' = NextPhase(cmd, i, "op", None, None) /\ None \in Objects \cup {None}
    BY <1>2, <1>5
  <2>2. /\ cmd' \in [Servers -> Commands \cup {None}]
        /\ \A j \in Servers : j # i => cmd'[j] = cmd[j]
        /\ cmd'[i].kind = cmd[i].kind /\ cmd'[i].account = cmd[i].account
        /\ cmd'[i].key = cmd[i].key /\ cmd'[i].data = None
        /\ cmd'[i].phase = "op" /\ cmd'[i].object = None
    BY <2>1, <1>1, GoIs
  <2> QED BY <2>2, <1>5
<1>6. CASE Finish(i)
  BY <1>1, <1>6, FinishIs
<1> QED BY <1>1, <1>3, <1>4, <1>5, <1>6 DEF Proceed, Kinds

LEMMA GetOwnerKeeps ==
    ASSUME Inv, NEW i \in Servers, GetOwner(i), Disturb(cmd[i].account, failures' # failures),
           UNCHANGED <<wanted, claimed, behind>>, NEW o, o = cmd[i].account
    PROVE  Inv'
<1>1. StoreOK /\ Typed /\ BucketOK /\ ServerOK(i)
  BY DEF Inv, StoreOK
<1>2. /\ cmd[i] # None /\ cmd[i].phase = "get" /\ bucket[o] # None
      /\ cmd' = Loading(cmd, i, bucket[o])
      /\ UNCHANGED <<bucket, owners, heap, ref, reload, failures>>
  BY DEF GetOwner, At, memory, Loading
<1>3. cmd[i] \in Commands /\ o \in Accounts /\ CommandOK(i)
  BY <1>1, <1>2, CommandIs
<1>4. cmd[i].object = None
  BY <1>2, <1>3 DEF CommandOK
<1>5. bucket[o] \in Lists /\ bucket[o] \in Seq(Records) /\ LinkedKeys(bucket[o]) \subseteq claimed[o]
  BY <1>1, <1>2, <1>3 DEF Typed, Lists, BucketOK, Bucket
<1>6. /\ cmd' \in [Servers -> Commands \cup {None}]
      /\ \A j \in Servers : j # i => cmd'[j] = cmd[j]
      /\ cmd'[i] # None
      /\ cmd'[i].kind = cmd[i].kind /\ cmd'[i].account = o /\ cmd'[i].key = cmd[i].key
      /\ cmd'[i].phase = "load" /\ cmd'[i].object = None /\ cmd'[i].data = bucket[o]
  <2>1. cmd' = NextPhase(cmd, i, "load", None, bucket[o])
    <3>1. cmd \in [Servers -> Commands \cup {None}]
      BY <1>1 DEF Typed
    <3> QED BY <3>1, <1>2, <1>4, <1>5, LoadingIs
  <2> DEFINE data == bucket[o]
  <2>2. data \in Seq(Records) \cup {None} /\ None \in Objects \cup {None}
    BY <1>5
  <2> HIDE DEF data
  <2>3. cmd' = NextPhase(cmd, i, "load", None, data)
    BY <2>1 DEF data
  <2>4. /\ cmd' \in [Servers -> Commands \cup {None}]
        /\ \A j \in Servers : j # i => cmd'[j] = cmd[j]
        /\ cmd'[i] # None
        /\ cmd'[i].kind = cmd[i].kind /\ cmd'[i].account = o /\ cmd'[i].key = cmd[i].key
        /\ cmd'[i].phase = "load" /\ cmd'[i].object = None /\ cmd'[i].data = data
    BY <1>1, <1>2, <2>2, <2>3, GoIs
  <2> QED BY <2>4 DEF data
<1>7. Growing /\ \A j \in Servers : Memory(j)' = Memory(j)
  BY <1>2 DEF Growing, Memory
<1>8. calm' = calm
  BY <1>1, <1>2 DEF Disturb, Typed
<1>9. Typed'
  BY <1>1, <1>2, <1>6, <1>8 DEF Typed
<1>10. ServerOK(i)'
  <2>1. MemoryOK(Memory(i)') /\ Claims(Memory(i)', claimed')
    BY <1>1, <1>7 DEF ServerOK
  <2>2. CommandOK(i)'
    BY <1>2, <1>3, <1>5, <1>6 DEF CommandOK
  <2>3. ReloadOK(i)'
    BY <1>1, <1>2 DEF ServerOK, ReloadOK
  <2>4. \A y \in Objects : heap'[i][y] # None => y \in InUse(i)'
    <3>1. InUse(i) \subseteq InUse(i)'
      BY <1>2, <1>4, <1>6 DEF InUse
    <3> QED BY <3>1, <1>1, <1>2 DEF ServerOK
  <2> QED BY <2>1, <2>2, <2>3, <2>4 DEF ServerOK
<1>11. \A j \in Servers : ServerOK(j)'
  BY <1>1, <1>2, <1>6, <1>7, <1>9, <1>10, ServerStaysOK
<1>12. BucketOK'
  BY <1>1, <1>2 DEF BucketOK, Bucket
<1>13. ASSUME NEW p \in Accounts, calm'[p] PROVE Follows(p)'
  <2>1. Follows(p)
    BY <1>8, <1>13 DEF Inv
  <2>2. CASE p # o
    <3>1. \A j \in Servers : Commanding(j, p) \/ Commanding(j, p)' => cmd'[j] = cmd[j]
      BY <2>2, <1>6 DEF Commanding
    <3>2. \A j \in Servers : Untouched(j, p)
      BY <3>1, <1>2, <1>7, UntouchedIfUnchanged
    <3> QED BY <2>1, <3>2, <1>1, <1>2, FollowsKept
  <2>3. CASE p = o
    <3>1. \A j \in Servers : /\ Commanding(j, o)' <=> Commanding(j, o)
                             /\ Past(j, o)' <=> Past(j, o)
      BY <1>2, <1>6 DEF Commanding, Past
    <3>2. Bucket(o)' = Bucket(o)
      BY <1>2 DEF Bucket
    <3>3. \A j \in Servers : Commanding(j, o) => j = i
      BY <2>1, <2>3, <1>2 DEF Follows, Commanding
    <3>4. CommandFollows(i, o)'
      BY <2>1, <2>3, <1>2, <1>6 DEF Follows, CommandFollows, Commanding
    <3>5. ASSUME NEW j \in Servers, o \notin behind'[j] PROVE ServerFollows(j, o)'
      <4>1. ServerFollows(j, o)
        BY <3>5, <2>1, <2>3, <1>2 DEF Follows
      <4>2. Commanding(j, o)' /\ cmd'[j].phase = "save" <=> Commanding(j, o) /\ cmd[j].phase = "save"
        BY <3>1, <3>3, <1>2, <1>6
      <4> QED BY <4>1, <4>2, <3>1, <3>2, <1>2, <1>7 DEF ServerFollows
    <3> QED BY <2>1, <2>3, <3>1, <3>2, <3>3, <3>4, <3>5, <1>2 DEF Follows
  <2> QED BY <2>2, <2>3
<1> QED BY <1>9, <1>11, <1>12, <1>13 DEF Inv, StoreOK

\* A server that is not behind and does not hold a calm account has no ref to it.
LEMMA NoRefs ==
    ASSUME NEW m, MemoryOK(m), NEW o \in Accounts, RefsOwn(m, o), m.owners[o] = None
    PROVE  \A k \in Keys : ~(m.ref[k] # None /\ Claimant(m, k) = o)
BY DEF RefsOwn

LEMMA LoadOwnerKeeps ==
    ASSUME Inv, NEW i \in Servers, LoadOwner(i), Disturb(cmd[i].account, failures' # failures),
           UNCHANGED <<wanted, claimed, behind>>, NEW o, o = cmd[i].account
    PROVE  Inv'
<1> DEFINE m0 == Memory(i)
           x0 == NewObject(m0)
           m1 == Decode(m0, o, cmd[i].data)
           m2 == Save(m1, x0)
<1>1. StoreOK /\ Typed /\ BucketOK /\ ServerOK(i)
  BY DEF Inv, StoreOK
<1>2. /\ cmd[i] # None /\ cmd[i].phase = "load" /\ Proceed(i, m2, x0) /\ SetMemory(i, m2)
      /\ UNCHANGED <<bucket, reload, failures>>
  BY DEF LoadOwner, At
<1>3. /\ cmd[i] \in Commands /\ o \in Accounts /\ CommandOK(i) /\ cmd[i].kind \in Kinds
      /\ Commanding(i, o)
  BY <1>1, <1>2, CommandIs
<1>4. cmd[i].data \in Lists /\ LinkedKeys(cmd[i].data) \subseteq claimed[o]
  BY <1>2, <1>3 DEF CommandOK
<1>5. PICK m, x, n, data : m = m0 /\ x = x0 /\ n = m1 /\ data = cmd[i].data
  OBVIOUS
<1> DEFINE l == Save(n, x)
<1>6. /\ MemoryOK(m) /\ Claims(m, claimed) /\ m.owners = owners[i] /\ m.ref = ref[i]
      /\ \E y \in Objects : m.heap[y] = None
  <2>1. \E y \in Objects : Memory(i).heap[y] = None
    BY <1>1, FreeExists DEF ServerOK
  <2> QED BY <2>1, <1>1, <1>5 DEF ServerOK, Memory
<1>7. n = Decode(m, o, data) /\ x = NewObject(m) /\ data \in Lists /\ LinkedKeys(data) \subseteq claimed[o]
  BY <1>4, <1>5
<1>8. Proceed(i, l, x) /\ SetMemory(i, l)
  BY <1>2, <1>5
<1> HIDE DEF m0, x0, m1, m2
<1>9. /\ x \in Objects /\ m.heap[x] = None
      /\ MemoryOK(n) /\ n.owners = m.owners /\ n.ref = m.ref
      /\ n.heap[x] # None /\ n.heap[x].account = o /\ Slice(n, x) = data
      /\ Claims(n, claimed)
      /\ \A p \in Accounts : Apart(m, n, p, claimed)
  BY <1>3, <1>6, <1>7, DecodeIs
<1>10. /\ MemoryOK(l) /\ l.heap = n.heap /\ Claims(l, claimed)
       /\ l.owners = [m.owners EXCEPT ![o] = x] /\ Slice(l, x) = data
       /\ \A p \in Accounts : p # o => Apart(n, l, p, claimed)
       /\ (\A k \in Keys : n.ref[k] # None /\ Claimant(n, k) = o => k \in LinkedKeys(data))
             => RefsExact(l, o) /\ \A added : Shows(l, o, added)
  BY <1>9, SaveIs
<1> HIDE DEF l
<1>11. l.owners[o] = x /\ x # None
  BY <1>3, <1>6, <1>9, <1>10, NoneAssumption DEF MemoryOK, Memories
<1>12. /\ cmd' \in [Servers -> Commands \cup {None}]
       /\ \A j \in Servers : j # i => cmd'[j] = cmd[j]
       /\ cmd'[i] # None =>
             /\ cmd'[i].kind = cmd[i].kind /\ cmd'[i].account = o
             /\ cmd'[i].key = cmd[i].key /\ cmd'[i].data = None
             /\ \/ cmd[i].kind = "login" /\ cmd'[i].phase = "save" /\ cmd'[i].object = x
                \/ cmd[i].kind = "add" /\ cmd'[i].phase = "op" /\ cmd'[i].object = x
                \/ cmd[i].kind \in KeyActions /\ cmd'[i].phase = "op" /\ cmd'[i].object = None
  BY <1>1, <1>2, <1>8, <1>9, ProceedIs
<1>13. Growing /\ calm' = calm
  BY <1>1, <1>2 DEF Growing, Disturb, Typed
<1>14. /\ owners' \in [Servers -> [Accounts -> Objects \cup {None}]]
       /\ heap' \in [Servers -> [Objects -> OwnerObjects \cup {None}]]
       /\ ref' \in [Servers -> [Keys -> Refs \cup {None}]]
       /\ owners'[i] = l.owners
       /\ \A j \in Servers : j # i => Memory(j)' = Memory(j)
       /\ \A y \in Objects : y \in InUse(i)' =>
             heap'[i][y] = l.heap[y] /\ Slice(Memory(i)', y) = Slice(l, y)
  BY <1>1, <1>8, <1>10, SetMemoryIs
<1>15. Typed'
  BY <1>1, <1>2, <1>12, <1>13, <1>14 DEF Typed
<1>16. CommandOK(i)'
  <2>1. cmd'[i] # None /\ cmd'[i].object # None => heap'[i][cmd'[i].object] = n.heap[cmd'[i].object]
    <3>1. cmd'[i] # None => cmd'[i].object \in InUse(i)'
      BY DEF InUse
    <3> QED BY <3>1, <1>9, <1>10, <1>12, <1>14
  <2> QED BY <2>1, <1>2, <1>3, <1>9, <1>11, <1>12, <1>14 DEF CommandOK, KeyActions
<1>17. ReloadOK(i)'
  BY <1>1, <1>2 DEF ServerOK, ReloadOK
<1>18. \A j \in Servers : ServerOK(j)'
  BY <1>1, <1>2, <1>8, <1>10, <1>12, <1>13, <1>15, <1>16, <1>17, ServersStayOK
<1>19. BucketOK'
  BY <1>1, <1>2 DEF BucketOK, Bucket
<1>20. ASSUME NEW p \in Accounts, calm'[p] PROVE Follows(p)'
  <2>1. Follows(p)
    BY <1>13, <1>20 DEF Inv
  <2>2. CASE p # o
    <3>1. Apart(Memory(i), l, p, claimed')
      BY <2>2, <1>5, <1>9, <1>10, ApartTwice DEF m0
    <3>2. ~Commanding(i, p) /\ ~Commanding(i, p)'
      BY <2>2, <1>12 DEF Commanding
    <3> QED BY <2>1, <3>1, <3>2, <1>1, <1>2, <1>8, <1>10, <1>12, <1>13, <1>15, OthersFollow
  <2>3. CASE p = o
    <3>1. /\ CommandFollows(i, o) /\ owners[i][o] = None /\ data = bucket[o] /\ o \notin behind[i]
          /\ \A j \in Servers : j # i => ~Commanding(j, o)
      BY <2>1, <2>3, <1>2, <1>3, <1>5 DEF Follows, CommandFollows
    <3>2. ServerFollows(i, o) /\ \A j \in Servers : ~Past(j, o)
      BY <2>1, <2>3, <3>1, <1>2 DEF Follows, Past, Commanding
    <3>3. wanted[o] = Listed(Bucket(o)) /\ Bucket(o) = data /\ Bucket(o)' = data /\ wanted'[o] = wanted[o]
      <4>1. bucket[o] # None
        BY <3>1, <1>7, NoneAssumption DEF Lists
      <4> QED BY <4>1, <2>1, <2>3, <3>1, <3>2, <1>2 DEF Follows, Bucket
    <3>4. \A k \in Keys : ~(n.ref[k] # None /\ Claimant(n, k) = o)
      <4>1. Shows(m, o, claimed)
        BY <3>2, <1>5 DEF ServerFollows, m0
      <4>2. RefsOwn(n, o)
        BY <4>1, <1>3, <1>6, <1>9, ApartKeeps DEF Shows
      <4> QED BY <4>2, <3>1, <1>3, <1>6, <1>9, NoRefs
    <3>5. RefsExact(l, o) /\ Shows(l, o, claimed')
      BY <3>4, <1>10
    <3>6. ServerFollows(i, o)'
      BY <3>3, <3>5, <1>1, <1>3, <1>8, <1>10, <1>11, ServerFollowsMemory
    <3>7. \A j \in Servers : j # i => ~Commanding(j, o)'
      BY <3>1, <1>12 DEF Commanding
    <3>8. ASSUME NEW j \in Servers, j # i, o \notin behind'[j] PROVE ServerFollows(j, o)'
      <4>1. ServerFollows(j, o)
        BY <3>8, <2>1, <2>3 DEF Follows
      <4> QED BY <4>1, <3>1, <3>3, <3>7, <3>8, <1>3, <1>13, <1>14, OtherServersFollow
    <3>9. ASSUME Commanding(i, o)' PROVE CommandFollows(i, o)'
      BY <3>9, <3>1, <1>11, <1>12, <1>14 DEF CommandFollows, SaveReady, Commanding, KeyActions
    <3> QED BY <2>3, <3>3, <3>6, <3>7, <3>8, <3>9 DEF Follows
  <2> QED BY <2>2, <2>3
<1> QED BY <1>15, <1>18, <1>19, <1>20 DEF Inv, StoreOK

LEMMA GetOwnerFailsKeeps ==
    ASSUME Inv, NEW i \in Servers, GetOwnerFails(i), Disturb(cmd[i].account, failures' # failures),
           UNCHANGED <<wanted, claimed, behind>>, NEW o, o = cmd[i].account
    PROVE  Inv'
<1> DEFINE m0 == Memory(i)
           x0 == NewObject(m0)
           m1 == Decode(m0, o, <<>>)
           m2 == Save(m1, x0)
<1>1. StoreOK /\ Typed /\ BucketOK /\ ServerOK(i)
  BY DEF Inv, StoreOK
<1>2. /\ cmd[i] # None /\ cmd[i].phase = "get"
      /\ (bucket[o] = None /\ failures' = failures) \/ Fail
      /\ \/ cmd[i].kind = "login" /\ Go(i, "save", x0) /\ SetMemory(i, m1)
         \/ cmd[i].kind = "add" /\ Go(i, "op", x0) /\ SetMemory(i, m2)
         \/ cmd[i].kind \in KeyActions /\ Finish(i) /\ SetMemory(i, m0)
      /\ UNCHANGED <<bucket, reload>>
  BY DEF GetOwnerFails, At, KeepMemory
<1>3. /\ cmd[i] \in Commands /\ o \in Accounts /\ CommandOK(i) /\ cmd[i].kind \in Kinds
      /\ Commanding(i, o)
  BY <1>1, <1>2, CommandIs
<1>4. PICK m, x, n : m = m0 /\ x = x0 /\ n = m1
  OBVIOUS
<1> DEFINE saved == Save(n, x)
<1>5. /\ MemoryOK(m) /\ Claims(m, claimed) /\ m.owners = owners[i] /\ m.ref = ref[i]
      /\ \E y \in Objects : m.heap[y] = None
  <2>1. \E y \in Objects : Memory(i).heap[y] = None
    BY <1>1, FreeExists DEF ServerOK
  <2> QED BY <2>1, <1>1, <1>4 DEF ServerOK, Memory
<1>6. n = Decode(m, o, <<>>) /\ x = NewObject(m)
  BY <1>4
<1>7. /\ \/ cmd[i].kind = "login" /\ Go(i, "save", x) /\ SetMemory(i, n)
         \/ cmd[i].kind = "add" /\ Go(i, "op", x) /\ SetMemory(i, saved)
         \/ cmd[i].kind \in KeyActions /\ Finish(i) /\ SetMemory(i, m)
  BY <1>2, <1>4
<1>8. m = Memory(i)
  BY <1>4
<1> HIDE DEF m0, x0, m1, m2
<1>9. /\ x \in Objects /\ m.heap[x] = None
      /\ MemoryOK(n) /\ n.owners = m.owners /\ n.ref = m.ref
      /\ n.heap[x] # None /\ n.heap[x].account = o /\ Slice(n, x) = <<>>
      /\ Claims(n, claimed)
      /\ \A p \in Accounts : Apart(m, n, p, claimed)
  BY <1>3, <1>5, <1>6, EmptyList, DecodeIs
<1>10. /\ MemoryOK(saved) /\ saved.heap = n.heap /\ Claims(saved, claimed)
       /\ saved.owners = [m.owners EXCEPT ![o] = x] /\ Slice(saved, x) = <<>>
       /\ \A p \in Accounts : p # o => Apart(n, saved, p, claimed)
       /\ (\A k \in Keys : ~(n.ref[k] # None /\ Claimant(n, k) = o))
             => RefsExact(saved, o) /\ \A added : Shows(saved, o, added)
  BY <1>9, SaveIs
<1> HIDE DEF saved
<1>11. saved.owners[o] = x /\ x # None
  BY <1>3, <1>5, <1>9, <1>10, NoneAssumption DEF MemoryOK, Memories
<1>12. PICK l :
          /\ MemoryOK(l) /\ Claims(l, claimed) /\ SetMemory(i, l)
          /\ \A p \in Accounts : p # o => Apart(m, l, p, claimed)
          /\ \/ cmd[i].kind = "login" /\ Go(i, "save", x) /\ l = n
             \/ cmd[i].kind = "add" /\ Go(i, "op", x) /\ l = saved
             \/ cmd[i].kind \in KeyActions /\ Finish(i) /\ l = m
  <2>1. \A p \in Accounts : p # o => Apart(m, saved, p, claimed)
    BY <1>9, <1>10, ApartTwice
  <2>2. \A p \in Accounts : Apart(m, m, p, claimed)
    BY DEF Apart
  <2>3. CASE cmd[i].kind = "login" /\ Go(i, "save", x) /\ SetMemory(i, n)
    BY <2>3, <1>9
  <2>4. CASE cmd[i].kind = "add" /\ Go(i, "op", x) /\ SetMemory(i, saved)
    BY <2>1, <2>4, <1>10
  <2>5. CASE cmd[i].kind \in KeyActions /\ Finish(i) /\ SetMemory(i, m)
    BY <2>2, <2>5, <1>5
  <2> QED BY <2>3, <2>4, <2>5, <1>7
<1>13. /\ cmd' \in [Servers -> Commands \cup {None}]
       /\ \A j \in Servers : j # i => cmd'[j] = cmd[j]
       /\ cmd'[i] # None =>
             /\ cmd'[i].kind = cmd[i].kind /\ cmd'[i].account = o
             /\ cmd'[i].key = cmd[i].key /\ cmd'[i].data = None /\ cmd'[i].object = x
             /\ \/ cmd[i].kind = "login" /\ cmd'[i].phase = "save" /\ l = n
                \/ cmd[i].kind = "add" /\ cmd'[i].phase = "op" /\ l = saved
       /\ cmd'[i] = None => l = m
  <2>1. \A phase : Go(i, phase, x) => cmd' = NextPhase(cmd, i, phase, x, None)
    BY DEF Go, NextPhase
  <2>2. CASE cmd[i].kind = "login" /\ Go(i, "save", x) /\ l = n
    BY <2>1, <2>2, <1>1, <1>2, <1>9, GoIs
  <2>3. CASE cmd[i].kind = "add" /\ Go(i, "op", x) /\ l = saved
    BY <2>1, <2>3, <1>1, <1>2, <1>9, GoIs
  <2>4. CASE Finish(i) /\ l = m
    BY <2>4, <1>1, FinishIs
  <2> QED BY <2>2, <2>3, <2>4, <1>12
<1>14. /\ Growing /\ calm' \in [Accounts -> BOOLEAN] /\ failures' \in 0..MaxFailures
       /\ \A p \in Accounts : calm'[p] => calm[p]
       /\ calm'[o] => bucket[o] = None
  <2>1. calm' = [calm EXCEPT ![o] = @ /\ ~(failures' # failures)]
    BY DEF Disturb
  <2>2. Fail => failures' # failures /\ failures' \in 0..MaxFailures
    BY <1>1, MaxFailuresAssumption DEF Fail, Typed
  <2> QED BY <2>1, <2>2, <1>1, <1>2, <1>3 DEF Growing, Typed
<1>15. /\ owners' \in [Servers -> [Accounts -> Objects \cup {None}]]
       /\ heap' \in [Servers -> [Objects -> OwnerObjects \cup {None}]]
       /\ ref' \in [Servers -> [Keys -> Refs \cup {None}]]
       /\ owners'[i] = l.owners
       /\ \A j \in Servers : j # i => Memory(j)' = Memory(j)
       /\ \A y \in Objects : y \in InUse(i)' =>
             heap'[i][y] = l.heap[y] /\ Slice(Memory(i)', y) = Slice(l, y)
  BY <1>1, <1>12, SetMemoryIs
<1>16. Typed'
  BY <1>1, <1>2, <1>13, <1>14, <1>15 DEF Typed
<1>17. cmd'[i] # None => /\ heap'[i][x] = n.heap[x] /\ Slice(Memory(i)', x) = <<>>
  <2>1. cmd'[i] # None => x \in InUse(i)'
    BY <1>13 DEF InUse
  <2> QED BY <2>1, <1>9, <1>10, <1>13, <1>15
<1>18. CommandOK(i)'
  BY <1>3, <1>9, <1>11, <1>13, <1>15, <1>17, <1>2 DEF CommandOK, KeyActions
<1>19. ReloadOK(i)'
  BY <1>1, <1>2 DEF ServerOK, ReloadOK
<1>20. \A j \in Servers : ServerOK(j)'
  BY <1>1, <1>2, <1>12, <1>13, <1>14, <1>16, <1>18, <1>19, ServersStayOK
<1>21. BucketOK'
  BY <1>1, <1>2 DEF BucketOK, Bucket
<1>22. ASSUME NEW p \in Accounts, calm'[p] PROVE Follows(p)'
  <2>1. Follows(p)
    BY <1>14, <1>22 DEF Inv
  <2>2. CASE p # o
    <3>1. ~Commanding(i, p) /\ ~Commanding(i, p)'
      BY <2>2, <1>13 DEF Commanding
    <3>2. Apart(Memory(i), l, p, claimed')
      BY <2>2, <1>8, <1>12
    <3> QED BY <2>1, <3>1, <3>2, <1>1, <1>2, <1>12, <1>13, <1>14, <1>16, OthersFollow
  <2>3. CASE p = o
    <3>1. /\ CommandFollows(i, o) /\ owners[i][o] = None /\ o \notin behind[i]
          /\ \A j \in Servers : j # i => ~Commanding(j, o)
      BY <2>1, <2>3, <1>2, <1>3 DEF Follows, CommandFollows
    <3>2. ServerFollows(i, o) /\ \A j \in Servers : ~Past(j, o)
      BY <2>1, <2>3, <3>1, <1>2 DEF Follows, Past, Commanding
    <3>3. wanted[o] = Listed(Bucket(o)) /\ Bucket(o) = <<>> /\ Bucket(o)' = <<>> /\ wanted'[o] = wanted[o]
      BY <2>1, <2>3, <3>2, <1>2, <1>14, <1>22 DEF Follows, Bucket
    <3>4. /\ Shows(m, o, claimed) /\ Shows(n, o, claimed) /\ RefsExact(m, o)
          /\ \A k \in Keys : ~(n.ref[k] # None /\ Claimant(n, k) = o)
      <4>1. Shows(m, o, claimed) /\ RefsExact(m, o)
        BY <3>2, <1>2, <1>8 DEF ServerFollows
      <4>2. Shows(n, o, claimed) /\ RefsOwn(n, o)
        BY <4>1, <1>3, <1>5, <1>9, ApartKeeps DEF Shows
      <4> QED BY <4>1, <4>2, <3>1, <1>3, <1>5, <1>9, NoRefs
    <3>5. RefsExact(saved, o) /\ Shows(saved, o, claimed)
      BY <3>4, <1>10
    <3>6. ServerFollows(i, o)'
      <4>1. Shows(l, o, claimed')
        BY <3>4, <3>5, <1>12
      <4>2. (Commanding(i, o)' /\ cmd'[i].phase = "save") \/ RefsExact(l, o)
        BY <3>4, <3>5, <1>3, <1>13 DEF Commanding
      <4>3. l.owners[o] # None => Slice(l, l.owners[o]) = <<>>
        BY <3>1, <1>5, <1>9, <1>10, <1>11, <1>12
      <4> QED BY <4>1, <4>2, <4>3, <3>3, <1>1, <1>3, <1>12, ServerFollowsMemory
    <3>7. \A j \in Servers : j # i => ~Commanding(j, o)'
      BY <3>1, <1>13 DEF Commanding
    <3>8. ASSUME NEW j \in Servers, j # i, o \notin behind'[j] PROVE ServerFollows(j, o)'
      <4>1. ServerFollows(j, o)
        BY <3>8, <2>1, <2>3 DEF Follows
      <4> QED BY <4>1, <3>1, <3>3, <3>7, <3>8, <1>3, <1>14, <1>15, OtherServersFollow
    <3>9. ASSUME Commanding(i, o)' PROVE CommandFollows(i, o)'
      BY <3>9, <3>1, <3>3, <1>5, <1>9, <1>11, <1>13, <1>15, <1>17
      DEF CommandFollows, SaveReady, Commanding, KeyActions
    <3> QED BY <2>3, <3>3, <3>6, <3>7, <3>8, <3>9 DEF Follows
  <2> QED BY <2>2, <2>3
<1> QED BY <1>16, <1>20, <1>21, <1>22 DEF Inv, StoreOK

LEMMA HGetOwnerKeeps ==
    ASSUME Inv, NEW i \in Servers, HGetOwner(i)
    PROVE  Inv'
BY GetOwnerKeeps, LoadOwnerKeeps, GetOwnerFailsKeeps DEF HGetOwner

\* The memory's part of a command that it accepts: what it does to the keys the
\* account lists is what the owner has asked for.
LEMMA OperationIs ==
    ASSUME Inv, NEW i \in Servers, HOperation(i), Allowed(i), NEW o, o = cmd[i].account
    PROVE  LET c == cmd[i] IN
           \E l : /\ SetMemory(i, l) /\ MemoryOK(l) /\ Claims(l, claimed')
                  /\ l.owners = owners[i]
                  /\ ObjectsStay(Memory(i), l)
                  /\ \A p \in Accounts : p # o => Apart(Memory(i), l, p, claimed')
                  /\ RefsOwn(Memory(i), o) => RefsOwn(l, o)
                  /\ RefsKept(Memory(i), o, claimed') => RefsKept(l, o, claimed')
                  /\ owners[i][o] # None /\ RefsOwn(Memory(i), o) /\ RefsExact(Memory(i), o)
                        /\ Listed(Slice(Memory(i), owners[i][o])) = wanted[o]
                     => Listed(Slice(l, owners[i][o])) = wanted'[o]
<1> DEFINE c == cmd[i]
           m == Memory(i)
           k == c.key
<1>1. StoreOK /\ Typed /\ BucketOK /\ ServerOK(i)
  BY DEF Inv, StoreOK
<1>2. /\ c # None /\ c.phase = "op"
      /\ wanted' = [wanted EXCEPT ![o][k] =
            CASE c.kind = "add"    -> NewRecord(k)
              [] c.kind = "remove" -> None
              [] OTHER             -> IF @ = None THEN @ ELSE Changed(@, c.kind)]
      /\ claimed' = [claimed EXCEPT ![o] = IF c.kind = "add" THEN @ \cup {k} ELSE @]
  BY DEF HOperation, Operation, At, NewRecord
<1>3. /\ c \in Commands /\ o \in Accounts /\ CommandOK(i) /\ c.kind \in Kinds /\ Commanding(i, o)
  BY <1>1, <1>2, CommandIs
<1>4. k \in Keys /\ owners[i][o] # None /\ c.kind # "login"
  BY <1>2, <1>3 DEF CommandOK
<1>5. MemoryOK(m) /\ Claims(m, claimed) /\ m.owners = owners[i] /\ m.heap = heap[i] /\ m.ref = ref[i]
  BY <1>1 DEF ServerOK, Memory
<1>6. \A p \in Accounts : claimed[p] \subseteq claimed'[p]
  BY <1>1, <1>2 DEF Typed
<1>7. Claims(m, claimed')
  BY <1>5, <1>6, ClaimsGrow
<1>8. wanted \in [Accounts -> [Keys -> Records \cup {None}]] /\ claimed \in [Accounts -> SUBSET Keys]
  BY <1>1 DEF Typed
<1>9. CASE c.kind = "add"
  <2>1. k \notin LinkedKeys(Slice(m, m.owners[o])) /\ SetMemory(i, Link(m, m.owners[o], k))
    BY <1>9 DEF HOperation, Operation, Allowed
  <2>2. k \in claimed'[o] /\ wanted'[o] = With(wanted[o], k, NewRecord(k))
    BY <1>2, <1>3, <1>4, <1>8, <1>9 DEF With
  <2> DEFINE l == Link(m, m.owners[o], k)
  <2>3. /\ MemoryOK(l) /\ l.owners = m.owners
        /\ ObjectsStay(m, l)
        /\ Listed(Slice(l, m.owners[o])) = With(Listed(Slice(m, m.owners[o])), k, NewRecord(k))
        /\ RefsOwn(m, o) => RefsOwn(l, o)
        /\ RefsKept(m, o, claimed') => RefsKept(l, o, claimed')
        /\ Claims(l, claimed') /\ \A p \in Accounts : p # o => Apart(m, l, p, claimed')
    <3>1. /\ MemoryOK(m) /\ o \in Accounts /\ m.owners[o] # None /\ k \in Keys
          /\ k \notin LinkedKeys(Slice(m, m.owners[o]))
          /\ Claims(m, claimed') /\ k \in claimed'[o]
      BY <2>1, <2>2, <1>3, <1>4, <1>5, <1>7
    <3> HIDE DEF m, k
    <3> QED BY <3>1, LinkIs
  <2> HIDE DEF l
  <2>4. SetMemory(i, l)
    BY <2>1 DEF l
  <2> QED BY <2>2, <2>3, <2>4, <1>5
<1>10. CASE c.kind = "remove"
  <2>1. k \in LinkedKeys(Slice(m, m.owners[o])) /\ SetMemory(i, Unlink(m, m.owners[o], k))
    BY <1>10 DEF HOperation, Operation, Allowed
  <2>2. wanted'[o] = With(wanted[o], k, None)
    BY <1>2, <1>3, <1>4, <1>8, <1>10 DEF With
  <2> DEFINE l == Unlink(m, m.owners[o], k)
  <2>3. /\ MemoryOK(l) /\ l.owners = m.owners
        /\ ObjectsStay(m, l)
        /\ Listed(Slice(l, m.owners[o])) = With(Listed(Slice(m, m.owners[o])), k, None)
        /\ RefsOwn(m, o) => RefsOwn(l, o)
        /\ RefsKept(m, o, claimed') => RefsKept(l, o, claimed')
        /\ Claims(l, claimed') /\ \A p \in Accounts : p # o => Apart(m, l, p, claimed')
    <3>1. /\ MemoryOK(m) /\ o \in Accounts /\ m.owners[o] # None /\ k \in Keys
          /\ k \in LinkedKeys(Slice(m, m.owners[o])) /\ Claims(m, claimed')
      BY <2>1, <1>3, <1>4, <1>5, <1>7
    <3> HIDE DEF m, k
    <3> QED BY <3>1, UnlinkIs
  <2> HIDE DEF l
  <2>4. SetMemory(i, l)
    BY <2>1 DEF l
  <2> QED BY <2>2, <2>3, <2>4, <1>5
<1>11. CASE c.kind \notin {"add", "remove"}
  <2>1. m.ref[k] # None /\ Claimant(m, k) = o /\ SetMemory(i, Change(m, k, c.kind))
    BY <1>11 DEF HOperation, Operation, Allowed, Claimant
  <2>2. wanted'[o] = [wanted[o] EXCEPT ![k] = IF @ = None THEN @ ELSE Changed(@, c.kind)]
    BY <1>2, <1>3, <1>4, <1>8, <1>11
  <2> DEFINE l == Change(m, k, c.kind)
  <2>3. /\ MemoryOK(l) /\ l.owners = m.owners
        /\ ObjectsStay(m, l)
        /\ RefsOwn(m, o) /\ RefsExact(m, o) =>
              LET f == Listed(Slice(m, m.owners[o])) IN
              f[k] # None /\ Listed(Slice(l, m.owners[o])) = With(f, k, Changed(f[k], c.kind))
        /\ RefsOwn(m, o) => RefsOwn(l, o)
        /\ RefsKept(m, o, claimed') => RefsKept(l, o, claimed')
        /\ Claims(l, claimed') /\ \A p \in Accounts : p # o => Apart(m, l, p, claimed')
    <3> HIDE DEF m, k, c
    <3> QED BY <2>1, <1>4, <1>5, <1>7, ChangeIs
  <2> HIDE DEF l
  <2>4. SetMemory(i, l)
    BY <2>1 DEF l
  <2>5. RefsOwn(m, o) /\ RefsExact(m, o) /\ Listed(Slice(m, m.owners[o])) = wanted[o] =>
           Listed(Slice(l, m.owners[o])) = wanted'[o]
    BY <2>2, <2>3 DEF With
  <2> QED BY <2>3, <2>4, <2>5, <1>5
<1> QED BY <1>9, <1>10, <1>11

LEMMA OperationKeeps ==
    ASSUME Inv, NEW i \in Servers, HOperation(i), Allowed(i), NEW o, o = cmd[i].account
    PROVE  Inv'
<1>1. StoreOK /\ Typed /\ BucketOK /\ ServerOK(i)
  BY DEF Inv, StoreOK
<1>2. /\ cmd[i] # None /\ cmd[i].phase = "op" /\ Go(i, "save", cmd[i].object)
      /\ UNCHANGED <<bucket, reload, failures, calm, behind>>
      /\ wanted' \in [Accounts -> [Keys -> Records \cup {None}]]
      /\ claimed' \in [Accounts -> SUBSET Keys]
      /\ \A p \in Accounts : claimed[p] \subseteq claimed'[p]
      /\ \A p \in Accounts : p # o => wanted'[p] = wanted[p]
  <2> DEFINE c == cmd[i]
             record == CASE c.kind = "add"    -> NewRecord(c.key)
                         [] c.kind = "remove" -> None
                         [] OTHER -> IF wanted[o][c.key] = None THEN None
                                     ELSE Changed(wanted[o][c.key], c.kind)
  <2>1. /\ c # None /\ c.phase = "op" /\ Go(i, "save", c.object)
        /\ UNCHANGED <<bucket, reload, failures, calm, behind>>
        /\ wanted' = [wanted EXCEPT ![o][c.key] = record]
        /\ claimed' = [claimed EXCEPT ![o] = IF c.kind = "add" THEN @ \cup {c.key} ELSE @]
    BY DEF HOperation, Operation, At, NewRecord
  <2>2. c.key \in Keys /\ o \in Accounts
    BY <1>1, <2>1, CommandIs DEF CommandOK
  <2>3. record \in Records \cup {None}
    <3>1. NewRecord(c.key) \in Records
      BY <2>2 DEF NewRecord, Records
    <3>2. wanted[o][c.key] \in Records \cup {None}
      BY <1>1, <2>2 DEF Typed
    <3> QED BY <3>1, <3>2, ChangedRecord
  <2> HIDE DEF record
  <2> QED BY <1>1, <2>1, <2>2, <2>3 DEF Typed
<1>3. /\ cmd[i] \in Commands /\ o \in Accounts /\ CommandOK(i) /\ Commanding(i, o)
      /\ cmd[i].object \in Objects \cup {None}
  BY <1>1, <1>2, CommandIs
<1>4. owners[i][o] # None /\ cmd[i].kind # "login"
  BY <1>2, <1>3 DEF CommandOK
<1>5. PICK l :
         /\ SetMemory(i, l) /\ MemoryOK(l) /\ Claims(l, claimed') /\ l.owners = owners[i]
         /\ ObjectsStay(Memory(i), l)
         /\ \A p \in Accounts : p # o => Apart(Memory(i), l, p, claimed')
         /\ RefsOwn(Memory(i), o) => RefsOwn(l, o)
         /\ RefsKept(Memory(i), o, claimed') => RefsKept(l, o, claimed')
         /\ owners[i][o] # None /\ RefsOwn(Memory(i), o) /\ RefsExact(Memory(i), o)
               /\ Listed(Slice(Memory(i), owners[i][o])) = wanted[o]
            => Listed(Slice(l, owners[i][o])) = wanted'[o]
  BY OperationIs
<1>6. /\ cmd' \in [Servers -> Commands \cup {None}]
      /\ \A j \in Servers : j # i => cmd'[j] = cmd[j]
      /\ cmd'[i] # None
      /\ cmd'[i].kind = cmd[i].kind /\ cmd'[i].account = o /\ cmd'[i].key = cmd[i].key
      /\ cmd'[i].phase = "save" /\ cmd'[i].object = cmd[i].object /\ cmd'[i].data = None
  <2> DEFINE x == cmd[i].object
  <2>1. cmd' = NextPhase(cmd, i, "save", x, None) /\ x \in Objects \cup {None}
    BY <1>2, <1>3 DEF Go, NextPhase
  <2> HIDE DEF x
  <2>2. /\ cmd' \in [Servers -> Commands \cup {None}]
        /\ \A j \in Servers : j # i => cmd'[j] = cmd[j]
        /\ cmd'[i] # None
        /\ cmd'[i].kind = cmd[i].kind /\ cmd'[i].account = cmd[i].account /\ cmd'[i].key = cmd[i].key
        /\ cmd'[i].phase = "save" /\ cmd'[i].object = x /\ cmd'[i].data = None
    BY <2>1, <1>1, <1>2, GoIs
  <2> QED BY <2>2 DEF x
<1>7. Growing
  BY <1>2 DEF Growing
<1>8. /\ owners' \in [Servers -> [Accounts -> Objects \cup {None}]]
      /\ heap' \in [Servers -> [Objects -> OwnerObjects \cup {None}]]
      /\ ref' \in [Servers -> [Keys -> Refs \cup {None}]]
      /\ owners'[i] = owners[i]
      /\ \A j \in Servers : j # i => Memory(j)' = Memory(j)
      /\ \A y \in Objects : y \in InUse(i)' => heap'[i][y] = l.heap[y]
  BY <1>1, <1>5, SetMemoryIs
<1>9. Typed'
  BY <1>1, <1>2, <1>6, <1>8 DEF Typed
<1>10. CommandOK(i)'
  <2>1. cmd[i].object # None =>
           heap'[i][cmd[i].object] # None /\ heap'[i][cmd[i].object].account = o
    <3> HAVE cmd[i].object # None
    <3>1. cmd[i].object \in InUse(i)'
      BY <1>6 DEF InUse
    <3>2. heap[i][cmd[i].object] # None /\ heap[i][cmd[i].object].account = o
      BY <1>2, <1>3 DEF CommandOK
    <3> QED BY <3>1, <3>2, <1>3, <1>5, <1>8 DEF ObjectsStay, Memory
  <2> QED BY <2>1, <1>2, <1>3, <1>4, <1>6, <1>8 DEF CommandOK
<1>11. ReloadOK(i)'
  <2>1. reload[i] # None => reload[i].at \in Accounts \cup {None}
    BY <1>1 DEF Typed, Reloads
  <2> QED BY <2>1, <1>1, <1>2 DEF ServerOK, ReloadOK
<1>12. \A j \in Servers : ServerOK(j)'
  BY <1>1, <1>2, <1>5, <1>6, <1>7, <1>9, <1>10, <1>11, ServersStayOK
<1>13. BucketOK'
  BY <1>1, <1>2 DEF BucketOK, Bucket
<1>14. ASSUME NEW p \in Accounts, calm'[p] PROVE Follows(p)'
  <2>1. Follows(p)
    BY <1>2, <1>14 DEF Inv
  <2>2. CASE p # o
    <3>1. ~Commanding(i, p) /\ ~Commanding(i, p)'
      BY <2>2, <1>6 DEF Commanding
    <3> QED BY <2>1, <2>2, <3>1, <1>1, <1>2, <1>5, <1>6, <1>7, <1>9, OthersFollow
  <2>3. CASE p = o
    <3>1. /\ CommandFollows(i, o) /\ o \notin behind[i]
          /\ \A j \in Servers : j # i => ~Commanding(j, o)
      BY <2>1, <2>3, <1>3 DEF Follows, CommandFollows
    <3>2. ServerFollows(i, o) /\ \A j \in Servers : ~Past(j, o)
      BY <2>1, <2>3, <3>1, <1>2 DEF Follows, Past, Commanding
    <3>3. wanted[o] = Listed(Bucket(o)) /\ Bucket(o)' = Bucket(o)
      BY <2>1, <2>3, <3>2, <1>2 DEF Follows, Bucket
    <3>4. /\ RefsOwn(Memory(i), o) /\ RefsExact(Memory(i), o)
          /\ RefsKept(Memory(i), o, claimed')
          /\ Listed(Slice(Memory(i), owners[i][o])) = wanted[o]
      <4>1. RefsKept(Memory(i), o, claimed) => RefsKept(Memory(i), o, claimed')
        BY <1>2, <1>3, AddingKeeps
      <4> QED BY <4>1, <3>2, <3>3, <1>2, <1>4 DEF ServerFollows, Shows
    <3>5. Shows(l, o, claimed') /\ Listed(Slice(l, l.owners[o])) = wanted'[o]
      BY <3>4, <1>4, <1>5 DEF Shows
    <3>6. Commanding(i, o)' /\ Past(i, o)'
      BY <1>6 DEF Commanding, Past
    <3>7. ServerFollows(i, o)'
      BY <3>5, <3>6, <1>1, <1>3, <1>5, <1>6, ServerFollowsMemory
    <3>8. \A j \in Servers : j # i => ~Commanding(j, o)'
      BY <3>1, <1>6 DEF Commanding
    <3>9. ASSUME NEW j \in Servers, j # i, o \notin behind'[j] PROVE ServerFollows(j, o)'
      <4>1. ServerFollows(j, o)
        BY <3>9, <2>1, <2>3, <1>2 DEF Follows
      <4> QED BY <4>1, <3>1, <3>3, <3>8, <3>9, <1>3, <1>7, <1>8, OtherServersFollow
    <3>10. CommandFollows(i, o)'
      BY <3>1, <1>2, <1>3, <1>4, <1>6, <1>8 DEF CommandFollows, SaveReady, Commands, Kinds
    <3> QED BY <2>3, <3>6, <3>7, <3>8, <3>9, <3>10 DEF Follows
  <2> QED BY <2>2, <2>3
<1> QED BY <1>9, <1>12, <1>13, <1>14 DEF Inv, StoreOK

LEMMA RefusedKeeps ==
    ASSUME Inv, NEW i \in Servers, HOperation(i), ~Allowed(i), NEW o, o = cmd[i].account
    PROVE  Inv'
<1>1. StoreOK /\ Typed /\ BucketOK /\ ServerOK(i)
  BY DEF Inv, StoreOK
<1>2. /\ cmd[i] # None /\ cmd[i].phase = "op" /\ Finish(i) /\ SetMemory(i, Memory(i))
      /\ UNCHANGED <<bucket, reload, failures, calm, behind, wanted, claimed>>
  <2> DEFINE k == cmd[i].key
  <2>1. /\ cmd[i] # None /\ cmd[i].phase = "op" /\ Finish(i) /\ SetMemory(i, Memory(i))
        /\ UNCHANGED <<bucket, reload, failures, calm, behind>>
    <3>1. Operation(i) /\ UNCHANGED <<calm, behind>>
      BY DEF HOperation
    <3>2. At(i, "op") /\ Finish(i) /\ KeepMemory(i) /\ UNCHANGED <<bucket, reload, failures>>
      BY <3>1 DEF Operation
    <3> QED BY <3>1, <3>2 DEF At, KeepMemory
  <2>2. o \in Accounts /\ k \in Keys
    BY <1>1, <2>1, CommandIs DEF CommandOK
  <2>3. wanted' = [wanted EXCEPT ![o] = [wanted[o] EXCEPT ![k] = wanted[o][k]]]
    BY DEF HOperation
  <2>4. claimed' = [claimed EXCEPT ![o] = claimed[o]]
    BY DEF HOperation
  <2> HIDE DEF k
  <2>5. wanted' = wanted /\ claimed' = claimed
    BY <1>1, <2>2, <2>3, <2>4 DEF Typed
  <2> QED BY <2>1, <2>5
<1>3. o \in Accounts /\ Commanding(i, o)
  BY <1>1, <1>2, CommandIs
<1>4. PICK m : m = Memory(i)
  OBVIOUS
<1>5. MemoryOK(m) /\ Claims(m, claimed') /\ m.owners = owners[i] /\ SetMemory(i, m)
  BY <1>1, <1>2, <1>4 DEF ServerOK, Memory
<1>6. /\ cmd' \in [Servers -> Commands \cup {None}]
      /\ \A j \in Servers : j # i => cmd'[j] = cmd[j]
      /\ cmd'[i] = None
  BY <1>1, <1>2, FinishIs
<1>7. Growing
  BY <1>2 DEF Growing
<1>8. /\ owners' \in [Servers -> [Accounts -> Objects \cup {None}]]
      /\ heap' \in [Servers -> [Objects -> OwnerObjects \cup {None}]]
      /\ ref' \in [Servers -> [Keys -> Refs \cup {None}]]
      /\ \A j \in Servers : j # i => Memory(j)' = Memory(j)
  BY <1>1, <1>5, SetMemoryIs
<1>9. Typed'
  BY <1>1, <1>2, <1>6, <1>8 DEF Typed
<1>10. CommandOK(i)' /\ ReloadOK(i)'
  BY <1>1, <1>2, <1>6 DEF ServerOK, CommandOK, ReloadOK
<1>11. \A j \in Servers : ServerOK(j)'
  BY <1>1, <1>2, <1>5, <1>6, <1>7, <1>9, <1>10, ServersStayOK
<1>12. BucketOK'
  BY <1>1, <1>2 DEF BucketOK, Bucket
<1>13. ASSUME NEW p \in Accounts, calm'[p] PROVE Follows(p)'
  <2>1. Follows(p)
    BY <1>2, <1>13 DEF Inv
  <2>2. CASE p # o
    <3>1. ~Commanding(i, p) /\ ~Commanding(i, p)'
      BY <2>2, <1>6 DEF Commanding
    <3>2. Apart(Memory(i), m, p, claimed')
      BY <1>4 DEF Apart
    <3> QED BY <2>1, <3>1, <3>2, <1>1, <1>2, <1>5, <1>6, <1>7, <1>9, OthersFollow
  <2>3. CASE p = o
    <3>1. /\ o \notin behind[i] /\ \A j \in Servers : j # i => ~Commanding(j, o)
      BY <2>1, <2>3, <1>3 DEF Follows, CommandFollows
    <3>2. ServerFollows(i, o) /\ \A j \in Servers : ~Past(j, o)
      BY <2>1, <2>3, <3>1, <1>2 DEF Follows, Past, Commanding
    <3>3. wanted'[o] = Listed(Bucket(o)') /\ Bucket(o)' = Bucket(o)
      BY <2>1, <2>3, <3>2, <1>2 DEF Follows, Bucket
    <3>4. \A j \in Servers : ~Commanding(j, o)'
      BY <3>1, <1>6 DEF Commanding
    <3>5. ServerFollows(i, o)'
      <4>1. /\ Shows(m, o, claimed') /\ RefsExact(m, o)
            /\ m.owners[o] # None => Listed(Slice(m, m.owners[o])) = Listed(Bucket(o)')
        BY <3>2, <3>3, <1>2, <1>4, <1>5 DEF ServerFollows
      <4>2. ~Past(i, o)'
        BY <3>4 DEF Past
      <4> QED BY <4>1, <4>2, <1>1, <1>3, <1>5, ServerFollowsMemory
    <3>6. ASSUME NEW j \in Servers, j # i, o \notin behind'[j] PROVE ServerFollows(j, o)'
      <4>1. ServerFollows(j, o)
        BY <3>6, <2>1, <2>3, <1>2 DEF Follows
      <4> QED BY <4>1, <3>1, <3>3, <3>4, <3>6, <1>3, <1>7, <1>8, OtherServersFollow
    <3> QED BY <2>3, <3>3, <3>4, <3>5, <3>6 DEF Follows
  <2> QED BY <2>2, <2>3
<1> QED BY <1>9, <1>11, <1>12, <1>13 DEF Inv, StoreOK

LEMMA HOperationKeeps ==
    ASSUME Inv, NEW i \in Servers, HOperation(i)
    PROVE  Inv'
BY OperationKeeps, RefusedKeeps

LEMMA HSaveOwnerKeeps ==
    ASSUME Inv, NEW i \in Servers, HSaveOwner(i), NEW o, o = cmd[i].account
    PROVE  Inv'
<1> DEFINE x0 == IF cmd[i].kind \in KeyActions THEN owners[i][o] ELSE cmd[i].object
<1>1. StoreOK /\ Typed /\ BucketOK /\ ServerOK(i)
  BY DEF Inv, StoreOK
<1>2. PICK m, x : m = Memory(i) /\ x = x0
  OBVIOUS
<1> DEFINE l == Save(m, x)
<1>3. /\ cmd[i] # None /\ cmd[i].phase = "save" /\ SetMemory(i, l)
      /\ cmd' = NextPhase(cmd, i, "put", None, Slice(l, x))
      /\ UNCHANGED <<bucket, reload, failures, wanted, claimed, calm, behind>>
  BY <1>2 DEF HSaveOwner, SaveOwner, At, NextPhase, history
<1>4. /\ cmd[i] \in Commands /\ o \in Accounts /\ CommandOK(i) /\ Commanding(i, o)
      /\ cmd[i].kind \in Kinds /\ cmd[i].object \in Objects \cup {None}
  BY <1>1, <1>3, CommandIs
<1>5. /\ MemoryOK(m) /\ Claims(m, claimed) /\ m.owners = owners[i] /\ m.heap = heap[i]
      /\ m = Memory(i)
  BY <1>1, <1>2 DEF ServerOK, Memory
<1>6. x \in Objects /\ m.heap[x] # None /\ m.heap[x].account = o
  <2>1. CASE cmd[i].kind \in KeyActions
    <3>1. x = m.owners[o] /\ m.owners[o] # None
      BY <2>1, <1>2, <1>3, <1>4, <1>5 DEF CommandOK, KeyActions
    <3> QED BY <3>1, <1>4, <1>5, OwnerFields
  <2>2. CASE cmd[i].kind \notin KeyActions
    <3>1. x = cmd[i].object /\ cmd[i].object # None
      BY <2>2, <1>2, <1>3, <1>4 DEF CommandOK
    <3> QED BY <3>1, <1>3, <1>4, <1>5 DEF CommandOK
  <2> QED BY <2>1, <2>2
<1>7. /\ MemoryOK(l) /\ l.heap = m.heap /\ Claims(l, claimed)
      /\ l.owners = [m.owners EXCEPT ![o] = x] /\ Slice(l, x) = Slice(m, x)
      /\ \A p \in Accounts : p # o => Apart(m, l, p, claimed)
      /\ (\A k \in Keys : m.ref[k] # None /\ Claimant(m, k) = o => k \in LinkedKeys(Slice(m, x)))
            => RefsExact(l, o) /\ \A added : Shows(l, o, added)
  BY <1>5, <1>6, SaveIs
<1> HIDE DEF l, x0
<1>8. l.owners[o] = x /\ x # None
  BY <1>4, <1>5, <1>6, <1>7, NoneAssumption DEF MemoryOK, Memories
<1> DEFINE data == Slice(m, x)
<1>9. data \in Lists /\ data \in Seq(Records) /\ LinkedKeys(data) \subseteq claimed[o]
  BY <1>5, <1>6, SliceIs DEF Lists, Claims
<1>10. cmd' = NextPhase(cmd, i, "put", None, data)
  BY <1>3, <1>7
<1> HIDE DEF data
<1>11. /\ cmd' \in [Servers -> Commands \cup {None}]
       /\ \A j \in Servers : j # i => cmd'[j] = cmd[j]
       /\ cmd'[i] # None
       /\ cmd'[i].kind = cmd[i].kind /\ cmd'[i].account = o /\ cmd'[i].key = cmd[i].key
       /\ cmd'[i].phase = "put" /\ cmd'[i].object = None /\ cmd'[i].data = data
  <2>1. data \in Seq(Records) \cup {None} /\ None \in Objects \cup {None}
    BY <1>9
  <2> QED BY <1>1, <1>3, <1>10, <2>1, GoIs
<1>12. Growing
  BY <1>3 DEF Growing
<1>13. /\ owners' \in [Servers -> [Accounts -> Objects \cup {None}]]
       /\ heap' \in [Servers -> [Objects -> OwnerObjects \cup {None}]]
       /\ ref' \in [Servers -> [Keys -> Refs \cup {None}]]
       /\ owners'[i] = l.owners
       /\ \A j \in Servers : j # i => Memory(j)' = Memory(j)
  BY <1>1, <1>3, <1>7, SetMemoryIs
<1>14. Typed'
  BY <1>1, <1>3, <1>11, <1>13 DEF Typed
<1>15. CommandOK(i)'
  BY <1>3, <1>4, <1>9, <1>11 DEF CommandOK
<1>16. ReloadOK(i)'
  BY <1>1, <1>3 DEF ServerOK, ReloadOK
<1>17. \A j \in Servers : ServerOK(j)'
  BY <1>1, <1>3, <1>7, <1>11, <1>12, <1>14, <1>15, <1>16, ServersStayOK
<1>18. BucketOK'
  BY <1>1, <1>3 DEF BucketOK, Bucket
<1>19. ASSUME NEW p \in Accounts, calm'[p] PROVE Follows(p)'
  <2>1. Follows(p)
    BY <1>3, <1>19 DEF Inv
  <2>2. CASE p # o
    <3>1. ~Commanding(i, p) /\ ~Commanding(i, p)'
      BY <2>2, <1>11 DEF Commanding
    <3>2. Apart(Memory(i), l, p, claimed')
      BY <2>2, <1>3, <1>5, <1>7
    <3> QED BY <2>1, <3>1, <3>2, <1>1, <1>3, <1>7, <1>11, <1>12, <1>14, OthersFollow
  <2>3. CASE p = o
    <3>1. /\ CommandFollows(i, o) /\ SaveReady(i, o) /\ o \notin behind[i]
          /\ \A j \in Servers : j # i => ~Commanding(j, o)
      BY <2>1, <2>3, <1>3, <1>4 DEF Follows, CommandFollows
    <3>2. ServerFollows(i, o) /\ Past(i, o)
      BY <2>1, <2>3, <3>1, <1>3, <1>4 DEF Follows, Past
    <3>3. /\ \A k \in Keys : m.ref[k] # None /\ Claimant(m, k) = o => k \in LinkedKeys(Slice(m, x))
          /\ Listed(Slice(m, x)) = wanted[o]
      <4>1. RefsOwn(m, o)
        BY <3>2, <1>5 DEF ServerFollows, Shows
      <4>2. CASE m.owners[o] # None
        <5>1. x = m.owners[o]
          BY <4>2, <3>1, <1>2, <1>5 DEF SaveReady, x0
        <5>2. Listed(Slice(m, m.owners[o])) = wanted[o]
          BY <4>2, <3>2, <1>5 DEF ServerFollows
        <5> QED BY <4>1, <5>1, <5>2 DEF RefsOwn
      <4>3. CASE m.owners[o] = None
        <5>1. x = cmd[i].object /\ Listed(Slice(m, x)) = wanted[o]
          BY <4>3, <3>1, <1>2, <1>5 DEF SaveReady, x0, KeyActions
        <5> QED BY <4>1, <4>3, <5>1, <1>4, <1>5, NoRefs
      <4> QED BY <4>2, <4>3
    <3>4. RefsExact(l, o) /\ Shows(l, o, claimed')
      BY <3>3, <1>7
    <3>5. Commanding(i, o)' /\ Past(i, o)'
      BY <1>11 DEF Commanding, Past
    <3>6. ServerFollows(i, o)'
      BY <3>3, <3>4, <3>5, <1>1, <1>3, <1>4, <1>7, <1>8, ServerFollowsMemory
    <3>7. \A j \in Servers : j # i => ~Commanding(j, o)'
      BY <3>1, <1>11 DEF Commanding
    <3>8. Bucket(o)' = Bucket(o)
      BY <1>3 DEF Bucket
    <3>9. ASSUME NEW j \in Servers, j # i, o \notin behind'[j] PROVE ServerFollows(j, o)'
      <4>1. ServerFollows(j, o)
        BY <3>9, <2>1, <2>3, <1>3 DEF Follows
      <4> QED BY <4>1, <3>1, <3>7, <3>8, <3>9, <1>4, <1>12, <1>13, OtherServersFollow
    <3>10. CommandFollows(i, o)'
      BY <3>1, <3>3, <1>3, <1>8, <1>11, <1>13 DEF CommandFollows, data
    <3> QED BY <2>3, <3>5, <3>6, <3>7, <3>9, <3>10 DEF Follows
  <2> QED BY <2>2, <2>3
<1> QED BY <1>14, <1>17, <1>18, <1>19 DEF Inv, StoreOK

LEMMA HPutOwnerKeeps ==
    ASSUME Inv, NEW i \in Servers, HPutOwner(i), NEW o, o = cmd[i].account
    PROVE  Inv'
<1>1. StoreOK /\ Typed /\ BucketOK /\ ServerOK(i)
  BY DEF Inv, StoreOK
<1>2. PICK data : data = cmd[i].data
  OBVIOUS
<1>3. /\ cmd[i] # None /\ cmd[i].phase = "put" /\ Finish(i)
      /\ \/ bucket' = [bucket EXCEPT ![o] = data] /\ (Fail \/ UNCHANGED failures)
         \/ bucket' = bucket /\ Fail
      /\ UNCHANGED <<owners, heap, ref, reload, wanted, claimed>>
      /\ calm' = [calm EXCEPT ![o] = @ /\ ~(failures' # failures)]
      /\ behind' = [j \in Servers |-> IF j # i /\ Knows(j, o) THEN behind[j] \cup {o} ELSE behind[j]]
  BY <1>2 DEF HPutOwner, PutOwner, At, memory, Disturb
<1>4. cmd[i] \in Commands /\ o \in Accounts /\ CommandOK(i) /\ Commanding(i, o)
  BY <1>1, <1>3, CommandIs
<1>5. /\ data \in Lists /\ data # None /\ LinkedKeys(data) \subseteq claimed[o]
      /\ cmd[i].object = None
  BY <1>2, <1>3, <1>4, NoneAssumption DEF CommandOK, Lists
<1>6. /\ cmd' \in [Servers -> Commands \cup {None}]
      /\ \A j \in Servers : j # i => cmd'[j] = cmd[j]
      /\ cmd'[i] = None
  BY <1>1, <1>3, FinishIs
<1>7. failures' \in 0..MaxFailures /\ (Fail => failures' # failures)
  BY <1>1, <1>3, MaxFailuresAssumption DEF Typed, Fail
<1>8. /\ bucket' \in [Accounts -> Lists \cup {None}]
      /\ \A p \in Accounts : p # o => bucket'[p] = bucket[p]
      /\ bucket'[o] = data \/ (bucket' = bucket /\ failures' # failures)
  BY <1>1, <1>3, <1>4, <1>5, <1>7 DEF Typed
<1>9. /\ calm' \in [Accounts -> BOOLEAN]
      /\ \A p \in Accounts : calm'[p] => calm[p]
      /\ calm'[o] => bucket'[o] = data
  BY <1>1, <1>3, <1>4, <1>8 DEF Typed
<1>10. /\ behind' \in [Servers -> SUBSET Accounts]
       /\ behind'[i] = behind[i]
       /\ \A j \in Servers : behind'[j] = IF j # i /\ Knows(j, o) THEN behind[j] \cup {o} ELSE behind[j]
  BY <1>1, <1>3, <1>4 DEF Typed
<1>11. Typed'
  BY <1>1, <1>3, <1>6, <1>7, <1>8, <1>9, <1>10 DEF Typed
<1>12. Growing /\ \A j \in Servers : Memory(j)' = Memory(j)
  BY <1>3 DEF Growing, Memory
<1>13. \A p \in Accounts : bucket[p] # None => bucket'[p] # None
  BY <1>5, <1>8
<1>14. BucketOK'
  <2>1. ASSUME NEW p \in Accounts PROVE LinkedKeys(Bucket(p)') \subseteq claimed[p]
    <3>1. CASE bucket'[p] = bucket[p]
      BY <3>1, <1>1 DEF BucketOK, Bucket
    <3>2. CASE p = o /\ bucket'[o] = data
      BY <3>2, <1>5 DEF Bucket
    <3> QED BY <3>1, <3>2, <1>8
  <2> QED BY <2>1, <1>3 DEF BucketOK
<1>15. ServerOK(i)'
  <2>1. MemoryOK(Memory(i)') /\ Claims(Memory(i)', claimed')
    BY <1>1, <1>3, <1>12 DEF ServerOK
  <2>2. CommandOK(i)'
    BY <1>6 DEF CommandOK
  <2>3. ReloadOK(i)'
    <3>1. reload[i] # None => reload[i].todo \subseteq Accounts
      BY <1>1 DEF Typed, Reloads
    <3> QED BY <3>1, <1>1, <1>3, <1>13 DEF ServerOK, ReloadOK
  <2>4. \A y \in Objects : heap'[i][y] # None => y \in InUse(i)'
    <3>1. InUse(i) \subseteq InUse(i)' \cup {None}
      BY <1>3, <1>5 DEF InUse
    <3> QED BY <3>1, <1>1, <1>3, NoneAssumption DEF ServerOK
  <2> QED BY <2>1, <2>2, <2>3, <2>4 DEF ServerOK
<1>16. \A j \in Servers : ServerOK(j)'
  BY <1>1, <1>3, <1>6, <1>11, <1>12, <1>13, <1>15, ServerStaysOK
<1>17. ASSUME NEW p \in Accounts, calm'[p] PROVE Follows(p)'
  <2>1. Follows(p)
    BY <1>9, <1>17 DEF Inv
  <2>2. CASE p # o
    <3>1. \A j \in Servers : /\ Commanding(j, p) \/ Commanding(j, p)' => cmd'[j] = cmd[j]
                             /\ p \in behind'[j] <=> p \in behind[j]
      BY <2>2, <1>6, <1>10 DEF Commanding
    <3>2. \A j \in Servers : Untouched(j, p)
      BY <3>1, <1>12, UntouchedIfUnchanged
    <3> QED BY <2>1, <2>2, <3>2, <1>1, <1>3, <1>8, FollowsKept
  <2>3. CASE p = o
    <3>1. /\ o \notin behind[i] /\ Listed(data) = wanted[o] /\ owners[i][o] # None
          /\ \A j \in Servers : j # i => ~Commanding(j, o)
      BY <2>1, <2>3, <1>2, <1>3, <1>4 DEF Follows, CommandFollows
    <3>2. ServerFollows(i, o) /\ Past(i, o)
      BY <2>1, <2>3, <3>1, <1>3, <1>4 DEF Follows, Past
    <3>3. Listed(Bucket(o)') = wanted'[o]
      BY <2>3, <3>1, <1>3, <1>5, <1>9, <1>17 DEF Bucket
    <3>4. \A j \in Servers : ~Commanding(j, o)' /\ ~Past(j, o)'
      BY <3>1, <1>6 DEF Commanding, Past
    <3>5. ServerFollows(i, o)'
      BY <3>2, <3>3, <3>4, <1>3, <1>12 DEF ServerFollows
    <3>6. ASSUME NEW j \in Servers, j # i, o \notin behind'[j] PROVE ServerFollows(j, o)'
      <4>1. o \notin behind[j] /\ owners[j][o] = None
        BY <3>6, <1>10 DEF Knows
      <4>2. ServerFollows(j, o)
        BY <4>1, <2>1, <2>3 DEF Follows
      <4> QED BY <4>1, <4>2, <3>1, <3>4, <3>6, <1>4, <1>12, OtherServersFollow
    <3> QED BY <2>3, <3>3, <3>4, <3>5, <3>6 DEF Follows
  <2> QED BY <2>2, <2>3
<1> QED BY <1>11, <1>14, <1>16, <1>17 DEF Inv, StoreOK

\* A step of a reload that reads, and leaves the memory alone.
LEMMA ReloadOnlyKeeps ==
    ASSUME Inv, NEW i \in Servers,
           UNCHANGED <<bucket, owners, heap, ref, cmd, wanted, claimed, calm, behind>>,
           failures' \in 0..MaxFailures,
           NEW r \in Reloads \cup {None}, reload' = [reload EXCEPT ![i] = r],
           r # None => \A o \in r.todo : bucket[o] # None,
           r # None /\ r.at # None => r.data \in Lists /\ LinkedKeys(r.data) \subseteq claimed[r.at]
    PROVE  Inv'
<1>1. StoreOK /\ Typed /\ BucketOK /\ ServerOK(i)
  BY DEF Inv, StoreOK
<1>2. reload'[i] = r /\ \A j \in Servers : j # i => reload'[j] = reload[j]
  BY <1>1 DEF Typed
<1>3. Growing /\ \A j \in Servers : Memory(j)' = Memory(j)
  BY DEF Growing, Memory
<1>4. Typed'
  BY <1>1 DEF Typed
<1>5. ServerOK(i)'
  <2>1. MemoryOK(Memory(i)') /\ Claims(Memory(i)', claimed')
    BY <1>1, <1>3 DEF ServerOK
  <2>2. CommandOK(i)'
    BY <1>1 DEF ServerOK, CommandOK
  <2>3. ReloadOK(i)'
    BY <1>2 DEF ReloadOK
  <2>4. \A y \in Objects : heap'[i][y] # None => y \in InUse(i)'
    <3>1. InUse(i)' = InUse(i)
      BY DEF InUse
    <3> QED BY <3>1, <1>1 DEF ServerOK
  <2> QED BY <2>1, <2>2, <2>3, <2>4 DEF ServerOK
<1>6. \A j \in Servers : ServerOK(j)'
  BY <1>1, <1>2, <1>3, <1>4, <1>5, ServerStaysOK
<1>7. BucketOK'
  BY <1>1 DEF BucketOK, Bucket
<1>8. ASSUME NEW p \in Accounts, calm'[p] PROVE Follows(p)'
  <2>1. Follows(p)
    BY <1>8 DEF Inv
  <2>2. \A j \in Servers : Untouched(j, p)
    BY <1>3, UntouchedIfUnchanged
  <2> QED BY <2>1, <2>2, <1>1, FollowsKept
<1> QED BY <1>4, <1>6, <1>7, <1>8 DEF Inv, StoreOK

\* reload after server i's has read an owner, and after it has failed to.
Reading(reloads, i, o, data) ==
    [reloads EXCEPT ![i].todo = @ \ {o}, ![i].at = o, ![i].data = data]

Skipping(reloads, i, o) == [reloads EXCEPT ![i].todo = @ \ {o}]

HasRead(r, o, data) == [key |-> r.key, todo |-> r.todo \ {o}, at |-> o, data |-> data]

HasSkipped(r, o) == [key |-> r.key, todo |-> r.todo \ {o}, at |-> r.at, data |-> r.data]

LEMMA ReadingIs ==
    ASSUME NEW reloads \in [Servers -> Reloads \cup {None}], NEW i \in Servers, reloads[i] # None,
           NEW o, NEW data
    PROVE  /\ Reading(reloads, i, o, data) = [reloads EXCEPT ![i] = HasRead(reloads[i], o, data)]
           /\ Skipping(reloads, i, o) = [reloads EXCEPT ![i] = HasSkipped(reloads[i], o)]
<1> DEFINE r == reloads[i]
           r1 == [r EXCEPT !.todo = @ \ {o}]
           r2 == [r1 EXCEPT !.at = o]
           r3 == [r2 EXCEPT !.data = data]
<1>1. r = [key |-> r.key, todo |-> r.todo, at |-> r.at, data |-> r.data]
  BY DEF Reloads
<1>2. Reading(reloads, i, o, data) = [reloads EXCEPT ![i] = r3]
  BY DEF Reading
<1>3. Skipping(reloads, i, o) = [reloads EXCEPT ![i] = r1]
  BY DEF Skipping
<1> HIDE DEF r
<1>4. r1 = [key |-> r.key, todo |-> r.todo \ {o}, at |-> r.at, data |-> r.data]
  BY <1>1
<1> HIDE DEF r1
<1>5. r2 = [key |-> r.key, todo |-> r.todo \ {o}, at |-> o, data |-> r.data]
  BY <1>4
<1> HIDE DEF r2
<1>6. r3 = [key |-> r.key, todo |-> r.todo \ {o}, at |-> o, data |-> data]
  BY <1>5
<1> HIDE DEF r3
<1> QED BY <1>2, <1>3, <1>4, <1>6 DEF r, HasRead, HasSkipped

LEMMA HReloadKeeps ==
    ASSUME Inv, NEW i \in Servers, HReload(i)
    PROVE  Inv'
<1>1. StoreOK /\ Typed /\ BucketOK /\ ServerOK(i)
  BY DEF Inv, StoreOK
<1>2. UNCHANGED <<bucket, owners, heap, ref, cmd, wanted, claimed, calm, behind>>
  BY DEF HReload, StartReload, ReloadGet, ReloadEnds, memory, history
<1>3. /\ failures \in 0..MaxFailures
      /\ failures' = failures \/ Fail => failures' \in 0..MaxFailures
  BY <1>1, MaxFailuresAssumption DEF Typed, Fail
<1>4. ASSUME NEW k \in Keys, StartReload(i, k) PROVE Inv'
  <2> DEFINE r == [key |-> k, todo |-> {o \in Accounts : bucket[o] # None}, at |-> None, data |-> None]
  <2>1. /\ r \in Reloads \cup {None} /\ r.at = None /\ \A o \in r.todo : bucket[o] # None
        /\ reload' = [reload EXCEPT ![i] = r] /\ failures' = failures
    BY <1>4 DEF StartReload, Reloads
  <2> HIDE DEF r
  <2> QED BY <2>1, <1>2, <1>3, ReloadOnlyKeeps
<1>5. ASSUME NEW o \in Accounts, ReloadGet(i, o) PROVE Inv'
  <2> DEFINE old == reload[i]
             read == HasRead(old, o, bucket[o])
             skipped == HasSkipped(old, o)
  <2>1. /\ old # None /\ old.at = None /\ o \in old.todo
        /\ \/ reload' = Reading(reload, i, o, bucket[o]) /\ UNCHANGED failures
           \/ reload' = Skipping(reload, i, o) /\ Fail
    BY <1>5 DEF ReloadGet, Reading, Skipping
  <2>2. old \in Reloads /\ \A q \in old.todo : bucket[q] # None
    BY <2>1, <1>1 DEF Typed, ServerOK, ReloadOK
  <2>3. /\ bucket[o] \in Lists /\ bucket[o] \in Seq(Records) /\ LinkedKeys(bucket[o]) \subseteq claimed[o]
    BY <2>1, <2>2, <1>1 DEF Typed, Lists, BucketOK, Bucket
  <2>4. /\ Reading(reload, i, o, bucket[o]) = [reload EXCEPT ![i] = read]
        /\ Skipping(reload, i, o) = [reload EXCEPT ![i] = skipped]
    <3>1. reload \in [Servers -> Reloads \cup {None}] /\ reload[i] # None
      BY <2>1, <1>1 DEF Typed
    <3>2. Skipping(reload, i, o) = [reload EXCEPT ![i] = HasSkipped(reload[i], o)]
      BY <3>1, ReadingIs
    <3>3. \A data : Reading(reload, i, o, data) = [reload EXCEPT ![i] = HasRead(reload[i], o, data)]
      BY <3>1, ReadingIs
    <3> QED BY <3>2, <3>3
  <2>5. /\ read \in Reloads \cup {None} /\ read.todo \subseteq old.todo
        /\ read.at = o /\ read.data = bucket[o]
        /\ skipped \in Reloads \cup {None} /\ skipped.todo \subseteq old.todo /\ skipped.at = None
    BY <2>1, <2>2, <2>3 DEF Reloads, HasRead, HasSkipped
  <2> HIDE DEF read, skipped
  <2>6. CASE reload' = [reload EXCEPT ![i] = read] /\ UNCHANGED failures
    BY <2>2, <2>3, <2>5, <2>6, <1>2, <1>3, ReloadOnlyKeeps
  <2>7. CASE reload' = [reload EXCEPT ![i] = skipped] /\ Fail
    BY <2>2, <2>5, <2>7, <1>2, <1>3, ReloadOnlyKeeps
  <2> QED BY <2>1, <2>4, <2>6, <2>7
<1>6. CASE ReloadEnds(i)
  <2>1. reload' = [reload EXCEPT ![i] = None] /\ failures' = failures
    BY <1>6 DEF ReloadEnds
  <2> QED BY <2>1, <1>2, <1>3, ReloadOnlyKeeps
<1> QED BY <1>4, <1>5, <1>6 DEF HReload

LEMMA HReloadSaveKeeps ==
    ASSUME Inv, NEW i \in Servers, HReloadSave(i), NEW o, o = reload[i].at
    PROVE  Inv'
<1> DEFINE m0 == Memory(i)
           x0 == NewObject(m0)
           n0 == Decode(m0, o, reload[i].data)
           l0 == Save(n0, x0)
           r0 == IF reload[i].key \in LinkedKeys(reload[i].data) THEN None
                 ELSE [reload[i] EXCEPT !.at = None, !.data = None]
<1>1. StoreOK /\ Typed /\ BucketOK /\ ServerOK(i)
  BY DEF Inv, StoreOK
<1>2. PICK m, x, n, data, r : m = m0 /\ x = x0 /\ n = n0 /\ data = reload[i].data /\ r = r0
  OBVIOUS
<1> DEFINE l == Save(n, x)
<1>3. /\ reload[i] # None /\ o # None /\ SetMemory(i, l)
      /\ reload' = [reload EXCEPT ![i] = r]
      /\ UNCHANGED <<bucket, cmd, failures, wanted, claimed>>
      /\ calm' = [calm EXCEPT ![o] = @ /\ ~Commanding(i, o)]
      /\ behind' = [behind EXCEPT ![i] = IF data # bucket[o] THEN @ \cup {o} ELSE @]
  BY <1>2 DEF HReloadSave, ReloadSave, Disturb
<1>4. reload[i] \in Reloads /\ o \in Accounts
  BY <1>1, <1>3 DEF Typed, Reloads
<1>5. /\ n = Decode(m, o, data) /\ x = NewObject(m) /\ m = Memory(i)
      /\ data \in Lists /\ LinkedKeys(data) \subseteq claimed[o]
  BY <1>1, <1>2, <1>3 DEF ServerOK, ReloadOK
<1>6. /\ MemoryOK(m) /\ Claims(m, claimed) /\ m.owners = owners[i] /\ m.heap = heap[i]
      /\ \E y \in Objects : m.heap[y] = None
  <2>1. \E y \in Objects : Memory(i).heap[y] = None
    BY <1>1, FreeExists DEF ServerOK
  <2> QED BY <2>1, <1>1, <1>5 DEF ServerOK, Memory
<1>7. /\ r \in Reloads \cup {None}
      /\ r # None => r.todo = reload[i].todo /\ r.at = None
  BY <1>2, <1>4 DEF Reloads
<1> HIDE DEF m0, x0, n0, l0, r0
<1>8. reload'[i] = r /\ \A j \in Servers : j # i => reload'[j] = reload[j]
  BY <1>1, <1>3 DEF Typed
<1>9. /\ x \in Objects /\ m.heap[x] = None
      /\ MemoryOK(n) /\ n.owners = m.owners /\ n.ref = m.ref
      /\ n.heap[x] # None /\ n.heap[x].account = o /\ Slice(n, x) = data
      /\ Claims(n, claimed)
      /\ \A p \in Accounts : Apart(m, n, p, claimed)
  BY <1>4, <1>5, <1>6, DecodeIs
<1>10. /\ MemoryOK(l) /\ l.heap = n.heap /\ Claims(l, claimed)
       /\ l.owners = [m.owners EXCEPT ![o] = x] /\ Slice(l, x) = data
       /\ \A p \in Accounts : p # o => Apart(n, l, p, claimed)
       /\ (\A k \in Keys : n.ref[k] # None /\ Claimant(n, k) = o => k \in LinkedKeys(data))
             => RefsExact(l, o) /\ \A added : Shows(l, o, added)
  BY <1>9, SaveIs
<1> HIDE DEF l
<1>11. /\ l.owners[o] = x /\ x # None
       /\ \A p \in Accounts : m.owners[p] # None => l.owners[p] # None
  BY <1>4, <1>6, <1>9, <1>10, NoneAssumption DEF MemoryOK, Memories
<1>12. Growing
  BY <1>3 DEF Growing
<1>13. /\ calm' \in [Accounts -> BOOLEAN]
       /\ \A p \in Accounts : calm'[p] => calm[p] /\ (p = o => ~Commanding(i, o))
       /\ behind' \in [Servers -> SUBSET Accounts]
       /\ \A j \in Servers : j # i => behind'[j] = behind[j]
       /\ behind'[i] = IF data # bucket[o] THEN behind[i] \cup {o} ELSE behind[i]
  BY <1>1, <1>3, <1>4 DEF Typed
<1>14. /\ owners' \in [Servers -> [Accounts -> Objects \cup {None}]]
       /\ heap' \in [Servers -> [Objects -> OwnerObjects \cup {None}]]
       /\ ref' \in [Servers -> [Keys -> Refs \cup {None}]]
       /\ owners'[i] = l.owners
       /\ \A j \in Servers : j # i => Memory(j)' = Memory(j) /\ owners'[j] = owners[j]
       /\ \A y \in Objects : y \in InUse(i)' => heap'[i][y] = l.heap[y]
  BY <1>1, <1>3, <1>10, SetMemoryIs
<1>15. Typed'
  BY <1>1, <1>3, <1>7, <1>13, <1>14 DEF Typed
<1>16. CommandOK(i)'
  <2> SUFFICES ASSUME cmd[i] # None PROVE CommandOK(i)'
    BY <1>3 DEF CommandOK
  <2> DEFINE c == cmd[i]
  <2>1. c \in Commands /\ c.account \in Accounts /\ c.object \in Objects \cup {None} /\ CommandOK(i)
    BY <1>1, CommandIs
  <2>2. cmd'[i] = c
    BY <1>3
  <2>3. owners[i][c.account] # None => owners'[i][c.account] # None
    BY <2>1, <1>6, <1>11, <1>14
  <2>4. c.object # None /\ heap[i][c.object] # None =>
           heap'[i][c.object] # None /\ heap'[i][c.object].account = heap[i][c.object].account
    <3> HAVE c.object # None /\ heap[i][c.object] # None
    <3>1. c.object \in InUse(i)'
      BY <2>2 DEF InUse
    <3>2. n.heap[c.object] # None /\ n.heap[c.object].account = m.heap[c.object].account
      BY <2>1, <1>6, <1>9 DEF Apart
    <3> QED BY <2>1, <3>1, <3>2, <1>6, <1>10, <1>14
  <2> HIDE DEF c
  <2> QED BY <2>1, <2>2, <2>3, <2>4, <1>3 DEF CommandOK, c
<1>17. ReloadOK(i)'
  BY <1>1, <1>3, <1>7, <1>8 DEF ServerOK, ReloadOK
<1>18. \A j \in Servers : ServerOK(j)'
  BY <1>1, <1>3, <1>8, <1>10, <1>12, <1>15, <1>16, <1>17, ServersStayOK
<1>19. BucketOK'
  BY <1>1, <1>3 DEF BucketOK, Bucket
<1>20. ASSUME NEW p \in Accounts, calm'[p] PROVE Follows(p)'
  <2>1. Follows(p)
    BY <1>13, <1>20 DEF Inv
  <2>2. CASE p # o
    <3>1. Apart(Memory(i), l, p, claimed')
      BY <2>2, <1>3, <1>5, <1>9, <1>10, ApartTwice
    <3>2. \A j \in Servers : p \in behind'[j] <=> p \in behind[j]
      BY <2>2, <1>13
    <3> QED BY <2>1, <3>1, <3>2, <1>1, <1>3, <1>10, <1>12, <1>15, OthersFollow
  <2>3. CASE p = o
    <3>1. ~Commanding(i, o) /\ ~Past(i, o)
      BY <2>3, <1>13, <1>20 DEF Past
    <3>2. \A j \in Servers : /\ Commanding(j, o)' <=> Commanding(j, o)
                             /\ Past(j, o)' <=> Past(j, o)
      BY <1>3 DEF Commanding, Past
    <3>3. Bucket(o)' = Bucket(o) /\ wanted'[o] = wanted[o]
      BY <1>3 DEF Bucket
    <3>4. ASSUME NEW j \in Servers, j # i
          PROVE  /\ Commanding(j, o) => CommandFollows(j, o)'
                 /\ o \notin behind'[j] => ServerFollows(j, o)'
      <4>1. /\ Memory(j)' = Memory(j) /\ owners'[j] = owners[j] /\ cmd'[j] = cmd[j]
            /\ behind'[j] = behind[j]
        BY <3>4, <1>3, <1>13, <1>14
      <4>2. CommandFollows(j, o) => CommandFollows(j, o)'
        BY <4>1, <1>3 DEF CommandFollows, SaveReady
      <4>3. ServerFollows(j, o) => ServerFollows(j, o)'
        BY <4>1, <3>2, <3>3, <1>3 DEF ServerFollows
      <4> QED BY <4>1, <4>2, <4>3, <2>1, <2>3 DEF Follows
    <3>5. ASSUME o \notin behind'[i] PROVE ServerFollows(i, o)'
      <4>1. o \notin behind[i] /\ data = bucket[o]
        BY <3>5, <1>13
      <4>2. ServerFollows(i, o)
        BY <4>1, <2>1, <2>3 DEF Follows
      <4>3. Bucket(o) = data
        BY <4>1, <1>5, NoneAssumption DEF Bucket, Lists
      <4>4. RefsOwn(n, o)
        <5>1. Shows(m, o, claimed)
          BY <4>2, <1>5 DEF ServerFollows
        <5> QED BY <5>1, <1>4, <1>6, <1>9, ApartKeeps DEF Shows
      <4>5. m.owners[o] # None => LinkedKeys(Slice(n, m.owners[o])) = LinkedKeys(data)
        <5> HAVE m.owners[o] # None
        <5>1. Listed(Slice(m, m.owners[o])) = Listed(data)
          BY <4>2, <4>3, <3>1, <1>5, <1>6 DEF ServerFollows
        <5>2. m.owners[o] \in Objects /\ m.heap[m.owners[o]] # None /\ m.heap[m.owners[o]].account = o
          BY <1>4, <1>6, OwnerFields
        <5>3. Slice(n, m.owners[o]) = Slice(m, m.owners[o])
          BY <5>2, <1>4, <1>9, SameObjectSameSlice DEF Apart
        <5>4. Slice(m, m.owners[o]) \in Lists
          BY <5>2, <1>6, SliceIs
        <5> QED BY <5>1, <5>3, <5>4, <1>5, SameListing
      <4>6. \A k \in Keys : n.ref[k] # None /\ Claimant(n, k) = o => k \in LinkedKeys(data)
        BY <4>4, <4>5, <1>9 DEF RefsOwn
      <4>7. RefsExact(l, o) /\ Shows(l, o, claimed')
        BY <4>6, <1>10
      <4>8. ~Past(i, o)'
        BY <3>1, <3>2
      <4> QED BY <4>3, <4>7, <4>8, <3>3, <1>1, <1>3, <1>4, <1>10, <1>11, ServerFollowsMemory
    <3> QED BY <2>1, <2>3, <3>1, <3>2, <3>3, <3>4, <3>5 DEF Follows
  <2> QED BY <2>2, <2>3
<1> QED BY <1>15, <1>18, <1>19, <1>20 DEF Inv, StoreOK

LEMMA HRestartKeeps ==
    ASSUME Inv, NEW i \in Servers, HRestart(i)
    PROVE  Inv'
<1>1. StoreOK /\ Typed /\ BucketOK /\ ServerOK(i)
  BY DEF Inv, StoreOK
<1>2. /\ owners' = [owners EXCEPT ![i] = [o \in Accounts |-> None]]
      /\ heap' = [heap EXCEPT ![i] = [x \in Objects |-> None]]
      /\ ref' = [ref EXCEPT ![i] = [k \in Keys |-> None]]
      /\ cmd' = [cmd EXCEPT ![i] = None]
      /\ reload' = [reload EXCEPT ![i] = None]
      /\ UNCHANGED <<bucket, failures, wanted, claimed>>
      /\ calm' = [o \in Accounts |-> calm[o] /\ ~Past(i, o)]
      /\ behind' = [behind EXCEPT ![i] = {}]
  BY DEF HRestart, Restart, Past
<1>3. /\ owners'[i] = [o \in Accounts |-> None] /\ heap'[i] = [x \in Objects |-> None]
      /\ ref'[i] = [k \in Keys |-> None] /\ cmd'[i] = None /\ reload'[i] = None
      /\ \A j \in Servers : j # i =>
            /\ Memory(j)' = Memory(j) /\ owners'[j] = owners[j]
            /\ cmd'[j] = cmd[j] /\ reload'[j] = reload[j] /\ behind'[j] = behind[j]
  BY <1>1, <1>2 DEF Typed, Memory
<1>4. Growing
  BY <1>2 DEF Growing
<1>5. Typed'
  BY <1>1, <1>2 DEF Typed
<1>6. /\ MemoryOK(Memory(i)') /\ Claims(Memory(i)', claimed')
      /\ \A p \in Accounts : Shows(Memory(i)', p, claimed') /\ RefsExact(Memory(i)', p)
  <2>1. /\ Memory(i)'.owners = [o \in Accounts |-> None] /\ Memory(i)'.heap = [x \in Objects |-> None]
        /\ Memory(i)'.ref = [k \in Keys |-> None] /\ Memory(i)' \in Memories
    BY <1>3 DEF Memory, Memories
  <2>2. PICK m : m = Memory(i)'
    OBVIOUS
  <2>3. /\ m \in Memories /\ \A o \in Accounts : m.owners[o] = None
        /\ \A x \in Objects : m.heap[x] = None
        /\ \A k \in Keys : m.ref[k] = None
    BY <2>1, <2>2
  <2>4. /\ MemoryOK(m) /\ Claims(m, claimed')
        /\ \A p \in Accounts : Shows(m, p, claimed') /\ RefsExact(m, p)
    BY <2>3 DEF MemoryOK, Claims, Shows, RefsOwn, RefsKept, RefsExact
  <2> QED BY <2>2, <2>4
<1>7. ServerOK(i)'
  BY <1>3, <1>6 DEF ServerOK, CommandOK, ReloadOK
<1>8. \A j \in Servers : ServerOK(j)'
  BY <1>1, <1>2, <1>3, <1>4, <1>5, <1>7, ServerStaysOK
<1>9. BucketOK'
  BY <1>1, <1>2 DEF BucketOK, Bucket
<1>10. ASSUME NEW p \in Accounts, calm'[p] PROVE Follows(p)'
  <2>1. calm[p] /\ ~Past(i, p) /\ Follows(p)
    BY <1>2, <1>10 DEF Inv
  <2>2. ~Commanding(i, p)' /\ ~Past(i, p)'
    BY <1>3 DEF Commanding, Past
  <2>3. \A j \in Servers : j # i =>
           /\ Commanding(j, p)' <=> Commanding(j, p)
           /\ Past(j, p)' <=> Past(j, p)
    BY <1>3 DEF Commanding, Past
  <2>4. Bucket(p)' = Bucket(p) /\ wanted'[p] = wanted[p]
    BY <1>2 DEF Bucket
  <2>5. (\A j \in Servers : ~Past(j, p)') => wanted'[p] = Listed(Bucket(p)')
    BY <2>1, <2>3, <2>4 DEF Follows
  <2>6. ServerFollows(i, p)'
    BY <1>3, <1>6 DEF ServerFollows
  <2>7. ASSUME NEW j \in Servers, j # i
        PROVE  /\ Commanding(j, p) => CommandFollows(j, p)'
               /\ p \notin behind'[j] => ServerFollows(j, p)'
    <3>1. /\ Memory(j)' = Memory(j) /\ owners'[j] = owners[j] /\ cmd'[j] = cmd[j]
          /\ behind'[j] = behind[j]
      BY <2>7, <1>3
    <3>2. CommandFollows(j, p) => CommandFollows(j, p)'
      BY <3>1, <1>2 DEF CommandFollows, SaveReady
    <3>3. ServerFollows(j, p) => ServerFollows(j, p)'
      BY <3>1, <2>3, <2>4, <2>7, <1>2 DEF ServerFollows
    <3> QED BY <3>1, <3>2, <3>3, <2>1 DEF Follows
  <2> QED BY <2>1, <2>2, <2>3, <2>5, <2>6, <2>7 DEF Follows
<1> QED BY <1>5, <1>8, <1>9, <1>10 DEF Inv, StoreOK

LEMMA InitInv ==
    HInit => Inv
<1> SUFFICES ASSUME HInit PROVE Inv
  OBVIOUS
<1>1. Typed
  BY MaxFailuresAssumption DEF HInit, Init, Typed
<1>2. \A o \in Accounts : Bucket(o) = <<>>
  BY DEF HInit, Init, Bucket
<1>3. BucketOK
  BY <1>2, EmptyList DEF BucketOK
<1>4. ASSUME NEW i \in Servers
      PROVE  /\ ServerOK(i) /\ cmd[i] = None
             /\ \A o \in Accounts : owners[i][o] = None /\ Shows(Memory(i), o, claimed) /\ RefsExact(Memory(i), o)
  <2>1. /\ Memory(i).owners = [o \in Accounts |-> None] /\ Memory(i).heap = [x \in Objects |-> None]
        /\ Memory(i).ref = [k \in Keys |-> None] /\ Memory(i) \in Memories
        /\ cmd[i] = None /\ reload[i] = None
        /\ owners[i] = [o \in Accounts |-> None] /\ heap[i] = [x \in Objects |-> None]
    BY DEF HInit, Init, Memory, Memories
  <2>2. PICK m : m = Memory(i)
    OBVIOUS
  <2>3. /\ m \in Memories /\ \A o \in Accounts : m.owners[o] = None
        /\ \A x \in Objects : m.heap[x] = None
        /\ \A k \in Keys : m.ref[k] = None
    BY <2>1, <2>2
  <2>4. /\ MemoryOK(m) /\ Claims(m, claimed)
        /\ \A o \in Accounts : Shows(m, o, claimed) /\ RefsExact(m, o)
    BY <2>3 DEF MemoryOK, Claims, Shows, RefsOwn, RefsKept, RefsExact
  <2>5. ServerOK(i)
    BY <2>1, <2>2, <2>4 DEF ServerOK, CommandOK, ReloadOK
  <2> QED BY <2>1, <2>2, <2>4, <2>5
<1>5. ASSUME NEW o \in Accounts PROVE Follows(o)
  <2>1. wanted[o] = Listed(Bucket(o))
    BY <1>2, EmptyList DEF HInit
  <2>2. \A i \in Servers : ~Commanding(i, o) /\ ServerFollows(i, o)
    BY <1>4 DEF Commanding, ServerFollows
  <2> QED BY <2>1, <2>2 DEF Follows
<1> QED BY <1>1, <1>3, <1>4, <1>5 DEF Inv, StoreOK

LEMMA NextKeepsInv ==
    Inv /\ [HNext]_allVars => Inv'
<1> SUFFICES ASSUME Inv, [HNext]_allVars PROVE Inv'
  OBVIOUS
<1>1. ASSUME NEW i \in Servers, HStart(i) PROVE Inv'
  BY <1>1, HStartKeeps
<1>2. ASSUME NEW i \in Servers, HGetOwner(i) PROVE Inv'
  BY <1>2, HGetOwnerKeeps
<1>3. ASSUME NEW i \in Servers, HOperation(i) PROVE Inv'
  BY <1>3, HOperationKeeps
<1>4. ASSUME NEW i \in Servers, HSaveOwner(i) PROVE Inv'
  BY <1>4, HSaveOwnerKeeps
<1>5. ASSUME NEW i \in Servers, HPutOwner(i) PROVE Inv'
  BY <1>5, HPutOwnerKeeps
<1>6. ASSUME NEW i \in Servers, HReload(i) PROVE Inv'
  BY <1>6, HReloadKeeps
<1>7. ASSUME NEW i \in Servers, HReloadSave(i) PROVE Inv'
  BY <1>7, HReloadSaveKeeps
<1>8. ASSUME NEW i \in Servers, HRestart(i) PROVE Inv'
  BY <1>8, HRestartKeeps
<1>9. CASE UNCHANGED allVars
  <2>1. /\ UNCHANGED <<bucket, owners, heap, ref, cmd, reload, failures, wanted, claimed, calm, behind>>
    BY <1>9 DEF allVars, vars, memory, history
  <2>2. Typed' /\ BucketOK'
    BY <2>1 DEF Inv, StoreOK, Typed, BucketOK, Bucket
  <2>3. Growing /\ \A j \in Servers : Memory(j)' = Memory(j)
    BY <2>1 DEF Growing, Memory
  <2>4. StoreOK'
    BY <2>1, <2>2, <2>3, ServerStaysOK DEF Inv, StoreOK
  <2>5. ASSUME NEW p \in Accounts, calm'[p] PROVE Follows(p)'
    <3>1. Follows(p)
      BY <2>1, <2>5 DEF Inv
    <3>2. \A j \in Servers : Untouched(j, p)
      BY <2>1, <2>3, UntouchedIfUnchanged
    <3> QED BY <2>1, <3>1, <3>2, FollowsKept DEF Inv
  <2> QED BY <2>4, <2>5 DEF Inv
<1> QED BY <1>1, <1>2, <1>3, <1>4, <1>5, <1>6, <1>7, <1>8, <1>9 DEF HNext

-----------------------------------------------------------------------------
(* The theorems.                                                           *)

\* In every reachable state of any number of servers, accounts and keys, what S3
\* and the servers hold, what their commands and reloads are about to write, and
\* what the owners have asked for agree as Inv says: through every overlap of the
\* web UI's commands (internal/server/ui.go), the reloads of GetByKey
\* (internal/auth/owner.go:311) and restarts.
THEOREM S3OwnerInvariant == HSpec => []Inv
<1>1. HInit => Inv
  BY InitInv
<1>2. Inv /\ [HNext]_allVars => Inv'
  BY NextKeepsInv
<1> QED BY <1>1, <1>2, PTL DEF HSpec

LEMMA InvTypeOK ==
    Inv => TypeOK
<1> SUFFICES ASSUME Inv PROVE TypeOK
  OBVIOUS
<1>1. Typed /\ \A i \in Servers : ServerOK(i)
  BY DEF Inv, StoreOK
<1>2. bucket \in [Accounts -> Seq(Records) \cup {None}]
  BY <1>1 DEF Typed, Lists
<1>3. ASSUME NEW i \in Servers
      PROVE  /\ cmd[i] \in Commands \cup {None}
             /\ \A o \in Accounts : owners[i][o] # None =>
                   heap[i][owners[i][o]] # None /\ heap[i][owners[i][o]].account = o
             /\ \A x \in Objects : heap[i][x] # None =>
                   /\ heap[i][x].cells \in Seq(Records)
                   /\ heap[i][x].length \in 0..Len(heap[i][x].cells)
             /\ \A k \in Keys : ref[i][k] # None =>
                   /\ heap[i][ref[i][k].object] # None
                   /\ ref[i][k].index \in 1..Len(heap[i][ref[i][k].object].cells)
  <2>1. PICK m : m = Memory(i)
    OBVIOUS
  <2>2. MemoryOK(m) /\ m.owners = owners[i] /\ m.heap = heap[i] /\ m.ref = ref[i]
    BY <2>1, <1>1 DEF ServerOK, Memory
  <2>3. cmd[i] \in Commands \cup {None}
    BY <1>1 DEF Typed
  <2>4. \A o \in Accounts : m.owners[o] # None =>
           m.heap[m.owners[o]] # None /\ m.heap[m.owners[o]].account = o
    BY <2>2, OwnerFields
  <2>5. \A x \in Objects : m.heap[x] # None =>
           m.heap[x].cells \in Seq(Records) /\ m.heap[x].length \in 0..Len(m.heap[x].cells)
    <3> SUFFICES ASSUME NEW x \in Objects, m.heap[x] # None
                 PROVE  m.heap[x].cells \in Seq(Records) /\ m.heap[x].length \in 0..Len(m.heap[x].cells)
      OBVIOUS
    <3>1. /\ m.heap[x].cells \in Seq(Records) /\ Len(m.heap[x].cells) \in Nat
          /\ m.heap[x].length \in Nat /\ m.heap[x].length <= Len(m.heap[x].cells)
      BY <2>2, ObjectFields
    <3> QED BY <3>1
  <2>6. \A k \in Keys : m.ref[k] # None =>
           m.heap[m.ref[k].object] # None /\ m.ref[k].index \in 1..Len(m.heap[m.ref[k].object].cells)
    BY <2>2, RefFields
  <2> QED BY <2>2, <2>3, <2>4, <2>5, <2>6
<1>4. owners \in [Servers -> [Accounts -> Objects \cup {None}]] /\ failures \in 0..MaxFailures
  BY <1>1 DEF Typed
<1> QED BY <1>2, <1>3, <1>4 DEF TypeOK

\* On every server every ByKey entry and every account's entry leads to an Owner
\* that the memory has, and within its Keys: GetByKey, the dashboard and every
\* command (internal/auth/owner.go:200, 231, 259, 298) read a record, whatever
\* reloads and commands overlap.
THEOREM S3OwnerTypeCorrect == HSpec => []TypeOK
BY S3OwnerInvariant, InvTypeOK, PTL

LEMMA InvFollowsOwner ==
    Inv => CalmStoreFollowsOwner
<1> SUFFICES ASSUME Inv, NEW o \in Accounts, calm[o], \A i \in Servers : ~Commanding(i, o)
             PROVE  /\ wanted[o] = IF bucket[o] = None THEN [k \in Keys |-> None] ELSE Listed(bucket[o])
                    /\ \A i \in Servers : owners[i][o] # None /\ o \notin behind[i] =>
                          /\ Listed(Slice(Memory(i), owners[i][o])) = wanted[o]
                          /\ \A k \in Keys : Sole(o, k) =>
                                IF wanted[o][k] = None THEN ref[i][k] = None
                                ELSE ref[i][k] # None /\ Gate(Memory(i), k) = wanted[o][k]
  BY DEF CalmStoreFollowsOwner
<1>1. Follows(o) /\ \A i \in Servers : ~Past(i, o) /\ ServerOK(i)
  BY DEF Inv, StoreOK, Past
<1>2. wanted[o] = Listed(Bucket(o))
  BY <1>1 DEF Follows
<1>3. wanted[o] = IF bucket[o] = None THEN [k \in Keys |-> None] ELSE Listed(bucket[o])
  BY <1>2, EmptyList DEF Bucket
<1>4. ASSUME NEW i \in Servers, owners[i][o] # None, o \notin behind[i]
      PROVE  /\ Listed(Slice(Memory(i), owners[i][o])) = wanted[o]
             /\ \A k \in Keys : Sole(o, k) =>
                   IF wanted[o][k] = None THEN ref[i][k] = None
                   ELSE ref[i][k] # None /\ Gate(Memory(i), k) = wanted[o][k]
  <2>1. PICK m, keys : m = Memory(i) /\ keys = Slice(m, owners[i][o])
    OBVIOUS
  <2>2. /\ MemoryOK(m) /\ Claims(m, claimed) /\ m.owners = owners[i] /\ m.ref = ref[i]
        /\ RefsOwn(m, o) /\ RefsKept(m, o, claimed) /\ RefsExact(m, o)
        /\ Listed(keys) = wanted[o]
    BY <2>1, <1>1, <1>2, <1>4 DEF Follows, ServerOK, ServerFollows, Shows, Memory
  <2>3. m.owners[o] \in Objects /\ m.heap[m.owners[o]] # None
    BY <2>2, <1>4, OwnerFields
  <2>4. /\ keys \in Lists /\ DOMAIN keys = 1..m.heap[m.owners[o]].length
        /\ \A j \in 1..m.heap[m.owners[o]].length : keys[j] = m.heap[m.owners[o]].cells[j]
    BY <2>1, <2>2, <2>3, SliceIs
  <2>5. ASSUME NEW k \in Keys, Sole(o, k)
        PROVE  IF wanted[o][k] = None THEN m.ref[k] = None
               ELSE m.ref[k] # None /\ Gate(m, k) = wanted[o][k]
    <3>1. ASSUME m.ref[k] # None
          PROVE  /\ Claimant(m, k) = o /\ k \in LinkedKeys(keys) /\ m.ref[k].object = m.owners[o]
                 /\ Gate(m, k).key = k /\ m.ref[k].index \in DOMAIN keys
      <4>1. Claimant(m, k) \in Accounts /\ k \in claimed[Claimant(m, k)] /\ m.ref[k].index \in Nat \ {0}
        BY <3>1, <2>2, RefFields DEF Claims, Refs
      <4>2. Claimant(m, k) = o
        BY <4>1, <2>5 DEF Sole
      <4>3. k \in LinkedKeys(keys) /\ m.ref[k].object = m.owners[o]
        BY <3>1, <4>2, <2>1, <2>2 DEF RefsOwn
      <4>4. m.ref[k].index <= m.heap[m.owners[o]].length /\ Gate(m, k).key = k
        BY <3>1, <4>2, <4>3, <2>2 DEF RefsExact
      <4>5. m.heap[m.owners[o]].length \in Nat
        BY <2>2, <2>3, ObjectFields
      <4> QED BY <4>1, <4>2, <4>3, <4>4, <4>5, <2>4
    <3>2. CASE wanted[o][k] = None
      BY <3>1, <3>2, <2>2, <2>4, ListedEntries
    <3>3. CASE wanted[o][k] # None
      <4>1. k \in LinkedKeys(keys)
        BY <3>3, <2>2, <2>4, ListedEntries
      <4>2. m.ref[k] # None
        BY <4>1, <1>4, <2>1, <2>2, <2>5 DEF RefsKept, Sole
      <4>3. Gate(m, k) = keys[m.ref[k].index]
        <5>1. m.ref[k].object = m.owners[o] /\ m.ref[k].index \in 1..m.heap[m.owners[o]].length
          BY <4>2, <3>1, <2>4
        <5> QED BY <5>1, <2>4 DEF Gate
      <4>4. Listed(keys)[k] = keys[m.ref[k].index]
        <5>1. PICK j : j = m.ref[k].index
          OBVIOUS
        <5>2. j \in DOMAIN keys /\ keys[j].key = k
          BY <5>1, <4>2, <4>3, <3>1
        <5>3. Listed(keys)[keys[j].key] = keys[j]
          BY <5>2, <2>4, ListedEntries
        <5> QED BY <5>1, <5>2, <5>3
      <4> QED BY <4>2, <4>3, <4>4, <3>3, <2>2
    <3> QED BY <3>2, <3>3
  <2> QED BY <2>1, <2>2, <2>5
<1> QED BY <1>3, <1>4

\* Unless an S3 call failed, a restart or another server came between, or a reload
\* overwrote a command (the causes of S3OwnerHistory), what an owner has asked for
\* is what S3 holds between two commands, and what the dashboard lists and the gates
\* read (internal/auth/owner.go:200, 231, 259, 298, 311) on every server that is not
\* behind: with any number of servers, accounts and keys, any history of commands,
\* reloads, restarts and failures, and keys that accounts take from one another.
THEOREM CalmStoreFollowsOwnerHolds == HSpec => []CalmStoreFollowsOwner
BY S3OwnerInvariant, InvFollowsOwner, PTL

=============================================================================
