-------------------------- MODULE FrontEndsProofs ---------------------------
(***************************************************************************)
(* Proofs about TransactionApi and FrontEnds: what a client may rely on    *)
(* when it uses a transaction on a recycled object, what the C, Go and     *)
(* Python layers preserve of the answers, and that the handlers of the     *)
(* HTTP server are atomic.                                                 *)
(***************************************************************************)
EXTENDS FrontEnds, TLAPS

-----------------------------------------------------------------------------
(* Objects, clients and the pool *)

ObjState == [mode : {"SI", "SSI"}, done : BOOLEAN, write : BOOLEAN,
             readset : SUBSET Key, base : [Key -> Option],
             writeset : [Key -> Option \cup {Unset}]]

Answers == [res : Option \cup BOOLEAN, exp : Option \cup BOOLEAN]

LEMMA Types ==
  ASSUME TypeOK
  PROVE  /\ db \in [Key -> Option] /\ pool \in Seq(Obj)
         /\ Len(pool) \in Nat /\ Len(pool) <= PoolSize
         /\ obj \in [Obj -> ObjState]
         /\ held \in [Client -> Obj \cup {NoObj}]
         /\ window \in [Client -> SUBSET Key]
         /\ view \in [Client -> [Key -> Option]]
         /\ read \in [Client -> SUBSET Key]
         /\ last \in Answers
BY DEF TypeOK, ObjState, Answers

\* What an open transaction's object r owes a client that believes the keys to
\* hold w, read the keys q and whose commit queue window is n.
Mine(r, w, q, n) ==
    /\ \A k \in Key : w[k] = IF r.writeset[k] # Unset THEN r.writeset[k] ELSE r.base[k]
    /\ q \subseteq r.readset
    /\ \A k \in Key : k \notin n => r.base[k] = db[k]
    /\ ~r.write => r.writeset = NoWrites

Owed(c) == Open(c) => Mine(It(c), view[c], read[c], window[c])

\* A handle's object is its own, and the pool holds each object once.
Exclusive ==
    /\ \A c, d \in Client : c # d /\ held[c] = held[d] => held[c] = NoObj
    /\ \A i \in 1..Len(pool) : \A c \in Client : held[c] # pool[i]
    /\ \A i, j \in 1..Len(pool) : pool[i] = pool[j] => i = j

ApiInv ==
    /\ TypeOK
    /\ Exclusive
    /\ \A c \in Client : Owed(c)
    /\ ReadYourWrites

LEMMA ApiFacts ==
  ASSUME ApiInv
  PROVE  ReadYourWrites /\ ReadsTracked /\ ObjectsExclusive
<1>1. ReadsTracked
  BY DEF ApiInv, Owed, Mine, ReadsTracked
<1>2. \A c \in Client : Open(c) /\ ~It(c).write => It(c).writeset = NoWrites
  BY DEF ApiInv, Owed, Mine
<1>3. ObjectsExclusive
  BY <1>2 DEF ApiInv, ObjectsExclusive, Exclusive
<1> QED BY <1>1, <1>3 DEF ApiInv

\* A step on the object of one handle does not reach another one's.
LEMMA OwnObject ==
  ASSUME ApiInv, NEW c \in Client, held[c] # NoObj, NEW r \in ObjState,
         obj' = [obj EXCEPT ![held[c]] = r], UNCHANGED held
  PROVE  /\ obj' \in [Obj -> ObjState] /\ It(c)' = r
         /\ \A d \in Client : d # c /\ held[d] # NoObj => It(d)' = It(d)
<1>1. /\ obj \in [Obj -> ObjState] /\ held \in [Client -> Obj \cup {NoObj}]
      /\ held[c] \in Obj
  BY Types DEF ApiInv
<1>2. \A d \in Client : d # c /\ held[d] # NoObj => held[d] \in Obj /\ held[d] # held[c]
  BY <1>1 DEF ApiInv, Exclusive
<1> QED BY <1>1, <1>2 DEF It

\* What another client is owed depends on nothing that such a step changes.
LEMMA OwedKept ==
  ASSUME NEW d \in Client, Owed(d), held'[d] = held[d],
         held[d] # NoObj => It(d)' = It(d),
         view'[d] = view[d], read'[d] = read[d], window'[d] = window[d], db' = db
  PROVE  Owed(d)'
BY DEF Owed, Open, Mine, NoWrites

\* A step on one handle that leaves the database and the pool alone.
LEMMA OwnStep ==
  ASSUME ApiInv, NEW c \in Client, held[c] # NoObj, NEW r \in ObjState,
         NEW w \in [Key -> Option], NEW q \in SUBSET Key, NEW n \in SUBSET Key,
         obj' = [obj EXCEPT ![held[c]] = r], UNCHANGED <<db, pool, held>>,
         view' = [view EXCEPT ![c] = w], read' = [read EXCEPT ![c] = q],
         window' = [window EXCEPT ![c] = n],
         last' \in Answers, last'.res \in Option => last'.res = last'.exp,
         ~r.done => Mine(r, w, q, n)
  PROVE  ApiInv'
<1>0. TypeOK /\ Exclusive
  BY DEF ApiInv
<1>1. /\ obj' \in [Obj -> ObjState] /\ It(c)' = r
      /\ \A d \in Client : d # c /\ held[d] # NoObj => It(d)' = It(d)
  BY OwnObject, Zenon
<1>2. /\ view' \in [Client -> [Key -> Option]] /\ view'[c] = w
      /\ \A d \in Client : d # c => view'[d] = view[d]
  BY <1>0, Types
<1>3. /\ read' \in [Client -> SUBSET Key] /\ read'[c] = q
      /\ \A d \in Client : d # c => read'[d] = read[d]
  BY <1>0, Types
<1>4. /\ window' \in [Client -> SUBSET Key] /\ window'[c] = n
      /\ \A d \in Client : d # c => window'[d] = window[d]
  BY <1>0, Types
<1>5. TypeOK'
  BY <1>0, <1>1, <1>2, <1>3, <1>4 DEF TypeOK, ObjState, Answers
<1>6. Exclusive'
  BY <1>0 DEF Exclusive
<1>7. ASSUME NEW d \in Client PROVE Owed(d)'
  <2>1. CASE d = c
    <3>1. Open(c)' => ~r.done
      BY <1>1 DEF Open
    <3>2. ~r.done => Mine(r, w, q, n)'
      BY DEF Mine, NoWrites
    <3> QED BY <1>1, <1>2, <1>3, <1>4, <2>1, <3>1, <3>2 DEF Owed
  <2>2. CASE d # c
    BY <1>1, <1>2, <1>3, <1>4, <2>2, OwedKept DEF ApiInv
  <2> QED BY <2>1, <2>2
<1> QED BY <1>5, <1>6, <1>7 DEF ApiInv, ReadYourWrites

\* The parts of the state that belong to an open transaction.
LEMMA OpenFacts ==
  ASSUME ApiInv, NEW c \in Client, held[c] # NoObj
  PROVE  /\ held[c] \in Obj /\ It(c) \in ObjState /\ obj \in [Obj -> ObjState]
         /\ obj[held[c]] = It(c)
         /\ view[c] \in [Key -> Option] /\ view = [view EXCEPT ![c] = view[c]]
         /\ read[c] \in SUBSET Key /\ read = [read EXCEPT ![c] = read[c]]
         /\ window[c] \in SUBSET Key /\ window = [window EXCEPT ![c] = window[c]]
         /\ obj = [obj EXCEPT ![held[c]] = It(c)]
         /\ Open(c) => Mine(It(c), view[c], read[c], window[c])
<1>1. /\ obj \in [Obj -> ObjState] /\ held \in [Client -> Obj \cup {NoObj}]
      /\ view \in [Client -> [Key -> Option]] /\ read \in [Client -> SUBSET Key]
      /\ window \in [Client -> SUBSET Key]
  BY Types DEF ApiInv
<1>2. held[c] \in Obj /\ It(c) \in ObjState /\ obj = [obj EXCEPT ![held[c]] = It(c)]
  BY <1>1 DEF It
<1>3. /\ view[c] \in [Key -> Option] /\ view = [view EXCEPT ![c] = view[c]]
      /\ read[c] \in SUBSET Key /\ read = [read EXCEPT ![c] = read[c]]
      /\ window[c] \in SUBSET Key /\ window = [window EXCEPT ![c] = window[c]]
  BY <1>1
<1> QED BY <1>1, <1>2, <1>3 DEF It, ApiInv, Owed

LEMMA Silence == NoAnswer \in Answers /\ NoAnswer.res = NoAnswer.exp
BY DEF NoAnswer, Answers, Option

LEMMA SetModeKept ==
  ASSUME ApiInv, NEW c \in Client, NEW mode \in {"SI", "SSI"}, SetMode(c, mode)
  PROVE  ApiInv'
<1> DEFINE r == [It(c) EXCEPT !.mode = mode]
<1>0. held[c] # NoObj
  BY DEF SetMode
<1>1. r \in ObjState /\ obj' = [obj EXCEPT ![held[c]] = r]
  <2>1. obj' = [obj EXCEPT ![held[c]].mode = mode]
    BY DEF SetMode
  <2>2. It(c) \in ObjState /\ obj[held[c]] = It(c) /\ obj \in [Obj -> ObjState]
    BY <1>0, OpenFacts
  <2> QED BY ONLY <2>1, <2>2, mode \in {"SI", "SSI"}, SMTT(30), Z3T(30) DEF ObjState
<1>2. /\ r.done = It(c).done /\ r.write = It(c).write /\ r.base = It(c).base
      /\ r.writeset = It(c).writeset /\ r.readset = It(c).readset
  BY <1>0, OpenFacts DEF ObjState
<1> HIDE DEF r
<1>3. ~r.done => Mine(r, view[c], read[c], window[c])
  <2>1. Open(c) => Mine(It(c), view[c], read[c], window[c])
    BY <1>0, OpenFacts
  <2> QED BY <1>0, <1>2, <2>1 DEF Mine, Open
<1>4. UNCHANGED <<db, pool, held, window, view, read>> /\ last' = NoAnswer
  BY DEF SetMode
<1>5. /\ view[c] \in [Key -> Option] /\ view = [view EXCEPT ![c] = view[c]]
      /\ read[c] \in SUBSET Key /\ read = [read EXCEPT ![c] = read[c]]
      /\ window[c] \in SUBSET Key /\ window = [window EXCEPT ![c] = window[c]]
  BY <1>0, OpenFacts
<1> QED BY <1>0, <1>1, <1>3, <1>4, <1>5, OwnStep, Silence, Zenon

\* Reading an open transaction's view.
LEMMA ViewRead ==
  ASSUME ApiInv, NEW c \in Client, Open(c), NEW k \in Key
  PROVE  /\ ReadsDatastore(c, k) => view[c][k] = It(c).base[k]
         /\ ~ReadsDatastore(c, k) => view[c][k] = It(c).writeset[k]
         /\ It(c).base[k] \in Option /\ view[c][k] \in Option
<1>1. Mine(It(c), view[c], read[c], window[c]) /\ It(c) \in ObjState
      /\ view[c] \in [Key -> Option]
  BY OpenFacts DEF Open
<1>2. ~It(c).write => It(c).writeset[k] = Unset
  BY <1>1 DEF Mine, NoWrites
<1>3. It(c).base[k] \in Option /\ view[c][k] \in Option
  BY <1>1 DEF ObjState
<1> QED BY <1>1, <1>2, <1>3 DEF Mine, ReadsDatastore

\* Get and exists differ in the answer only.
LEMMA ReadKept ==
  ASSUME ApiInv, NEW c \in Client, Open(c), NEW k \in Key,
         \/ ~ReadsDatastore(c, k) /\ UNCHANGED <<obj, read>>
         \/ ReadsDatastore(c, k) /\ obj' = Track(c, k) /\ read' = Noted(c, k),
         UNCHANGED <<db, pool, held, window, view>>,
         last' \in Answers, last'.res \in Option => last'.res = last'.exp
  PROVE  ApiInv'
<1>0. /\ held[c] # NoObj /\ It(c) \in ObjState /\ obj[held[c]] = It(c)
      /\ obj \in [Obj -> ObjState] /\ held[c] \in Obj
      /\ obj = [obj EXCEPT ![held[c]] = It(c)]
      /\ view[c] \in [Key -> Option] /\ view = [view EXCEPT ![c] = view[c]]
      /\ read[c] \in SUBSET Key /\ read = [read EXCEPT ![c] = read[c]]
      /\ window[c] \in SUBSET Key /\ window = [window EXCEPT ![c] = window[c]]
      /\ Mine(It(c), view[c], read[c], window[c])
  BY OpenFacts DEF Open
<1>1. CASE UNCHANGED <<obj, read>>
  BY <1>0, <1>1, OwnStep
<1>2. CASE obj' = Track(c, k) /\ read' = Noted(c, k) /\ It(c).mode = "SSI" /\ It(c).write
  <2> DEFINE r == [It(c) EXCEPT !.readset = @ \cup {k}]
             q == read[c] \cup {k}
  <2>1. obj' = [obj EXCEPT ![held[c]].readset = @ \cup {k}]
    BY <1>2 DEF Track
  <2>2. r \in ObjState /\ obj' = [obj EXCEPT ![held[c]] = r]
    BY ONLY <1>0, <2>1, k \in Key, Zenon DEF ObjState
  <2>3. /\ r.done = It(c).done /\ r.write = It(c).write /\ r.base = It(c).base
        /\ r.writeset = It(c).writeset /\ r.readset = It(c).readset \cup {k}
    BY <1>0 DEF ObjState
  <2>4. q \in SUBSET Key /\ read' = [read EXCEPT ![c] = q]
    BY <1>0, <1>2 DEF Noted
  <2> HIDE DEF r
  <2>5. Mine(r, view[c], q, window[c])
    BY <1>0, <2>3 DEF Mine
  <2> HIDE DEF q
  <2> QED BY <1>0, <2>2, <2>4, <2>5, OwnStep, Zenon
<1>3. CASE obj' = Track(c, k) /\ read' = Noted(c, k) /\ ~(It(c).mode = "SSI" /\ It(c).write)
  BY <1>1, <1>3 DEF Track, Noted
<1> QED BY <1>1, <1>2, <1>3

LEMMA GetKept ==
  ASSUME ApiInv, NEW c \in Client, NEW k \in Key, Get(c, k)
  PROVE  ApiInv'
<1>1. Open(c)
  BY DEF Get
<1>2. last' = [res |-> view[c][k], exp |-> view[c][k]]
  BY <1>1, ViewRead DEF Get, Says
<1>3. last' \in Answers /\ last'.res = last'.exp
  BY <1>1, <1>2, ViewRead DEF Answers
<1> QED BY <1>1, <1>3, ReadKept DEF Get

LEMMA ExistsKept ==
  ASSUME ApiInv, NEW c \in Client, NEW k \in Key, Exists(c, k)
  PROVE  ApiInv'
<1>1. Open(c)
  BY DEF Exists
<1>2. PICK a \in BOOLEAN : last' = [res |-> a, exp |-> view[c][k] # None]
  BY Zenon DEF Exists, Says
<1>3. last' \in Answers /\ last'.res \notin Option
  BY <1>2, ApiAssumption DEF Answers, Option
<1> QED BY <1>1, <1>3, ReadKept, Zenon DEF Exists

LEMMA WriteKept ==
  ASSUME ApiInv, NEW c \in Client, Open(c), It(c).write, NEW k \in Key, NEW v \in Option,
         Write(c, k, v), UNCHANGED <<db, pool, held, window, read>>,
         last' \in Answers, last'.res \in Option => last'.res = last'.exp
  PROVE  ApiInv'
<1>0. /\ held[c] # NoObj /\ It(c) \in ObjState /\ obj[held[c]] = It(c)
      /\ obj \in [Obj -> ObjState] /\ held[c] \in Obj
      /\ view[c] \in [Key -> Option]
      /\ read[c] \in SUBSET Key /\ read = [read EXCEPT ![c] = read[c]]
      /\ window[c] \in SUBSET Key /\ window = [window EXCEPT ![c] = window[c]]
      /\ Mine(It(c), view[c], read[c], window[c])
  BY OpenFacts DEF Open
<1> DEFINE ws == [It(c).writeset EXCEPT ![k] = v]
           r == [It(c) EXCEPT !.writeset = ws]
           w == [view[c] EXCEPT ![k] = v]
<1>1. /\ obj' = [obj EXCEPT ![held[c]].writeset[k] = v]
      /\ view' = [view EXCEPT ![c][k] = v]
  BY DEF Write
<1>2. It(c).writeset \in [Key -> Option \cup {Unset}]
  BY <1>0 DEF ObjState
<1>3. /\ ws \in [Key -> Option \cup {Unset}] /\ ws[k] = v
      /\ \A j \in Key : j # k => ws[j] = It(c).writeset[j]
  BY <1>2
<1>4. obj' = [obj EXCEPT ![held[c]] = r]
  BY <1>0, <1>1
<1> HIDE DEF ws
<1>5. r \in ObjState
  BY ONLY <1>0, <1>3, Zenon DEF ObjState
<1>6. /\ r.done = It(c).done /\ r.write = It(c).write /\ r.base = It(c).base
      /\ r.writeset = ws /\ r.readset = It(c).readset
  BY <1>0, Zenon DEF ObjState
<1>7. /\ w \in [Key -> Option] /\ w[k] = v
      /\ \A j \in Key : j # k => w[j] = view[c][j]
  BY <1>0
<1>8. view' = [view EXCEPT ![c] = w]
  BY <1>1
<1> HIDE DEF r, w
<1>9. Mine(r, w, read[c], window[c])
  <2>1. v # Unset
    BY ApiAssumption DEF Option
  <2>2. \A j \in Key : w[j] = IF ws[j] # Unset THEN ws[j] ELSE It(c).base[j]
    BY <1>0, <1>3, <1>7, <2>1 DEF Mine
  <2> QED BY <1>0, <1>6, <2>2 DEF Mine
<1> QED BY <1>0, <1>4, <1>5, <1>7, <1>8, <1>9, OwnStep, Zenon

LEMMA SetOrDelKept ==
  ASSUME ApiInv, NEW c \in Client, NEW k \in Key, NEW v \in Option, SetOrDel(c, k, v)
  PROVE  ApiInv'
BY WriteKept, Silence DEF SetOrDel

LEMMA PutKept ==
  ASSUME ApiInv, NEW c \in Client, NEW k \in Key, NEW v \in Value, Put(c, k, v)
  PROVE  ApiInv'
<1>0. Open(c) /\ It(c).write /\ v \in Option
  BY DEF Put, Option
<1>1. PICK a \in BOOLEAN : last' = [res |-> a, exp |-> view[c][k] = None]
  BY Zenon DEF Put, Says
<1>2. last' \in Answers /\ last'.res \notin Option
  BY <1>1, ApiAssumption DEF Answers, Option
<1>3. CASE Write(c, k, v) /\ UNCHANGED <<db, pool, held, window, read>>
  BY <1>0, <1>2, <1>3, WriteKept
<1>4. CASE UNCHANGED <<obj, view>> /\ UNCHANGED <<db, pool, held, window, read>>
  <2>1. /\ held[c] # NoObj /\ It(c) \in ObjState /\ obj = [obj EXCEPT ![held[c]] = It(c)]
        /\ view[c] \in [Key -> Option] /\ view = [view EXCEPT ![c] = view[c]]
        /\ read[c] \in SUBSET Key /\ read = [read EXCEPT ![c] = read[c]]
        /\ window[c] \in SUBSET Key /\ window = [window EXCEPT ![c] = window[c]]
        /\ Mine(It(c), view[c], read[c], window[c])
    BY <1>0, OpenFacts DEF Open
  <2> QED BY <1>2, <1>4, <2>1, OwnStep
<1> QED BY <1>3, <1>4, Zenon DEF Put

\* A transaction that ends without an effect on the database.
LEMMA EndKept ==
  ASSUME ApiInv, NEW c \in Client, held[c] # NoObj, NEW r \in ObjState, r.done,
         obj' = [obj EXCEPT ![held[c]] = r], window' = [window EXCEPT ![c] = {}],
         Forget(c), UNCHANGED <<db, pool, held>>
  PROVE  ApiInv'
<1>1. /\ view' = [view EXCEPT ![c] = Absent] /\ read' = [read EXCEPT ![c] = {}]
      /\ last' = NoAnswer /\ Absent \in [Key -> Option]
  BY DEF Forget, Absent, Option
<1> QED BY <1>1, OwnStep, Silence, ZenonT(30)

\* What Close leaves.
LEMMA Closed ==
  ASSUME ApiInv, NEW c \in Client, held[c] # NoObj, Close(c)
  PROVE  \E r \in ObjState : r.done /\ obj' = [obj EXCEPT ![held[c]] = r]
<1> DEFINE rs == IF It(c).mode = "SSI" THEN {} ELSE It(c).readset
           r == [It(c) EXCEPT !.done = TRUE, !.writeset = NoWrites, !.readset = rs]
<1>0. It(c) \in ObjState /\ obj[held[c]] = It(c) /\ obj \in [Obj -> ObjState]
  BY OpenFacts
<1>1. obj' = [obj EXCEPT ![held[c]] = r]
  BY <1>0, Zenon DEF Close
<1>2. NoWrites \in [Key -> Option \cup {Unset}] /\ rs \in SUBSET Key
  BY <1>0 DEF NoWrites, ObjState
<1> HIDE DEF rs
<1>3. r \in ObjState
  BY ONLY <1>0, <1>2, Zenon DEF ObjState
<1>4. r.done
  BY <1>0 DEF ObjState
<1> QED BY <1>1, <1>3, <1>4, Zenon

LEMMA CancelKept ==
  ASSUME ApiInv, NEW c \in Client, Cancel(c)
  PROVE  ApiInv'
<1>1. held[c] # NoObj /\ Close(c)
  BY DEF Cancel, Open
<1>2. PICK r \in ObjState : r.done /\ obj' = [obj EXCEPT ![held[c]] = r]
  BY <1>1, Closed
<1> QED BY <1>1, <1>2, EndKept, Zenon DEF Cancel

\* A commit that installs its write set moves the keys out of every other open
\* transaction's unchanged part.
LEMMA InstallKept ==
  ASSUME ApiInv, NEW c \in Client, held[c] # NoObj, Close(c),
         db' = [k \in Key |-> IF k \in Written(c) THEN It(c).writeset[k] ELSE db[k]],
         window' = [d \in Client |-> IF d # c /\ Open(d) THEN window[d] \cup Written(c)
                                                         ELSE {}],
         Forget(c), UNCHANGED <<pool, held>>
  PROVE  ApiInv'
<1>0. /\ TypeOK /\ Exclusive /\ It(c) \in ObjState /\ db \in [Key -> Option]
      /\ window \in [Client -> SUBSET Key] /\ view \in [Client -> [Key -> Option]]
      /\ read \in [Client -> SUBSET Key]
  BY Types, OpenFacts DEF ApiInv
<1>1. PICK r \in ObjState : r.done /\ obj' = [obj EXCEPT ![held[c]] = r]
  BY Closed
<1>2. /\ obj' \in [Obj -> ObjState] /\ It(c)' = r
      /\ \A d \in Client : d # c /\ held[d] # NoObj => It(d)' = It(d)
  BY <1>1, OwnObject, Zenon
<1>3. db' \in [Key -> Option]
  <2>1. \A k \in Written(c) : It(c).writeset[k] \in Option
    BY <1>0 DEF Written, ObjState
  <2> QED BY <1>0, <2>1
<1>4. Written(c) \subseteq Key
  BY DEF Written
<1>5. window' \in [Client -> SUBSET Key]
  BY <1>0, <1>4
<1>6. /\ view' \in [Client -> [Key -> Option]] /\ read' \in [Client -> SUBSET Key]
      /\ \A d \in Client : d # c => view'[d] = view[d] /\ read'[d] = read[d]
      /\ last' = NoAnswer
  BY <1>0 DEF Forget, Absent, Option
<1>7. TypeOK'
  BY <1>0, <1>2, <1>3, <1>5, <1>6, Silence DEF TypeOK, ObjState, Answers
<1>8. Exclusive'
  BY <1>0 DEF Exclusive
<1>9. ASSUME NEW d \in Client, Open(d)' PROVE Mine(It(d), view[d], read[d], window[d])'
  <2>1. d # c
    BY <1>1, <1>2, <1>9 DEF Open
  <2>2. It(d)' = It(d) /\ Open(d)
    BY <1>2, <1>9, <2>1 DEF Open
  <2>3. Mine(It(d), view[d], read[d], window[d])
    BY <2>2, SMTT(30), Z3T(30) DEF ApiInv, Owed
  <2>4. window'[d] = window[d] \cup Written(c)
    BY <2>1, <2>2
  <2>5. \A k \in Key : k \notin window'[d] => It(d).base[k] = db'[k]
    BY <2>3, <2>4 DEF Mine
  <2> QED BY <1>6, <2>1, <2>2, <2>3, <2>5 DEF Mine, NoWrites
<1> QED BY <1>6, <1>7, <1>8, <1>9, Silence, Zenon DEF ApiInv, Owed, ReadYourWrites

LEMMA CommitKept ==
  ASSUME ApiInv, NEW c \in Client, NEW verdict, Commit(c, verdict)
  PROVE  ApiInv'
<1>0. held[c] # NoObj /\ Forget(c) /\ UNCHANGED <<pool, held>>
  BY DEF Commit, Open
<1>1. CASE obj' = [obj EXCEPT ![held[c]].done = TRUE]
             /\ window' = [window EXCEPT ![c] = {}] /\ UNCHANGED db
  <2> DEFINE r == [It(c) EXCEPT !.done = TRUE]
  <2>1. It(c) \in ObjState /\ obj[held[c]] = It(c) /\ obj \in [Obj -> ObjState]
    BY <1>0, OpenFacts
  <2>2. r \in ObjState /\ obj' = [obj EXCEPT ![held[c]] = r]
    BY ONLY <1>1, <2>1, Zenon DEF ObjState
  <2>3. r.done
    BY <2>1 DEF ObjState
  <2> HIDE DEF r
  <2> QED BY <1>0, <1>1, <2>2, <2>3, EndKept, Zenon
<1>2. CASE Close(c) /\ window' = [window EXCEPT ![c] = {}] /\ UNCHANGED db
  BY <1>0, <1>2, Closed, EndKept, Zenon
<1>3. CASE /\ Close(c)
           /\ db' = [k \in Key |-> IF k \in Written(c) THEN It(c).writeset[k] ELSE db[k]]
           /\ window' = [d \in Client |-> IF d # c /\ Open(d) THEN window[d] \cup Written(c)
                                                             ELSE {}]
  BY <1>0, <1>3, InstallKept, Zenon
<1> QED BY <1>1, <1>2, <1>3 DEF Commit

\* A handle gets an object that nobody has, reset or new.
LEMMA BeginObject ==
  ASSUME ApiInv, NEW c \in Client, NEW write \in BOOLEAN, Begin(c, write)
  PROVE  \E o \in Obj :
            /\ held' = [held EXCEPT ![c] = o] /\ obj' = [obj EXCEPT ![o] = New(write)]
            /\ \A d \in Client : held[d] # o
            /\ \/ pool # <<>> /\ o = Head(pool) /\ pool' = Tail(pool)
               \/ pool' = pool /\ \A i \in 1..Len(pool) : pool[i] # o
<1>0. Exclusive /\ pool \in Seq(Obj) /\ Len(pool) \in Nat
  BY Types DEF ApiInv
<1>1. CASE /\ pool # <<>>
           /\ held' = [held EXCEPT ![c] = Head(pool)]
           /\ obj' = [obj EXCEPT ![Head(pool)] = New(write)]
           /\ pool' = Tail(pool)
  <2>1. Len(pool) > 0 /\ Head(pool) = pool[1] /\ pool[1] \in Obj /\ 1 \in 1..Len(pool)
    BY <1>0, <1>1
  <2> QED BY <1>0, <1>1, <2>1, Zenon DEF Exclusive
<1>2. CASE pool = <<>> /\ UNCHANGED pool
           /\ \E o \in Obj \ InUse :
                  held' = [held EXCEPT ![c] = o] /\ obj' = [obj EXCEPT ![o] = New(write)]
  <2>1. PICK o \in Obj \ InUse :
           held' = [held EXCEPT ![c] = o] /\ obj' = [obj EXCEPT ![o] = New(write)]
    BY <1>2, Zenon
  <2>2. \A d \in Client : held[d] # o
    BY DEF InUse
  <2>3. \A i \in 1..Len(pool) : pool[i] # o
    BY DEF InUse
  <2> QED BY <1>2, <2>1, <2>2, <2>3, Zenon
<1> QED BY <1>1, <1>2 DEF Begin, Reset

LEMMA BeginKept ==
  ASSUME ApiInv, NEW c \in Client, NEW write \in BOOLEAN, Begin(c, write)
  PROVE  ApiInv'
<1>0. /\ TypeOK /\ Exclusive /\ db \in [Key -> Option] /\ pool \in Seq(Obj)
      /\ Len(pool) \in Nat /\ Len(pool) <= PoolSize /\ PoolSize \in Nat
      /\ obj \in [Obj -> ObjState] /\ held \in [Client -> Obj \cup {NoObj}]
      /\ window \in [Client -> SUBSET Key] /\ view \in [Client -> [Key -> Option]]
      /\ read \in [Client -> SUBSET Key]
  BY Types, ApiAssumption, SMTT(30), Z3T(30) DEF ApiInv
<1> DEFINE r == New(write)
<1>1. r \in ObjState /\ Mine(r, db, {}, {})
  BY <1>0 DEF New, NoWrites, ObjState, Mine
<1>2. PICK o \in Obj :
         /\ held' = [held EXCEPT ![c] = o] /\ obj' = [obj EXCEPT ![o] = r]
         /\ \A d \in Client : held[d] # o
         /\ \/ pool # <<>> /\ o = Head(pool) /\ pool' = Tail(pool)
            \/ pool' = pool /\ \A i \in 1..Len(pool) : pool[i] # o
  BY BeginObject
<1> HIDE DEF r
<1>3. /\ obj' \in [Obj -> ObjState] /\ obj'[o] = r /\ held' \in [Client -> Obj \cup {NoObj}]
      /\ held'[c] = o /\ \A d \in Client : d # c => held'[d] = held[d]
      /\ \A p \in Obj : p # o => obj'[p] = obj[p]
  BY <1>0, <1>1, <1>2
<1>4. /\ pool' \in Seq(Obj) /\ Len(pool') \in Nat /\ Len(pool') <= PoolSize
      /\ \A i \in 1..Len(pool') : pool'[i] # o
      /\ \/ pool' = pool
         \/ Len(pool') = Len(pool) - 1 /\ \A i \in 1..Len(pool') : pool'[i] = pool[i + 1]
  <2>1. CASE pool # <<>> /\ o = Head(pool) /\ pool' = Tail(pool)
    <3>1. /\ pool' \in Seq(Obj) /\ Len(pool') = Len(pool) - 1 /\ Len(pool) > 0
          /\ o = pool[1] /\ \A i \in 1..Len(pool') : pool'[i] = pool[i + 1]
      BY <1>0, <2>1
    <3>2. \A i \in 1..Len(pool') : i + 1 \in 1..Len(pool) /\ i + 1 # 1 /\ 1 \in 1..Len(pool)
      BY <1>0, <3>1
    <3>3. \A i \in 1..Len(pool') : pool'[i] # o
      BY <1>0, <3>1, <3>2 DEF Exclusive
    <3> QED BY <1>0, <3>1, <3>3
  <2>2. CASE pool' = pool /\ \A i \in 1..Len(pool) : pool[i] # o
    BY <1>0, <2>2
  <2> QED BY <1>2, <2>1, <2>2
<1>5. /\ window' \in [Client -> SUBSET Key] /\ window'[c] = {}
      /\ view' \in [Client -> [Key -> Option]] /\ view'[c] = db
      /\ read' \in [Client -> SUBSET Key] /\ read'[c] = {}
      /\ \A d \in Client : d # c => /\ window'[d] = window[d]
                                    /\ view'[d] = view[d] /\ read'[d] = read[d]
      /\ last' = NoAnswer /\ db' = db
  BY <1>0, SMTT(30), Z3T(30) DEF Begin
<1>6. TypeOK'
  BY <1>0, <1>3, <1>4, <1>5, Silence, SMTT(30), Z3T(30) DEF TypeOK, ObjState, Answers
<1>7. Exclusive'
  <2>1. \A a, d \in Client : a # d /\ held'[a] = held'[d] => held'[a] = NoObj
    BY <1>0, <1>2, <1>3 DEF Exclusive
  <2>2. \A i \in 1..Len(pool') : \E j \in 1..Len(pool) : pool'[i] = pool[j]
    BY <1>0, <1>4, SMTT(30), Z3T(30)
  <2>3. \A i \in 1..Len(pool') : \A d \in Client : held'[d] # pool'[i]
    BY <1>0, <1>3, <1>4, <2>2, SMTT(30), Z3T(30) DEF Exclusive
  <2>4. ASSUME NEW i \in 1..Len(pool'), NEW j \in 1..Len(pool'), pool'[i] = pool'[j]
        PROVE  i = j
    <3>1. CASE pool' = pool
      BY <1>0, <2>4, <3>1 DEF Exclusive
    <3>2. CASE Len(pool') = Len(pool) - 1 /\ \A m \in 1..Len(pool') : pool'[m] = pool[m + 1]
      <4>1. i + 1 \in 1..Len(pool) /\ j + 1 \in 1..Len(pool)
        BY <1>0, <3>2
      <4>2. i + 1 = j + 1
        BY <1>0, <2>4, <3>2, <4>1 DEF Exclusive
      <4> QED BY <4>2
    <3> QED BY <1>4, <3>1, <3>2
  <2> QED BY <2>1, <2>3, <2>4, SMTT(30), Z3T(30) DEF Exclusive
<1>8. ASSUME NEW d \in Client PROVE Owed(d)'
  <2>1. CASE d = c
    <3>1. It(c)' = r
      BY <1>3 DEF It
    <3>2. Mine(It(c), view[c], read[c], window[c])'
      BY <1>1, <1>5, <3>1, SMTT(30), Z3T(30) DEF Mine, NoWrites
    <3> QED BY <2>1, <3>2 DEF Owed
  <2>2. CASE d # c
    <3>1. held'[d] = held[d] /\ (held[d] # NoObj => It(d)' = It(d))
      BY <1>0, <1>2, <1>3, <2>2 DEF It
    <3>2. Owed(d)
      BY DEF ApiInv
    <3> QED BY <1>5, <2>2, <3>1, <3>2, OwedKept
  <2> QED BY <2>1, <2>2
<1> QED BY <1>5, <1>6, <1>7, <1>8, Silence DEF ApiInv, ReadYourWrites

\* The object goes to the pool or is freed; nobody else holds it.
LEMMA DropKept ==
  ASSUME ApiInv, NEW c \in Client, Drop(c)
  PROVE  ApiInv'
<1>0. /\ TypeOK /\ Exclusive /\ db \in [Key -> Option] /\ pool \in Seq(Obj)
      /\ Len(pool) \in Nat /\ Len(pool) <= PoolSize /\ PoolSize \in Nat
      /\ obj \in [Obj -> ObjState] /\ held \in [Client -> Obj \cup {NoObj}]
      /\ window \in [Client -> SUBSET Key] /\ view \in [Client -> [Key -> Option]]
      /\ read \in [Client -> SUBSET Key]
  BY Types, ApiAssumption DEF ApiInv
<1>1. held[c] \in Obj
  BY <1>0 DEF Drop
<1>2. /\ held' \in [Client -> Obj \cup {NoObj}] /\ held'[c] = NoObj
      /\ \A d \in Client : d # c => held'[d] = held[d]
  BY <1>0 DEF Drop
<1>3. /\ window' \in [Client -> SUBSET Key] /\ view' \in [Client -> [Key -> Option]]
      /\ read' \in [Client -> SUBSET Key]
      /\ \A d \in Client : d # c => /\ window'[d] = window[d]
                                    /\ view'[d] = view[d] /\ read'[d] = read[d]
      /\ last' = NoAnswer /\ db' = db
  BY <1>0 DEF Drop, Forget, Absent, Option
<1>4. Freed \in ObjState
  BY Zenon DEF Freed, New, NoWrites, Absent, ObjState, Option
<1>5. obj' \in [Obj -> ObjState] /\ \A p \in Obj : p # held[c] => obj'[p] = obj[p]
  BY <1>0, <1>1, <1>4, Zenon DEF Drop
<1>6. /\ pool' \in Seq(Obj) /\ Len(pool') \in Nat /\ Len(pool') <= PoolSize
      /\ \/ pool' = pool
         \/ /\ Len(pool') = Len(pool) + 1 /\ pool'[Len(pool) + 1] = held[c]
            /\ \A i \in 1..Len(pool) : pool'[i] = pool[i]
  <2>1. CASE pool' = Append(pool, held[c]) /\ Len(pool) < PoolSize
    BY ONLY <1>0, <1>1, <2>1
  <2>2. CASE pool' = pool
    BY <1>0, <2>2
  <2> QED BY <2>1, <2>2 DEF Drop
<1>7. TypeOK'
  BY <1>0, <1>2, <1>3, <1>5, <1>6, Silence DEF TypeOK, ObjState, Answers
<1>8. Exclusive'
  <2>1. \A a, d \in Client : a # d /\ held'[a] = held'[d] => held'[a] = NoObj
    BY <1>0, <1>2, SMTT(30), Z3T(30) DEF Exclusive
  <2>2. ASSUME NEW i \in 1..Len(pool') PROVE i \in 1..Len(pool) \/ i = Len(pool) + 1
    BY <1>0, <1>6
  <2>3. ASSUME NEW i \in 1..Len(pool'), NEW d \in Client PROVE held'[d] # pool'[i]
    <3>1. CASE i \in 1..Len(pool) /\ pool'[i] = pool[i]
      <4>1. pool[i] \in Obj
        BY <1>0, <3>1
      <4> QED BY <1>0, <1>2, <3>1, <4>1, ApiAssumption DEF Exclusive
    <3>2. CASE pool'[i] = held[c]
      BY <1>0, <1>1, <1>2, <3>2, ApiAssumption, SMTT(30), Z3T(30) DEF Exclusive
    <3> QED BY <1>6, <2>2, <3>1, <3>2
  <2>4. ASSUME NEW i \in 1..Len(pool'), NEW j \in 1..Len(pool'), pool'[i] = pool'[j]
        PROVE  i = j
    <3>1. CASE pool' = pool
      BY <1>0, <2>4, <3>1 DEF Exclusive
    <3>2. CASE /\ Len(pool') = Len(pool) + 1 /\ pool'[Len(pool) + 1] = held[c]
               /\ \A m \in 1..Len(pool) : pool'[m] = pool[m]
      <4>1. \A m \in 1..Len(pool) : pool'[m] # held[c]
        BY <1>0, <3>2 DEF Exclusive
      <4> QED BY <1>0, <2>2, <2>4, <3>2, <4>1, SMTT(30), Z3T(30) DEF Exclusive
    <3> QED BY <1>6, <3>1, <3>2
  <2> QED BY <2>1, <2>3, <2>4 DEF Exclusive
<1>9. ASSUME NEW d \in Client PROVE Owed(d)'
  <2>1. CASE d = c
    BY <1>2, <2>1, SMTT(30), Z3T(30) DEF Owed, Open
  <2>2. CASE d # c
    <3>1. held'[d] = held[d] /\ (held[d] # NoObj => It(d)' = It(d))
      BY <1>0, <1>1, <1>2, <1>5, <2>2 DEF It, Exclusive
    <3>2. Owed(d)
      BY DEF ApiInv
    <3> QED BY <1>3, <2>2, <3>1, <3>2, OwedKept
  <2> QED BY <2>1, <2>2
<1> QED BY <1>3, <1>7, <1>8, <1>9, Silence, SMTT(30), Z3T(30) DEF ApiInv, ReadYourWrites

LEMMA ApiInit == Init => ApiInv
<1> SUFFICES ASSUME Init PROVE ApiInv
  OBVIOUS
<1>1. Absent \in [Key -> Option] /\ Freed \in ObjState
  BY Zenon DEF Absent, Freed, New, NoWrites, ObjState, Option
<1>2. pool \in Seq(Obj) /\ Len(pool) = 0
  BY DEF Init
<1>3. TypeOK
  BY <1>1, <1>2, Silence, ApiAssumption DEF Init, TypeOK, ObjState, Answers
<1>4. \A c \in Client : held[c] = NoObj
  BY DEF Init
<1>5. Exclusive
  BY <1>2, <1>4 DEF Exclusive
<1>6. \A c \in Client : Owed(c)
  BY <1>4 DEF Owed, Open
<1>7. ReadYourWrites
  BY Silence DEF Init, ReadYourWrites
<1> QED BY <1>3, <1>5, <1>6, <1>7 DEF ApiInv

LEMMA ApiStep ==
  ASSUME ApiInv, NEW c \in Client, Step(c)
  PROVE  ApiInv'
BY BeginKept, SetModeKept, GetKept, ExistsKept, SetOrDelKept, PutKept, CommitKept,
   CancelKept, DropKept, SMTT(30), Z3T(30) DEF Step

LEMMA ApiStutter == ApiInv /\ UNCHANGED vars => ApiInv'
BY SMTT(30), Z3T(30) DEF vars, ApiInv, TypeOK, Exclusive, Owed, Open, It, Mine, NoWrites,
   ReadYourWrites

-----------------------------------------------------------------------------
(* What a call does to its own transaction, and to the others *)

\* No other handle, and no other open transaction's object, changes.
Apart(c) ==
    \A d \in Client : d # c => held'[d] = held[d] /\ (held[d] # NoObj => It(d)' = It(d))

LEMMA ApartOwn ==
  ASSUME ApiInv, NEW c \in Client, held[c] # NoObj, UNCHANGED held,
         \A o \in Obj : o # held[c] => obj'[o] = obj[o]
  PROVE  Apart(c)
<1>1. held \in [Client -> Obj \cup {NoObj}]
  BY Types DEF ApiInv
<1> QED BY <1>1 DEF ApiInv, Exclusive, Apart, It

LEMMA ApartStep ==
  ASSUME ApiInv, NEW c \in Client, Step(c)
  PROVE  Apart(c)
<1>0. obj \in [Obj -> ObjState] /\ held \in [Client -> Obj \cup {NoObj}] /\ Exclusive
  BY Types DEF ApiInv
<1>1. ASSUME NEW write \in BOOLEAN, Begin(c, write) PROVE Apart(c)
  <2>1. PICK o \in Obj :
           /\ held' = [held EXCEPT ![c] = o] /\ obj' = [obj EXCEPT ![o] = New(write)]
           /\ \A d \in Client : held[d] # o
    BY <1>1, BeginObject, SMTT(30), Z3T(30)
  <2> QED BY <1>0, <2>1 DEF Apart, It
<1>2. CASE Drop(c)
  <2>1. /\ held[c] \in Obj /\ \A o \in Obj : o # held[c] => obj'[o] = obj[o]
        /\ \A d \in Client : d # c => held'[d] = held[d]
    BY <1>0, <1>2, SMTT(30), Z3T(30) DEF Drop
  <2>2. \A d \in Client : d # c /\ held[d] # NoObj => held[d] \in Obj /\ held[d] # held[c]
    BY <1>0, <2>1, ApiAssumption DEF Exclusive
  <2> QED BY <2>1, <2>2, SMTT(30), Z3T(30) DEF Apart, It
<1>3. CASE \/ \E mode \in {"SI", "SSI"} : SetMode(c, mode)
           \/ \E k \in Key, v \in Option : SetOrDel(c, k, v)
           \/ \E k \in Key, v \in Value : Put(c, k, v)
           \/ Cancel(c)
  <2>1. held[c] # NoObj /\ UNCHANGED held
    BY <1>3, Zenon DEF SetMode, SetOrDel, Put, Cancel, Open
  <2>2. \A o \in Obj : o # held[c] => obj'[o] = obj[o]
    BY <1>0, <1>3, Zenon DEF SetMode, SetOrDel, Put, Write, Cancel, Close
  <2> QED BY <2>1, <2>2, ApartOwn
<1>4. CASE \E k \in Key : Get(c, k) \/ Exists(c, k)
  <2>1. held[c] # NoObj /\ UNCHANGED held
    BY <1>4, Zenon DEF Get, Exists, Open
  <2>2. \A o \in Obj : o # held[c] => obj'[o] = obj[o]
    BY <1>0, <1>4, Zenon DEF Get, Exists, Track
  <2> QED BY <2>1, <2>2, ApartOwn
<1>5. CASE \E verdict \in {"ok", "KeyWriteConflict", "KeyReadConflict"} : Commit(c, verdict)
  <2>1. held[c] # NoObj /\ UNCHANGED held
    BY <1>5 DEF Commit, Open
  <2>2. \A o \in Obj : o # held[c] => obj'[o] = obj[o]
    BY <1>0, <1>5, SMTT(30), Z3T(30) DEF Commit, Close
  <2> QED BY <2>1, <2>2, ApartOwn
<1> QED BY <1>1, <1>2, <1>3, <1>4, <1>5 DEF Step

LEMMA BeginEffect ==
  ASSUME ApiInv, NEW c \in Client, NEW write \in BOOLEAN, Begin(c, write)
  PROVE  held[c] = NoObj /\ held'[c] \in Obj /\ It(c)' = New(write) /\ db' = db
<1>1. obj \in [Obj -> ObjState] /\ held \in [Client -> Obj \cup {NoObj}]
  BY Types DEF ApiInv
<1>2. PICK o \in Obj :
         held' = [held EXCEPT ![c] = o] /\ obj' = [obj EXCEPT ![o] = New(write)]
  BY BeginObject, SMTT(30), Z3T(30)
<1> QED BY <1>1, <1>2 DEF Begin, It

\* Reads change nothing of a transaction but its read set.
LEMMA ReadEffect ==
  ASSUME ApiInv, NEW c \in Client, NEW k \in Key, Get(c, k) \/ Exists(c, k)
  PROVE  /\ Open(c) /\ Open(c)' /\ held'[c] = held[c] /\ db' = db
         /\ It(c)'.write = It(c).write /\ It(c)'.base = It(c).base
         /\ It(c)'.writeset = It(c).writeset
<1>0. Open(c) /\ held[c] # NoObj /\ UNCHANGED <<db, held>>
  BY ZenonT(30) DEF Get, Exists, Open
<1>1. held[c] \in Obj /\ It(c) \in ObjState /\ obj \in [Obj -> ObjState] /\ obj[held[c]] = It(c)
  BY <1>0, OpenFacts
<1>2. obj' = obj \/ obj' = [obj EXCEPT ![held[c]].readset = @ \cup {k}]
  BY Zenon DEF Get, Exists, Track
<1>3. /\ obj'[held[c]].write = It(c).write /\ obj'[held[c]].base = It(c).base
      /\ obj'[held[c]].writeset = It(c).writeset /\ obj'[held[c]].done = It(c).done
  BY ONLY <1>1, <1>2, SMTT(30), Z3T(30) DEF ObjState
<1> QED BY <1>0, <1>3, SMTT(30), Z3T(30) DEF It, Open

LEMMA WriteEffect ==
  ASSUME ApiInv, NEW c \in Client, Open(c), NEW k \in Key, NEW v \in Option,
         Write(c, k, v), UNCHANGED <<db, held>>
  PROVE  /\ Open(c)' /\ held'[c] = held[c]
         /\ It(c)'.write = It(c).write /\ It(c)'.base = It(c).base
         /\ It(c)'.writeset = [It(c).writeset EXCEPT ![k] = v]
<1>0. held[c] # NoObj
  BY SMTT(30), Z3T(30) DEF Open
<1>1. held[c] \in Obj /\ It(c) \in ObjState /\ obj \in [Obj -> ObjState] /\ obj[held[c]] = It(c)
  BY <1>0, OpenFacts
<1>2. obj' = [obj EXCEPT ![held[c]].writeset[k] = v]
  BY DEF Write
<1>3. /\ obj'[held[c]].write = It(c).write /\ obj'[held[c]].base = It(c).base
      /\ obj'[held[c]].done = It(c).done
      /\ obj'[held[c]].writeset = [It(c).writeset EXCEPT ![k] = v]
  BY ONLY <1>1, <1>2 DEF ObjState
<1> QED BY <1>0, <1>3 DEF It, Open

LEMMA DropEffect ==
  ASSUME ApiInv, NEW c \in Client, Drop(c)
  PROVE  held[c] # NoObj /\ held'[c] = NoObj /\ db' = db
BY Types, SMTT(30), Z3T(30) DEF ApiInv, Drop

\* A commit of one written key is refused or finds the key as its snapshot has
\* it, and then only that key changes.
LEMMA CommitEffect ==
  ASSUME ApiInv, NEW c \in Client, NEW verdict, Commit(c, verdict),
         NEW k \in Key, NEW v \in Option, It(c).writeset = [NoWrites EXCEPT ![k] = v]
  PROVE  /\ held'[c] = held[c] /\ held[c] # NoObj
         /\ \/ verdict = "ok" /\ It(c).base[k] = db[k] /\ db' = [db EXCEPT ![k] = v]
            \/ verdict \in {"KeyWriteConflict", "KeyReadConflict"} /\ db' = db
<1>0. Open(c) /\ held[c] # NoObj /\ UNCHANGED held /\ verdict \in Verdicts(c)
  BY DEF Commit, Open
<1>1. Mine(It(c), view[c], read[c], window[c]) /\ db \in [Key -> Option]
  BY <1>0, OpenFacts, Types DEF ApiInv
<1>2. v # Unset
  BY ApiAssumption DEF Option
<1>3. It(c).writeset[k] = v /\ \A j \in Key : j # k => It(c).writeset[j] = Unset
  BY DEF NoWrites
<1>4. Written(c) = {k}
  BY <1>2, <1>3, SMTT(30), Z3T(30) DEF Written
<1>5. \/ verdict = "ok" /\ Written(c) \cap window[c] = {}
      \/ verdict \in {"KeyWriteConflict", "KeyReadConflict"}
  BY <1>0, <1>4, SMTT(30), Z3T(30) DEF Verdicts
<1>6. CASE verdict = "ok" /\ Written(c) \cap window[c] = {}
  <2>1. It(c).base[k] = db[k]
    BY <1>1, <1>4, <1>6 DEF Mine
  <2>2. db' = [j \in Key |-> IF j \in Written(c) THEN It(c).writeset[j] ELSE db[j]]
    BY <1>4, <1>6 DEF Commit
  <2>3. db' = [db EXCEPT ![k] = v]
    BY <1>1, <1>3, <1>4, <2>2, Zenon
  <2> QED BY <1>0, <1>6, <2>1, <2>3, SMTT(30), Z3T(30)
<1>7. CASE verdict \in {"KeyWriteConflict", "KeyReadConflict"}
  BY <1>0, <1>4, <1>7, SMTT(30), Z3T(30) DEF Commit
<1> QED BY <1>5, <1>6, <1>7, SMTT(30), Z3T(30)

-----------------------------------------------------------------------------
(* Requests and calls of the front ends *)

Steps == {"idle", "begin", "read", "write", "commit", "drop", "reply", "returned"}
Outcomes == Errors \cup {"ok", "null"}
Told == {"nothing", "nil", "unknown", "ErrTxClosed", "ErrTxNotWritable",
         "ErrWriteConflict", "ErrReadConflict", "ErrKeyAlreadyExists"} \cup Errors

JobState == [step : Steps, op : Requests \cup Methods \cup {"none"},
             key : Key \cup {None}, val : Option, code : Outcomes,
             ans : Option \cup BOOLEAN, buffers : SUBSET {"value", "message"}, told : Told]

\* The errors that stupid-kv-go documents.
Documented == [TxClosed |-> "ErrTxClosed", TxNotWritable |-> "ErrTxNotWritable",
               KeyWriteConflict |-> "ErrWriteConflict",
               KeyReadConflict |-> "ErrReadConflict",
               KeyAlreadyExists |-> "ErrKeyAlreadyExists", ok |-> "nil",
               null |-> "unknown"]

Named(c) ==
    job[c].told # "nothing" =>
        /\ (job[c].told = "nil") = (job[c].code = "ok")
        /\ via[c] = "go" => job[c].told = Documented[job[c].code]

Asked(c) ==
    /\ job[c].op \in Requests /\ job[c].key \in Key
    /\ job[c].val \in (IF job[c].op \in {"insert", "update"} THEN Value ELSE {None})

\* What a handler has done when it is at one of its steps.
Handler(c) ==
    /\ job[c].told = "nothing" /\ job[c].step # "returned"
    /\ job[c].step # "idle" => Asked(c)
    /\ job[c].step \in {"idle", "begin", "reply"} => held[c] = NoObj
    /\ job[c].step \in {"read", "write", "commit"} => Open(c)
    /\ job[c].step = "drop" => held[c] # NoObj
    /\ job[c].step = "read" =>
          /\ job[c].op \in {"get", "exists", "delete"}
          /\ It(c).write = (job[c].op = "delete") /\ It(c).writeset = NoWrites
    /\ job[c].step \in {"write", "commit"} =>
          /\ job[c].op \in {"insert", "update", "delete"} /\ It(c).write
          /\ job[c].op = "delete" => job[c].ans = It(c).base[job[c].key]
    /\ job[c].step = "write" => It(c).writeset = NoWrites
    /\ job[c].step = "commit" =>
          /\ It(c).writeset = [NoWrites EXCEPT ![job[c].key] = job[c].val]
          /\ job[c].op = "insert" => It(c).base[job[c].key] = None

Job(c) ==
    /\ job[c].buffers = IF job[c].step = "returned"
                        THEN Allocated(job[c].op, job[c].code, job[c].ans) ELSE {}
    /\ Named(c)
    /\ via[c] = "http" => Handler(c)

FInv ==
    /\ ApiInv
    /\ job \in [Client -> JobState]
    /\ \A c \in Client : Job(c)

\* The error survives the integer in between, and the buffers are released.
LEMMA ErrorKept ==
  ASSUME NEW code \in Outcomes, NEW found \in BOOLEAN
  PROVE  /\ GoError(SkCode(code, found)) = Documented[code]
         /\ GoError(SkCode(code, found)) \in Told
         /\ (GoError(SkCode(code, found)) = "nil") = (code = "ok")
<1>1. CASE code = "ok"
  BY <1>1 DEF SkCode, GoError, Documented, Told
<1>2. CASE code = "null"
  BY <1>2 DEF SkCode, GoError, Documented, Told
<1>3. CASE code \in {"TxClosed", "TxNotWritable"}
  BY <1>3 DEF SkCode, GoError, Documented, Told
<1>4. CASE code \in {"KeyWriteConflict", "KeyReadConflict"}
  BY <1>4 DEF SkCode, GoError, Documented, Told
<1>5. CASE code = "KeyAlreadyExists"
  BY <1>5 DEF SkCode, GoError, Documented, Told
<1> QED BY <1>1, <1>2, <1>3, <1>4, <1>5 DEF Outcomes, Errors

LEMMA BuffersTaken ==
  ASSUME NEW op, NEW code \in Outcomes, NEW ans
  PROVE  /\ Allocated(op, code, ans) \subseteq {"value", "message"}
         /\ Allocated(op, code, ans) \ Released(SkCode(code, op # "get" \/ ans # None)) = {}
<1>1. CASE code = "ok"
  BY <1>1 DEF SkCode, Allocated, Released
<1>2. CASE code = "null"
  BY <1>2 DEF SkCode, Allocated, Released
<1>3. CASE code \in Errors
  BY <1>3 DEF SkCode, Allocated, Released, Errors
<1> QED BY <1>1, <1>2, <1>3 DEF Outcomes

LEMMA CodesKnown ==
  ASSUME NEW op, NEW code \in Codes(op)
  PROVE  code \in Errors \cup {"ok"}
BY SMTT(30), Z3T(30) DEF Codes, Errors

\* A method of Transaction is a step of TransactionApi, or refused.
LEMMA CallStep ==
  ASSUME NEW c \in Client, NEW op, NEW k \in Key, NEW v \in Option,
         op = "put" => v \in Value, NEW code, Call(c, op, k, v, code)
  PROVE  Step(c) \/ UNCHANGED vars
<1>1. CASE op = "commit" /\ Commit(c, code)
  <2>1. code \in {"ok", "KeyWriteConflict", "KeyReadConflict"}
    BY <1>1 DEF Commit, Verdicts
  <2> QED BY <1>1, <2>1 DEF Step
<1>2. None \in Option
  BY DEF Option
<1> QED BY <1>1, <1>2 DEF Call, Step

\* A step of one client, by way of its calls, and of its request.
LEMMA FrontFrame ==
  ASSUME FInv, NEW c \in Client, Step(c) \/ UNCHANGED vars, UNCHANGED via,
         NEW r \in JobState, job' = [job EXCEPT ![c] = r],
         ApiInv' /\ job'[c] = r => Job(c)'
  PROVE  FInv'
<1>1. ApiInv'
  BY ApiStep, ApiStutter DEF FInv
<1>2. Apart(c)
  <2>1. CASE Step(c)
    BY <2>1, ApartStep, SMTT(30), Z3T(30) DEF FInv
  <2>2. CASE UNCHANGED vars
    BY <2>2 DEF vars, Apart, It
  <2> QED BY <2>1, <2>2, SMTT(30), Z3T(30)
<1>3. /\ job' \in [Client -> JobState] /\ job'[c] = r
      /\ \A d \in Client : d # c => job'[d] = job[d]
  BY DEF FInv
<1>4. ASSUME NEW d \in Client, d # c PROVE Job(d)'
  <2>1. Job(d) /\ job'[d] = job[d] /\ via' = via
    BY <1>3, <1>4 DEF FInv
  <2>2. held'[d] = held[d] /\ (held[d] # NoObj => It(d)' = It(d))
    BY <1>2, <1>4, SMTT(30), Z3T(30) DEF Apart
  <2>3. Named(d)'
    BY <2>1, ZenonT(30) DEF Job, Named, Documented
  <2>4. Handler(d) => Handler(d)'
    BY <2>1, <2>2, ZenonT(30) DEF Handler, Asked, Open, NoWrites
  <2> QED BY <2>1, <2>3, <2>4 DEF Job, Allocated
<1> QED BY <1>1, <1>3, <1>4, SMTT(30), Z3T(30) DEF FInv

LEMMA NoJobFacts ==
  /\ NoJob \in JobState /\ NoJob.step = "idle" /\ NoJob.op = "none" /\ NoJob.key = None
  /\ NoJob.val = None /\ NoJob.code = "ok" /\ NoJob.ans = None /\ NoJob.buffers = {}
  /\ NoJob.told = "nothing"
BY Zenon DEF NoJob, JobState, Steps, Outcomes, Told, Option

LEMMA QuietJob ==
  ASSUME FInv, NEW c \in Client, via[c] # "http", Step(c) \/ UNCHANGED vars,
         UNCHANGED <<via, job>>
  PROVE  FInv'
<1>1. job[c] \in JobState /\ job' = [job EXCEPT ![c] = job[c]] /\ Job(c)
  BY SMTT(30), Z3T(30) DEF FInv
<1>2. Job(c)'
  BY <1>1 DEF Job, Named, Documented, Allocated
<1> QED BY <1>1, <1>2, FrontFrame, Zenon

LEMMA JobReset ==
  ASSUME FInv, NEW c \in Client, via[c] # "http", Step(c) \/ UNCHANGED vars,
         UNCHANGED via, job' = [job EXCEPT ![c] = NoJob]
  PROVE  FInv'
<1>1. ASSUME job'[c] = NoJob PROVE Job(c)'
  BY <1>1, NoJobFacts DEF Job, Named
<1> QED BY <1>1, NoJobFacts, FrontFrame, ZenonT(30)

LEMMA GoCallKept ==
  ASSUME FInv, NEW c \in Client, GoCall(c), UNCHANGED via
  PROVE  FInv'
<1>1. PICK op \in Methods, k \in Key, v \in Value :
         \E code \in Codes(op) \cup {"null"} :
            /\ \/ Call(c, op, k, v, code)
               \/ code = "null" /\ held[c] = NoObj /\ UNCHANGED vars
            /\ job' = [job EXCEPT ![c] = [NoJob EXCEPT
                         !.step = "returned", !.op = op, !.code = code,
                         !.ans = Result(op, code),
                         !.buffers = Allocated(op, code, Result(op, code))]]
  BY Zenon DEF GoCall
<1>2. PICK code \in Codes(op) \cup {"null"} :
            /\ \/ Call(c, op, k, v, code)
               \/ code = "null" /\ held[c] = NoObj /\ UNCHANGED vars
            /\ job' = [job EXCEPT ![c] = [NoJob EXCEPT
                         !.step = "returned", !.op = op, !.code = code,
                         !.ans = Result(op, code),
                         !.buffers = Allocated(op, code, Result(op, code))]]
  BY <1>1, Zenon
<1>3. Step(c) \/ UNCHANGED vars
  BY <1>2, CallStep DEF Option
<1>4. code \in Outcomes
  BY CodesKnown DEF Outcomes
<1>5. Result(op, code) \in Option \cup BOOLEAN
  <2>1. ApiInv'
    BY <1>3, ApiStep, ApiStutter, SMTT(30), Z3T(30) DEF FInv
  <2>2. last' \in [res : Option \cup BOOLEAN, exp : Option \cup BOOLEAN]
    BY <2>1, SMTT(30), Z3T(30) DEF ApiInv, TypeOK, Option
  <2> QED BY <2>2 DEF Result, Option
<1> DEFINE ans == Result(op, code)
           buffers == Allocated(op, code, ans)
           r == [NoJob EXCEPT !.step = "returned", !.op = op, !.code = code,
                              !.ans = ans, !.buffers = buffers]
<1>6. job' = [job EXCEPT ![c] = r]
  BY <1>2
<1>7. buffers \subseteq {"value", "message"}
  BY <1>4, BuffersTaken
<1>8. buffers = Allocated(op, code, ans)
  OBVIOUS
<1> HIDE DEF ans, buffers
<1>9. r \in JobState
  BY ONLY <1>4, <1>5, <1>7, NoJobFacts, op \in Methods, Zenon DEF JobState, Steps, ans
<1>10. /\ r.step = "returned" /\ r.op = op /\ r.code = code /\ r.ans = ans
       /\ r.buffers = buffers /\ r.told = "nothing"
  BY NoJobFacts, SMTT(30), Z3T(30) DEF JobState
<1> HIDE DEF r
<1>11. ASSUME job'[c] = r PROVE Job(c)'
  <2>1. via'[c] = "go"
    BY SMTT(30), Z3T(30) DEF GoCall, Go
  <2>2. Named(c)'
    BY <1>10, <1>11 DEF Named
  <2> QED BY <1>8, <1>10, <1>11, <2>1, <2>2 DEF Job
<1> QED BY <1>3, <1>6, <1>9, <1>11, FrontFrame, ZenonT(30)

LEMMA GoTakeKept ==
  ASSUME FInv, NEW c \in Client, GoTake(c), UNCHANGED via
  PROVE  FInv'
<1> DEFINE code == job[c].code
           found == job[c].op # "get" \/ job[c].ans # None
           told == GoError(SkCode(code, found))
           buffers == job[c].buffers \ Released(SkCode(code, found))
           r == [NoJob EXCEPT !.code = code, !.told = told, !.buffers = buffers]
<1>1. /\ job' = [job EXCEPT ![c] = r] /\ UNCHANGED vars
      /\ via[c] = "go" /\ job[c].step = "returned"
  BY DEF GoTake, Go
<1>2. job[c] \in JobState /\ Job(c)
  BY DEF FInv
<1>3. code \in Outcomes /\ found \in BOOLEAN
  BY <1>2 DEF JobState
<1>4. told = Documented[code] /\ told \in Told /\ (told = "nil") = (code = "ok")
  BY <1>3, ErrorKept, Zenon
<1>5. buffers = {}
  BY <1>1, <1>2, <1>3, BuffersTaken, SMTT(30), Z3T(30) DEF Job
<1> HIDE DEF code, told, buffers
<1>6. r \in JobState
  BY ONLY <1>3, <1>4, <1>5, NoJobFacts, ZenonT(30) DEF JobState
<1>7. r.step = "idle" /\ r.code = code /\ r.told = told /\ r.buffers = {}
  BY <1>5, NoJobFacts, SMTT(30), Z3T(30) DEF JobState
<1> HIDE DEF r
<1>8. ASSUME job'[c] = r PROVE Job(c)'
  <2>1. Named(c)'
    BY <1>4, <1>7, <1>8 DEF Named, Documented
  <2> QED BY <1>1, <1>7, <1>8, <2>1, SMTT(30), Z3T(30) DEF Job
<1> QED BY <1>1, <1>6, <1>8, FrontFrame, Zenon

LEMMA PyCallKept ==
  ASSUME FInv, NEW c \in Client, PyCall(c), UNCHANGED via
  PROVE  FInv'
<1>1. PICK op \in Methods, k \in Key, v \in Value : \E code \in Codes(op) :
         /\ Call(c, op, k, v, code)
         /\ job' = [job EXCEPT ![c] = [NoJob EXCEPT !.code = code, !.told = PyError(code)]]
  BY Zenon DEF PyCall
<1>2. PICK code \in Codes(op) :
         /\ Call(c, op, k, v, code)
         /\ job' = [job EXCEPT ![c] = [NoJob EXCEPT !.code = code, !.told = PyError(code)]]
  BY <1>1, Zenon
<1>3. Step(c) \/ UNCHANGED vars
  BY <1>2, CallStep DEF Option
<1>4. code \in Errors \cup {"ok"} /\ code \in Outcomes
  BY CodesKnown DEF Outcomes
<1> DEFINE told == PyError(code)
           r == [NoJob EXCEPT !.code = code, !.told = told]
<1>5. told \in Told /\ (told = "nil") = (code = "ok")
  BY <1>4 DEF PyError, Told, Errors
<1> HIDE DEF told
<1>6. r \in JobState
  BY ONLY <1>4, <1>5, NoJobFacts, Zenon DEF JobState
<1>7. r.step = "idle" /\ r.code = code /\ r.told = told /\ r.buffers = {}
  BY NoJobFacts DEF JobState
<1>8. job' = [job EXCEPT ![c] = r] /\ via[c] = "py"
  BY <1>2, ZenonT(30) DEF told, PyCall, Py
<1> HIDE DEF r
<1>9. ASSUME job'[c] = r PROVE Job(c)'
  BY <1>5, <1>7, <1>8, <1>9 DEF Job, Named
<1> QED BY <1>3, <1>6, <1>8, <1>9, FrontFrame, ZenonT(30)

\* Clients that do not come in through the server.
LEMMA ClientStep ==
  ASSUME job \in [Client -> JobState], NEW c \in Client,
         (via[c] = "rust" /\ Step(c) /\ UNCHANGED job) \/ Golang(c) \/ Python(c)
  PROVE  /\ via[c] # "http" /\ (Step(c) \/ UNCHANGED vars)
         /\ \A d \in Client : d # c => job'[d] = job[d]
<1>1. ASSUME NEW op \in Methods, NEW k \in Key, NEW v \in Value, NEW code,
             Call(c, op, k, v, code)
      PROVE  Step(c) \/ UNCHANGED vars
  BY <1>1, CallStep, SMTT(30), Z3T(30) DEF Option
<1>2. ASSUME NEW x, Commit(c, x) PROVE Step(c)
  <2>1. x \in {"ok", "KeyWriteConflict", "KeyReadConflict"}
    BY <1>2, SMTT(30), Z3T(30) DEF Commit, Verdicts
  <2> QED BY <1>2, <2>1 DEF Step
<1>3. Golang(c) => via[c] = "go"
  BY ZenonT(30) DEF Golang, GoBegin, GoSwitch, GoCall, GoTake, GoClose, Go
<1>4. Python(c) => via[c] = "py"
  BY ZenonT(30) DEF Python, PyBegin, PySwitch, PyCall, PyExit, PyDrop, Py
<1>5. Golang(c) => Step(c) \/ UNCHANGED vars
  BY <1>1, ZenonT(30) DEF Golang, GoBegin, GoSwitch, GoCall, GoTake, GoClose, Step
<1>6. Python(c) => Step(c) \/ UNCHANGED vars
  BY <1>1, <1>2, ZenonT(30) DEF Python, PyBegin, PySwitch, PyCall, PyExit, PyDrop, Step
<1>7. \E r : Golang(c) \/ Python(c) => job' = job \/ job' = [job EXCEPT ![c] = r]
  BY Zenon DEF Golang, GoBegin, GoSwitch, GoCall, GoTake, GoClose,
         Python, PyBegin, PySwitch, PyCall, PyExit, PyDrop
<1> QED BY <1>3, <1>4, <1>5, <1>6, <1>7, SMTT(30), Z3T(30)

LEMMA ClientsKept ==
  ASSUME FInv, NEW c \in Client, UNCHANGED via,
         (via[c] = "rust" /\ Step(c) /\ UNCHANGED job) \/ Golang(c) \/ Python(c)
  PROVE  FInv'
<1>1. CASE via[c] = "rust" /\ Step(c) /\ UNCHANGED job
  BY <1>1, QuietJob, SMTT(30), Z3T(30)
<1>2. CASE GoSwitch(c) \/ PySwitch(c)
  <2>1. Step(c) /\ via[c] # "http" /\ UNCHANGED job
    BY <1>2, ZenonT(30) DEF GoSwitch, PySwitch, Go, Py, Step
  <2> QED BY <2>1, QuietJob, SMTT(30), Z3T(30)
<1>3. CASE GoBegin(c) \/ GoClose(c) \/ PyBegin(c) \/ PyDrop(c)
  <2>1. Step(c) /\ via[c] # "http" /\ job' = [job EXCEPT ![c] = NoJob]
    BY <1>3 DEF GoBegin, GoClose, PyBegin, PyDrop, Go, Py, Step
  <2> QED BY <2>1, JobReset, ZenonT(30)
<1>4. CASE PyExit(c)
  <2>1. via[c] # "http" /\ job' = [job EXCEPT ![c] = NoJob]
    BY <1>4, SMTT(30), Z3T(30) DEF PyExit, Py
  <2>2. Step(c)
    <3>1. ASSUME NEW x, Commit(c, x) PROVE Step(c)
      <4>1. x \in {"ok", "KeyWriteConflict", "KeyReadConflict"}
        BY <3>1, SMTT(30), Z3T(30) DEF Commit, Verdicts
      <4> QED BY <3>1, <4>1, SMTT(30), Z3T(30) DEF Step
    <3> QED BY <1>4, <3>1, SMTT(30), Z3T(30) DEF PyExit, Step
  <2> QED BY <2>1, <2>2, JobReset, Zenon
<1> QED BY <1>1, <1>2, <1>3, <1>4, GoCallKept, GoTakeKept, PyCallKept, SMTT(30), Z3T(30)
           DEF Golang, Python

-----------------------------------------------------------------------------
(* The handlers of the HTTP server, call by call *)

\* r is the request of c after a step of its handler.
Continues(c, r) ==
    /\ r \in JobState /\ job' = [job EXCEPT ![c] = r]
    /\ r.op = job[c].op /\ r.key = job[c].key /\ r.val = job[c].val
    /\ r.told = "nothing" /\ r.buffers = {}

LEMMA HttpFacts ==
  ASSUME FInv, NEW c \in Client, via[c] = "http"
  PROVE  /\ ApiInv /\ job \in [Client -> JobState] /\ job[c] \in JobState
         /\ Handler(c) /\ job[c].told = "nothing" /\ job[c].buffers = {}
BY ZenonT(30) DEF FInv, Job, Handler

LEMMA AskEffect ==
  ASSUME FInv, NEW c \in Client, Ask(c)
  PROVE  /\ via[c] = "http" /\ job[c].step = "idle" /\ UNCHANGED vars
         /\ \E op \in Requests, k \in Key, v \in Option, r \in JobState :
               /\ v \in (IF op \in {"insert", "update"} THEN Value ELSE {None})
               /\ job' = [job EXCEPT ![c] = r] /\ r.step = "begin"
               /\ r.op = op /\ r.key = k /\ r.val = v /\ r.ans = None
               /\ r.told = "nothing" /\ r.buffers = {}
<1>1. PICK op \in Requests, k \in Key, v \in Option :
         /\ (op \in {"insert", "update"}) = (v # None)
         /\ job' = [job EXCEPT ![c] = [NoJob EXCEPT !.step = "begin", !.op = op,
                                                   !.key = k, !.val = v]]
  BY Zenon DEF Ask
<1> DEFINE r == [NoJob EXCEPT !.step = "begin", !.op = op, !.key = k, !.val = v]
<1>2. r \in JobState
  BY ONLY NoJobFacts, op \in Requests, k \in Key, v \in Option, ZenonT(30) DEF JobState, Steps
<1>3. /\ r.step = "begin" /\ r.op = op /\ r.key = k /\ r.val = v /\ r.ans = None
      /\ r.told = "nothing" /\ r.buffers = {}
  BY NoJobFacts DEF JobState
<1>4. v \in (IF op \in {"insert", "update"} THEN Value ELSE {None})
  BY <1>1 DEF Option
<1>5. job' = [job EXCEPT ![c] = r]
  BY <1>1
<1> HIDE DEF r
<1>6. via[c] = "http" /\ job[c].step = "idle" /\ UNCHANGED vars
  BY DEF Ask, Serving
<1> QED BY <1>2, <1>3, <1>4, <1>5, <1>6, ZenonT(30)

\* What the steps of a handler leave in the job of c.
Begun(c, r) ==
    /\ Continues(c, r) /\ r.ans = job[c].ans
    /\ r.step = IF job[c].op \in {"insert", "update"} THEN "write" ELSE "read"

HasRead(c, r) ==
    /\ Continues(c, r) /\ r.code = "ok"
    /\ r.step = IF job[c].op = "delete" THEN "write" ELSE "drop"
    /\ r.ans = IF job[c].op = "exists" THEN It(c).base[job[c].key] # None
                                       ELSE It(c).base[job[c].key]

\* An insert of a key that its snapshot has is refused; any other write goes
\* into the write set.
HasWritten(c, r) ==
    /\ Continues(c, r) /\ r.ans = job[c].ans
    /\ \/ /\ job[c].op = "insert" /\ It(c).base[job[c].key] # None
          /\ r.step = "drop" /\ r.code = "KeyAlreadyExists"
       \/ /\ job[c].op = "insert" => It(c).base[job[c].key] = None
          /\ r.step = "commit" /\ r.code = "ok"
          /\ It(c)'.writeset = [NoWrites EXCEPT ![job[c].key] = job[c].val]

HasCommitted(c, r) ==
    /\ Continues(c, r) /\ r.step = "drop"
    /\ r.ans = IF job[c].op = "delete" THEN job[c].ans ELSE job[c].val
    /\ \/ /\ r.code = "ok" /\ It(c).base[job[c].key] = db[job[c].key]
          /\ db' = [db EXCEPT ![job[c].key] = job[c].val]
       \/ r.code \in {"KeyWriteConflict", "KeyReadConflict"} /\ db' = db

HasDropped(c, r) ==
    Continues(c, r) /\ r.step = "reply" /\ r.code = job[c].code /\ r.ans = job[c].ans

LEMMA HttpBeginEffect ==
  ASSUME FInv, NEW c \in Client, HttpBegin(c)
  PROVE  /\ via[c] = "http" /\ job[c].step = "begin" /\ db' = db /\ Step(c)
         /\ held'[c] \in Obj
         /\ It(c)' = New(job[c].op \in {"insert", "update", "delete"})
         /\ \E r : Begun(c, r)
<1>0. via[c] = "http" /\ job[c].step = "begin"
  BY DEF HttpBegin, Serving
<1>1. ApiInv /\ job[c] \in JobState /\ job[c].told = "nothing" /\ job[c].buffers = {}
  BY <1>0, HttpFacts
<1> DEFINE write == job[c].op \in {"insert", "update", "delete"}
           step == IF job[c].op \in {"insert", "update"} THEN "write" ELSE "read"
           r == [job[c] EXCEPT !.step = step]
<1>2. write \in BOOLEAN /\ Begin(c, write) /\ job' = [job EXCEPT ![c] = r]
  BY DEF HttpBegin
<1>3. held'[c] \in Obj /\ It(c)' = New(write) /\ db' = db
  BY <1>1, <1>2, BeginEffect, Zenon
<1>4. Step(c)
  BY <1>2, Zenon DEF Step
<1>5. step \in Steps
  BY DEF Steps
<1>6. step = IF job[c].op \in {"insert", "update"} THEN "write" ELSE "read"
  OBVIOUS
<1> HIDE DEF step
<1>7. r \in JobState
  BY ONLY <1>1, <1>5 DEF JobState
<1>8. /\ r.step = step /\ r.op = job[c].op /\ r.key = job[c].key /\ r.val = job[c].val
      /\ r.ans = job[c].ans /\ r.told = job[c].told /\ r.buffers = job[c].buffers
  BY <1>1 DEF JobState
<1>9. Continues(c, r)
  BY <1>1, <1>2, <1>7, <1>8, SMTT(30), Z3T(30) DEF Continues
<1> HIDE DEF r
<1>10. Begun(c, r)
  BY <1>6, <1>8, <1>9, Zenon DEF Begun
<1> QED BY <1>0, <1>3, <1>4, <1>10, ZenonT(30)

LEMMA HttpReadEffect ==
  ASSUME FInv, NEW c \in Client, HttpRead(c)
  PROVE  /\ via[c] = "http" /\ job[c].step = "read" /\ db' = db /\ Step(c)
         /\ Open(c) /\ Open(c)' /\ It(c)'.write = It(c).write /\ It(c)'.base = It(c).base
         /\ It(c)'.writeset = It(c).writeset
         /\ \E r : HasRead(c, r)
<1>0. via[c] = "http" /\ job[c].step = "read"
  BY DEF HttpRead, Serving
<1>1. ApiInv /\ job[c] \in JobState /\ job[c].told = "nothing" /\ job[c].buffers = {}
      /\ Handler(c)
  BY <1>0, HttpFacts, SMTT(30), Z3T(30)
<1> DEFINE k == job[c].key
           op == IF job[c].op = "exists" THEN "exists" ELSE "get"
           ans == IF job[c].op = "exists" THEN It(c).base[k] # None ELSE It(c).base[k]
           step == IF job[c].op = "delete" THEN "write" ELSE "drop"
           r == [job[c] EXCEPT !.step = step, !.code = "ok", !.ans = ans]
<1>2. Open(c) /\ k \in Key /\ It(c).writeset = NoWrites
  BY <1>0, <1>1, SMTT(30), Z3T(30) DEF Handler, Asked
<1>3. PICK code \in Codes(op) :
         /\ Call(c, op, k, None, code)
         /\ job' = [job EXCEPT
               ![c].step = IF job[c].op = "delete" /\ code = "ok" THEN "write" ELSE "drop",
               ![c].code = code, ![c].ans = Result(op, code)]
  BY Zenon DEF HttpRead
<1>4. /\ code = "ok"
      /\ job[c].op = "exists" => Exists(c, k)
      /\ job[c].op # "exists" => Get(c, k)
  BY <1>2, <1>3, SMTT(30), Z3T(30) DEF Call, Open
<1>5. ReadsDatastore(c, k)
  BY <1>2, SMTT(30), Z3T(30) DEF ReadsDatastore, NoWrites
<1>6. last'.res = ans
  <2>1. \A x, y : Says(x, y) => last'.res = x
    BY DEF Says
  <2>2. CASE job[c].op = "exists"
    <3>1. PICK y : Says(It(c).base[k] # None, y)
      BY <1>4, <1>5, <2>2, Zenon DEF Exists
    <3> QED BY <2>1, <2>2, <3>1, Zenon
  <2>3. CASE job[c].op # "exists"
    <3>1. PICK y : Says(It(c).base[k], y)
      BY <1>4, <1>5, <2>3, Zenon DEF Get
    <3> QED BY <2>1, <2>3, <3>1, Zenon
  <2> QED BY <2>2, <2>3, Zenon
<1>7. job' = [job EXCEPT ![c] = r]
  BY <1>3, <1>4, <1>6, ZenonT(30) DEF Result
<1>8. /\ Open(c)' /\ db' = db /\ It(c)'.write = It(c).write /\ It(c)'.base = It(c).base
      /\ It(c)'.writeset = It(c).writeset
  BY <1>1, <1>2, <1>4, ReadEffect, ZenonT(30)
<1>9. Step(c)
  BY <1>2, <1>4, ZenonT(30) DEF Step
<1>10. step \in Steps /\ ans \in Option \cup BOOLEAN
  <2>1. It(c).base[k] \in Option
    BY <1>1, <1>2, ViewRead
  <2> QED BY <2>1, SMTT(30), Z3T(30) DEF Steps
<1> HIDE DEF step, ans
<1>11. r \in JobState
  BY ONLY <1>1, <1>10, ZenonT(30) DEF JobState, Outcomes
<1>12. /\ r.step = step /\ r.op = job[c].op /\ r.key = job[c].key /\ r.val = job[c].val
       /\ r.code = "ok" /\ r.ans = ans /\ r.told = job[c].told
       /\ r.buffers = job[c].buffers
  BY <1>1 DEF JobState
<1>13. Continues(c, r)
  BY <1>1, <1>7, <1>11, <1>12 DEF Continues
<1> HIDE DEF r
<1>14. HasRead(c, r)
  BY <1>12, <1>13, Zenon DEF HasRead, step, ans
<1> QED BY <1>0, <1>2, <1>8, <1>9, <1>14, ZenonT(30)

LEMMA HttpWriteEffect ==
  ASSUME FInv, NEW c \in Client, HttpWrite(c)
  PROVE  /\ via[c] = "http" /\ job[c].step = "write" /\ db' = db /\ Step(c)
         /\ Open(c) /\ Open(c)' /\ It(c)'.write = It(c).write /\ It(c)'.base = It(c).base
         /\ \E r : HasWritten(c, r)
<1>0. via[c] = "http" /\ job[c].step = "write"
  BY DEF HttpWrite, Serving
<1>1. ApiInv /\ job[c] \in JobState /\ job[c].told = "nothing" /\ job[c].buffers = {}
      /\ Handler(c)
  BY <1>0, HttpFacts, SMTT(30), Z3T(30)
<1> DEFINE k == job[c].key
           v == job[c].val
           op == CASE job[c].op = "insert" -> "put"
                   [] job[c].op = "update" -> "set"
                   [] job[c].op = "delete" -> "del"
<1>2. /\ Open(c) /\ k \in Key /\ It(c).writeset = NoWrites /\ It(c).write
      /\ job[c].op \in {"insert", "update", "delete"}
      /\ v \in (IF job[c].op \in {"insert", "update"} THEN Value ELSE {None})
  BY <1>0, <1>1 DEF Handler, Asked
<1>3. PICK code \in Codes(op) :
         /\ Call(c, op, k, v, code)
         /\ job' = [job EXCEPT ![c].step = IF code = "ok" THEN "commit" ELSE "drop",
                               ![c].code = code]
  BY ZenonT(30) DEF HttpWrite
<1>4. /\ job[c].op = "insert" => op = "put" /\ v \in Value
      /\ job[c].op = "update" => op = "set" /\ v \in Value
      /\ job[c].op = "delete" => op = "del" /\ v = None
      /\ v \in Option
  BY <1>2 DEF Option
<1>5. code \in Outcomes
  BY CodesKnown DEF Outcomes
<1> HIDE DEF op
<1>6. /\ job[c].op = "insert" => /\ code \in {"ok", "KeyAlreadyExists"} /\ Put(c, k, v)
                                 /\ last'.res = (code = "ok")
      /\ job[c].op # "insert" => code = "ok" /\ SetOrDel(c, k, v)
  BY <1>2, <1>3, <1>4 DEF Call, Open
<1>7. Step(c)
  BY <1>2, <1>4, <1>6, ZenonT(30) DEF Step
<1>8. /\ UNCHANGED <<db, held>>
      /\ \/ /\ job[c].op = "insert" /\ It(c).base[k] # None
            /\ code = "KeyAlreadyExists" /\ UNCHANGED obj
         \/ /\ job[c].op = "insert" => It(c).base[k] = None
            /\ code = "ok" /\ Write(c, k, v)
  <2>1. It(c).writeset[k] = Unset
    BY <1>2, SMTT(30), Z3T(30) DEF NoWrites
  <2>2. CASE job[c].op = "insert"
    <3>1. \/ It(c).base[k] # None /\ Says(FALSE, view[c][k] = None) /\ UNCHANGED obj
          \/ It(c).base[k] = None /\ Says(TRUE, view[c][k] = None) /\ Write(c, k, v)
      BY <1>6, <2>1, <2>2, ZenonT(30) DEF Put
    <3>2. \A x \in BOOLEAN : Says(x, view[c][k] = None) => last'.res = x
      BY SMTT(30), Z3T(30) DEF Says
    <3>3. UNCHANGED <<db, held>>
      BY <1>6, <2>2, ZenonT(30) DEF Put
    <3> QED BY <1>6, <2>2, <3>1, <3>2, <3>3, ZenonT(30)
  <2>3. CASE job[c].op # "insert"
    BY <1>6, <2>3, ZenonT(30) DEF SetOrDel
  <2> QED BY <2>2, <2>3, ZenonT(30)
<1> DEFINE step == IF code = "ok" THEN "commit" ELSE "drop"
           r == [job[c] EXCEPT !.step = step, !.code = code]
<1>9. step \in Steps /\ job' = [job EXCEPT ![c] = r]
  BY <1>3, Zenon DEF Steps
<1>10. (code = "ok" => step = "commit") /\ (code # "ok" => step = "drop")
  OBVIOUS
<1> HIDE DEF step
<1>11. r \in JobState
  BY ONLY <1>1, <1>5, <1>9, Zenon DEF JobState
<1>12. /\ r.step = step /\ r.op = job[c].op /\ r.key = job[c].key /\ r.val = job[c].val
       /\ r.code = code /\ r.ans = job[c].ans /\ r.told = job[c].told
       /\ r.buffers = job[c].buffers
  BY <1>1 DEF JobState
<1>13. Continues(c, r)
  BY <1>1, <1>9, <1>11, <1>12, SMTT(30), Z3T(30) DEF Continues
<1> HIDE DEF r
<1>14. CASE /\ job[c].op = "insert" /\ It(c).base[k] # None
            /\ code = "KeyAlreadyExists" /\ UNCHANGED obj
  <2>1. It(c)' = It(c) /\ Open(c)'
    BY <1>2, <1>8, <1>14, ZenonT(30) DEF It, Open
  <2>2. HasWritten(c, r)
    BY <1>10, <1>12, <1>13, <1>14, ZenonT(30) DEF HasWritten
  <2> QED BY <1>0, <1>2, <1>7, <1>8, <2>1, <2>2, ZenonT(30)
<1>15. CASE (job[c].op = "insert" => It(c).base[k] = None) /\ code = "ok" /\ Write(c, k, v)
  <2>1. /\ Open(c)' /\ It(c)'.write = It(c).write /\ It(c)'.base = It(c).base
        /\ It(c)'.writeset = [It(c).writeset EXCEPT ![k] = v]
    BY <1>1, <1>2, <1>4, <1>8, <1>15, WriteEffect, ZenonT(30)
  <2>2. It(c)'.writeset = [NoWrites EXCEPT ![job[c].key] = job[c].val]
    BY <1>2, <2>1, Zenon
  <2>3. HasWritten(c, r)
    BY <1>10, <1>12, <1>13, <1>15, <2>2, ZenonT(30) DEF HasWritten
  <2> QED BY <1>0, <1>2, <1>7, <1>8, <2>1, <2>3, Zenon
<1> QED BY <1>8, <1>14, <1>15, Zenon

LEMMA HttpCommitEffect ==
  ASSUME FInv, NEW c \in Client, HttpCommit(c)
  PROVE  /\ via[c] = "http" /\ job[c].step = "commit" /\ Step(c)
         /\ held'[c] = held[c] /\ held[c] # NoObj
         /\ \E r : HasCommitted(c, r)
<1>0. via[c] = "http" /\ job[c].step = "commit"
  BY DEF HttpCommit, Serving
<1>1. ApiInv /\ job[c] \in JobState /\ job[c].told = "nothing" /\ job[c].buffers = {}
      /\ Handler(c)
  BY <1>0, HttpFacts, SMTT(30), Z3T(30)
<1>2. /\ Open(c) /\ job[c].key \in Key /\ job[c].val \in Option
      /\ It(c).writeset = [NoWrites EXCEPT ![job[c].key] = job[c].val]
  BY <1>0, <1>1, ZenonT(30) DEF Handler, Asked, JobState
<1> DEFINE ans == IF job[c].op = "delete" THEN job[c].ans ELSE job[c].val
<1>3. PICK code \in Codes("commit") :
         /\ Call(c, "commit", job[c].key, None, code)
         /\ job' = [job EXCEPT ![c].step = "drop", ![c].code = code, ![c].ans = ans]
  BY Zenon DEF HttpCommit
<1>4. Commit(c, code) /\ code \in Outcomes
  BY <1>2, <1>3, CodesKnown, SMTT(30), Z3T(30) DEF Call, Open, Outcomes
<1>5. Step(c)
  <2>1. code \in {"ok", "KeyWriteConflict", "KeyReadConflict"}
    BY <1>4, SMTT(30), Z3T(30) DEF Commit, Verdicts
  <2> QED BY <1>4, <2>1 DEF Step
<1>6. /\ held'[c] = held[c] /\ held[c] # NoObj
      /\ \/ /\ code = "ok" /\ It(c).base[job[c].key] = db[job[c].key]
            /\ db' = [db EXCEPT ![job[c].key] = job[c].val]
         \/ code \in {"KeyWriteConflict", "KeyReadConflict"} /\ db' = db
  BY <1>1, <1>2, <1>4, CommitEffect, SMTT(30), Z3T(30)
<1>7. ans \in Option \cup BOOLEAN
  BY <1>1, SMTT(30), Z3T(30) DEF JobState
<1>8. ans = IF job[c].op = "delete" THEN job[c].ans ELSE job[c].val
  OBVIOUS
<1> HIDE DEF ans
<1> DEFINE r == [job[c] EXCEPT !.step = "drop", !.code = code, !.ans = ans]
<1>9. r \in JobState /\ job' = [job EXCEPT ![c] = r]
  BY ONLY <1>1, <1>3, <1>4, <1>7, ZenonT(30) DEF JobState, Steps
<1>10. /\ r.step = "drop" /\ r.op = job[c].op /\ r.key = job[c].key /\ r.val = job[c].val
       /\ r.code = code /\ r.ans = ans /\ r.told = job[c].told
       /\ r.buffers = job[c].buffers
  BY <1>1 DEF JobState
<1>11. Continues(c, r)
  BY <1>1, <1>9, <1>10 DEF Continues
<1> HIDE DEF r
<1>12. HasCommitted(c, r)
  BY <1>6, <1>8, <1>10, <1>11, ZenonT(30) DEF HasCommitted
<1> QED BY <1>0, <1>5, <1>6, <1>12, Zenon

LEMMA HttpDropEffect ==
  ASSUME FInv, NEW c \in Client, HttpDrop(c)
  PROVE  /\ via[c] = "http" /\ job[c].step = "drop" /\ Step(c) /\ db' = db
         /\ held'[c] = NoObj
         /\ \E r : HasDropped(c, r)
<1>0. via[c] = "http" /\ job[c].step = "drop" /\ Drop(c)
  BY DEF HttpDrop, Serving
<1>1. ApiInv /\ job[c] \in JobState /\ job[c].told = "nothing" /\ job[c].buffers = {}
  BY <1>0, HttpFacts, ZenonT(30)
<1>2. held'[c] = NoObj /\ db' = db /\ Step(c)
  BY <1>0, <1>1, DropEffect, ZenonT(30) DEF Step
<1> DEFINE r == [job[c] EXCEPT !.step = "reply"]
<1>3. job' = [job EXCEPT ![c] = r]
  BY DEF HttpDrop
<1>4. r \in JobState
  BY ONLY <1>1 DEF JobState, Steps
<1>5. /\ r.step = "reply" /\ r.op = job[c].op /\ r.key = job[c].key /\ r.val = job[c].val
      /\ r.code = job[c].code /\ r.ans = job[c].ans /\ r.told = job[c].told
      /\ r.buffers = job[c].buffers
  BY <1>1 DEF JobState
<1>6. Continues(c, r)
  BY <1>1, <1>3, <1>4, <1>5, SMTT(30), Z3T(30) DEF Continues
<1> HIDE DEF r
<1>7. HasDropped(c, r)
  BY <1>5, <1>6, Zenon DEF HasDropped
<1> QED BY <1>0, <1>2, <1>7, Zenon

LEMMA HandlerStep ==
  ASSUME FInv, NEW c \in Client, via[c] = "http", UNCHANGED via,
         Step(c) \/ UNCHANGED vars, NEW r \in JobState, job' = [job EXCEPT ![c] = r],
         r.told = "nothing", r.buffers = {}, r.step # "returned",
         job'[c] = r => Handler(c)'
  PROVE  FInv'
<1>1. ASSUME job'[c] = r PROVE Job(c)'
  BY <1>1, Zenon DEF Job, Named
<1> QED BY <1>1, FrontFrame, Zenon

LEMMA HttpKept ==
  ASSUME FInv, NEW c \in Client, Http(c), UNCHANGED via
  PROVE  FInv'
<1>0. Job(c)
  BY SMTT(30), Z3T(30) DEF FInv
<1>1. CASE Ask(c)
  <2>1. /\ via[c] = "http" /\ job[c].step = "idle" /\ UNCHANGED vars
        /\ \E op \in Requests, k \in Key, v \in Option, r \in JobState :
              /\ v \in (IF op \in {"insert", "update"} THEN Value ELSE {None})
              /\ job' = [job EXCEPT ![c] = r] /\ r.step = "begin"
              /\ r.op = op /\ r.key = k /\ r.val = v /\ r.ans = None
              /\ r.told = "nothing" /\ r.buffers = {}
    BY <1>1, AskEffect, SMTT(30), Z3T(30)
  <2>2. PICK op \in Requests, k \in Key, v \in Option, r \in JobState :
              /\ v \in (IF op \in {"insert", "update"} THEN Value ELSE {None})
              /\ job' = [job EXCEPT ![c] = r] /\ r.step = "begin"
              /\ r.op = op /\ r.key = k /\ r.val = v /\ r.ans = None
              /\ r.told = "nothing" /\ r.buffers = {}
    BY <2>1, ZenonT(30)
  <2>3. held'[c] = NoObj
    BY <1>0, <2>1, Zenon DEF Job, Handler, vars
  <2>4. job'[c] = r => Handler(c)'
    BY <2>2, <2>3, ZenonT(30) DEF Handler, Asked
  <2> QED BY <2>1, <2>2, <2>4, HandlerStep, ZenonT(30)
<1>2. CASE HttpBegin(c)
  <2>1. /\ via[c] = "http" /\ job[c].step = "begin" /\ Step(c) /\ held'[c] \in Obj
        /\ It(c)' = New(job[c].op \in {"insert", "update", "delete"})
    BY <1>2, HttpBeginEffect, ZenonT(30)
  <2>0. PICK r : Begun(c, r)
    BY <1>2, HttpBeginEffect, Zenon
  <2>2. /\ Continues(c, r)
        /\ r.step = IF job[c].op \in {"insert", "update"} THEN "write" ELSE "read"
    BY <2>0, ZenonT(30) DEF Begun
  <2>3. /\ It(c)'.write = (job[c].op \in {"insert", "update", "delete"})
        /\ ~It(c)'.done /\ It(c)'.writeset = NoWrites
    BY <2>1, SMTT(30), Z3T(30) DEF New
  <2>4. Asked(c)
    BY <1>0, <2>1, ZenonT(30) DEF Job, Handler
  <2>5. Open(c)'
    BY <2>1, <2>3, ApiAssumption, ZenonT(30) DEF Open
  <2>6. ASSUME job'[c] = r PROVE Handler(c)'
    <3>1. /\ job'[c].told = "nothing" /\ Asked(c)' /\ job'[c].op = job[c].op
          /\ job[c].op \in Requests
      BY <2>2, <2>4, <2>6, SMTT(30), Z3T(30) DEF Continues, Asked
    <3>2. CASE job[c].op \in {"insert", "update"}
      <4>1. job'[c].step = "write" /\ It(c)'.write
        BY <2>2, <2>3, <2>6, <3>2, ZenonT(30)
      <4> QED BY <2>3, <2>5, <3>1, <3>2, <4>1, ZenonT(30) DEF Handler
    <3>3. CASE job[c].op \in {"get", "exists", "delete"}
      <4>1. job'[c].step = "read" /\ It(c)'.write = (job[c].op = "delete")
        BY <2>2, <2>3, <2>6, <3>3, SMTT(30), Z3T(30)
      <4> QED BY <2>3, <2>5, <3>1, <3>3, <4>1, ZenonT(30) DEF Handler, NoWrites
    <3> QED BY <3>1, <3>2, <3>3, SMTT(30), Z3T(30) DEF Requests
  <2>7. r.step # "returned"
    BY <2>2, SMTT(30), Z3T(30)
  <2> QED BY <2>1, <2>2, <2>6, <2>7, HandlerStep, ZenonT(30) DEF Continues
<1>3. CASE HttpRead(c)
  <2>1. /\ via[c] = "http" /\ job[c].step = "read" /\ Step(c)
        /\ Open(c)' /\ It(c)'.write = It(c).write /\ It(c)'.base = It(c).base
        /\ It(c)'.writeset = It(c).writeset
    BY <1>3, HttpReadEffect, ZenonT(30)
  <2>0. PICK r : HasRead(c, r)
    BY <1>3, HttpReadEffect, Zenon
  <2>2. /\ Continues(c, r)
        /\ r.step = IF job[c].op = "delete" THEN "write" ELSE "drop"
        /\ r.ans = IF job[c].op = "exists" THEN It(c).base[job[c].key] # None
                                           ELSE It(c).base[job[c].key]
    BY <2>0, Zenon DEF HasRead
  <2>3. Handler(c)
    BY <1>0, <2>1, ZenonT(30) DEF Job
  <2>4. held'[c] # NoObj
    BY <2>1, SMTT(30), Z3T(30) DEF Open
  <2>5. ASSUME job'[c] = r PROVE Handler(c)'
    <3>1. CASE job[c].op = "delete"
      <4>1. r.step = "write" /\ r.ans = It(c).base[job[c].key]
        BY <2>2, <3>1, SMTT(30), Z3T(30)
      <4>2. /\ job'[c].told = "nothing" /\ Asked(c)' /\ job'[c].op = job[c].op
            /\ job'[c].key = job[c].key /\ job'[c].step = "write"
        BY <2>1, <2>2, <2>3, <2>5, <4>1, ZenonT(30) DEF Handler, Asked, Continues
      <4>3. It(c)'.write /\ It(c)'.writeset = NoWrites
        BY <2>1, <2>3, <3>1, ZenonT(30) DEF Handler
      <4> QED BY <2>1, <2>5, <3>1, <4>1, <4>2, <4>3, ZenonT(30) DEF Handler, NoWrites
    <3>2. CASE job[c].op # "delete"
      <4>1. r.step = "drop"
        BY <2>2, <3>2, ZenonT(30)
      <4> QED BY <2>1, <2>2, <2>3, <2>4, <2>5, <3>2, <4>1, ZenonT(30) DEF Handler, Asked, Continues
    <3> QED BY <3>1, <3>2, SMTT(30), Z3T(30)
  <2>6. r.step # "returned"
    BY <2>2, SMTT(30), Z3T(30)
  <2> QED BY <2>1, <2>2, <2>5, <2>6, HandlerStep, ZenonT(30) DEF Continues
<1>4. CASE HttpWrite(c)
  <2>1. /\ via[c] = "http" /\ job[c].step = "write" /\ Step(c)
        /\ Open(c)' /\ It(c)'.write = It(c).write /\ It(c)'.base = It(c).base
    BY <1>4, HttpWriteEffect, Zenon
  <2>0. PICK r : HasWritten(c, r)
    BY <1>4, HttpWriteEffect, Zenon
  <2>2. /\ Continues(c, r) /\ r.ans = job[c].ans
        /\ \/ r.step = "drop"
           \/ /\ job[c].op = "insert" => It(c).base[job[c].key] = None
              /\ r.step = "commit"
              /\ It(c)'.writeset = [NoWrites EXCEPT ![job[c].key] = job[c].val]
    BY <2>0, Zenon DEF HasWritten
  <2>3. Handler(c)
    BY <1>0, <2>1, ZenonT(30) DEF Job
  <2>4. held'[c] # NoObj
    BY <2>1, SMTT(30), Z3T(30) DEF Open
  <2>5. ASSUME job'[c] = r PROVE Handler(c)'
    <3>1. CASE r.step = "drop"
      BY <2>1, <2>2, <2>3, <2>4, <2>5, <3>1, ZenonT(30) DEF Handler, Asked, Continues
    <3>2. CASE /\ job[c].op = "insert" => It(c).base[job[c].key] = None
               /\ r.step = "commit"
               /\ It(c)'.writeset = [NoWrites EXCEPT ![job[c].key] = job[c].val]
      <4>1. /\ job'[c].told = "nothing" /\ Asked(c)' /\ job'[c].op = job[c].op
            /\ job'[c].key = job[c].key /\ job'[c].val = job[c].val
            /\ job'[c].step = "commit" /\ job'[c].ans = job[c].ans
        BY <2>1, <2>2, <2>3, <2>5, <3>2, ZenonT(30) DEF Handler, Asked, Continues
      <4>2. /\ It(c)'.write /\ job[c].op \in {"insert", "update", "delete"}
            /\ job[c].op = "delete" => job[c].ans = It(c)'.base[job[c].key]
            /\ job[c].op = "insert" => It(c)'.base[job[c].key] = None
        BY <2>1, <2>3, <3>2, ZenonT(30) DEF Handler
      <4> QED BY <2>1, <3>2, <4>1, <4>2, ZenonT(30) DEF Handler, NoWrites
    <3> QED BY <2>2, <3>1, <3>2, SMTT(30), Z3T(30)
  <2> QED BY <2>1, <2>2, <2>5, HandlerStep, ZenonT(30) DEF Continues
<1>5. CASE HttpCommit(c)
  <2>1. via[c] = "http" /\ job[c].step = "commit" /\ Step(c) /\ held'[c] # NoObj
    BY <1>5, HttpCommitEffect, Zenon
  <2>0. PICK r : HasCommitted(c, r)
    BY <1>5, HttpCommitEffect, Zenon
  <2>2. Continues(c, r) /\ r.step = "drop"
    BY <2>0, Zenon DEF HasCommitted
  <2>3. Asked(c)
    BY <1>0, <2>1, ZenonT(30) DEF Job, Handler
  <2>4. job'[c] = r => Handler(c)'
    BY <2>1, <2>2, <2>3, ZenonT(30) DEF Handler, Asked, Continues
  <2> QED BY <2>1, <2>2, <2>4, HandlerStep, ZenonT(30) DEF Continues
<1>6. CASE HttpDrop(c)
  <2>1. via[c] = "http" /\ job[c].step = "drop" /\ Step(c) /\ held'[c] = NoObj
    BY <1>6, HttpDropEffect, Zenon
  <2>0. PICK r : HasDropped(c, r)
    BY <1>6, HttpDropEffect, Zenon
  <2>2. Continues(c, r) /\ r.step = "reply"
    BY <2>0, Zenon DEF HasDropped
  <2>3. Asked(c)
    BY <1>0, <2>1, ZenonT(30) DEF Job, Handler
  <2>4. job'[c] = r => Handler(c)'
    BY <2>1, <2>2, <2>3, ZenonT(30) DEF Handler, Asked, Continues
  <2> QED BY <2>1, <2>2, <2>4, HandlerStep, ZenonT(30) DEF Continues
<1>7. CASE HttpReply(c)
  <2>1. /\ via[c] = "http" /\ job[c].step = "reply" /\ UNCHANGED vars
        /\ job' = [job EXCEPT ![c] = NoJob]
    BY <1>7, SMTT(30), Z3T(30) DEF HttpReply, Serving
  <2>2. held'[c] = NoObj
    BY <1>0, <2>1, ZenonT(30) DEF Job, Handler, vars
  <2>3. job'[c] = NoJob => Handler(c)'
    BY <2>2, NoJobFacts, Zenon DEF Handler
  <2> QED BY <2>1, <2>3, NoJobFacts, HandlerStep, ZenonT(30)
<1> QED BY <1>1, <1>2, <1>3, <1>4, <1>5, <1>6, <1>7, SMTT(30), Z3T(30) DEF Http
-----------------------------------------------------------------------------
(* The invariant, and what it says *)

LEMMA FrontInitial == FrontInit => FInv
<1> SUFFICES ASSUME FrontInit PROVE FInv
  OBVIOUS
<1>1. ApiInv /\ \A c \in Client : held[c] = NoObj
  BY ApiInit, SMTT(30), Z3T(30) DEF FrontInit, Init
<1>2. job \in [Client -> JobState] /\ \A c \in Client : job[c] = NoJob
  BY NoJobFacts, SMTT(30), Z3T(30) DEF FrontInit
<1>3. ASSUME NEW c \in Client PROVE Job(c)
  BY <1>1, <1>2, NoJobFacts, ZenonT(30) DEF Job, Named, Handler
<1> QED BY <1>1, <1>2, <1>3, SMTT(30), Z3T(30) DEF FInv

LEMMA FrontStutter == FInv /\ UNCHANGED all => FInv'
<1> SUFFICES ASSUME FInv, UNCHANGED all PROVE FInv'
  OBVIOUS
<1>1. UNCHANGED vars /\ UNCHANGED <<via, job>>
  BY DEF all
<1>2. ApiInv'
  BY <1>1, ApiStutter, SMTT(30), Z3T(30) DEF FInv
<1>3. ASSUME NEW c \in Client PROVE Job(c)'
  <2>1. Job(c) /\ It(c)' = It(c) /\ held'[c] = held[c]
    BY <1>1 DEF FInv, vars, It
  <2> QED BY <1>1, <2>1, SMTT(30), Z3T(30)
             DEF Job, Named, Documented, Handler, Asked, Open, Allocated, NoWrites
<1> QED BY <1>1, <1>2, <1>3 DEF FInv

LEMMA FrontKept == FInv /\ [FrontNext]_all => FInv'
<1> SUFFICES ASSUME FInv, FrontNext PROVE FInv'
  BY FrontStutter
<1>1. PICK c \in Client :
         /\ \/ via[c] = "rust" /\ Step(c) /\ UNCHANGED job
            \/ Http(c) \/ Golang(c) \/ Python(c)
         /\ UNCHANGED via
  BY DEF FrontNext
<1> QED BY <1>1, HttpKept, ClientsKept

LEMMA FrontInvariant == FrontSpec => []FInv
BY FrontInitial, FrontKept, PTL DEF FrontSpec

\* Whatever way clients come in, a get answers what its transaction wrote last
\* or else its snapshot, also on an object that served another transaction.
THEOREM OwnWritesRead == FrontSpec => []ReadYourWrites
<1>1. FInv => ReadYourWrites
  BY ApiFacts, SMTT(30), Z3T(30) DEF FInv
<1> QED BY <1>1, FrontInvariant, PTL

\* Whatever a serializable writer has read from the datastore is in its read
\* set until it ends.
THEOREM ReadSetsComplete == FrontSpec => []ReadsTracked
<1>1. FInv => ReadsTracked
  BY ApiFacts DEF FInv
<1> QED BY <1>1, FrontInvariant, PTL

\* Pool::get and Transaction::drop never give an object to two handles, nor
\* put it into the pool twice, and read-only transactions write nothing.
THEOREM ObjectsOwned == FrontSpec => []ObjectsExclusive
<1>1. FInv => ObjectsExclusive
  BY ApiFacts DEF FInv
<1> QED BY <1>1, FrontInvariant, PTL

\* The Go methods release each buffer that a call of the C interface gave them.
THEOREM BuffersFreed == FrontSpec => []BuffersReleased
<1>1. FInv => BuffersReleased
  BY SMTT(30), Z3T(30) DEF FInv, Job, BuffersReleased
<1> QED BY <1>1, FrontInvariant, PTL

\* An error keeps its identity from Rust through C to Go, and no failure is
\* taken for success.
THEOREM ErrorsKept == FrontSpec => []ErrorNamed
<1>1. FInv => ErrorNamed
  BY DEF FInv, Job, Named, Documented, ErrorNamed
<1> QED BY <1>1, FrontInvariant, PTL
-----------------------------------------------------------------------------
(* The handlers are atomic: each step of a client is a step of AtomicMap   *)
(* on the database and the requests, or changes neither.                   *)

\* The request of c before and after the instant at which it takes effect.
Pending(c) == [phase |-> "asked", op |-> job[c].op, key |-> job[c].key,
               val |-> job[c].val, status |-> 0, ans |-> None]
Settled(c, status, ans) == [phase |-> "answered", op |-> job[c].op, key |-> job[c].key,
                            val |-> job[c].val, status |-> status, ans |-> ans]

LEMMA RequestNone ==
  ASSUME NEW c \in Client, via[c] # "http" \/ job[c].step = "idle"
  PROVE  Requested(c) = Served!Resting
BY DEF Requested, Served!Resting

LEMMA RequestPending ==
  ASSUME NEW c \in Client, via[c] = "http",
         \/ job[c].step \in {"begin", "commit"}
         \/ job[c].step = "read" /\ job[c].op = "delete"
         \/ job[c].step = "write" /\ (job[c].op = "insert" => It(c).base[job[c].key] = None)
  PROVE  Requested(c) = Pending(c)
<1>1. ~Performed(c) /\ job[c].step # "idle"
  BY DEF Performed
<1> QED BY <1>1, SMTT(30), Z3T(30) DEF Requested, Pending

LEMMA RequestSettled ==
  ASSUME NEW c \in Client, via[c] = "http", job[c].step # "idle", Performed(c)
  PROVE  Requested(c) = Settled(c, Reply(c).status, Reply(c).ans)
BY ZenonT(30) DEF Requested, Settled

LEMMA RequestRead ==
  ASSUME NEW c \in Client, via[c] = "http", job[c].step = "read",
         job[c].op \in {"get", "exists"}
  PROVE  Requested(c) = Settled(c, 200, IF job[c].op = "exists"
                                        THEN It(c).base[job[c].key] # None
                                        ELSE It(c).base[job[c].key])
<1>1. Performed(c)
  BY SMTT(30), Z3T(30) DEF Performed
<1>2. /\ Reply(c).status = 200
      /\ Reply(c).ans = IF job[c].op = "exists" THEN It(c).base[job[c].key] # None
                                                ELSE It(c).base[job[c].key]
  BY SMTT(30), Z3T(30) DEF Reply
<1> QED BY <1>1, <1>2, RequestSettled, SMTT(30), Z3T(30)

LEMMA RequestRefused ==
  ASSUME NEW c \in Client, via[c] = "http", job[c].step = "write",
         job[c].op = "insert", It(c).base[job[c].key] # None
  PROVE  Requested(c) = Settled(c, 409, None)
<1>1. Performed(c)
  BY SMTT(30), Z3T(30) DEF Performed
<1>2. Reply(c).status = 409 /\ Reply(c).ans = None
  BY SMTT(30), Z3T(30) DEF Reply
<1> QED BY <1>1, <1>2, RequestSettled, SMTT(30), Z3T(30)

LEMMA RequestDone ==
  ASSUME NEW c \in Client, via[c] = "http", job[c].step \in {"drop", "reply"}
  PROVE  Requested(c) = Settled(c, Status(job[c].code),
                                IF job[c].code = "ok" THEN job[c].ans ELSE None)
<1>1. Performed(c)
  BY SMTT(30), Z3T(30) DEF Performed
<1>2. /\ Reply(c).status = Status(job[c].code)
      /\ Reply(c).ans = IF job[c].code = "ok" THEN job[c].ans ELSE None
  BY SMTT(30), Z3T(30) DEF Reply
<1> QED BY <1>1, <1>2, RequestSettled, SMTT(30), Z3T(30)

\* The requests of other clients do not change.
LEMMA RequestKept ==
  ASSUME FInv, NEW c \in Client, Step(c) \/ UNCHANGED vars, UNCHANGED via,
         \A d \in Client : d # c => job'[d] = job[d]
  PROVE  \A d \in Client : d # c => Requested(d)' = Requested(d)
<1>1. Apart(c)
  <2>1. CASE Step(c)
    BY <2>1, ApartStep, SMTT(30), Z3T(30) DEF FInv
  <2>2. CASE UNCHANGED vars
    BY <2>2, SMTT(30), Z3T(30) DEF vars, Apart, It
  <2> QED BY <2>1, <2>2
<1> SUFFICES ASSUME NEW d \in Client, d # c PROVE Requested(d)' = Requested(d)
  OBVIOUS
<1>2. job'[d] = job[d] /\ via'[d] = via[d] /\ Job(d)
  BY DEF FInv
<1>3. CASE via[d] # "http" \/ job[d].step = "idle"
  BY <1>2, <1>3, SMTT(30), Z3T(30) DEF Requested
<1>4. CASE via[d] = "http" /\ job[d].step \in {"read", "write"}
  <2>1. It(d)' = It(d)
    BY <1>1, <1>2, <1>4, ZenonT(30) DEF Job, Handler, Open, Apart
  <2> QED BY <1>2, <2>1, SMTT(30), Z3T(30) DEF Requested, Performed, Reply, Status
<1>5. CASE via[d] = "http" /\ job[d].step \in {"drop", "reply"}
  <2>1. Performed(d) /\ Performed(d)' /\ Reply(d)' = Reply(d)
    BY <1>2, <1>5 DEF Performed, Reply, Status
  <2> QED BY <1>2, <2>1, SMTT(30), Z3T(30) DEF Requested
<1>6. CASE via[d] = "http" /\ job[d].step \notin {"idle", "read", "write", "drop", "reply"}
  <2>1. ~Performed(d) /\ ~Performed(d)'
    BY <1>2, <1>6 DEF Performed
  <2> QED BY <1>2, <1>6, <2>1, SMTT(30), Z3T(30) DEF Requested
<1> QED BY <1>3, <1>4, <1>5, <1>6, SMTT(30), Z3T(30)
\* A request of AtomicMap, field by field.
Request(f, o, k, v, s, a) ==
    [phase |-> f, op |-> o, key |-> k, val |-> v, status |-> s, ans |-> a]

LEMMA RequestReceived ==
  ASSUME NEW o, NEW k, NEW v
  PROVE  [Request("none", "none", None, None, 0, None) EXCEPT
             !.phase = "asked", !.op = o, !.key = k, !.val = v]
            = Request("asked", o, k, v, 0, None)
<1>1. [Request("none", "none", None, None, 0, None) EXCEPT !.phase = "asked"]
         = Request("asked", "none", None, None, 0, None)
  BY DEF Request
<1>2. [Request("asked", "none", None, None, 0, None) EXCEPT !.op = o]
         = Request("asked", o, None, None, 0, None)
  BY DEF Request
<1>3. [Request("asked", o, None, None, 0, None) EXCEPT !.key = k]
         = Request("asked", o, k, None, 0, None)
  BY DEF Request
<1>4. [Request("asked", o, k, None, 0, None) EXCEPT !.val = v]
         = Request("asked", o, k, v, 0, None)
  BY DEF Request
<1> QED BY ONLY <1>1, <1>2, <1>3, <1>4, Zenon

LEMMA FunctionUpdate ==
  ASSUME NEW S, NEW f, NEW g, NEW c \in S, NEW x,
         f = [d \in S |-> f[d]], g = [d \in S |-> g[d]],
         g[c] = x, \A d \in S : d # c => g[d] = f[d]
  PROVE  g = [f EXCEPT ![c] = x]
OBVIOUS

\* A step that changes only the request of c.
LEMMA OneRequest ==
  ASSUME NEW c \in Client, \A d \in Client : d # c => Requested(d)' = Requested(d)
  PROVE  [d \in Client |-> Requested(d)]' =
            [[d \in Client |-> Requested(d)] EXCEPT ![c] = Requested(c)']
<1> DEFINE f == [d \in Client |-> Requested(d)]
           g == [d \in Client |-> Requested(d)']
<1>1. f = [d \in Client |-> f[d]] /\ g = [d \in Client |-> g[d]]
  BY Zenon
<1>2. \A d \in Client : f[d] = Requested(d) /\ g[d] = Requested(d)'
  BY Zenon
<1>3. g[c] = Requested(c)' /\ \A d \in Client : d # c => g[d] = f[d]
  BY <1>2, ZenonT(30)
<1> HIDE DEF f, g
<1>4. g = [f EXCEPT ![c] = Requested(c)']
  BY <1>1, <1>3, FunctionUpdate, SMTT(30), Z3T(30)
<1> QED BY <1>4, Zenon DEF f, g

\* A step that settles the request of c, and one that leaves it as it is.
LEMMA Answering ==
  ASSUME NEW c \in Client, NEW status, NEW ans, Requested(c) = Pending(c),
         Requested(c)' = Settled(c, status, ans),
         \A d \in Client : d # c => Requested(d)' = Requested(d)
  PROVE  Served!Answer(c, status, ans)
<1> DEFINE q == [d \in Client |-> Requested(d)]
           p == Pending(c)
<1>1. q' = [q EXCEPT ![c] = Settled(c, status, ans)]
  BY OneRequest
<1>2. [p EXCEPT !.phase = "answered", !.status = status, !.ans = ans]
         = Settled(c, status, ans)
  <2>1. p = Request("asked", job[c].op, job[c].key, job[c].val, 0, None)
    BY SMTT(30), Z3T(30) DEF Pending, Request
  <2>2. Settled(c, status, ans)
           = Request("answered", job[c].op, job[c].key, job[c].val, status, ans)
    BY DEF Settled, Request
  <2> DEFINE o == job[c].op
             k == job[c].key
             v == job[c].val
  <2> HIDE DEF p, o, k, v
  <2>3. [Request("asked", o, k, v, 0, None) EXCEPT !.phase = "answered"]
           = Request("answered", o, k, v, 0, None)
    BY DEF Request
  <2>4. [Request("answered", o, k, v, 0, None) EXCEPT !.status = status]
           = Request("answered", o, k, v, status, None)
    BY DEF Request
  <2>5. [Request("answered", o, k, v, status, None) EXCEPT !.ans = ans]
           = Request("answered", o, k, v, status, ans)
    BY DEF Request
  <2> QED BY ONLY <2>1, <2>2, <2>3, <2>4, <2>5, ZenonT(30) DEF o, k, v
<1>3. q[c] = p
  OBVIOUS
<1> HIDE DEF q, p
<1>4. q' = [q EXCEPT ![c].phase = "answered", ![c].status = status, ![c].ans = ans]
  BY <1>1, <1>2, <1>3, ZenonT(30)
<1> QED BY <1>4, SMTT(30), Z3T(30) DEF Served!Answer, q

Serves == [Served!Next]_(Served!vars)

LEMMA SameRequests ==
  ASSUME NEW c \in Client, Requested(c)' = Requested(c), db' = db,
         \A d \in Client : d # c => Requested(d)' = Requested(d)
  PROVE  Serves
<1>1. UNCHANGED <<db, [d \in Client |-> Requested(d)]>>
  OBVIOUS
<1> QED BY <1>1, Zenon DEF Serves, Served!vars

\* A program that uses the crate, or the C or the Python interface.
LEMMA ClientsServe ==
  ASSUME FInv, NEW c \in Client, via[c] # "http", FInv', UNCHANGED via,
         Step(c) \/ UNCHANGED vars, \A d \in Client : d # c => job'[d] = job[d]
  PROVE  Serves
<1>1. \A d \in Client : Requested(d)' = Requested(d)
  <2>1. Requested(c)' = Requested(c)
    BY SMTT(30), Z3T(30) DEF Requested
  <2> QED BY <2>1, RequestKept
<1>2. db' \in [Key -> Value \cup {None}]
  BY Types, SMTT(30), Z3T(30) DEF FInv, ApiInv, TypeOK, Option
<1>3. Served!Others
  BY <1>1, <1>2, ZenonT(30) DEF Served!Others
<1> QED BY <1>3, SMTT(30), Z3T(30) DEF Serves, Served!Next

LEMMA AskServes ==
  ASSUME FInv, NEW c \in Client, Ask(c), UNCHANGED via
  PROVE  Serves
<1>1. via[c] = "http" /\ job[c].step = "idle" /\ UNCHANGED vars
  BY AskEffect, ZenonT(30)
<1>2. PICK op \in Requests, k \in Key, v \in Option, r \in JobState :
         /\ job' = [job EXCEPT ![c] = r] /\ r.step = "begin"
         /\ r.op = op /\ r.key = k /\ r.val = v
  BY AskEffect, SMTT(30), Z3T(30)
<1>3. job'[c] = r /\ \A d \in Client : d # c => job'[d] = job[d]
  BY <1>2 DEF FInv
<1>4. Requested(c) = Served!Resting
  BY <1>1, RequestNone
<1>5. Requested(c)' = [phase |-> "asked", op |-> op, key |-> k, val |-> v,
                       status |-> 0, ans |-> None]
  <2>1. ~Performed(c)'
    BY <1>2, <1>3, SMTT(30), Z3T(30) DEF Performed
  <2> QED BY <1>1, <1>2, <1>3, <2>1, SMTT(30), Z3T(30) DEF Requested
<1>6. \A d \in Client : d # c => Requested(d)' = Requested(d)
  BY <1>1, <1>3, RequestKept, SMTT(30), Z3T(30)
<1>7. Served!Receive(c)
  <2>1. op \in Served!Ops /\ v \in Value \cup {None} /\ db' = db
    BY <1>1 DEF Served!Ops, Requests, Option, vars
  <2>2. [Served!Resting EXCEPT !.phase = "asked", !.op = op, !.key = k, !.val = v]
           = Requested(c)'
    <3>1. Served!Resting = Request("none", "none", None, None, 0, None)
      BY SMTT(30), Z3T(30) DEF Served!Resting, Request
    <3>2. Requested(c)' = Request("asked", op, k, v, 0, None)
      BY <1>5 DEF Request
    <3>3. [Request("none", "none", None, None, 0, None) EXCEPT
              !.phase = "asked", !.op = op, !.key = k, !.val = v]
             = Request("asked", op, k, v, 0, None)
      BY ONLY RequestReceived, ZenonT(30)
    <3> QED BY ONLY <3>1, <3>2, <3>3, ZenonT(30)
  <2>4. Requested(c).phase = "none"
    BY <1>4 DEF Served!Resting
  <2>5. [d \in Client |-> Requested(d)][c] = Requested(c)
    OBVIOUS
  <2>6. [d \in Client |-> Requested(d)]' =
           [[d \in Client |-> Requested(d)] EXCEPT ![c] =
               [Served!Resting EXCEPT !.phase = "asked", !.op = op, !.key = k, !.val = v]]
    BY <1>6, <2>2, OneRequest, Zenon
  <2>7. [d \in Client |-> Requested(d)][c].phase = "none"
    BY <2>4, <2>5, ZenonT(30)
  <2> QED BY ONLY <2>1, <2>6, <2>7, k \in Key, ZenonT(30) DEF Served!Receive
<1> QED BY <1>7, SMTT(30), Z3T(30) DEF Serves, Served!Next

\* The instant of a request: what AtomicMap may do with it.
Effects(c, status, ans) ==
    LET op == job[c].op
        old == db[job[c].key]
    IN  \/ op = "get" /\ status = 200 /\ ans = old /\ db' = db
        \/ op = "exists" /\ status = 200 /\ ans = (old # None) /\ db' = db
        \/ op = "insert" /\ old # None /\ status = 409 /\ ans = None /\ db' = db
        \/ op = "insert" /\ old = None /\ status = 200 /\ ans = job[c].val
              /\ db' = [db EXCEPT ![job[c].key] = job[c].val]
        \/ op = "update" /\ status = 200 /\ ans = job[c].val
              /\ db' = [db EXCEPT ![job[c].key] = job[c].val]
        \/ op = "delete" /\ status = 200 /\ ans = old
              /\ db' = [db EXCEPT ![job[c].key] = None]
        \/ op \in {"insert", "update", "delete"} /\ status = 409 /\ ans = None /\ db' = db

LEMMA PendingFields ==
  ASSUME NEW c
  PROVE  /\ Pending(c).phase = "asked" /\ Pending(c).op = job[c].op
         /\ Pending(c).key = job[c].key /\ Pending(c).val = job[c].val
BY DEF Pending

LEMMA Performs ==
  ASSUME NEW c \in Client, NEW status, NEW ans, Requested(c) = Pending(c),
         Requested(c)' = Settled(c, status, ans),
         \A d \in Client : d # c => Requested(d)' = Requested(d),
         Effects(c, status, ans)
  PROVE  Serves
<1> DEFINE q == [d \in Client |-> Requested(d)]
           old == db[job[c].key]
<1>1. Served!Answer(c, status, ans)
  BY Answering, Zenon
<1>2. q[c] = Pending(c)
  BY Zenon
<1>3. /\ q[c].phase = "asked" /\ q[c].op = job[c].op /\ q[c].key = job[c].key
      /\ q[c].val = job[c].val
  BY <1>2, PendingFields, Zenon
<1>4. Served!Perform(c) \/ Served!Refuse(c)
  <2>1. /\ Served!Perform(c) <=>
             /\ q[c].phase = "asked"
             /\ \/ q[c].op = "get" /\ Served!Answer(c, 200, db[q[c].key]) /\ UNCHANGED db
                \/ q[c].op = "exists" /\ Served!Answer(c, 200, db[q[c].key] # None)
                      /\ UNCHANGED db
                \/ q[c].op = "insert" /\ db[q[c].key] = None
                      /\ Served!Answer(c, 200, q[c].val) /\ Served!Put(c, q[c].val)
                \/ q[c].op = "insert" /\ db[q[c].key] # None
                      /\ Served!Answer(c, 409, None) /\ UNCHANGED db
                \/ q[c].op = "update" /\ Served!Answer(c, 200, q[c].val)
                      /\ Served!Put(c, q[c].val)
                \/ q[c].op = "delete" /\ Served!Answer(c, 200, db[q[c].key])
                      /\ Served!Put(c, None)
        /\ Served!Refuse(c) <=>
             /\ q[c].phase = "asked" /\ q[c].op \in {"insert", "update", "delete"}
             /\ Served!Answer(c, 409, None) /\ UNCHANGED db
    BY ZenonT(30) DEF Served!Perform, Served!Refuse
  <2>2. \A v : Served!Put(c, v) <=> db' = [db EXCEPT ![q[c].key] = v]
    BY Zenon DEF Served!Put
  <2> HIDE DEF q, old
  <2>3. db[q[c].key] = old
    BY <1>3, Zenon DEF old
  <2>4. \A v : db' = [db EXCEPT ![job[c].key] = v] => Served!Put(c, v)
    BY <1>3, <2>2, Zenon
  <2>5. CASE job[c].op = "get" /\ status = 200 /\ ans = old /\ db' = db
    BY <1>1, <1>3, <2>1, <2>3, <2>5, ZenonT(30)
  <2>6. CASE job[c].op = "exists" /\ status = 200 /\ ans = (old # None) /\ db' = db
    BY <1>1, <1>3, <2>1, <2>3, <2>6, ZenonT(30)
  <2>7. CASE job[c].op = "insert" /\ old # None /\ status = 409 /\ ans = None /\ db' = db
    BY <1>1, <1>3, <2>1, <2>3, <2>7, ZenonT(30)
  <2>8. CASE job[c].op = "insert" /\ old = None /\ status = 200 /\ ans = job[c].val
             /\ db' = [db EXCEPT ![job[c].key] = job[c].val]
    BY <1>1, <1>3, <2>1, <2>3, <2>4, <2>8, ZenonT(30)
  <2>9. CASE job[c].op = "update" /\ status = 200 /\ ans = job[c].val
             /\ db' = [db EXCEPT ![job[c].key] = job[c].val]
    BY <1>1, <1>3, <2>1, <2>4, <2>9, ZenonT(30)
  <2>10. CASE job[c].op = "delete" /\ status = 200 /\ ans = old
              /\ db' = [db EXCEPT ![job[c].key] = None]
    BY <1>1, <1>3, <2>1, <2>3, <2>4, <2>10, ZenonT(30)
  <2>11. CASE job[c].op \in {"insert", "update", "delete"} /\ status = 409 /\ ans = None
              /\ db' = db
    BY <1>1, <1>3, <2>1, <2>11, ZenonT(30)
  <2> QED BY <2>5, <2>6, <2>7, <2>8, <2>9, <2>10, <2>11, ZenonT(30) DEF Effects, old
<1> QED BY <1>4, ZenonT(30) DEF Serves, Served!Next

\* The request of c after a step of its handler that left r.
LEMMA After ==
  ASSUME FInv, NEW c \in Client, via[c] = "http", UNCHANGED via, Step(c),
         NEW r, Continues(c, r)
  PROVE  /\ job'[c] = r /\ via'[c] = "http"
         /\ \A d \in Client : d # c => Requested(d)' = Requested(d)
<1>1. job'[c] = r /\ \A d \in Client : d # c => job'[d] = job[d]
  BY DEF FInv, Continues
<1> QED BY <1>1, RequestKept, ZenonT(30)

LEMMA AfterPending ==
  ASSUME NEW c \in Client, NEW r, Continues(c, r), job'[c] = r, via'[c] = "http",
         \/ r.step = "commit"
         \/ r.step = "read" /\ r.op = "delete"
         \/ r.step = "write" /\ (r.op = "insert" => It(c)'.base[r.key] = None)
  PROVE  Requested(c)' = Pending(c)
<1>1. ~Performed(c)' /\ r.step # "idle"
  BY DEF Performed
<1> QED BY <1>1, SMTT(30), Z3T(30) DEF Requested, Pending, Continues

LEMMA AfterSettled ==
  ASSUME NEW c \in Client, NEW r, Continues(c, r), job'[c] = r, via'[c] = "http",
         r.step # "idle", Performed(c)'
  PROVE  Requested(c)' = Settled(c, Reply(c)'.status, Reply(c)'.ans)
BY ZenonT(30) DEF Requested, Settled, Continues

LEMMA AfterDone ==
  ASSUME NEW c \in Client, NEW r, Continues(c, r), job'[c] = r, via'[c] = "http",
         r.step \in {"drop", "reply"}
  PROVE  Requested(c)' = Settled(c, Status(r.code), IF r.code = "ok" THEN r.ans ELSE None)
<1>1. Performed(c)'
  BY DEF Performed
<1>2. /\ Reply(c)'.status = Status(r.code)
      /\ Reply(c)'.ans = IF r.code = "ok" THEN r.ans ELSE None
  BY DEF Reply, Status
<1> QED BY <1>1, <1>2, AfterSettled, SMTT(30), Z3T(30)

\* Reads, and inserts of a key that is there, take effect at the snapshot.
LEMMA HttpBeginServes ==
  ASSUME FInv, NEW c \in Client, HttpBegin(c), UNCHANGED via
  PROVE  Serves
<1>1. /\ via[c] = "http" /\ job[c].step = "begin" /\ db' = db /\ Step(c)
      /\ It(c)' = New(job[c].op \in {"insert", "update", "delete"})
  BY HttpBeginEffect, SMTT(30), Z3T(30)
<1>0. PICK r : Begun(c, r)
  BY HttpBeginEffect, Zenon
<1>2. /\ Continues(c, r)
      /\ r.step = IF job[c].op \in {"insert", "update"} THEN "write" ELSE "read"
  BY <1>0, Zenon DEF Begun
<1>3. /\ job'[c] = r /\ via'[c] = "http"
      /\ \A d \in Client : d # c => Requested(d)' = Requested(d)
  BY <1>1, <1>2, After, ZenonT(30)
<1>4. Requested(c) = Pending(c)
  <2>1. job[c].step \in {"begin", "commit"}
    BY <1>1, ZenonT(30)
  <2> QED BY <1>1, <2>1, RequestPending, Zenon
<1>5. job[c].op \in Requests /\ It(c)'.base = db /\ r.op = job[c].op /\ r.key = job[c].key
  <2>1. Handler(c)
    BY <1>1, HttpFacts, SMTT(30), Z3T(30)
  <2>2. job[c].op \in Requests
    BY <1>1, <2>1, ZenonT(30) DEF Handler, Asked
  <2>3. It(c)'.base = db
    BY <1>1 DEF New
  <2> QED BY <1>2, <2>2, <2>3, SMTT(30), Z3T(30) DEF Continues
<1> DEFINE old == db[job[c].key]
<1>6. CASE job[c].op \in {"get", "exists"}
  <2>1. r.step = "read"
    BY <1>2, <1>6, Zenon
  <2>2. Performed(c)'
    BY <1>3, <1>5, <1>6, <2>1, ZenonT(30) DEF Performed
  <2>3. Reply(c)'.status = 200 /\ Reply(c)'.ans = IF job[c].op = "exists" THEN old # None
                                                                         ELSE old
    BY <1>3, <1>5, <1>6, <2>1, ZenonT(30) DEF Reply
  <2> DEFINE ans == IF job[c].op = "exists" THEN old # None ELSE old
  <2>4. Requested(c)' = Settled(c, 200, ans)
    <3>1. r.step # "idle"
      BY <2>1, Zenon
    <3>2. Requested(c)' = Settled(c, Reply(c)'.status, Reply(c)'.ans)
      BY <1>2, <1>3, <2>2, <3>1, AfterSettled, Zenon
    <3> QED BY <2>3, <3>2, ZenonT(30)
  <2>5. Effects(c, 200, ans)
    BY <1>1, <1>6, Zenon DEF Effects
  <2> QED BY <1>3, <1>4, <2>4, <2>5, Performs, ZenonT(30)
<1>7. CASE job[c].op = "insert" /\ old # None
  <2>1. r.step = "write"
    BY <1>2, <1>7, ZenonT(30)
  <2>2. Performed(c)'
    BY <1>3, <1>5, <1>7, <2>1, ZenonT(30) DEF Performed
  <2>3. Reply(c)'.status = 409 /\ Reply(c)'.ans = None
    BY <1>3, <1>5, <1>7, <2>1, ZenonT(30) DEF Reply
  <2>4. Requested(c)' = Settled(c, 409, None)
    <3>1. r.step # "idle"
      BY <2>1, Zenon
    <3>2. Requested(c)' = Settled(c, Reply(c)'.status, Reply(c)'.ans)
      BY <1>2, <1>3, <2>2, <3>1, AfterSettled, Zenon
    <3> QED BY <2>3, <3>2, ZenonT(30)
  <2>5. Effects(c, 409, None)
    BY <1>1, <1>7, Zenon DEF Effects
  <2> QED BY <1>3, <1>4, <2>4, <2>5, Performs, ZenonT(30)
<1>8. CASE job[c].op \in {"update", "delete"} \/ (job[c].op = "insert" /\ old = None)
  <2>1. \/ r.step = "read" /\ r.op = "delete"
        \/ r.step = "write" /\ (r.op = "insert" => It(c)'.base[r.key] = None)
    BY <1>2, <1>5, <1>8, ZenonT(30)
  <2>2. Requested(c)' = Pending(c)
    BY <1>2, <1>3, <2>1, AfterPending, ZenonT(30)
  <2> QED BY <1>1, <1>3, <1>4, <2>2, SameRequests, ZenonT(30)
<1>9. \/ job[c].op \in {"get", "exists", "update", "delete"}
      \/ job[c].op = "insert"
  BY <1>5, SMTT(30), Z3T(30) DEF Requests
<1> QED BY <1>6, <1>7, <1>8, <1>9, SMTT(30), Z3T(30)

LEMMA HttpReadServes ==
  ASSUME FInv, NEW c \in Client, HttpRead(c), UNCHANGED via
  PROVE  Serves
<1>1. via[c] = "http" /\ job[c].step = "read" /\ db' = db /\ Step(c)
  BY HttpReadEffect, ZenonT(30)
<1>0. PICK r : HasRead(c, r)
  BY HttpReadEffect, Zenon
<1>2. /\ Continues(c, r) /\ r.code = "ok"
      /\ r.step = IF job[c].op = "delete" THEN "write" ELSE "drop"
      /\ r.ans = IF job[c].op = "exists" THEN It(c).base[job[c].key] # None
                                         ELSE It(c).base[job[c].key]
  BY <1>0, ZenonT(30) DEF HasRead
<1>3. /\ job'[c] = r /\ via'[c] = "http"
      /\ \A d \in Client : d # c => Requested(d)' = Requested(d)
  BY <1>1, <1>2, After, ZenonT(30)
<1>4. job[c].op \in {"get", "exists", "delete"} /\ r.op = job[c].op
  BY <1>1, <1>2, HttpFacts, ZenonT(30) DEF Handler, Continues
<1>5. CASE job[c].op = "delete"
  <2>1. Requested(c) = Pending(c)
    BY <1>1, <1>5, RequestPending, ZenonT(30)
  <2>2. r.step = "write" /\ ~(r.op = "insert")
    BY <1>2, <1>4, <1>5, ZenonT(30)
  <2>3. Requested(c)' = Pending(c)
    BY <1>2, <1>3, <2>2, AfterPending, ZenonT(30)
  <2> QED BY <1>1, <1>3, <2>1, <2>3, SameRequests, ZenonT(30)
<1>6. CASE job[c].op \in {"get", "exists"}
  <2>1. Requested(c) = Settled(c, 200, r.ans)
    BY <1>1, <1>2, <1>6, RequestRead, ZenonT(30)
  <2>2. r.step = "drop" /\ Status(r.code) = 200
    BY <1>2, <1>6 DEF Status
  <2>3. Requested(c)' = Settled(c, 200, r.ans)
    <3>0. Continues(c, r) /\ job'[c] = r /\ via'[c] = "http" /\ r.step \in {"drop", "reply"}
      BY <1>2, <1>3, <2>2, ZenonT(30)
    <3>1. Requested(c)' = Settled(c, Status(r.code), IF r.code = "ok" THEN r.ans ELSE None)
      BY ONLY <3>0, c \in Client, AfterDone, ZenonT(30)
    <3>2. (IF r.code = "ok" THEN r.ans ELSE None) = r.ans
      BY <1>2, Zenon
    <3> QED BY <2>2, <3>1, <3>2, Zenon
  <2> QED BY <1>1, <1>3, <2>1, <2>3, SameRequests, ZenonT(30)
<1> QED BY <1>4, <1>5, <1>6, SMTT(30), Z3T(30)

LEMMA HttpWriteServes ==
  ASSUME FInv, NEW c \in Client, HttpWrite(c), UNCHANGED via
  PROVE  Serves
<1>1. via[c] = "http" /\ job[c].step = "write" /\ db' = db /\ Step(c)
  BY HttpWriteEffect, ZenonT(30)
<1>0. PICK r : HasWritten(c, r)
  BY HttpWriteEffect, Zenon
<1>2. /\ Continues(c, r)
      /\ \/ /\ job[c].op = "insert" /\ It(c).base[job[c].key] # None
            /\ r.step = "drop" /\ r.code = "KeyAlreadyExists"
         \/ /\ job[c].op = "insert" => It(c).base[job[c].key] = None
            /\ r.step = "commit"
  BY <1>0, Zenon DEF HasWritten
<1>3. /\ job'[c] = r /\ via'[c] = "http"
      /\ \A d \in Client : d # c => Requested(d)' = Requested(d)
  BY <1>1, <1>2, After, ZenonT(30)
<1>4. CASE /\ job[c].op = "insert" /\ It(c).base[job[c].key] # None
           /\ r.step = "drop" /\ r.code = "KeyAlreadyExists"
  <2>1. Requested(c) = Settled(c, 409, None)
    BY <1>1, <1>4, RequestRefused, ZenonT(30)
  <2>2. Status(r.code) = 409 /\ r.code # "ok"
    BY <1>4, SMTT(30), Z3T(30) DEF Status
  <2>3. Requested(c)' = Settled(c, 409, None)
    <3>1. Requested(c)' = Settled(c, Status(r.code), IF r.code = "ok" THEN r.ans ELSE None)
      BY <1>2, <1>3, <1>4, AfterDone, Zenon
    <3>2. (IF r.code = "ok" THEN r.ans ELSE None) = None
      BY <2>2, Zenon
    <3> QED BY <2>2, <3>1, <3>2, ZenonT(30)
  <2> QED BY <1>1, <1>3, <2>1, <2>3, SameRequests, ZenonT(30)
<1>5. CASE /\ job[c].op = "insert" => It(c).base[job[c].key] = None
           /\ r.step = "commit"
  <2>1. Requested(c) = Pending(c)
    BY <1>1, <1>5, RequestPending, Zenon
  <2>2. Requested(c)' = Pending(c)
    BY <1>2, <1>3, <1>5, AfterPending, ZenonT(30)
  <2> QED BY <1>1, <1>3, <2>1, <2>2, SameRequests, ZenonT(30)
<1> QED BY <1>2, <1>4, <1>5, ZenonT(30)

\* Other writes take effect when they commit, on what their snapshot had.
LEMMA HttpCommitServes ==
  ASSUME FInv, NEW c \in Client, HttpCommit(c), UNCHANGED via
  PROVE  Serves
<1>1. via[c] = "http" /\ job[c].step = "commit" /\ Step(c)
  BY HttpCommitEffect, ZenonT(30)
<1>0. PICK r : HasCommitted(c, r)
  BY HttpCommitEffect, Zenon
<1>2. /\ Continues(c, r) /\ r.step = "drop"
      /\ r.ans = IF job[c].op = "delete" THEN job[c].ans ELSE job[c].val
      /\ \/ /\ r.code = "ok" /\ It(c).base[job[c].key] = db[job[c].key]
            /\ db' = [db EXCEPT ![job[c].key] = job[c].val]
         \/ r.code \in {"KeyWriteConflict", "KeyReadConflict"} /\ db' = db
  BY <1>0, Zenon DEF HasCommitted
<1>3. /\ job'[c] = r /\ via'[c] = "http"
      /\ \A d \in Client : d # c => Requested(d)' = Requested(d)
  BY <1>1, <1>2, After, ZenonT(30)
<1>4. Requested(c) = Pending(c)
  <2>1. job[c].step \in {"begin", "commit"}
    BY <1>1, Zenon
  <2> QED BY <1>1, <2>1, RequestPending, Zenon
<1>5. /\ job[c].op \in {"insert", "update", "delete"}
      /\ job[c].op = "insert" => It(c).base[job[c].key] = None
      /\ job[c].op = "delete" => job[c].ans = It(c).base[job[c].key] /\ job[c].val = None
  <2>1. Handler(c)
    BY <1>1, HttpFacts, ZenonT(30)
  <2> QED BY <1>1, <2>1, ZenonT(30) DEF Handler, Asked
<1>6. Requested(c)' = Settled(c, Status(r.code), IF r.code = "ok" THEN r.ans ELSE None)
  BY <1>2, <1>3, AfterDone, ZenonT(30)
<1>7. CASE /\ r.code = "ok" /\ It(c).base[job[c].key] = db[job[c].key]
           /\ db' = [db EXCEPT ![job[c].key] = job[c].val]
  <2>1. Status(r.code) = 200
    BY <1>7, SMTT(30), Z3T(30) DEF Status
  <2>2. (IF r.code = "ok" THEN r.ans ELSE None) = r.ans
    BY <1>7, Zenon
  <2>3. Requested(c)' = Settled(c, 200, r.ans)
    BY <1>6, <2>1, <2>2, ZenonT(30)
  <2>4. CASE job[c].op = "delete"
    <3>1. r.ans = db[job[c].key] /\ db' = [db EXCEPT ![job[c].key] = None]
      BY <1>2, <1>5, <1>7, <2>4, Zenon
    <3>2. Effects(c, 200, r.ans)
      BY <2>4, <3>1, ZenonT(30) DEF Effects
    <3> QED BY <1>3, <1>4, <2>3, <3>2, Performs, ZenonT(30)
  <2>5. CASE job[c].op \in {"insert", "update"}
    <3>1. r.ans = job[c].val /\ (job[c].op = "insert" => db[job[c].key] = None)
      BY <1>2, <1>5, <1>7, <2>5, ZenonT(30)
    <3>2. Effects(c, 200, r.ans)
      BY <1>7, <2>5, <3>1, ZenonT(30) DEF Effects
    <3> QED BY <1>3, <1>4, <2>3, <3>2, Performs, Zenon
  <2> QED BY <1>5, <2>4, <2>5, Zenon
<1>8. CASE r.code \in {"KeyWriteConflict", "KeyReadConflict"} /\ db' = db
  <2>1. Status(r.code) = 409 /\ r.code # "ok"
    BY <1>8, SMTT(30), Z3T(30) DEF Status
  <2>2. (IF r.code = "ok" THEN r.ans ELSE None) = None
    BY <2>1, Zenon
  <2>3. Requested(c)' = Settled(c, 409, None)
    BY <1>6, <2>1, <2>2, ZenonT(30)
  <2>4. Effects(c, 409, None)
    BY <1>5, <1>8, Zenon DEF Effects
  <2> QED BY <1>3, <1>4, <2>3, <2>4, Performs, Zenon
<1> QED BY <1>2, <1>7, <1>8, Zenon

LEMMA HttpDropServes ==
  ASSUME FInv, NEW c \in Client, HttpDrop(c), UNCHANGED via
  PROVE  Serves
<1>1. via[c] = "http" /\ job[c].step = "drop" /\ db' = db /\ Step(c)
  BY HttpDropEffect, SMTT(30), Z3T(30)
<1>0. PICK r : HasDropped(c, r)
  BY HttpDropEffect, Zenon
<1>2. Continues(c, r) /\ r.step = "reply" /\ r.code = job[c].code /\ r.ans = job[c].ans
  BY <1>0, ZenonT(30) DEF HasDropped
<1>3. /\ job'[c] = r /\ via'[c] = "http"
      /\ \A d \in Client : d # c => Requested(d)' = Requested(d)
  BY <1>1, <1>2, After, SMTT(30), Z3T(30)
<1> DEFINE ans == IF job[c].code = "ok" THEN job[c].ans ELSE None
<1>4. Requested(c) = Settled(c, Status(job[c].code), ans)
  BY <1>1, RequestDone, SMTT(30), Z3T(30)
<1>5. Requested(c)' = Settled(c, Status(job[c].code), ans)
  <2>1. Requested(c)' = Settled(c, Status(r.code), IF r.code = "ok" THEN r.ans ELSE None)
    BY <1>2, <1>3, AfterDone, ZenonT(30)
  <2> QED BY <1>2, <2>1, Zenon
<1> QED BY <1>1, <1>3, <1>4, <1>5, SameRequests, Zenon

LEMMA HttpReplyServes ==
  ASSUME FInv, NEW c \in Client, HttpReply(c), UNCHANGED via
  PROVE  Serves
<1>1. /\ via[c] = "http" /\ job[c].step = "reply" /\ UNCHANGED vars
      /\ job' = [job EXCEPT ![c] = NoJob]
  BY DEF HttpReply, Serving
<1>2. job'[c] = NoJob /\ \A d \in Client : d # c => job'[d] = job[d]
  BY <1>1 DEF FInv
<1>3. \A d \in Client : d # c => Requested(d)' = Requested(d)
  BY <1>1, <1>2, RequestKept, SMTT(30), Z3T(30)
<1>4. Requested(c)' = Served!Resting
  BY <1>2, NoJobFacts, SMTT(30), Z3T(30) DEF Requested, Served!Resting
<1>5. Requested(c).phase = "answered"
  BY <1>1, RequestDone, SMTT(30), Z3T(30) DEF Settled
<1> DEFINE q == [d \in Client |-> Requested(d)]
<1>6. q' = [q EXCEPT ![c] = Served!Resting]
  BY <1>3, <1>4, OneRequest, SMTT(30), Z3T(30)
<1>7. q[c].phase = "answered"
  BY <1>5
<1>8. db' = db
  BY <1>1 DEF vars
<1>9. Served!Reply(c)
  BY <1>6, <1>7, <1>8, SMTT(30), Z3T(30) DEF Served!Reply
<1> QED BY <1>9 DEF Serves, Served!Next

LEMMA StepServes == FInv /\ FInv' /\ [FrontNext]_all => Serves
<1> SUFFICES ASSUME FInv, FInv', [FrontNext]_all PROVE Serves
  OBVIOUS
<1>1. CASE UNCHANGED all
  <2>1. \A c \in Client : Requested(c)' = Requested(c)
    BY <1>1, SMTT(30), Z3T(30) DEF all, vars, Requested, Performed, Reply, Status, It
  <2>2. UNCHANGED <<db, [d \in Client |-> Requested(d)]>>
    BY <1>1, <2>1, SMTT(30), Z3T(30) DEF all, vars
  <2> QED BY <2>2, ZenonT(30) DEF Serves, Served!vars
<1>2. CASE FrontNext
  <2>1. PICK c \in Client :
           /\ \/ via[c] = "rust" /\ Step(c) /\ UNCHANGED job
              \/ Http(c) \/ Golang(c) \/ Python(c)
           /\ UNCHANGED via
    BY <1>2, SMTT(30), Z3T(30) DEF FrontNext
  <2>2. CASE Http(c)
    BY <2>1, <2>2, AskServes, HttpBeginServes, HttpReadServes, HttpWriteServes,
       HttpCommitServes, HttpDropServes, HttpReplyServes, SMTT(30), Z3T(30) DEF Http
  <2>3. CASE (via[c] = "rust" /\ Step(c) /\ UNCHANGED job) \/ Golang(c) \/ Python(c)
    <3>1. /\ via[c] # "http" /\ (Step(c) \/ UNCHANGED vars)
          /\ \A d \in Client : d # c => job'[d] = job[d]
      BY <2>3, ClientStep DEF FInv
    <3> QED BY <2>1, <3>1, ClientsServe, SMTT(30), Z3T(30)
  <2> QED BY <2>1, <2>2, <2>3, SMTT(30), Z3T(30)
<1> QED BY <1>1, <1>2

LEMMA InitServes == FrontInit => Served!Init
<1> SUFFICES ASSUME FrontInit PROVE Served!Init
  OBVIOUS
<1>1. db = [k \in Key |-> None] /\ \A c \in Client : job[c] = NoJob
  BY SMTT(30), Z3T(30) DEF FrontInit, Init, Absent
<1>2. \A c \in Client : Requested(c) = Served!Resting
  BY <1>1, NoJobFacts, RequestNone, SMTT(30), Z3T(30)
<1> QED BY <1>1, <1>2, SMTT(30), Z3T(30) DEF Served!Init

\* However the calls of concurrent requests and of other programs interleave,
\* what the server's handlers do and answer is what AtomicMap allows: each
\* request happens at one instant, or is refused without an effect.
THEOREM HandlersAtomic == FrontSpec => RequestsAtomic
<1>1. FrontInit => Served!Init
  BY InitServes, SMTT(30), Z3T(30)
<1>2. FInv /\ FInv' /\ [FrontNext]_all => [Served!Next]_(Served!vars)
  BY StepServes DEF Serves
<1> QED BY <1>1, <1>2, FrontInvariant, PTL DEF FrontSpec, RequestsAtomic, Served!Spec
=============================================================================
