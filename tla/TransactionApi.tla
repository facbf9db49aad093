--------------------------- MODULE TransactionApi ---------------------------
(***************************************************************************)
(* What a client does with a Transaction (src/tx/transaction.rs): get,     *)
(* exists, set, put, del, the isolation-level builders, commit, cancel and *)
(* drop, on TransactionInner objects that a bounded pool recycles          *)
(* (src/pool/pool.rs).  A transaction's snapshot is the database at its    *)
(* beginning and a commit is one step, which fails when a key it writes    *)
(* (or, under SSI, read) was committed since: modules SnapshotRegistry and *)
(* CommitPipeline take those apart.                                        *)
(***************************************************************************)
EXTENDS Integers, Sequences, FiniteSets

CONSTANTS Client,    \* handles of type Transaction
          Obj,       \* addresses of TransactionInner objects
          NoObj,     \* the handle is dropped
          Key, Value,
          None,      \* no value
          Unset,     \* the key is not in the write set
          PoolSize   \* capacity of the ArrayQueue

ASSUME ApiAssumption ==
    /\ NoObj \notin Obj /\ None \notin Value /\ Unset \notin Value \cup {None}
    /\ (Value \cup {None}) \cap BOOLEAN = {}
    /\ PoolSize \in Nat

VARIABLES
    db,      \* the committed value of each key
    pool,    \* Pool::pool
    obj,     \* the fields of each TransactionInner
    held,    \* the object of each handle
    window,  \* the keys in the commit queue above each commit snapshot
    view,    \* history: what each client believes the keys to hold
    read,    \* history: keys each client read as a serializable writer
    last     \* history: the answer just given and the one its client's view implies

vars == <<db, pool, obj, held, window, view, read, last>>

Option == Value \cup {None}
NoWrites == [k \in Key |-> Unset]
NoAnswer == [res |-> None, exp |-> None]

TypeOK ==
    /\ db \in [Key -> Option]
    /\ pool \in Seq(Obj) /\ Len(pool) <= PoolSize
    /\ obj \in [Obj -> [mode : {"SI", "SSI"}, done : BOOLEAN, write : BOOLEAN,
                        readset : SUBSET Key, base : [Key -> Option],
                        writeset : [Key -> Option \cup {Unset}]]]
    /\ held \in [Client -> Obj \cup {NoObj}]
    /\ window \in [Client -> SUBSET Key]
    /\ view \in [Client -> [Key -> Option]]
    /\ read \in [Client -> SUBSET Key]
    /\ last \in [res : Option \cup BOOLEAN, exp : Option \cup BOOLEAN]

Absent == [k \in Key |-> None]

New(write) == [mode |-> "SI", done |-> FALSE, write |-> write, readset |-> {},
               base |-> db, writeset |-> NoWrites]

\* Memory that is not allocated.
Freed == [New(FALSE) EXCEPT !.base = Absent]

Init ==
    /\ db = Absent
    /\ pool = <<>>
    /\ obj = [o \in Obj |-> Freed]
    /\ held = [c \in Client |-> NoObj]
    /\ window = [c \in Client |-> {}]
    /\ view = [c \in Client |-> Absent]
    /\ read = [c \in Client |-> {}]
    /\ last = NoAnswer

It(c) == obj[held[c]]
Open(c) == held[c] # NoObj /\ ~It(c).done
InUse == {held[c] : c \in Client} \cup {pool[i] : i \in 1..Len(pool)}

Says(res, exp) == last' = [res |-> res, exp |-> exp]

-----------------------------------------------------------------------------
(* Pool::get and Transaction::drop *)

\* Mutation of Reset: the write set survives.
ResetKeepsWrites(o, write) == [New(write) EXCEPT !.writeset = obj[o].writeset]

\* reset: every field is set anew.
Reset(o, write) == New(write)

\* pool.pop() and reset, or a new object.
Begin(c, write) ==
    /\ held[c] = NoObj
    /\ \/ /\ pool # <<>>
          /\ held' = [held EXCEPT ![c] = Head(pool)]
          /\ obj' = [obj EXCEPT ![Head(pool)] = Reset(Head(pool), write)]
          /\ pool' = Tail(pool)
       \/ /\ pool = <<>>
          /\ \E o \in Obj \ InUse :
                /\ held' = [held EXCEPT ![c] = o]
                /\ obj' = [obj EXCEPT ![o] = New(write)]
          /\ UNCHANGED pool
    /\ window' = [window EXCEPT ![c] = {}]
    /\ view' = [view EXCEPT ![c] = db]
    /\ read' = [read EXCEPT ![c] = {}]
    /\ last' = NoAnswer
    /\ UNCHANGED db

\* What its client knew of a transaction that has ended.
Forget(c) ==
    /\ view' = [view EXCEPT ![c] = Absent]
    /\ read' = [read EXCEPT ![c] = {}]
    /\ last' = NoAnswer

\* The object goes back to the pool as it is or, when that is full, is freed.
Drop(c) ==
    /\ held[c] # NoObj
    /\ \/ /\ Len(pool) < PoolSize
          /\ pool' = Append(pool, held[c])
          /\ UNCHANGED obj
       \/ /\ Len(pool) >= PoolSize
          /\ obj' = [obj EXCEPT ![held[c]] = Freed]
          /\ UNCHANGED pool
    /\ held' = [held EXCEPT ![c] = NoObj]
    /\ window' = [window EXCEPT ![c] = {}]
    /\ Forget(c)
    /\ UNCHANGED db

\* with_snapshot_isolation, with_serializable_snapshot_isolation
SetMode(c, mode) ==
    /\ held[c] # NoObj
    /\ obj' = [obj EXCEPT ![held[c]].mode = mode]
    /\ last' = NoAnswer
    /\ UNCHANGED <<db, pool, held, window, view, read>>

-----------------------------------------------------------------------------
(* Reads and writes; on a closed or read-only transaction each returns an  *)
(* error and changes nothing.                                              *)

\* Mutation of Track: reads of keys that are absent are not recorded.
TrackPresentOnly(c, k) ==
    IF It(c).mode = "SSI" /\ It(c).write /\ It(c).base[k] # None
    THEN [obj EXCEPT ![held[c]].readset = @ \cup {k}] ELSE obj

\* A read that goes to the datastore enters the read set of an SSI writer.
Track(c, k) ==
    IF It(c).mode = "SSI" /\ It(c).write
    THEN [obj EXCEPT ![held[c]].readset = @ \cup {k}] ELSE obj

ReadsDatastore(c, k) == ~It(c).write \/ It(c).writeset[k] = Unset

\* History: c read k from the datastore while a serializable writer.
Noted(c, k) ==
    IF It(c).mode = "SSI" /\ It(c).write
    THEN [read EXCEPT ![c] = @ \cup {k}] ELSE read

Get(c, k) ==
    /\ Open(c)
    /\ \/ /\ ~ReadsDatastore(c, k)
          /\ Says(It(c).writeset[k], view[c][k])
          /\ UNCHANGED <<obj, read>>
       \/ /\ ReadsDatastore(c, k)
          /\ Says(It(c).base[k], view[c][k])
          /\ obj' = Track(c, k)
          /\ read' = Noted(c, k)
    /\ UNCHANGED <<db, pool, held, window, view>>

\* A key in the write set exists, whatever is written there.
Exists(c, k) ==
    /\ Open(c)
    /\ \/ /\ ~ReadsDatastore(c, k)
          /\ Says(TRUE, view[c][k] # None)
          /\ UNCHANGED <<obj, read>>
       \/ /\ ReadsDatastore(c, k)
          /\ Says(It(c).base[k] # None, view[c][k] # None)
          /\ obj' = Track(c, k)
          /\ read' = Noted(c, k)
    /\ UNCHANGED <<db, pool, held, window, view>>

Write(c, k, v) ==
    /\ obj' = [obj EXCEPT ![held[c]].writeset[k] = v]
    /\ view' = [view EXCEPT ![c][k] = v]

\* Mutation of SetOrDel: a read-only transaction is not refused.
SetOrDelReadOnly(c, k, v) ==
    /\ Open(c)
    /\ Write(c, k, v)
    /\ last' = NoAnswer
    /\ UNCHANGED <<db, pool, held, window, read>>

\* set (v a value) and del (v = None)
SetOrDel(c, k, v) ==
    /\ Open(c) /\ It(c).write
    /\ Write(c, k, v)
    /\ last' = NoAnswer
    /\ UNCHANGED <<db, pool, held, window, read>>

\* put: KeyAlreadyExists (FALSE) if the key is in the write set or the
\* snapshot; it does not enter the read set.
Put(c, k, v) ==
    /\ Open(c) /\ It(c).write
    /\ \/ /\ It(c).writeset[k] # Unset \/ It(c).base[k] # None
          /\ Says(FALSE, view[c][k] = None)
          /\ UNCHANGED <<obj, view>>
       \/ /\ It(c).writeset[k] = Unset /\ It(c).base[k] = None
          /\ Says(TRUE, view[c][k] = None)
          /\ Write(c, k, v)
    /\ UNCHANGED <<db, pool, held, window, read>>

-----------------------------------------------------------------------------
(* The end of a transaction *)

\* The read set is cleared only in SSI mode.
Close(c) ==
    obj' = [obj EXCEPT ![held[c]].done = TRUE, ![held[c]].writeset = NoWrites,
               ![held[c]].readset = IF It(c).mode = "SSI" THEN {} ELSE @]

Cancel(c) ==
    /\ Open(c)
    /\ Close(c)
    /\ window' = [window EXCEPT ![c] = {}]
    /\ Forget(c)
    /\ UNCHANGED <<db, pool, held>>

Written(c) == {k \in Key : It(c).writeset[k] # Unset}

\* Mutation of Verdicts: only the read set is compared.
VerdictsReadOnly(c) ==
    LET r == IF It(c).mode = "SSI" THEN It(c).readset ELSE {}
    IN  IF Written(c) # {} /\ r \cap window[c] # {} THEN {"KeyReadConflict"} ELSE {"ok"}

\* What commit may return.  When both conflicts are there, the entries' order
\* in the commit queue decides, which the window does not keep.
Verdicts(c) ==
    LET r == IF It(c).mode = "SSI" THEN It(c).readset ELSE {}
        conflicts == {x \in {"KeyWriteConflict", "KeyReadConflict"} :
                        IF x = "KeyWriteConflict" THEN Written(c) \cap window[c] # {}
                                                  ELSE r \cap window[c] # {}}
    IN  IF Written(c) = {} \/ conflicts = {} THEN {"ok"} ELSE conflicts

\* commit with nothing to write leaves the read set alone; otherwise it
\* installs the write set, unless it meets a conflict.
Commit(c, verdict) ==
    /\ Open(c) /\ verdict \in Verdicts(c)
    /\ \/ /\ Written(c) = {}
          /\ obj' = [obj EXCEPT ![held[c]].done = TRUE]
          /\ window' = [window EXCEPT ![c] = {}]
          /\ UNCHANGED db
       \/ /\ Written(c) # {} /\ verdict = "ok"
          /\ Close(c)
          /\ db' = [k \in Key |-> IF k \in Written(c) THEN It(c).writeset[k] ELSE db[k]]
          /\ window' = [d \in Client |-> IF d # c /\ Open(d) THEN window[d] \cup Written(c)
                                                            ELSE {}]
       \/ /\ verdict # "ok"
          /\ Close(c)
          /\ window' = [window EXCEPT ![c] = {}]
          /\ UNCHANGED db
    /\ Forget(c)
    /\ UNCHANGED <<pool, held>>

\* What a program that uses the crate may do with its handle.
Step(c) ==
    \/ \E write \in BOOLEAN : Begin(c, write)
    \/ \E mode \in {"SI", "SSI"} : SetMode(c, mode)
    \/ \E k \in Key : Get(c, k) \/ Exists(c, k)
    \/ \E k \in Key, v \in Option : SetOrDel(c, k, v)
    \/ \E k \in Key, v \in Value : Put(c, k, v)
    \/ \E verdict \in {"ok", "KeyWriteConflict", "KeyReadConflict"} : Commit(c, verdict)
    \/ Cancel(c) \/ Drop(c)

Next == \E c \in Client : Step(c)

Spec == Init /\ [][Next]_vars

-----------------------------------------------------------------------------
(* Properties *)

\* get answers what the transaction wrote last or, failing that, its snapshot,
\* even when the object served another transaction before.
ReadYourWrites ==
    last.res \in Option => last.res = last.exp

\* Every key that a serializable writer has read from the datastore is in its
\* read set when it comes to commit: no sequence of calls, and no earlier life
\* of the object, takes one out.
ReadsTracked ==
    \A c \in Client : Open(c) => read[c] \subseteq It(c).readset

\* An object belongs to one handle, or stands once in the pool, and a
\* read-only transaction never has anything to commit.
ObjectsExclusive ==
    /\ \A c, d \in Client : c # d /\ held[c] = held[d] => held[c] = NoObj
    /\ \A i \in 1..Len(pool) : \A c \in Client : held[c] # pool[i]
    /\ \A i, j \in 1..Len(pool) : pool[i] = pool[j] => i = j
    /\ \A c \in Client : Open(c) /\ ~It(c).write => It(c).writeset = NoWrites

\* The comments on exists and put: a key that exists answers TRUE to exists
\* and refuses put, one that does not exist answers FALSE and takes put.
ExistenceTruthful ==
    last.res \in BOOLEAN => last.res = last.exp
=============================================================================
