----------------------------- MODULE FrontEnds ------------------------------
(***************************************************************************)
(* The ways into the database other than the crate itself: the HTTP server *)
(* (server/src/main.rs), the C interface (stupid-kv-c) as the Go package   *)
(* calls it (stupid-kv-go), and the Python class (stupid-kv-py).  Each     *)
(* client comes in one way and uses the transactions of TransactionApi;    *)
(* every call of a Transaction method is one action, so that requests and  *)
(* programs interleave between their calls.                                *)
(*                                                                         *)
(* A goroutine's call goes through the mutex of its TxHandle and is one    *)
(* step; what the Go side does with the returned buffers is another.  Keys *)
(* and values pass as bytes, unchanged.                                    *)
(***************************************************************************)
EXTENDS TransactionApi

CONSTANT Ways      \* how the clients may come in

Way == {"rust", "http", "go", "py"}

ASSUME WaysAssumption == Ways \subseteq [Client -> Way]

VARIABLES
    via,     \* how each client comes in; never changes
    job      \* the request or call each client is in, and what it was told

all == <<vars, via, job>>

Errors == {"TxClosed", "TxNotWritable", "KeyWriteConflict", "KeyReadConflict",
           "KeyAlreadyExists"}

\* step: where the handler is; code, ans: the last method's result;
\* buffers: what the C side allocated and nobody freed; told: the Go error or
\* the Python exception the caller got.
NoJob == [step |-> "idle", op |-> "none", key |-> None, val |-> None,
          code |-> "ok", ans |-> None, buffers |-> {}, told |-> "nothing"]

Requests == {"get", "exists", "insert", "update", "delete"}
Methods == {"get", "exists", "set", "put", "del", "commit", "cancel"}

FrontTypeOK ==
    /\ TypeOK
    /\ via \in Ways
    /\ \A c \in Client :
          /\ job[c].step \in {"idle", "begin", "read", "write", "commit", "drop", "reply",
                              "returned"}
          /\ job[c].op \in Requests \cup Methods \cup {"none"}
          /\ job[c].code \in Errors \cup {"ok", "null"}
          /\ job[c].ans \in Option \cup BOOLEAN
          /\ job[c].buffers \subseteq {"value", "message"}

FrontInit ==
    /\ Init
    /\ via \in Ways
    /\ job = [c \in Client |-> NoJob]

-----------------------------------------------------------------------------
(* The methods of Transaction, with their errors *)

\* What method op may return.
Codes(op) ==
    {"ok", "TxClosed"}
        \cup (IF op \in {"set", "put", "del"} THEN {"TxNotWritable"} ELSE {})
        \cup (IF op = "put" THEN {"KeyAlreadyExists"} ELSE {})
        \cup (IF op = "commit" THEN {"KeyWriteConflict", "KeyReadConflict"} ELSE {})

\* Method op on the transaction of c returns code.
Call(c, op, k, v, code) ==
    /\ held[c] # NoObj
    /\ \/ code = "TxClosed" /\ It(c).done /\ UNCHANGED vars
       \/ /\ code = "TxNotWritable" /\ op \in {"set", "put", "del"}
          /\ Open(c) /\ ~It(c).write
          /\ UNCHANGED vars
       \/ code = "ok" /\ op = "get" /\ Get(c, k)
       \/ code = "ok" /\ op = "exists" /\ Exists(c, k)
       \/ code = "ok" /\ op = "set" /\ SetOrDel(c, k, v)
       \/ code = "ok" /\ op = "del" /\ SetOrDel(c, k, None)
       \/ /\ code \in {"ok", "KeyAlreadyExists"} /\ op = "put"
          /\ Put(c, k, v)
          /\ last'.res = (code = "ok")
       \/ code = "ok" /\ op = "cancel" /\ Cancel(c)
       \/ op = "commit" /\ Commit(c, code)

\* ... and this value.
Result(op, code) == IF op \in {"get", "exists"} /\ code = "ok" THEN last'.res ELSE None

-----------------------------------------------------------------------------
(* The HTTP server: each handler is a transaction of its own.  The ? after *)
(* a method returns its error, and the transaction is dropped on the way.  *)

Serving(c, step) == via[c] = "http" /\ job[c].step = step

Ask(c) ==
    /\ Serving(c, "idle")
    /\ \E op \in Requests, k \in Key, v \in Option :
          /\ (op \in {"insert", "update"}) = (v # None)
          /\ job' = [job EXCEPT ![c] = [NoJob EXCEPT !.step = "begin", !.op = op,
                                                    !.key = k, !.val = v]]
    /\ UNCHANGED vars

HttpBegin(c) ==
    /\ Serving(c, "begin")
    /\ Begin(c, job[c].op \in {"insert", "update", "delete"})
    /\ job' = [job EXCEPT ![c].step = IF job[c].op \in {"insert", "update"}
                                      THEN "write" ELSE "read"]

\* tx.get or tx.exists; delete_handler reads what it deletes.
HttpRead(c) ==
    LET op == IF job[c].op = "exists" THEN "exists" ELSE "get"
    IN  /\ Serving(c, "read")
        /\ \E code \in Codes(op) :
              /\ Call(c, op, job[c].key, None, code)
              /\ job' = [job EXCEPT
                    ![c].step = IF job[c].op = "delete" /\ code = "ok" THEN "write" ELSE "drop",
                    ![c].code = code, ![c].ans = Result(op, code)]

\* tx.put, tx.set or tx.del
HttpWrite(c) ==
    LET op == CASE job[c].op = "insert" -> "put"
                [] job[c].op = "update" -> "set"
                [] job[c].op = "delete" -> "del"
    IN  /\ Serving(c, "write")
        /\ \E code \in Codes(op) :
              /\ Call(c, op, job[c].key, job[c].val, code)
              /\ job' = [job EXCEPT ![c].step = IF code = "ok" THEN "commit" ELSE "drop",
                                    ![c].code = code]

\* The written value is echoed, the deleted one was read before.
HttpCommit(c) ==
    /\ Serving(c, "commit")
    /\ \E code \in Codes("commit") :
          /\ Call(c, "commit", job[c].key, None, code)
          /\ job' = [job EXCEPT
                ![c].step = "drop", ![c].code = code,
                ![c].ans = IF job[c].op = "delete" THEN @ ELSE job[c].val]

HttpDrop(c) ==
    /\ Serving(c, "drop")
    /\ Drop(c)
    /\ job' = [job EXCEPT ![c].step = "reply"]

\* map_kv_error
Status(code) ==
    CASE code = "ok" -> 200
      [] code \in {"KeyWriteConflict", "KeyReadConflict", "KeyAlreadyExists"} -> 409
      [] OTHER -> 500

HttpReply(c) ==
    /\ Serving(c, "reply")
    /\ job' = [job EXCEPT ![c] = NoJob]
    /\ UNCHANGED vars

Http(c) ==
    \/ Ask(c) \/ HttpBegin(c) \/ HttpRead(c) \/ HttpWrite(c) \/ HttpCommit(c)
    \/ HttpDrop(c) \/ HttpReply(c)

-----------------------------------------------------------------------------
(* The C interface, called from Go *)

Go(c, step) == via[c] = "go" /\ job[c].step = step

\* Mutation of SkCode: the two conflicts share a code.
SkCodeMerged(code, found) ==
    CASE code = "ok" -> IF found THEN 0 ELSE 1
      [] code = "null" -> -1
      [] code = "TxClosed" -> -2
      [] code = "TxNotWritable" -> -3
      [] code \in {"KeyWriteConflict", "KeyReadConflict"} -> -4
      [] code = "KeyAlreadyExists" -> -6

\* map_err, SK_NULL_ARG for a null handle, and SK_NOT_FOUND of sk_tx_get
SkCode(code, found) ==
    CASE code = "ok" -> IF found THEN 0 ELSE 1
      [] code = "null" -> -1
      [] code = "TxClosed" -> -2
      [] code = "TxNotWritable" -> -3
      [] code = "KeyWriteConflict" -> -4
      [] code = "KeyReadConflict" -> -5
      [] code = "KeyAlreadyExists" -> -6

\* mapError
GoError(rc) ==
    CASE rc \in {0, 1} -> "nil"
      [] rc = -2 -> "ErrTxClosed"
      [] rc = -3 -> "ErrTxNotWritable"
      [] rc = -4 -> "ErrWriteConflict"
      [] rc = -5 -> "ErrReadConflict"
      [] rc = -6 -> "ErrKeyAlreadyExists"
      [] OTHER -> "unknown"

\* sk_db_tx_begin
GoBegin(c) ==
    /\ Go(c, "idle")
    /\ \E write \in BOOLEAN : Begin(c, write)
    /\ job' = [job EXCEPT ![c] = NoJob]

\* switch_isolation: taken, rebuilt and put back under the lock
GoSwitch(c) ==
    /\ Go(c, "idle")
    /\ \E mode \in {"SI", "SSI"} : SetMode(c, mode)
    /\ UNCHANGED job

\* What the call leaves to its caller: guard's message, or a copy of the value.
Allocated(op, code, ans) ==
    CASE code \notin {"ok", "null"} -> {"message"}
      [] code = "ok" /\ op = "get" /\ ans # None -> {"value"}
      [] OTHER -> {}

\* sk_tx_get ... sk_tx_cancel; a closed wrapper passes a null handle.
GoCall(c) ==
    /\ Go(c, "idle")
    /\ \E op \in Methods, k \in Key, v \in Value :
       \E code \in Codes(op) \cup {"null"} :
          /\ \/ Call(c, op, k, v, code)
             \/ code = "null" /\ held[c] = NoObj /\ UNCHANGED vars
          /\ job' = [job EXCEPT ![c] = [NoJob EXCEPT
                       !.step = "returned", !.op = op, !.code = code,
                       !.ans = Result(op, code),
                       !.buffers = Allocated(op, code, Result(op, code))]]

\* Mutation of GoTake: only the message is released.
GoTakeLeaks(c) ==
    /\ Go(c, "returned")
    /\ job' = [job EXCEPT ![c].step = "idle", ![c].buffers = @ \ {"message"}]
    /\ UNCHANGED vars

\* sk_free_value on SK_OK of a get; takeError calls sk_free_string otherwise.
Released(rc) == IF rc = 0 THEN {"value"} ELSE {"message"}

\* The Go method after the call: what was returned is copied and released.
GoTake(c) ==
    /\ Go(c, "returned")
    /\ LET rc == SkCode(job[c].code, job[c].op # "get" \/ job[c].ans # None)
       IN  job' = [job EXCEPT ![c] = [NoJob EXCEPT
                      !.code = job[c].code, !.told = GoError(rc),
                      !.buffers = job[c].buffers \ Released(rc)]]
    /\ UNCHANGED vars

\* Close, or the finalizer; the wrapper keeps a null handle.
GoClose(c) ==
    /\ Go(c, "idle")
    /\ Drop(c)
    /\ job' = [job EXCEPT ![c] = NoJob]

Golang(c) == GoBegin(c) \/ GoSwitch(c) \/ GoCall(c) \/ GoTake(c) \/ GoClose(c)

-----------------------------------------------------------------------------
(* The Python class *)

Py(c) == via[c] = "py"

PyBegin(c) ==
    /\ Py(c)
    /\ \E write \in BOOLEAN : Begin(c, write)
    /\ job' = [job EXCEPT ![c] = NoJob]

PySwitch(c) ==
    /\ Py(c)
    /\ \E mode \in {"SI", "SSI"} : SetMode(c, mode)
    /\ UNCHANGED job

\* tx_err_to_py: an exception class for each error.
PyError(code) == IF code = "ok" THEN "nil" ELSE code

PyCall(c) ==
    /\ Py(c)
    /\ \E op \in Methods, k \in Key, v \in Value : \E code \in Codes(op) :
          /\ Call(c, op, k, v, code)
          /\ job' = [job EXCEPT ![c] = [NoJob EXCEPT !.code = code, !.told = PyError(code)]]

\* __exit__: nothing on a closed transaction, else commit, whose error is
\* ignored, or, on an exception, cancel.
PyExit(c) ==
    /\ Py(c) /\ Open(c)
    /\ \/ \E x \in Codes("commit") : Commit(c, x)
       \/ Cancel(c)
    /\ job' = [job EXCEPT ![c] = NoJob]

PyDrop(c) ==
    /\ Py(c)
    /\ Drop(c)
    /\ job' = [job EXCEPT ![c] = NoJob]

Python(c) == PyBegin(c) \/ PySwitch(c) \/ PyCall(c) \/ PyExit(c) \/ PyDrop(c)

-----------------------------------------------------------------------------

FrontNext ==
    /\ \E c \in Client :
          \/ via[c] = "rust" /\ Step(c) /\ UNCHANGED job
          \/ Http(c) \/ Golang(c) \/ Python(c)
    /\ UNCHANGED via

FrontSpec == FrontInit /\ [][FrontNext]_all

-----------------------------------------------------------------------------
(* Properties *)

\* The request of c has taken effect: reads, and inserts that will be refused,
\* when their snapshot was taken, other writes when they committed.
Performed(c) ==
    \/ job[c].step \in {"drop", "reply"}
    \/ job[c].step = "read" /\ job[c].op \in {"get", "exists"}
    \/ job[c].step = "write" /\ job[c].op = "insert" /\ It(c).base[job[c].key] # None

\* The status and the value that its answer has or is going to have.
Reply(c) ==
    LET was == It(c).base[job[c].key]
    IN  IF job[c].step \in {"drop", "reply"}
        THEN [status |-> Status(job[c].code),
              ans |-> IF job[c].code = "ok" THEN job[c].ans ELSE None]
        ELSE IF job[c].op \in {"get", "exists"}
        THEN [status |-> 200, ans |-> IF job[c].op = "exists" THEN was # None ELSE was]
        ELSE [status |-> 409, ans |-> None]

Requested(c) ==
    LET asked == [phase |-> "asked", op |-> job[c].op, key |-> job[c].key,
                  val |-> job[c].val, status |-> 0, ans |-> None]
    IN  IF via[c] # "http" \/ job[c].step = "idle"
        THEN [phase |-> "none", op |-> "none", key |-> None, val |-> None,
              status |-> 0, ans |-> None]
        ELSE IF ~Performed(c) THEN asked
        ELSE [asked EXCEPT !.phase = "answered", !.status = Reply(c).status,
                           !.ans = Reply(c).ans]

Served == INSTANCE AtomicMap
    WITH map <- db, job <- [c \in Client |-> Requested(c)]

\* The handlers of the HTTP server, each several calls of a transaction, are
\* atomic: concurrent requests, and programs that share the database, see
\* every request happen at once, with the answer that belongs to it, or
\* refused without an effect.
RequestsAtomic == Served!Spec

\* Every buffer that the C interface hands to a Go call is released by the
\* time the call returns, on each of its paths, and none that it did not get.
BuffersReleased ==
    \A c \in Client : job[c].step # "returned" => job[c].buffers = {}

\* The error that a Go caller is given is the one its documentation gives for
\* what occurred, after the code has passed three languages, and neither a Go
\* nor a Python caller takes a failure for success.  (A closed Go wrapper's
\* null handle is answered with an error that has no name.)
ErrorNamed ==
    LET doc == [TxClosed |-> "ErrTxClosed", TxNotWritable |-> "ErrTxNotWritable",
                KeyWriteConflict |-> "ErrWriteConflict",
                KeyReadConflict |-> "ErrReadConflict",
                KeyAlreadyExists |-> "ErrKeyAlreadyExists", ok |-> "nil",
                null |-> "unknown"]
    IN  \A c \in Client :
            job[c].told # "nothing" =>
                /\ (job[c].told = "nil") = (job[c].code = "ok")
                /\ via[c] = "go" => job[c].told = doc[job[c].code]
=============================================================================
