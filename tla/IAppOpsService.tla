--------------------------- MODULE IAppOpsService ----------------------------
(***************************************************************************)
(* The IAppOpsService interface, src/libs/binder/IAppOpsService.cpp: the   *)
(* proxy BpAppOpsService (lines 32-101), which marshals each method's      *)
(* arguments behind the interface token and decodes the reply, and the     *)
(* stub BnAppOpsService::onTransact (107-170), which checks the token,     *)
(* reads the arguments back, calls the implementation and writes "no       *)
(* exception" and the result.                                              *)
(*                                                                         *)
(* As in BBinderDispatch, a Parcel is a sequence of typed items; a read of *)
(* the wrong type or past the end yields the type's failure value (0, an   *)
(* empty string, NULL).  writeInterfaceToken's policy word and descriptor  *)
(* are one "token" item.  The implementation behind the stub (the Java     *)
(* AppOpsService) is not in the repository: it returns any mode.  Calls   *)
(* come from the proxy, or from any process that transacts a parcel of its *)
(* own making on the service's binder.                                     *)
(***************************************************************************)
EXTENDS Integers, Sequences

CONSTANTS
    Opcodes, AppUids,  \* int32 op codes and uids the callers pass
    Packages,          \* String16 package names
    Callbacks,         \* IAppOpsCallback binders
    Modes,             \* int32 modes the implementation may answer
    MODE_ERRORED,
    MaxItems,          \* items of a crafted parcel
    MaxTx,             \* transactions (bounds the model, not the code)
    NULL

\* IMPLEMENT_META_INTERFACE(AppOpsService, "com.android.internal.app.IAppOpsService")
DESCRIPTOR == "IAppOpsService"
Descriptors == {DESCRIPTOR, "IOther"}

Methods == {"check", "note", "start", "finish", "startWatching", "stopWatching"}
\* The methods whose reply carries a result after the exception code.
Returning == {"check", "note", "start"}
Codes == Methods \cup {"OTHER"}

Int32s == Opcodes \cup AppUids \cup Modes \cup {0}
Item == [k : {"token"}, v : Descriptors] \cup [k : {"i32"}, v : Int32s]
        \cup [k : {"str"}, v : Packages] \cup [k : {"binder"}, v : Callbacks \cup {NULL}]
Parcels(n) == UNION {[1..m -> Item] : m \in 0..n}
Crafted == Parcels(MaxItems)
Args == [code : Opcodes, uid : AppUids, pkg : Packages, cb : Callbacks]

VARIABLES log   \* log[i]: what transaction i sent, ran and returned
vars == <<log>>

Read(p, pos, kind, fail) == IF pos <= Len(p) /\ p[pos].k = kind THEN p[pos].v ELSE fail
I32(v) == [k |-> "i32", v |-> v]

(***************************************************************************)
(* Proxy: the data Parcel of each method, and the decoding of its reply.   *)
(***************************************************************************)
ProxyData(m, a) ==
    <<[k |-> "token", v |-> DESCRIPTOR]>> \o
    CASE m \in {"check", "note", "start", "finish"} ->
            <<I32(a.code), I32(a.uid), [k |-> "str", v |-> a.pkg]>>
      [] m = "startWatching" ->
            <<I32(a.code), [k |-> "str", v |-> a.pkg], [k |-> "binder", v |-> a.cb]>>
      [] m = "stopWatching" -> <<[k |-> "binder", v |-> a.cb]>>

\* Mutant: the result is read where the exception code is.
ProxyResultNoException(reply) == Read(reply, 1, "i32", 0)

\* if (reply.readExceptionCode() != 0) return MODE_ERRORED;
\* return reply.readInt32();
ProxyResult(reply) ==
    IF Read(reply, 1, "i32", 0) # 0 THEN MODE_ERRORED ELSE Read(reply, 2, "i32", 0)

(***************************************************************************)
(* Stub.                                                                   *)
(***************************************************************************)
\* CHECK_INTERFACE(IAppOpsService, data, reply): data.checkInterface(this),
\* else return PERMISSION_DENIED.  (IInterface.h and Parcel are not in the
\* repository.)
CheckInterface(p) == Read(p, 1, "token", "none") = DESCRIPTOR

\* The arguments each case reads, in its order, from position 2.
\* Mutant: uid is read before code.
StubArgsSwapped(m, p) ==
    CASE m \in {"check", "note", "start", "finish"} ->
            [code |-> Read(p, 3, "i32", 0), uid |-> Read(p, 2, "i32", 0),
             pkg |-> Read(p, 4, "str", ""), cb |-> NULL]
      [] m = "startWatching" ->
            [code |-> Read(p, 2, "i32", 0), uid |-> 0, pkg |-> Read(p, 3, "str", ""),
             cb |-> Read(p, 4, "binder", NULL)]
      [] m = "stopWatching" ->
            [code |-> 0, uid |-> 0, pkg |-> "", cb |-> Read(p, 2, "binder", NULL)]

StubArgs(m, p) ==
    CASE m \in {"check", "note", "start", "finish"} ->
            [code |-> Read(p, 2, "i32", 0), uid |-> Read(p, 3, "i32", 0),
             pkg |-> Read(p, 4, "str", ""), cb |-> NULL]
      [] m = "startWatching" ->
            [code |-> Read(p, 2, "i32", 0), uid |-> 0, pkg |-> Read(p, 3, "str", ""),
             cb |-> Read(p, 4, "binder", NULL)]
      [] m = "stopWatching" ->
            [code |-> 0, uid |-> 0, pkg |-> "", cb |-> Read(p, 2, "binder", NULL)]

\* The result of onTransact: status, the implementation call made (method
\* "none" if none) and the reply written.  res is what the implementation
\* answers.
StubOutcome(status, m, args, reply) ==
    [status |-> status, impl |-> m, implArgs |-> args, reply |-> reply]
NoArgs == [code |-> 0, uid |-> 0, pkg |-> "", cb |-> NULL]

\* default: return BBinder::onTransact(...), modelled in BBinderDispatch.
OnTransact(code, p, res) ==
    CASE code = "OTHER" -> StubOutcome("delegated", "none", NoArgs, <<>>)
      [] ~CheckInterface(p) -> StubOutcome("PERMISSION_DENIED", "none", NoArgs, <<>>)
      [] OTHER ->
            StubOutcome("NO_ERROR", code, StubArgs(code, p),
                        IF code \in Returning THEN <<I32(0), I32(res)>> ELSE <<I32(0)>>)

(***************************************************************************)
(* Transactions.                                                           *)
(***************************************************************************)
\* One transaction; from is [m, args] for a proxy call or "raw".  When the
\* service's process has died the driver returns DEAD_OBJECT, the stub does
\* not run and the proxy's reply stays empty; the proxy ignores the status.
Transact(code, p, from, res, delivered) ==
    LET o == IF delivered THEN OnTransact(code, p, res)
            ELSE StubOutcome("DEAD_OBJECT", "none", NoArgs, <<>>)
    IN  log' = Append(log, [code |-> code, sent |-> p, from |-> from, res |-> res,
                              delivered |-> delivered, status |-> o.status,
                              impl |-> o.impl, implArgs |-> o.implArgs,
                              result |-> ProxyResult(o.reply)])

ProxyCall ==
    Len(log) < MaxTx /\
    \E m \in Methods, a \in Args, res \in Modes, delivered \in BOOLEAN :
        Transact(m, ProxyData(m, a), [m |-> m, args |-> a], res, delivered)

RawCall ==
    Len(log) < MaxTx /\
    \E code \in Codes, p \in Crafted, res \in Modes :
        Transact(code, p, [m |-> "raw", args |-> NoArgs], res, TRUE)

Init == log = <<>>
Next == ProxyCall \/ RawCall
\* Transactions are independent of each other, so MaxTx of them end it.
Spec == Init /\ [][Next]_vars

(***************************************************************************)
(* Properties.                                                             *)
(***************************************************************************)

\* The arguments each method declares, as the implementation should see
\* them: op code, uid and package; op, package and callback; the callback.
Declared(m, a) ==
    CASE m \in {"check", "note", "start", "finish"} ->
            [code |-> a.code, uid |-> a.uid, pkg |-> a.pkg, cb |-> NULL]
      [] m = "startWatching" -> [code |-> a.code, uid |-> 0, pkg |-> a.pkg, cb |-> a.cb]
      [] m = "stopWatching" -> [code |-> 0, uid |-> 0, pkg |-> "", cb |-> a.cb]

\* Proxy and stub agree: a proxy call that reaches the stub runs the same
\* method of the implementation with the arguments the caller passed, and
\* checkOperation, noteOperation and startOperation return to the caller
\* exactly the mode the implementation answered.
RoundTrip ==
    \A i \in 1..Len(log) :
        LET e == log[i] IN
        (e.from.m # "raw" /\ e.delivered) =>
            /\ e.impl = e.from.m
            /\ e.implArgs = Declared(e.from.m, e.from.args)
            /\ (e.from.m \in Returning => e.result = e.res)
=============================================================================
