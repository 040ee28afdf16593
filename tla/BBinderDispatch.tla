--------------------------- MODULE BBinderDispatch ---------------------------
(***************************************************************************)
(* BBinder's transaction dispatch, src/libs/binder/Binder.cpp:             *)
(*  - IBinder::shellCommand (lines 68-85) marshals three file descriptors, *)
(*    the argument count, the arguments, a callback and a result receiver  *)
(*    and transacts SHELL_COMMAND_TRANSACTION on the target;               *)
(*  - BBinder::transact (125-159) rewinds the data, refuses a shell        *)
(*    command from a caller that is neither AID_SHELL nor AID_ROOT,        *)
(*    answers PING itself, hands everything else to onTransact, and        *)
(*    rewinds the reply if there is one;                                   *)
(*  - BBinder::onTransact (248-301) decodes INTERFACE, DUMP, SHELL_COMMAND *)
(*    and SYSPROPS, and answers UNKNOWN_TRANSACTION to anything else.      *)
(*                                                                         *)
(* A Parcel is a sequence of typed items and a read position; a read of    *)
(* the wrong type yields the type's failure value (0, an empty string, a   *)
(* NULL binder, BAD_TYPE for a descriptor) and moves past the item, a read *)
(* at the end yields it and stays.  The byte layout is abstracted to       *)
(* items.  A call on a local BBinder passes the caller's Parcel as written *)
(* (position at its end); the driver delivers a remote call in a fresh     *)
(* Parcel (position at its start) and always with a reply Parcel.          *)
(***************************************************************************)
EXTENDS Integers, Sequences

CONSTANTS
    Uids,           \* calling uids, AID_SHELL and AID_ROOT among them
    AID_SHELL, AID_ROOT,
    Strings,        \* String16 values
    Binders,        \* callback / result-receiver binders
    ArgCounts,      \* int32 values a crafted parcel may carry as argc
    MaxArgs,        \* arguments shellCommand sends
    MaxItems,       \* items of a crafted parcel
    MaxTx,          \* transactions (bounds the model, not the code)
    NULL

ASSUME {AID_SHELL, AID_ROOT} \subseteq Uids /\ NULL \notin Binders

Codes == {"PING", "INTERFACE", "DUMP", "SHELL_COMMAND", "SYSPROPS", "OTHER"}
Item == [k : {"fd"}, v : {"fd"}] \cup [k : {"i32"}, v : ArgCounts]
        \cup [k : {"str"}, v : Strings] \cup [k : {"binder"}, v : Binders \cup {NULL}]
Parcels(n) == UNION {[1..m -> Item] : m \in 0..n}
ArgSeqs == UNION {[1..m -> Strings] : m \in 0..MaxArgs}

VARIABLES
    log,        \* log[i]: what transaction i did and returned
    crashed     \* a write through a NULL reply

vars == <<log, crashed>>

Raw == [by |-> "raw", args |-> <<>>, rr |-> NULL]
Statuses == {"NO_ERROR", "PERMISSION_DENIED", "UNKNOWN_TRANSACTION"}
Calls == {"none", "ping", "interface", "dump", "shell", "sysprops"}

(***************************************************************************)
(* Parcel reads.                                                           *)
(***************************************************************************)
Read(p, pos, kind, fail) ==
    IF pos <= Len(p) /\ p[pos].k = kind THEN p[pos].v ELSE fail
Adv(p, pos) == IF pos <= Len(p) THEN pos + 1 ELSE pos
\* data.dataAvail() > 0
DataAvail(p, pos) == pos <= Len(p)

\* Mutant: the loop without the dataAvail() guard.
RECURSIVE ReadArgsNoAvail(_, _, _, _)
ReadArgsNoAvail(p, pos, argc, acc) ==
    IF Len(acc) < argc
       THEN ReadArgsNoAvail(p, Adv(p, pos), argc, Append(acc, Read(p, pos, "str", "")))
       ELSE [args |-> acc, pos |-> pos]

\* for (int i = 0; i < argc && data.dataAvail() > 0; i++)
\*     args.add(data.readString16());
RECURSIVE ReadArgs(_, _, _, _)
ReadArgs(p, pos, argc, acc) ==
    IF Len(acc) < argc /\ DataAvail(p, pos)
       THEN ReadArgs(p, Adv(p, pos), argc, Append(acc, Read(p, pos, "str", "")))
       ELSE [args |-> acc, pos |-> pos]

(***************************************************************************)
(* IBinder::shellCommand's send Parcel.                                    *)
(***************************************************************************)
ShellCommand(args, callback, resultReceiver) ==
    <<[k |-> "fd", v |-> "fd"], [k |-> "fd", v |-> "fd"], [k |-> "fd", v |-> "fd"],
      [k |-> "i32", v |-> Len(args)]>>
    \o [i \in 1..Len(args) |-> [k |-> "str", v |-> args[i]]]
    \o <<[k |-> "binder", v |-> callback], [k |-> "binder", v |-> resultReceiver]>>

\* The result of one dispatch: status, the handler that ran, its decoded
\* arguments, the receiver sent INVALID_OPERATION, and the reply contents.
Outcome(status, call, args, rrSent, reply) ==
    [status |-> status, call |-> call, args |-> args, rrSent |-> rrSent,
     reply |-> reply]

(***************************************************************************)
(* BBinder::onTransact, lines 248-301, from data position pos.             *)
(***************************************************************************)
OnTransact(code, p, pos, hasReply) ==
    CASE code = "INTERFACE" ->
            \* reply->writeString16(getInterfaceDescriptor()): empty descriptor
            Outcome("NO_ERROR", "interface", <<>>, NULL, <<"">>)
      [] code = "DUMP" ->
            LET argc == Read(p, Adv(p, pos), "i32", 0)
                r == ReadArgs(p, Adv(p, Adv(p, pos)), argc, <<>>)
            IN  Outcome("NO_ERROR", "dump", r.args, NULL, <<>>)
      [] code = "SHELL_COMMAND" ->
            LET p3 == Adv(p, Adv(p, Adv(p, pos)))
                argc == Read(p, p3, "i32", 0)
                r == ReadArgs(p, Adv(p, p3), argc, <<>>)
                resultReceiver == Read(p, Adv(p, r.pos), "binder", NULL)
            IN  Outcome("NO_ERROR", "shell", r.args, resultReceiver, <<>>)
      [] code = "SYSPROPS" -> Outcome("NO_ERROR", "sysprops", <<>>, NULL, <<>>)
      [] OTHER -> Outcome("UNKNOWN_TRANSACTION", "none", <<>>, NULL, <<>>)

(***************************************************************************)
(* BBinder::transact, lines 125-159.                                       *)
(***************************************************************************)
\* Mutant: the data is dispatched from wherever its position is.
StartPosKeep(p, pos) == pos
\* data.setDataPosition(0)
StartPos(p, pos) == 1

Dispatch(uid, code, p, pos, hasReply) ==
    LET at == StartPos(p, pos) IN
    CASE code = "SHELL_COMMAND" /\ uid \notin {AID_SHELL, AID_ROOT} ->
            Outcome("PERMISSION_DENIED", "none", <<>>, NULL, <<>>)
      [] code = "PING" -> Outcome("NO_ERROR", "ping", <<>>, NULL, <<>>)
      [] OTHER -> OnTransact(code, p, at, hasReply)

\* One transaction; sent is what shellCommand marshalled (by "shellCommand")
\* or a parcel put together by the caller (by "raw").
Transact(uid, code, p, pos, hasReply, sent) ==
    /\ ~crashed /\ Len(log) < MaxTx
    /\ LET o == Dispatch(uid, code, p, pos, hasReply) IN
         \* onTransact writes the descriptor through reply; transact
         \* itself only touches reply after checking it.
         /\ crashed' = (o.reply # <<>> /\ ~hasReply)
         /\ log' = Append(log, [uid |-> uid, code |-> code, sent |-> sent, size |-> Len(p),
                                 status |-> o.status, call |-> o.call,
                                 args |-> o.args, rrSent |-> o.rrSent])

\* A caller in another process: a remote shell command, or any parcel.
RemoteCall ==
    \E uid \in Uids :
       \/ \E args \in ArgSeqs, cb, rr \in Binders \cup {NULL} :
             Transact(uid, "SHELL_COMMAND", ShellCommand(args, cb, rr), 1, TRUE,
                      [by |-> "shellCommand", args |-> args, rr |-> rr])
       \/ \E code \in Codes, p \in Parcels(MaxItems) :
             Transact(uid, code, p, 1, TRUE, Raw)

\* A caller in this process: shellCommand on a local BBinder hands over its
\* written Parcel; other local calls may pass reply = nullptr.
LocalCall ==
    \E uid \in Uids :
       \/ \E args \in ArgSeqs, cb, rr \in Binders \cup {NULL} :
             LET p == ShellCommand(args, cb, rr) IN
             Transact(uid, "SHELL_COMMAND", p, Len(p) + 1, TRUE,
                      [by |-> "shellCommand", args |-> args, rr |-> rr])
       \/ \E code \in Codes, hasReply \in BOOLEAN :
             Transact(uid, code, <<>>, 1, hasReply, Raw)

Init == log = <<>> /\ crashed = FALSE

Next == RemoteCall \/ LocalCall

\* Every transaction is independent of the ones before it (the dispatcher
\* keeps no state), so MaxTx transactions end the behaviour.
Spec == Init /\ [][Next]_vars

(***************************************************************************)
(* Properties.                                                             *)
(***************************************************************************)

\* What shellCommand marshals, onTransact decodes: the same arguments in
\* the same order and the same result receiver, for a remote target and
\* for a local one that receives the Parcel still positioned at its end.
ShellRoundTrip ==
    \A i \in 1..Len(log) :
        (log[i].sent.by = "shellCommand" /\ log[i].call = "shell")
            => log[i].args = log[i].sent.args /\ log[i].rrSent = log[i].sent.rr

\* A crafted argc larger than the data does not make onTransact collect
\* more arguments than the Parcel holds (the dataAvail() guard).
ArgsWithinData ==
    \A i \in 1..Len(log) : Len(log[i].args) <= log[i].size
=============================================================================
