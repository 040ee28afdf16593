----------------------------- MODULE BpRefBase -----------------------------
(***************************************************************************)
(* The proxy-side reference protocol of src/libs/binder/Binder.cpp         *)
(* (BpRefBase, lines 324-367).  A BpRefBase wraps an IBinder mRemote and   *)
(* extends its own lifetime to OBJECT_LIFETIME_WEAK, so the C++ object is  *)
(* deleted when its weak count reaches zero, not its strong count.  The    *)
(* constructor takes a "provisional" strong reference on mRemote; the      *)
(* first incStrong of the proxy (onFirstRef) sets kRemoteAcquired, which   *)
(* hands that reference to the owners of the proxy: it is then dropped by  *)
(* onLastStrongRef instead of by the destructor.  A wp<> of the proxy is   *)
(* promoted through onIncStrongAttempted, which promotes mRefs on the      *)
(* remote.                                                                 *)
(*                                                                         *)
(* RefBase itself (incStrong, decStrong, decWeak, attemptIncStrong) lives  *)
(* in libutils, outside this repository; its steps are modelled from the   *)
(* behaviour the spec (section 4.1, section 5) requires of it: every       *)
(* atomic read-modify-write of mStrong or mWeak is one step, and the        *)
(* callbacks into BpRefBase are steps of their own, so that threads        *)
(* interleave between them exactly where the C++ code can.  The remote     *)
(* IBinder is a plain OBJECT_LIFETIME_STRONG object whose own operations    *)
(* are atomic: its payload is freed when its strong count reaches zero.    *)
(***************************************************************************)
EXTENDS Integers, Functions

CONSTANTS
    Threads,    \* threads that hold sp<> / wp<> to the one proxy
    Creator,    \* the thread that runs new BpXxx(o) (interface_cast)
    MaxRefs     \* bound on the sp<> (and on the wp<>) one thread holds

ASSUME Creator \in Threads /\ MaxRefs \in Nat \ {0}

INITIAL_STRONG_VALUE == 2^28    \* RefBase: mStrong before the first incStrong
kRemoteAcquired == 1            \* Binder.cpp:328

VARIABLES
    obj,        \* the BpRefBase object: "none", "alive" or "deleted"
    mRemote,    \* TRUE iff it was constructed from a non-null IBinder
    mStrong,    \* the proxy's RefBase strong count
    mWeak,      \* the proxy's RefBase weak count
    mState,     \* 0 or kRemoteAcquired
    rStrong,    \* strong count of the remote IBinder
    rWeak,      \* weak count of the remote IBinder
    rFreed,     \* the remote object was destroyed (its strong count hit 0)
    extHeld,    \* the caller's own sp<IBinder> o on the remote is still held
    owed,       \* history: strong refs on the remote taken by this proxy
                \* and not yet given back
    sp,         \* sp[t]: number of sp<> to the proxy thread t holds
    wp,         \* wp[t]: number of wp<> to the proxy thread t holds
    pc,         \* where thread t is inside a RefBase operation
    cur         \* cur[t]: the curCount local of attemptIncStrong

vars == <<obj, mRemote, mStrong, mWeak, mState, rStrong, rWeak, rFreed,
          extHeld, owed, sp, wp, pc, cur>>
proxyVars == <<obj, mRemote, mStrong, mWeak, mState>>
remoteVars == <<rStrong, rWeak, rFreed, extHeld, owed>>

PCs == {"idle", "first", "lastStrong", "decWeak",
        "attempted", "grab", "extra", "fixInitial"}

TypeOK ==
    /\ obj \in {"none", "alive", "deleted"}
    /\ mRemote \in BOOLEAN
    /\ mStrong \in Int /\ mWeak \in Int
    /\ mState \in {0, kRemoteAcquired}
    /\ rStrong \in Nat /\ rWeak \in Nat /\ rFreed \in BOOLEAN
    /\ extHeld \in BOOLEAN /\ owed \in Int
    /\ sp \in [Threads -> 0..MaxRefs] /\ wp \in [Threads -> 0..MaxRefs]
    /\ pc \in [Threads -> PCs] /\ cur \in [Threads -> Int]

-----------------------------------------------------------------------------
(* Operations of the remote IBinder, each atomic on its own counts.        *)

\* mRemote->incStrong(this) on behalf of the proxy
RemoteIncStrong ==
    /\ rStrong' = rStrong + 1 /\ rWeak' = rWeak + 1 /\ owed' = owed + 1
    /\ UNCHANGED <<rFreed, extHeld>>

\* mRemote->decStrong(this): the remote is freed at zero
RemoteDecStrong ==
    /\ rStrong' = rStrong - 1 /\ rWeak' = rWeak - 1 /\ owed' = owed - 1
    /\ rFreed' = (rFreed \/ rStrong = 1)
    /\ UNCHANGED extHeld

\* Mutant: the remote is promoted without looking at its strong count, as
\* if onIncStrongAttempted called mRemote->incStrong instead.
RemoteAttemptIncStrongUnchecked == TRUE

\* mRefs->attemptIncStrong(this) on a strong-lifetime object: succeeds iff
\* its strong count is still positive
RemoteAttemptIncStrong == rStrong > 0

-----------------------------------------------------------------------------
Init ==
    /\ obj = "none" /\ mRemote = FALSE
    /\ mStrong = INITIAL_STRONG_VALUE /\ mWeak = 0 /\ mState = 0
    /\ rStrong = 1 /\ rWeak = 1 /\ rFreed = FALSE
    /\ extHeld = TRUE /\ owed = 0
    /\ sp = [t \in Threads |-> 0] /\ wp = [t \in Threads |-> 0]
    /\ pc = [t \in Threads |-> "idle"] /\ cur = [t \in Threads |-> 0]

(* BpRefBase::BpRefBase(o): extendObjectLifetime(WEAK); if mRemote,        *)
(* mRemote->incStrong(this) and mRefs = mRemote->createWeak(this).  The    *)
(* new object is then stored either in an sp<> (interface_cast), whose     *)
(* incStrong begins here with incWeak and mStrong.fetch_add(1) seeing       *)
(* INITIAL_STRONG_VALUE, or in a wp<> only (createWeak).                    *)
Construct(asStrong, nonNull) ==
    /\ obj = "none" /\ pc[Creator] = "idle"
    /\ nonNull => extHeld /\ ~rFreed
    /\ obj' = "alive" /\ mRemote' = nonNull /\ mState' = 0 /\ mWeak' = 1
    /\ IF nonNull
         THEN /\ rStrong' = rStrong + 1 /\ rWeak' = rWeak + 2 /\ owed' = 1
         ELSE UNCHANGED <<rStrong, rWeak, owed>>
    /\ UNCHANGED <<rFreed, extHeld, cur>>
    /\ IF asStrong
         THEN /\ mStrong' = INITIAL_STRONG_VALUE + 1
              /\ pc' = [pc EXCEPT ![Creator] = "first"]
              /\ UNCHANGED <<sp, wp>>
         ELSE /\ UNCHANGED <<mStrong, pc, sp>>
              /\ wp' = [wp EXCEPT ![Creator] = 1]

\* RefBase::incStrong from a copy of a live sp<>: incWeak, then
\* c = mStrong.fetch_add(1); the call returns unless c was the initial value
IncStrong(t) ==
    /\ pc[t] = "idle" /\ sp[t] < MaxRefs
    /\ \E u \in Threads : sp[u] > 0
    /\ mWeak' = mWeak + 1 /\ mStrong' = mStrong + 1
    /\ IF mStrong = INITIAL_STRONG_VALUE
         THEN pc' = [pc EXCEPT ![t] = "first"] /\ UNCHANGED sp
         ELSE sp' = [sp EXCEPT ![t] = @ + 1] /\ UNCHANGED pc
    /\ UNCHANGED <<obj, mRemote, mState, wp, cur>> /\ UNCHANGED remoteVars

\* incStrong after seeing INITIAL_STRONG_VALUE: mStrong.fetch_sub(INITIAL)
\* and onFirstRef(), which is mState.fetch_or(kRemoteAcquired)
FirstRef(t) ==
    /\ pc[t] = "first"
    /\ mStrong' = mStrong - INITIAL_STRONG_VALUE
    /\ mState' = kRemoteAcquired
    /\ sp' = [sp EXCEPT ![t] = @ + 1] /\ pc' = [pc EXCEPT ![t] = "idle"]
    /\ UNCHANGED <<obj, mRemote, mWeak, wp, cur>> /\ UNCHANGED remoteVars

\* RefBase::decStrong: c = mStrong.fetch_sub(1); onLastStrongRef if c = 1;
\* decWeak always (the OBJECT_LIFETIME_WEAK object is not deleted here)
DecStrong(t) ==
    /\ pc[t] = "idle" /\ sp[t] > 0
    /\ sp' = [sp EXCEPT ![t] = @ - 1] /\ mStrong' = mStrong - 1
    /\ pc' = [pc EXCEPT ![t] = IF mStrong = 1 THEN "lastStrong" ELSE "decWeak"]
    /\ UNCHANGED <<obj, mRemote, mWeak, mState, wp, cur>> /\ UNCHANGED remoteVars

\* BpRefBase::onLastStrongRef: if (mRemote) mRemote->decStrong(this)
OnLastStrongRef(t) ==
    /\ pc[t] = "lastStrong"
    /\ IF mRemote THEN RemoteDecStrong ELSE UNCHANGED remoteVars
    /\ pc' = [pc EXCEPT ![t] = "decWeak"]
    /\ UNCHANGED <<sp, wp, cur>> /\ UNCHANGED proxyVars

\* Mutant: the destructor drops the remote strong ref without testing
\* kRemoteAcquired.
DestroyRemoteRefsAlwaysDec ==
    IF ~mRemote THEN UNCHANGED remoteVars
    ELSE /\ rStrong' = rStrong - 1 /\ rWeak' = rWeak - 2
         /\ owed' = owed - 1 /\ rFreed' = (rFreed \/ rStrong = 1)
         /\ UNCHANGED extHeld

\* ~BpRefBase: if mRemote, decStrong unless kRemoteAcquired, then
\* mRefs->decWeak(this)
DestroyRemoteRefs ==
    IF ~mRemote THEN UNCHANGED remoteVars
    ELSE IF mState # kRemoteAcquired
         THEN /\ rStrong' = rStrong - 1 /\ rWeak' = rWeak - 2
              /\ owed' = owed - 1 /\ rFreed' = (rFreed \/ rStrong = 1)
              /\ UNCHANGED extHeld
         ELSE /\ rWeak' = rWeak - 1
              /\ UNCHANGED <<rStrong, rFreed, extHeld, owed>>

\* weakref_type::decWeak: c = mWeak.fetch_sub(1); at c = 1 the
\* OBJECT_LIFETIME_WEAK object is deleted (delete impl->mBase), running
\* ~BpRefBase.  Nobody else can reach the object once mWeak is 0.
DecWeak(t) ==
    /\ pc[t] = "decWeak"
    /\ mWeak' = mWeak - 1
    /\ IF mWeak = 1
         THEN obj' = "deleted" /\ DestroyRemoteRefs
         ELSE UNCHANGED obj /\ UNCHANGED remoteVars
    /\ pc' = [pc EXCEPT ![t] = "idle"]
    /\ UNCHANGED <<mRemote, mStrong, mState, sp, wp, cur>>

\* createWeak / copy of a wp<> from a live sp<> or wp<>: incWeak
MakeWeak(t) ==
    /\ pc[t] = "idle" /\ wp[t] < MaxRefs
    /\ \E u \in Threads : sp[u] > 0 \/ wp[u] > 0
    /\ mWeak' = mWeak + 1 /\ wp' = [wp EXCEPT ![t] = @ + 1]
    /\ UNCHANGED <<obj, mRemote, mStrong, mState, sp, pc, cur>>
    /\ UNCHANGED remoteVars

\* ~wp<>: decWeak
DropWeak(t) ==
    /\ pc[t] = "idle" /\ wp[t] > 0
    /\ wp' = [wp EXCEPT ![t] = @ - 1] /\ pc' = [pc EXCEPT ![t] = "decWeak"]
    /\ UNCHANGED <<sp, cur>> /\ UNCHANGED proxyVars /\ UNCHANGED remoteVars

\* wp<>::promote -> attemptIncStrong: incWeak; CAS mStrong up while it is
\* positive and not initial; otherwise take the extended-lifetime path
Promote(t) ==
    /\ pc[t] = "idle" /\ wp[t] > 0 /\ sp[t] < MaxRefs
    /\ mWeak' = mWeak + 1
    /\ IF mStrong > 0 /\ mStrong # INITIAL_STRONG_VALUE
         THEN /\ mStrong' = mStrong + 1 /\ sp' = [sp EXCEPT ![t] = @ + 1]
              /\ UNCHANGED pc
         ELSE /\ pc' = [pc EXCEPT ![t] = "attempted"]
              /\ UNCHANGED <<mStrong, sp>>
    /\ UNCHANGED <<obj, mRemote, mState, wp, cur>> /\ UNCHANGED remoteVars

\* Mutant: a failed promotion returns without its decWeak.
OnIncStrongAttemptedNoDecWeak(t) ==
    /\ pc[t] = "attempted"
    /\ IF mRemote /\ RemoteAttemptIncStrong
         THEN RemoteIncStrong /\ pc' = [pc EXCEPT ![t] = "grab"]
         ELSE UNCHANGED remoteVars /\ pc' = [pc EXCEPT ![t] = "idle"]
    /\ UNCHANGED <<sp, wp, cur>> /\ UNCHANGED proxyVars

\* BpRefBase::onIncStrongAttempted:
\*   return mRemote ? mRefs->attemptIncStrong(this) : false;
\* on false attemptIncStrong calls decWeak and fails
OnIncStrongAttempted(t) ==
    /\ pc[t] = "attempted"
    /\ IF mRemote /\ RemoteAttemptIncStrong
         THEN RemoteIncStrong /\ pc' = [pc EXCEPT ![t] = "grab"]
         ELSE UNCHANGED remoteVars /\ pc' = [pc EXCEPT ![t] = "decWeak"]
    /\ UNCHANGED <<sp, wp, cur>> /\ UNCHANGED proxyVars

\* Mutant: attemptIncStrong keeps the extra remote ref when another thread
\* revived the proxy first (the onLastStrongRef call is missing).
GrabNoGiveBack(t) ==
    /\ pc[t] = "grab"
    /\ mStrong' = mStrong + 1 /\ cur' = [cur EXCEPT ![t] = mStrong]
    /\ IF mStrong = INITIAL_STRONG_VALUE
         THEN pc' = [pc EXCEPT ![t] = "fixInitial"] /\ UNCHANGED sp
         ELSE pc' = [pc EXCEPT ![t] = "idle"] /\ sp' = [sp EXCEPT ![t] = @ + 1]
    /\ UNCHANGED <<obj, mRemote, mWeak, mState, wp>> /\ UNCHANGED remoteVars

\* curCount = mStrong.fetch_add(1); if somebody else got there first
\* (curCount neither 0 nor initial) the extra remote ref is given back by
\* onLastStrongRef; if curCount was initial, the offset is subtracted
Grab(t) ==
    /\ pc[t] = "grab"
    /\ mStrong' = mStrong + 1 /\ cur' = [cur EXCEPT ![t] = mStrong]
    /\ CASE mStrong # 0 /\ mStrong # INITIAL_STRONG_VALUE ->
              pc' = [pc EXCEPT ![t] = "extra"] /\ UNCHANGED sp
         [] mStrong = INITIAL_STRONG_VALUE ->
              pc' = [pc EXCEPT ![t] = "fixInitial"] /\ UNCHANGED sp
         [] OTHER ->
              pc' = [pc EXCEPT ![t] = "idle"] /\ sp' = [sp EXCEPT ![t] = @ + 1]
    /\ UNCHANGED <<obj, mRemote, mWeak, mState, wp>> /\ UNCHANGED remoteVars

\* impl->mBase->onLastStrongRef(id) inside attemptIncStrong
ExtraRef(t) ==
    /\ pc[t] = "extra"
    /\ IF mRemote THEN RemoteDecStrong ELSE UNCHANGED remoteVars
    /\ sp' = [sp EXCEPT ![t] = @ + 1] /\ pc' = [pc EXCEPT ![t] = "idle"]
    /\ UNCHANGED <<wp, cur>> /\ UNCHANGED proxyVars

\* mStrong.fetch_sub(INITIAL_STRONG_VALUE) at the end of attemptIncStrong
FixInitial(t) ==
    /\ pc[t] = "fixInitial"
    /\ mStrong' = mStrong - INITIAL_STRONG_VALUE
    /\ sp' = [sp EXCEPT ![t] = @ + 1] /\ pc' = [pc EXCEPT ![t] = "idle"]
    /\ UNCHANGED <<obj, mRemote, mWeak, mState, wp, cur>>
    /\ UNCHANGED remoteVars

\* the caller drops its own sp<IBinder> o
ExtRelease ==
    /\ extHeld
    /\ extHeld' = FALSE /\ rStrong' = rStrong - 1 /\ rWeak' = rWeak - 1
    /\ rFreed' = (rFreed \/ rStrong = 1)
    /\ UNCHANGED <<owed, sp, wp, pc, cur>> /\ UNCHANGED proxyVars

\* the steps a thread takes inside a call it has already begun
Internal(t) ==
    \/ FirstRef(t) \/ OnLastStrongRef(t) \/ DecWeak(t)
    \/ OnIncStrongAttempted(t) \/ Grab(t) \/ ExtraRef(t) \/ FixInitial(t)

Next ==
    \/ \E asStrong, nonNull \in BOOLEAN : Construct(asStrong, nonNull)
    \/ ExtRelease
    \/ \E t \in Threads :
         \/ IncStrong(t) \/ DecStrong(t) \/ MakeWeak(t) \/ DropWeak(t)
         \/ Promote(t) \/ Internal(t)

\* A thread that has begun a RefBase call is scheduled until it returns;
\* taking or dropping a reference is up to the program and is not fair.
Fairness == \A t \in Threads : WF_vars(Internal(t))

Spec == Init /\ [][Next]_vars /\ Fairness

-----------------------------------------------------------------------------
Quiescent == \A t \in Threads : pc[t] = "idle"

\* A strong count that is live: positive and past the initial value.
StrongLive == mStrong > 0 /\ mStrong < INITIAL_STRONG_VALUE

\* Remote strong refs the proxy should own in a quiescent state: the
\* provisional one until kRemoteAcquired is set, plus one while the proxy
\* itself is strongly held.
ExpectedOwed ==
    IF obj = "alive" /\ mRemote
      THEN (IF mState = kRemoteAcquired THEN 0 ELSE 1)
           + (IF StrongLive THEN 1 ELSE 0)
      ELSE 0

(* Reference symmetry (spec section 8): whatever the interleaving of       *)
(* incStrong, decStrong, promotion and destruction, the proxy never gives  *)
(* back a remote strong ref it does not own, owes nothing once deleted,    *)
(* and in a quiescent state owns exactly the provisional ref (until        *)
(* onFirstRef) plus one for its live strong count (Binder.cpp:331-362).    *)
RemoteRefBalance ==
    /\ owed >= 0
    /\ obj = "deleted" => owed = 0
    /\ Quiescent => owed = ExpectedOwed

(* Weak-promotion race (spec section 5): a thread that holds an sp<> to    *)
(* the proxy can use the remote, i.e. the remote object has not been       *)
(* freed, even when the promotion raced with the last decStrong           *)
(* (Binder.cpp:357-367).                                                   *)
StrongProxyHasLiveRemote ==
    \A t \in Threads : sp[t] > 0 /\ mRemote => ~rFreed

(* The proxy's own counts stay exact: once deleted nobody holds or is      *)
(* inside a call on it, and when quiescent mWeak counts every sp<> and     *)
(* wp<> held (each sp<> also holds a weak ref) -- the failure path of      *)
(* promotion and the last decWeak included.                                *)
ProxyCountsExact ==
    /\ obj = "deleted" =>
         \A t \in Threads : sp[t] = 0 /\ wp[t] = 0 /\ pc[t] = "idle"
    /\ (Quiescent /\ obj = "alive") =>
         mWeak = SumFunction(sp) + SumFunction(wp)

\* every sp<> and wp<> of the proxy is gone and no incStrong is under way
Unreferenced ==
    /\ obj = "alive"
    /\ \A t \in Threads : sp[t] = 0 /\ wp[t] = 0 /\ pc[t] # "first"

(* Liveness: once the last sp<> and wp<> of the proxy are dropped, the     *)
(* proxy is eventually deleted and has given back every remote strong ref  *)
(* it took, on every path (never acquired, acquired, revived by a          *)
(* promotion).                                                             *)
ProxyEventuallyReleased == Unreferenced ~> (obj = "deleted" /\ owed = 0)

-----------------------------------------------------------------------------
(* Refinement.  The proxy object is obj, the references it holds on the    *)
(* remote are owed, the caller's own reference is extHeld, and the remote  *)
(* is alive until freed.  Construct is Create; OnIncStrongAttempted's      *)
(* successful promotion of mRefs is Take; onLastStrongRef and the extra    *)
(* reference given back inside attemptIncStrong are Give; the last decWeak *)
(* (~BpRefBase) is Delete; ExtRelease is Release; every other step leaves  *)
(* the abstract state alone.                                                *)
Abs == INSTANCE ProxyInterest
         WITH proxy <- obj, held <- owed, ext <- extHeld, alive <- ~rFreed

(* Every behaviour of BpRefBase, composed with RefBase and the remote, is  *)
(* a behaviour of ProxyInterest: whatever the threads interleave, the      *)
(* proxy's dealings with the remote are only those the abstract proxy may  *)
(* have (Binder.cpp:331-367).                                              *)
ProxyInterestRefined == Abs!Spec

=============================================================================
