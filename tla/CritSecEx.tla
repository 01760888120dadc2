------------------------------ MODULE CritSecEx ------------------------------
(***************************************************************************)
(* The enhanced critical section CritSec_Ex (DRIVERS/HCD/sync.cpp), which  *)
(* CDeviceGlobal uses as the lock of USB address 0: a recursive lock built *)
(* from a short Win32 critical section, an auto-reset event and a count of *)
(* waiting threads, that can be closed while threads wait for it.          *)
(*                                                                         *)
(* Every passage through the inner critical section is one step; the wait  *)
(* for the event, PulseEvent, and the SetEvent of the deletion are steps   *)
(* of their own because they happen outside of it.                         *)
(* Names that say Lock, as those of PhysMem say Memory, let one module of  *)
(* proofs extend both.                                                     *)
(***************************************************************************)
EXTENDS Integers, FiniteSets

CONSTANTS Threads,  \* the threads that use the lock
          NoThread, \* m_hOwnerThread == 0
          Timed,    \* the threads that Enter with a timeout other than INFINITE
          MaxNest   \* bound: how often a thread enters before it leaves

ASSUME CritSecAssumption == /\ NoThread \notin Threads
                            /\ IsFiniteSet(Threads)
                            /\ Timed \subseteq Threads
                            /\ MaxNest \in Nat \ {0}

VARIABLES owner,      \* m_hOwnerThread
          refs,       \* m_cOwnerReferences
          waiting,    \* m_cWaitingThreads
          hev,        \* m_hev is set; then no thread is blocked on it
          fClosing,   \* m_fClosing
          destroying, \* the destructor has begun
          deleted,    \* the destructor has returned
          held,       \* held[t]: successful Enters of t that it has not left
          pc

lockVars == <<owner, refs, waiting, hev, fClosing, destroying, deleted, held, pc>>

Waiters   == {"blocking", "blocked", "woken", "timedOut"}
At(where) == {t \in Threads : pc[t] \in where}
Idle(t)   == pc[t] = "idle"

(* CritSec_Ex(): the event is created set.                                  *)
LockInit == /\ owner = NoThread
            /\ refs = 0
            /\ waiting = 0
            /\ hev = TRUE
            /\ fClosing = FALSE
            /\ destroying = FALSE
            /\ deleted = FALSE
            /\ held = [t \in Threads |-> 0]
            /\ pc = [t \in Threads |-> "idle"]
-----------------------------------------------------------------------------
(* The auto-reset event.  "blocked" waits in Enter, "draining" in the
   destructor; whoever is released looks at the fields again.               *)
Sleepers   == At({"blocked", "draining"})
Release(w) == IF pc[w] = "blocked" THEN "woken" ELSE "check"

(* SetEvent by t, which goes on to where: one sleeper is released, or the
   event stays set for the next thread that waits.                          *)
SetEvent(t, where) ==
    \/ \E w \in Sleepers \ {t} :
          /\ pc' = [pc EXCEPT ![t] = where, ![w] = Release(w)]
          /\ UNCHANGED hev
    \/ /\ Sleepers \ {t} = {}
       /\ pc' = [pc EXCEPT ![t] = where]
       /\ hev' = TRUE

(* PulseEvent: one sleeper is released, if there is one, and the event is
   left reset in any case.                                                  *)
PulseEvent(t, where) ==
    /\ hev' = FALSE
    /\ \/ \E w \in Sleepers \ {t} : pc' = [pc EXCEPT ![t] = where, ![w] = Release(w)]
       \/ Sleepers \ {t} = {} /\ pc' = [pc EXCEPT ![t] = where]

(* WaitForSingleObject(m_hev).                                              *)
WaitForEvent(t, asleep, released) ==
    /\ hev' = FALSE
    /\ pc' = [pc EXCEPT ![t] = IF hev THEN released ELSE asleep]
-----------------------------------------------------------------------------
(* EnterCritSec_Ex: m_fClosing is first read without any lock.              *)
Enter(t) ==
    /\ Idle(t)
    /\ ~deleted
    /\ ~fClosing
    /\ held[t] < MaxNest
    /\ pc' = [pc EXCEPT ![t] = "enter"]
    /\ UNCHANGED <<owner, refs, waiting, hev, fClosing, destroying, deleted, held>>

(* The loop enters m_cs at the first pass, and after every wait; then the
   thread counts as waiting no more.                                        *)
Looks(t) == /\ pc[t] \in {"enter", "woken", "timedOut"}
            /\ ~deleted

(* A defect: a thread that never waited is taken off the count.             *)
NotCounted(t) == waiting - 1
NotWaiting(t) == IF pc[t] = "enter" THEN waiting ELSE waiting - 1

(* A defect: a thread that finds the lock closed does not pass the event on. *)
EnterClosedSilent(t) ==
    /\ Looks(t)
    /\ fClosing
    /\ pc' = [pc EXCEPT ![t] = "idle"]
    /\ waiting' = NotWaiting(t)
    /\ UNCHANGED <<owner, refs, hev, fClosing, destroying, deleted, held>>

(* CSS_DESTROYED; the next sleeper is woken.                                *)
EnterClosed(t) ==
    /\ Looks(t)
    /\ fClosing
    /\ SetEvent(t, "idle")
    /\ waiting' = NotWaiting(t)
    /\ UNCHANGED <<owner, refs, fClosing, destroying, deleted, held>>

(* CSS_TIMEOUT, even when the lock has become free.                         *)
EnterTimeout(t) ==
    /\ Looks(t)
    /\ ~fClosing
    /\ pc[t] = "timedOut"
    /\ pc' = [pc EXCEPT ![t] = "idle"]
    /\ waiting' = NotWaiting(t)
    /\ UNCHANGED <<owner, refs, hev, fClosing, destroying, deleted, held>>

(* A defect: a released thread takes the lock without another look.         *)
EnterFirstBlind(t) ==
    /\ Looks(t)
    /\ ~fClosing
    /\ pc[t] # "timedOut"
    /\ owner = NoThread \/ pc[t] = "woken"
    /\ owner' = t
    /\ refs' = 1
    /\ held' = [held EXCEPT ![t] = 1]
    /\ pc' = [pc EXCEPT ![t] = "idle"]
    /\ waiting' = NotWaiting(t)
    /\ UNCHANGED <<hev, fClosing, destroying, deleted>>

EnterFirst(t) ==
    /\ Looks(t)
    /\ ~fClosing
    /\ pc[t] # "timedOut"
    /\ owner = NoThread
    /\ owner' = t
    /\ refs' = 1
    /\ held' = [held EXCEPT ![t] = 1]
    /\ pc' = [pc EXCEPT ![t] = "idle"]
    /\ waiting' = NotWaiting(t)
    /\ UNCHANGED <<hev, fClosing, destroying, deleted>>

EnterAgain(t) ==
    /\ Looks(t)
    /\ ~fClosing
    /\ pc[t] # "timedOut"
    /\ owner = t
    /\ refs' = refs + 1
    /\ held' = [held EXCEPT ![t] = @ + 1]
    /\ pc' = [pc EXCEPT ![t] = "idle"]
    /\ waiting' = NotWaiting(t)
    /\ UNCHANGED <<owner, hev, fClosing, destroying, deleted>>

(* Another thread owns it: this one registers and leaves m_cs.              *)
EnterWaits(t) ==
    /\ Looks(t)
    /\ ~fClosing
    /\ pc[t] # "timedOut"
    /\ owner \notin {NoThread, t}
    /\ waiting' = NotWaiting(t) + 1
    /\ pc' = [pc EXCEPT ![t] = "blocking"]
    /\ UNCHANGED <<owner, refs, hev, fClosing, destroying, deleted, held>>

Wait(t) ==
    /\ pc[t] = "blocking"
    /\ WaitForEvent(t, "blocked", "woken")
    /\ UNCHANGED <<owner, refs, waiting, fClosing, destroying, deleted, held>>

TimeOut(t) ==
    /\ pc[t] = "blocked"
    /\ t \in Timed
    /\ pc' = [pc EXCEPT ![t] = "timedOut"]
    /\ UNCHANGED <<owner, refs, waiting, hev, fClosing, destroying, deleted, held>>
-----------------------------------------------------------------------------
Leave(t) ==
    /\ Idle(t)
    /\ owner = t
    /\ refs' = refs - 1
    /\ held' = [held EXCEPT ![t] = @ - 1]
    /\ IF refs = 1
       THEN /\ owner' = NoThread
            /\ SetEvent(t, "idle")
       ELSE UNCHANGED <<owner, hev, pc>>
    /\ UNCHANGED <<waiting, fClosing, destroying, deleted>>

(* PrepareDeleteCritSec_Ex: the lock is closed, and an owner that closes it
   gives it up; the event is set after m_cs is left.                        *)
Close(t) ==
    /\ fClosing' = TRUE
    /\ owner' = IF owner = t THEN NoThread ELSE owner
    /\ held' = [held EXCEPT ![t] = 0]
    /\ UNCHANGED <<refs, waiting, hev, deleted>>

PrepareDelete(t) ==
    /\ Idle(t)
    /\ ~fClosing
    /\ Close(t)
    /\ pc' = [pc EXCEPT ![t] = "prepared"]
    /\ UNCHANGED destroying

Prepared(t) ==
    /\ pc[t] \in {"prepared", "closed"}
    /\ SetEvent(t, IF pc[t] = "prepared" THEN "idle" ELSE "check")
    /\ UNCHANGED <<owner, refs, waiting, fClosing, destroying, deleted, held>>

(* ~CritSec_Ex, by one thread, after a PrepareDelete has come back.         *)
Destroy(t) ==
    /\ Idle(t)
    /\ ~destroying
    /\ At({"prepared"}) = {}
    /\ Close(t)
    /\ destroying' = TRUE
    /\ pc' = [pc EXCEPT ![t] = "closed"]

(* A defect: the destructor does not wait for the waiters to leave.         *)
DestroyOwnerless(t) ==
    /\ pc[t] = "check"
    /\ IF owner = NoThread
       THEN /\ deleted' = TRUE
            /\ pc' = [pc EXCEPT ![t] = "idle"]
       ELSE /\ pc' = [pc EXCEPT ![t] = "pulse"]
            /\ UNCHANGED deleted
    /\ UNCHANGED <<owner, refs, waiting, hev, fClosing, destroying, held>>

DestroyCheck(t) ==
    /\ pc[t] = "check"
    /\ IF owner = NoThread /\ waiting = 0
       THEN /\ deleted' = TRUE
            /\ pc' = [pc EXCEPT ![t] = "idle"]
       ELSE /\ pc' = [pc EXCEPT ![t] = "pulse"]
            /\ UNCHANGED deleted
    /\ UNCHANGED <<owner, refs, waiting, hev, fClosing, destroying, held>>

DestroyPulse(t) ==
    /\ pc[t] = "pulse"
    /\ PulseEvent(t, "drain")
    /\ UNCHANGED <<owner, refs, waiting, fClosing, destroying, deleted, held>>

DestroyWait(t) ==
    /\ pc[t] = "drain"
    /\ WaitForEvent(t, "draining", "check")
    /\ UNCHANGED <<owner, refs, waiting, fClosing, destroying, deleted, held>>

(* Initialize, when the controller is set up again: its callers have joined
   every thread that used the lock.                                         *)
LockInitialize ==
    /\ ~destroying
    /\ fClosing
    /\ \A t \in Threads : Idle(t) /\ held[t] = 0
    /\ fClosing' = FALSE
    /\ owner' = NoThread
    /\ refs' = 0
    /\ waiting' = 0
    /\ UNCHANGED <<hev, destroying, deleted, held, pc>>
-----------------------------------------------------------------------------
EnterStep(t) == \/ EnterClosed(t) \/ EnterTimeout(t) \/ EnterFirst(t)
                \/ EnterAgain(t) \/ EnterWaits(t)

DestroyStep(t) == DestroyCheck(t) \/ DestroyPulse(t) \/ DestroyWait(t)

LockNext == \/ \E t \in Threads :
                  \/ Enter(t) \/ EnterStep(t) \/ Wait(t) \/ TimeOut(t) \/ Leave(t)
                  \/ PrepareDelete(t) \/ Prepared(t) \/ Destroy(t) \/ DestroyStep(t)
            \/ LockInitialize

(* A call once begun goes on, and an owner leaves: enumeration gives address
   0 up on every path.                                                      *)
LockFairness == \A t \in Threads :
                  WF_lockVars(EnterStep(t) \/ Wait(t) \/ Leave(t) \/ Prepared(t) \/ DestroyStep(t))

LockSpec     == LockInit /\ [][LockNext]_lockVars
LockFairSpec == LockSpec /\ LockFairness
-----------------------------------------------------------------------------
Places == Waiters \cup {"idle", "enter", "prepared", "closed", "check", "pulse", "drain",
                        "draining"}

(* Types; m_cOwnerReferences and m_cWaitingThreads are unsigned.            *)
LockTypeOK == /\ owner \in Threads \cup {NoThread}
              /\ refs \in Nat
              /\ waiting \in Nat
              /\ hev \in BOOLEAN
              /\ fClosing \in BOOLEAN
              /\ destroying \in BOOLEAN
              /\ deleted \in BOOLEAN
              /\ held \in [Threads -> Nat]
              /\ pc \in [Threads -> Places]

(* At most one thread is inside, and only the owner: whatever the order in
   which threads are released, time out and find the lock taken again.  It is
   what keeps two hubs from talking to address 0 at once.                    *)
MutualExclusion ==
    \A t \in Threads : held[t] > 0 => owner = t /\ refs = held[t]

(* Until the destructor pulses the event, no wake-up is lost: whenever the
   lock is free and a thread waits, the event is set, or some thread has been
   released and will look, or a thread is about to set the event.            *)
NoLostWakeup ==
    ~destroying /\ owner = NoThread /\ At({"blocking", "blocked"}) # {}
        => hev \/ At({"woken", "prepared"}) # {}

(* The destructor returns, and its members are destroyed, only when the lock
   has no owner and no thread is on its way through the wait of Enter.       *)
DeletedUnused ==
    deleted => owner = NoThread /\ At(Waiters) = {}

(* After PrepareDelete every call of Enter returns, as CHub::HandleDetach
   requires when it waits for the hub threads to end.                        *)
PendingEntersFail ==
    \A t \in Threads : (fClosing /\ pc[t] \in Waiters) ~> (Idle(t) \/ destroying)

(* "This call will block until the critical section can be safely deleted",
   "All pending Enter requests will be woken from their blocked states"
   (sync.cpp:31-34): the destructor comes to an end once owners have left.   *)
DeleteReturns == destroying ~> deleted
=============================================================================
