-------------------------- MODULE RhinoEventProofs --------------------------
(***************************************************************************)
(* Proofs about RhinoEvent for any set of tasks and flags, in any          *)
(* interleaving of waits, sets, timeouts and deletions.                    *)
(***************************************************************************)
EXTENDS RhinoEvent, TLAPS

\* The caller's variable is written only by the setter that ends the wait.
WrittenOnce == \A t \in Task : pc[t] # "woken" => actl[t] = Unwritten

EventInv == EventSound /\ WrittenOnce
-----------------------------------------------------------------------------
\* Taking flags away meets no condition that was not met.
LEMMA MetMonotone ==
  ASSUME NEW f, NEW g, g \subseteq f, NEW r, Met(g, r)
  PROVE  Met(f, r)
BY DEF Met

\* What a setter leaves is part of what was set.
LEMMA LeftIsLess ==
  ASSUME NEW f
  PROVE  Left(f) \subseteq f
BY DEF Left

\* A task that does not wait has an empty request.
LEMMA NoRequestIsRequest == NoRequest \in Request
BY DEF NoRequest, Request

\* csi_kernel_event_new: nobody waits.
LEMMA InitInv == Init => EventInv
<1> SUFFICES ASSUME Init PROVE EventInv
  OBVIOUS
<1>1. TypeOK
  BY NoRequestIsRequest DEF Init, TypeOK
<1>2. NoneOverlooked /\ SuccessIsMet /\ WrittenOnce
  BY DEF Init, NoneOverlooked, SuccessIsMet, WrittenOnce, Waiting
<1>3. QED
  BY <1>1, <1>2 DEF EventInv, EventSound
-----------------------------------------------------------------------------
\* Both ways of setting flags: every waiter whose condition the new flags meet
\* is taken off the list with them, the others stay.
LEMMA SetterInv ==
  ASSUME EventInv, NEW F \in SUBSET Flag, alive, event_set(flags \cup F),
         NEW U \in SUBSET {t \in Task : pc[t] = "run"},
         pc' = [t \in Task |-> IF t \in U THEN "set" ELSE PcAfter(Wakes(flags \cup F))[t]]
  PROVE  EventInv'
<1> DEFINE f == flags \cup F
           W == Wakes(f)
<1>1. f \subseteq Flag /\ f # Unwritten
  BY EventAssumption DEF EventInv, EventSound, TypeOK
<1>2. /\ W \subseteq Waiting /\ Waiting \subseteq Task /\ W \cap U = {}
      /\ \A t \in W : Met(f, pend[t])
      /\ \A t \in Waiting \ W : ~Met(f, pend[t])
  BY DEF Wakes, Waiting
<1>3. /\ flags' = Left(f) /\ alive' = alive /\ pend' = pend
      /\ actl' = [t \in Task |-> IF t \in W THEN f ELSE actl[t]]
      /\ blk_state' = [t \in Task |-> IF t \in W THEN "FINISH" ELSE blk_state[t]]
  BY DEF event_set, Ends
<1>4. \A t \in Task : pc'[t] = IF t \in U THEN "set" ELSE IF t \in W THEN "woken" ELSE pc[t]
  BY DEF PcAfter
<1>5. pc' = [t \in Task |-> IF t \in U THEN "set" ELSE IF t \in W THEN "woken" ELSE pc[t]]
  BY DEF PcAfter
<1> HIDE DEF f, W
<1>6. TypeOK'
  BY <1>1, <1>3, <1>5, LeftIsLess DEF EventInv, EventSound, TypeOK
<1>7. NoneOverlooked'
  <2> SUFFICES ASSUME NEW t \in Waiting' PROVE alive' /\ ~Met(flags', pend'[t])
    BY DEF NoneOverlooked
  <2>1. t \in Task /\ t \in Waiting \ W
    BY <1>4 DEF Waiting
  <2>2. ~Met(f, pend[t])
    BY <1>2, <2>1
  <2>3. QED
    BY <1>3, <2>2, LeftIsLess, MetMonotone
<1>8. SuccessIsMet' /\ WrittenOnce'
  <2> SUFFICES ASSUME NEW t \in Task
               PROVE  /\ pc'[t] = "woken" => IF blk_state'[t] = "FINISH"
                                             THEN actl'[t] # Unwritten /\ Met(actl'[t], pend'[t])
                                             ELSE actl'[t] = Unwritten
                      /\ pc'[t] # "woken" => actl'[t] = Unwritten
    BY DEF SuccessIsMet, WrittenOnce
  <2>1. CASE t \in W
    BY <1>1, <1>2, <1>3, <1>4, <2>1
  <2>2. CASE t \notin W
    <3>1. blk_state'[t] = blk_state[t] /\ actl'[t] = actl[t] /\ pend'[t] = pend[t]
          /\ (pc'[t] = "woken" <=> pc[t] = "woken")
      BY <1>3, <1>4, <2>2
    <3>2. QED
      BY <3>1 DEF EventInv, EventSound, SuccessIsMet, WrittenOnce
  <2>3. QED
    BY <2>1, <2>2
<1>9. QED
  BY <1>6, <1>7, <1>8 DEF EventInv, EventSound

\* csi_kernel_event_wait, from the call to its return.
LEMMA WaitInv ==
  ASSUME EventInv, NEW t \in Task,
         \/ \E r \in Request : WaitMet(t, r) \/ WaitBlock(t, r)
         \/ Expire(t) \/ WaitEnd(t)
  PROVE  EventInv'
<1> USE DEF EventInv, EventSound, task
<1>1. ASSUME NEW r \in Request, WaitMet(t, r)
      PROVE  EventInv'
  <2>1. flags' \subseteq flags /\ UNCHANGED <<alive, pc, pend, blk_state, actl>>
    BY <1>1 DEF WaitMet
  <2>2. TypeOK'
    BY <2>1 DEF TypeOK
  <2>3. NoneOverlooked'
    BY <2>1, MetMonotone DEF NoneOverlooked, Waiting
  <2>4. QED
    BY <2>1, <2>2, <2>3 DEF SuccessIsMet, WrittenOnce
<1>2. ASSUME NEW r \in Request, WaitBlock(t, r)
      PROVE  EventInv'
  <2> USE <1>2 DEF WaitBlock
  <2>1. TypeOK'
    BY DEF TypeOK
  <2>2. NoneOverlooked'
    BY DEF NoneOverlooked, Waiting, TypeOK
  <2>3. SuccessIsMet' /\ WrittenOnce'
    BY DEF SuccessIsMet, WrittenOnce, TypeOK
  <2>4. QED
    BY <2>1, <2>2, <2>3
<1>3. CASE Expire(t)
  <2> USE <1>3 DEF Expire
  <2>1. TypeOK'
    BY DEF TypeOK
  <2>2. NoneOverlooked'
    BY DEF NoneOverlooked, Waiting, TypeOK
  <2>3. SuccessIsMet' /\ WrittenOnce'
    BY DEF SuccessIsMet, WrittenOnce, TypeOK
  <2>4. QED
    BY <2>1, <2>2, <2>3
<1>4. CASE WaitEnd(t)
  <2> USE <1>4 DEF WaitEnd
  <2>1. TypeOK'
    BY NoRequestIsRequest DEF TypeOK
  <2>2. NoneOverlooked'
    BY DEF NoneOverlooked, Waiting, TypeOK
  <2>3. SuccessIsMet' /\ WrittenOnce'
    BY DEF SuccessIsMet, WrittenOnce, TypeOK
  <2>4. QED
    BY <2>1, <2>2, <2>3
<1>5. QED
  BY <1>1, <1>2, <1>3, <1>4

\* Creation and deletion, clearing, and the return of a setter.
LEMMA ObjectInv ==
  ASSUME EventInv,
         \/ \E t \in Task : SetEnd(t) \/ Del(t) \/ New(t)
         \/ \E F \in SUBSET Flag : SetAnd(F)
  PROVE  EventInv'
<1> USE DEF EventInv, EventSound, task
<1>1. ASSUME NEW t \in Task, SetEnd(t)
      PROVE  EventInv'
  <2> USE <1>1 DEF SetEnd
  <2>1. TypeOK'
    BY DEF TypeOK
  <2>2. NoneOverlooked'
    BY DEF NoneOverlooked, Waiting, TypeOK
  <2>3. QED
    BY <2>1, <2>2 DEF SuccessIsMet, WrittenOnce, TypeOK
<1>2. ASSUME NEW t \in Task, Del(t)
      PROVE  EventInv'
  <2> USE <1>2 DEF Del, Ends, PcAfter
  <2>1. TypeOK'
    BY DEF TypeOK
  <2>2. \A u \in Task : pc'[u] # "pend"
    BY DEF Waiting
  <2>3. NoneOverlooked'
    BY <2>2 DEF NoneOverlooked, Waiting
  <2>4. SuccessIsMet' /\ WrittenOnce'
    BY DEF SuccessIsMet, WrittenOnce, Waiting
  <2>5. QED
    BY <2>1, <2>3, <2>4
<1>3. ASSUME NEW t \in Task, New(t)
      PROVE  EventInv'
  <2> USE <1>3 DEF New
  <2>1. Waiting = {} /\ Waiting' = Waiting
    BY DEF NoneOverlooked, Waiting
  <2>2. QED
    BY <2>1 DEF TypeOK, NoneOverlooked, SuccessIsMet, WrittenOnce
<1>4. ASSUME NEW F \in SUBSET Flag, SetAnd(F)
      PROVE  EventInv'
  <2>1. flags' \subseteq flags /\ UNCHANGED <<alive, pc, pend, blk_state, actl>>
    BY <1>4 DEF SetAnd
  <2>2. TypeOK'
    BY <2>1 DEF TypeOK
  <2>3. NoneOverlooked'
    BY <2>1, MetMonotone DEF NoneOverlooked, Waiting
  <2>4. QED
    BY <2>1, <2>2, <2>3 DEF SuccessIsMet, WrittenOnce
<1>5. QED
  BY <1>1, <1>2, <1>3, <1>4

\* Every step, or a stuttering step, preserves the invariant.
LEMMA NextInv == EventInv /\ [Next]_vars => EventInv'
<1> SUFFICES ASSUME EventInv, [Next]_vars PROVE EventInv'
  OBVIOUS
<1>1. ASSUME NEW t \in Task, NEW F \in SUBSET Flag, Set(t, F)
      PROVE  EventInv'
  <2>1. {t} \in SUBSET {u \in Task : pc[u] = "run"}
    BY <1>1 DEF Set
  <2>2. pc' = [u \in Task |-> IF u \in {t} THEN "set" ELSE PcAfter(Wakes(flags \cup F))[u]]
    BY <1>1 DEF Set, PcAfter
  <2>3. alive /\ event_set(flags \cup F)
    BY <1>1 DEF Set
  <2>4. QED
    BY <2>1, <2>2, <2>3, SetterInv
<1>2. ASSUME NEW F \in SUBSET Flag, IsrSet(F)
      PROVE  EventInv'
  <2>1. {} \in SUBSET {u \in Task : pc[u] = "run"}
    OBVIOUS
  <2>2. pc' = [u \in Task |-> IF u \in {} THEN "set" ELSE PcAfter(Wakes(flags \cup F))[u]]
    BY <1>2 DEF IsrSet, PcAfter
  <2>3. alive /\ event_set(flags \cup F)
    BY <1>2 DEF IsrSet
  <2>4. QED
    BY <2>1, <2>2, <2>3, SetterInv
<1>3. CASE UNCHANGED vars
  BY <1>3 DEF vars, EventInv, EventSound, TypeOK, NoneOverlooked, Waiting, SuccessIsMet,
              WrittenOnce
<1>4. QED
  BY <1>1, <1>2, <1>3, WaitInv, ObjectInv DEF Next

\* The inductive invariant holds throughout.
THEOREM Invariance == Spec => []EventInv
BY InitInv, NextInv, PTL DEF Spec

\* Waits, sets, timeouts and deletions of event flags never miss each other:
\* nobody sleeps in krhino_event_get while its flags are set or the event is
\* gone, and a wait that returns success reports flags that meet it.
THEOREM EventIsSound == Spec => []EventSound
<1>1. EventInv => EventSound
  BY DEF EventInv
<1>2. QED
  BY <1>1, Invariance, PTL
=============================================================================
