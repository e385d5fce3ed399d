------------------------- MODULE RhinoKernelProofs -------------------------
(***************************************************************************)
(* Proofs about RhinoKernel, for any set of tasks, mutexes and semaphores  *)
(* and any application.                                                    *)
(*                                                                         *)
(* A kernel state is a record of eighteen fields.  What a routine of the   *)
(* core does is stated by the fields it may change (Keeps) and by what it  *)
(* does to the parts of the invariant that speak of those fields: Rings    *)
(* for the run queue, Blocks for the block lists, Ticks for the tick list, *)
(* Owners and Waits for the mutexes, Due for the priorities.               *)
(***************************************************************************)
EXTENDS RhinoKernel, ListLemmas, FiniteSetTheorems

Fields == {"task_state", "prio", "b_prio", "suspend_count", "blk_obj", "blk_state",
           "ready", "highest_pri", "tick_list", "blk_list", "obj_type", "mutex_task",
           "owner_nested", "mutex_list", "count", "active", "sched_lock", "err"}

IsK(s) == s = [f \in Fields |-> s[f]]

\* r is s but for the fields F.
Keeps(r, s, F) == IsK(r) /\ \A f \in Fields \ F : r[f] = s[f]

Ready(s) == {t \in AllTask : s.task_state[t] = "RDY"}
Waiting(s) == {t \in AllTask : s.task_state[t] \in Pended}
Sleeping(s) == {t \in AllTask : s.task_state[t] \in {"SLEEP", "SLEEP_SUSPENDED"}}
LiveIn(s) == {t \in AllTask : s.task_state[t] # "DELETED"}
Suspended == {"SUSPENDED", "SLEEP_SUSPENDED", "PEND_SUSPENDED"}

TaskState == {"RDY", "PEND", "SUSPENDED", "PEND_SUSPENDED",
              "SLEEP", "SLEEP_SUSPENDED", "DELETED"}

Typed(s) ==
  /\ IsK(s)
  /\ s.task_state \in [AllTask -> TaskState]
  /\ s.prio \in [AllTask -> Prio] /\ s.b_prio \in [AllTask -> Prio]
  /\ s.suspend_count \in [AllTask -> Nat]
  /\ s.blk_obj \in [AllTask -> Object \cup {None}]
  /\ s.blk_state \in [AllTask -> {"FINISH", "TIMEOUT", "DEL"}]
  /\ s.ready \in [Prio -> Seq(AllTask)]
  /\ s.highest_pri \in Prio
  /\ s.tick_list \in Seq(AllTask)
  /\ s.blk_list \in [Object -> Seq(AllTask)]
  /\ s.obj_type \subseteq Object
  /\ s.mutex_task \in [Mutex -> AllTask \cup {None}]
  /\ s.owner_nested \in [Mutex -> Nat]
  /\ s.mutex_list \in [AllTask -> Seq(Mutex)]
  /\ s.count \in [Sem -> Nat]
  /\ s.active \in AllTask
  /\ s.sched_lock \in Nat
  /\ s.err = FALSE

\* The tasks R are in the rings of their priorities, and nobody else is.
Rings(s, R) ==
  /\ \A p \in Prio : /\ IsList(s.ready[p], AllTask)
                     /\ \A t \in AllTask : t \in ToSet(s.ready[p]) <=> t \in R /\ s.prio[t] = p
  /\ s.ready[s.highest_pri] # <<>>
  /\ \A p \in Prio : s.ready[p] # <<>> => s.highest_pri <= p

\* The tasks B are on the lists of their objects, in the order of priority.
Blocks(s, B) ==
  \A o \in Object :
    /\ IsList(s.blk_list[o], AllTask)
    /\ SortedBy(s.blk_list[o], s.prio)
    /\ \A t \in AllTask : t \in ToSet(s.blk_list[o]) <=> t \in B /\ s.blk_obj[t] = o

\* The tasks A must be on the tick list, the tasks A and B may.
Ticks(s, A, B) ==
  /\ IsList(s.tick_list, AllTask)
  /\ A \subseteq ToSet(s.tick_list) /\ ToSet(s.tick_list) \subseteq A \cup B

Queues(s) ==
  /\ Typed(s)
  /\ Rings(s, Ready(s))
  /\ Blocks(s, Waiting(s))
  /\ \A t \in Waiting(s) : s.blk_obj[t] \in Object
  /\ Idle \in Ready(s)

Core(s) == Queues(s) /\ Ticks(s, Sleeping(s), Waiting(s))

\* Task t's list of mutexes is right.
Holds(s, t) ==
  /\ IsList(s.mutex_list[t], Mutex)
  /\ \A m \in Mutex : m \in ToSet(s.mutex_list[t]) <=> m \in s.obj_type /\ s.mutex_task[m] = t

Owners(s, x) ==
  /\ \A t \in AllTask \ {x} : Holds(s, t)
  /\ \A m \in Mutex \cap s.obj_type :
       s.mutex_task[m] = None \/ s.mutex_task[m] \in LiveIn(s) \ {Idle}

\* What is waited for exists and is taken, but for the object z.
Waits(s, z) ==
  \A t \in Waiting(s) :
    LET o == s.blk_obj[t]
    IN o # z => /\ o \in s.obj_type
                /\ o \in Mutex => s.mutex_task[o] \notin {None, t}
                /\ o \in Sem => s.count[o] = 0

\* The tasks that lend their priorities to task t.
Lenders(s, t) ==
  {u \in AllTask : /\ u \in Waiting(s)
                   /\ IsMutex(s, s.blk_obj[u])
                   /\ s.mutex_task[s.blk_obj[u]] = t}

\* Task t, whose own priority is base[t], should run at priority p.
Due(s, base, t, p) ==
  /\ p <= base[t]
  /\ \A u \in Lenders(s, t) : p <= s.prio[u]
  /\ p = base[t] \/ \E u \in Lenders(s, t) : s.prio[u] = p

Inherit(s, base, x) == \A t \in LiveIn(s) \ {x} : Due(s, base, t, s.prio[t])

\* The invariant of the kernel state, but for the task x and the object z.
Kernel(s, x, z) ==
  Core(s) /\ Owners(s, x) /\ Waits(s, z) /\ Inherit(s, s.b_prio, x)

(***************************************************************************)
(* The parts of the invariant that speak of the application too.  Their    *)
(* parameters are, in this order, a kernel state and values of pos, want,  *)
(* held and app.                                                           *)
(***************************************************************************)

\* The running task is ready, and of the highest priority.
Runs(s, p) ==
  /\ p[s.active] \in {"run", "end"} \/ s.sched_lock > 0 => s.active \in Ready(s)
  /\ p[s.active] \in {"run", "end"} /\ s.sched_lock = 0 => s.prio[s.active] = s.highest_pri

\* The bounds of the counters.
Counts(s, a) ==
  /\ \A t \in AllTask : /\ s.suspend_count[t] <= a.suspend
                        /\ s.task_state[t] \in Suspended => s.suspend_count[t] > 0
  /\ \A o \in Sem : s.count[o] <= MaxCount
  /\ \A m \in Mutex : s.owner_nested[m] <= a.nest
  /\ \A m \in Mutex \cap s.obj_type : s.mutex_task[m] # None => s.owner_nested[m] > 0

\* What a task that waits for a mutex knows.
Knows(s, p, w, h, t) ==
  /\ p[t] \in {"run", "sched"} => w[t] = None \/ t \notin LiveIn(s)
  /\ t \in Waiting(s) => w[t] = IF s.blk_obj[t] \in Mutex THEN s.blk_obj[t] ELSE None
  /\ t \in Sleeping(s) => w[t] = None
  /\ t \notin Waiting(s) /\ t \in LiveIn(s) => s.blk_obj[t] = None
  /\ w[t] # None => h[t][w[t]] = 0
  /\ \A m \in Mutex : t \notin LiveIn(s) \/ m \notin s.obj_type => h[t][m] = 0

Wants(s, p, w, h) == \A t \in AllTask : Knows(s, p, w, h, t)

Granted(s, w, t, m) == w[t] = m /\ s.blk_state[t] = "FINISH" /\ s.blk_obj[t] = None

\* No task is deleted while it holds a mutex more than once: the count that
\* task_mutex_free leaves to the next owner is 1.
OneLock(a) == "del" \in a.calls => a.nest <= 1

\* A task has as many locks as it knows of, or more where a count was left.
Has(s, w, h, a, t, m) ==
  LET known == h[t][m] + (IF Granted(s, w, t, m) THEN 1 ELSE 0)
  IN IF s.mutex_task[m] = t
       THEN known <= s.owner_nested[m] /\ (OneLock(a) => known = s.owner_nested[m])
       ELSE known = 0

Owned(s, w, h, a) ==
  \A m \in Mutex \cap s.obj_type, t \in LiveIn(s) : Has(s, w, h, a, t, m)

MachineType(p, w, h, a) ==
  /\ a \in Application
  /\ p \in [AllTask -> {"run", "sched", "pend", "end"}]
  /\ w \in [AllTask -> Mutex \cup {None}]
  /\ h \in [AllTask -> [Mutex -> Nat]]

Machine(s, p, w, h, a) ==
  /\ MachineType(p, w, h, a) /\ Kernel(s, None, None)
  /\ Runs(s, p) /\ Counts(s, a) /\ Wants(s, p, w, h) /\ Owned(s, w, h, a)

\* The inductive invariant.
IInv == Machine(k, pos, want, held, app)
-----------------------------------------------------------------------------
(***************************************************************************)
(* The run queue.                                                          *)
(***************************************************************************)
LEMMA MinPair ==
  ASSUME NEW a \in Nat, NEW b \in Nat
  PROVE  Min({a, b}) = IF a <= b THEN a ELSE b
<1>1. CASE a <= b
  BY <1>1, MinIs
<1>2. CASE ~(a <= b)
  BY <1>2, MinIs
<1>3. QED
  BY <1>1, <1>2

LEMMA PrioFacts ==
  Prio \subseteq Nat /\ IdlePri \in Prio /\ (\A p \in Prio : p <= IdlePri) /\ AllTask # {}
BY CoreAssumption DEF Prio, AllTask

LEMMA ReadyAdded ==
  ASSUME NEW s, Typed(s), NEW R, Rings(s, R), NEW t \in AllTask, t \notin R,
         NEW ring, IsList(ring, AllTask), ToSet(ring) = ToSet(s.ready[s.prio[t]]) \cup {t}
  PROVE  /\ Typed(ReadyAdd(s, t, ring))
         /\ Rings(ReadyAdd(s, t, ring), R \cup {t})
         /\ Keeps(ReadyAdd(s, t, ring), s, {"ready", "highest_pri"})
<1> DEFINE r == ReadyAdd(s, t, ring)
           p == s.prio[t]
           h == s.highest_pri
<1>1. /\ Keeps(r, s, {"ready", "highest_pri"})
      /\ r.ready = [s.ready EXCEPT ![p] = ring]
      /\ r.highest_pri = IF s.ready[p] = <<>> THEN Min({h, p}) ELSE h
  BY DEF Typed, IsK, Keeps, Fields, ReadyAdd
<1> HIDE DEF r
<1>2. p \in Prio /\ h \in Prio /\ p \in Nat /\ h \in Nat /\ s.ready \in [Prio -> Seq(AllTask)]
  BY PrioFacts DEF Typed
<1>3. ring \in Seq(AllTask) /\ ring # <<>>
  <2>1. t \in ToSet(ring) /\ ring \in Seq(AllTask)
    BY DEF IsList
  <2>2. QED
    BY <2>1, InList
<1>4. /\ r.ready \in [Prio -> Seq(AllTask)]
      /\ r.ready[p] = ring /\ \A q \in Prio \ {p} : r.ready[q] = s.ready[q]
  BY <1>1, <1>2, <1>3
<1>5. /\ r.highest_pri \in Prio /\ r.highest_pri <= p /\ r.highest_pri <= h
      /\ r.highest_pri \in {h, p}
  <2>1. CASE s.ready[p] = <<>>
    <3>1. Min({h, p}) = IF h <= p THEN h ELSE p
      BY <1>2, MinPair
    <3>2. QED
      BY <1>1, <1>2, <2>1, <3>1
  <2>2. CASE s.ready[p] # <<>>
    <3>1. h <= p
      BY <1>2, <2>2 DEF Rings
    <3>2. QED
      BY <1>1, <1>2, <2>2, <3>1
  <2>3. QED
    BY <2>1, <2>2
<1>6. Typed(r)
  BY <1>1, <1>4, <1>5 DEF Typed, Keeps, Fields
<1>7. r.prio = s.prio
  BY <1>1 DEF Keeps, Fields
<1>8. Rings(r, R \cup {t})
  <2>1. ASSUME NEW q \in Prio
        PROVE  /\ IsList(r.ready[q], AllTask)
               /\ \A u \in AllTask : u \in ToSet(r.ready[q]) <=> u \in R \cup {t} /\ r.prio[u] = q
    <3>1. CASE q = p
      BY <1>2, <1>4, <1>7, <3>1 DEF Rings
    <3>2. CASE q # p
      BY <1>2, <1>4, <1>7, <3>2 DEF Rings
    <3>3. QED
      BY <3>1, <3>2
  <2>2. r.ready[r.highest_pri] # <<>>
    <3>1. s.ready[h] # <<>>
      BY DEF Rings
    <3>2. CASE r.highest_pri = p
      BY <1>3, <1>4, <3>2
    <3>3. CASE r.highest_pri # p
      BY <1>2, <1>4, <1>5, <3>1, <3>3
    <3>4. QED
      BY <3>2, <3>3
  <2>3. ASSUME NEW q \in Prio, r.ready[q] # <<>> PROVE r.highest_pri <= q
    <3>1. CASE q = p
      BY <1>5, <3>1
    <3>2. CASE q # p
      <4>1. h <= q /\ q \in Nat /\ r.highest_pri \in Nat
        BY <1>4, <1>5, <2>3, <3>2, PrioFacts DEF Rings
      <4>2. QED
        BY <1>2, <1>5, <4>1
    <3>3. QED
      BY <3>1, <3>2
  <2>4. QED
    BY <2>1, <2>2, <2>3 DEF Rings
<1>9. QED
  BY <1>1, <1>6, <1>8 DEF r

\* ready_list_add_head, ready_list_add_tail and ready_list_add.
LEMMA ReadyListAdd ==
  ASSUME NEW s, Typed(s), NEW R, Rings(s, R), NEW t \in AllTask, t \notin R,
         NEW r, r \in {ready_list_add_head(s, t), ready_list_add_tail(s, t), ready_list_add(s, t)}
  PROVE  /\ Typed(r) /\ Rings(r, R \cup {t})
         /\ Keeps(r, s, {"ready", "highest_pri"})
<1> DEFINE list == s.ready[s.prio[t]]
<1>1. IsList(list, AllTask) /\ t \notin ToSet(list)
  BY DEF Typed, Rings
<1>2. /\ IsList(Append(list, t), AllTask)
      /\ ToSet(Append(list, t)) = ToSet(list) \cup {t}
  <2>1. t \in AllTask \ ToSet(list)
    BY <1>1
  <2> HIDE DEF list
  <2>2. QED
    BY <1>1, <2>1, Appended
<1>3. /\ IsList(Cons(t, list), AllTask)
      /\ ToSet(Cons(t, list)) = ToSet(list) \cup {t}
  <2>1. t \in AllTask \ ToSet(list)
    BY <1>1
  <2> HIDE DEF list
  <2>2. QED
    BY <1>1, <2>1, Prepended DEF Cons
<1>4. CASE r = ready_list_add_head(s, t)
  BY <1>3, <1>4, ReadyAdded DEF ready_list_add_head
<1>5. CASE r = ready_list_add_tail(s, t)
  BY <1>2, <1>5, ReadyAdded DEF ready_list_add_tail
<1>6. QED
  BY <1>4, <1>5 DEF ready_list_add

LEMMA ReadyRemoved ==
  ASSUME NEW s, Typed(s), NEW R, R \subseteq AllTask, Rings(s, R), NEW t \in R, R \ {t} # {}
  PROVE  /\ Typed(ready_list_rm(s, t))
         /\ Rings(ready_list_rm(s, t), R \ {t})
         /\ Keeps(ready_list_rm(s, t), s, {"ready", "highest_pri"})
<1> DEFINE r    == ready_list_rm(s, t)
           p    == s.prio[t]
           h    == s.highest_pri
           rest == RemoveFirst(s.ready[p], t)
           bits == {q \in Prio \ {p} : s.ready[q] # <<>>}
           keep == rest # <<>> \/ p # h
<1>1. /\ p \in Prio /\ h \in Prio /\ p \in Nat /\ h \in Nat
      /\ s.ready \in [Prio -> Seq(AllTask)] /\ IsList(s.ready[p], AllTask)
  BY PrioFacts DEF Typed, Rings
<1>2. /\ IsList(rest, AllTask)
      /\ ToSet(rest) = ToSet(s.ready[p]) \ {t}
  BY <1>1, RemovedElement
<1>3. rest \in Seq(AllTask)
  BY <1>2 DEF IsList
<1> HIDE DEF rest
<1>4. ~keep => bits # {}
  <2>1. PICK u \in R \ {t} : TRUE
    OBVIOUS
  <2> DEFINE q == s.prio[u]
  <2>2. q \in Prio /\ u \in ToSet(s.ready[q]) /\ s.ready[q] \in Seq(AllTask)
    BY <1>1, <2>1 DEF Typed, Rings
  <2>3. s.ready[q] # <<>>
    BY <2>2, InList
  <2>4. ~keep => q # p
    BY <1>2, <1>3, <2>1, <2>2, InList
  <2>5. QED
    BY <2>2, <2>3, <2>4
<1>5. bits # {} => /\ Min(bits) \in bits /\ \A q \in bits : Min(bits) <= q
  <2>1. bits \subseteq Nat
    BY PrioFacts
  <2>2. QED
    BY <2>1, MinFacts
<1>6. /\ Keeps(r, s, {"ready", "highest_pri"})
      /\ r.ready = [s.ready EXCEPT ![p] = rest]
      /\ r.highest_pri = IF keep THEN h ELSE Min(bits)
  <2>1. CASE keep
    <3>1. r = [s EXCEPT !.ready[p] = rest]
      BY <2>1 DEF ready_list_rm, rest
    <3> HIDE DEF r, bits
    <3>2. QED
      BY <2>1, <3>1 DEF Typed, IsK, Keeps, Fields
  <2>2. CASE ~keep
    <3>1. r = [[s EXCEPT !.ready[p] = rest] EXCEPT !.highest_pri = Min(bits)]
      BY <1>4, <2>2 DEF ready_list_rm, rest
    <3> HIDE DEF r, bits
    <3>2. QED
      BY <2>2, <3>1 DEF Typed, IsK, Keeps, Fields
  <2>3. QED
    BY <2>1, <2>2
<1> HIDE DEF r
<1>7. /\ r.ready \in [Prio -> Seq(AllTask)]
      /\ r.ready[p] = rest /\ \A q \in Prio \ {p} : r.ready[q] = s.ready[q]
  BY <1>1, <1>3, <1>6
<1>8. /\ r.highest_pri \in Prio /\ r.ready[r.highest_pri] # <<>>
      /\ \A q \in Prio : r.ready[q] # <<>> => r.highest_pri <= q
  <2>1. CASE keep
    <3>1. r.highest_pri = h
      BY <1>6, <2>1
    <3>2. r.ready[h] # <<>>
      BY <1>1, <1>7, <2>1 DEF Rings
    <3>3. ASSUME NEW q \in Prio, r.ready[q] # <<>> PROVE h <= q
      <4>1. s.ready[q] # <<>>
        <5>1. CASE q # p
          BY <1>7, <3>3, <5>1
        <5>2. CASE q = p
          <6>1. ToSet(s.ready[p]) # {}
            BY <1>2, <1>3, <1>7, <3>3, <5>2, InList
          <6>2. QED
            BY <1>1, <5>2, <6>1, InList
        <5>3. QED
          BY <5>1, <5>2
      <4>2. QED
        BY <4>1 DEF Rings
    <3>4. QED
      BY <1>1, <3>1, <3>2, <3>3
  <2>2. CASE ~keep
    <3>1. r.highest_pri = Min(bits) /\ Min(bits) \in bits
      BY <1>4, <1>5, <1>6, <2>2
    <3>2. r.highest_pri \in Prio \ {p} /\ s.ready[r.highest_pri] # <<>>
      BY <3>1
    <3>3. ASSUME NEW q \in Prio, r.ready[q] # <<>> PROVE r.highest_pri <= q
      <4>1. q \in bits
        BY <1>7, <2>2, <3>3
      <4>2. QED
        BY <1>4, <1>5, <2>2, <3>1, <4>1
    <3>4. QED
      BY <1>7, <3>2, <3>3
  <2>3. QED
    BY <2>1, <2>2
<1> HIDE DEF bits, keep
<1>9. Typed(r)
  BY <1>6, <1>7, <1>8 DEF Typed, Keeps, Fields
<1>10. Rings(r, R \ {t})
  <2>1. r.prio = s.prio
    BY <1>6 DEF Keeps, Fields
  <2>2. ASSUME NEW q \in Prio
        PROVE  /\ IsList(r.ready[q], AllTask)
               /\ \A u \in AllTask : u \in ToSet(r.ready[q]) <=> u \in R \ {t} /\ r.prio[u] = q
    <3>1. CASE q = p
      BY <1>1, <1>2, <1>7, <2>1, <3>1 DEF Rings
    <3>2. CASE q # p
      BY <1>1, <1>7, <2>1, <3>2 DEF Rings
    <3>3. QED
      BY <3>1, <3>2
  <2>3. QED
    BY <1>8, <2>2 DEF Rings
<1>11. QED
  BY <1>6, <1>9, <1>10 DEF r

\* ready_list_head_to_tail on a ring that is not empty.
LEMMA ReadyRotated ==
  ASSUME NEW s, Typed(s), NEW R, Rings(s, R), NEW t \in AllTask, s.ready[s.prio[t]] # <<>>
  PROVE  /\ Typed(ready_list_head_to_tail(s, t))
         /\ Rings(ready_list_head_to_tail(s, t), R)
         /\ Keeps(ready_list_head_to_tail(s, t), s, {"ready"})
<1> DEFINE r    == ready_list_head_to_tail(s, t)
           p    == s.prio[t]
           ring == Append(Tail(s.ready[p]), Head(s.ready[p]))
<1>1. p \in Prio /\ s.ready \in [Prio -> Seq(AllTask)] /\ IsList(s.ready[p], AllTask)
  BY DEF Typed, Rings
<1>2. IsList(ring, AllTask) /\ ToSet(ring) = ToSet(s.ready[p])
  BY <1>1, Rotated
<1>3. /\ Keeps(r, s, {"ready"})
      /\ r.ready = [s.ready EXCEPT ![p] = ring]
  BY DEF Typed, IsK, Keeps, Fields, ready_list_head_to_tail
<1> HIDE DEF r, ring
<1>4. ring \in Seq(AllTask) /\ ring # <<>>
  <2>1. ring \in Seq(AllTask)
    BY <1>2 DEF IsList
  <2>2. QED
    BY <1>1, <1>2, <2>1, InList
<1>5. /\ r.ready \in [Prio -> Seq(AllTask)]
      /\ r.ready[p] = ring /\ \A q \in Prio \ {p} : r.ready[q] = s.ready[q]
  BY <1>1, <1>3, <1>4
<1>6. Typed(r) /\ r.prio = s.prio /\ r.highest_pri = s.highest_pri
  BY <1>3, <1>5 DEF Typed, Keeps, Fields
<1>7. s.highest_pri \in Prio
  BY DEF Typed
<1>8. Rings(r, R)
  <2>1. ASSUME NEW q \in Prio
        PROVE  /\ IsList(r.ready[q], AllTask)
               /\ \A u \in AllTask : u \in ToSet(r.ready[q]) <=> u \in R /\ r.prio[u] = q
    <3>1. CASE q = p
      BY <1>1, <1>2, <1>5, <1>6, <3>1 DEF Rings
    <3>2. CASE q # p
      BY <1>5, <1>6, <3>2 DEF Rings
    <3>3. QED
      BY <3>1, <3>2
  <2>2. \A q \in Prio : r.ready[q] = <<>> <=> s.ready[q] = <<>>
    BY <1>4, <1>5
  <2>3. s.ready[s.highest_pri] # <<>> /\ \A q \in Prio : s.ready[q] # <<>> => s.highest_pri <= q
    BY DEF Rings
  <2>4. QED
    BY <1>6, <1>7, <2>1, <2>2, <2>3 DEF Rings
<1>9. QED
  BY <1>3, <1>6, <1>8 DEF r

\* The run queue is not touched.
LEMMA RingsKept ==
  ASSUME NEW s, NEW r, NEW R, Rings(s, R), r.ready = s.ready, r.highest_pri = s.highest_pri,
         \A t \in R : r.prio[t] = s.prio[t]
  PROVE  Rings(r, R)
BY DEF Rings

\* The first task of the highest ring is ready and has the highest priority.
LEMMA Preferred ==
  ASSUME NEW s, Typed(s), NEW R, Rings(s, R)
  PROVE  LET t == preferred_cpu_ready_task_get(s)
         IN t \in AllTask /\ t \in R /\ s.prio[t] = s.highest_pri
<1> DEFINE h == s.highest_pri
           t == preferred_cpu_ready_task_get(s)
<1>1. h \in Prio /\ s.ready[h] \in Seq(AllTask) /\ s.ready[h] # <<>>
  BY DEF Typed, Rings
<1>2. t = Head(s.ready[h])
  BY DEF preferred_cpu_ready_task_get
<1>3. t \in ToSet(s.ready[h]) /\ t \in AllTask
  BY <1>1, <1>2, InList
<1>4. QED
  BY <1>1, <1>3 DEF Rings
-----------------------------------------------------------------------------
(***************************************************************************)
(* The block lists and the tick list.                                      *)
(***************************************************************************)
LEMMA PendListAdd ==
  ASSUME NEW s, Typed(s), NEW B, Blocks(s, B), NEW t \in AllTask, t \notin B,
         NEW o \in Object, s.blk_obj[t] = o
  PROVE  /\ Typed(pend_list_add(s, o, t))
         /\ Blocks(pend_list_add(s, o, t), B \cup {t})
         /\ Keeps(pend_list_add(s, o, t), s, {"blk_list"})
<1> DEFINE r    == pend_list_add(s, o, t)
           list == PlaceBefore(s.blk_list[o], s.prio, t)
<1>1. r = [s EXCEPT !.blk_list[o] = list]
  BY DEF pend_list_add, PlaceBefore, SelectInSeq
<1>2. s.prio \in [AllTask -> Nat] /\ s.blk_list \in [Object -> Seq(AllTask)]
  BY PrioFacts DEF Typed
<1>3. /\ IsList(s.blk_list[o], AllTask) /\ SortedBy(s.blk_list[o], s.prio)
      /\ t \in AllTask \ ToSet(s.blk_list[o])
  BY DEF Blocks
<1>4. /\ IsList(list, AllTask) /\ ToSet(list) = ToSet(s.blk_list[o]) \cup {t}
      /\ SortedBy(list, s.prio)
  BY <1>2, <1>3, InsertedSorted
<1> HIDE DEF r, list
<1>5. Keeps(r, s, {"blk_list"}) /\ r.blk_list = [s.blk_list EXCEPT ![o] = list]
  BY <1>1 DEF Typed, IsK, Keeps, Fields
<1>6. list \in Seq(AllTask)
  BY <1>4 DEF IsList
<1>7. /\ r.blk_list \in [Object -> Seq(AllTask)]
      /\ r.blk_list[o] = list /\ \A q \in Object \ {o} : r.blk_list[q] = s.blk_list[q]
  BY <1>2, <1>5, <1>6
<1>8. Typed(r) /\ r.prio = s.prio /\ r.blk_obj = s.blk_obj
  BY <1>5, <1>7 DEF Typed, Keeps, Fields
<1>9. ASSUME NEW q \in Object
      PROVE  /\ IsList(r.blk_list[q], AllTask)
             /\ SortedBy(r.blk_list[q], r.prio)
             /\ \A u \in AllTask : u \in ToSet(r.blk_list[q]) <=> u \in B \cup {t} /\ r.blk_obj[u] = q
  <2>1. CASE q = o
    BY <1>4, <1>7, <1>8, <2>1 DEF Blocks
  <2>2. CASE q # o
    BY <1>7, <1>8, <2>2 DEF Blocks
  <2>3. QED
    BY <2>1, <2>2
<1>10. QED
  BY <1>5, <1>8, <1>9 DEF r, Blocks

\* Task t, whose priority and object may have changed, leaves its list.
LEMMA BlockRemoved ==
  ASSUME NEW s, Typed(s), NEW B, Blocks(s, B), NEW t \in B, t \in AllTask,
         s.blk_obj[t] \in Object,
         NEW r, r.blk_list[s.blk_obj[t]] = RemoveFirst(s.blk_list[s.blk_obj[t]], t),
         \A q \in Object \ {s.blk_obj[t]} : r.blk_list[q] = s.blk_list[q],
         \A u \in AllTask \ {t} : r.prio[u] = s.prio[u] /\ r.blk_obj[u] = s.blk_obj[u]
  PROVE  /\ Blocks(r, B \ {t})
         /\ r.blk_list[s.blk_obj[t]] \in Seq(AllTask)
<1> DEFINE o == s.blk_obj[t]
           list == RemoveFirst(s.blk_list[o], t)
<1>1. /\ IsList(s.blk_list[o], AllTask) /\ SortedBy(s.blk_list[o], s.prio)
      /\ s.blk_list \in [Object -> Seq(AllTask)]
  BY DEF Typed, Blocks
<1>2. ToSet(s.blk_list[o]) \subseteq AllTask
  <2>1. s.blk_list[o] \in Seq(AllTask)
    BY <1>1
  <2>2. QED
    BY <2>1, InList
<1>3. \A x \in ToSet(s.blk_list[o]) \ {t} : r.prio[x] = s.prio[x]
  BY <1>2
<1>4. /\ IsList(list, AllTask) /\ ToSet(list) = ToSet(s.blk_list[o]) \ {t}
      /\ SortedBy(list, r.prio)
  <2>1. /\ IsList(list, AllTask) /\ ToSet(list) = ToSet(s.blk_list[o]) \ {t}
        /\ \A v, w : SortedBy(s.blk_list[o], v)
                       /\ (\A x \in ToSet(s.blk_list[o]) \ {t} : w[x] = v[x])
                     => SortedBy(list, w)
    BY <1>1, RemovedElement
  <2> HIDE DEF list
  <2>2. QED
    BY <1>1, <1>3, <2>1
<1> HIDE DEF list
<1>5. list \in Seq(AllTask)
  BY <1>4 DEF IsList
<1>6. r.blk_list[o] = list
  BY DEF list
<1>7. ASSUME NEW q \in Object
      PROVE  /\ IsList(r.blk_list[q], AllTask)
             /\ SortedBy(r.blk_list[q], r.prio)
             /\ \A u \in AllTask : u \in ToSet(r.blk_list[q]) <=> u \in B \ {t} /\ r.blk_obj[u] = q
  <2>1. CASE q = o
    <3>1. \A u \in AllTask : u \in ToSet(list) <=> u \in B \ {t} /\ r.blk_obj[u] = o
      BY <1>4 DEF Blocks
    <3>2. QED
      BY <1>4, <1>6, <2>1, <3>1
  <2>2. CASE q # o
    <3>1. /\ IsList(s.blk_list[q], AllTask) /\ SortedBy(s.blk_list[q], s.prio)
          /\ \A u \in AllTask : u \in ToSet(s.blk_list[q]) <=> u \in B /\ s.blk_obj[u] = q
      BY DEF Blocks
    <3>2. t \notin ToSet(s.blk_list[q])
      BY <2>2, <3>1
    <3>3. \A u \in AllTask : u \in ToSet(s.blk_list[q]) <=> u \in B \ {t} /\ r.blk_obj[u] = q
      BY <3>1, <3>2
    <3>4. s.blk_list[q] \in Seq(AllTask)
      BY <1>1
    <3>5. \A i \in 1..Len(s.blk_list[q]) : r.prio[s.blk_list[q][i]] = s.prio[s.blk_list[q][i]]
      BY <3>2, <3>4, InList
    <3>6. SortedBy(s.blk_list[q], r.prio)
      BY <3>1, <3>5 DEF SortedBy
    <3>7. QED
      BY <1>6, <2>2, <3>1, <3>3, <3>6
  <2>3. QED
    BY <2>1, <2>2
<1>8. QED
  BY <1>5, <1>6, <1>7 DEF Blocks

\* The block lists are not touched.
LEMMA BlocksKept ==
  ASSUME NEW s, Typed(s), NEW r, NEW B, Blocks(s, B), r.blk_list = s.blk_list,
         \A t \in B : r.prio[t] = s.prio[t] /\ r.blk_obj[t] = s.blk_obj[t]
  PROVE  Blocks(r, B)
<1> SUFFICES ASSUME NEW o \in Object
             PROVE  /\ IsList(r.blk_list[o], AllTask)
                    /\ SortedBy(r.blk_list[o], r.prio)
                    /\ \A t \in AllTask :
                         t \in ToSet(r.blk_list[o]) <=> t \in B /\ r.blk_obj[t] = o
  BY DEF Blocks
<1>1. /\ IsList(s.blk_list[o], AllTask) /\ SortedBy(s.blk_list[o], s.prio)
      /\ \A t \in AllTask : t \in ToSet(s.blk_list[o]) <=> t \in B /\ s.blk_obj[t] = o
      /\ s.blk_list[o] \in Seq(AllTask)
  BY DEF Blocks, Typed
<1>2. \A i \in 1..Len(s.blk_list[o]) : r.prio[s.blk_list[o][i]] = s.prio[s.blk_list[o][i]]
  BY <1>1, InList
<1>3. SortedBy(s.blk_list[o], r.prio)
  BY <1>1, <1>2 DEF SortedBy
<1>4. QED
  BY <1>1, <1>3

\* pend_list_reorder, after a change of the task's priority.
LEMMA PendListReordered ==
  ASSUME NEW s, Typed(s), NEW B, Blocks(s, B), NEW t \in B, t \in AllTask,
         s.blk_obj[t] \in Object, NEW p \in Prio
  PROVE  LET r == pend_list_reorder([s EXCEPT !.prio[t] = p], t)
         IN /\ Typed(r) /\ Blocks(r, B)
            /\ Keeps(r, s, {"prio", "blk_list"})
            /\ r.prio = [s.prio EXCEPT ![t] = p]
<1> DEFINE o == s.blk_obj[t]
           s1 == [s EXCEPT !.prio[t] = p]
           s2 == [s1 EXCEPT !.blk_list[o] = RemoveFirst(@, t)]
           r == pend_list_add(s2, o, t)
<1>1. /\ Keeps(s2, s, {"prio", "blk_list"})
      /\ s2.prio = [s.prio EXCEPT ![t] = p]
      /\ s2.blk_list = [s.blk_list EXCEPT ![o] = RemoveFirst(s.blk_list[o], t)]
  BY DEF Typed, IsK, Keeps, Fields
<1>2. pend_list_reorder(s1, t) = r
  <2>1. s1.blk_obj = s.blk_obj
    BY DEF Typed, IsK, Fields
  <2>2. QED
    BY <2>1 DEF pend_list_reorder
<1> HIDE DEF s2
<1>3. s2.blk_obj = s.blk_obj /\ s.prio \in [AllTask -> Prio]
  BY <1>1 DEF Keeps, Fields, Typed
<1>4. \A u \in AllTask \ {t} : s2.prio[u] = s.prio[u] /\ s2.blk_obj[u] = s.blk_obj[u]
  BY <1>1, <1>3
<1>5. Blocks(s2, B \ {t}) /\ s2.blk_list \in [Object -> Seq(AllTask)]
  <2>1. /\ s2.blk_list[o] = RemoveFirst(s.blk_list[o], t)
        /\ \A q \in Object \ {o} : s2.blk_list[q] = s.blk_list[q]
    BY <1>1 DEF Typed
  <2>2. Blocks(s2, B \ {t}) /\ s2.blk_list[o] \in Seq(AllTask)
    BY <1>4, <2>1, BlockRemoved
  <2>3. QED
    BY <1>1, <2>1, <2>2 DEF Typed
<1>6. Typed(s2)
  <2>1. s2.prio \in [AllTask -> Prio]
    BY <1>1, <1>3
  <2>2. QED
    BY <1>1, <1>5, <2>1 DEF Typed, Keeps, Fields
<1>7. /\ Typed(r) /\ Blocks(r, (B \ {t}) \cup {t}) /\ Keeps(r, s2, {"blk_list"})
  <2> HIDE DEF r
  <2>1. t \notin B \ {t} /\ s2.blk_obj[t] = o /\ o \in Object
    BY <1>3
  <2> HIDE DEF o
  <2>2. QED
    BY <1>5, <1>6, <2>1, PendListAdd DEF r
<1> HIDE DEF r
<1>8. (B \ {t}) \cup {t} = B
  OBVIOUS
<1>9. Keeps(r, s, {"prio", "blk_list"}) /\ r.prio = [s.prio EXCEPT ![t] = p]
  BY <1>1, <1>7 DEF Keeps, Fields
<1>10. QED
  BY <1>2, <1>7, <1>8, <1>9

LEMMA TickInserted ==
  ASSUME NEW s, Typed(s), IsList(s.tick_list, AllTask), NEW t \in AllTask,
         t \notin ToSet(s.tick_list), NEW i \in 1..Len(s.tick_list) + 1
  PROVE  LET r == tick_list_insert(s, t, i)
         IN /\ Typed(r) /\ Keeps(r, s, {"tick_list"}) /\ IsList(r.tick_list, AllTask)
            /\ ToSet(r.tick_list) = ToSet(s.tick_list) \cup {t}
<1> DEFINE r == tick_list_insert(s, t, i)
           list == InsertAt(s.tick_list, i, t)
<1>1. Keeps(r, s, {"tick_list"}) /\ r.tick_list = list
  BY DEF Typed, IsK, Keeps, Fields, tick_list_insert
<1>2. IsList(list, AllTask) /\ ToSet(list) = ToSet(s.tick_list) \cup {t}
  <2>1. t \in AllTask \ ToSet(s.tick_list)
    OBVIOUS
  <2>2. QED
    BY <2>1, Inserted
<1> HIDE DEF r, list
<1>3. Typed(r)
  BY <1>1, <1>2 DEF Typed, Keeps, Fields, IsList
<1>4. QED
  BY <1>1, <1>2, <1>3 DEF r

LEMMA TickRemoved ==
  ASSUME NEW s, Typed(s), IsList(s.tick_list, AllTask), NEW t
  PROVE  LET r == tick_list_rm(s, t)
         IN /\ Typed(r) /\ Keeps(r, s, {"tick_list"}) /\ IsList(r.tick_list, AllTask)
            /\ ToSet(r.tick_list) = ToSet(s.tick_list) \ {t}
<1> DEFINE r == tick_list_rm(s, t)
           list == RemoveFirst(s.tick_list, t)
<1>1. Keeps(r, s, {"tick_list"}) /\ r.tick_list = list
  BY DEF Typed, IsK, Keeps, Fields, tick_list_rm
<1>2. IsList(list, AllTask) /\ ToSet(list) = ToSet(s.tick_list) \ {t}
  BY RemovedElement
<1> HIDE DEF r, list
<1>3. Typed(r)
  BY <1>1, <1>2 DEF Typed, Keeps, Fields, IsList
<1>4. QED
  BY <1>1, <1>2, <1>3 DEF r
-----------------------------------------------------------------------------
(***************************************************************************)
(* Tasks that change their state.                                          *)
(***************************************************************************)

\* The state of task t becomes st.
Moves(r, s, t, st) ==
  r.task_state[t] = st /\ \A u \in AllTask \ {t} : r.task_state[u] = s.task_state[u]

LEMMA NowReady ==
  ASSUME NEW s, NEW r, NEW t \in AllTask, NEW st, Moves(r, s, t, st), st = "RDY"
  PROVE  Ready(r) = Ready(s) \cup {t}
BY DEF Moves, Ready

LEMMA NotReady ==
  ASSUME NEW s, NEW r, NEW t \in AllTask, NEW st, Moves(r, s, t, st), st # "RDY"
  PROVE  Ready(r) = Ready(s) \ {t}
BY DEF Moves, Ready

LEMMA NowWaiting ==
  ASSUME NEW s, NEW r, NEW t \in AllTask, NEW st, Moves(r, s, t, st), st \in Pended
  PROVE  Waiting(r) = Waiting(s) \cup {t}
BY DEF Moves, Waiting

LEMMA NotWaiting ==
  ASSUME NEW s, NEW r, NEW t \in AllTask, NEW st, Moves(r, s, t, st), st \notin Pended
  PROVE  Waiting(r) = Waiting(s) \ {t}
BY DEF Moves, Waiting

LEMMA NowSleeping ==
  ASSUME NEW s, NEW r, NEW t \in AllTask, NEW st, Moves(r, s, t, st), st \in {"SLEEP", "SLEEP_SUSPENDED"}
  PROVE  Sleeping(r) = Sleeping(s) \cup {t}
BY DEF Moves, Sleeping

LEMMA NotSleeping ==
  ASSUME NEW s, NEW r, NEW t \in AllTask, NEW st, Moves(r, s, t, st), st \notin {"SLEEP", "SLEEP_SUSPENDED"}
  PROVE  Sleeping(r) = Sleeping(s) \ {t}
BY DEF Moves, Sleeping

LEMMA NowLive ==
  ASSUME NEW s, NEW r, NEW t \in AllTask, NEW st, Moves(r, s, t, st), st # "DELETED"
  PROVE  LiveIn(r) = LiveIn(s) \cup {t}
BY DEF Moves, LiveIn

LEMMA NotLive ==
  ASSUME NEW s, NEW r, NEW t \in AllTask, NEW st, Moves(r, s, t, st), st = "DELETED"
  PROVE  LiveIn(r) = LiveIn(s) \ {t}
BY DEF Moves, LiveIn

LEMMA MovedTyped ==
  ASSUME NEW s, s.task_state \in [AllTask -> TaskState],
         NEW t \in AllTask, NEW st \in TaskState,
         NEW r, r.task_state = [s.task_state EXCEPT ![t] = st]
  PROVE  r.task_state \in [AllTask -> TaskState] /\ Moves(r, s, t, st)
BY DEF Moves

\* No list of the run queue or of an object changes.
LEMMA QueuesKept ==
  ASSUME NEW s, Queues(s), NEW r, Typed(r),
         r.ready = s.ready, r.highest_pri = s.highest_pri, r.blk_list = s.blk_list,
         Ready(r) = Ready(s), Waiting(r) = Waiting(s),
         \A t \in Ready(s) \cup Waiting(s) : r.prio[t] = s.prio[t],
         \A t \in Waiting(s) : r.blk_obj[t] = s.blk_obj[t]
  PROVE  Queues(r)
<1>1. Typed(s) /\ Rings(s, Ready(s)) /\ Blocks(s, Waiting(s))
  BY DEF Queues
<1>2. Rings(r, Ready(s))
  BY <1>1, RingsKept
<1>3. Blocks(r, Waiting(s))
  BY <1>1, BlocksKept
<1>4. QED
  BY <1>2, <1>3 DEF Queues

LEMMA LeftBlkList ==
  ASSUME NEW s, Queues(s), NEW t \in Waiting(s)
  PROVE  LET r  == LeaveBlkList(s, t)
             st == IF s.task_state[t] = "PEND" THEN "RDY" ELSE "SUSPENDED"
         IN /\ Queues(r) /\ Moves(r, s, t, st)
            /\ Keeps(r, s, {"blk_list", "ready", "highest_pri", "task_state"})
<1> DEFINE o  == s.blk_obj[t]
           s1 == [s EXCEPT !.blk_list[o] = RemoveFirst(@, t)]
           s2 == ready_list_add(s1, t)
           r  == LeaveBlkList(s, t)
           st == IF s.task_state[t] = "PEND" THEN "RDY" ELSE "SUSPENDED"
<1>1. /\ Typed(s) /\ Rings(s, Ready(s)) /\ Blocks(s, Waiting(s)) /\ t \in AllTask
      /\ o \in Object /\ s.blk_list \in [Object -> Seq(AllTask)]
      /\ \A u \in Waiting(s) : s.blk_obj[u] \in Object
      /\ s.task_state \in [AllTask -> TaskState]
  BY DEF Queues, Waiting, Typed
<1>t. t \in AllTask
  BY DEF Waiting
<1>2. t \notin Ready(s) /\ Ready(s) \subseteq AllTask /\ Waiting(s) \subseteq AllTask
  BY DEF Waiting, Ready, Pended
<1>3. /\ Keeps(s1, s, {"blk_list"})
      /\ s1.blk_list = [s.blk_list EXCEPT ![o] = RemoveFirst(s.blk_list[o], t)]
  BY <1>1 DEF Typed, IsK, Keeps, Fields
<1>4. r = IF s.task_state[t] = "PEND" THEN [s2 EXCEPT !.task_state[t] = "RDY"]
          ELSE [s1 EXCEPT !.task_state[t] = "SUSPENDED"]
  BY DEF LeaveBlkList
<1> HIDE DEF s1, r
<1>5. /\ s1.ready = s.ready /\ s1.highest_pri = s.highest_pri
      /\ s1.prio = s.prio /\ s1.blk_obj = s.blk_obj /\ s1.task_state = s.task_state
  BY <1>3 DEF Keeps, Fields
<1>6. Blocks(s1, Waiting(s) \ {t}) /\ Typed(s1)
  <2>1. /\ s1.blk_list[o] = RemoveFirst(s.blk_list[o], t)
        /\ \A q \in Object \ {o} : s1.blk_list[q] = s.blk_list[q]
    BY <1>1, <1>3
  <2>2. Blocks(s1, Waiting(s) \ {t}) /\ s1.blk_list[o] \in Seq(AllTask)
    BY <1>1, <1>5, <2>1, BlockRemoved
  <2>3. s1.blk_list \in [Object -> Seq(AllTask)]
    BY <1>1, <1>3, <2>1, <2>2
  <2>4. QED
    BY <1>1, <1>3, <2>2, <2>3 DEF Typed, Keeps, Fields
<1>7. Rings(s1, Ready(s))
  BY <1>1, <1>5, RingsKept
<1>8. CASE s.task_state[t] = "PEND"
  <2>1. /\ Typed(s2) /\ Rings(s2, Ready(s) \cup {t})
        /\ Keeps(s2, s1, {"ready", "highest_pri"})
    BY <1>1, <1>2, <1>6, <1>7, ReadyListAdd
  <2> HIDE DEF s2
  <2>2. /\ s2.blk_list = s1.blk_list /\ s2.prio = s1.prio /\ s2.blk_obj = s1.blk_obj
        /\ s2.task_state = s.task_state
    BY <1>5, <2>1 DEF Keeps, Fields
  <2>3. Blocks(s2, Waiting(s) \ {t})
    BY <1>6, <2>2, BlocksKept
  <2>4. /\ r.task_state = [s.task_state EXCEPT ![t] = "RDY"] /\ Keeps(r, s2, {"task_state"})
    BY <1>4, <1>8, <2>1, <2>2 DEF Typed, IsK, Keeps, Fields
  <2>5. Moves(r, s, t, "RDY") /\ r.task_state \in [AllTask -> TaskState]
    <3>1. "RDY" \in TaskState
      BY DEF TaskState
    <3>2. QED
      BY <1>1, <2>4, <3>1, MovedTyped
  <2>6. Typed(r)
    BY <2>1, <2>4, <2>5 DEF Typed, Keeps, Fields
  <2>7. /\ r.blk_list = s2.blk_list /\ r.prio = s2.prio /\ r.blk_obj = s2.blk_obj
        /\ r.ready = s2.ready /\ r.highest_pri = s2.highest_pri
    BY <2>4 DEF Keeps, Fields
  <2>8. Ready(r) = Ready(s) \cup {t} /\ Waiting(r) = Waiting(s) \ {t}
    <3>1. Ready(r) = Ready(s) \cup {t}
      BY <1>t, <2>5, NowReady
    <3>2. Waiting(r) = Waiting(s) \ {t}
      BY <1>t, <2>5, NotWaiting DEF Pended
    <3>3. QED
      BY <3>1, <3>2
  <2>9. Rings(r, Ready(s) \cup {t}) /\ Blocks(r, Waiting(s) \ {t})
    BY <2>1, <2>3, <2>7, RingsKept, BlocksKept
  <2>10. Idle \in Ready(r)
    BY <2>8 DEF Queues
  <2>11. \A u \in Waiting(r) : r.blk_obj[u] \in Object
    BY <1>1, <1>5, <2>2, <2>7, <2>8
  <2>12. Queues(r)
    BY <2>6, <2>8, <2>9, <2>10, <2>11 DEF Queues
  <2>13. Keeps(r, s, {"blk_list", "ready", "highest_pri", "task_state"})
    BY <1>3, <2>1, <2>4 DEF Keeps, Fields
  <2>14. QED
    BY <1>8, <2>5, <2>12, <2>13 DEF r
<1>9. CASE s.task_state[t] # "PEND"
  <2>1. /\ r.task_state = [s.task_state EXCEPT ![t] = "SUSPENDED"] /\ Keeps(r, s1, {"task_state"})
    BY <1>4, <1>5, <1>6, <1>9 DEF Typed, IsK, Keeps, Fields
  <2>2. Moves(r, s, t, "SUSPENDED") /\ r.task_state \in [AllTask -> TaskState]
    <3>1. "SUSPENDED" \in TaskState
      BY DEF TaskState
    <3>2. QED
      BY <1>1, <2>1, <3>1, MovedTyped
  <2>3. Typed(r)
    BY <1>6, <2>1, <2>2 DEF Typed, Keeps, Fields
  <2>4. /\ r.blk_list = s1.blk_list /\ r.prio = s1.prio /\ r.blk_obj = s1.blk_obj
        /\ r.ready = s1.ready /\ r.highest_pri = s1.highest_pri
    BY <2>1 DEF Keeps, Fields
  <2>5. Ready(r) = Ready(s) /\ Waiting(r) = Waiting(s) \ {t}
    <3>1. Ready(r) = Ready(s) \ {t}
      BY <1>t, <2>2, NotReady
    <3>2. Waiting(r) = Waiting(s) \ {t}
      BY <1>t, <2>2, NotWaiting DEF Pended
    <3>3. QED
      BY <1>2, <3>1, <3>2
  <2>6. Rings(r, Ready(s)) /\ Blocks(r, Waiting(s) \ {t})
    BY <1>6, <1>7, <2>4, RingsKept, BlocksKept
  <2>7. Idle \in Ready(r) /\ \A u \in Waiting(r) : r.blk_obj[u] \in Object
    BY <1>1, <1>5, <2>4, <2>5 DEF Queues
  <2>8. Queues(r)
    BY <2>3, <2>5, <2>6, <2>7 DEF Queues
  <2>9. Keeps(r, s, {"blk_list", "ready", "highest_pri", "task_state"})
    BY <1>3, <2>1 DEF Keeps, Fields
  <2>10. QED
    BY <1>9, <2>2, <2>8, <2>9 DEF r
<1>10. QED
  BY <1>8, <1>9

\* The wait of task t has ended with this result.
Woken(r, s, t, result) ==
  /\ Keeps(r, s, {"blk_list", "ready", "highest_pri", "task_state", "tick_list",
                  "blk_state", "blk_obj"})
  /\ Moves(r, s, t, IF s.task_state[t] = "PEND" THEN "RDY" ELSE "SUSPENDED")
  /\ r.blk_state = [s.blk_state EXCEPT ![t] = result]
  /\ r.blk_obj = [s.blk_obj EXCEPT ![t] = None]

Result == {"FINISH", "TIMEOUT", "DEL"}

LEMMA PendEnded ==
  ASSUME NEW s, Core(s), NEW t \in Waiting(s), NEW result \in Result
  PROVE  Core(EndPend(s, t, result)) /\ Woken(EndPend(s, t, result), s, t, result)
<1> DEFINE s1 == LeaveBlkList(s, t)
           s2 == tick_list_rm(s1, t)
           r  == EndPend(s, t, result)
           st == IF s.task_state[t] = "PEND" THEN "RDY" ELSE "SUSPENDED"
<1>1. Queues(s) /\ Ticks(s, Sleeping(s), Waiting(s)) /\ Typed(s) /\ t \in AllTask
  BY DEF Core, Queues, Waiting
<1>t. t \in AllTask
  BY DEF Waiting
<1>2. r = [s2 EXCEPT !.blk_state[t] = result, !.blk_obj[t] = None]
  BY DEF EndPend, Waiting
<1>3. /\ Queues(s1) /\ Moves(s1, s, t, st)
      /\ Keeps(s1, s, {"blk_list", "ready", "highest_pri", "task_state"})
  BY <1>1, LeftBlkList
<1> HIDE DEF s1, r
<1>4. s1.tick_list = s.tick_list /\ s1.blk_obj = s.blk_obj /\ s1.blk_state = s.blk_state
  BY <1>3 DEF Keeps, Fields
<1>5. /\ Typed(s2) /\ Keeps(s2, s1, {"tick_list"}) /\ IsList(s2.tick_list, AllTask)
      /\ ToSet(s2.tick_list) = ToSet(s.tick_list) \ {t}
  BY <1>1, <1>3, <1>4, TickRemoved DEF Queues, Ticks
<1> HIDE DEF s2
<1>6. /\ s2.blk_obj = s.blk_obj /\ s2.blk_state = s.blk_state /\ s2.task_state = s1.task_state
      /\ s2.ready = s1.ready /\ s2.highest_pri = s1.highest_pri /\ s2.blk_list = s1.blk_list
      /\ s2.prio = s1.prio
  BY <1>4, <1>5 DEF Keeps, Fields
<1>7. /\ Keeps(r, s2, {"blk_state", "blk_obj"})
      /\ r.blk_state = [s.blk_state EXCEPT ![t] = result]
      /\ r.blk_obj = [s.blk_obj EXCEPT ![t] = None]
  BY <1>2, <1>5, <1>6 DEF Typed, IsK, Keeps, Fields
<1>8. /\ r.blk_state \in [AllTask -> {"FINISH", "TIMEOUT", "DEL"}]
      /\ r.blk_obj \in [AllTask -> Object \cup {None}]
      /\ \A u \in AllTask \ {t} : r.blk_obj[u] = s.blk_obj[u]
  BY <1>1, <1>7 DEF Typed, Result
<1>9. Typed(r)
  BY <1>5, <1>7, <1>8 DEF Typed, Keeps, Fields
<1>10. /\ r.task_state = s1.task_state /\ r.tick_list = s2.tick_list /\ r.ready = s1.ready
       /\ r.highest_pri = s1.highest_pri /\ r.blk_list = s1.blk_list /\ r.prio = s1.prio
  BY <1>6, <1>7 DEF Keeps, Fields
<1>11. Moves(r, s, t, st)
  BY <1>3, <1>10 DEF Moves
<1>12. Ready(r) = Ready(s1) /\ Waiting(r) = Waiting(s1)
  BY <1>10 DEF Ready, Waiting
<1>13. /\ Waiting(r) = Waiting(s) \ {t} /\ Sleeping(r) = Sleeping(s) \ {t}
  <2>1. st \notin Pended /\ st \notin {"SLEEP", "SLEEP_SUSPENDED"}
    BY DEF Pended
  <2> HIDE DEF st
  <2>2. Waiting(r) = Waiting(s) \ {t}
    BY <1>t, <1>11, <2>1, NotWaiting
  <2>3. Sleeping(r) = Sleeping(s) \ {t}
    BY <1>t, <1>11, <2>1, NotSleeping
  <2>4. QED
    BY <2>2, <2>3
<1>14. Queues(r)
  <2>1. \A u \in Waiting(s1) : r.blk_obj[u] = s1.blk_obj[u]
    BY <1>4, <1>8, <1>12, <1>13 DEF Waiting
  <2>2. QED
    BY <1>3, <1>9, <1>10, <1>12, <2>1, QueuesKept
<1>15. Ticks(r, Sleeping(r), Waiting(r))
  BY <1>1, <1>5, <1>10, <1>13 DEF Ticks
<1>16. Keeps(r, s, {"blk_list", "ready", "highest_pri", "task_state", "tick_list",
                    "blk_state", "blk_obj"})
  BY <1>3, <1>5, <1>7 DEF Keeps, Fields
<1>17. QED
  BY <1>7, <1>11, <1>14, <1>15, <1>16 DEF Core, Woken, r

\* Task t starts to wait for the object o.
LEMMA Pending ==
  ASSUME NEW s, Core(s), NEW t \in Ready(s) \ {Idle}, NEW o \in Object,
         NEW i \in 0..Len(s.tick_list) + 1
  PROVE  LET r == pend_to_blk_obj(s, o, t, i)
         IN /\ Core(r) /\ Moves(r, s, t, "PEND")
            /\ Keeps(r, s, {"blk_list", "ready", "highest_pri", "task_state", "tick_list",
                            "blk_obj"})
            /\ r.blk_obj = [s.blk_obj EXCEPT ![t] = o]
<1> DEFINE s1 == IF i = 0 THEN s ELSE tick_list_insert(s, t, i)
           s2 == [s1 EXCEPT !.blk_obj[t] = o, !.task_state[t] = "PEND"]
           s3 == ready_list_rm(s2, t)
           r  == pend_list_add(s3, o, t)
<1>1. /\ Typed(s) /\ Rings(s, Ready(s)) /\ Blocks(s, Waiting(s))
      /\ Ticks(s, Sleeping(s), Waiting(s)) /\ t \in AllTask /\ Idle \in Ready(s)
      /\ \A u \in Waiting(s) : s.blk_obj[u] \in Object
      /\ t \notin Waiting(s) /\ t \notin Sleeping(s)
      /\ Ready(s) \subseteq AllTask /\ Waiting(s) \subseteq AllTask
  BY DEF Core, Queues, Ready, Waiting, Sleeping, Pended
<1>t. t \in AllTask
  BY DEF Ready
<1>2. /\ Typed(s1) /\ Keeps(s1, s, {"tick_list"}) /\ IsList(s1.tick_list, AllTask)
      /\ ToSet(s1.tick_list) \in {ToSet(s.tick_list), ToSet(s.tick_list) \cup {t}}
  <2>1. CASE i = 0
    BY <1>1, <2>1 DEF Keeps, Typed, Ticks
  <2>2. CASE i # 0
    <3>1. IsList(s.tick_list, AllTask) /\ t \notin ToSet(s.tick_list)
      BY <1>1 DEF Ticks
    <3>2. Len(s.tick_list) \in Nat
      BY <3>1, LenProperties DEF IsList
    <3>3. i \in 1..Len(s.tick_list) + 1
      BY <2>2, <3>2
    <3>4. QED
      BY <1>1, <2>2, <3>1, <3>3, TickInserted
  <2>3. QED
    BY <2>1, <2>2
<1> HIDE DEF s1
<1>3. /\ s1.blk_obj = s.blk_obj /\ s1.task_state = s.task_state /\ s1.prio = s.prio
      /\ s1.ready = s.ready /\ s1.highest_pri = s.highest_pri /\ s1.blk_list = s.blk_list
  BY <1>2 DEF Keeps, Fields
<1>4. /\ Keeps(s2, s1, {"blk_obj", "task_state"})
      /\ s2.blk_obj = [s.blk_obj EXCEPT ![t] = o]
      /\ s2.task_state = [s.task_state EXCEPT ![t] = "PEND"]
  BY <1>2, <1>3 DEF Typed, IsK, Keeps, Fields
<1> HIDE DEF s2
<1>5. /\ s2.blk_obj \in [AllTask -> Object \cup {None}] /\ s2.blk_obj[t] = o
      /\ \A u \in AllTask \ {t} : s2.blk_obj[u] = s.blk_obj[u]
      /\ s2.task_state \in [AllTask -> TaskState] /\ Moves(s2, s, t, "PEND")
  BY <1>1, <1>4 DEF Typed, TaskState, Moves
<1>6. Typed(s2)
  BY <1>2, <1>4, <1>5 DEF Typed, Keeps, Fields
<1>7. /\ s2.prio = s.prio /\ s2.ready = s.ready /\ s2.highest_pri = s.highest_pri
      /\ s2.blk_list = s.blk_list /\ s2.tick_list = s1.tick_list
  BY <1>3, <1>4 DEF Keeps, Fields
<1>8. Rings(s2, Ready(s)) /\ Blocks(s2, Waiting(s))
  <2>1. \A u \in Waiting(s) : s2.prio[u] = s.prio[u] /\ s2.blk_obj[u] = s.blk_obj[u]
    BY <1>1, <1>5, <1>7
  <2>2. QED
    BY <1>1, <1>7, <2>1, RingsKept, BlocksKept
<1>9. /\ Typed(s3) /\ Rings(s3, Ready(s) \ {t}) /\ Keeps(s3, s2, {"ready", "highest_pri"})
  <2>1. t \in Ready(s) /\ Ready(s) \ {t} # {}
    BY <1>1
  <2>2. QED
    BY <1>1, <1>6, <1>8, <2>1, ReadyRemoved
<1> HIDE DEF s3
<1>10. /\ s3.prio = s.prio /\ s3.blk_obj = s2.blk_obj /\ s3.blk_list = s2.blk_list
       /\ s3.task_state = s2.task_state /\ s3.tick_list = s1.tick_list
  BY <1>7, <1>9 DEF Keeps, Fields
<1>11. Blocks(s3, Waiting(s))
  BY <1>6, <1>7, <1>8, <1>10, BlocksKept
<1>12. /\ Typed(r) /\ Blocks(r, Waiting(s) \cup {t}) /\ Keeps(r, s3, {"blk_list"})
  BY <1>1, <1>5, <1>9, <1>10, <1>11, PendListAdd
<1>13. r = pend_to_blk_obj(s, o, t, i)
  BY DEF pend_to_blk_obj, s1, s2, s3
<1> HIDE DEF r
<1>14. /\ r.prio = s3.prio /\ r.blk_obj = s2.blk_obj /\ r.ready = s3.ready
       /\ r.highest_pri = s3.highest_pri /\ r.task_state = s2.task_state
       /\ r.tick_list = s1.tick_list
  BY <1>10, <1>12 DEF Keeps, Fields
<1>15. Moves(r, s, t, "PEND")
  BY <1>5, <1>14 DEF Moves
<1>16. /\ Ready(r) = Ready(s) \ {t} /\ Waiting(r) = Waiting(s) \cup {t}
       /\ Sleeping(r) = Sleeping(s) \ {t}
  <2>1. Ready(r) = Ready(s) \ {t}
    BY <1>t, <1>15, NotReady
  <2>2. Waiting(r) = Waiting(s) \cup {t}
    BY <1>t, <1>15, NowWaiting DEF Pended
  <2>3. Sleeping(r) = Sleeping(s) \ {t}
    BY <1>t, <1>15, NotSleeping
  <2>4. QED
    BY <2>1, <2>2, <2>3
<1>17. Rings(r, Ready(s) \ {t})
  BY <1>9, <1>14, RingsKept
<1>18. \A u \in Waiting(r) : r.blk_obj[u] \in Object
  BY <1>1, <1>5, <1>14, <1>16
<1>19. Ticks(r, Sleeping(r), Waiting(r))
  BY <1>1, <1>2, <1>14, <1>16 DEF Ticks
<1>20. Core(r)
  BY <1>1, <1>12, <1>16, <1>17, <1>18, <1>19 DEF Core, Queues
<1>21. Keeps(r, s, {"blk_list", "ready", "highest_pri", "task_state", "tick_list", "blk_obj"})
  BY <1>2, <1>4, <1>9, <1>12 DEF Keeps, Fields
<1>22. QED
  BY <1>4, <1>13, <1>14, <1>15, <1>20, <1>21

LEMMA CoreKept ==
  ASSUME NEW s, Core(s), NEW r, Typed(r),
         r.ready = s.ready, r.highest_pri = s.highest_pri, r.blk_list = s.blk_list,
         r.tick_list = s.tick_list,
         Ready(r) = Ready(s), Waiting(r) = Waiting(s), Sleeping(r) = Sleeping(s),
         \A t \in Ready(s) \cup Waiting(s) : r.prio[t] = s.prio[t],
         \A t \in Waiting(s) : r.blk_obj[t] = s.blk_obj[t]
  PROVE  Core(r)
<1>1. Queues(s) /\ Ticks(s, Sleeping(s), Waiting(s))
  BY DEF Core
<1>2. Queues(r)
  BY <1>1, QueuesKept
<1>3. QED
  BY <1>1, <1>2 DEF Core, Ticks

\* A task that was on no list gets ready.
LEMMA GetsReady ==
  ASSUME NEW s, Queues(s), NEW t \in AllTask, t \notin Ready(s), t \notin Waiting(s),
         NEW s1, Typed(s1), Moves(s1, s, t, "RDY"),
         s1.ready = s.ready, s1.highest_pri = s.highest_pri, s1.blk_list = s.blk_list,
         \A u \in AllTask \ {t} : s1.prio[u] = s.prio[u] /\ s1.blk_obj[u] = s.blk_obj[u],
         NEW r, r \in {ready_list_add_tail(s1, t), ready_list_add(s1, t)}
  PROVE  Queues(r) /\ Keeps(r, s1, {"ready", "highest_pri"}) /\ Moves(r, s, t, "RDY")
<1>1. Typed(s) /\ Rings(s, Ready(s)) /\ Blocks(s, Waiting(s)) /\ Idle \in Ready(s)
  BY DEF Queues
<1>2. Ready(s) \subseteq AllTask /\ Waiting(s) \subseteq AllTask
  BY DEF Ready, Waiting
<1>3. Rings(s1, Ready(s))
  BY <1>1, <1>2, RingsKept
<1>4. Blocks(s1, Waiting(s))
  BY <1>1, <1>2, BlocksKept
<1>5. Typed(r) /\ Rings(r, Ready(s) \cup {t}) /\ Keeps(r, s1, {"ready", "highest_pri"})
  BY <1>3, ReadyListAdd
<1>6. /\ r.prio = s1.prio /\ r.blk_obj = s1.blk_obj /\ r.blk_list = s1.blk_list
      /\ r.task_state = s1.task_state
  BY <1>5 DEF Keeps, Fields
<1>7. Blocks(r, Waiting(s))
  BY <1>4, <1>6, BlocksKept
<1>8. Moves(r, s, t, "RDY")
  BY <1>6 DEF Moves
<1>9. Ready(r) = Ready(s) \cup {t}
  BY <1>8, NowReady
<1>10. Waiting(r) = Waiting(s) \ {t}
  BY <1>8, NotWaiting DEF Pended
<1>11. Waiting(r) = Waiting(s)
  BY <1>10
<1>12. \A u \in Waiting(r) : r.blk_obj[u] \in Object
  BY <1>2, <1>6, <1>11 DEF Queues
<1>13. QED
  BY <1>1, <1>5, <1>7, <1>8, <1>9, <1>11, <1>12 DEF Queues

\* A ready task leaves the run queue for a state in which it is on no list.
LEMMA LeavesReady ==
  ASSUME NEW s, Queues(s), NEW t \in AllTask, t \in Ready(s), t # Idle,
         NEW st, st # "RDY", st \notin Pended,
         NEW s1, Typed(s1), Moves(s1, s, t, st),
         s1.ready = s.ready, s1.highest_pri = s.highest_pri, s1.blk_list = s.blk_list,
         s1.prio = s.prio, s1.blk_obj = s.blk_obj
  PROVE  LET r == ready_list_rm(s1, t)
         IN Queues(r) /\ Keeps(r, s1, {"ready", "highest_pri"}) /\ Moves(r, s, t, st)
<1> DEFINE r == ready_list_rm(s1, t)
<1>1. Typed(s) /\ Rings(s, Ready(s)) /\ Blocks(s, Waiting(s)) /\ Idle \in Ready(s)
  BY DEF Queues
<1>2. Ready(s) \subseteq AllTask /\ Waiting(s) \subseteq AllTask /\ t \notin Waiting(s)
  BY DEF Ready, Waiting, Pended
<1>3. Rings(s1, Ready(s))
  BY <1>1, <1>2, RingsKept
<1>4. Blocks(s1, Waiting(s))
  BY <1>1, <1>2, BlocksKept
<1>5. Typed(r) /\ Rings(r, Ready(s) \ {t}) /\ Keeps(r, s1, {"ready", "highest_pri"})
  <2>1. Ready(s) \ {t} # {}
    BY <1>1
  <2>2. QED
    BY <1>2, <1>3, <2>1, ReadyRemoved
<1> HIDE DEF r
<1>6. /\ r.prio = s1.prio /\ r.blk_obj = s1.blk_obj /\ r.blk_list = s1.blk_list
      /\ r.task_state = s1.task_state
  BY <1>5 DEF Keeps, Fields
<1>7. Blocks(r, Waiting(s))
  BY <1>4, <1>6, BlocksKept
<1>8. Moves(r, s, t, st)
  BY <1>6 DEF Moves
<1>9. Ready(r) = Ready(s) \ {t}
  BY <1>8, NotReady
<1>10. Waiting(r) = Waiting(s) \ {t}
  BY <1>8, NotWaiting
<1>11. Waiting(r) = Waiting(s)
  BY <1>2, <1>10
<1>12. \A u \in Waiting(r) : r.blk_obj[u] \in Object
  BY <1>6, <1>11 DEF Queues
<1>13. Queues(r)
  BY <1>1, <1>5, <1>7, <1>9, <1>11, <1>12 DEF Queues
<1>14. QED
  BY <1>5, <1>8, <1>13 DEF r

\* krhino_task_sleep.
LEMMA Slept ==
  ASSUME NEW s, Core(s), NEW t \in AllTask, t \in Ready(s), t # Idle,
         NEW i \in 1..Len(s.tick_list) + 1
  PROVE  LET r == ready_list_rm(tick_list_insert([s EXCEPT !.task_state[t] = "SLEEP"], t, i), t)
         IN /\ Core(r) /\ Moves(r, s, t, "SLEEP")
            /\ Keeps(r, s, {"ready", "highest_pri", "task_state", "tick_list"})
<1> DEFINE s1 == [s EXCEPT !.task_state[t] = "SLEEP"]
           s2 == tick_list_insert(s1, t, i)
           r  == ready_list_rm(s2, t)
<1>1. /\ Queues(s) /\ Typed(s) /\ Ticks(s, Sleeping(s), Waiting(s))
      /\ t \notin Waiting(s) /\ t \notin Sleeping(s)
  BY DEF Core, Queues, Ready, Waiting, Sleeping, Pended
<1>2. Keeps(s1, s, {"task_state"}) /\ s1.task_state = [s.task_state EXCEPT ![t] = "SLEEP"]
  BY <1>1 DEF Typed, IsK, Keeps, Fields
<1> HIDE DEF s1
<1>3. s1.task_state \in [AllTask -> TaskState] /\ Moves(s1, s, t, "SLEEP")
  BY <1>1, <1>2 DEF Typed, TaskState, Moves
<1>4. Typed(s1) /\ s1.tick_list = s.tick_list
  BY <1>1, <1>2, <1>3 DEF Typed, Keeps, Fields
<1>5. /\ Typed(s2) /\ Keeps(s2, s1, {"tick_list"}) /\ IsList(s2.tick_list, AllTask)
      /\ ToSet(s2.tick_list) = ToSet(s.tick_list) \cup {t}
  <2>1. IsList(s1.tick_list, AllTask) /\ t \notin ToSet(s1.tick_list)
    BY <1>1, <1>4 DEF Ticks
  <2>2. i \in 1..Len(s1.tick_list) + 1
    BY <1>4
  <2>3. QED
    BY <1>4, <2>1, <2>2, TickInserted
<1> HIDE DEF s2
<1>6. /\ s2.ready = s.ready /\ s2.highest_pri = s.highest_pri /\ s2.blk_list = s.blk_list
      /\ s2.prio = s.prio /\ s2.blk_obj = s.blk_obj /\ Moves(s2, s, t, "SLEEP")
  BY <1>2, <1>3, <1>5 DEF Keeps, Fields, Moves
<1>7. Queues(r) /\ Keeps(r, s2, {"ready", "highest_pri"}) /\ Moves(r, s, t, "SLEEP")
  BY <1>1, <1>5, <1>6, LeavesReady DEF Pended
<1> HIDE DEF r
<1>8. Waiting(r) = Waiting(s) \ {t}
  BY <1>7, NotWaiting DEF Pended
<1>9. Sleeping(r) = Sleeping(s) \cup {t}
  BY <1>7, NowSleeping
<1>10. r.tick_list = s2.tick_list
  BY <1>7 DEF Keeps, Fields
<1>11. Ticks(r, Sleeping(r), Waiting(r))
  BY <1>1, <1>5, <1>8, <1>9, <1>10 DEF Ticks
<1>12. Keeps(r, s, {"ready", "highest_pri", "task_state", "tick_list"})
  BY <1>2, <1>5, <1>7 DEF Keeps, Fields
<1>13. QED
  BY <1>7, <1>11, <1>12 DEF Core, r, s2, s1

\* What a suspension or a resumption of task u keeps.
Resuspended(r, s, u) ==
  /\ Keeps(r, s, {"ready", "highest_pri", "task_state", "suspend_count"})
  /\ Waiting(r) = Waiting(s) /\ Sleeping(r) = Sleeping(s) /\ LiveIn(r) = LiveIn(s)
  /\ \A t \in AllTask \ {u} : /\ r.task_state[t] = s.task_state[t]
                              /\ r.suspend_count[t] = s.suspend_count[t]
  /\ r.task_state[u] \in Suspended => r.suspend_count[u] > 0

\* Of two states of one task, both or neither make it wait, sleep, live.
Alike(a, b) ==
  /\ a \in Pended <=> b \in Pended
  /\ a \in {"SLEEP", "SLEEP_SUSPENDED"} <=> b \in {"SLEEP", "SLEEP_SUSPENDED"}
  /\ a = "DELETED" <=> b = "DELETED"

LEMMA AlikeSets ==
  ASSUME NEW s, NEW r, NEW u \in AllTask,
         \A t \in AllTask \ {u} : r.task_state[t] = s.task_state[t],
         Alike(s.task_state[u], r.task_state[u])
  PROVE  /\ Waiting(r) = Waiting(s) /\ Sleeping(r) = Sleeping(s)
         /\ LiveIn(r) = LiveIn(s)
<1>1. \A t \in AllTask : Alike(s.task_state[t], r.task_state[t])
  BY DEF Alike
<1>2. Waiting(r) = Waiting(s)
  BY <1>1 DEF Alike, Waiting
<1>3. Sleeping(r) = Sleeping(s)
  BY <1>1 DEF Alike, Sleeping
<1>4. LiveIn(r) = LiveIn(s)
  BY <1>1 DEF Alike, LiveIn
<1>5. QED
  BY <1>2, <1>3, <1>4

\* The state and the suspend count of u change, and no list does.
Recounted(r, s, u, st, n) ==
  /\ Keeps(r, s, {"task_state", "suspend_count"})
  /\ r.task_state = [s.task_state EXCEPT ![u] = st]
  /\ r.suspend_count = [s.suspend_count EXCEPT ![u] = n]

LEMMA CountedOnly ==
  ASSUME NEW s, Core(s), NEW u \in AllTask, NEW st \in TaskState, NEW n \in Nat,
         st = "RDY" <=> s.task_state[u] = "RDY", Alike(s.task_state[u], st),
         st \in Suspended => n > 0,
         NEW r, Recounted(r, s, u, st, n)
  PROVE  /\ Core(r) /\ Resuspended(r, s, u) /\ Ready(r) = Ready(s)
         /\ r.task_state[u] = st /\ r.suspend_count[u] = n
<1>1. Typed(s)
  BY DEF Core, Queues
<1>2. /\ Keeps(r, s, {"task_state", "suspend_count"})
      /\ r.task_state = [s.task_state EXCEPT ![u] = st]
      /\ r.suspend_count = [s.suspend_count EXCEPT ![u] = n]
  BY DEF Recounted
<1>3. /\ r.task_state \in [AllTask -> TaskState] /\ r.suspend_count \in [AllTask -> Nat]
      /\ r.task_state[u] = st /\ r.suspend_count[u] = n
      /\ \A t \in AllTask \ {u} : /\ r.task_state[t] = s.task_state[t]
                                  /\ r.suspend_count[t] = s.suspend_count[t]
  BY <1>1, <1>2 DEF Typed
<1>4. Typed(r)
  BY <1>1, <1>2, <1>3 DEF Typed, Keeps, Fields
<1>5. Waiting(r) = Waiting(s) /\ Sleeping(r) = Sleeping(s) /\ LiveIn(r) = LiveIn(s)
  <2>1. /\ \A t \in AllTask \ {u} : r.task_state[t] = s.task_state[t]
        /\ Alike(s.task_state[u], r.task_state[u])
    BY <1>3
  <2>2. QED
    BY <2>1, AlikeSets
<1>6. Ready(r) = Ready(s)
  BY <1>3 DEF Ready
<1>7. /\ r.ready = s.ready /\ r.highest_pri = s.highest_pri /\ r.blk_list = s.blk_list
      /\ r.tick_list = s.tick_list /\ r.prio = s.prio /\ r.blk_obj = s.blk_obj
  BY <1>2 DEF Keeps, Fields
<1>8. Core(r)
  BY <1>4, <1>5, <1>6, <1>7, CoreKept
<1>9. Resuspended(r, s, u)
  <2>1. Keeps(r, s, {"ready", "highest_pri", "task_state", "suspend_count"})
    BY <1>2 DEF Keeps, Fields
  <2>2. QED
    BY <1>3, <1>5, <2>1 DEF Resuspended
<1>10. QED
  BY <1>3, <1>6, <1>8, <1>9

LEMMA TaskSuspended ==
  ASSUME NEW s, Core(s), NEW u \in AllTask, u # Idle
  PROVE  LET r == task_suspend(s, u)
         IN /\ Core(r) /\ Resuspended(r, s, u)
            /\ \A t \in Ready(s) \ {u} : t \in Ready(r)
            /\ r.suspend_count[u] \in {1, s.suspend_count[u] + 1}
<1> DEFINE r  == task_suspend(s, u)
           a  == s.task_state[u]
           n  == s.suspend_count[u] + 1
           s1 == [s EXCEPT !.suspend_count[u] = @ + 1]
           To(st) == [s1 EXCEPT !.task_state[u] = st, !.suspend_count[u] = 1]
<1>1. /\ Queues(s) /\ Typed(s) /\ a \in TaskState /\ n \in Nat /\ n > 0
      /\ s.task_state \in [AllTask -> TaskState]
      /\ s.suspend_count \in [AllTask -> Nat]
  <2>1. Queues(s) /\ Typed(s)
    BY DEF Core, Queues
  <2>2. s.task_state \in [AllTask -> TaskState] /\ s.suspend_count \in [AllTask -> Nat]
    BY <2>1 DEF Typed
  <2>3. QED
    BY <2>1, <2>2
<1>2. ASSUME NEW st \in TaskState PROVE Recounted(To(st), s, u, st, 1)
  BY <1>1 DEF Typed, IsK, Fields, Recounted, Keeps
<1>3. Recounted(s1, s, u, a, n)
  BY <1>1 DEF Typed, IsK, Fields, Recounted, Keeps
<1>4. /\ a = "RDY" => r = ready_list_rm(To("SUSPENDED"), u)
      /\ a = "SLEEP" => r = To("SLEEP_SUSPENDED")
      /\ a = "PEND" => r = To("PEND_SUSPENDED")
      /\ a \notin {"RDY", "SLEEP", "PEND"} => r = s1
  BY DEF task_suspend
<1> HIDE DEF s1, r, To
<1>5. CASE a = "RDY"
  <2> DEFINE s2 == To("SUSPENDED")
  <2>1. r = ready_list_rm(s2, u)
    BY <1>4, <1>5
  <2>2. /\ Keeps(s2, s, {"task_state", "suspend_count"})
        /\ s2.task_state = [s.task_state EXCEPT ![u] = "SUSPENDED"]
        /\ s2.suspend_count = [s.suspend_count EXCEPT ![u] = 1]
    BY <1>2 DEF TaskState, Recounted
  <2> HIDE DEF s2
  <2>3. /\ s2.task_state \in [AllTask -> TaskState] /\ s2.suspend_count \in [AllTask -> Nat]
        /\ Moves(s2, s, u, "SUSPENDED") /\ s2.suspend_count[u] = 1
        /\ \A t \in AllTask \ {u} : s2.suspend_count[t] = s.suspend_count[t]
    BY <1>1, <2>2 DEF TaskState, Moves
  <2>4. /\ Typed(s2)
        /\ s2.ready = s.ready /\ s2.highest_pri = s.highest_pri /\ s2.blk_list = s.blk_list
        /\ s2.prio = s.prio /\ s2.blk_obj = s.blk_obj
    BY <1>1, <2>2, <2>3 DEF Typed, Keeps, Fields
  <2>5. u \in Ready(s)
    BY <1>5 DEF Ready
  <2>6. /\ Queues(r) /\ Keeps(r, s2, {"ready", "highest_pri"})
        /\ Moves(r, s, u, "SUSPENDED")
    BY <1>1, <2>1, <2>3, <2>4, <2>5, LeavesReady DEF Pended
  <2>7. Keeps(r, s, {"ready", "highest_pri", "task_state", "suspend_count"})
    BY <2>2, <2>6 DEF Keeps, Fields
  <2>8. r.suspend_count = s2.suspend_count /\ r.tick_list = s.tick_list
    BY <2>2, <2>6 DEF Keeps, Fields
  <2>9. /\ r.task_state[u] = "SUSPENDED"
        /\ \A t \in AllTask \ {u} : r.task_state[t] = s.task_state[t]
    BY <2>6 DEF Moves
  <2>10. Waiting(r) = Waiting(s) /\ Sleeping(r) = Sleeping(s) /\ LiveIn(r) = LiveIn(s)
    <3>1. Alike(s.task_state[u], r.task_state[u])
      BY <1>5, <2>9 DEF Alike, Pended
    <3>2. QED
      BY <2>9, <3>1, AlikeSets
  <2>11. Resuspended(r, s, u)
    BY <2>3, <2>7, <2>8, <2>9, <2>10 DEF Resuspended
  <2>12. Ticks(r, Sleeping(r), Waiting(r))
    BY <2>8, <2>10 DEF Core, Ticks
  <2>13. \A t \in Ready(s) \ {u} : t \in Ready(r)
    BY <2>9 DEF Ready
  <2>14. QED
    BY <2>3, <2>6, <2>8, <2>11, <2>12, <2>13 DEF Core, r
<1>6. CASE a = "SLEEP"
  <2>1. Recounted(r, s, u, "SLEEP_SUSPENDED", 1)
    BY <1>2, <1>4, <1>6 DEF TaskState
  <2>2. Core(r) /\ Resuspended(r, s, u) /\ Ready(r) = Ready(s) /\ r.suspend_count[u] = 1
    <3>1. /\ "SLEEP_SUSPENDED" \in TaskState /\ 1 \in Nat
          /\ "SLEEP_SUSPENDED" = "RDY" <=> s.task_state[u] = "RDY"
          /\ Alike(s.task_state[u], "SLEEP_SUSPENDED")
      BY <1>6 DEF TaskState, Alike, Pended
    <3>2. QED
      BY <2>1, <3>1, CountedOnly
  <2>3. QED
    BY <2>2 DEF r
<1>7. CASE a = "PEND"
  <2>1. Recounted(r, s, u, "PEND_SUSPENDED", 1)
    BY <1>2, <1>4, <1>7 DEF TaskState
  <2>2. Core(r) /\ Resuspended(r, s, u) /\ Ready(r) = Ready(s) /\ r.suspend_count[u] = 1
    <3>1. /\ "PEND_SUSPENDED" \in TaskState /\ 1 \in Nat
          /\ "PEND_SUSPENDED" = "RDY" <=> s.task_state[u] = "RDY"
          /\ Alike(s.task_state[u], "PEND_SUSPENDED")
      BY <1>7 DEF TaskState, Alike, Pended
    <3>2. QED
      BY <2>1, <3>1, CountedOnly
  <2>3. QED
    BY <2>2 DEF r
<1>8. CASE a \notin {"RDY", "SLEEP", "PEND"}
  <2>1. Recounted(r, s, u, a, n)
    BY <1>3, <1>4, <1>8
  <2>2. Core(r) /\ Resuspended(r, s, u) /\ Ready(r) = Ready(s) /\ r.suspend_count[u] = n
    <3>1. a = "RDY" <=> s.task_state[u] = "RDY"
      OBVIOUS
    <3>2. Alike(s.task_state[u], a)
      BY DEF Alike
    <3> HIDE DEF a, n
    <3>3. QED
      BY <1>1, <2>1, <3>1, <3>2, CountedOnly
  <2>3. QED
    BY <2>2 DEF r
<1>9. QED
  BY <1>5, <1>6, <1>7, <1>8

LEMMA TaskResumed ==
  ASSUME NEW s, Core(s), NEW u \in AllTask, s.task_state[u] \in Suspended,
         s.suspend_count[u] > 0
  PROVE  LET r == task_resume(s, u)
         IN /\ Core(r) /\ Resuspended(r, s, u)
            /\ \A t \in Ready(s) : t \in Ready(r)
            /\ r.suspend_count[u] = s.suspend_count[u] - 1
<1> DEFINE r  == task_resume(s, u)
           a  == s.task_state[u]
           n  == s.suspend_count[u] - 1
           s1 == [s EXCEPT !.suspend_count[u] = @ - 1]
           To(st) == [s1 EXCEPT !.task_state[u] = st]
<1>1. /\ Queues(s) /\ Typed(s) /\ a \in TaskState /\ n \in Nat /\ a # "RDY"
      /\ s.task_state \in [AllTask -> TaskState]
      /\ s.suspend_count \in [AllTask -> Nat]
  <2>1. Queues(s) /\ Typed(s)
    BY DEF Core, Queues
  <2>2. s.task_state \in [AllTask -> TaskState] /\ s.suspend_count \in [AllTask -> Nat]
    BY <2>1 DEF Typed
  <2>3. a # "RDY"
    BY DEF Suspended
  <2>4. QED
    BY <2>1, <2>2, <2>3
<1>2. ASSUME NEW st \in TaskState PROVE Recounted(To(st), s, u, st, n)
  BY <1>1 DEF Typed, IsK, Fields, Recounted, Keeps
<1>3. Recounted(s1, s, u, a, n) /\ s1.suspend_count[u] = n
  <2>1. Recounted(s1, s, u, a, n)
    BY <1>1 DEF Typed, IsK, Fields, Recounted, Keeps
  <2> HIDE DEF s1
  <2>2. QED
    BY <1>1, <2>1 DEF Recounted
<1>4. /\ n > 0 => r = s1
      /\ n = 0 /\ a = "SUSPENDED" => r = ready_list_add(To("RDY"), u)
      /\ n = 0 /\ a = "SLEEP_SUSPENDED" => r = To("SLEEP")
      /\ n = 0 /\ a = "PEND_SUSPENDED" => r = To("PEND")
  <2> HIDE DEF To, n
  <2>1. CASE n > 0
    BY <1>3, <2>1 DEF task_resume
  <2>2. CASE n = 0
    <3>1. ~(s1.suspend_count[u] > 0)
      BY <1>3, <2>2
    <3> HIDE DEF s1
    <3>2. QED
      BY <2>2, <3>1 DEF task_resume, To, s1
  <2>3. QED
    BY <1>1, <2>1, <2>2
<1> HIDE DEF s1, r, To
<1>5. CASE n > 0
  <2>1. Recounted(r, s, u, a, n)
    BY <1>3, <1>4, <1>5
  <2>2. Core(r) /\ Resuspended(r, s, u) /\ Ready(r) = Ready(s) /\ r.suspend_count[u] = n
    <3>1. a = "RDY" <=> s.task_state[u] = "RDY"
      OBVIOUS
    <3>2. Alike(s.task_state[u], a)
      BY DEF Alike
    <3> HIDE DEF a, n
    <3>3. QED
      BY <1>1, <1>5, <2>1, <3>1, <3>2, CountedOnly
  <2>3. QED
    BY <2>2 DEF r
<1>6. CASE n = 0 /\ a = "SUSPENDED"
  <2> DEFINE s2 == To("RDY")
  <2>1. r = ready_list_add(s2, u)
    BY <1>4, <1>6
  <2>2. /\ Keeps(s2, s, {"task_state", "suspend_count"})
        /\ s2.task_state = [s.task_state EXCEPT ![u] = "RDY"]
        /\ s2.suspend_count = [s.suspend_count EXCEPT ![u] = n]
    BY <1>2 DEF TaskState, Recounted
  <2> HIDE DEF s2
  <2>3. /\ s2.task_state \in [AllTask -> TaskState] /\ s2.suspend_count \in [AllTask -> Nat]
        /\ Moves(s2, s, u, "RDY") /\ s2.suspend_count[u] = n
        /\ \A t \in AllTask \ {u} : s2.suspend_count[t] = s.suspend_count[t]
    BY <1>1, <2>2 DEF TaskState, Moves
  <2>4. /\ Typed(s2)
        /\ s2.ready = s.ready /\ s2.highest_pri = s.highest_pri /\ s2.blk_list = s.blk_list
        /\ s2.prio = s.prio /\ s2.blk_obj = s.blk_obj
    BY <1>1, <2>2, <2>3 DEF Typed, Keeps, Fields
  <2>5. u \notin Ready(s) /\ u \notin Waiting(s)
    BY <1>6 DEF Ready, Waiting, Pended
  <2>6. /\ Queues(r) /\ Keeps(r, s2, {"ready", "highest_pri"})
        /\ Moves(r, s, u, "RDY")
    BY <1>1, <2>1, <2>3, <2>4, <2>5, GetsReady
  <2>7. Keeps(r, s, {"ready", "highest_pri", "task_state", "suspend_count"})
    BY <2>2, <2>6 DEF Keeps, Fields
  <2>8. r.suspend_count = s2.suspend_count /\ r.tick_list = s.tick_list
    BY <2>2, <2>6 DEF Keeps, Fields
  <2>9. /\ r.task_state[u] = "RDY"
        /\ \A t \in AllTask \ {u} : r.task_state[t] = s.task_state[t]
    BY <2>6 DEF Moves
  <2>10. Waiting(r) = Waiting(s) /\ Sleeping(r) = Sleeping(s) /\ LiveIn(r) = LiveIn(s)
    <3>1. Alike(s.task_state[u], r.task_state[u])
      BY <1>6, <2>9 DEF Alike, Pended
    <3>2. QED
      BY <2>9, <3>1, AlikeSets
  <2>11. Resuspended(r, s, u)
    BY <2>3, <2>7, <2>8, <2>9, <2>10 DEF Resuspended, Suspended
  <2>12. Ticks(r, Sleeping(r), Waiting(r))
    BY <2>8, <2>10 DEF Core, Ticks
  <2>13. \A t \in Ready(s) : t \in Ready(r)
    BY <2>9 DEF Ready
  <2>14. QED
    BY <2>3, <2>6, <2>8, <2>11, <2>12, <2>13 DEF Core, r
<1>7. CASE n = 0 /\ a = "SLEEP_SUSPENDED"
  <2>1. Recounted(r, s, u, "SLEEP", n)
    BY <1>2, <1>4, <1>7 DEF TaskState
  <2>2. Core(r) /\ Resuspended(r, s, u) /\ Ready(r) = Ready(s) /\ r.suspend_count[u] = n
    <3>1. /\ "SLEEP" \in TaskState /\ "SLEEP" \notin Suspended
          /\ "SLEEP" = "RDY" <=> s.task_state[u] = "RDY"
          /\ Alike(s.task_state[u], "SLEEP")
      BY <1>7 DEF TaskState, Alike, Pended, Suspended
    <3> HIDE DEF n
    <3>2. QED
      BY <1>1, <2>1, <3>1, CountedOnly
  <2>3. QED
    BY <2>2 DEF r
<1>8. CASE n = 0 /\ a = "PEND_SUSPENDED"
  <2>1. Recounted(r, s, u, "PEND", n)
    BY <1>2, <1>4, <1>8 DEF TaskState
  <2>2. Core(r) /\ Resuspended(r, s, u) /\ Ready(r) = Ready(s) /\ r.suspend_count[u] = n
    <3>1. /\ "PEND" \in TaskState /\ "PEND" \notin Suspended
          /\ "PEND" = "RDY" <=> s.task_state[u] = "RDY"
          /\ Alike(s.task_state[u], "PEND")
      BY <1>8 DEF TaskState, Alike, Pended, Suspended
    <3> HIDE DEF n
    <3>2. QED
      BY <1>1, <2>1, <3>1, CountedOnly
  <2>3. QED
    BY <2>2 DEF r
<1>9. n = 0 \/ n > 0
  BY <1>1
<1>10. QED
  BY <1>5, <1>6, <1>7, <1>8, <1>9 DEF Suspended
-----------------------------------------------------------------------------
(***************************************************************************)
(* Priority inheritance.                                                   *)
(***************************************************************************)

\* The smallest of b and the priorities of the first waiters is the smallest of
\* b and the priorities of all lenders: mutex_pri_limit and mutex_pri_look.
LEMMA LeastOfWaiters ==
  ASSUME NEW s, Queues(s), NEW t \in AllTask, Holds(s, t), NEW b \in Prio
  PROVE  LET p == Min({b} \cup WaiterPrios(s, t))
         IN /\ p \in Prio /\ p <= b /\ \A u \in Lenders(s, t) : p <= s.prio[u]
            /\ p = b \/ \E u \in Lenders(s, t) : s.prio[u] = p
<1> DEFINE W == {n \in ToSet(s.mutex_list[t]) : s.blk_list[n] # <<>>}
           A == {b} \cup WaiterPrios(s, t)
           p == Min(A)
<1>1. /\ Typed(s) /\ Blocks(s, Waiting(s)) /\ s.prio \in [AllTask -> Prio]
      /\ s.mutex_list[t] \in Seq(Mutex) /\ s.prio \in [AllTask -> Nat]
  BY PrioFacts DEF Queues, Typed
<1>2. ToSet(s.mutex_list[t]) \subseteq Mutex
  BY <1>1, InList
<1>3. WaiterPrios(s, t) = {s.prio[Head(s.blk_list[m])] : m \in W}
  BY DEF WaiterPrios
<1>4. ASSUME NEW m \in W
      PROVE  /\ m \in Mutex /\ m \in ToSet(s.mutex_list[t]) /\ s.blk_list[m] # <<>>
             /\ Head(s.blk_list[m]) \in Lenders(s, t)
             /\ \A u \in ToSet(s.blk_list[m]) : s.prio[Head(s.blk_list[m])] <= s.prio[u]
  <2>1. m \in Mutex /\ m \in Object /\ m \in ToSet(s.mutex_list[t]) /\ s.blk_list[m] # <<>>
    BY <1>2 DEF Object
  <2>2. IsList(s.blk_list[m], AllTask) /\ SortedBy(s.blk_list[m], s.prio)
    BY <1>1, <2>1 DEF Blocks
  <2>3. /\ Head(s.blk_list[m]) \in ToSet(s.blk_list[m])
        /\ \A u \in ToSet(s.blk_list[m]) : s.prio[Head(s.blk_list[m])] <= s.prio[u]
    BY <1>1, <2>1, <2>2, HeadIsLeast
  <2>4. Head(s.blk_list[m]) \in AllTask
    <3>1. s.blk_list[m] \in Seq(AllTask)
      BY <2>2 DEF IsList
    <3>2. QED
      BY <2>3, <3>1, InList
  <2>5. Head(s.blk_list[m]) \in Waiting(s) /\ s.blk_obj[Head(s.blk_list[m])] = m
    BY <1>1, <2>1, <2>3, <2>4 DEF Blocks
  <2>6. m \in s.obj_type /\ s.mutex_task[m] = t
    BY <2>1 DEF Holds
  <2>7. QED
    BY <2>1, <2>3, <2>4, <2>5, <2>6 DEF Lenders, IsMutex
<1>5. \A m \in W : s.prio[Head(s.blk_list[m])] \in Prio
  BY <1>1, <1>4 DEF Lenders
<1>6. A \subseteq Prio /\ A \subseteq Nat /\ A # {}
  BY <1>3, <1>5, PrioFacts
<1> HIDE DEF A, W
<1>7. p \in A /\ \A a \in A : p <= a
  BY <1>6, MinFacts
<1> HIDE DEF p
<1>8. p \in Prio /\ p <= b /\ p \in Nat
  BY <1>6, <1>7 DEF A
<1>9. ASSUME NEW u \in Lenders(s, t) PROVE p <= s.prio[u]
  <2> DEFINE m == s.blk_obj[u]
  <2>1. /\ u \in AllTask /\ u \in Waiting(s) /\ m \in Mutex /\ m \in s.obj_type
        /\ s.mutex_task[m] = t
    BY DEF Lenders, IsMutex
  <2>2. u \in ToSet(s.blk_list[m]) /\ s.blk_list[m] \in Seq(AllTask)
    BY <1>1, <2>1 DEF Blocks, Object, Typed
  <2>3. m \in W
    <3>1. m \in ToSet(s.mutex_list[t])
      BY <2>1 DEF Holds
    <3>2. s.blk_list[m] # <<>>
      BY <2>2, InList
    <3>3. QED
      BY <3>1, <3>2 DEF W
  <2>4. s.prio[Head(s.blk_list[m])] \in A
    BY <1>3, <2>3 DEF A
  <2>5. s.prio[Head(s.blk_list[m])] <= s.prio[u]
    BY <1>4, <2>2, <2>3
  <2>6. p <= s.prio[Head(s.blk_list[m])]
    BY <1>7, <2>4
  <2>7. s.prio[Head(s.blk_list[m])] \in Nat /\ s.prio[u] \in Nat
    BY <1>1, <1>6, <2>1, <2>4
  <2>8. QED
    BY <1>8, <2>5, <2>6, <2>7
<1>10. p = b \/ \E u \in Lenders(s, t) : s.prio[u] = p
  <2>1. CASE p \in WaiterPrios(s, t)
    <3>1. PICK m \in W : p = s.prio[Head(s.blk_list[m])]
      BY <1>3, <2>1
    <3>2. QED
      BY <1>4, <3>1
  <2>2. QED
    BY <1>7, <2>1 DEF A
<1>11. QED
  BY <1>8, <1>9, <1>10 DEF p, A

LEMMA LookDue ==
  ASSUME NEW s, Queues(s), NEW t \in AllTask, Holds(s, t)
  PROVE  mutex_pri_look(s, t) \in Prio /\ Due(s, s.b_prio, t, mutex_pri_look(s, t))
<1>1. s.b_prio[t] \in Prio
  BY DEF Queues, Typed
<1>2. QED
  BY <1>1, LeastOfWaiters DEF mutex_pri_look, Due

\* Only the priority of t has changed, and t's place on the list it is on.
Repri(r, s, t, p) ==
  /\ Core(r)
  /\ Keeps(r, s, {"prio", "ready", "highest_pri", "blk_list"})
  /\ r.prio = [s.prio EXCEPT ![t] = p]
  /\ t \in Ready(s) => r.blk_list = s.blk_list

\* What Repri leaves to show.
LEMMA Reprioritised ==
  ASSUME NEW s, Core(s), NEW t \in AllTask, NEW p \in Prio, NEW r, Typed(r),
         Keeps(r, s, {"prio", "ready", "highest_pri", "blk_list"}),
         r.prio = [s.prio EXCEPT ![t] = p],
         Rings(r, Ready(s)), Blocks(r, Waiting(s)),
         t \in Ready(s) => r.blk_list = s.blk_list
  PROVE  Repri(r, s, t, p)
<1>1. r.task_state = s.task_state /\ r.blk_obj = s.blk_obj /\ r.tick_list = s.tick_list
  BY DEF Keeps, Fields
<1>2. Ready(r) = Ready(s) /\ Waiting(r) = Waiting(s) /\ Sleeping(r) = Sleeping(s)
  BY <1>1 DEF Ready, Waiting, Sleeping
<1>3. Queues(r)
  BY <1>1, <1>2 DEF Core, Queues
<1>4. Ticks(r, Sleeping(r), Waiting(r))
  BY <1>1, <1>2 DEF Core, Ticks
<1>5. QED
  BY <1>3, <1>4 DEF Repri, Core

LEMMA ReprioritisedReady ==
  ASSUME NEW s, Core(s), NEW t \in Ready(s), t # Idle, NEW p \in Prio,
         NEW r, LET moved == [ready_list_rm(s, t) EXCEPT !.prio[t] = p]
                IN r \in {ready_list_add_head(moved, t), ready_list_add_tail(moved, t)}
  PROVE  Repri(r, s, t, p)
<1> DEFINE s1 == ready_list_rm(s, t)
           s2 == [s1 EXCEPT !.prio[t] = p]
<1>1. /\ Typed(s) /\ Rings(s, Ready(s)) /\ Blocks(s, Waiting(s)) /\ Idle \in Ready(s)
  BY DEF Core, Queues
<1>2. t \in AllTask /\ Ready(s) \subseteq AllTask
  BY DEF Ready
<1>3. t \notin Waiting(s) /\ Waiting(s) \subseteq AllTask
  BY DEF Ready, Waiting, Pended
<1>4. Typed(s1) /\ Rings(s1, Ready(s) \ {t}) /\ Keeps(s1, s, {"ready", "highest_pri"})
  <2>1. Ready(s) \ {t} # {}
    BY <1>1
  <2>2. QED
    BY <1>1, <1>2, <2>1, ReadyRemoved
<1> HIDE DEF s1
<1>5. /\ s1.prio = s.prio /\ s1.blk_list = s.blk_list /\ s1.blk_obj = s.blk_obj
  BY <1>4 DEF Keeps, Fields
<1>6. Keeps(s2, s1, {"prio"}) /\ s2.prio = [s.prio EXCEPT ![t] = p]
  BY <1>4, <1>5 DEF Typed, IsK, Keeps, Fields
<1>7. r \in {ready_list_add_head(s2, t), ready_list_add_tail(s2, t)}
  BY DEF s1
<1> HIDE DEF s2
<1>8. s2.prio \in [AllTask -> Prio] /\ \A u \in AllTask \ {t} : s2.prio[u] = s.prio[u]
  BY <1>1, <1>2, <1>6 DEF Typed
<1>9. /\ Typed(s2) /\ s2.ready = s1.ready /\ s2.highest_pri = s1.highest_pri
      /\ s2.blk_list = s.blk_list /\ s2.blk_obj = s.blk_obj
  BY <1>4, <1>5, <1>6, <1>8 DEF Typed, Keeps, Fields
<1>10. Rings(s2, Ready(s) \ {t})
  BY <1>2, <1>4, <1>5, <1>8, <1>9, RingsKept
<1>11. /\ Typed(r) /\ Rings(r, (Ready(s) \ {t}) \cup {t})
       /\ Keeps(r, s2, {"ready", "highest_pri"})
  BY <1>2, <1>7, <1>9, <1>10, ReadyListAdd
<1>12. (Ready(s) \ {t}) \cup {t} = Ready(s)
  OBVIOUS
<1>13. /\ r.blk_list = s.blk_list /\ r.blk_obj = s.blk_obj /\ r.prio = s2.prio
       /\ Keeps(r, s, {"prio", "ready", "highest_pri", "blk_list"})
  BY <1>4, <1>6, <1>9, <1>11 DEF Keeps, Fields
<1>14. Blocks(r, Waiting(s))
  <2>1. \A u \in Waiting(s) : r.prio[u] = s.prio[u] /\ r.blk_obj[u] = s.blk_obj[u]
    BY <1>3, <1>8, <1>13
  <2>2. QED
    BY <1>1, <1>13, <2>1, BlocksKept
<1>15. QED
  BY <1>2, <1>6, <1>11, <1>12, <1>13, <1>14, Reprioritised

LEMMA ReprioritisedOff ==
  ASSUME NEW s, Core(s), NEW t \in AllTask, t \notin Ready(s), t \notin Waiting(s), NEW p \in Prio
  PROVE  Repri([s EXCEPT !.prio[t] = p], s, t, p)
<1> DEFINE r == [s EXCEPT !.prio[t] = p]
<1>1. /\ Typed(s) /\ Rings(s, Ready(s)) /\ Blocks(s, Waiting(s))
      /\ Ready(s) \subseteq AllTask /\ Waiting(s) \subseteq AllTask
  BY DEF Core, Queues, Ready, Waiting
<1>2. Keeps(r, s, {"prio"}) /\ r.prio = [s.prio EXCEPT ![t] = p]
  BY <1>1 DEF Typed, IsK, Keeps, Fields
<1> HIDE DEF r
<1>3. r.prio \in [AllTask -> Prio] /\ \A u \in AllTask \ {t} : r.prio[u] = s.prio[u]
  BY <1>1, <1>2 DEF Typed
<1>4. /\ Typed(r) /\ Keeps(r, s, {"prio", "ready", "highest_pri", "blk_list"})
      /\ r.ready = s.ready /\ r.highest_pri = s.highest_pri /\ r.blk_list = s.blk_list
      /\ r.blk_obj = s.blk_obj
  BY <1>1, <1>2, <1>3 DEF Typed, Keeps, Fields
<1>5. Rings(r, Ready(s))
  BY <1>1, <1>3, <1>4, RingsKept
<1>6. Blocks(r, Waiting(s))
  BY <1>1, <1>3, <1>4, BlocksKept
<1>7. Repri(r, s, t, p)
  BY <1>2, <1>4, <1>5, <1>6, Reprioritised
<1>8. QED
  BY <1>7 DEF r

LEMMA ReprioritisedWaiting ==
  ASSUME NEW s, Core(s), NEW t \in Waiting(s), NEW p \in Prio
  PROVE  Repri(pend_list_reorder([s EXCEPT !.prio[t] = p], t), s, t, p)
<1> DEFINE r == pend_list_reorder([s EXCEPT !.prio[t] = p], t)
<1>1. /\ Typed(s) /\ Rings(s, Ready(s)) /\ Blocks(s, Waiting(s))
      /\ s.blk_obj[t] \in Object
  BY DEF Core, Queues
<1>2. t \in AllTask /\ t \notin Ready(s) /\ Ready(s) \subseteq AllTask
  BY DEF Ready, Waiting, Pended
<1>3. /\ Typed(r) /\ Blocks(r, Waiting(s)) /\ Keeps(r, s, {"prio", "blk_list"})
      /\ r.prio = [s.prio EXCEPT ![t] = p]
  BY <1>1, <1>2, PendListReordered
<1> HIDE DEF r
<1>4. /\ Keeps(r, s, {"prio", "ready", "highest_pri", "blk_list"})
      /\ r.ready = s.ready /\ r.highest_pri = s.highest_pri
  BY <1>3 DEF Keeps, Fields
<1>5. Rings(r, Ready(s))
  <2>1. \A u \in Ready(s) : r.prio[u] = s.prio[u]
    BY <1>1, <1>2, <1>3 DEF Typed
  <2>2. QED
    BY <1>1, <1>4, <2>1, RingsKept
<1>6. Repri(r, s, t, p)
  BY <1>2, <1>3, <1>4, <1>5, Reprioritised
<1>7. QED
  BY <1>6 DEF r

\* One round of task_pri_change on a task whose priority is to change.
NextRound(r, s, t, p) ==
  LET owner == s.mutex_task[s.blk_obj[t]]
      look  == mutex_pri_look(r, owner)
  IN IF t \notin Waiting(s) \/ ~IsMutex(s, s.blk_obj[t])
       THEN Round(r, None, p)
     ELSE IF r.prio[owner] > p THEN Round(r, owner, p)
     ELSE IF r.prio[owner] = s.prio[t] /\ look # r.prio[owner]
       THEN Round(r, owner, look)
     ELSE Round(r, None, p)

LEMMA RoundFields ==
  ASSUME NEW s, NEW t, NEW p
  PROVE  Round(s, t, p).s = s /\ Round(s, t, p).task = t /\ Round(s, t, p).new_pri = p
BY DEF Round

LEMMA OneRound ==
  ASSUME NEW s, Core(s), NEW t \in LiveIn(s), t # Idle, NEW p \in Prio, s.prio[t] # p
  PROVE  \E r : /\ Repri(r, s, t, p)
                /\ PriChangeRound(Round(s, t, p)) = NextRound(r, s, t, p)
<1> DEFINE c     == Round(s, t, p)
           set   == [s EXCEPT !.prio[t] = p]
           moved == [ready_list_rm(s, t) EXCEPT !.prio[t] = p]
           re    == pend_list_reorder(set, t)
           ready == IF t = s.active THEN ready_list_add_head(moved, t)
                                    ELSE ready_list_add_tail(moved, t)
           owner == s.mutex_task[s.blk_obj[t]]
           look  == mutex_pri_look(re, owner)
           Off(r) == Round(r, None, p)
<1>1. t \in AllTask /\ t # None /\ s.task_state[t] \in TaskState /\ s.task_state[t] # "DELETED"
  BY CoreAssumption DEF LiveIn, AllTask, Core, Queues, Typed
<1>c. c = Round(s, t, p)
  OBVIOUS
<1> HIDE DEF set, moved, re, ready, owner, look, c
<1>2. c.s = s /\ c.task = t /\ c.new_pri = p
  BY <1>c, RoundFields
<1> HIDE DEF Off
<1>5. CASE s.task_state[t] = "RDY"
  <2>1. PriChangeRound(c) = Off(ready)
    BY <1>1, <1>2, <1>5 DEF PriChangeRound, moved, ready, Pended, Off
  <2>2. t \in Ready(s) /\ t \notin Waiting(s)
    BY <1>1, <1>5 DEF Ready, Waiting, Pended
  <2>3. Repri(ready, s, t, p)
    BY <2>2, ReprioritisedReady DEF moved, ready
  <2>4. NextRound(ready, s, t, p) = Off(ready)
    BY <2>2 DEF NextRound, Off
  <2>5. QED
    BY <2>1, <2>3, <2>4 DEF c
<1>6. CASE s.task_state[t] \in {"SLEEP", "SUSPENDED", "SLEEP_SUSPENDED"}
  <2>1. PriChangeRound(c) = Off(set)
    BY <1>1, <1>2, <1>6 DEF PriChangeRound, set, Pended, Off
  <2>2. t \notin Ready(s) /\ t \notin Waiting(s)
    BY <1>1, <1>6 DEF Ready, Waiting, Pended
  <2>3. Repri(set, s, t, p)
    BY <1>1, <2>2, ReprioritisedOff DEF set
  <2>4. NextRound(set, s, t, p) = Off(set)
    BY <2>2 DEF NextRound, Off
  <2>5. QED
    BY <2>1, <2>3, <2>4 DEF c
<1>7. CASE s.task_state[t] \in Pended
  <2>1. t \in Waiting(s)
    BY <1>1, <1>7 DEF Waiting
  <2>2. Repri(re, s, t, p)
    BY <2>1, ReprioritisedWaiting DEF re, set
  <2>3. /\ s.task_state[t] # "RDY"
        /\ s.task_state[t] \notin {"SLEEP", "SUSPENDED", "SLEEP_SUSPENDED"}
    BY <1>7 DEF Pended
  <2>4. CASE ~IsMutex(s, s.blk_obj[t])
    <3>1. PriChangeRound(c) = Off(re)
      BY <1>1, <1>2, <1>7, <2>3, <2>4 DEF PriChangeRound, re, set, Off
    <3>2. NextRound(re, s, t, p) = Off(re)
      BY <2>4 DEF NextRound, Off
    <3>3. QED
      BY <2>2, <3>1, <3>2 DEF c
  <2>5. CASE IsMutex(s, s.blk_obj[t])
    <3>1. PriChangeRound(c) =
            IF re.prio[owner] > p
              THEN Round(re, owner, p)
            ELSE IF re.prio[owner] = s.prio[t] /\ look # re.prio[owner]
              THEN Round(re, owner, look)
            ELSE Off(re)
      BY <1>1, <1>2, <1>7, <2>3, <2>5 DEF PriChangeRound, re, set, owner, look, Off
    <3>2. NextRound(re, s, t, p) =
            IF re.prio[owner] > p
              THEN Round(re, owner, p)
            ELSE IF re.prio[owner] = s.prio[t] /\ look # re.prio[owner]
              THEN Round(re, owner, look)
            ELSE Off(re)
      BY <2>1, <2>5 DEF NextRound, Off, owner, look
    <3>3. PriChangeRound(c) = NextRound(re, s, t, p)
      BY <3>1, <3>2
    <3>4. QED
      BY <2>2, <3>3 DEF c
  <2>6. QED
    BY <2>4, <2>5
<1>8. QED
  BY <1>1, <1>5, <1>6, <1>7 DEF TaskState, Pended

\* A round without a task changes nothing, and a task that has the priority
\* already ends the loop.
LEMMA LastRounds ==
  ASSUME NEW s, NEW t, NEW p
  PROVE  /\ LET c == Round(s, None, p) IN PriChangeRound(c) = c
         /\ t # None /\ s.prio[t] = p =>
              PriChangeRound(Round(s, t, p)) =
                Round(s, None, p)
<1> DEFINE c == Round(s, t, p)
           d == Round(s, None, p)
<1>1. PriChangeRound(d) = d
  BY DEF PriChangeRound, Round
<1>c. c = Round(s, t, p) /\ d = Round(s, None, p)
  OBVIOUS
<1> HIDE DEF c, d
<1>2. c.s = s /\ c.task = t /\ c.new_pri = p
  BY <1>c, RoundFields
<1>3. t # None /\ s.prio[t] = p => PriChangeRound(c) = d
  BY <1>2, <1>c DEF PriChangeRound
<1>4. QED
  BY <1>1, <1>3 DEF c, d
-----------------------------------------------------------------------------
(***************************************************************************)
(* The loop of task_pri_change.                                            *)
(***************************************************************************)

\* The owners that priorities are lent to exist, and nobody waits for himself.
Chain(s) ==
  /\ \A t \in AllTask : Holds(s, t)
  /\ \A u \in Waiting(s) : IsMutex(s, s.blk_obj[u]) =>
       s.mutex_task[s.blk_obj[u]] \in LiveIn(s) \ {Idle, u}

\* Priorities have changed, and the places on lists that follow from them.
Settling(r, s) == Core(r) /\ Keeps(r, s, {"prio", "ready", "highest_pri", "blk_list"})

LEMMA SameLenders ==
  ASSUME NEW s, NEW r, Keeps(r, s, {"prio", "ready", "highest_pri", "blk_list"})
  PROVE  /\ \A x : Lenders(r, x) = Lenders(s, x)
         /\ LiveIn(r) = LiveIn(s) /\ Waiting(r) = Waiting(s) /\ Ready(r) = Ready(s)
         /\ Chain(s) => Chain(r)
         /\ r.blk_obj = s.blk_obj /\ r.mutex_task = s.mutex_task /\ r.b_prio = s.b_prio
         /\ \A o : IsMutex(r, o) <=> IsMutex(s, o)
<1>1. /\ r.task_state = s.task_state /\ r.blk_obj = s.blk_obj /\ r.obj_type = s.obj_type
      /\ r.mutex_task = s.mutex_task /\ r.mutex_list = s.mutex_list /\ r.b_prio = s.b_prio
  BY DEF Keeps, Fields
<1>2. LiveIn(r) = LiveIn(s) /\ Waiting(r) = Waiting(s) /\ Ready(r) = Ready(s)
  BY <1>1 DEF LiveIn, Waiting, Ready
<1>3. \A o : IsMutex(r, o) <=> IsMutex(s, o)
  BY <1>1 DEF IsMutex
<1>4. ASSUME NEW x PROVE Lenders(r, x) = Lenders(s, x)
  BY <1>1, <1>2, <1>3 DEF Lenders
<1>5. \A t \in AllTask : Holds(s, t) => Holds(r, t)
  BY <1>1 DEF Holds
<1>6. Chain(s) => Chain(r)
  BY <1>1, <1>2, <1>3, <1>5 DEF Chain
<1>7. QED
  BY <1>1, <1>2, <1>3, <1>4, <1>6

\* What task x is due does not depend on the priority of a task that lends
\* it nothing.
LEMMA DueElsewhere ==
  ASSUME NEW s, NEW r, NEW base, NEW x, NEW q, Due(s, base, x, q),
         Lenders(r, x) = Lenders(s, x), \A u \in Lenders(s, x) : r.prio[u] = s.prio[u]
  PROVE  Due(r, base, x, q)
BY DEF Due

\* A task that is of higher priority than new_pri, or of the old one, and that
\* the loop has not come to.
Unvisited(s, t, p) ==
  {u \in Task : IF p < s.prio[t] THEN p < s.prio[u] ELSE s.prio[u] = s.prio[t]}

\* The priorities that a rise to p0 leaves alone.
Left(s, s0, p0) == \A u \in AllTask : s0.prio[u] <= p0 => s.prio[u] = s0.prio[u]

\* The loop that started as task_pri_change(s0, t0, p0) is to give t the
\* priority p; the priorities rise all along or they fall all along.
On(s, t, p, s0, t0, p0, base) ==
  /\ Settling(s, s0)
  /\ t \in LiveIn(s0) \ {Idle} /\ p \in Prio
  /\ IF p0 < s0.prio[t0]
       THEN p = p0 /\ p < s.prio[t] /\ Left(s, s0, p0)
       ELSE s.prio[t] < p /\ base = s0.b_prio
  /\ Due(s, base, t, p) /\ Inherit(s, base, t)

\* The loop has ended.
Off(s, s0, t0, p0, base) ==
  /\ Settling(s, s0) /\ Inherit(s, base, None)
  /\ p0 < s0.prio[t0] => Left(s, s0, p0)

\* What a new priority of t means for the others.
LEMMA OthersDue ==
  ASSUME NEW s, NEW r, NEW t, NEW p, NEW base, Repri(r, s, t, p), Typed(s), Chain(s),
         t \in LiveIn(s), p \in Prio,
         Due(s, base, t, p), Inherit(s, base, t)
  PROVE  /\ Due(r, base, t, r.prio[t])
         /\ \A x \in LiveIn(s) \ {t} : t \notin Lenders(s, x) => Due(r, base, x, r.prio[x])
         /\ r.prio[t] = p /\ \A u \in AllTask \ {t} : r.prio[u] = s.prio[u]
<1>1. /\ Keeps(r, s, {"prio", "ready", "highest_pri", "blk_list"})
      /\ r.prio = [s.prio EXCEPT ![t] = p]
  BY DEF Repri
<1>2. t \in AllTask
  BY DEF LiveIn
<1>3. s.prio \in [AllTask -> Prio]
  BY DEF Typed
<1>4. r.prio[t] = p /\ \A u \in AllTask \ {t} : r.prio[u] = s.prio[u]
  BY <1>1, <1>2, <1>3
<1>5. \A x : Lenders(r, x) = Lenders(s, x)
  BY <1>1, SameLenders
<1>6. t \notin Lenders(s, t)
  BY DEF Lenders, Chain
<1>7. \A x : \A u \in Lenders(s, x) : u \in AllTask
  BY DEF Lenders
<1>8. Due(r, base, t, r.prio[t])
  BY <1>4, <1>5, <1>6, <1>7, DueElsewhere
<1>9. ASSUME NEW x \in LiveIn(s) \ {t}, t \notin Lenders(s, x) PROVE Due(r, base, x, r.prio[x])
  <2>1. Due(s, base, x, s.prio[x]) /\ x \in AllTask
    BY <1>9 DEF Inherit, LiveIn
  <2>2. \A u \in Lenders(s, x) : r.prio[u] = s.prio[u]
    BY <1>4, <1>7, <1>9
  <2>3. QED
    BY <1>4, <1>5, <2>1, <2>2, <1>9, DueElsewhere
<1>10. QED
  BY <1>4, <1>8, <1>9

\* The owner of the mutex that t waits for, after t's priority has become p.
LEMMA OwnerDue ==
  ASSUME NEW s, NEW r, NEW t \in AllTask, NEW p \in Prio, NEW base, NEW o \in AllTask, o # t,
         s.prio \in [AllTask -> Prio], r.prio \in [AllTask -> Prio], base \in [AllTask -> Prio],
         r.prio[t] = p, \A u \in AllTask \ {t} : r.prio[u] = s.prio[u],
         \A x : Lenders(r, x) = Lenders(s, x),
         t \in Lenders(s, o), Due(s, base, o, s.prio[o])
  PROVE  /\ p < r.prio[o] => Due(r, base, o, p)
         /\ r.prio[o] <= p /\ r.prio[o] # s.prio[t] => Due(r, base, o, r.prio[o])
         /\ \A l \in Prio : Due(r, base, o, l) /\ s.prio[t] < p /\ r.prio[o] = s.prio[t]
              => r.prio[o] <= l
<1>1. /\ s.prio[o] \in Nat /\ r.prio[o] = s.prio[o] /\ base[o] \in Nat /\ p \in Nat
      /\ s.prio[t] \in Nat
  BY PrioFacts
<1>2. \A u \in Lenders(s, o) : u \in AllTask /\ s.prio[u] \in Nat /\ r.prio[u] \in Nat
  BY PrioFacts DEF Lenders
<1>3. /\ s.prio[o] <= base[o] /\ \A u \in Lenders(s, o) : s.prio[o] <= s.prio[u]
      /\ s.prio[o] = base[o] \/ \E u \in Lenders(s, o) : s.prio[u] = s.prio[o]
  BY DEF Due
<1>4. Lenders(r, o) = Lenders(s, o)
  OBVIOUS
<1>5. p < r.prio[o] => Due(r, base, o, p)
  <2> SUFFICES ASSUME p < r.prio[o] PROVE Due(r, base, o, p)
    OBVIOUS
  <2>1. p <= base[o]
    BY <1>1, <1>3
  <2>2. \A u \in Lenders(s, o) : p <= r.prio[u]
    BY <1>1, <1>2, <1>3
  <2>3. QED
    BY <1>4, <2>1, <2>2 DEF Due
<1>6. r.prio[o] <= p /\ r.prio[o] # s.prio[t] => Due(r, base, o, r.prio[o])
  <2> SUFFICES ASSUME r.prio[o] <= p, r.prio[o] # s.prio[t] PROVE Due(r, base, o, r.prio[o])
    OBVIOUS
  <2>1. \A u \in Lenders(s, o) : r.prio[o] <= r.prio[u]
    BY <1>1, <1>2, <1>3
  <2>2. r.prio[o] = base[o] \/ \E u \in Lenders(s, o) : r.prio[u] = r.prio[o]
    BY <1>1, <1>2, <1>3
  <2>3. QED
    BY <1>1, <1>3, <1>4, <2>1, <2>2 DEF Due
<1>7. ASSUME NEW l \in Prio, Due(r, base, o, l), s.prio[t] < p, r.prio[o] = s.prio[t]
      PROVE  r.prio[o] <= l
  <2>1. l \in Nat /\ (l = base[o] \/ \E u \in Lenders(s, o) : r.prio[u] = l)
    BY <1>4, <1>7, PrioFacts DEF Due
  <2>2. \A u \in Lenders(s, o) : r.prio[o] <= r.prio[u]
    BY <1>1, <1>2, <1>3, <1>7
  <2>3. QED
    BY <1>1, <1>3, <2>1, <2>2
<1>8. QED
  BY <1>5, <1>6, <1>7

\* What a round on task t leaves: the end, or one task less to come to.
Onward(c, s, t, p, s0, t0, p0, base) ==
  \E r, t1, p1 :
    /\ c = Round(r, t1, p1)
    /\ \/ t1 = None /\ Off(r, s0, t0, p0, base)
       \/ /\ On(r, t1, p1, s0, t0, p0, base)
          /\ Unvisited(r, t1, p1) \subseteq Unvisited(s, t, p) \ {t}

LEMMA RoundSettles ==
  ASSUME NEW s0, Chain(s0), NEW t0, NEW p0, p0 \in Prio, s0.prio[t0] \in Prio,
         NEW base \in [AllTask -> Prio],
         NEW s, NEW t, NEW p, On(s, t, p, s0, t0, p0, base)
  PROVE  Onward(PriChangeRound(Round(s, t, p)), s, t, p, s0, t0, p0, base)
<1> DEFINE o == s.mutex_task[s.blk_obj[t]]
<1>1. /\ Core(s) /\ Keeps(s, s0, {"prio", "ready", "highest_pri", "blk_list"})
      /\ Due(s, base, t, p) /\ Inherit(s, base, t)
  BY DEF On, Settling
<1>2. /\ LiveIn(s) = LiveIn(s0) /\ Chain(s) /\ s.b_prio = s0.b_prio
  BY <1>1, SameLenders
<1>3. t \in LiveIn(s) /\ t # Idle /\ p \in Prio
  BY <1>2 DEF On
<1>4. t \in AllTask /\ t \in Task
  BY <1>3 DEF LiveIn, AllTask
<1>5. Typed(s) /\ s.prio \in [AllTask -> Prio] /\ s.prio[t] \in Nat /\ p \in Nat /\ p0 \in Nat
  BY <1>1, <1>3, <1>4, PrioFacts DEF Core, Queues, Typed
<1>6. s.prio[t] # p
  BY <1>5 DEF On
<1>7. PICK r : Repri(r, s, t, p) /\ PriChangeRound(Round(s, t, p)) = NextRound(r, s, t, p)
  BY <1>1, <1>3, <1>6, OneRound
<1>8. /\ Core(r) /\ Keeps(r, s, {"prio", "ready", "highest_pri", "blk_list"})
      /\ r.prio \in [AllTask -> Prio]
  BY <1>7 DEF Repri, Core, Queues, Typed
<1>9. Settling(r, s0)
  BY <1>1, <1>8 DEF Settling, Keeps
<1>10. /\ Due(r, base, t, r.prio[t])
       /\ \A x \in LiveIn(s) \ {t} : t \notin Lenders(s, x) => Due(r, base, x, r.prio[x])
       /\ r.prio[t] = p /\ \A u \in AllTask \ {t} : r.prio[u] = s.prio[u]
  BY <1>1, <1>2, <1>3, <1>5, <1>7, OthersDue
<1>11. /\ \A x : Lenders(r, x) = Lenders(s, x)
       /\ LiveIn(r) = LiveIn(s) /\ Chain(r) /\ r.b_prio = s0.b_prio
  BY <1>2, <1>8, SameLenders
<1>12. p0 < s0.prio[t0] => Left(r, s0, p0)
  <2> SUFFICES ASSUME p0 < s0.prio[t0], NEW u \in AllTask, s0.prio[u] <= p0
               PROVE  r.prio[u] = s0.prio[u]
    BY DEF Left
  <2>1. p0 < s.prio[t] /\ s.prio[u] = s0.prio[u]
    BY DEF On, Left
  <2>2. u # t
    BY <1>5, <2>1
  <2>3. QED
    BY <1>10, <2>1, <2>2
<1>13. CASE t \notin Waiting(s) \/ ~IsMutex(s, s.blk_obj[t])
  <2>1. NextRound(r, s, t, p) = Round(r, None, p)
    BY <1>13 DEF NextRound
  <2>2. \A x : t \notin Lenders(s, x)
    BY <1>13 DEF Lenders
  <2>3. Inherit(r, base, None)
    BY <1>10, <1>11, <2>2 DEF Inherit
  <2>4. QED
    BY <1>7, <1>9, <1>12, <2>1, <2>3 DEF Off, Onward
<1>14. CASE t \in Waiting(s) /\ IsMutex(s, s.blk_obj[t])
  <2>1. o \in LiveIn(s) /\ o # Idle /\ o # t
    BY <1>2, <1>14 DEF Chain
  <2>2. o \in AllTask /\ o \in Task
    BY <2>1 DEF LiveIn, AllTask
  <2>3. t \in Lenders(s, o) /\ \A x : x # o => t \notin Lenders(s, x)
    BY <1>4, <1>14 DEF Lenders
  <2>4. Due(s, base, o, s.prio[o])
    BY <1>1, <2>1 DEF Inherit
  <2>5. /\ p < r.prio[o] => Due(r, base, o, p)
        /\ r.prio[o] <= p /\ r.prio[o] # s.prio[t] => Due(r, base, o, r.prio[o])
        /\ \A l \in Prio : Due(r, base, o, l) /\ s.prio[t] < p /\ r.prio[o] = s.prio[t]
             => r.prio[o] <= l
    BY <1>3, <1>4, <1>5, <1>8, <1>10, <1>11, <2>1, <2>2, <2>3, <2>4, OwnerDue
  <2>6. Inherit(r, base, o)
    BY <1>10, <1>11, <2>3 DEF Inherit
  <2>7. Holds(r, o)
    BY <1>11, <2>2 DEF Chain
  <2> DEFINE look == mutex_pri_look(r, o)
  <2>8. look \in Prio /\ Due(r, r.b_prio, o, look)
    BY <1>8, <2>2, <2>7, LookDue DEF Core
  <2>9. NextRound(r, s, t, p) =
          IF p < r.prio[o] THEN Round(r, o, p)
          ELSE IF r.prio[o] = s.prio[t] /\ look # r.prio[o] THEN Round(r, o, look)
          ELSE Round(r, None, p)
    BY <1>5, <1>8, <1>14, <2>2, PrioFacts DEF NextRound
  <2> HIDE DEF look, o
  <2>10. r.prio[o] \in Nat /\ look \in Nat /\ r.prio[o] = s.prio[o]
    BY <1>8, <1>10, <2>1, <2>2, <2>8, PrioFacts
  <2>a. o \in LiveIn(s0) \ {Idle}
    BY <1>2, <2>1
  <2>b. s.prio[o] <= s.prio[t]
    BY <2>3, <2>4 DEF Due
  <2>c. ASSUME s.prio[t] < p PROVE ~(p0 < s0.prio[t0]) /\ base = r.b_prio
    BY <1>5, <1>11, <2>c DEF On
  <2>d. ASSUME p < s.prio[t] PROVE p0 < s0.prio[t0] /\ p = p0
    BY <1>5, <2>d DEF On
  <2>e. \A u \in Task \ {t} : r.prio[u] = s.prio[u]
    BY <1>10 DEF AllTask
  <2>11. CASE p < r.prio[o]
    <3>1. p < s.prio[t]
      BY <1>5, <2>10, <2>11, <2>b
    <3>2. On(r, o, p, s0, t0, p0, base)
      BY <1>3, <1>9, <1>12, <2>5, <2>6, <2>11, <2>a, <2>d, <3>1 DEF On
    <3>3. Unvisited(r, o, p) \subseteq Unvisited(s, t, p) \ {t}
      <4>1. ~(p < r.prio[t])
        BY <1>5, <1>10
      <4>2. QED
        BY <2>11, <2>e, <3>1, <4>1 DEF Unvisited
    <3>4. QED
      BY <1>7, <2>9, <2>11, <3>2, <3>3 DEF Onward
  <2>12. CASE ~(p < r.prio[o]) /\ r.prio[o] = s.prio[t] /\ look # r.prio[o]
    <3>1. s.prio[t] < p
      BY <1>5, <1>6, <2>10, <2>12
    <3>2. Due(r, base, o, look) /\ base = s0.b_prio
      BY <1>11, <2>8, <2>c, <3>1
    <3>3. r.prio[o] < look
      <4>1. r.prio[o] <= look
        BY <2>5, <2>8, <2>12, <3>1, <3>2
      <4>2. QED
        BY <2>10, <2>12, <4>1
    <3>4. On(r, o, look, s0, t0, p0, base)
      BY <1>9, <2>6, <2>8, <2>a, <2>c, <3>1, <3>2, <3>3 DEF On
    <3>5. Unvisited(r, o, look) \subseteq Unvisited(s, t, p) \ {t}
      <4>1. ~(look < r.prio[o]) /\ ~(p < s.prio[t]) /\ r.prio[t] # r.prio[o]
        BY <1>5, <1>6, <1>10, <2>10, <2>12, <3>1, <3>3
      <4>2. QED
        BY <2>12, <2>e, <4>1 DEF Unvisited
    <3>6. QED
      BY <1>7, <2>9, <2>12, <3>4, <3>5 DEF Onward
  <2>13. CASE ~(p < r.prio[o]) /\ ~(r.prio[o] = s.prio[t] /\ look # r.prio[o])
    <3>1. Due(r, base, o, r.prio[o])
      <4>1. CASE r.prio[o] # s.prio[t]
        BY <1>5, <2>5, <2>10, <2>13, <4>1
      <4>2. CASE r.prio[o] = s.prio[t]
        <5>1. s.prio[t] < p
          BY <1>5, <1>6, <2>10, <2>13, <4>2
        <5>2. QED
          BY <2>8, <2>13, <2>c, <4>2, <5>1
      <4>3. QED
        BY <4>1, <4>2
    <3>2. Inherit(r, base, None)
      BY <2>6, <3>1 DEF Inherit
    <3>3. QED
      BY <1>7, <1>9, <1>12, <2>9, <2>13, <3>2 DEF Off, Onward
  <2>14. QED
    BY <2>11, <2>12, <2>13
<1>15. QED
  BY <1>13, <1>14

LEMMA ChainBoundFacts ==
  /\ Cardinality(Task) \in Nat /\ ChainBound \in Nat /\ Cardinality(Task) < ChainBound
  /\ \A A, x : A \subseteq Task => IsFiniteSet(A) /\ Cardinality(A) \in Nat
                                   /\ Cardinality(A) <= Cardinality(Task)
<1>1. IsFiniteSet(Task)
  BY CoreAssumption
<1>2. Cardinality(Task) \in Nat
  BY <1>1, FS_CardinalityType
<1>3. ChainBound \in Nat /\ Cardinality(Task) < ChainBound
  BY <1>2 DEF ChainBound
<1>4. ASSUME NEW A, A \subseteq Task
      PROVE  IsFiniteSet(A) /\ Cardinality(A) \in Nat /\ Cardinality(A) <= Cardinality(Task)
  BY <1>1, <1>4, FS_Subset, FS_CardinalityType
<1>5. QED
  BY <1>2, <1>3, <1>4

LEMMA FewerUnvisited ==
  ASSUME NEW A, A \subseteq Task, NEW t \in A, NEW B, B \subseteq A \ {t}
  PROVE  Cardinality(B) + 1 <= Cardinality(A)
<1>1. IsFiniteSet(A) /\ Cardinality(A) \in Nat /\ B \subseteq Task
  BY ChainBoundFacts
<1>2. IsFiniteSet(A \ {t}) /\ Cardinality(A \ {t}) = Cardinality(A) - 1
  BY <1>1, FS_RemoveElement
<1>3. Cardinality(B) <= Cardinality(A \ {t}) /\ Cardinality(B) \in Nat
  BY <1>1, <1>2, FS_Subset, ChainBoundFacts
<1>4. QED
  BY <1>1, <1>2, <1>3

LEMMA PriChangeRoundsAre ==
  ASSUME NEW s, NEW t, NEW p
  PROVE  LET f == PriChangeRounds(s, t, p)
         IN /\ f[0] = Round(s, t, p)
            /\ \A i \in 0..ChainBound - 1 : f[i + 1] = PriChangeRound(f[i])
<1> DEFINE Is(f, n) == f = [i \in 0..n |-> IF i = 0 THEN Round(s, t, p)
                                           ELSE PriChangeRound(f[i - 1])]
           S == {n \in Nat : \E f : Is(f, n)}
           f == PriChangeRounds(s, t, p)
<1>1. 0 \in S
  <2>1. Is([i \in 0..0 |-> Round(s, t, p)], 0)
    OBVIOUS
  <2> HIDE DEF Is
  <2>2. QED
    BY <2>1
<1>2. ASSUME NEW n \in Nat, n \in S PROVE n + 1 \in S
  <2>1. PICK h : Is(h, n)
    BY <1>2
  <2> DEFINE g == [i \in 0..n + 1 |-> IF i <= n THEN h[i] ELSE PriChangeRound(h[n])]
  <2>2. Is(g, n + 1)
    <3>1. ASSUME NEW i \in 0..n + 1
          PROVE  g[i] = IF i = 0 THEN Round(s, t, p) ELSE PriChangeRound(g[i - 1])
      BY <2>1
    <3>2. QED
      BY <3>1
  <2> HIDE DEF Is
  <2>3. QED
    BY <2>2
<1> HIDE DEF S
<1>3. ChainBound \in S
  BY <1>1, <1>2, Induction, ChainBoundFacts
<1>4. \E h : Is(h, ChainBound)
  BY <1>3 DEF S
<1>5. f = CHOOSE h : Is(h, ChainBound)
  BY DEF PriChangeRounds
<1> HIDE DEF Is
<1>6. Is(f, ChainBound)
  BY <1>4, <1>5
<1> HIDE DEF f
<1>7. \A i \in 0..ChainBound : f[i] = IF i = 0 THEN Round(s, t, p) ELSE PriChangeRound(f[i - 1])
  BY <1>6 DEF Is
<1>8. f[0] = Round(s, t, p)
  BY <1>7, ChainBoundFacts
<1>9. ASSUME NEW i \in 0..ChainBound - 1 PROVE f[i + 1] = PriChangeRound(f[i])
  <2>1. i + 1 \in 0..ChainBound /\ i + 1 # 0 /\ (i + 1) - 1 = i
    BY ChainBoundFacts
  <2>2. QED
    BY <1>7, <2>1
<1>10. QED
  BY <1>8, <1>9 DEF f

\* The first round ends the loop.
LEMMA OneRoundOnly ==
  ASSUME NEW s, NEW t, NEW p, NEW r, NEW q, PriChangeRound(Round(s, t, p)) = Round(r, None, q)
  PROVE  task_pri_change(s, t, p) = r
<1> DEFINE f == PriChangeRounds(s, t, p)
           last == f[ChainBound]
           T == {i \in Nat : i + 1 <= ChainBound => f[i + 1] = Round(r, None, q)}
<1>1. /\ f[0] = Round(s, t, p)
      /\ \A i \in 0..ChainBound - 1 : f[i + 1] = PriChangeRound(f[i])
  BY PriChangeRoundsAre
<1>2. task_pri_change(s, t, p) = IF last.task = None THEN last.s ELSE KErr(last.s)
  BY DEF task_pri_change
<1> HIDE DEF f
<1>3. 0 \in T
  <2>1. 0 \in 0..ChainBound - 1
    BY ChainBoundFacts
  <2>2. f[0 + 1] = PriChangeRound(Round(s, t, p))
    BY <1>1, <2>1
  <2>3. QED
    BY <2>2
<1>4. ASSUME NEW i \in Nat, i \in T PROVE i + 1 \in T
  <2> SUFFICES ASSUME i + 1 + 1 <= ChainBound PROVE f[i + 1 + 1] = Round(r, None, q)
    OBVIOUS
  <2>1. i + 1 \in 0..ChainBound - 1 /\ i + 1 <= ChainBound
    BY ChainBoundFacts
  <2>2. f[i + 1 + 1] = PriChangeRound(Round(r, None, q))
    BY <1>1, <1>4, <2>1
  <2>3. QED
    BY <2>2, LastRounds
<1>5. ChainBound - 1 \in T
  <2> HIDE DEF T
  <2>1. QED
    BY <1>3, <1>4, Induction, ChainBoundFacts
<1>6. last = Round(r, None, q)
  BY <1>5, ChainBoundFacts
<1>7. last.task = None /\ last.s = r
  BY <1>6, RoundFields
<1>8. QED
  BY <1>2, <1>7

\* Every chain of waiting owners settles within the bound: the loop ends, with
\* no kernel error, when everyone has the priority he is due.
LEMMA PriChanged ==
  ASSUME NEW s, Core(s), Chain(s), NEW t \in LiveIn(s), t # Idle, NEW p \in Prio,
         NEW base \in [AllTask -> Prio], base = s.b_prio \/ p < s.prio[t],
         Due(s, base, t, p), Inherit(s, base, t)
  PROVE  /\ Off(task_pri_change(s, t, p), s, t, p, base)
         /\ p = s.prio[t] => task_pri_change(s, t, p) = s
<1> DEFINE f == PriChangeRounds(s, t, p)
           last == f[ChainBound]
           N == Cardinality(Task)
           Ended(i) == \E r, q : f[i] = Round(r, None, q) /\ Off(r, s, t, p, base)
           Going(i) == \E r, u, q : /\ f[i] = Round(r, u, q)
                                    /\ On(r, u, q, s, t, p, base)
                                    /\ Cardinality(Unvisited(r, u, q)) + i <= N
           S == {i \in Nat : i <= ChainBound => Ended(i) \/ Going(i)}
<1>1. /\ f[0] = Round(s, t, p)
      /\ \A i \in 0..ChainBound - 1 : f[i + 1] = PriChangeRound(f[i])
  BY PriChangeRoundsAre
<1>2. t \in AllTask /\ t # None
  BY CoreAssumption DEF LiveIn, AllTask
<1>3. /\ s.prio[t] \in Prio /\ s.prio[t] \in Nat /\ p \in Nat
      /\ Keeps(s, s, {"prio", "ready", "highest_pri", "blk_list"})
  BY <1>2, PrioFacts DEF Core, Queues, Typed, Keeps
<1>4. task_pri_change(s, t, p) = IF last.task = None THEN last.s ELSE KErr(last.s)
  BY DEF task_pri_change
<1>5. Settling(s, s) /\ Left(s, s, p)
  BY <1>3 DEF Settling, Left
<1>6. p = s.prio[t] => Off(s, s, t, p, base)
  <2> SUFFICES ASSUME p = s.prio[t] PROVE Off(s, s, t, p, base)
    OBVIOUS
  <2>1. Inherit(s, base, None)
    BY DEF Inherit
  <2>2. QED
    BY <1>5, <2>1 DEF Off
<1>7. p # s.prio[t] => Going(0)
  <2> SUFFICES ASSUME p # s.prio[t] PROVE Going(0)
    OBVIOUS
  <2>1. p < s.prio[t] \/ s.prio[t] < p
    BY <1>3
  <2>2. On(s, t, p, s, t, p, base)
    BY <1>3, <1>5, <2>1 DEF On
  <2>3. Unvisited(s, t, p) \subseteq Task
    BY DEF Unvisited
  <2>4. Cardinality(Unvisited(s, t, p)) + 0 <= N
    BY <2>3, ChainBoundFacts
  <2>5. QED
    BY <1>1, <2>2, <2>4
<1> HIDE DEF f
<1>8. ASSUME NEW i \in Nat, i \in S PROVE i + 1 \in S
  <2> SUFFICES ASSUME i + 1 <= ChainBound PROVE Ended(i + 1) \/ Going(i + 1)
    OBVIOUS
  <2>1. i \in 0..ChainBound - 1 /\ f[i + 1] = PriChangeRound(f[i]) /\ i <= ChainBound
    BY <1>1, ChainBoundFacts
  <2>2. CASE Ended(i)
    <3>1. PICK r, q : f[i] = Round(r, None, q) /\ Off(r, s, t, p, base)
      BY <2>2
    <3>2. f[i + 1] = Round(r, None, q)
      BY <2>1, <3>1, LastRounds
    <3>3. QED
      BY <3>1, <3>2
  <2>3. CASE Going(i)
    <3>1. PICK r, u, q : /\ f[i] = Round(r, u, q)
                         /\ On(r, u, q, s, t, p, base)
                         /\ Cardinality(Unvisited(r, u, q)) + i <= N
      BY <2>3
    <3>a. On(r, u, q, s, t, p, base)
      BY <3>1
    <3>b. s.prio[t] \in Prio
      BY <1>3
    <3> HIDE DEF Ended, Going, S, last, N
    <3>c. Onward(PriChangeRound(Round(r, u, q)), r, u, q, s, t, p, base)
      BY <3>a, <3>b, RoundSettles
    <3>2. PICK r1, u1, q1 :
            /\ PriChangeRound(Round(r, u, q)) = Round(r1, u1, q1)
            /\ \/ u1 = None /\ Off(r1, s, t, p, base)
               \/ /\ On(r1, u1, q1, s, t, p, base)
                  /\ Unvisited(r1, u1, q1) \subseteq Unvisited(r, u, q) \ {u}
      BY <3>c DEF Onward
    <3>3. f[i + 1] = Round(r1, u1, q1)
      BY <2>1, <3>1, <3>2
    <3>4. CASE u1 = None /\ Off(r1, s, t, p, base)
      BY <3>3, <3>4 DEF Ended
    <3>5. CASE On(r1, u1, q1, s, t, p, base) /\ Unvisited(r1, u1, q1) \subseteq Unvisited(r, u, q) \ {u}
      <4>1. u \in Unvisited(r, u, q)
        <5>1. u \in Task /\ q # r.prio[u]
          <6>1. u \in LiveIn(s) \ {Idle} /\ q \in Prio /\ Settling(r, s)
            BY <3>1 DEF On
          <6>2. u \in Task /\ u \in AllTask
            BY <6>1 DEF LiveIn, AllTask
          <6>3. r.prio[u] \in Nat /\ q \in Nat
            BY <6>1, <6>2, PrioFacts DEF Settling, Core, Queues, Typed
          <6>4. QED
            BY <3>1, <6>2, <6>3 DEF On
        <5>2. QED
          BY <3>1, <5>1 DEF Unvisited, On
      <4>2. Unvisited(r, u, q) \subseteq Task /\ Unvisited(r1, u1, q1) \subseteq Task
        BY DEF Unvisited
      <4>3. Cardinality(Unvisited(r1, u1, q1)) + 1 <= Cardinality(Unvisited(r, u, q))
        BY <3>5, <4>1, <4>2, FewerUnvisited
      <4>4. /\ Cardinality(Unvisited(r1, u1, q1)) \in Nat /\ Cardinality(Unvisited(r, u, q)) \in Nat
            /\ N \in Nat
        BY <4>2, ChainBoundFacts DEF N
      <4>5. Cardinality(Unvisited(r1, u1, q1)) + (i + 1) <= N
        BY <3>1, <4>3, <4>4
      <4>6. QED
        BY <3>3, <3>5, <4>5 DEF Going
    <3>6. QED
      BY <3>2, <3>4, <3>5
  <2>4. QED
    BY <1>8, <2>1, <2>2, <2>3
<1>9. CASE p # s.prio[t]
  <2>1. 0 \in S
    BY <1>7, <1>9
  <2>2. ChainBound \in S
    <3> HIDE DEF S
    <3>1. QED
      BY <1>8, <2>1, Induction, ChainBoundFacts
  <2>3. ~Going(ChainBound)
    <3> SUFFICES ASSUME Going(ChainBound) PROVE FALSE
      OBVIOUS
    <3>1. PICK r, u, q : Cardinality(Unvisited(r, u, q)) + ChainBound <= N
      OBVIOUS
    <3>2. Unvisited(r, u, q) \subseteq Task
      BY DEF Unvisited
    <3>3. Cardinality(Unvisited(r, u, q)) \in Nat
      BY <3>2, ChainBoundFacts
    <3>4. QED
      BY <3>1, <3>3, ChainBoundFacts
  <2>4. PICK r, q : last = Round(r, None, q) /\ Off(r, s, t, p, base)
    BY <2>2, <2>3, ChainBoundFacts
  <2>5. last.task = None /\ last.s = r
    BY <2>4, RoundFields
  <2>6. QED
    BY <1>4, <1>9, <2>4, <2>5
<1>10. CASE p = s.prio[t]
  <2>1. PriChangeRound(Round(s, t, p)) = Round(s, None, p)
    BY <1>2, <1>10, LastRounds
  <2>2. task_pri_change(s, t, p) = s
    BY <2>1, OneRoundOnly
  <2>3. QED
    BY <1>6, <1>10, <2>2
<1>11. QED
  BY <1>9, <1>10

\* A ready task owes its priority to nobody that waits, and lends it to nobody.
LEMMA PriChangedReady ==
  ASSUME NEW s, Core(s), NEW t \in Ready(s), t # Idle, NEW p \in Prio
  PROVE  IF p = s.prio[t] THEN task_pri_change(s, t, p) = s
                          ELSE Repri(task_pri_change(s, t, p), s, t, p)
<1>1. t \in LiveIn(s) /\ t # None /\ t \notin Waiting(s)
  BY CoreAssumption DEF Ready, LiveIn, AllTask, Waiting, Pended
<1>2. CASE p = s.prio[t]
  <2>1. PriChangeRound(Round(s, t, p)) = Round(s, None, p)
    BY <1>1, <1>2, LastRounds
  <2>2. QED
    BY <1>2, <2>1, OneRoundOnly
<1>3. CASE p # s.prio[t]
  <2>1. PICK r : Repri(r, s, t, p) /\ PriChangeRound(Round(s, t, p)) = NextRound(r, s, t, p)
    BY <1>1, <1>3, OneRound
  <2>2. NextRound(r, s, t, p) = Round(r, None, p)
    BY <1>1 DEF NextRound
  <2>3. task_pri_change(s, t, p) = r
    BY <2>1, <2>2, OneRoundOnly
  <2>4. QED
    BY <1>3, <2>1, <2>3
<1>4. QED
  BY <1>2, <1>3

-----------------------------------------------------------------------------
(***************************************************************************)
(* The invariant of the kernel state.                                      *)
(***************************************************************************)
LEMMA OwnersKept ==
  ASSUME NEW s, NEW r, NEW x, Owners(s, x), LiveIn(r) = LiveIn(s),
         r.obj_type = s.obj_type, r.mutex_task = s.mutex_task, r.mutex_list = s.mutex_list
  PROVE  Owners(r, x)
<1>1. \A t \in AllTask : Holds(s, t) => Holds(r, t)
  BY DEF Holds
<1>2. QED
  BY <1>1 DEF Owners

LEMMA WaitsKept ==
  ASSUME NEW s, NEW r, NEW z, Waits(s, z), Waiting(r) \subseteq Waiting(s),
         r.obj_type = s.obj_type, r.mutex_task = s.mutex_task, r.count = s.count,
         \A t \in Waiting(r) : r.blk_obj[t] = s.blk_obj[t]
  PROVE  Waits(r, z)
BY DEF Waits

\* Nobody lends to somebody else than before.
LEMMA LendersKept ==
  ASSUME NEW s, NEW r, \A u : u \in Waiting(r) /\ IsMutex(r, r.blk_obj[u])
                                <=> u \in Waiting(s) /\ IsMutex(s, s.blk_obj[u]),
         \A u \in Waiting(s) : IsMutex(s, s.blk_obj[u]) =>
           r.blk_obj[u] = s.blk_obj[u] /\ r.mutex_task[s.blk_obj[u]] = s.mutex_task[s.blk_obj[u]]
  PROVE  \A x : Lenders(r, x) = Lenders(s, x)
<1>1. ASSUME NEW x, NEW u \in AllTask PROVE u \in Lenders(r, x) <=> u \in Lenders(s, x)
  BY DEF Lenders
<1>2. ASSUME NEW x PROVE Lenders(r, x) = Lenders(s, x)
  BY <1>1 DEF Lenders
<1>3. QED
  BY <1>2

LEMMA InheritKept ==
  ASSUME NEW s, NEW r, NEW x, Inherit(s, s.b_prio, x), LiveIn(r) \subseteq LiveIn(s),
         \A t \in LiveIn(s) : r.prio[t] = s.prio[t] /\ r.b_prio[t] = s.b_prio[t],
         \A t : Lenders(r, t) = Lenders(s, t)
  PROVE  Inherit(r, r.b_prio, x)
<1> SUFFICES ASSUME NEW t \in LiveIn(r) \ {x} PROVE Due(r, r.b_prio, t, r.prio[t])
  BY DEF Inherit
<1>1. Due(s, s.b_prio, t, s.prio[t]) /\ t \in LiveIn(s)
  BY DEF Inherit
<1>2. \A u \in Lenders(s, t) : u \in LiveIn(s)
  BY DEF Lenders, Waiting, Pended, LiveIn
<1>3. QED
  BY <1>1, <1>2 DEF Due

\* Nothing that the invariant speaks of changes but for the lists.
LEMMA KernelKept ==
  ASSUME NEW s, NEW x, NEW z, Kernel(s, x, z), NEW r, Core(r),
         LiveIn(r) = LiveIn(s), Waiting(r) = Waiting(s),
         r.prio = s.prio, r.b_prio = s.b_prio, r.obj_type = s.obj_type,
         r.mutex_task = s.mutex_task, r.mutex_list = s.mutex_list, r.count = s.count,
         \A t \in Waiting(s) : r.blk_obj[t] = s.blk_obj[t]
  PROVE  Kernel(r, x, z)
<1>1. Owners(r, x)
  BY OwnersKept DEF Kernel
<1>2. Waits(r, z)
  BY WaitsKept DEF Kernel
<1>3. \A t : Lenders(r, t) = Lenders(s, t)
  BY LendersKept DEF IsMutex
<1>4. Inherit(r, r.b_prio, x)
  BY <1>3, InheritKept DEF Kernel
<1>5. QED
  BY <1>1, <1>2, <1>4 DEF Kernel

LEMMA ChainSound ==
  ASSUME NEW s, NEW z, Owners(s, None), Waits(s, z), ~IsMutex(s, z)
  PROVE  Chain(s)
<1>1. \A t \in AllTask : Holds(s, t)
  BY CoreAssumption DEF Owners, AllTask
<1>2. ASSUME NEW u \in Waiting(s), IsMutex(s, s.blk_obj[u])
      PROVE  s.mutex_task[s.blk_obj[u]] \in LiveIn(s) \ {Idle, u}
  <2>1. s.blk_obj[u] # z
    BY <1>2
  <2>2. s.mutex_task[s.blk_obj[u]] \notin {None, u}
    BY <1>2, <2>1 DEF Waits, IsMutex
  <2>3. QED
    BY <1>2, <2>2 DEF Owners, IsMutex
<1>3. QED
  BY <1>1, <1>2 DEF Chain

LEMMA NoneNoMutex == \A s : ~IsMutex(s, None)
BY CoreAssumption DEF IsMutex

\* The task that was left out is as the invariant says.
LEMMA KernelWhole ==
  ASSUME NEW s, NEW x, NEW z, Kernel(s, x, z), Holds(s, x), Due(s, s.b_prio, x, s.prio[x])
  PROVE  Kernel(s, None, z)
BY DEF Kernel, Owners, Inherit

\* After a change of priorities.
LEMMA KernelSettled ==
  ASSUME NEW s, NEW z, Owners(s, None), Waits(s, z),
         NEW r, Settling(r, s), Inherit(r, s.b_prio, None)
  PROVE  Kernel(r, None, z)
<1>1. Core(r) /\ Keeps(r, s, {"prio", "ready", "highest_pri", "blk_list"})
  BY DEF Settling
<1>2. /\ r.obj_type = s.obj_type /\ r.mutex_task = s.mutex_task /\ r.mutex_list = s.mutex_list
      /\ r.count = s.count /\ r.blk_obj = s.blk_obj /\ r.b_prio = s.b_prio
  BY <1>1 DEF Keeps, Fields
<1>3. LiveIn(r) = LiveIn(s) /\ Waiting(r) = Waiting(s)
  BY <1>1, SameLenders
<1>4. Owners(r, None)
  BY <1>2, <1>3, OwnersKept
<1>5. Waits(r, z)
  BY <1>2, <1>3, WaitsKept
<1>6. QED
  BY <1>1, <1>2, <1>4, <1>5 DEF Kernel

\* The wait for a semaphore or for a deleted mutex ends.
LEMMA WokenElsewhere ==
  ASSUME NEW s, NEW x, NEW z, Kernel(s, x, z), NEW t \in Waiting(s),
         ~IsMutex(s, s.blk_obj[t]), NEW result \in Result
  PROVE  /\ Kernel(EndPend(s, t, result), x, z)
         /\ Woken(EndPend(s, t, result), s, t, result)
<1> DEFINE r == EndPend(s, t, result)
<1>1. Core(r) /\ Woken(r, s, t, result)
  BY PendEnded DEF Kernel
<1> HIDE DEF r
<1>2. /\ Moves(r, s, t, IF s.task_state[t] = "PEND" THEN "RDY" ELSE "SUSPENDED")
      /\ r.blk_obj = [s.blk_obj EXCEPT ![t] = None]
      /\ Keeps(r, s, {"blk_list", "ready", "highest_pri", "task_state", "tick_list",
                      "blk_state", "blk_obj"})
  BY <1>1 DEF Woken
<1>3. t \in AllTask /\ t \in LiveIn(s)
  BY DEF Waiting, LiveIn, Pended
<1>4. LiveIn(r) = LiveIn(s) \cup {t}
  BY <1>2, <1>3, NowLive
<1>5. Waiting(r) = Waiting(s) \ {t}
  BY <1>2, <1>3, NotWaiting DEF Pended
<1>6. s.blk_obj \in [AllTask -> Object \cup {None}] /\ Waiting(s) \subseteq AllTask
  BY DEF Kernel, Core, Queues, Typed, Waiting
<1>7. \A u \in Waiting(r) : r.blk_obj[u] = s.blk_obj[u]
  BY <1>2, <1>5, <1>6
<1>8. /\ r.obj_type = s.obj_type /\ r.mutex_task = s.mutex_task /\ r.mutex_list = s.mutex_list
      /\ r.count = s.count /\ r.b_prio = s.b_prio /\ r.prio = s.prio
  BY <1>2 DEF Keeps, Fields
<1>9. Owners(r, x)
  BY <1>3, <1>4, <1>8, OwnersKept DEF Kernel
<1>10. Waits(r, z)
  BY <1>5, <1>7, <1>8, WaitsKept DEF Kernel
<1>11. \A u : Lenders(r, u) = Lenders(s, u)
  BY <1>5, <1>7, <1>8, LendersKept DEF IsMutex
<1>12. Inherit(r, r.b_prio, x)
  BY <1>3, <1>4, <1>8, <1>11, InheritKept DEF Kernel
<1>13. QED
  BY <1>1, <1>9, <1>10, <1>12 DEF Kernel, r

-----------------------------------------------------------------------------
(***************************************************************************)
(* The loops over lists, place by place.                                   *)
(***************************************************************************)
LEMMA EndPendEachIs ==
  ASSUME NEW s, NEW list, Len(list) \in Nat, NEW result
  PROVE  LET f == EndPendEach(s, list, result)
         IN /\ f[0] = s
            /\ \A i \in 0..Len(list) - 1 : f[i + 1] = EndPend(f[i], list[i + 1], result)
<1> DEFINE Is(f, m) == f = [i \in 0..m |-> IF i = 0 THEN s ELSE EndPend(f[i - 1], list[i], result)]
           S == {m \in Nat : \E f : Is(f, m)}
           f == EndPendEach(s, list, result)
<1>1. 0 \in S
  <2>1. Is([i \in 0..0 |-> s], 0)
    OBVIOUS
  <2> HIDE DEF Is
  <2>2. QED
    BY <2>1
<1>2. ASSUME NEW m \in Nat, m \in S PROVE m + 1 \in S
  <2>1. PICK h : Is(h, m)
    BY <1>2
  <2> DEFINE g == [i \in 0..m + 1 |-> IF i <= m THEN h[i] ELSE EndPend(h[m], list[m + 1], result)]
  <2>2. Is(g, m + 1)
    <3>1. ASSUME NEW i \in 0..m + 1
          PROVE  g[i] = IF i = 0 THEN s ELSE EndPend(g[i - 1], list[i], result)
      BY <2>1
    <3>2. QED
      BY <3>1
  <2> HIDE DEF Is
  <2>3. QED
    BY <2>2
<1> HIDE DEF S
<1>3. Len(list) \in S
  BY <1>1, <1>2, Induction
<1>4. \E h : Is(h, Len(list))
  BY <1>3 DEF S
<1>5. f = CHOOSE h : Is(h, Len(list))
  BY DEF EndPendEach
<1> HIDE DEF Is
<1>6. Is(f, Len(list))
  BY <1>4, <1>5
<1> HIDE DEF f
<1>7. \A i \in 0..Len(list) : f[i] = IF i = 0 THEN s ELSE EndPend(f[i - 1], list[i], result)
  BY <1>6 DEF Is
<1>8. f[0] = s
  BY <1>7
<1>9. ASSUME NEW i \in 0..Len(list) - 1 PROVE f[i + 1] = EndPend(f[i], list[i + 1], result)
  <2>1. i + 1 \in 0..Len(list) /\ i + 1 # 0 /\ (i + 1) - 1 = i
    OBVIOUS
  <2>2. QED
    BY <1>7, <2>1
<1>10. QED
  BY <1>8, <1>9 DEF f

LEMMA HandOverEachIs ==
  ASSUME NEW s, NEW list, Len(list) \in Nat
  PROVE  LET f == HandOverEach(s, list)
         IN /\ f[0] = s
            /\ \A i \in 0..Len(list) - 1 : f[i + 1] = HandOver(f[i], list[i + 1])
<1> DEFINE Is(f, m) == f = [i \in 0..m |-> IF i = 0 THEN s ELSE HandOver(f[i - 1], list[i])]
           S == {m \in Nat : \E f : Is(f, m)}
           f == HandOverEach(s, list)
<1>1. 0 \in S
  <2>1. Is([i \in 0..0 |-> s], 0)
    OBVIOUS
  <2> HIDE DEF Is
  <2>2. QED
    BY <2>1
<1>2. ASSUME NEW m \in Nat, m \in S PROVE m + 1 \in S
  <2>1. PICK h : Is(h, m)
    BY <1>2
  <2> DEFINE g == [i \in 0..m + 1 |-> IF i <= m THEN h[i] ELSE HandOver(h[m], list[m + 1])]
  <2>2. Is(g, m + 1)
    <3>1. ASSUME NEW i \in 0..m + 1
          PROVE  g[i] = IF i = 0 THEN s ELSE HandOver(g[i - 1], list[i])
      BY <2>1
    <3>2. QED
      BY <3>1
  <2> HIDE DEF Is
  <2>3. QED
    BY <2>2
<1> HIDE DEF S
<1>3. Len(list) \in S
  BY <1>1, <1>2, Induction
<1>4. \E h : Is(h, Len(list))
  BY <1>3 DEF S
<1>5. f = CHOOSE h : Is(h, Len(list))
  BY DEF HandOverEach
<1> HIDE DEF Is
<1>6. Is(f, Len(list))
  BY <1>4, <1>5
<1> HIDE DEF f
<1>7. \A i \in 0..Len(list) : f[i] = IF i = 0 THEN s ELSE HandOver(f[i - 1], list[i])
  BY <1>6 DEF Is
<1>8. f[0] = s
  BY <1>7
<1>9. ASSUME NEW i \in 0..Len(list) - 1 PROVE f[i + 1] = HandOver(f[i], list[i + 1])
  <2>1. i + 1 \in 0..Len(list) /\ i + 1 # 0 /\ (i + 1) - 1 = i
    OBVIOUS
  <2>2. QED
    BY <1>7, <2>1
<1>10. QED
  BY <1>8, <1>9 DEF f

LEMMA ExpireEachIs ==
  ASSUME NEW s, NEW list, NEW n \in Nat
  PROVE  LET f == ExpireEach(s, list, n)
         IN /\ f[0] = s
            /\ \A i \in 0..n - 1 : f[i + 1] = Expire(f[i], list[i + 1])
<1> DEFINE Is(f, m) == f = [i \in 0..m |-> IF i = 0 THEN s ELSE Expire(f[i - 1], list[i])]
           S == {m \in Nat : \E f : Is(f, m)}
           f == ExpireEach(s, list, n)
<1>1. 0 \in S
  <2>1. Is([i \in 0..0 |-> s], 0)
    OBVIOUS
  <2> HIDE DEF Is
  <2>2. QED
    BY <2>1
<1>2. ASSUME NEW m \in Nat, m \in S PROVE m + 1 \in S
  <2>1. PICK h : Is(h, m)
    BY <1>2
  <2> DEFINE g == [i \in 0..m + 1 |-> IF i <= m THEN h[i] ELSE Expire(h[m], list[m + 1])]
  <2>2. Is(g, m + 1)
    <3>1. ASSUME NEW i \in 0..m + 1
          PROVE  g[i] = IF i = 0 THEN s ELSE Expire(g[i - 1], list[i])
      BY <2>1
    <3>2. QED
      BY <3>1
  <2> HIDE DEF Is
  <2>3. QED
    BY <2>2
<1> HIDE DEF S
<1>3. n \in S
  BY <1>1, <1>2, Induction
<1>4. \E h : Is(h, n)
  BY <1>3 DEF S
<1>5. f = CHOOSE h : Is(h, n)
  BY DEF ExpireEach
<1> HIDE DEF Is
<1>6. Is(f, n)
  BY <1>4, <1>5
<1> HIDE DEF f
<1>7. \A i \in 0..n : f[i] = IF i = 0 THEN s ELSE Expire(f[i - 1], list[i])
  BY <1>6 DEF Is
<1>8. f[0] = s
  BY <1>7
<1>9. ASSUME NEW i \in 0..n - 1 PROVE f[i + 1] = Expire(f[i], list[i + 1])
  <2>1. i + 1 \in 0..n /\ i + 1 # 0 /\ (i + 1) - 1 = i
    OBVIOUS
  <2>2. QED
    BY <1>7, <2>1
<1>10. QED
  BY <1>8, <1>9 DEF f

\* The waits of the tasks A have ended with this result.
Awake(r, s, A, result) ==
  /\ Keeps(r, s, {"blk_list", "ready", "highest_pri", "task_state", "tick_list",
                  "blk_state", "blk_obj"})
  /\ \A t \in A : /\ r.task_state[t] = IF s.task_state[t] = "PEND" THEN "RDY" ELSE "SUSPENDED"
                  /\ r.blk_state[t] = result /\ r.blk_obj[t] = None
  /\ \A t \in AllTask \ A : /\ r.task_state[t] = s.task_state[t]
                            /\ r.blk_state[t] = s.blk_state[t]
                            /\ r.blk_obj[t] = s.blk_obj[t]

LEMMA AwakeOne ==
  ASSUME NEW s, NEW A, NEW result, NEW r, Typed(r), Awake(r, s, A, result),
         NEW t \in AllTask \ A, A \subseteq AllTask, NEW r1, Woken(r1, r, t, result)
  PROVE  Awake(r1, s, A \cup {t}, result)
<1>1. /\ Keeps(r1, r, {"blk_list", "ready", "highest_pri", "task_state", "tick_list",
                       "blk_state", "blk_obj"})
      /\ r1.task_state[t] = IF r.task_state[t] = "PEND" THEN "RDY" ELSE "SUSPENDED"
      /\ \A u \in AllTask \ {t} : r1.task_state[u] = r.task_state[u]
      /\ r1.blk_state = [r.blk_state EXCEPT ![t] = result]
      /\ r1.blk_obj = [r.blk_obj EXCEPT ![t] = None]
  BY DEF Woken, Moves
<1>2. /\ r1.blk_state[t] = result /\ r1.blk_obj[t] = None
      /\ \A u \in AllTask \ {t} : r1.blk_state[u] = r.blk_state[u] /\ r1.blk_obj[u] = r.blk_obj[u]
  BY <1>1 DEF Typed
<1>3. Keeps(r1, s, {"blk_list", "ready", "highest_pri", "task_state", "tick_list",
                    "blk_state", "blk_obj"})
  BY <1>1 DEF Awake, Keeps
<1>4. QED
  BY <1>1, <1>2, <1>3 DEF Awake

\* krhino_mutex_del, krhino_sem_del, krhino_sem_give_all: everyone's wait for o
\* ends, first to last.
LEMMA AllEnded ==
  ASSUME NEW s, NEW x, NEW o \in Object, Kernel(s, x, o), ~IsMutex(s, o),
         NEW result \in Result
  PROVE  /\ Kernel(EndPendAll(s, o, result), x, None)
         /\ Awake(EndPendAll(s, o, result), s, ToSet(s.blk_list[o]), result)
<1> DEFINE list == s.blk_list[o]
           f == EndPendEach(s, list, result)
           A(i) == {list[j] : j \in 1..i}
           S == {i \in Nat : i <= Len(list) =>
                   Kernel(f[i], x, o) /\ Awake(f[i], s, A(i), result)}
           r == EndPendAll(s, o, result)
<1>1. /\ Blocks(s, Waiting(s)) /\ Typed(s) /\ list \in Seq(AllTask) /\ IsList(list, AllTask)
      /\ \A u \in AllTask : u \in ToSet(list) <=> u \in Waiting(s) /\ s.blk_obj[u] = o
  BY DEF Kernel, Core, Queues, Blocks, Typed
<1>2. /\ Len(list) \in Nat /\ \A i \in 1..Len(list) : list[i] \in ToSet(list) /\ list[i] \in AllTask
      /\ \A i, j \in 1..Len(list) : list[i] = list[j] => i = j
      /\ ToSet(list) = A(Len(list))
  BY <1>1, ElementPlaces
<1>3. f[0] = s /\ \A i \in 0..Len(list) - 1 : f[i + 1] = EndPend(f[i], list[i + 1], result)
  BY <1>2, EndPendEachIs
<1>4. r = f[Len(list)]
  BY DEF EndPendAll
<1> HIDE DEF list, f, r
<1>5. 0 \in S
  <2>1. Awake(s, s, {}, result)
    BY <1>1 DEF Awake, Keeps, Typed
  <2>2. A(0) = {}
    OBVIOUS
  <2>3. Kernel(f[0], x, o) /\ Awake(f[0], s, A(0), result)
    BY <1>3, <2>1, <2>2
  <2>4. QED
    BY <2>3
<1>6. ASSUME NEW i \in Nat, i \in S PROVE i + 1 \in S
  <2> SUFFICES ASSUME i + 1 <= Len(list)
               PROVE  Kernel(f[i + 1], x, o) /\ Awake(f[i + 1], s, A(i + 1), result)
    OBVIOUS
  <2> DEFINE q == f[i]
             t == list[i + 1]
  <2>1. i \in 0..Len(list) - 1 /\ i + 1 \in 1..Len(list)
    BY <1>2
  <2>2. Kernel(q, x, o) /\ Awake(q, s, A(i), result) /\ f[i + 1] = EndPend(q, t, result)
    BY <1>2, <1>3, <1>6, <2>1
  <2>3. t \in AllTask /\ t \in Waiting(s) /\ s.blk_obj[t] = o
    BY <1>1, <1>2, <2>1
  <2>4. t \notin A(i) /\ A(i) \subseteq AllTask /\ A(i + 1) = A(i) \cup {t}
    <3>1. \A j \in 1..i : j \in 1..Len(list) /\ list[j] # t /\ list[j] \in AllTask
      BY <1>2, <2>1
    <3>2. 1..(i + 1) = (1..i) \cup {i + 1}
      OBVIOUS
    <3>3. QED
      BY <3>1, <3>2
  <2> HIDE DEF q, t, A
  <2>5. /\ q.task_state[t] = s.task_state[t] /\ q.blk_obj[t] = o /\ q.obj_type = s.obj_type
    BY <2>2, <2>3, <2>4 DEF Awake, Keeps, Fields
  <2>6. t \in Waiting(q) /\ ~IsMutex(q, q.blk_obj[t])
    BY <2>3, <2>5 DEF Waiting, IsMutex
  <2>7. Kernel(f[i + 1], x, o) /\ Woken(f[i + 1], q, t, result)
    BY <2>2, <2>6, WokenElsewhere
  <2>8. Typed(q)
    BY <2>2 DEF Kernel, Core, Queues
  <2>9. Awake(f[i + 1], s, A(i) \cup {t}, result)
    BY <2>2, <2>3, <2>4, <2>7, <2>8, AwakeOne
  <2>10. QED
    BY <2>4, <2>7, <2>9
<1>7. Len(list) \in S
  <2> HIDE DEF S
  <2>1. QED
    BY <1>2, <1>5, <1>6, Induction
<1>8. Kernel(r, x, o) /\ Awake(r, s, ToSet(list), result)
  BY <1>2, <1>4, <1>7
<1>9. Kernel(r, x, None)
  <2>1. \A u \in Waiting(r) : r.blk_obj[u] # o
    <3> SUFFICES ASSUME NEW u \in Waiting(r), r.blk_obj[u] = o PROVE FALSE
      OBVIOUS
    <3>1. u \in AllTask /\ o # None
      BY CoreAssumption DEF Waiting, Object
    <3>2. u \notin ToSet(list)
      BY <1>8, <3>1 DEF Awake
    <3>3. u \in Waiting(s) /\ s.blk_obj[u] = o
      BY <1>8, <3>1, <3>2 DEF Awake, Waiting
    <3>4. QED
      BY <1>1, <3>1, <3>2, <3>3
  <2>2. Waits(r, None)
    BY <1>8, <2>1 DEF Kernel, Waits
  <2>3. QED
    BY <1>8, <2>2 DEF Kernel
<1>10. QED
  BY <1>8, <1>9 DEF r, list

-----------------------------------------------------------------------------
(***************************************************************************)
(* A mutex changes hands.                                                  *)
(***************************************************************************)

\* The mutex m becomes free.
LEMMA Freed ==
  ASSUME NEW s, NEW x \in AllTask, Kernel(s, x, None), NEW m \in Mutex,
         m \in s.obj_type, s.mutex_task[m] = x, s.blk_list[m] = <<>>
  PROVE  LET r == HandOver(s, m)
         IN /\ Kernel(r, x, None) /\ Keeps(r, s, {"mutex_task"})
            /\ r.mutex_task = [s.mutex_task EXCEPT ![m] = None]
<1> DEFINE r == HandOver(s, m)
<1>1. Core(s) /\ Typed(s) /\ Owners(s, x) /\ Waits(s, None)
  BY DEF Kernel, Core, Queues
<1>2. Keeps(r, s, {"mutex_task"}) /\ r.mutex_task = [s.mutex_task EXCEPT ![m] = None]
  BY <1>1 DEF Typed, IsK, Keeps, Fields, HandOver
<1> HIDE DEF r
<1>3. /\ r.mutex_task \in [Mutex -> AllTask \cup {None}] /\ r.mutex_task[m] = None
      /\ \A n \in Mutex \ {m} : r.mutex_task[n] = s.mutex_task[n]
  BY <1>1, <1>2 DEF Typed
<1>4. /\ Typed(r) /\ r.ready = s.ready /\ r.highest_pri = s.highest_pri /\ r.blk_list = s.blk_list
      /\ r.tick_list = s.tick_list /\ r.task_state = s.task_state /\ r.prio = s.prio
      /\ r.blk_obj = s.blk_obj /\ r.obj_type = s.obj_type /\ r.mutex_list = s.mutex_list
      /\ r.count = s.count /\ r.b_prio = s.b_prio
  BY <1>1, <1>2, <1>3 DEF Typed, Keeps, Fields
<1>5. /\ Ready(r) = Ready(s) /\ Waiting(r) = Waiting(s) /\ Sleeping(r) = Sleeping(s)
      /\ LiveIn(r) = LiveIn(s)
  BY <1>4 DEF Ready, Waiting, Sleeping, LiveIn
<1>6. Core(r)
  BY <1>1, <1>4, <1>5, CoreKept
<1>7. \A u \in Waiting(s) : s.blk_obj[u] # m
  <2> SUFFICES ASSUME NEW u \in Waiting(s), s.blk_obj[u] = m PROVE FALSE
    OBVIOUS
  <2>1. u \in AllTask /\ m \in Object
    BY DEF Waiting, Object
  <2>2. u \in ToSet(s.blk_list[m])
    BY <1>1, <2>1 DEF Core, Queues, Blocks
  <2>3. s.blk_list[m] \in Seq(AllTask)
    BY <1>1, <2>1 DEF Typed
  <2>4. QED
    BY <2>2, <2>3, InList
<1>8. Owners(r, x)
  <2>1. ASSUME NEW t \in AllTask \ {x} PROVE Holds(r, t)
    <3>1. Holds(s, t) /\ t # None
      BY <1>1, CoreAssumption DEF Owners, AllTask
    <3>2. \A n \in Mutex : r.mutex_task[n] = t <=> s.mutex_task[n] = t
      BY <1>3, <3>1
    <3>3. QED
      BY <1>4, <3>1, <3>2 DEF Holds
  <2>2. QED
    BY <1>1, <1>3, <1>4, <1>5, <2>1 DEF Owners
<1>9. Waits(r, None)
  BY <1>1, <1>3, <1>4, <1>5, <1>7 DEF Waits
<1>10. \A t : Lenders(r, t) = Lenders(s, t)
  BY <1>3, <1>4, <1>5, <1>7, LendersKept DEF IsMutex
<1>11. Inherit(r, r.b_prio, x)
  BY <1>4, <1>5, <1>10, InheritKept DEF Kernel
<1>12. QED
  BY <1>2, <1>6, <1>8, <1>9, <1>11 DEF Kernel, r

\* The mutex m passes to its first waiter u.
Passed(r, s, m, u) ==
  /\ Keeps(r, s, {"blk_list", "ready", "highest_pri", "task_state", "tick_list",
                  "blk_state", "blk_obj", "mutex_task", "mutex_list"})
  /\ Moves(r, s, u, IF s.task_state[u] = "PEND" THEN "RDY" ELSE "SUSPENDED")
  /\ r.blk_state = [s.blk_state EXCEPT ![u] = "FINISH"]
  /\ r.blk_obj = [s.blk_obj EXCEPT ![u] = None]
  /\ r.mutex_task = [s.mutex_task EXCEPT ![m] = u]
  /\ r.mutex_list = [s.mutex_list EXCEPT ![u] = Cons(m, s.mutex_list[u])]

LEMMA FirstWaiter ==
  ASSUME NEW s, Core(s), NEW o \in Object, s.blk_list[o] # <<>>
  PROVE  LET u == Head(s.blk_list[o])
         IN /\ u \in Waiting(s) /\ u \in AllTask /\ u # Idle /\ s.blk_obj[u] = o
            /\ \A w \in Waiting(s) : s.blk_obj[w] = o => s.prio[u] <= s.prio[w]
<1> DEFINE u == Head(s.blk_list[o])
<1>1. /\ IsList(s.blk_list[o], AllTask) /\ SortedBy(s.blk_list[o], s.prio)
      /\ s.blk_list[o] \in Seq(AllTask)
      /\ \A t \in AllTask : t \in ToSet(s.blk_list[o]) <=> t \in Waiting(s) /\ s.blk_obj[t] = o
      /\ Idle \in Ready(s)
  BY DEF Core, Queues, Blocks, Typed
<1>2. s.prio \in [AllTask -> Nat]
  BY PrioFacts DEF Core, Queues, Typed
<1>3. u \in ToSet(s.blk_list[o]) /\ \A w \in ToSet(s.blk_list[o]) : s.prio[u] <= s.prio[w]
  BY <1>1, <1>2, HeadIsLeast
<1>4. u \in AllTask
  BY <1>1, <1>3, InList
<1> HIDE DEF u
<1>5. u \in Waiting(s) /\ s.blk_obj[u] = o
  BY <1>1, <1>3, <1>4
<1>6. u # Idle
  BY <1>1, <1>5 DEF Ready, Waiting, Pended
<1>7. \A w \in Waiting(s) : s.blk_obj[w] = o => s.prio[u] <= s.prio[w]
  BY <1>1, <1>3 DEF Waiting
<1>8. QED
  BY <1>4, <1>5, <1>6, <1>7 DEF u

LEMMA PassedOn ==
  ASSUME NEW s, NEW x \in AllTask, Kernel(s, x, None), NEW m \in Mutex,
         m \in s.obj_type, s.mutex_task[m] = x, s.blk_list[m] # <<>>
  PROVE  /\ Kernel(HandOver(s, m), x, None)
         /\ Passed(HandOver(s, m), s, m, Head(s.blk_list[m]))
         /\ Head(s.blk_list[m]) # x
<1> DEFINE u == Head(s.blk_list[m])
           s1 == pend_task_wakeup(s, u)
           r == HandOver(s, m)
<1>1. Core(s) /\ Typed(s) /\ Owners(s, x) /\ Waits(s, None) /\ Inherit(s, s.b_prio, x)
  BY DEF Kernel, Core, Queues
<1>m. m \in Object /\ m # None
  BY CoreAssumption DEF Object
<1>2. /\ u \in Waiting(s) /\ u \in AllTask /\ u # Idle /\ s.blk_obj[u] = m
      /\ \A w \in Waiting(s) : s.blk_obj[w] = m => s.prio[u] <= s.prio[w]
  BY <1>1, <1>m, FirstWaiter
<1>3. Core(s1) /\ Woken(s1, s, u, "FINISH")
  BY <1>1, <1>2, PendEnded DEF pend_task_wakeup, Result
<1>4. r = [s1 EXCEPT !.mutex_task[m] = u, !.mutex_list[u] = Cons(m, @)]
  BY DEF HandOver
<1> HIDE DEF u, s1, r
<1>5. Typed(s1) /\ s1.mutex_task = s.mutex_task /\ s1.mutex_list = s.mutex_list
  BY <1>3 DEF Core, Queues, Woken, Keeps, Fields
<1>6. /\ Keeps(r, s1, {"mutex_task", "mutex_list"})
      /\ r.mutex_task = [s.mutex_task EXCEPT ![m] = u]
      /\ r.mutex_list = [s.mutex_list EXCEPT ![u] = Cons(m, s.mutex_list[u])]
  BY <1>4, <1>5 DEF Typed, IsK, Keeps, Fields
<1>7. /\ u # x /\ Holds(s, u)
  BY <1>1, <1>2, <1>m DEF Waits, Owners
<1>8. /\ IsList(Cons(m, s.mutex_list[u]), Mutex)
      /\ ToSet(Cons(m, s.mutex_list[u])) = ToSet(s.mutex_list[u]) \cup {m}
  <2>1. IsList(s.mutex_list[u], Mutex) /\ m \in Mutex \ ToSet(s.mutex_list[u])
    BY <1>7 DEF Holds
  <2>2. QED
    BY <2>1, Prepended DEF Cons
<1>9. /\ r.mutex_task \in [Mutex -> AllTask \cup {None}] /\ r.mutex_task[m] = u
      /\ \A n \in Mutex \ {m} : r.mutex_task[n] = s.mutex_task[n]
  <2>1. /\ s.mutex_task \in [Mutex -> AllTask \cup {None}] /\ u \in AllTask
        /\ r.mutex_task = [s.mutex_task EXCEPT ![m] = u]
    BY <1>1, <1>2, <1>6 DEF Typed
  <2>2. QED
    BY <2>1
<1>10. /\ r.mutex_list \in [AllTask -> Seq(Mutex)] /\ r.mutex_list[u] = Cons(m, s.mutex_list[u])
       /\ \A t \in AllTask \ {u} : r.mutex_list[t] = s.mutex_list[t]
  <2>1. Cons(m, s.mutex_list[u]) \in Seq(Mutex)
    BY <1>8 DEF IsList
  <2>2. /\ s.mutex_list \in [AllTask -> Seq(Mutex)] /\ u \in AllTask
        /\ r.mutex_list = [s.mutex_list EXCEPT ![u] = Cons(m, s.mutex_list[u])]
    BY <1>1, <1>2, <1>6 DEF Typed
  <2>3. QED
    BY <2>1, <2>2
<1>11. /\ Typed(r) /\ r.ready = s1.ready /\ r.highest_pri = s1.highest_pri
       /\ r.blk_list = s1.blk_list /\ r.tick_list = s1.tick_list /\ r.task_state = s1.task_state
       /\ r.prio = s1.prio /\ r.blk_obj = s1.blk_obj /\ r.blk_state = s1.blk_state
  BY <1>5, <1>6, <1>9, <1>10 DEF Typed, Keeps, Fields
<1>12. Core(r)
  <2>1. Ready(r) = Ready(s1) /\ Waiting(r) = Waiting(s1) /\ Sleeping(r) = Sleeping(s1)
    BY <1>11 DEF Ready, Waiting, Sleeping
  <2>2. QED
    BY <1>3, <1>11, <2>1, CoreKept
<1>13. Passed(r, s, m, u)
  <2>1. Keeps(r, s, {"blk_list", "ready", "highest_pri", "task_state", "tick_list",
                     "blk_state", "blk_obj", "mutex_task", "mutex_list"})
    BY <1>3, <1>6 DEF Woken, Keeps, Fields
  <2>2. QED
    BY <1>3, <1>6, <1>11, <2>1 DEF Woken, Passed, Moves
<1>14. /\ r.obj_type = s.obj_type /\ r.count = s.count /\ r.b_prio = s.b_prio /\ r.prio = s.prio
       /\ r.blk_obj = [s.blk_obj EXCEPT ![u] = None]
       /\ Moves(r, s, u, IF s.task_state[u] = "PEND" THEN "RDY" ELSE "SUSPENDED")
  BY <1>13 DEF Passed, Keeps, Fields
<1>15. LiveIn(r) = LiveIn(s) \cup {u}
  BY <1>2, <1>14, NowLive
<1>16. Waiting(r) = Waiting(s) \ {u}
  BY <1>2, <1>14, NotWaiting DEF Pended
<1>17. u \in LiveIn(s) /\ LiveIn(r) = LiveIn(s)
  BY <1>2, <1>15 DEF Waiting, LiveIn, Pended
<1>18. \A w \in AllTask \ {u} : r.blk_obj[w] = s.blk_obj[w]
  BY <1>1, <1>2, <1>14 DEF Typed
<1>w. Waiting(s) \subseteq AllTask
  BY DEF Waiting
<1>19. Owners(r, x)
  <2>1. Holds(r, u)
    BY <1>7, <1>8, <1>9, <1>10, <1>14 DEF Holds
  <2>2. ASSUME NEW t \in AllTask \ {x, u} PROVE Holds(r, t)
    BY <1>1, <1>9, <1>10, <1>14 DEF Owners, Holds
  <2>3. ASSUME NEW n \in Mutex \cap r.obj_type
        PROVE  r.mutex_task[n] = None \/ r.mutex_task[n] \in LiveIn(r) \ {Idle}
    BY <1>1, <1>2, <1>9, <1>14, <1>17 DEF Owners
  <2>4. QED
    BY <2>1, <2>2, <2>3 DEF Owners
<1>20. Waits(r, None)
  <2> SUFFICES ASSUME NEW w \in Waiting(r), r.blk_obj[w] # None
               PROVE  LET o == r.blk_obj[w]
                      IN /\ o \in r.obj_type
                         /\ o \in Mutex => r.mutex_task[o] \notin {None, w}
                         /\ o \in Sem => r.count[o] = 0
    BY DEF Waits
  <2>1. w \in Waiting(s) /\ w # u /\ r.blk_obj[w] = s.blk_obj[w]
    BY <1>16, <1>18, <1>w
  <2>2. u # None
    BY <1>2, CoreAssumption DEF AllTask
  <2>3. QED
    BY <1>1, <1>9, <1>14, <2>1, <2>2 DEF Waits
<1>21. Inherit(r, r.b_prio, x)
  <2> SUFFICES ASSUME NEW t \in LiveIn(s) \ {x} PROVE Due(r, r.b_prio, t, r.prio[t])
    BY <1>17 DEF Inherit
  <2>1. Due(s, s.b_prio, t, s.prio[t])
    BY <1>1 DEF Inherit
  <2>2. CASE t # u
    <3>1. ASSUME NEW w \in AllTask PROVE w \in Lenders(r, t) <=> w \in Lenders(s, t)
      <4>1. w = u => w \notin Lenders(r, t) /\ w \notin Lenders(s, t)
        BY <1>2, <1>16 DEF Lenders
      <4>2. w # u => (w \in Lenders(r, t) <=> w \in Lenders(s, t))
        BY <1>9, <1>14, <1>16, <1>18, <2>2 DEF Lenders, IsMutex
      <4>3. QED
        BY <4>1, <4>2
    <3>2. Lenders(r, t) = Lenders(s, t)
      BY <3>1 DEF Lenders
    <3>3. QED
      BY <1>14, <2>1, <3>2 DEF Due
  <2>3. CASE t = u
    <3>1. \A w \in Lenders(r, u) : w \in Lenders(s, u) \/ (w \in Waiting(s) /\ s.blk_obj[w] = m)
      BY <1>9, <1>14, <1>16, <1>18 DEF Lenders, IsMutex
    <3>2. \A w \in Lenders(s, u) : w \in Lenders(r, u)
      <4> SUFFICES ASSUME NEW w \in Lenders(s, u) PROVE w \in Lenders(r, u)
        OBVIOUS
      <4>1. w # u
        BY <1>2, <1>7 DEF Lenders
      <4>2. s.blk_obj[w] # m
        BY <1>7 DEF Lenders
      <4>3. QED
        BY <1>9, <1>14, <1>16, <1>18, <4>1, <4>2 DEF Lenders, IsMutex
    <3>3. \A w \in Lenders(r, u) : s.prio[u] <= s.prio[w]
      BY <1>2, <2>1, <2>3, <3>1 DEF Due
    <3>4. QED
      BY <1>14, <2>1, <2>3, <3>2, <3>3 DEF Due
  <2>4. QED
    BY <2>2, <2>3
<1>22. QED
  BY <1>7, <1>12, <1>13, <1>19, <1>20, <1>21 DEF Kernel, r, u

\* Two kernel states with the same fields.
LEMMA SameState ==
  ASSUME NEW s, NEW r, IsK(s), IsK(r), \A f \in Fields : r[f] = s[f]
  PROVE  r = s
BY DEF IsK

\* The mutex rel leaves the list of task t.
LessList(s, t, rel) == [s EXCEPT !.mutex_list[t] = RemoveFirst(@, rel)]

LEMMA ListLess ==
  ASSUME NEW s, Core(s), NEW t \in AllTask, IsList(s.mutex_list[t], Mutex), NEW rel,
         NEW r, r = LessList(s, t, rel)
  PROVE  /\ Core(r) /\ Keeps(r, s, {"mutex_list"}) /\ IsList(r.mutex_list[t], Mutex)
         /\ ToSet(r.mutex_list[t]) = ToSet(s.mutex_list[t]) \ {rel}
         /\ \A u \in AllTask \ {t} : r.mutex_list[u] = s.mutex_list[u]
         /\ rel \notin ToSet(s.mutex_list[t]) => r = s
<1> DEFINE list == RemoveFirst(s.mutex_list[t], rel)
<1>1. Typed(s)
  BY DEF Core, Queues
<1>2. /\ IsList(list, Mutex) /\ ToSet(list) = ToSet(s.mutex_list[t]) \ {rel}
      /\ rel \notin ToSet(s.mutex_list[t]) => list = s.mutex_list[t]
  BY RemovedElement
<1>3. Keeps(r, s, {"mutex_list"}) /\ r.mutex_list = [s.mutex_list EXCEPT ![t] = list]
  BY <1>1 DEF Typed, IsK, Keeps, Fields, LessList
<1> HIDE DEF list
<1>4. s.mutex_list \in [AllTask -> Seq(Mutex)] /\ list \in Seq(Mutex)
  BY <1>1, <1>2 DEF Typed, IsList
<1>5. /\ r.mutex_list \in [AllTask -> Seq(Mutex)] /\ r.mutex_list[t] = list
      /\ \A u \in AllTask \ {t} : r.mutex_list[u] = s.mutex_list[u]
      /\ list = s.mutex_list[t] => r.mutex_list = s.mutex_list
  BY <1>3, <1>4
<1>6. /\ Typed(r) /\ r.ready = s.ready /\ r.highest_pri = s.highest_pri
      /\ r.blk_list = s.blk_list /\ r.tick_list = s.tick_list /\ r.task_state = s.task_state
      /\ r.prio = s.prio /\ r.blk_obj = s.blk_obj
  BY <1>1, <1>3, <1>5 DEF Typed, Keeps, Fields
<1>7. Core(r)
  <2>1. Ready(r) = Ready(s) /\ Waiting(r) = Waiting(s) /\ Sleeping(r) = Sleeping(s)
    BY <1>6 DEF Ready, Waiting, Sleeping
  <2>2. QED
    BY <1>6, <2>1, CoreKept
<1>8. rel \notin ToSet(s.mutex_list[t]) => r = s
  <2> SUFFICES ASSUME rel \notin ToSet(s.mutex_list[t]) PROVE r = s
    OBVIOUS
  <2>1. r.mutex_list = s.mutex_list
    BY <1>2, <1>5
  <2>2. \A f \in Fields : r[f] = s[f]
    BY <1>3, <2>1 DEF Keeps
  <2>3. IsK(r) /\ IsK(s)
    BY <1>1, <1>6 DEF Typed
  <2>4. QED
    BY <2>2, <2>3, SameState
<1>9. QED
  BY <1>2, <1>3, <1>5, <1>7, <1>8

\* What a task is due is one number.
LEMMA DueOnce ==
  ASSUME NEW s, s.prio \in [AllTask -> Prio], NEW base, NEW t, base[t] \in Prio,
         NEW p, NEW q, Due(s, base, t, p), Due(s, base, t, q)
  PROVE  p = q
<1>1. \A u \in Lenders(s, t) : s.prio[u] \in Nat
  BY PrioFacts DEF Lenders
<1>2. base[t] \in Nat /\ p \in Nat /\ q \in Nat
  BY <1>1, PrioFacts DEF Due
<1>3. p <= q /\ q <= p
  BY <1>1, <1>2 DEF Due
<1>4. QED
  BY <1>2, <1>3

\* Task t runs at the priority it is due when the waiters of m are left out.
DueBut(s, t, m) ==
  LET L == {u \in Lenders(s, t) : s.blk_obj[u] # m}
  IN /\ s.prio[t] <= s.b_prio[t]
     /\ \A u \in L : s.prio[t] <= s.prio[u]
     /\ s.prio[t] = s.b_prio[t] \/ \E u \in L : s.prio[u] = s.prio[t]

\* The first waiters of the mutexes that stay with t.
LEMMA LookBut ==
  ASSUME NEW s, Kernel(s, None, None), NEW t \in AllTask, NEW m \in Mutex,
         m \in s.obj_type, s.mutex_task[m] = t,
         NEW s1, Core(s1), Keeps(s1, s, {"mutex_list"}), IsList(s1.mutex_list[t], Mutex),
         ToSet(s1.mutex_list[t]) = ToSet(s.mutex_list[t]) \ {m}
  PROVE  LET p == mutex_pri_look(s1, t)
             L == {u \in Lenders(s, t) : s.blk_obj[u] # m}
         IN /\ p \in Prio /\ p <= s.b_prio[t] /\ \A u \in L : p <= s.prio[u]
            /\ p = s.b_prio[t] \/ \E u \in L : s.prio[u] = p
<1> DEFINE p == mutex_pri_look(s1, t)
           L == {u \in Lenders(s, t) : s.blk_obj[u] # m}
           f == [s1 EXCEPT !.mutex_task[m] = None]
<1>1. /\ Typed(s1) /\ s1.mutex_task = s.mutex_task /\ s1.obj_type = s.obj_type
      /\ s1.task_state = s.task_state /\ s1.blk_obj = s.blk_obj /\ s1.prio = s.prio
      /\ s1.b_prio = s.b_prio
  BY DEF Core, Queues, Keeps, Fields
<1>2. Keeps(f, s1, {"mutex_task"}) /\ f.mutex_task = [s.mutex_task EXCEPT ![m] = None]
  BY <1>1 DEF Typed, IsK, Keeps, Fields
<1> HIDE DEF f
<1>3. /\ f.mutex_task \in [Mutex -> AllTask \cup {None}] /\ f.mutex_task[m] = None
      /\ \A n \in Mutex \ {m} : f.mutex_task[n] = s.mutex_task[n]
  BY <1>1, <1>2 DEF Typed
<1>4. /\ Typed(f) /\ f.ready = s1.ready /\ f.highest_pri = s1.highest_pri
      /\ f.blk_list = s1.blk_list /\ f.tick_list = s1.tick_list /\ f.task_state = s.task_state
      /\ f.prio = s.prio /\ f.blk_obj = s.blk_obj /\ f.b_prio = s.b_prio
      /\ f.mutex_list = s1.mutex_list /\ f.obj_type = s.obj_type
  BY <1>1, <1>2, <1>3 DEF Typed, Keeps, Fields
<1>5. /\ Ready(f) = Ready(s1) /\ Waiting(f) = Waiting(s1) /\ Sleeping(f) = Sleeping(s1)
      /\ Waiting(f) = Waiting(s)
  BY <1>1, <1>4 DEF Ready, Waiting, Sleeping
<1>6. Core(f)
  BY <1>1, <1>4, <1>5, CoreKept
<1>7. t # None /\ Holds(s, t)
  BY CoreAssumption DEF Kernel, Owners, AllTask
<1>8. Holds(f, t)
  BY <1>3, <1>4, <1>7 DEF Holds
<1>9. mutex_pri_look(f, t) \in Prio /\ Due(f, f.b_prio, t, mutex_pri_look(f, t))
  BY <1>6, <1>8, LookDue DEF Core
<1>10. mutex_pri_look(f, t) = p
  <2>1. /\ f.prio = s1.prio /\ f.blk_list = s1.blk_list /\ f.mutex_list = s1.mutex_list
        /\ f.b_prio = s1.b_prio
    BY <1>1, <1>4
  <2>2. WaiterPrios(f, t) = WaiterPrios(s1, t)
    BY <2>1, Zenon DEF WaiterPrios
  <2>3. QED
    BY <2>1, <2>2, Zenon DEF mutex_pri_look
<1>11. Lenders(f, t) = L
  <2>1. ASSUME NEW u \in AllTask PROVE u \in Lenders(f, t) <=> u \in L
    BY <1>3, <1>4, <1>5, <1>7 DEF Lenders, IsMutex
  <2>2. QED
    BY <2>1 DEF Lenders
<1> HIDE DEF p, L
<1>12. p \in Prio /\ p <= s.b_prio[t] /\ (\A u \in L : p <= s.prio[u])
  BY <1>4, <1>9, <1>10, <1>11 DEF Due
<1>13. p = s.b_prio[t] \/ \E u \in L : s.prio[u] = p
  BY <1>4, <1>9, <1>10, <1>11 DEF Due
<1>14. QED
  BY <1>12, <1>13 DEF p, L

\* mutex_release on the mutex m that the ready task t owns: t's priority is the
\* one it is due without the waiters of m, and stays if there are none.
Releases(r, s, t, m) ==
  /\ Kernel(r, t, None)
  /\ Keeps(r, s, {"prio", "ready", "highest_pri", "mutex_list"})
  /\ IsList(r.mutex_list[t], Mutex) /\ ToSet(r.mutex_list[t]) = ToSet(s.mutex_list[t]) \ {m}
  /\ DueBut(r, t, m)
  /\ \A u \in AllTask \ {t} : r.prio[u] = s.prio[u]
  /\ s.blk_list[m] = <<>> =>
       r.prio = s.prio /\ r.ready = s.ready /\ r.highest_pri = s.highest_pri

LEMMA Released ==
  ASSUME NEW s, Kernel(s, None, None), NEW t \in Ready(s), t # Idle, NEW m \in Mutex,
         m \in s.obj_type, s.mutex_task[m] = t
  PROVE  Releases(mutex_release(s, t, m), s, t, m)
<1> DEFINE s1 == LessList(s, t, m)
           p  == mutex_pri_look(s1, t)
           r  == task_pri_change(s1, t, p)
           L  == {u \in Lenders(s, t) : s.blk_obj[u] # m}
<1>1. Core(s) /\ Typed(s) /\ Owners(s, None) /\ Waits(s, None) /\ Inherit(s, s.b_prio, None)
  BY DEF Kernel, Core, Queues
<1>2. t \in AllTask /\ t # None /\ t \in LiveIn(s) /\ t \notin Waiting(s)
  BY CoreAssumption DEF Ready, AllTask, LiveIn, Waiting, Pended
<1>3. Holds(s, t)
  BY <1>1, <1>2 DEF Owners
<1>4. /\ Core(s1) /\ Keeps(s1, s, {"mutex_list"}) /\ IsList(s1.mutex_list[t], Mutex)
      /\ ToSet(s1.mutex_list[t]) = ToSet(s.mutex_list[t]) \ {m}
      /\ \A u \in AllTask \ {t} : s1.mutex_list[u] = s.mutex_list[u]
  <2>1. IsList(s.mutex_list[t], Mutex)
    BY <1>3 DEF Holds
  <2>2. QED
    BY <1>1, <1>2, <2>1, ListLess
<1>5. /\ p \in Prio /\ p <= s.b_prio[t] /\ \A u \in L : p <= s.prio[u]
      /\ p = s.b_prio[t] \/ \E u \in L : s.prio[u] = p
  <2> HIDE DEF s1
  <2>1. QED
    BY <1>2, <1>4, LookBut
<1>6. mutex_release(s, t, m) = r
  BY DEF mutex_release, LessList
<1> HIDE DEF s1, p, L, r
<1>7. /\ s1.task_state = s.task_state /\ s1.prio = s.prio /\ s1.blk_list = s.blk_list
      /\ s1.ready = s.ready /\ s1.highest_pri = s.highest_pri /\ Typed(s1)
  BY <1>4 DEF Keeps, Fields, Core, Queues
<1>8. t \in Ready(s1)
  BY <1>7 DEF Ready
<1>9. IF p = s1.prio[t] THEN r = s1 ELSE Repri(r, s1, t, p)
  BY <1>4, <1>5, <1>8, PriChangedReady DEF r
<1>10. /\ Core(r) /\ Keeps(r, s1, {"prio", "ready", "highest_pri"})
       /\ r.prio = [s.prio EXCEPT ![t] = p]
  <2>1. CASE p = s1.prio[t]
    <3>1. r = s1
      BY <1>9, <2>1
    <3>2. s.prio \in [AllTask -> Prio] /\ p = s.prio[t]
      BY <1>1, <1>7, <2>1 DEF Typed
    <3>3. r.prio = [s.prio EXCEPT ![t] = p]
      BY <1>7, <3>1, <3>2
    <3>4. Keeps(r, s1, {"prio", "ready", "highest_pri"})
      BY <1>4, <3>1 DEF Keeps
    <3>5. QED
      BY <1>4, <3>1, <3>3, <3>4
  <2>2. CASE p # s1.prio[t]
    <3>1. Repri(r, s1, t, p)
      BY <1>9, <2>2
    <3>2. QED
      BY <1>7, <1>8, <3>1 DEF Repri, Keeps, Fields
  <2>3. QED
    BY <2>1, <2>2
<1>11. Keeps(r, s, {"prio", "ready", "highest_pri", "mutex_list"})
  BY <1>4, <1>10 DEF Keeps, Fields
<1>12. /\ r.mutex_list = s1.mutex_list /\ r.task_state = s.task_state /\ r.obj_type = s.obj_type
       /\ r.mutex_task = s.mutex_task /\ r.count = s.count /\ r.blk_obj = s.blk_obj
       /\ r.b_prio = s.b_prio
  BY <1>10, <1>11 DEF Keeps, Fields
<1>13. r.prio[t] = p /\ \A u \in AllTask \ {t} : r.prio[u] = s.prio[u]
  BY <1>1, <1>2, <1>10 DEF Typed
<1>14. LiveIn(r) = LiveIn(s) /\ Waiting(r) = Waiting(s)
  BY <1>12 DEF LiveIn, Waiting
<1>15. Owners(r, t)
  <2>1. \A u \in AllTask \ {t} : Holds(s, u) => Holds(r, u)
    BY <1>4, <1>12 DEF Holds
  <2>2. \A u \in AllTask : u # None
    BY CoreAssumption DEF AllTask
  <2>3. QED
    BY <1>1, <1>12, <1>14, <2>1, <2>2 DEF Owners
<1>16. Waits(r, None)
  BY <1>1, <1>12, <1>14, WaitsKept
<1>17. \A x : Lenders(r, x) = Lenders(s, x)
  BY <1>12, <1>14, LendersKept DEF IsMutex
<1>18. Inherit(r, r.b_prio, t)
  <2> SUFFICES ASSUME NEW x \in LiveIn(s) \ {t} PROVE Due(r, s.b_prio, x, r.prio[x])
    BY <1>12, <1>14 DEF Inherit
  <2>1. x \in AllTask /\ x # None
    BY CoreAssumption DEF LiveIn, AllTask
  <2>2. Due(s, s.b_prio, x, s.prio[x])
    BY <1>1, <2>1 DEF Inherit
  <2>3. \A u \in Lenders(s, x) : r.prio[u] = s.prio[u]
    BY <1>2, <1>13 DEF Lenders
  <2>4. r.prio[x] = s.prio[x]
    BY <1>13, <2>1
  <2>5. QED
    BY <1>17, <2>2, <2>3, <2>4, DueElsewhere
<1>19. DueBut(r, t, m)
  <2>1. L = {u \in Lenders(r, t) : r.blk_obj[u] # m}
    BY <1>12, <1>17 DEF L
  <2>2. \A u \in L : r.prio[u] = s.prio[u]
    BY <1>2, <1>13 DEF Lenders, L
  <2>3. QED
    BY <1>5, <1>12, <1>13, <2>1, <2>2 DEF DueBut
<1>20. ASSUME s.blk_list[m] = <<>>
       PROVE  r.prio = s.prio /\ r.ready = s.ready /\ r.highest_pri = s.highest_pri
  <2>1. \A u \in Lenders(s, t) : s.blk_obj[u] # m
    <3> SUFFICES ASSUME NEW u \in Lenders(s, t), s.blk_obj[u] = m PROVE FALSE
      OBVIOUS
    <3>1. u \in AllTask /\ u \in Waiting(s) /\ m \in Object
      BY DEF Lenders, Object
    <3>2. u \in ToSet(s.blk_list[m]) /\ s.blk_list[m] \in Seq(AllTask)
      BY <1>1, <3>1 DEF Core, Queues, Blocks, Typed
    <3>3. QED
      BY <1>20, <3>2, InList
  <2>2. L = Lenders(s, t)
    BY <2>1 DEF L
  <2>3. Due(s, s.b_prio, t, p)
    BY <1>5, <2>2 DEF Due
  <2>4. Due(s, s.b_prio, t, s.prio[t])
    BY <1>1, <1>2 DEF Inherit
  <2>5. s.prio \in [AllTask -> Prio] /\ s.b_prio[t] \in Prio
    BY <1>1, <1>2 DEF Typed
  <2>6. p = s.prio[t]
    BY <2>3, <2>4, <2>5, DueOnce
  <2>7. r = s1
    BY <1>7, <1>9, <2>6
  <2>8. QED
    BY <1>7, <2>7
<1>21. QED
  BY <1>4, <1>6, <1>10, <1>11, <1>12, <1>13, <1>15, <1>16, <1>18, <1>19, <1>20 DEF Kernel, Releases

\* krhino_mutex_unlock, once the nesting count is zero.
LEMMA Unlocked ==
  ASSUME NEW s, Kernel(s, None, None), NEW t \in Ready(s), t # Idle, NEW m \in Mutex,
         m \in s.obj_type, s.mutex_task[m] = t
  PROVE  LET s2 == mutex_release(s, t, m)
             r  == HandOver(s2, m)
         IN /\ Releases(s2, s, t, m) /\ Kernel(r, None, None)
            /\ s2.blk_list = s.blk_list
            /\ IF s.blk_list[m] = <<>>
                 THEN /\ Keeps(r, s, {"mutex_task", "mutex_list"})
                      /\ r.mutex_task = [s.mutex_task EXCEPT ![m] = None]
                 ELSE Passed(r, s2, m, Head(s.blk_list[m]))
<1> DEFINE s2 == mutex_release(s, t, m)
           r  == HandOver(s2, m)
           u  == Head(s.blk_list[m])
<1>1. Releases(s2, s, t, m)
  BY Released
<1> HIDE DEF s2
<1>2. /\ Kernel(s2, t, None) /\ Keeps(s2, s, {"prio", "ready", "highest_pri", "mutex_list"})
      /\ IsList(s2.mutex_list[t], Mutex) /\ ToSet(s2.mutex_list[t]) = ToSet(s.mutex_list[t]) \ {m}
      /\ DueBut(s2, t, m)
  BY <1>1 DEF Releases
<1>3. /\ s2.blk_list = s.blk_list /\ s2.mutex_task = s.mutex_task /\ s2.obj_type = s.obj_type
      /\ s2.task_state = s.task_state /\ s2.blk_obj = s.blk_obj
  BY <1>2 DEF Keeps, Fields
<1>4. t \in AllTask /\ t # None /\ Holds(s, t)
  BY CoreAssumption DEF Ready, AllTask, Kernel, Owners
<1>5. Typed(s) /\ Typed(s2) /\ Core(s2)
  BY <1>2 DEF Kernel, Core, Queues
<1>6. CASE s.blk_list[m] = <<>>
  <2>1. /\ Kernel(r, t, None) /\ Keeps(r, s2, {"mutex_task"})
        /\ r.mutex_task = [s2.mutex_task EXCEPT ![m] = None]
    BY <1>2, <1>3, <1>4, <1>6, Freed
  <2> HIDE DEF r
  <2>2. r.mutex_task[m] = None /\ \A n \in Mutex \ {m} : r.mutex_task[n] = s.mutex_task[n]
    BY <1>3, <1>5, <2>1 DEF Typed
  <2>3. /\ r.mutex_list = s2.mutex_list /\ r.obj_type = s.obj_type /\ r.blk_obj = s2.blk_obj
        /\ r.prio = s2.prio /\ r.b_prio = s2.b_prio /\ r.task_state = s2.task_state
    BY <1>3, <2>1 DEF Keeps, Fields
  <2>4. Holds(r, t)
    BY <1>2, <1>4, <2>2, <2>3 DEF Holds
  <2>5. Lenders(r, t) = {w \in Lenders(s2, t) : s2.blk_obj[w] # m}
    <3>1. Waiting(r) = Waiting(s2)
      BY <2>3 DEF Waiting
    <3>2. ASSUME NEW w \in AllTask
          PROVE  w \in Lenders(r, t) <=> w \in Lenders(s2, t) /\ s2.blk_obj[w] # m
      BY <1>3, <1>4, <2>2, <2>3, <3>1 DEF Lenders, IsMutex
    <3>3. QED
      BY <3>2 DEF Lenders
  <2>6. Due(r, r.b_prio, t, r.prio[t])
    BY <1>2, <2>3, <2>5 DEF Due, DueBut
  <2>7. Kernel(r, None, None)
    BY <2>1, <2>4, <2>6, KernelWhole
  <2>8. s2.prio = s.prio /\ s2.ready = s.ready /\ s2.highest_pri = s.highest_pri
    BY <1>1, <1>6 DEF Releases
  <2>9. Keeps(r, s, {"mutex_task", "mutex_list"})
    BY <1>2, <2>1, <2>8 DEF Keeps, Fields
  <2>10. QED
    BY <1>1, <1>3, <1>6, <2>1, <2>7, <2>9 DEF r, s2
<1>7. CASE s.blk_list[m] # <<>>
  <2>1. Kernel(r, t, None) /\ Passed(r, s2, m, u) /\ u # t
    BY <1>2, <1>3, <1>4, <1>7, PassedOn
  <2>2. u \in Waiting(s2) /\ u \in AllTask /\ s2.blk_obj[u] = m
    BY <1>3, <1>5, <1>7, FirstWaiter DEF Object
  <2> HIDE DEF r, u
  <2>3. r.mutex_task[m] = u /\ \A n \in Mutex \ {m} : r.mutex_task[n] = s.mutex_task[n]
    BY <1>3, <1>5, <2>1, <2>2 DEF Typed, Passed
  <2>4. r.mutex_list[t] = s2.mutex_list[t]
    BY <1>4, <1>5, <2>1, <2>2 DEF Typed, Passed
  <2>5. /\ r.obj_type = s.obj_type /\ r.prio = s2.prio /\ r.b_prio = s2.b_prio
        /\ Moves(r, s2, u, IF s2.task_state[u] = "PEND" THEN "RDY" ELSE "SUSPENDED")
    BY <1>3, <2>1 DEF Passed, Keeps, Fields
  <2>6. Holds(r, t)
    BY <1>2, <1>4, <2>1, <2>3, <2>4, <2>5 DEF Holds
  <2>7. Waiting(r) = Waiting(s2) \ {u}
    BY <2>2, <2>5, NotWaiting DEF Pended
  <2>8. \A w \in AllTask \ {u} : r.blk_obj[w] = s2.blk_obj[w]
    BY <1>5, <2>1, <2>2 DEF Typed, Passed
  <2>9. Lenders(r, t) = {w \in Lenders(s2, t) : s2.blk_obj[w] # m}
    <3>1. ASSUME NEW w \in AllTask, w # u
          PROVE  w \in Lenders(r, t) <=> w \in Lenders(s2, t) /\ s2.blk_obj[w] # m
      BY <1>3, <1>4, <2>1, <2>3, <2>5, <2>7, <2>8, <3>1 DEF Lenders, IsMutex
    <3>2. u \notin Lenders(r, t)
      BY <2>7 DEF Lenders
    <3>3. QED
      BY <2>2, <3>1, <3>2 DEF Lenders
  <2>10. Due(r, r.b_prio, t, r.prio[t])
    BY <1>2, <2>5, <2>9 DEF Due, DueBut
  <2>11. Kernel(r, None, None)
    BY <2>1, <2>6, <2>10, KernelWhole
  <2>12. QED
    BY <1>1, <1>3, <1>7, <2>1, <2>11 DEF r, s2, u
<1>8. QED
  BY <1>6, <1>7

-----------------------------------------------------------------------------
(***************************************************************************)
(* What most calls have in common: nobody gets or loses a mutex.           *)
(***************************************************************************)

\* Task t waits or sleeps as it did; or its wait is over and no mutex was
\* granted; or its sleep is over.
Same(r, s, t) ==
  /\ t \in Waiting(r) <=> t \in Waiting(s)
  /\ t \in Sleeping(r) <=> t \in Sleeping(s)
  /\ r.blk_obj[t] = s.blk_obj[t] /\ r.blk_state[t] = s.blk_state[t]

Ends(r, s, t) ==
  /\ t \in Waiting(s) /\ t \notin Waiting(r) /\ t \notin Sleeping(r)
  /\ r.blk_obj[t] = None
  /\ r.blk_state[t] # "FINISH" \/ s.blk_obj[t] \notin Mutex

Rises(r, s, t) ==
  /\ t \in Sleeping(s) /\ t \notin Waiting(r) /\ t \notin Sleeping(r)
  /\ r.blk_obj[t] = s.blk_obj[t]

Calm(r, s) ==
  /\ \A t \in AllTask : Same(r, s, t) \/ Ends(r, s, t) \/ Rises(r, s, t)
  /\ LiveIn(r) = LiveIn(s) /\ r.obj_type \subseteq s.obj_type
  /\ r.mutex_task = s.mutex_task /\ r.owner_nested = s.owner_nested
  /\ r.active = s.active /\ r.sched_lock = s.sched_lock

\* Besides, nobody is suspended or resumed, and the running task stays ready.
Mild(r, s) ==
  /\ Calm(r, s) /\ r.count = s.count /\ r.suspend_count = s.suspend_count
  /\ \A t \in AllTask : r.task_state[t] \in Suspended => s.task_state[t] \in Suspended
  /\ Ready(s) \subseteq Ready(r)

LEMMA SleepOrWait == \A s : Sleeping(s) \cap Waiting(s) = {} /\ Ready(s) \cap Waiting(s) = {}
BY DEF Sleeping, Waiting, Pended, Ready

LEMMA CalmTwice ==
  ASSUME NEW s, NEW r, NEW q, Calm(r, s), Calm(q, r)
  PROVE  Calm(q, s)
<1>1. ASSUME NEW t \in AllTask PROVE Same(q, s, t) \/ Ends(q, s, t) \/ Rises(q, s, t)
  <2>1. Same(r, s, t) \/ Ends(r, s, t) \/ Rises(r, s, t)
    BY DEF Calm
  <2>2. Same(q, r, t) \/ Ends(q, r, t) \/ Rises(q, r, t)
    BY DEF Calm
  <2>3. QED
    BY <2>1, <2>2, SleepOrWait DEF Same, Ends, Rises
<1>2. QED
  BY <1>1 DEF Calm

LEMMA MildTwice ==
  ASSUME NEW s, NEW r, NEW q, Mild(r, s), Mild(q, r)
  PROVE  Mild(q, s)
<1>1. Calm(q, s)
  BY CalmTwice DEF Mild
<1>2. QED
  BY <1>1 DEF Mild

LEMMA MildSame ==
  ASSUME NEW s, NEW r, r.task_state = s.task_state,
         \A t \in AllTask : r.blk_obj[t] = s.blk_obj[t] /\ r.blk_state[t] = s.blk_state[t],
         r.obj_type \subseteq s.obj_type, r.mutex_task = s.mutex_task,
         r.owner_nested = s.owner_nested, r.active = s.active, r.sched_lock = s.sched_lock
  PROVE  /\ Calm(r, s)
         /\ r.count = s.count /\ r.suspend_count = s.suspend_count => Mild(r, s)
<1>1. /\ Waiting(r) = Waiting(s) /\ Sleeping(r) = Sleeping(s) /\ LiveIn(r) = LiveIn(s)
      /\ Ready(r) = Ready(s)
  BY DEF Waiting, Sleeping, LiveIn, Ready
<1>2. Calm(r, s)
  BY <1>1 DEF Calm, Same
<1>3. QED
  BY <1>1, <1>2 DEF Mild

LEMMA MildSettling ==
  ASSUME NEW s, NEW r, Settling(r, s)
  PROVE  Mild(r, s)
BY MildSame DEF Settling, Keeps, Fields

LEMMA MildAwake ==
  ASSUME NEW s, NEW r, NEW A, A \subseteq Waiting(s), NEW result, Awake(r, s, A, result),
         result # "FINISH" \/ \A t \in A : s.blk_obj[t] \notin Mutex
  PROVE  Mild(r, s)
<1>1. /\ r.obj_type = s.obj_type /\ r.mutex_task = s.mutex_task
      /\ r.owner_nested = s.owner_nested /\ r.active = s.active /\ r.sched_lock = s.sched_lock
      /\ r.count = s.count /\ r.suspend_count = s.suspend_count
  BY DEF Awake, Keeps, Fields
<1>2. A \subseteq AllTask
  BY DEF Waiting
<1>3. ASSUME NEW t \in AllTask
      PROVE  /\ Same(r, s, t) \/ Ends(r, s, t) \/ Rises(r, s, t)
             /\ t \in LiveIn(r) <=> t \in LiveIn(s)
             /\ r.task_state[t] \in Suspended => s.task_state[t] \in Suspended
             /\ t \in Ready(s) => t \in Ready(r)
  <2>1. CASE t \in A
    <3>1. /\ r.task_state[t] = IF s.task_state[t] = "PEND" THEN "RDY" ELSE "SUSPENDED"
          /\ r.blk_state[t] = result /\ r.blk_obj[t] = None /\ s.task_state[t] \in Pended
      BY <2>1 DEF Awake, Waiting
    <3>2. Ends(r, s, t)
      BY <2>1, <3>1 DEF Ends, Waiting, Pended, Sleeping
    <3>3. QED
      BY <3>1, <3>2 DEF LiveIn, Suspended, Ready, Pended
  <2>2. CASE t \notin A
    BY <2>2 DEF Awake, Same, Waiting, Sleeping, LiveIn, Ready
  <2>3. QED
    BY <2>1, <2>2
<1>4. LiveIn(r) = LiveIn(s)
  BY <1>3 DEF LiveIn
<1>5. Ready(s) \subseteq Ready(r)
  BY <1>3 DEF Ready
<1>6. QED
  BY <1>1, <1>3, <1>4, <1>5 DEF Mild, Calm

LEMMA AwakeAlone ==
  ASSUME NEW s, NEW t \in AllTask, NEW result, NEW r, Woken(r, s, t, result), Typed(s)
  PROVE  Awake(r, s, {t}, result)
<1>1. /\ s.blk_state \in [AllTask -> Result] /\ s.blk_obj \in [AllTask -> Object \cup {None}]
  BY DEF Typed, Result
<1>2. /\ r.blk_state = [s.blk_state EXCEPT ![t] = result]
      /\ r.blk_obj = [s.blk_obj EXCEPT ![t] = None]
      /\ Moves(r, s, t, IF s.task_state[t] = "PEND" THEN "RDY" ELSE "SUSPENDED")
  BY DEF Woken
<1>3. QED
  BY <1>1, <1>2 DEF Awake, Woken, Moves

\* Everyone but w has the priority he is due: task_pri_change with what the
\* waiters of w's mutexes say mends that.
LEMMA Looked ==
  ASSUME NEW s, NEW z, Core(s), Owners(s, None), Waits(s, z), ~IsMutex(s, z),
         NEW w \in LiveIn(s), w # Idle, Inherit(s, s.b_prio, w)
  PROVE  LET r == task_pri_change(s, w, mutex_pri_look(s, w))
         IN Kernel(r, None, z) /\ Settling(r, s)
<1> DEFINE p == mutex_pri_look(s, w)
           r == task_pri_change(s, w, p)
<1>1. w \in AllTask /\ w # None
  BY CoreAssumption DEF LiveIn, AllTask
<1>2. Holds(s, w)
  BY <1>1 DEF Owners
<1>3. p \in Prio /\ Due(s, s.b_prio, w, p)
  BY <1>1, <1>2, LookDue DEF Core
<1>4. Chain(s)
  BY ChainSound
<1>5. s.b_prio \in [AllTask -> Prio]
  BY DEF Core, Queues, Typed
<1> HIDE DEF p
<1>6. Off(r, s, w, p, s.b_prio)
  BY <1>3, <1>4, <1>5, PriChanged
<1>7. Settling(r, s) /\ Inherit(r, s.b_prio, None)
  BY <1>6 DEF Off
<1> HIDE DEF r
<1>8. Kernel(r, None, z)
  BY <1>7, KernelSettled
<1>9. QED
  BY <1>7, <1>8 DEF r, p

LEMMA SettledAlready ==
  ASSUME NEW s, Core(s) PROVE Settling(s, s)
BY DEF Settling, Core, Queues, Typed, Keeps

\* mutex_task_pri_reset on the task t that was waiting in s0 and is not in s:
\* the owner of what it waited for has the priority it is due.
LEMMA PriReset ==
  ASSUME NEW s0, NEW x, Kernel(s0, x, None), NEW t \in Waiting(s0),
         NEW s, Core(s), Owners(s, None), Waits(s, None),
         Waiting(s) = Waiting(s0) \ {t}, LiveIn(s) \subseteq LiveIn(s0) \ {x},
         s.prio = s0.prio, s.b_prio = s0.b_prio, s.mutex_task = s0.mutex_task,
         s.obj_type = s0.obj_type, s.blk_obj = s0.blk_obj
  PROVE  LET r == mutex_task_pri_reset(s, t)
         IN Kernel(r, None, None) /\ Settling(r, s)
<1> DEFINE o == s.blk_obj[t]
           w == s.mutex_task[o]
           r == mutex_task_pri_reset(s, t)
<1>1. Inherit(s0, s0.b_prio, x) /\ Waits(s0, None)
  BY DEF Kernel
<1>2. ASSUME NEW y PROVE Lenders(s, y) = Lenders(s0, y) \ {t}
  <2>1. ASSUME NEW u PROVE u \in Lenders(s, y) <=> u \in Lenders(s0, y) \ {t}
    BY DEF Lenders, IsMutex
  <2>2. QED
    BY <2>1
<1>3. \A y \in LiveIn(s) : Due(s0, s.b_prio, y, s.prio[y])
  BY <1>1 DEF Inherit
<1>4. \A y \in LiveIn(s) : t \notin Lenders(s0, y) => Due(s, s.b_prio, y, s.prio[y])
  <2> SUFFICES ASSUME NEW y \in LiveIn(s), t \notin Lenders(s0, y)
               PROVE  Due(s, s.b_prio, y, s.prio[y])
    OBVIOUS
  <2>1. Lenders(s, y) = Lenders(s0, y)
    BY <1>2
  <2>2. QED
    BY <1>3, <2>1, DueElsewhere
<1>5. Inherit(s, s.b_prio, None) => Kernel(s, None, None)
  BY DEF Kernel
<1>6. CASE ~IsMutex(s, o)
  <2>1. \A y : t \notin Lenders(s0, y)
    BY <1>6 DEF Lenders, IsMutex
  <2>2. Inherit(s, s.b_prio, None)
    BY <1>4, <2>1 DEF Inherit
  <2>3. r = s
    BY <1>6 DEF mutex_task_pri_reset
  <2>4. QED
    BY <1>5, <2>2, <2>3, SettledAlready
<1>7. CASE IsMutex(s, o)
  <2>1. o # None /\ o \in Mutex /\ o \in s.obj_type
    BY <1>7, CoreAssumption DEF IsMutex
  <2>2. w \notin {None, t}
    BY <1>1, <2>1 DEF Waits
  <2>3. w \in LiveIn(s) /\ w # Idle
    BY <2>1, <2>2 DEF Owners
  <2>4. \A y : t \in Lenders(s0, y) => y = w
    BY DEF Lenders
  <2>5. Inherit(s, s.b_prio, w)
    BY <1>4, <2>4 DEF Inherit
  <2>6. CASE s.prio[w] # s.prio[t]
    <3>1. Due(s0, s.b_prio, w, s.prio[w])
      BY <1>3, <2>3
    <3>2. Due(s, s.b_prio, w, s.prio[w])
      BY <1>2, <2>6, <3>1 DEF Due
    <3>3. Inherit(s, s.b_prio, None)
      BY <2>5, <3>2 DEF Inherit
    <3>4. r = s
      BY <1>7, <2>6 DEF mutex_task_pri_reset
    <3>5. QED
      BY <1>5, <3>3, <3>4, SettledAlready
  <2>7. CASE s.prio[w] = s.prio[t]
    <3>1. r = mutex_release(s, w, None)
      BY <1>7, <2>7 DEF mutex_task_pri_reset
    <3>2. w \in AllTask
      BY <2>3 DEF LiveIn
    <3> HIDE DEF w, r
    <3>3. Holds(s, w)
      BY <2>2, <3>2 DEF Owners
    <3>4. None \notin ToSet(s.mutex_list[w]) /\ IsList(s.mutex_list[w], Mutex)
      BY <3>3, CoreAssumption, InList DEF Holds, IsList
    <3>5. LessList(s, w, None) = s
      BY <3>2, <3>4, ListLess
    <3>6. r = task_pri_change(s, w, mutex_pri_look(s, w))
      <4>1. r = task_pri_change(LessList(s, w, None), w, mutex_pri_look(LessList(s, w, None), w))
        BY <3>1 DEF mutex_release, LessList
      <4>2. QED
        BY <3>5, <4>1
    <3>7. Kernel(r, None, None) /\ Settling(r, s)
      BY <2>3, <2>5, <3>6, Looked, NoneNoMutex
    <3>8. QED
      BY <3>7 DEF r
  <2>8. QED
    BY <2>6, <2>7
<1>8. QED
  BY <1>6, <1>7

\* krhino_mutex_del before the waits end: the object o is deleted, and its owner
\* gives back what it was lent.
Deleted(s, o) == [s EXCEPT !.obj_type = @ \ {o}]

MutexGone(s, m) ==
  IF s.mutex_task[m] = None THEN Deleted(s, m)
  ELSE mutex_release(Deleted(s, m), s.mutex_task[m], m)

LEMMA ObjectDeleted ==
  ASSUME NEW s, Core(s), NEW o, NEW s1, s1 = Deleted(s, o)
  PROVE  /\ Core(s1) /\ Keeps(s1, s, {"obj_type"}) /\ s1.obj_type = s.obj_type \ {o}
         /\ Ready(s1) = Ready(s) /\ Waiting(s1) = Waiting(s) /\ Sleeping(s1) = Sleeping(s)
         /\ LiveIn(s1) = LiveIn(s)
<1>1. Typed(s)
  BY DEF Core, Queues
<1>2. Keeps(s1, s, {"obj_type"}) /\ s1.obj_type = s.obj_type \ {o}
  BY <1>1 DEF Typed, IsK, Keeps, Fields, Deleted
<1>3. /\ Typed(s1) /\ s1.ready = s.ready /\ s1.highest_pri = s.highest_pri
      /\ s1.blk_list = s.blk_list /\ s1.tick_list = s.tick_list /\ s1.task_state = s.task_state
      /\ s1.prio = s.prio /\ s1.blk_obj = s.blk_obj
  BY <1>1, <1>2 DEF Typed, Keeps, Fields
<1>4. /\ Ready(s1) = Ready(s) /\ Waiting(s1) = Waiting(s) /\ Sleeping(s1) = Sleeping(s)
      /\ LiveIn(s1) = LiveIn(s)
  BY <1>3 DEF Ready, Waiting, Sleeping, LiveIn
<1>5. Core(s1)
  BY <1>3, <1>4, CoreKept
<1>6. QED
  BY <1>2, <1>4, <1>5

\* krhino_mutex_del: the owner gives back what it was lent, and every wait ends.
LEMMA MutexDeleted ==
  ASSUME NEW s, Kernel(s, None, None), NEW m \in Mutex, m \in s.obj_type
  PROVE  LET r == PendAllRm(MutexGone(s, m), m)
         IN Kernel(r, None, None) /\ Mild(r, s) /\ r.obj_type = s.obj_type \ {m}
<1> DEFINE s1 == Deleted(s, m)
           s2 == MutexGone(s, m)
           r == PendAllRm(s2, m)
           w == s.mutex_task[m]
<1>1. Core(s) /\ Typed(s) /\ Owners(s, None) /\ Waits(s, None) /\ Inherit(s, s.b_prio, None)
  BY DEF Kernel, Core, Queues
<1>2. Keeps(s1, s, {"obj_type"}) /\ s1.obj_type = s.obj_type \ {m}
  BY <1>1, ObjectDeleted
<1>4. Waiting(s1) = Waiting(s) /\ LiveIn(s1) = LiveIn(s)
  BY <1>1, ObjectDeleted
<1>5. Core(s1)
  BY <1>1, ObjectDeleted
<1>s. s2 = IF w = None THEN s1 ELSE mutex_release(s1, w, m)
  BY DEF MutexGone
<1> HIDE DEF s1, s2, w
<1>w. w = s.mutex_task[m]
  BY DEF w
<1>3. /\ s1.task_state = s.task_state
      /\ s1.prio = s.prio /\ s1.blk_obj = s.blk_obj /\ s1.b_prio = s.b_prio
      /\ s1.mutex_task = s.mutex_task /\ s1.mutex_list = s.mutex_list /\ s1.count = s.count
  BY <1>2 DEF Keeps, Fields
<1>6. Waits(s1, m)
  BY <1>1, <1>2, <1>3, <1>4, CoreAssumption DEF Waits, Core, Queues, Object
<1>7. ~IsMutex(s1, m)
  BY <1>2 DEF IsMutex
<1>8. \A t \in AllTask \ {w} : Holds(s1, t)
  <2> SUFFICES ASSUME NEW t \in AllTask \ {w} PROVE Holds(s1, t)
    OBVIOUS
  <2>1. Holds(s, t)
    BY <1>1, CoreAssumption DEF Owners, AllTask
  <2>2. QED
    BY <1>2, <1>3, <1>w, <2>1 DEF Holds
<1>9. \A n \in Mutex \cap s1.obj_type :
        s1.mutex_task[n] = None \/ s1.mutex_task[n] \in LiveIn(s1) \ {Idle}
  BY <1>1, <1>2, <1>3, <1>4 DEF Owners
<1>10. \A x : x # w => Lenders(s1, x) = Lenders(s, x)
  <2> SUFFICES ASSUME NEW x, x # w PROVE Lenders(s1, x) = Lenders(s, x)
    OBVIOUS
  <2>1. ASSUME NEW u PROVE u \in Lenders(s1, x) <=> u \in Lenders(s, x)
    BY <1>2, <1>3, <1>4, <1>w DEF Lenders, IsMutex
  <2>2. QED
    BY <2>1
<1>11. Inherit(s1, s1.b_prio, w)
  <2> SUFFICES ASSUME NEW x \in LiveIn(s) \ {w} PROVE Due(s1, s.b_prio, x, s1.prio[x])
    BY <1>3, <1>4 DEF Inherit
  <2>1. Due(s, s.b_prio, x, s.prio[x])
    BY <1>1, CoreAssumption DEF Inherit, LiveIn, AllTask
  <2>2. QED
    BY <1>3, <1>10, <2>1, DueElsewhere
<1>12. Kernel(s2, None, m) /\ Keeps(s2, s1, {"prio", "ready", "highest_pri", "blk_list", "mutex_list"})
  <2>1. CASE w = None
    <3>1. s2 = s1
      BY <1>s, <2>1
    <3>2. Keeps(s1, s1, {"prio", "ready", "highest_pri", "blk_list", "mutex_list"})
      BY <1>2 DEF Keeps
    <3>3. Owners(s1, None)
      BY <1>8, <1>9, <2>1 DEF Owners
    <3>4. QED
      BY <1>5, <1>6, <1>11, <2>1, <3>1, <3>2, <3>3 DEF Kernel
  <2>2. CASE w # None
    <3> DEFINE q == LessList(s1, w, m)
    <3>1. s2 = task_pri_change(q, w, mutex_pri_look(q, w))
      BY <1>s, <2>2 DEF mutex_release, LessList
    <3>2. w \in LiveIn(s) /\ w # Idle /\ w \in AllTask
      BY <1>1, <1>w, <2>2 DEF Owners, LiveIn
    <3>3. Holds(s, w)
      BY <1>1, <2>2, <3>2 DEF Owners
    <3>4. IsList(s1.mutex_list[w], Mutex)
      BY <1>3, <3>3 DEF Holds
    <3>5. /\ Core(q) /\ Keeps(q, s1, {"mutex_list"}) /\ IsList(q.mutex_list[w], Mutex)
          /\ ToSet(q.mutex_list[w]) = ToSet(s1.mutex_list[w]) \ {m}
          /\ \A u \in AllTask \ {w} : q.mutex_list[u] = s1.mutex_list[u]
      BY <1>5, <3>2, <3>4, ListLess
    <3> HIDE DEF q
    <3>6. /\ q.obj_type = s1.obj_type /\ q.mutex_task = s1.mutex_task /\ q.task_state = s1.task_state
          /\ q.blk_obj = s1.blk_obj /\ q.count = s1.count /\ q.prio = s1.prio /\ q.b_prio = s1.b_prio
      BY <3>5 DEF Keeps, Fields
    <3>7. LiveIn(q) = LiveIn(s1) /\ Waiting(q) = Waiting(s1)
      BY <3>6 DEF LiveIn, Waiting
    <3>8. Holds(q, w)
      BY <1>2, <1>3, <1>w, <3>3, <3>5, <3>6 DEF Holds
    <3>9. \A t \in AllTask \ {w} : Holds(q, t)
      BY <1>8, <3>5, <3>6 DEF Holds
    <3>10. Owners(q, None)
      BY <1>9, <3>6, <3>7, <3>8, <3>9 DEF Owners
    <3>11. Waits(q, m)
      BY <1>6, <3>6, <3>7, WaitsKept
    <3>12. \A x : Lenders(q, x) = Lenders(s1, x)
      BY <3>6, <3>7, LendersKept DEF IsMutex
    <3>13. Inherit(q, q.b_prio, w)
      BY <1>11, <3>6, <3>7, <3>12, InheritKept
    <3>14. ~IsMutex(q, m)
      BY <1>7, <3>6 DEF IsMutex
    <3>15. Kernel(s2, None, m) /\ Settling(s2, q)
      BY <1>4, <3>1, <3>2, <3>5, <3>7, <3>10, <3>11, <3>13, <3>14, Looked
    <3>16. QED
      BY <3>5, <3>15 DEF Settling, Keeps, Fields
  <2>3. QED
    BY <2>1, <2>2
<1>13. /\ s2.obj_type = s1.obj_type /\ s2.task_state = s.task_state /\ s2.blk_obj = s.blk_obj
       /\ s2.blk_state = s.blk_state /\ s2.mutex_task = s.mutex_task
       /\ s2.owner_nested = s.owner_nested /\ s2.active = s.active /\ s2.count = s.count
       /\ s2.sched_lock = s.sched_lock /\ s2.suspend_count = s.suspend_count
  BY <1>2, <1>12 DEF Keeps, Fields
<1>14. Mild(s2, s)
  BY <1>2, <1>13, MildSame
<1>15. m \in Object /\ ~IsMutex(s2, m) /\ "DEL" \in Result
  BY <1>7, <1>13 DEF Object, IsMutex, Result
<1>16. Kernel(r, None, None) /\ Awake(r, s2, ToSet(s2.blk_list[m]), "DEL")
  BY <1>12, <1>15, AllEnded DEF PendAllRm
<1> HIDE DEF r
<1>17. ToSet(s2.blk_list[m]) \subseteq Waiting(s2)
  <2>1. Blocks(s2, Waiting(s2)) /\ s2.blk_list[m] \in Seq(AllTask)
    BY <1>12, <1>15 DEF Kernel, Core, Queues, Typed
  <2>2. ToSet(s2.blk_list[m]) \subseteq AllTask
    BY <2>1, InList
  <2>3. QED
    BY <1>15, <2>1, <2>2 DEF Blocks
<1>18. Mild(r, s2)
  BY <1>16, <1>17, MildAwake
<1>19. r.obj_type = s.obj_type \ {m}
  BY <1>2, <1>13, <1>16 DEF Awake, Keeps, Fields
<1>20. QED
  BY <1>14, <1>16, <1>18, <1>19, MildTwice DEF r, s2

-----------------------------------------------------------------------------
(***************************************************************************)
(* The tick.                                                               *)
(***************************************************************************)

\* The wait or the sleep of one task ends.
LEMMA MildMoves ==
  ASSUME NEW s, NEW r, NEW t \in AllTask, NEW st \in {"RDY", "SUSPENDED"}, Moves(r, s, t, st),
         t \in Waiting(s) \/ t \in Sleeping(s),
         st = "SUSPENDED" => s.task_state[t] \in Suspended,
         t \in Waiting(s) => r.blk_obj[t] = None /\ r.blk_state[t] # "FINISH",
         t \in Sleeping(s) => r.blk_obj[t] = s.blk_obj[t],
         \A u \in AllTask \ {t} : r.blk_obj[u] = s.blk_obj[u] /\ r.blk_state[u] = s.blk_state[u],
         r.obj_type = s.obj_type, r.mutex_task = s.mutex_task,
         r.owner_nested = s.owner_nested, r.active = s.active, r.sched_lock = s.sched_lock,
         r.count = s.count, r.suspend_count = s.suspend_count
  PROVE  Mild(r, s)
<1>1. ASSUME NEW u \in AllTask
      PROVE  /\ Same(r, s, u) \/ Ends(r, s, u) \/ Rises(r, s, u)
             /\ u \in LiveIn(r) <=> u \in LiveIn(s)
             /\ r.task_state[u] \in Suspended => s.task_state[u] \in Suspended
             /\ u \in Ready(s) => u \in Ready(r)
  <2>1. CASE u = t
    <3>1. r.task_state[t] = st /\ t \notin Waiting(r) /\ t \notin Sleeping(r)
      BY DEF Moves, Waiting, Pended, Sleeping
    <3>2. Ends(r, s, t) \/ Rises(r, s, t)
      BY <3>1 DEF Ends, Rises
    <3>3. t \in LiveIn(r) /\ t \in LiveIn(s)
      BY <3>1 DEF LiveIn, Waiting, Pended, Sleeping
    <3>4. t \notin Ready(s)
      BY DEF Ready, Waiting, Pended, Sleeping
    <3>5. QED
      BY <2>1, <3>1, <3>2, <3>3, <3>4 DEF Suspended
  <2>2. CASE u # t
    <3>1. r.task_state[u] = s.task_state[u]
      BY <2>2 DEF Moves
    <3>2. QED
      BY <2>2, <3>1 DEF Same, Waiting, Sleeping, LiveIn, Ready
  <2>3. QED
    BY <2>1, <2>2
<1>2. LiveIn(r) = LiveIn(s)
  BY <1>1 DEF LiveIn
<1>3. Ready(s) \subseteq Ready(r)
  BY <1>1 DEF Ready
<1>4. QED
  BY <1>1, <1>2, <1>3 DEF Mild, Calm

\* The body of the loop in tick_list_update.
LEMMA Expired ==
  ASSUME NEW s, Kernel(s, None, None), NEW t \in ToSet(s.tick_list)
  PROVE  LET r == Expire(s, t)
         IN /\ Kernel(r, None, None) /\ Mild(r, s) /\ r.obj_type = s.obj_type
            /\ ToSet(r.tick_list) = ToSet(s.tick_list) \ {t}
<1> DEFINE s1 == tick_list_rm(s, t)
           r  == Expire(s, t)
<1>1. /\ Core(s) /\ Typed(s) /\ Queues(s) /\ Ticks(s, Sleeping(s), Waiting(s))
      /\ IsList(s.tick_list, AllTask) /\ Owners(s, None) /\ Waits(s, None)
  BY DEF Kernel, Core, Queues, Ticks
<1>2. t \in AllTask /\ (t \in Sleeping(s) \/ t \in Waiting(s))
  BY <1>1 DEF Ticks, Sleeping, Waiting
<1>3. /\ Typed(s1) /\ Keeps(s1, s, {"tick_list"}) /\ IsList(s1.tick_list, AllTask)
      /\ ToSet(s1.tick_list) = ToSet(s.tick_list) \ {t}
  BY <1>1, TickRemoved
<1> HIDE DEF s1
<1>4. /\ s1.ready = s.ready /\ s1.highest_pri = s.highest_pri /\ s1.blk_list = s.blk_list
      /\ s1.task_state = s.task_state /\ s1.prio = s.prio /\ s1.blk_obj = s.blk_obj
      /\ s1.b_prio = s.b_prio /\ s1.obj_type = s.obj_type /\ s1.mutex_task = s.mutex_task
      /\ s1.mutex_list = s.mutex_list /\ s1.count = s.count /\ s1.blk_state = s.blk_state
  BY <1>3 DEF Keeps, Fields
<1>5. Ready(s1) = Ready(s) /\ Waiting(s1) = Waiting(s) /\ Sleeping(s1) = Sleeping(s)
  BY <1>4 DEF Ready, Waiting, Sleeping
<1>6. Queues(s1)
  BY <1>1, <1>3, <1>4, <1>5, QueuesKept
<1>7. ASSUME NEW q, q.tick_list = s1.tick_list, Waiting(q) = Waiting(s) \ {t},
             Sleeping(q) = Sleeping(s) \ {t}
      PROVE  Ticks(q, Sleeping(q), Waiting(q))
  BY <1>1, <1>3, <1>7 DEF Ticks
<1>8. CASE s.task_state[t] = "SLEEP"
  <2> DEFINE q == [s1 EXCEPT !.blk_state[t] = "FINISH", !.task_state[t] = "RDY"]
  <2>1. r = ready_list_add(q, t)
    BY <1>8 DEF Expire, s1, Pended
  <2>2. /\ Keeps(q, s1, {"blk_state", "task_state"})
        /\ q.task_state = [s1.task_state EXCEPT ![t] = "RDY"]
        /\ q.blk_state = [s1.blk_state EXCEPT ![t] = "FINISH"]
    BY <1>3 DEF Typed, IsK, Keeps, Fields
  <2> HIDE DEF q, r
  <2>3. q.task_state \in [AllTask -> TaskState] /\ Moves(q, s1, t, "RDY")
    BY <1>2, <1>3, <2>2, MovedTyped DEF Typed, TaskState
  <2>4. /\ q.blk_state \in [AllTask -> {"FINISH", "TIMEOUT", "DEL"}]
        /\ \A u \in AllTask \ {t} : q.blk_state[u] = s.blk_state[u]
    <3>1. s.blk_state \in [AllTask -> {"FINISH", "TIMEOUT", "DEL"}]
      BY <1>1 DEF Typed
    <3>2. QED
      BY <1>2, <1>4, <2>2, <3>1
  <2>5. Typed(q)
    BY <1>3, <2>2, <2>3, <2>4 DEF Typed, Keeps, Fields
  <2>6. /\ q.ready = s1.ready /\ q.highest_pri = s1.highest_pri /\ q.blk_list = s1.blk_list
        /\ q.prio = s1.prio /\ q.blk_obj = s1.blk_obj
    BY <2>2 DEF Keeps, Fields
  <2>7. t \notin Ready(s1) /\ t \notin Waiting(s1)
    BY <1>4, <1>8 DEF Ready, Waiting, Pended
  <2>8. Queues(r) /\ Keeps(r, q, {"ready", "highest_pri"}) /\ Moves(r, s1, t, "RDY")
    BY <1>2, <1>6, <2>1, <2>3, <2>5, <2>6, <2>7, GetsReady
  <2>9. Keeps(r, s, {"tick_list", "blk_state", "task_state", "ready", "highest_pri"})
    BY <1>3, <2>2, <2>8 DEF Keeps, Fields
  <2>10. r.tick_list = s1.tick_list /\ r.blk_state = q.blk_state
    BY <2>2, <2>8 DEF Keeps, Fields
  <2>11. Moves(r, s, t, "RDY")
    BY <1>4, <2>8 DEF Moves
  <2>12. Waiting(r) = Waiting(s) \ {t} /\ t \notin Waiting(s)
    BY <1>2, <1>5, <2>7, <2>11, NotWaiting DEF Pended
  <2>13. Sleeping(r) = Sleeping(s) \ {t}
    BY <1>2, <2>11, NotSleeping
  <2>14. LiveIn(r) = LiveIn(s)
    <3>1. LiveIn(r) = LiveIn(s) \cup {t}
      BY <1>2, <2>11, NowLive
    <3>2. t \in LiveIn(s)
      BY <1>2, <1>8 DEF LiveIn
    <3>3. QED
      BY <3>1, <3>2
  <2>15. Core(r)
    BY <1>7, <2>8, <2>10, <2>12, <2>13 DEF Core
  <2>16. /\ r.prio = s.prio /\ r.b_prio = s.b_prio /\ r.obj_type = s.obj_type
         /\ r.mutex_task = s.mutex_task /\ r.mutex_list = s.mutex_list /\ r.count = s.count
         /\ r.blk_obj = s.blk_obj /\ r.owner_nested = s.owner_nested /\ r.active = s.active
         /\ r.sched_lock = s.sched_lock /\ r.suspend_count = s.suspend_count
    BY <2>9 DEF Keeps, Fields
  <2>17. Kernel(r, None, None)
    BY <2>12, <2>14, <2>15, <2>16, KernelKept
  <2>18. Mild(r, s)
    BY <1>2, <2>4, <2>10, <2>11, <2>12, <2>16, MildMoves
  <2>19. QED
    BY <1>3, <2>10, <2>16, <2>17, <2>18 DEF r
<1>9. CASE s.task_state[t] = "SLEEP_SUSPENDED"
  <2>1. r = [s1 EXCEPT !.task_state[t] = "SUSPENDED", !.blk_state[t] = "FINISH"]
    BY <1>9 DEF Expire, s1, Pended
  <2>2. /\ Keeps(r, s1, {"blk_state", "task_state"})
        /\ r.task_state = [s1.task_state EXCEPT ![t] = "SUSPENDED"]
        /\ r.blk_state = [s1.blk_state EXCEPT ![t] = "FINISH"]
    BY <1>3, <2>1 DEF Typed, IsK, Keeps, Fields
  <2> HIDE DEF r
  <2>3. r.task_state \in [AllTask -> TaskState] /\ Moves(r, s1, t, "SUSPENDED")
    BY <1>2, <1>3, <2>2, MovedTyped DEF Typed, TaskState
  <2>4. /\ r.blk_state \in [AllTask -> {"FINISH", "TIMEOUT", "DEL"}]
        /\ \A u \in AllTask \ {t} : r.blk_state[u] = s.blk_state[u]
    <3>1. s.blk_state \in [AllTask -> {"FINISH", "TIMEOUT", "DEL"}]
      BY <1>1 DEF Typed
    <3>2. QED
      BY <1>2, <1>4, <2>2, <3>1
  <2>5. Typed(r)
    BY <1>3, <2>2, <2>3, <2>4 DEF Typed, Keeps, Fields
  <2>6. /\ r.ready = s1.ready /\ r.highest_pri = s1.highest_pri /\ r.blk_list = s1.blk_list
        /\ r.tick_list = s1.tick_list
    BY <2>2 DEF Keeps, Fields
  <2>7. t \notin Ready(s1) /\ t \notin Waiting(s1)
    BY <1>4, <1>9 DEF Ready, Waiting, Pended
  <2>9. Keeps(r, s, {"tick_list", "blk_state", "task_state"})
    BY <1>3, <2>2 DEF Keeps, Fields
  <2>11. Moves(r, s, t, "SUSPENDED")
    BY <1>4, <2>3 DEF Moves
  <2>12. Waiting(r) = Waiting(s) \ {t} /\ t \notin Waiting(s)
    BY <1>2, <1>5, <2>7, <2>11, NotWaiting DEF Pended
  <2>13. Sleeping(r) = Sleeping(s) \ {t}
    BY <1>2, <2>11, NotSleeping
  <2>14. LiveIn(r) = LiveIn(s)
    <3>1. LiveIn(r) = LiveIn(s) \cup {t}
      BY <1>2, <2>11, NowLive
    <3>2. t \in LiveIn(s)
      BY <1>2, <1>9 DEF LiveIn
    <3>3. QED
      BY <3>1, <3>2
  <2>10. Ready(r) = Ready(s1) /\ Waiting(r) = Waiting(s1)
    <3>1. Ready(r) = Ready(s) \ {t}
      BY <1>2, <2>11, NotReady
    <3>2. QED
      BY <1>5, <2>7, <2>12, <3>1
  <2>16. /\ r.prio = s.prio /\ r.b_prio = s.b_prio /\ r.obj_type = s.obj_type
         /\ r.mutex_task = s.mutex_task /\ r.mutex_list = s.mutex_list /\ r.count = s.count
         /\ r.blk_obj = s.blk_obj /\ r.owner_nested = s.owner_nested /\ r.active = s.active
         /\ r.sched_lock = s.sched_lock /\ r.suspend_count = s.suspend_count
    BY <2>9 DEF Keeps, Fields
  <2>8. Queues(r)
    BY <1>4, <1>6, <2>5, <2>6, <2>10, <2>16, QueuesKept
  <2>15. Core(r)
    BY <1>7, <2>6, <2>8, <2>12, <2>13 DEF Core
  <2>17. Kernel(r, None, None)
    BY <2>12, <2>14, <2>15, <2>16, KernelKept
  <2>18. Mild(r, s)
    BY <1>2, <1>9, <2>4, <2>11, <2>12, <2>16, MildMoves DEF Suspended
  <2>19. QED
    BY <1>3, <2>6, <2>16, <2>17, <2>18 DEF r
<1>10. CASE s.task_state[t] \in Pended
  <2> DEFINE q  == LeaveBlkList(s1, t)
             s2 == [q EXCEPT !.blk_state[t] = "TIMEOUT"]
             s3 == mutex_task_pri_reset(s2, t)
             st == IF s.task_state[t] = "PEND" THEN "RDY" ELSE "SUSPENDED"
  <2>1. r = [s3 EXCEPT !.blk_obj[t] = None]
    BY <1>10 DEF Expire, s1, Pended
  <2>2. t \in Waiting(s) /\ t \notin Sleeping(s)
    BY <1>2, <1>10 DEF Waiting, Sleeping, Pended
  <2>3. /\ Queues(q) /\ Moves(q, s1, t, st)
        /\ Keeps(q, s1, {"blk_list", "ready", "highest_pri", "task_state"})
    BY <1>4, <1>5, <1>6, <2>2, LeftBlkList
  <2> HIDE DEF q
  <2>4. Typed(q)
    BY <2>3 DEF Queues
  <2>5. Keeps(s2, q, {"blk_state"}) /\ s2.blk_state = [q.blk_state EXCEPT ![t] = "TIMEOUT"]
    BY <2>4 DEF Typed, IsK, Keeps, Fields
  <2> HIDE DEF s2
  <2>6. /\ s2.blk_state \in [AllTask -> {"FINISH", "TIMEOUT", "DEL"}]
        /\ s2.blk_state[t] = "TIMEOUT" /\ \A u \in AllTask \ {t} : s2.blk_state[u] = s.blk_state[u]
    <3>1. s.blk_state \in [AllTask -> {"FINISH", "TIMEOUT", "DEL"}]
      BY <1>1 DEF Typed
    <3>2. q.blk_state = s.blk_state
      BY <1>4, <2>3 DEF Keeps, Fields
    <3>3. QED
      BY <1>2, <2>5, <3>1, <3>2
  <2>7. /\ Typed(s2) /\ s2.ready = q.ready /\ s2.highest_pri = q.highest_pri
        /\ s2.blk_list = q.blk_list /\ s2.task_state = q.task_state /\ s2.prio = q.prio
        /\ s2.blk_obj = q.blk_obj
    BY <2>4, <2>5, <2>6 DEF Typed, Keeps, Fields
  <2>8. Ready(s2) = Ready(q) /\ Waiting(s2) = Waiting(q)
    BY <2>7 DEF Ready, Waiting
  <2>9. Queues(s2)
    BY <2>3, <2>7, <2>8, QueuesKept
  <2>10. Keeps(s2, s, {"tick_list", "blk_state", "blk_list", "ready", "highest_pri", "task_state"})
    BY <1>3, <2>3, <2>5 DEF Keeps, Fields
  <2>11. s2.tick_list = s1.tick_list
    BY <2>3, <2>5 DEF Keeps, Fields
  <2>12. Moves(s2, s, t, st)
    BY <1>4, <2>3, <2>7 DEF Moves
  <2>13. Waiting(s2) = Waiting(s) \ {t}
    BY <1>2, <2>12, NotWaiting DEF Pended
  <2>14. Sleeping(s2) = Sleeping(s) \ {t}
    BY <1>2, <2>12, NotSleeping
  <2>15. LiveIn(s2) = LiveIn(s)
    <3>1. LiveIn(s2) = LiveIn(s) \cup {t}
      BY <1>2, <2>12, NowLive
    <3>2. t \in LiveIn(s)
      BY <2>2 DEF LiveIn, Waiting, Pended
    <3>3. QED
      BY <3>1, <3>2
  <2>16. Core(s2)
    BY <1>7, <2>9, <2>11, <2>13, <2>14 DEF Core
  <2>17. /\ s2.prio = s.prio /\ s2.b_prio = s.b_prio /\ s2.obj_type = s.obj_type
         /\ s2.mutex_task = s.mutex_task /\ s2.mutex_list = s.mutex_list /\ s2.count = s.count
         /\ s2.blk_obj = s.blk_obj /\ s2.owner_nested = s.owner_nested /\ s2.active = s.active
         /\ s2.sched_lock = s.sched_lock /\ s2.suspend_count = s.suspend_count
    BY <2>10 DEF Keeps, Fields
  <2>18. Owners(s2, None)
    BY <1>1, <2>15, <2>17, OwnersKept
  <2>19. Waits(s2, None)
    BY <1>1, <2>13, <2>17, WaitsKept
  <2>20. None \notin LiveIn(s)
    BY CoreAssumption DEF LiveIn, AllTask
  <2>21. Kernel(s3, None, None) /\ Settling(s3, s2)
    BY <2>2, <2>13, <2>15, <2>16, <2>17, <2>18, <2>19, <2>20, PriReset
  <2> HIDE DEF s3
  <2>22. Keeps(s3, s2, {"prio", "ready", "highest_pri", "blk_list"}) /\ Core(s3) /\ Typed(s3)
    BY <2>21 DEF Settling, Core, Queues
  <2>23. Keeps(r, s3, {"blk_obj"}) /\ r.blk_obj = [s3.blk_obj EXCEPT ![t] = None]
    BY <2>1, <2>22 DEF Typed, IsK, Keeps, Fields
  <2> HIDE DEF r
  <2>24. /\ r.blk_obj \in [AllTask -> Object \cup {None}] /\ r.blk_obj[t] = None
         /\ \A u \in AllTask \ {t} : r.blk_obj[u] = s3.blk_obj[u]
    <3>1. s3.blk_obj \in [AllTask -> Object \cup {None}]
      BY <2>22 DEF Typed
    <3>2. QED
      BY <1>2, <2>23, <3>1
  <2>25. /\ Typed(r) /\ r.ready = s3.ready /\ r.highest_pri = s3.highest_pri
         /\ r.blk_list = s3.blk_list /\ r.tick_list = s3.tick_list /\ r.task_state = s3.task_state
         /\ r.prio = s3.prio /\ r.b_prio = s3.b_prio /\ r.obj_type = s3.obj_type
         /\ r.mutex_task = s3.mutex_task /\ r.mutex_list = s3.mutex_list /\ r.count = s3.count
    BY <2>22, <2>23, <2>24 DEF Typed, Keeps, Fields
  <2>26. /\ Ready(r) = Ready(s3) /\ Waiting(r) = Waiting(s3) /\ Sleeping(r) = Sleeping(s3)
         /\ LiveIn(r) = LiveIn(s3)
    BY <2>25 DEF Ready, Waiting, Sleeping, LiveIn
  <2>27. s3.task_state = s2.task_state /\ s3.tick_list = s2.tick_list /\ s3.blk_obj = s2.blk_obj
    BY <2>22 DEF Keeps, Fields
  <2>28. \A u \in Waiting(s3) : u \in AllTask \ {t}
    BY <2>13, <2>27 DEF Waiting
  <2>29. Core(r)
    BY <2>22, <2>24, <2>25, <2>26, <2>28, CoreKept
  <2>30. Kernel(r, None, None)
    BY <2>21, <2>24, <2>25, <2>26, <2>28, <2>29, KernelKept
  <2>31. Keeps(r, s2, {"prio", "ready", "highest_pri", "blk_list", "blk_obj"})
    BY <2>22, <2>23 DEF Keeps, Fields
  <2>32. /\ r.owner_nested = s.owner_nested /\ r.active = s.active /\ r.count = s.count
         /\ r.sched_lock = s.sched_lock /\ r.suspend_count = s.suspend_count
         /\ r.obj_type = s.obj_type /\ r.mutex_task = s.mutex_task /\ r.blk_state = s2.blk_state
         /\ r.task_state = s2.task_state
    BY <2>17, <2>31 DEF Keeps, Fields
  <2>33. Moves(r, s, t, st) /\ st \in {"RDY", "SUSPENDED"}
    BY <2>12, <2>32 DEF Moves
  <2>34. st = "SUSPENDED" => s.task_state[t] \in Suspended
    BY <1>10 DEF Pended, Suspended
  <2>35. /\ \A u \in AllTask \ {t} : r.blk_obj[u] = s.blk_obj[u] /\ r.blk_state[u] = s.blk_state[u]
         /\ r.blk_obj[t] = None /\ r.blk_state[t] = "TIMEOUT"
    BY <2>6, <2>17, <2>24, <2>27, <2>32
  <2> HIDE DEF st
  <2>36. Mild(r, s)
    BY <1>2, <2>2, <2>32, <2>33, <2>34, <2>35, MildMoves
  <2>37. QED
    BY <1>3, <2>11, <2>25, <2>27, <2>30, <2>32, <2>36 DEF r
<1>11. QED
  BY <1>2, <1>8, <1>9, <1>10 DEF Sleeping, Waiting

\* tick_list_update: the first n tasks of the list, one after the other.
LEMMA TickUpdated ==
  ASSUME NEW s, Kernel(s, None, None), NEW n \in 0..Len(s.tick_list)
  PROVE  LET r == tick_list_update(s, n)
         IN Kernel(r, None, None) /\ Mild(r, s) /\ r.obj_type = s.obj_type
<1> DEFINE list == s.tick_list
           f == ExpireEach(s, list, n)
           P(i) == /\ Kernel(f[i], None, None) /\ Mild(f[i], s) /\ f[i].obj_type = s.obj_type
                   /\ \A j \in 1..Len(list) : i < j => list[j] \in ToSet(f[i].tick_list)
           S == {i \in Nat : i <= n => P(i)}
           r == tick_list_update(s, n)
<1>1. IsList(list, AllTask)
  BY DEF Kernel, Core, Ticks
<1>2. /\ Len(list) \in Nat /\ \A i \in 1..Len(list) : list[i] \in ToSet(list)
      /\ \A i, j \in 1..Len(list) : list[i] = list[j] => i = j
  BY <1>1, ElementPlaces
<1>3. n \in Nat /\ n <= Len(list)
  BY <1>2
<1>4. f[0] = s /\ \A i \in 0..n - 1 : f[i + 1] = Expire(f[i], list[i + 1])
  BY <1>3, ExpireEachIs
<1>5. r = f[n]
  BY DEF tick_list_update
<1>6. list = s.tick_list
  OBVIOUS
<1> HIDE DEF list, f, r
<1>7. 0 \in S
  <2>1. Mild(s, s)
    BY MildSame
  <2>2. P(0)
    BY <1>2, <1>4, <1>6, <2>1
  <2>3. QED
    BY <2>2
<1>8. ASSUME NEW i \in Nat, i \in S PROVE i + 1 \in S
  <2> SUFFICES ASSUME i + 1 <= n PROVE P(i + 1)
    OBVIOUS
  <2> DEFINE q == f[i]
             t == list[i + 1]
             q1 == f[i + 1]
  <2>1. i \in 0..n - 1 /\ i + 1 \in 1..Len(list) /\ i <= n
    BY <1>3, <1>2
  <2>2. /\ Kernel(q, None, None) /\ Mild(q, s) /\ q.obj_type = s.obj_type
        /\ q1 = Expire(q, t)
    BY <1>4, <1>8, <2>1
  <2>3. \A j \in 1..Len(list) : i < j => list[j] \in ToSet(q.tick_list)
    BY <1>8, <2>1
  <2>4. t \in ToSet(q.tick_list)
    BY <2>1, <2>3
  <2>5. \A j \in 1..Len(list) : i + 1 < j => list[j] # t
    BY <1>2, <2>1
  <2> HIDE DEF q, t, q1
  <2>6. /\ Kernel(q1, None, None) /\ Mild(q1, q) /\ q1.obj_type = q.obj_type
        /\ ToSet(q1.tick_list) = ToSet(q.tick_list) \ {t}
    BY <2>2, <2>4, Expired
  <2>7. Mild(q1, s)
    BY <2>2, <2>6, MildTwice
  <2>8. \A j \in 1..Len(list) : i + 1 < j => list[j] \in ToSet(q1.tick_list)
    <3> SUFFICES ASSUME NEW j \in 1..Len(list), i + 1 < j PROVE list[j] \in ToSet(q1.tick_list)
      OBVIOUS
    <3>1. i < j
      BY <1>2
    <3>2. QED
      BY <2>3, <2>5, <2>6, <3>1
  <2>9. QED
    BY <2>2, <2>6, <2>7, <2>8 DEF q1
<1>9. n \in S
  <2> HIDE DEF S
  <2>1. QED
    BY <1>3, <1>7, <1>8, Induction
<1>10. QED
  BY <1>3, <1>5, <1>9 DEF r

\* krhino_task_yield and the end of a time slice.
LEMMA TurnPassed ==
  ASSUME NEW s, Kernel(s, None, None), NEW t \in AllTask, s.ready[s.prio[t]] # <<>>
  PROVE  LET r == ready_list_head_to_tail(s, t)
         IN Kernel(r, None, None) /\ Mild(r, s) /\ r.obj_type = s.obj_type
<1> DEFINE r == ready_list_head_to_tail(s, t)
<1>1. /\ Core(s) /\ Typed(s) /\ Rings(s, Ready(s)) /\ Blocks(s, Waiting(s)) /\ Queues(s)
      /\ Ticks(s, Sleeping(s), Waiting(s))
  BY DEF Kernel, Core, Queues
<1>2. Typed(r) /\ Rings(r, Ready(s)) /\ Keeps(r, s, {"ready"})
  BY <1>1, ReadyRotated
<1> HIDE DEF r
<1>3. /\ r.blk_list = s.blk_list /\ r.task_state = s.task_state /\ r.tick_list = s.tick_list
      /\ r.prio = s.prio /\ r.b_prio = s.b_prio /\ r.obj_type = s.obj_type
      /\ r.mutex_task = s.mutex_task /\ r.mutex_list = s.mutex_list /\ r.count = s.count
      /\ r.blk_obj = s.blk_obj /\ r.owner_nested = s.owner_nested /\ r.active = s.active
      /\ r.sched_lock = s.sched_lock /\ r.suspend_count = s.suspend_count
      /\ r.blk_state = s.blk_state
  BY <1>2 DEF Keeps, Fields
<1>4. /\ Ready(r) = Ready(s) /\ Waiting(r) = Waiting(s) /\ Sleeping(r) = Sleeping(s)
      /\ LiveIn(r) = LiveIn(s)
  BY <1>3 DEF Ready, Waiting, Sleeping, LiveIn
<1>5. Blocks(r, Waiting(s))
  BY <1>1, <1>3, BlocksKept
<1>6. Queues(r)
  BY <1>1, <1>2, <1>3, <1>4, <1>5 DEF Queues
<1>7. Core(r)
  BY <1>1, <1>3, <1>4, <1>6 DEF Core, Ticks
<1>8. Kernel(r, None, None)
  BY <1>3, <1>4, <1>7, KernelKept
<1>9. Mild(r, s)
  BY <1>3, MildSame
<1>10. QED
  BY <1>3, <1>8, <1>9 DEF r

LEMMA SliceUpdated ==
  ASSUME NEW s, Kernel(s, None, None)
  PROVE  LET r == time_slice_update(s)
         IN Kernel(r, None, None) /\ Mild(r, s) /\ r.obj_type = s.obj_type
<1> DEFINE p == s.prio[s.active]
           r == time_slice_update(s)
<1>1. s.active \in AllTask /\ s.ready[p] \in Seq(AllTask)
  BY DEF Kernel, Core, Queues, Typed
<1>2. CASE Len(s.ready[p]) <= 1
  <2>1. r = s
    BY <1>2 DEF time_slice_update
  <2>2. Mild(s, s)
    BY MildSame
  <2>3. QED
    BY <2>1, <2>2
<1>3. CASE ~(Len(s.ready[p]) <= 1)
  <2>1. s.ready[p] # <<>>
    BY <1>3
  <2>2. r = ready_list_head_to_tail(s, s.active)
    BY <1>3 DEF time_slice_update
  <2>3. QED
    BY <1>1, <2>1, <2>2, TurnPassed
<1>4. QED
  BY <1>2, <1>3

-----------------------------------------------------------------------------
(***************************************************************************)
(* A task is deleted: task_mutex_free and what follows it.                 *)
(***************************************************************************)
SameTask(r, s, t) ==
  /\ r.task_state[t] = s.task_state[t]
  /\ r.blk_obj[t] = s.blk_obj[t] /\ r.blk_state[t] = s.blk_state[t]

\* Task t, a waiter of the highest priority, gets the mutex m.
Takes(r, s, t, m) ==
  /\ t \in Waiting(s) /\ s.blk_obj[t] = m /\ r.mutex_task[m] = t
  /\ r.task_state[t] = IF s.task_state[t] = "PEND" THEN "RDY" ELSE "SUSPENDED"
  /\ r.blk_obj[t] = None /\ r.blk_state[t] = "FINISH"
  /\ \A u \in Waiting(s) : s.blk_obj[u] = m => s.prio[t] <= s.prio[u]

\* Task x has given away its mutexes M.
Hands(r, s, x, M) ==
  /\ \A m \in Mutex \ M : r.mutex_task[m] = s.mutex_task[m]
  /\ \A m \in M : /\ m \in s.obj_type /\ s.mutex_task[m] = x
                  /\ r.mutex_task[m] = None \/ Takes(r, s, r.mutex_task[m], m)
  /\ \A t \in AllTask : SameTask(r, s, t) \/ \E m \in M : Takes(r, s, t, m)
  /\ SameTask(r, s, x)

LEMMA HandsNothing ==
  ASSUME NEW s, NEW x PROVE Hands(s, s, x, {})
BY DEF Hands, SameTask

LEMMA TakesLater ==
  ASSUME NEW s, NEW r, NEW q, NEW m \in Mutex, NEW n, n # m, NEW t \in AllTask, Takes(q, s, t, n),
         r.mutex_task[n] = q.mutex_task[n], SameTask(r, q, t)
  PROVE  Takes(r, s, t, n)
BY DEF Takes, SameTask

LEMMA HandsOneMore ==
  ASSUME NEW s, Typed(s), Waits(s, None), NEW x \in AllTask,
         NEW M, M \subseteq Mutex, NEW q, Hands(q, s, x, M), Core(q), q.prio = s.prio,
         NEW m \in Mutex \ M, m \in s.obj_type, s.mutex_task[m] = x,
         NEW r, \A n \in Mutex \ {m} : r.mutex_task[n] = q.mutex_task[n],
         \/ /\ r.mutex_task[m] = None /\ \A t \in AllTask : SameTask(r, q, t)
         \/ /\ Passed(r, q, m, Head(q.blk_list[m])) /\ q.blk_list[m] # <<>>
            /\ Head(q.blk_list[m]) # x
  PROVE  Hands(r, s, x, M \cup {m})
<1>1. ASSUME NEW t \in AllTask, NEW n \in M, SameTask(r, q, t), Takes(q, s, t, n)
      PROVE  Takes(r, s, t, n)
  BY <1>1, TakesLater
<1>2. \A t \in AllTask : t # None
  BY CoreAssumption DEF AllTask
<1>3. \A n \in M : q.mutex_task[n] = None \/ q.mutex_task[n] \in AllTask
  BY DEF Hands, Takes, Waiting
<1>4. CASE r.mutex_task[m] = None /\ \A t \in AllTask : SameTask(r, q, t)
  <2>1. \A t \in AllTask : SameTask(r, s, t) \/ \E n \in M \cup {m} : Takes(r, s, t, n)
    <3> SUFFICES ASSUME NEW t \in AllTask
                 PROVE  SameTask(r, s, t) \/ \E n \in M \cup {m} : Takes(r, s, t, n)
      OBVIOUS
    <3>1. CASE SameTask(q, s, t)
      BY <1>4, <3>1 DEF SameTask
    <3>2. CASE \E n \in M : Takes(q, s, t, n)
      BY <1>1, <1>4, <3>2
    <3>3. QED
      BY <3>1, <3>2 DEF Hands
  <2>2. SameTask(r, s, x)
    BY <1>4 DEF SameTask, Hands
  <2>3. \A n \in M : r.mutex_task[n] = None \/ Takes(r, s, r.mutex_task[n], n)
    <3> SUFFICES ASSUME NEW n \in M, q.mutex_task[n] # None
                 PROVE  Takes(r, s, q.mutex_task[n], n)
      OBVIOUS
    <3>1. Takes(q, s, q.mutex_task[n], n) /\ q.mutex_task[n] \in AllTask
      BY <1>3 DEF Hands
    <3>2. QED
      BY <1>1, <1>4, <3>1
  <2>4. \A n \in M : n \in s.obj_type /\ s.mutex_task[n] = x
    BY DEF Hands
  <2>5. \A n \in Mutex \ (M \cup {m}) : r.mutex_task[n] = s.mutex_task[n]
    BY DEF Hands
  <2>6. QED
    BY <1>4, <2>1, <2>2, <2>3, <2>4, <2>5 DEF Hands
<1>5. CASE /\ Passed(r, q, m, Head(q.blk_list[m])) /\ q.blk_list[m] # <<>>
           /\ Head(q.blk_list[m]) # x
  <2> DEFINE h == Head(q.blk_list[m])
  <2>1. /\ h \in Waiting(q) /\ h \in AllTask /\ h # Idle /\ q.blk_obj[h] = m
        /\ \A w \in Waiting(q) : q.blk_obj[w] = m => q.prio[h] <= q.prio[w]
    BY <1>5, FirstWaiter DEF Object
  <2> HIDE DEF h
  <2>2. Passed(r, q, m, h) /\ h # x
    BY <1>5 DEF h
  <2>3. Typed(q) /\ m # None
    BY CoreAssumption DEF Core, Queues
  <2>4. ASSUME NEW w \in AllTask, q.blk_obj[w] = m \/ s.blk_obj[w] = m
        PROVE  SameTask(q, s, w)
    <3>1. \A n \in M : ~Takes(q, s, w, n)
      BY <2>3, <2>4 DEF Takes
    <3>2. QED
      BY <3>1 DEF Hands
  <2>5. h \in Waiting(s) /\ s.blk_obj[h] = m /\ s.task_state[h] = q.task_state[h]
    BY <2>1, <2>4 DEF SameTask, Waiting
  <2>6. \A w \in Waiting(s) : s.blk_obj[w] = m => s.prio[h] <= s.prio[w]
    BY <2>1, <2>4 DEF SameTask, Waiting
  <2>7. /\ r.mutex_task[m] = h /\ r.blk_obj[h] = None /\ r.blk_state[h] = "FINISH"
        /\ r.task_state[h] = IF q.task_state[h] = "PEND" THEN "RDY" ELSE "SUSPENDED"
    BY <2>1, <2>2, <2>3 DEF Passed, Typed, Moves
  <2>8. Takes(r, s, h, m)
    BY <2>5, <2>6, <2>7 DEF Takes
  <2>9. \A t \in AllTask \ {h} : SameTask(r, q, t)
    <3>1. /\ q.blk_obj \in [AllTask -> Object \cup {None}]
          /\ q.blk_state \in [AllTask -> {"FINISH", "TIMEOUT", "DEL"}]
      BY <2>3 DEF Typed
    <3>2. /\ r.blk_state = [q.blk_state EXCEPT ![h] = "FINISH"]
          /\ r.blk_obj = [q.blk_obj EXCEPT ![h] = None]
          /\ \A t \in AllTask \ {h} : r.task_state[t] = q.task_state[t]
      BY <2>2 DEF Passed, Moves
    <3>3. QED
      BY <3>1, <3>2 DEF SameTask
  <2>10. \A n \in M : ~Takes(q, s, h, n)
    BY <2>5 DEF Takes
  <2>11. \A t \in AllTask : SameTask(r, s, t) \/ \E n \in M \cup {m} : Takes(r, s, t, n)
    <3> SUFFICES ASSUME NEW t \in AllTask, t # h
                 PROVE  SameTask(r, s, t) \/ \E n \in M : Takes(r, s, t, n)
      BY <2>8
    <3>1. CASE SameTask(q, s, t)
      BY <2>9, <3>1 DEF SameTask
    <3>2. CASE \E n \in M : Takes(q, s, t, n)
      BY <1>1, <2>9, <3>2
    <3>3. QED
      BY <3>1, <3>2 DEF Hands
  <2>12. SameTask(r, s, x)
    BY <2>2, <2>9 DEF SameTask, Hands
  <2>13. \A n \in M : r.mutex_task[n] = None \/ Takes(r, s, r.mutex_task[n], n)
    <3> SUFFICES ASSUME NEW n \in M, q.mutex_task[n] # None
                 PROVE  Takes(r, s, q.mutex_task[n], n)
      OBVIOUS
    <3>1. Takes(q, s, q.mutex_task[n], n) /\ q.mutex_task[n] \in AllTask
      BY <1>3 DEF Hands
    <3>2. q.mutex_task[n] # h
      BY <2>10, <3>1
    <3>3. QED
      BY <1>1, <2>9, <3>1, <3>2
  <2>14. \A n \in M : n \in s.obj_type /\ s.mutex_task[n] = x
    BY DEF Hands
  <2>15. \A n \in Mutex \ (M \cup {m}) : r.mutex_task[n] = s.mutex_task[n]
    BY DEF Hands
  <2>16. QED
    BY <2>7, <2>8, <2>11, <2>12, <2>13, <2>14, <2>15 DEF Hands
<1>6. QED
  BY <1>4, <1>5

\* What HandOver may change.
HandOverFields ==
  {"blk_list", "ready", "highest_pri", "task_state", "tick_list",
   "blk_state", "blk_obj", "mutex_task", "mutex_list"}

\* task_mutex_free, but for the list of the task itself.
LEMMA MutexesFreed ==
  ASSUME NEW s, Kernel(s, None, None), NEW x \in AllTask
  PROVE  LET r == HandOverEach(s, s.mutex_list[x])[Len(s.mutex_list[x])]
         IN /\ Kernel(r, x, None) /\ Keeps(r, s, HandOverFields)
            /\ Hands(r, s, x, ToSet(s.mutex_list[x]))
<1> DEFINE list == s.mutex_list[x]
           f == HandOverEach(s, list)
           A(i) == {list[j] : j \in 1..i}
           P(i) == /\ Kernel(f[i], x, None) /\ Keeps(f[i], s, HandOverFields)
                   /\ Hands(f[i], s, x, A(i))
           S == {i \in Nat : i <= Len(list) => P(i)}
<1>1. Holds(s, x) /\ Typed(s) /\ Waits(s, None)
  BY CoreAssumption DEF Kernel, Core, Queues, Owners, AllTask
<1>2. /\ Len(list) \in Nat /\ \A i \in 1..Len(list) : list[i] \in ToSet(list) /\ list[i] \in Mutex
      /\ \A i, j \in 1..Len(list) : list[i] = list[j] => i = j
      /\ ToSet(list) = A(Len(list))
  BY <1>1, ElementPlaces DEF Holds
<1>3. f[0] = s /\ \A i \in 0..Len(list) - 1 : f[i + 1] = HandOver(f[i], list[i + 1])
  BY <1>2, HandOverEachIs
<1>4. \A m \in ToSet(list) : m \in Mutex => m \in s.obj_type /\ s.mutex_task[m] = x
  BY <1>1 DEF Holds
<1> HIDE DEF list, f
<1>5. 0 \in S
  <2>1. A(0) = {}
    OBVIOUS
  <2>2. Kernel(s, x, None)
    BY CoreAssumption DEF Kernel, Owners, Inherit, AllTask, LiveIn
  <2>3. Keeps(s, s, HandOverFields)
    BY <1>1 DEF Keeps, Typed
  <2>4. P(0)
    BY <1>3, <2>1, <2>2, <2>3, HandsNothing
  <2>5. QED
    BY <2>4
<1>6. ASSUME NEW i \in Nat, i \in S PROVE i + 1 \in S
  <2> SUFFICES ASSUME i + 1 <= Len(list) PROVE P(i + 1)
    OBVIOUS
  <2> DEFINE q == f[i]
             m == list[i + 1]
             r == f[i + 1]
  <2>1. i \in 0..Len(list) - 1 /\ i + 1 \in 1..Len(list)
    BY <1>2
  <2>2. /\ Kernel(q, x, None) /\ Keeps(q, s, HandOverFields) /\ Hands(q, s, x, A(i))
        /\ r = HandOver(q, m)
    BY <1>2, <1>3, <1>6, <2>1
  <2>3. m \in Mutex /\ m \in s.obj_type /\ s.mutex_task[m] = x
    BY <1>2, <1>4, <2>1
  <2>4. m \notin A(i) /\ A(i) \subseteq Mutex /\ A(i + 1) = A(i) \cup {m}
    <3>1. \A j \in 1..i : j \in 1..Len(list) /\ list[j] # m /\ list[j] \in Mutex
      BY <1>2, <2>1
    <3>2. 1..(i + 1) = (1..i) \cup {i + 1}
      OBVIOUS
    <3>3. QED
      BY <3>1, <3>2
  <2> HIDE DEF q, m, r, A
  <2>5. q.obj_type = s.obj_type /\ q.prio = s.prio
    BY <2>2 DEF Keeps, Fields, HandOverFields
  <2>6. q.mutex_task[m] = x
    BY <2>2, <2>3, <2>4 DEF Hands
  <2>7. Core(q) /\ Typed(q)
    BY <2>2 DEF Kernel, Core, Queues
  <2>8. CASE q.blk_list[m] = <<>>
    <3>1. /\ Kernel(r, x, None) /\ Keeps(r, q, {"mutex_task"})
          /\ r.mutex_task = [q.mutex_task EXCEPT ![m] = None]
      BY <2>2, <2>3, <2>5, <2>6, <2>8, Freed
    <3>2. r.mutex_task[m] = None /\ \A n \in Mutex \ {m} : r.mutex_task[n] = q.mutex_task[n]
      BY <2>3, <2>7, <3>1 DEF Typed
    <3>3. \A t \in AllTask : SameTask(r, q, t)
      BY <3>1 DEF Keeps, Fields, SameTask
    <3>4. Hands(r, s, x, A(i) \cup {m})
      BY <1>1, <2>2, <2>3, <2>4, <2>5, <2>7, <3>2, <3>3, HandsOneMore
    <3>5. Keeps(r, s, HandOverFields)
      BY <2>2, <3>1 DEF Keeps, Fields, HandOverFields
    <3>6. QED
      BY <2>4, <3>1, <3>4, <3>5 DEF r
  <2>9. CASE q.blk_list[m] # <<>>
    <3> DEFINE h == Head(q.blk_list[m])
    <3>1. Kernel(r, x, None) /\ Passed(r, q, m, h) /\ h # x
      BY <2>2, <2>3, <2>5, <2>6, <2>9, PassedOn
    <3>2. h \in AllTask
      BY <2>3, <2>7, <2>9, FirstWaiter DEF Object
    <3>3. \A n \in Mutex \ {m} : r.mutex_task[n] = q.mutex_task[n]
      BY <2>3, <2>7, <3>1, <3>2 DEF Typed, Passed
    <3>4. Hands(r, s, x, A(i) \cup {m})
      BY <1>1, <2>2, <2>3, <2>4, <2>5, <2>7, <2>9, <3>1, <3>3, HandsOneMore
    <3>5. Keeps(r, s, HandOverFields)
      BY <2>2, <3>1 DEF Keeps, Fields, HandOverFields, Passed
    <3>6. QED
      BY <2>4, <3>1, <3>4, <3>5 DEF r
  <2>10. QED
    BY <2>8, <2>9
<1>7. Len(list) \in S
  <2> HIDE DEF S
  <2>1. QED
    BY <1>2, <1>5, <1>6, Induction
<1>8. P(Len(list))
  BY <1>2, <1>7
<1>9. /\ Kernel(f[Len(list)], x, None) /\ Keeps(f[Len(list)], s, HandOverFields)
      /\ Hands(f[Len(list)], s, x, ToSet(list))
  BY <1>2, <1>8
<1>10. QED
  BY <1>9 DEF f, list

\* krhino_task_del after task_mutex_free: the task leaves the list it is on.
Buried(s1, u) ==
  LET s2 == [s1 EXCEPT !.task_state[u] = "DELETED"]
  IN CASE s1.task_state[u] = "RDY" -> ready_list_rm(s2, u)
       [] s1.task_state[u] \in {"SLEEP", "SLEEP_SUSPENDED"} -> tick_list_rm(s2, u)
       [] s1.task_state[u] \in Pended ->
            mutex_task_pri_reset(
              [tick_list_rm(s2, u) EXCEPT !.blk_list[s2.blk_obj[u]] = RemoveFirst(@, u)], u)
       [] OTHER -> s2

\* A task that owns nothing is gone.
LEMMA Gone ==
  ASSUME NEW s, NEW u \in AllTask, Kernel(s, u, None), Holds(s, u),
         \A m \in Mutex \cap s.obj_type : s.mutex_task[m] # u,
         NEW r, Core(r), Moves(r, s, u, "DELETED"),
         Keeps(r, s, {"task_state", "ready", "highest_pri", "tick_list", "blk_list"})
  PROVE  /\ Owners(r, None) /\ Waits(r, None)
         /\ LiveIn(r) = LiveIn(s) \ {u} /\ Waiting(r) = Waiting(s) \ {u}
         /\ u \notin Waiting(s) => Kernel(r, None, None)
<1>1. Owners(s, u) /\ Waits(s, None) /\ Inherit(s, s.b_prio, u)
  BY DEF Kernel
<1>2. /\ r.prio = s.prio /\ r.b_prio = s.b_prio /\ r.obj_type = s.obj_type
      /\ r.mutex_task = s.mutex_task /\ r.mutex_list = s.mutex_list /\ r.count = s.count
      /\ r.blk_obj = s.blk_obj
  BY DEF Keeps, Fields
<1>3. LiveIn(r) = LiveIn(s) \ {u}
  BY NotLive
<1>4. Waiting(r) = Waiting(s) \ {u}
  BY NotWaiting DEF Pended
<1>5. Owners(r, None)
  <2>1. \A t \in AllTask : Holds(s, t) => Holds(r, t)
    BY <1>2 DEF Holds
  <2>2. QED
    BY <1>1, <1>2, <1>3, <2>1 DEF Owners
<1>6. Waits(r, None)
  BY <1>1, <1>2, <1>4, WaitsKept
<1>7. ASSUME u \notin Waiting(s) PROVE Kernel(r, None, None)
  <2>1. Waiting(r) = Waiting(s)
    BY <1>4, <1>7
  <2>2. \A t : Lenders(r, t) = Lenders(s, t)
    BY <1>2, <2>1, LendersKept DEF IsMutex
  <2>3. Inherit(r, r.b_prio, u)
    BY <1>1, <1>2, <1>3, <2>2, InheritKept
  <2>4. Inherit(r, r.b_prio, None)
    BY <1>3, <2>3 DEF Inherit
  <2>5. QED
    BY <1>5, <1>6, <2>4 DEF Kernel
<1>8. QED
  BY <1>3, <1>4, <1>5, <1>6, <1>7

LEMMA TaskBuried ==
  ASSUME NEW s, NEW u \in LiveIn(s), u # Idle, Kernel(s, u, None), Holds(s, u),
         \A m \in Mutex \cap s.obj_type : s.mutex_task[m] # u
  PROVE  LET r == Buried(s, u)
         IN /\ Kernel(r, None, None) /\ Moves(r, s, u, "DELETED")
            /\ Keeps(r, s, {"task_state", "ready", "highest_pri", "tick_list", "blk_list", "prio"})
<1> DEFINE F  == {"task_state", "ready", "highest_pri", "tick_list", "blk_list"}
           F1 == {"task_state", "ready", "highest_pri", "tick_list", "blk_list", "prio"}
           s2 == [s EXCEPT !.task_state[u] = "DELETED"]
           r  == Buried(s, u)
<1>1. /\ Core(s) /\ Typed(s) /\ Queues(s) /\ Ticks(s, Sleeping(s), Waiting(s))
      /\ IsList(s.tick_list, AllTask)
  BY DEF Kernel, Core, Queues, Ticks
<1>2. u \in AllTask /\ s.task_state[u] \in TaskState \ {"DELETED"}
  BY <1>1 DEF LiveIn, Typed
<1>3. Keeps(s2, s, {"task_state"}) /\ s2.task_state = [s.task_state EXCEPT ![u] = "DELETED"]
  BY <1>1 DEF Typed, IsK, Keeps, Fields
<1> HIDE DEF s2
<1>4. s2.task_state \in [AllTask -> TaskState] /\ Moves(s2, s, u, "DELETED")
  BY <1>1, <1>2, <1>3, MovedTyped DEF Typed, TaskState
<1>5. /\ Typed(s2) /\ s2.ready = s.ready /\ s2.highest_pri = s.highest_pri
      /\ s2.blk_list = s.blk_list /\ s2.tick_list = s.tick_list /\ s2.prio = s.prio
      /\ s2.blk_obj = s.blk_obj
  BY <1>1, <1>3, <1>4 DEF Typed, Keeps, Fields
<1>6. ASSUME NEW q, Core(q), Moves(q, s, u, "DELETED"), Keeps(q, s, F), u \notin Waiting(s), q = r
      PROVE  Kernel(r, None, None) /\ Moves(r, s, u, "DELETED") /\ Keeps(r, s, F1)
  <2>1. Kernel(q, None, None)
    BY <1>2, <1>6, Gone
  <2>2. Keeps(q, s, F1)
    BY <1>6 DEF Keeps
  <2>3. QED
    BY <1>6, <2>1, <2>2
<1>7. ASSUME NEW q, Moves(q, s, u, "DELETED")
      PROVE  /\ Ready(q) = Ready(s) \ {u} /\ Waiting(q) = Waiting(s) \ {u}
             /\ Sleeping(q) = Sleeping(s) \ {u}
  <2>1. Ready(q) = Ready(s) \ {u}
    BY <1>2, <1>7, NotReady
  <2>2. Waiting(q) = Waiting(s) \ {u}
    BY <1>2, <1>7, NotWaiting DEF Pended
  <2>3. Sleeping(q) = Sleeping(s) \ {u}
    BY <1>2, <1>7, NotSleeping
  <2>4. QED
    BY <2>1, <2>2, <2>3
<1>8. CASE s.task_state[u] = "RDY"
  <2>1. r = ready_list_rm(s2, u)
    BY <1>8 DEF Buried, s2, Pended
  <2>2. u \in Ready(s) /\ u \notin Waiting(s) /\ u \notin Sleeping(s)
    BY <1>2, <1>8 DEF Ready, Waiting, Sleeping, Pended
  <2>3. Queues(r) /\ Keeps(r, s2, {"ready", "highest_pri"}) /\ Moves(r, s, u, "DELETED")
    BY <1>1, <1>2, <1>4, <1>5, <2>1, <2>2, LeavesReady DEF Pended
  <2> HIDE DEF r
  <2>4. Keeps(r, s, F) /\ r.tick_list = s.tick_list
    BY <1>3, <1>5, <2>3 DEF Keeps, Fields
  <2>5. Waiting(r) = Waiting(s) /\ Sleeping(r) = Sleeping(s)
    BY <1>7, <2>2, <2>3
  <2>6. Core(r)
    BY <1>1, <2>3, <2>4, <2>5 DEF Core, Ticks
  <2>7. QED
    BY <1>6, <2>2, <2>3, <2>4, <2>6 DEF r
<1>9. CASE s.task_state[u] \in {"SLEEP", "SLEEP_SUSPENDED"}
  <2>1. r = tick_list_rm(s2, u)
    BY <1>9 DEF Buried, s2, Pended
  <2>2. u \notin Ready(s) /\ u \notin Waiting(s)
    BY <1>9 DEF Ready, Waiting, Pended
  <2>3. /\ Typed(r) /\ Keeps(r, s2, {"tick_list"}) /\ IsList(r.tick_list, AllTask)
        /\ ToSet(r.tick_list) = ToSet(s2.tick_list) \ {u}
    BY <1>1, <1>5, <2>1, TickRemoved
  <2> HIDE DEF r
  <2>4. Keeps(r, s, F)
    BY <1>3, <2>3 DEF Keeps, Fields
  <2>5. r.task_state = s2.task_state
    BY <2>3 DEF Keeps, Fields
  <2>6. Moves(r, s, u, "DELETED")
    BY <1>4, <2>5 DEF Moves
  <2>7. Ready(r) = Ready(s) /\ Waiting(r) = Waiting(s) /\ Sleeping(r) = Sleeping(s) \ {u}
    BY <1>7, <2>2, <2>6
  <2>8. /\ r.ready = s.ready /\ r.highest_pri = s.highest_pri /\ r.blk_list = s.blk_list
        /\ r.prio = s.prio /\ r.blk_obj = s.blk_obj
    BY <1>5, <2>3 DEF Keeps, Fields
  <2>9. Queues(r)
    BY <1>1, <2>3, <2>7, <2>8, QueuesKept
  <2>10. Core(r)
    BY <1>1, <1>5, <2>2, <2>3, <2>7, <2>9 DEF Core, Ticks
  <2>11. QED
    BY <1>6, <2>2, <2>4, <2>6, <2>10 DEF r
<1>10. CASE s.task_state[u] = "SUSPENDED"
  <2>1. r = s2
    BY <1>10 DEF Buried, s2, Pended
  <2>2. u \notin Ready(s) /\ u \notin Waiting(s) /\ u \notin Sleeping(s)
    BY <1>10 DEF Ready, Waiting, Sleeping, Pended
  <2>3. Keeps(s2, s, F)
    BY <1>3 DEF Keeps
  <2>4. Ready(s2) = Ready(s) /\ Waiting(s2) = Waiting(s) /\ Sleeping(s2) = Sleeping(s)
    BY <1>4, <1>7, <2>2
  <2>5. Core(s2)
    BY <1>1, <1>5, <2>4, CoreKept
  <2>6. QED
    BY <1>4, <1>6, <2>1, <2>2, <2>3, <2>5
<1>11. CASE s.task_state[u] \in Pended
  <2> DEFINE o == s.blk_obj[u]
             a == tick_list_rm(s2, u)
             b == [a EXCEPT !.blk_list[o] = RemoveFirst(@, u)]
  <2>1. r = mutex_task_pri_reset(b, u)
    BY <1>5, <1>11 DEF Buried, s2, Pended
  <2>2. u \in Waiting(s) /\ u \notin Ready(s) /\ u \notin Sleeping(s) /\ o \in Object
    BY <1>1, <1>2, <1>11 DEF Waiting, Ready, Sleeping, Pended, Queues
  <2>3. /\ Typed(a) /\ Keeps(a, s2, {"tick_list"}) /\ IsList(a.tick_list, AllTask)
        /\ ToSet(a.tick_list) = ToSet(s2.tick_list) \ {u}
    BY <1>1, <1>5, TickRemoved
  <2> HIDE DEF a, r, o
  <2>4. /\ Keeps(b, a, {"blk_list"})
        /\ b.blk_list = [a.blk_list EXCEPT ![o] = RemoveFirst(a.blk_list[o], u)]
    BY <2>3 DEF Typed, IsK, Keeps, Fields
  <2> HIDE DEF b
  <2>5. a.blk_list = s.blk_list /\ a.task_state = s2.task_state
    BY <1>5, <2>3 DEF Keeps, Fields
  <2>6. Keeps(b, s, F)
    BY <1>3, <2>3, <2>4 DEF Keeps, Fields
  <2>7. /\ b.prio = s.prio /\ b.b_prio = s.b_prio /\ b.obj_type = s.obj_type
        /\ b.mutex_task = s.mutex_task /\ b.blk_obj = s.blk_obj
    BY <2>6 DEF Keeps, Fields
  <2>8. /\ b.blk_list[o] = RemoveFirst(s.blk_list[o], u)
        /\ \A q \in Object \ {o} : b.blk_list[q] = s.blk_list[q]
    <3>1. s.blk_list \in [Object -> Seq(AllTask)]
      BY <1>1 DEF Typed
    <3>2. QED
      BY <2>2, <2>4, <2>5, <3>1
  <2>9. Blocks(b, Waiting(s) \ {u}) /\ b.blk_list[o] \in Seq(AllTask)
    <3>1. Blocks(s, Waiting(s))
      BY <1>1 DEF Queues
    <3>2. QED
      BY <1>1, <1>2, <2>2, <2>7, <2>8, <3>1, BlockRemoved DEF o
  <2>10. b.blk_list \in [Object -> Seq(AllTask)]
    <3>1. a.blk_list \in [Object -> Seq(AllTask)]
      BY <2>3 DEF Typed
    <3>2. RemoveFirst(a.blk_list[o], u) \in Seq(AllTask)
      BY <2>5, <2>8, <2>9
    <3>3. QED
      BY <2>4, <3>1, <3>2
  <2>11. Typed(b) /\ b.tick_list = a.tick_list /\ b.task_state = s2.task_state
    BY <2>3, <2>4, <2>5, <2>10 DEF Typed, Keeps, Fields
  <2>12. Moves(b, s, u, "DELETED")
    BY <1>4, <2>11 DEF Moves
  <2>13. /\ Ready(b) = Ready(s) /\ Waiting(b) = Waiting(s) \ {u} /\ Sleeping(b) = Sleeping(s)
    BY <1>7, <2>2, <2>12
  <2>14. b.ready = s.ready /\ b.highest_pri = s.highest_pri
    BY <1>5, <2>3, <2>4 DEF Keeps, Fields
  <2>15. Rings(b, Ready(b))
    BY <1>1, <2>7, <2>13, <2>14, RingsKept DEF Queues
  <2>16. Queues(b)
    BY <1>1, <2>7, <2>9, <2>11, <2>13, <2>15 DEF Queues
  <2>17. Core(b)
    BY <1>1, <1>5, <2>2, <2>3, <2>11, <2>13, <2>16 DEF Core, Ticks
  <2>18. Owners(b, None) /\ Waits(b, None) /\ LiveIn(b) = LiveIn(s) \ {u}
    BY <1>2, <2>6, <2>12, <2>17, Gone
  <2>19. Kernel(r, None, None) /\ Settling(r, b)
    BY <2>1, <2>2, <2>7, <2>13, <2>17, <2>18, PriReset
  <2>20. Keeps(r, s, F1)
    BY <2>6, <2>19 DEF Settling, Keeps, Fields
  <2>21. r.task_state = b.task_state
    BY <2>19 DEF Settling, Keeps, Fields
  <2>22. Moves(r, s, u, "DELETED")
    BY <2>12, <2>21 DEF Moves
  <2>23. QED
    BY <2>19, <2>20, <2>22 DEF r
<1>12. QED
  BY <1>2, <1>8, <1>9, <1>10, <1>11 DEF TaskState, Pended

\* krhino_task_del: the mutexes of u go to their waiters, and u is gone.
LEMMA TaskDeleted ==
  ASSUME NEW s, Kernel(s, None, None), NEW u \in LiveIn(s), u # Idle
  PROVE  LET r == Buried(task_mutex_free(s, u), u)
         IN /\ Kernel(r, None, None)
            /\ Keeps(r, s, HandOverFields \cup {"prio"})
            /\ \E q : /\ Hands(q, s, u, ToSet(s.mutex_list[u])) /\ q.mutex_task = r.mutex_task
                      /\ q.blk_obj = r.blk_obj /\ q.blk_state = r.blk_state
                      /\ Moves(r, q, u, "DELETED")
<1> DEFINE list == s.mutex_list[u]
           q  == HandOverEach(s, list)[Len(list)]
           s1 == task_mutex_free(s, u)
           r  == Buried(s1, u)
<1>1. u \in AllTask /\ u # None /\ Holds(s, u)
  BY CoreAssumption DEF LiveIn, AllTask, Kernel, Owners
<1>2. Kernel(q, u, None) /\ Keeps(q, s, HandOverFields) /\ Hands(q, s, u, ToSet(list))
  BY <1>1, MutexesFreed
<1>3. s1 = [q EXCEPT !.mutex_list[u] = <<>>]
  BY DEF task_mutex_free
<1> HIDE DEF q, s1, r, list
<1>4. Core(q) /\ Typed(q)
  BY <1>2 DEF Kernel, Core, Queues
<1>5. Keeps(s1, q, {"mutex_list"}) /\ s1.mutex_list = [q.mutex_list EXCEPT ![u] = <<>>]
  BY <1>3, <1>4 DEF Typed, IsK, Keeps, Fields
<1>6. /\ s1.mutex_list \in [AllTask -> Seq(Mutex)] /\ s1.mutex_list[u] = <<>>
      /\ \A t \in AllTask \ {u} : s1.mutex_list[t] = q.mutex_list[t]
  <2>1. q.mutex_list \in [AllTask -> Seq(Mutex)] /\ <<>> \in Seq(Mutex)
    BY <1>4 DEF Typed
  <2>2. QED
    BY <1>1, <1>5, <2>1
<1>7. /\ Typed(s1) /\ s1.ready = q.ready /\ s1.highest_pri = q.highest_pri
      /\ s1.blk_list = q.blk_list /\ s1.tick_list = q.tick_list /\ s1.task_state = q.task_state
      /\ s1.prio = q.prio /\ s1.b_prio = q.b_prio /\ s1.obj_type = q.obj_type
      /\ s1.mutex_task = q.mutex_task /\ s1.count = q.count /\ s1.blk_obj = q.blk_obj
      /\ s1.blk_state = q.blk_state
  BY <1>4, <1>5, <1>6 DEF Typed, Keeps, Fields
<1>8. /\ Ready(s1) = Ready(q) /\ Waiting(s1) = Waiting(q) /\ Sleeping(s1) = Sleeping(q)
      /\ LiveIn(s1) = LiveIn(q)
  BY <1>7 DEF Ready, Waiting, Sleeping, LiveIn
<1>9. Core(s1)
  BY <1>4, <1>7, <1>8, CoreKept
<1>10. q.obj_type = s.obj_type
  BY <1>2 DEF Keeps, Fields, HandOverFields
<1>11. \A m \in Mutex \cap s1.obj_type : s1.mutex_task[m] # u
  <2> SUFFICES ASSUME NEW m \in Mutex, m \in s.obj_type, q.mutex_task[m] = u PROVE FALSE
    BY <1>7, <1>10
  <2>1. CASE m \in ToSet(list)
    <3>1. Takes(q, s, u, m)
      BY <1>1, <1>2, <2>1 DEF Hands
    <3>2. SameTask(q, s, u)
      BY <1>2 DEF Hands
    <3>3. QED
      BY <3>1, <3>2 DEF Takes, SameTask, Waiting, Pended
  <2>2. CASE m \notin ToSet(list)
    <3>1. s.mutex_task[m] = u
      BY <1>2, <2>2 DEF Hands
    <3>2. QED
      BY <1>1, <2>2, <3>1 DEF Holds, list
  <2>3. QED
    BY <2>1, <2>2
<1>12. Holds(s1, u)
  <2>1. IsList(<<>>, Mutex) /\ ToSet(<<>>) = {}
    <3>1. <<>> \in Seq(Mutex)
      OBVIOUS
    <3>2. ToSet(<<>>) = {}
      BY <3>1, InList
    <3>3. IsInjective(<<>>)
      BY DEF IsInjective
    <3>4. QED
      BY <3>1, <3>2, <3>3 DEF IsList
  <2>2. QED
    BY <1>6, <1>11, <2>1 DEF Holds
<1>13. Kernel(s1, u, None)
  <2>1. \A t \in AllTask \ {u} : Holds(q, t) => Holds(s1, t)
    BY <1>6, <1>7 DEF Holds
  <2>2. Owners(s1, u)
    BY <1>2, <1>7, <1>8, <2>1 DEF Kernel, Owners
  <2>3. Waits(s1, None)
    BY <1>2, <1>7, <1>8, WaitsKept DEF Kernel
  <2>4. \A x : Lenders(s1, x) = Lenders(q, x)
    BY <1>7, <1>8, LendersKept DEF IsMutex
  <2>5. Inherit(s1, s1.b_prio, u)
    BY <1>2, <1>7, <1>8, <2>4, InheritKept DEF Kernel
  <2>6. QED
    BY <1>9, <2>2, <2>3, <2>5 DEF Kernel
<1>14. u \in LiveIn(s1)
  BY <1>2, <1>7 DEF Hands, SameTask, LiveIn
<1>15. /\ Kernel(r, None, None) /\ Moves(r, s1, u, "DELETED")
       /\ Keeps(r, s1, {"task_state", "ready", "highest_pri", "tick_list", "blk_list", "prio"})
  BY <1>11, <1>12, <1>13, <1>14, TaskBuried DEF r
<1>16. Keeps(r, s, HandOverFields \cup {"prio"})
  BY <1>2, <1>5, <1>15 DEF Keeps, Fields, HandOverFields
<1>17. q.mutex_task = r.mutex_task /\ q.blk_obj = r.blk_obj /\ q.blk_state = r.blk_state
  BY <1>7, <1>15 DEF Keeps, Fields
<1>18. Moves(r, q, u, "DELETED")
  BY <1>7, <1>15 DEF Moves
<1>19. QED
  BY <1>2, <1>15, <1>16, <1>17, <1>18 DEF r, s1, list

-----------------------------------------------------------------------------
(***************************************************************************)
(* A task starts to wait.                                                  *)
(***************************************************************************)
WaitFields ==
  {"prio", "blk_list", "ready", "highest_pri", "task_state", "tick_list", "blk_obj"}

\* Task t, ready in s, waits for o in r.
Begins(r, s, t, o) ==
  /\ Moves(r, s, t, "PEND") /\ Keeps(r, s, WaitFields)
  /\ r.blk_obj = [s.blk_obj EXCEPT ![t] = o]

LEMMA Begun ==
  ASSUME NEW s, Core(s), Owners(s, None), Waits(s, None), NEW t \in Ready(s) \ {Idle},
         NEW o \in Object, o \in s.obj_type, NEW i \in 0..Len(s.tick_list) + 1,
         o \in Mutex => s.mutex_task[o] \notin {None, t}, o \in Sem => s.count[o] = 0
  PROVE  LET r == pend_to_blk_obj(s, o, t, i)
         IN /\ Core(r) /\ Owners(r, None) /\ Waits(r, None) /\ Begins(r, s, t, o)
            /\ LiveIn(r) = LiveIn(s) /\ r.prio = s.prio
            /\ Waiting(r) = Waiting(s) \cup {t} /\ t \notin Waiting(s)
            /\ r.blk_obj[t] = o /\ \A u \in AllTask \ {t} : r.blk_obj[u] = s.blk_obj[u]
<1> DEFINE r == pend_to_blk_obj(s, o, t, i)
<1>1. /\ Core(r) /\ Moves(r, s, t, "PEND")
      /\ Keeps(r, s, {"blk_list", "ready", "highest_pri", "task_state", "tick_list", "blk_obj"})
      /\ r.blk_obj = [s.blk_obj EXCEPT ![t] = o]
  BY Pending
<1> HIDE DEF r
<1>2. t \in AllTask /\ t \notin Waiting(s) /\ t \in LiveIn(s)
  BY DEF Ready, Waiting, Pended, LiveIn
<1>3. Begins(r, s, t, o)
  BY <1>1 DEF Begins, Keeps, WaitFields
<1>4. LiveIn(r) = LiveIn(s)
  <2>1. LiveIn(r) = LiveIn(s) \cup {t}
    BY <1>1, <1>2, NowLive
  <2>2. QED
    BY <1>2, <2>1
<1>5. Waiting(r) = Waiting(s) \cup {t}
  BY <1>1, <1>2, NowWaiting DEF Pended
<1>6. /\ r.obj_type = s.obj_type /\ r.mutex_task = s.mutex_task /\ r.mutex_list = s.mutex_list
      /\ r.count = s.count /\ r.prio = s.prio
  BY <1>1 DEF Keeps, Fields
<1>7. r.blk_obj[t] = o /\ \A u \in AllTask \ {t} : r.blk_obj[u] = s.blk_obj[u]
  <2>1. s.blk_obj \in [AllTask -> Object \cup {None}]
    BY DEF Core, Queues, Typed
  <2>2. QED
    BY <1>1, <1>2, <2>1
<1>8. Owners(r, None)
  BY <1>4, <1>6, OwnersKept
<1>9. Waits(r, None)
  <2> SUFFICES ASSUME NEW u \in Waiting(r), r.blk_obj[u] # None
               PROVE  /\ r.blk_obj[u] \in r.obj_type
                      /\ r.blk_obj[u] \in Mutex => r.mutex_task[r.blk_obj[u]] \notin {None, u}
                      /\ r.blk_obj[u] \in Sem => r.count[r.blk_obj[u]] = 0
    BY DEF Waits
  <2>1. CASE u = t
    BY <1>6, <1>7, <2>1
  <2>2. CASE u # t
    <3>1. u \in Waiting(s) /\ r.blk_obj[u] = s.blk_obj[u]
      BY <1>5, <1>7, <2>2 DEF Waiting
    <3>2. QED
      BY <1>6, <3>1 DEF Waits
  <2>3. QED
    BY <2>1, <2>2
<1>10. QED
  BY <1>1, <1>2, <1>3, <1>4, <1>5, <1>6, <1>7, <1>8, <1>9 DEF r

\* krhino_sem_take on a semaphore without tokens.
LEMMA SemWaited ==
  ASSUME NEW s, Kernel(s, None, None), NEW t \in Ready(s) \ {Idle},
         NEW o \in Sem, o \in s.obj_type, s.count[o] = 0, NEW i \in 0..Len(s.tick_list) + 1
  PROVE  LET r == pend_to_blk_obj(s, o, t, i)
         IN Kernel(r, None, None) /\ Begins(r, s, t, o)
<1> DEFINE r == pend_to_blk_obj(s, o, t, i)
<1>1. Core(s) /\ Owners(s, None) /\ Waits(s, None) /\ Inherit(s, s.b_prio, None)
  BY DEF Kernel
<1>2. o \in Object /\ o \notin Mutex
  BY CoreAssumption DEF Object
<1>3. /\ Core(r) /\ Owners(r, None) /\ Waits(r, None) /\ Begins(r, s, t, o)
      /\ LiveIn(r) = LiveIn(s) /\ r.prio = s.prio
      /\ Waiting(r) = Waiting(s) \cup {t} /\ t \notin Waiting(s)
      /\ r.blk_obj[t] = o /\ \A u \in AllTask \ {t} : r.blk_obj[u] = s.blk_obj[u]
  BY <1>1, <1>2, Begun
<1> HIDE DEF r
<1>4. r.obj_type = s.obj_type /\ r.mutex_task = s.mutex_task /\ r.b_prio = s.b_prio
  BY <1>3 DEF Begins, Keeps, Fields, WaitFields
<1>5. \A x : Lenders(r, x) = Lenders(s, x)
  <2>1. \A u : u \in Waiting(r) /\ IsMutex(r, r.blk_obj[u])
                 <=> u \in Waiting(s) /\ IsMutex(s, s.blk_obj[u])
    <3> SUFFICES ASSUME NEW u
                 PROVE  u \in Waiting(r) /\ IsMutex(r, r.blk_obj[u])
                          <=> u \in Waiting(s) /\ IsMutex(s, s.blk_obj[u])
      OBVIOUS
    <3>1. CASE u = t
      BY <1>2, <1>3, <3>1 DEF IsMutex
    <3>2. CASE u # t
      BY <1>3, <1>4, <3>2 DEF IsMutex, Waiting
    <3>3. QED
      BY <3>1, <3>2
  <2>2. \A u \in Waiting(s) : r.blk_obj[u] = s.blk_obj[u]
    BY <1>3 DEF Waiting
  <2>3. QED
    BY <1>4, <2>1, <2>2, LendersKept
<1>6. Inherit(r, r.b_prio, None)
  BY <1>1, <1>3, <1>4, <1>5, InheritKept
<1>7. QED
  BY <1>3, <1>6 DEF Kernel, r

\* The owner x of a mutex that t is about to wait for gets t's priority, if
\* that is higher.
Lent(s, t, x) ==
  IF s.prio[t] < s.prio[x] THEN task_pri_change(s, x, s.prio[t]) ELSE s

\* Everyone is as due, x as if t were waiting for it.
LEMMA LentOut ==
  ASSUME NEW s, Kernel(s, None, None), NEW t \in LiveIn(s), NEW x \in LiveIn(s), x # Idle, x # t
  PROVE  LET r == Lent(s, t, x)
         IN /\ Settling(r, s) /\ r.prio[t] = s.prio[t] /\ Inherit(r, s.b_prio, x)
            /\ r.prio[x] <= s.b_prio[x] /\ r.prio[x] <= r.prio[t]
            /\ \A u \in Lenders(s, x) : r.prio[x] <= r.prio[u]
            /\ \/ r.prio[x] = s.b_prio[x] \/ r.prio[x] = r.prio[t]
               \/ \E u \in Lenders(s, x) : r.prio[u] = r.prio[x]
<1> DEFINE p == s.prio[t]
           base == [s.b_prio EXCEPT ![x] = p]
           r == Lent(s, t, x)
<1>1. /\ Core(s) /\ Owners(s, None) /\ Waits(s, None) /\ Inherit(s, s.b_prio, None)
      /\ s.prio \in [AllTask -> Prio] /\ s.b_prio \in [AllTask -> Prio]
  BY DEF Kernel, Core, Queues, Typed
<1>2. t \in AllTask /\ x \in AllTask /\ p \in Prio /\ s.prio[x] \in Prio /\ s.b_prio[x] \in Prio
  BY <1>1 DEF LiveIn
<1>3. p \in Nat /\ s.prio[x] \in Nat /\ s.b_prio[x] \in Nat
  BY <1>2, PrioFacts
<1>4. Due(s, s.b_prio, x, s.prio[x])
  BY <1>1, CoreAssumption DEF Inherit, LiveIn, AllTask
<1>5. \A u \in Lenders(s, x) : s.prio[u] \in Nat
  BY <1>1, PrioFacts DEF Lenders
<1>6. CASE ~(p < s.prio[x])
  <2>1. r = s
    BY <1>6 DEF Lent
  <2>2. Inherit(s, s.b_prio, x)
    BY <1>1, CoreAssumption DEF Inherit, LiveIn, AllTask
  <2>3. s.prio[x] <= p
    BY <1>3, <1>6
  <2>4. QED
    BY <1>1, <1>4, <2>1, <2>2, <2>3, SettledAlready DEF Due
<1>7. CASE p < s.prio[x]
  <2>1. r = task_pri_change(s, x, p)
    BY <1>7 DEF Lent
  <2>2. /\ base \in [AllTask -> Prio] /\ base[x] = p
        /\ \A u \in AllTask \ {x} : base[u] = s.b_prio[u]
    BY <1>1, <1>2
  <2> HIDE DEF base, p, r
  <2>3. Due(s, base, x, p)
    BY <1>3, <1>4, <1>5, <1>7, <2>2 DEF Due
  <2>4. Inherit(s, base, x)
    <3> SUFFICES ASSUME NEW y \in LiveIn(s) \ {x} PROVE Due(s, base, y, s.prio[y])
      BY DEF Inherit
    <3>1. Due(s, s.b_prio, y, s.prio[y]) /\ y \in AllTask
      BY <1>1, CoreAssumption DEF Inherit, LiveIn, AllTask
    <3>2. QED
      BY <2>2, <3>1 DEF Due
  <2>5. Chain(s)
    BY <1>1, ChainSound, NoneNoMutex
  <2>6. Off(r, s, x, p, base)
    BY <1>1, <1>2, <1>7, <2>1, <2>2, <2>3, <2>4, <2>5, PriChanged
  <2>7. Settling(r, s) /\ Inherit(r, base, None) /\ Left(r, s, p)
    BY <1>7, <2>6 DEF Off
  <2>8. r.prio[t] = p
    BY <1>2, <1>3, <2>7 DEF Left, p
  <2>9. LiveIn(r) = LiveIn(s) /\ Lenders(r, x) = Lenders(s, x)
    BY <2>7, SameLenders DEF Settling
  <2>10. Due(r, base, x, r.prio[x])
    BY <2>7, <2>9, CoreAssumption DEF Inherit, LiveIn, AllTask
  <2>11. Inherit(r, s.b_prio, x)
    <3> SUFFICES ASSUME NEW y \in LiveIn(r) \ {x} PROVE Due(r, s.b_prio, y, r.prio[y])
      BY DEF Inherit
    <3>1. Due(r, base, y, r.prio[y]) /\ y \in AllTask
      BY <2>7, CoreAssumption DEF Inherit, LiveIn, AllTask
    <3>2. QED
      BY <2>2, <3>1 DEF Due
  <2>12. r.prio[x] \in Nat
    BY <1>2, <2>7, PrioFacts DEF Settling, Core, Queues, Typed
  <2>13. r.prio[x] <= p /\ s.prio[x] <= s.b_prio[x]
    BY <1>4, <2>2, <2>10 DEF Due
  <2>14. r.prio[x] <= s.b_prio[x]
    BY <1>3, <1>7, <2>12, <2>13
  <2>15. r.prio[x] = r.prio[t] \/ \E u \in Lenders(s, x) : r.prio[u] = r.prio[x]
    BY <2>2, <2>8, <2>9, <2>10 DEF Due
  <2>16. \A u \in Lenders(s, x) : r.prio[x] <= r.prio[u]
    BY <2>9, <2>10 DEF Due
  <2>17. QED
    BY <2>7, <2>8, <2>11, <2>13, <2>14, <2>15, <2>16 DEF r, p
<1>8. QED
  BY <1>6, <1>7

\* krhino_mutex_lock on a mutex that another task owns.
LEMMA MutexWaited ==
  ASSUME NEW s, Kernel(s, None, None), NEW t \in Ready(s) \ {Idle},
         NEW m \in Mutex, m \in s.obj_type, s.mutex_task[m] \notin {t, None},
         NEW i \in 0..Len(s.tick_list) + 1
  PROVE  LET r == pend_to_blk_obj(Lent(s, t, s.mutex_task[m]), m, t, i)
         IN Kernel(r, None, None) /\ Begins(r, s, t, m)
<1> DEFINE x == s.mutex_task[m]
           q == Lent(s, t, x)
           r == pend_to_blk_obj(q, m, t, i)
<1>1. Core(s) /\ Owners(s, None) /\ Waits(s, None)
  BY DEF Kernel
<1>2. x \in LiveIn(s) /\ x # Idle /\ x # t /\ x # None
  BY <1>1 DEF Owners
<1>3. t \in LiveIn(s) /\ t \in AllTask
  BY DEF Ready, LiveIn
<1>4. /\ Settling(q, s) /\ q.prio[t] = s.prio[t] /\ Inherit(q, s.b_prio, x)
      /\ q.prio[x] <= s.b_prio[x] /\ q.prio[x] <= q.prio[t]
      /\ \A u \in Lenders(s, x) : q.prio[x] <= q.prio[u]
      /\ \/ q.prio[x] = s.b_prio[x] \/ q.prio[x] = q.prio[t]
         \/ \E u \in Lenders(s, x) : q.prio[u] = q.prio[x]
  BY <1>2, <1>3, LentOut
<1> HIDE DEF q
<1>5. Core(q) /\ Keeps(q, s, {"prio", "ready", "highest_pri", "blk_list"})
  BY <1>4 DEF Settling
<1>6. /\ q.obj_type = s.obj_type /\ q.mutex_task = s.mutex_task /\ q.mutex_list = s.mutex_list
      /\ q.count = s.count /\ q.blk_obj = s.blk_obj /\ q.b_prio = s.b_prio
      /\ q.tick_list = s.tick_list /\ q.task_state = s.task_state
  BY <1>5 DEF Keeps, Fields
<1>7. /\ LiveIn(q) = LiveIn(s) /\ Waiting(q) = Waiting(s) /\ Ready(q) = Ready(s)
      /\ \A y : Lenders(q, y) = Lenders(s, y)
  BY <1>5, SameLenders
<1>8. Owners(q, None)
  BY <1>1, <1>6, <1>7, OwnersKept
<1>9. Waits(q, None)
  BY <1>1, <1>6, <1>7, WaitsKept
<1>10. m \in Object /\ m \notin Sem /\ m \in q.obj_type /\ q.mutex_task[m] \notin {None, t}
       /\ t \in Ready(q) \ {Idle} /\ i \in 0..Len(q.tick_list) + 1
  BY <1>6, <1>7, CoreAssumption DEF Object
<1>11. /\ Core(r) /\ Owners(r, None) /\ Waits(r, None) /\ Begins(r, q, t, m)
       /\ LiveIn(r) = LiveIn(q) /\ r.prio = q.prio
       /\ Waiting(r) = Waiting(q) \cup {t} /\ t \notin Waiting(q)
       /\ r.blk_obj[t] = m /\ \A u \in AllTask \ {t} : r.blk_obj[u] = q.blk_obj[u]
  BY <1>5, <1>8, <1>9, <1>10, Begun
<1> HIDE DEF r, x
<1>x. x = s.mutex_task[m]
  BY DEF x
<1>12. r.obj_type = q.obj_type /\ r.mutex_task = q.mutex_task /\ r.b_prio = q.b_prio
  BY <1>11 DEF Begins, Keeps, Fields, WaitFields
<1>13. ASSUME NEW y, NEW u
       PROVE  u \in Lenders(r, y) <=> u \in Lenders(q, y) \/ (u = t /\ y = x)
  <2>1. CASE u = t
    BY <1>3, <1>6, <1>10, <1>11, <1>12, <1>x, <2>1 DEF Lenders, IsMutex
  <2>2. CASE u # t
    BY <1>11, <1>12, <2>2 DEF Lenders, IsMutex
  <2>3. QED
    BY <2>1, <2>2
<1>14. ASSUME NEW y \in LiveIn(r), y # x PROVE Due(r, s.b_prio, y, r.prio[y])
  <2>1. Lenders(r, y) = Lenders(q, y)
    <3>1. \A u : u \in Lenders(r, y) <=> u \in Lenders(q, y)
      BY <1>13, <1>14
    <3>2. QED
      BY <3>1, Zenon
  <2>2. Due(q, s.b_prio, y, q.prio[y])
    BY <1>4, <1>11, <1>14 DEF Inherit
  <2>3. QED
    BY <1>11, <2>1, <2>2 DEF Due
<1>15. Due(r, s.b_prio, x, r.prio[x])
  <2>1. \A u \in Lenders(r, x) : r.prio[x] <= r.prio[u]
    BY <1>4, <1>7, <1>11, <1>13
  <2>2. r.prio[x] = s.b_prio[x] \/ \E u \in Lenders(r, x) : r.prio[u] = r.prio[x]
    BY <1>4, <1>7, <1>11, <1>13
  <2>3. r.prio[x] <= s.b_prio[x]
    BY <1>4, <1>11
  <2>4. QED
    BY <2>1, <2>2, <2>3 DEF Due
<1>16. Inherit(r, r.b_prio, None)
  BY <1>6, <1>12, <1>14, <1>15 DEF Inherit
<1>17. Begins(r, s, t, m)
  <2>1. Keeps(r, s, WaitFields)
    BY <1>5, <1>11 DEF Begins, Keeps, Fields, WaitFields
  <2>2. QED
    BY <1>6, <1>11, <2>1 DEF Begins, Moves
<1>18. QED
  BY <1>11, <1>16, <1>17 DEF Kernel, r, q, x

-----------------------------------------------------------------------------
(***************************************************************************)
(* The other calls.                                                        *)
(***************************************************************************)
Rebased(s, u, pri) == [s EXCEPT !.b_prio[u] = pri]

\* krhino_task_pri_change.
LEMMA PriorityChanged ==
  ASSUME NEW s, Kernel(s, None, None), NEW u \in LiveIn(s), u # Idle, NEW pri \in Prio
  PROVE  LET r == task_pri_change(Rebased(s, u, pri), u, mutex_pri_limit(s, u, pri))
         IN Kernel(r, None, None) /\ Mild(r, s) /\ r.obj_type = s.obj_type
<1> DEFINE p  == mutex_pri_limit(s, u, pri)
           s1 == Rebased(s, u, pri)
           r  == task_pri_change(s1, u, p)
<1>1. Core(s) /\ Typed(s) /\ Owners(s, None) /\ Waits(s, None) /\ Inherit(s, s.b_prio, None)
  BY DEF Kernel, Core, Queues
<1>2. u \in AllTask /\ u # None /\ Holds(s, u)
  BY <1>1, CoreAssumption DEF LiveIn, AllTask, Owners
<1>3. Keeps(s1, s, {"b_prio"}) /\ s1.b_prio = [s.b_prio EXCEPT ![u] = pri]
  BY <1>1 DEF Typed, IsK, Keeps, Fields, Rebased
<1>4. /\ p \in Prio /\ p <= pri /\ \A v \in Lenders(s, u) : p <= s.prio[v]
      /\ p = pri \/ \E v \in Lenders(s, u) : s.prio[v] = p
  BY <1>1, <1>2, LeastOfWaiters DEF Core, mutex_pri_limit
<1> HIDE DEF s1, p, r
<1>5. /\ s1.b_prio \in [AllTask -> Prio] /\ s1.b_prio[u] = pri
      /\ \A v \in AllTask \ {u} : s1.b_prio[v] = s.b_prio[v]
  <2>1. s.b_prio \in [AllTask -> Prio]
    BY <1>1 DEF Typed
  <2>2. QED
    BY <1>2, <1>3, <2>1
<1>6. /\ Typed(s1) /\ s1.ready = s.ready /\ s1.highest_pri = s.highest_pri
      /\ s1.blk_list = s.blk_list /\ s1.tick_list = s.tick_list /\ s1.task_state = s.task_state
      /\ s1.prio = s.prio /\ s1.blk_obj = s.blk_obj /\ s1.obj_type = s.obj_type
      /\ s1.mutex_task = s.mutex_task /\ s1.mutex_list = s.mutex_list /\ s1.count = s.count
  BY <1>1, <1>3, <1>5 DEF Typed, Keeps, Fields
<1>7. /\ Ready(s1) = Ready(s) /\ Waiting(s1) = Waiting(s) /\ Sleeping(s1) = Sleeping(s)
      /\ LiveIn(s1) = LiveIn(s)
  BY <1>6 DEF Ready, Waiting, Sleeping, LiveIn
<1>8. Core(s1)
  BY <1>1, <1>6, <1>7, CoreKept
<1>9. Owners(s1, None)
  BY <1>1, <1>6, <1>7, OwnersKept
<1>10. Waits(s1, None)
  BY <1>1, <1>6, <1>7, WaitsKept
<1>11. \A x : Lenders(s1, x) = Lenders(s, x)
  BY <1>6, <1>7, LendersKept DEF IsMutex
<1>12. Due(s1, s1.b_prio, u, p)
  BY <1>4, <1>5, <1>6, <1>11 DEF Due
<1>13. Inherit(s1, s1.b_prio, u)
  <2> SUFFICES ASSUME NEW x \in LiveIn(s) \ {u} PROVE Due(s1, s1.b_prio, x, s1.prio[x])
    BY <1>7 DEF Inherit
  <2>1. Due(s, s.b_prio, x, s.prio[x]) /\ x \in AllTask
    BY <1>1, CoreAssumption DEF Inherit, LiveIn, AllTask
  <2>2. QED
    BY <1>5, <1>6, <1>11, <2>1 DEF Due
<1>14. Chain(s1)
  BY <1>9, <1>10, ChainSound, NoneNoMutex
<1>15. Off(r, s1, u, p, s1.b_prio)
  BY <1>4, <1>5, <1>7, <1>8, <1>12, <1>13, <1>14, PriChanged DEF r
<1>16. Settling(r, s1) /\ Inherit(r, s1.b_prio, None)
  BY <1>15 DEF Off
<1>17. Kernel(r, None, None)
  BY <1>9, <1>10, <1>16, KernelSettled
<1>18. Mild(s1, s)
  BY <1>3, MildSame DEF Keeps, Fields
<1>19. Mild(r, s)
  BY <1>16, <1>18, MildSettling, MildTwice
<1>20. r.obj_type = s.obj_type
  BY <1>6, <1>16 DEF Settling, Keeps, Fields
<1>21. QED
  BY <1>17, <1>19, <1>20 DEF r, s1, p

\* A counter, the scheduler lock or the running task changes, and no list.
LEMMA MinorChange ==
  ASSUME NEW s, Kernel(s, None, None), NEW r, Typed(r),
         Keeps(r, s, {"owner_nested", "count", "sched_lock", "active"}),
         \A t \in Waiting(s) : s.blk_obj[t] \in Sem => r.count[s.blk_obj[t]] = 0
  PROVE  Kernel(r, None, None)
<1>1. Core(s) /\ Owners(s, None) /\ Waits(s, None) /\ Inherit(s, s.b_prio, None)
  BY DEF Kernel
<1>2. /\ r.ready = s.ready /\ r.highest_pri = s.highest_pri /\ r.blk_list = s.blk_list
      /\ r.tick_list = s.tick_list /\ r.task_state = s.task_state /\ r.prio = s.prio
      /\ r.b_prio = s.b_prio /\ r.obj_type = s.obj_type /\ r.mutex_task = s.mutex_task
      /\ r.mutex_list = s.mutex_list /\ r.blk_obj = s.blk_obj
  BY DEF Keeps, Fields
<1>3. /\ Ready(r) = Ready(s) /\ Waiting(r) = Waiting(s) /\ Sleeping(r) = Sleeping(s)
      /\ LiveIn(r) = LiveIn(s)
  BY <1>2 DEF Ready, Waiting, Sleeping, LiveIn
<1>4. Core(r)
  BY <1>1, <1>2, <1>3, CoreKept
<1>5. Owners(r, None)
  BY <1>1, <1>2, <1>3, OwnersKept
<1>6. Waits(r, None)
  BY <1>1, <1>2, <1>3 DEF Waits
<1>7. \A x : Lenders(r, x) = Lenders(s, x)
  BY <1>2, <1>3, LendersKept DEF IsMutex
<1>8. Inherit(r, r.b_prio, None)
  BY <1>1, <1>2, <1>3, <1>7, InheritKept
<1>9. QED
  BY <1>4, <1>5, <1>6, <1>8 DEF Kernel

\* krhino_mutex_lock on a free mutex.
Taken(s, t, m) ==
  [s EXCEPT !.mutex_task[m] = t, !.owner_nested[m] = 1, !.mutex_list[t] = Cons(m, @)]

LEMMA MutexTaken ==
  ASSUME NEW s, Kernel(s, None, None), NEW t \in LiveIn(s), t # Idle, NEW m \in Mutex,
         m \in s.obj_type, s.mutex_task[m] = None
  PROVE  LET r == Taken(s, t, m)
         IN /\ Kernel(r, None, None) /\ Keeps(r, s, {"mutex_task", "owner_nested", "mutex_list"})
            /\ r.mutex_task = [s.mutex_task EXCEPT ![m] = t]
            /\ r.owner_nested = [s.owner_nested EXCEPT ![m] = 1]
<1> DEFINE r == Taken(s, t, m)
           list == Cons(m, s.mutex_list[t])
<1>1. Core(s) /\ Typed(s) /\ Owners(s, None) /\ Waits(s, None) /\ Inherit(s, s.b_prio, None)
  BY DEF Kernel, Core, Queues
<1>2. /\ Keeps(r, s, {"mutex_task", "owner_nested", "mutex_list"})
      /\ r.mutex_task = [s.mutex_task EXCEPT ![m] = t]
      /\ r.owner_nested = [s.owner_nested EXCEPT ![m] = 1]
      /\ r.mutex_list = [s.mutex_list EXCEPT ![t] = list]
  BY <1>1 DEF Typed, IsK, Keeps, Fields, Taken
<1> HIDE DEF r
<1>3. t \in AllTask /\ t # None /\ Holds(s, t)
  BY <1>1, CoreAssumption DEF LiveIn, AllTask, Owners
<1>4. IsList(list, Mutex) /\ ToSet(list) = ToSet(s.mutex_list[t]) \cup {m}
  <2>1. IsList(s.mutex_list[t], Mutex) /\ m \in Mutex \ ToSet(s.mutex_list[t])
    BY <1>3 DEF Holds
  <2>2. QED
    BY <2>1, Prepended DEF Cons
<1> HIDE DEF list
<1>5. /\ r.mutex_task \in [Mutex -> AllTask \cup {None}] /\ r.mutex_task[m] = t
      /\ \A n \in Mutex \ {m} : r.mutex_task[n] = s.mutex_task[n]
  <2>1. s.mutex_task \in [Mutex -> AllTask \cup {None}]
    BY <1>1 DEF Typed
  <2>2. QED
    BY <1>2, <1>3, <2>1
<1>6. /\ r.mutex_list \in [AllTask -> Seq(Mutex)] /\ r.mutex_list[t] = list
      /\ \A u \in AllTask \ {t} : r.mutex_list[u] = s.mutex_list[u]
  <2>1. s.mutex_list \in [AllTask -> Seq(Mutex)] /\ list \in Seq(Mutex)
    BY <1>1, <1>4 DEF Typed, IsList
  <2>2. QED
    BY <1>2, <1>3, <2>1
<1>7. r.owner_nested \in [Mutex -> Nat]
  BY <1>1, <1>2 DEF Typed
<1>8. /\ Typed(r) /\ r.ready = s.ready /\ r.highest_pri = s.highest_pri
      /\ r.blk_list = s.blk_list /\ r.tick_list = s.tick_list /\ r.task_state = s.task_state
      /\ r.prio = s.prio /\ r.blk_obj = s.blk_obj /\ r.obj_type = s.obj_type
      /\ r.b_prio = s.b_prio /\ r.count = s.count
  BY <1>1, <1>2, <1>5, <1>6, <1>7 DEF Typed, Keeps, Fields
<1>9. /\ Ready(r) = Ready(s) /\ Waiting(r) = Waiting(s) /\ Sleeping(r) = Sleeping(s)
      /\ LiveIn(r) = LiveIn(s)
  BY <1>8 DEF Ready, Waiting, Sleeping, LiveIn
<1>10. Core(r)
  BY <1>1, <1>8, <1>9, CoreKept
<1>11. \A u \in Waiting(s) : s.blk_obj[u] # m
  BY <1>1, CoreAssumption DEF Waits
<1>12. Owners(r, None)
  <2>1. Holds(r, t)
    BY <1>3, <1>4, <1>5, <1>6, <1>8 DEF Holds
  <2>2. ASSUME NEW u \in AllTask \ {t} PROVE Holds(r, u)
    <3>1. Holds(s, u) /\ u # None
      BY <1>1, CoreAssumption DEF AllTask, Owners
    <3>2. QED
      BY <1>5, <1>6, <1>8, <3>1 DEF Holds
  <2>3. QED
    BY <1>1, <1>5, <1>8, <1>9, <2>1, <2>2 DEF Owners
<1>13. Waits(r, None)
  BY <1>1, <1>5, <1>8, <1>9, <1>11 DEF Waits
<1>14. \A x : Lenders(r, x) = Lenders(s, x)
  BY <1>5, <1>8, <1>9, <1>11, LendersKept DEF IsMutex
<1>15. Inherit(r, r.b_prio, None)
  BY <1>1, <1>8, <1>9, <1>14, InheritKept
<1>16. QED
  BY <1>2, <1>10, <1>12, <1>13, <1>15 DEF Kernel, r

\* krhino_task_create on the memory of a deleted task.
Created(s, u, pri) ==
  [s EXCEPT !.task_state[u] = "RDY", !.prio[u] = pri, !.b_prio[u] = pri,
            !.suspend_count[u] = 0, !.blk_obj[u] = None,
            !.blk_state[u] = "FINISH", !.mutex_list[u] = <<>>]

CreateFields == {"task_state", "prio", "b_prio", "suspend_count", "blk_obj", "blk_state",
                 "mutex_list", "ready", "highest_pri"}

LEMMA TaskCreated ==
  ASSUME NEW s, Kernel(s, None, None), NEW u \in AllTask, s.task_state[u] = "DELETED",
         NEW pri \in Prio, u # Idle
  PROVE  LET r == ready_list_add_tail(Created(s, u, pri), u)
         IN /\ Kernel(r, None, None) /\ Moves(r, s, u, "RDY") /\ Keeps(r, s, CreateFields)
            /\ r.suspend_count = [s.suspend_count EXCEPT ![u] = 0]
            /\ r.blk_obj = [s.blk_obj EXCEPT ![u] = None]
            /\ r.blk_state = [s.blk_state EXCEPT ![u] = "FINISH"]
<1> DEFINE s1 == Created(s, u, pri)
           r  == ready_list_add_tail(s1, u)
<1>1. /\ Core(s) /\ Typed(s) /\ Owners(s, None) /\ Waits(s, None) /\ Inherit(s, s.b_prio, None)
      /\ Queues(s) /\ Ticks(s, Sleeping(s), Waiting(s))
  BY DEF Kernel, Core, Queues
<1>2. /\ Keeps(s1, s, {"task_state", "prio", "b_prio", "suspend_count", "blk_obj", "blk_state",
                       "mutex_list"})
      /\ s1.task_state = [s.task_state EXCEPT ![u] = "RDY"]
      /\ s1.prio = [s.prio EXCEPT ![u] = pri]
      /\ s1.b_prio = [s.b_prio EXCEPT ![u] = pri]
      /\ s1.suspend_count = [s.suspend_count EXCEPT ![u] = 0]
      /\ s1.blk_obj = [s.blk_obj EXCEPT ![u] = None]
      /\ s1.blk_state = [s.blk_state EXCEPT ![u] = "FINISH"]
      /\ s1.mutex_list = [s.mutex_list EXCEPT ![u] = <<>>]
  <2>1. Keeps(s1, s, {"task_state", "prio", "b_prio", "suspend_count", "blk_obj", "blk_state",
                      "mutex_list"})
    <3>1. IsK(s1)
      BY <1>1 DEF Typed, IsK, Created
    <3>2. /\ s1.ready = s.ready /\ s1.highest_pri = s.highest_pri /\ s1.tick_list = s.tick_list
          /\ s1.blk_list = s.blk_list /\ s1.obj_type = s.obj_type
      BY <1>1 DEF Typed, IsK, Fields, Created
    <3>3. /\ s1.mutex_task = s.mutex_task /\ s1.owner_nested = s.owner_nested
          /\ s1.count = s.count /\ s1.active = s.active /\ s1.sched_lock = s.sched_lock
          /\ s1.err = s.err
      BY <1>1 DEF Typed, IsK, Fields, Created
    <3> HIDE DEF s1
    <3>4. QED
      BY <3>1, <3>2, <3>3 DEF Keeps, Fields
  <2>2. s1.task_state = [s.task_state EXCEPT ![u] = "RDY"]
    BY <1>1 DEF Typed, IsK, Fields, Created
  <2>3. s1.prio = [s.prio EXCEPT ![u] = pri]
    BY <1>1 DEF Typed, IsK, Fields, Created
  <2>4. s1.b_prio = [s.b_prio EXCEPT ![u] = pri]
    BY <1>1 DEF Typed, IsK, Fields, Created
  <2>5. s1.suspend_count = [s.suspend_count EXCEPT ![u] = 0]
    BY <1>1 DEF Typed, IsK, Fields, Created
  <2>6. s1.blk_obj = [s.blk_obj EXCEPT ![u] = None]
    BY <1>1 DEF Typed, IsK, Fields, Created
  <2>7. s1.blk_state = [s.blk_state EXCEPT ![u] = "FINISH"]
    BY <1>1 DEF Typed, IsK, Fields, Created
  <2>8. s1.mutex_list = [s.mutex_list EXCEPT ![u] = <<>>]
    BY <1>1 DEF Typed, IsK, Fields, Created
  <2>9. QED
    BY <2>1, <2>2, <2>3, <2>4, <2>5, <2>6, <2>7, <2>8
<1> HIDE DEF s1
<1>3. s1.task_state \in [AllTask -> TaskState] /\ Moves(s1, s, u, "RDY")
  BY <1>1, <1>2, MovedTyped DEF Typed, TaskState
<1>4. /\ s1.prio \in [AllTask -> Prio] /\ s1.prio[u] = pri
      /\ \A t \in AllTask \ {u} : s1.prio[t] = s.prio[t]
  BY <1>1, <1>2 DEF Typed
<1>5. /\ s1.b_prio \in [AllTask -> Prio] /\ s1.b_prio[u] = pri
      /\ \A t \in AllTask \ {u} : s1.b_prio[t] = s.b_prio[t]
  BY <1>1, <1>2 DEF Typed
<1>6. /\ s1.suspend_count \in [AllTask -> Nat]
      /\ s1.blk_state \in [AllTask -> {"FINISH", "TIMEOUT", "DEL"}]
  BY <1>1, <1>2 DEF Typed
<1>7. /\ s1.blk_obj \in [AllTask -> Object \cup {None}]
      /\ \A t \in AllTask \ {u} : s1.blk_obj[t] = s.blk_obj[t]
  BY <1>1, <1>2 DEF Typed
<1>8. /\ s1.mutex_list \in [AllTask -> Seq(Mutex)] /\ s1.mutex_list[u] = <<>>
      /\ \A t \in AllTask \ {u} : s1.mutex_list[t] = s.mutex_list[t]
  <2>1. s.mutex_list \in [AllTask -> Seq(Mutex)] /\ <<>> \in Seq(Mutex)
    BY <1>1 DEF Typed
  <2>2. QED
    BY <1>2, <2>1
<1>9. Typed(s1)
  BY <1>1, <1>2, <1>3, <1>4, <1>5, <1>6, <1>7, <1>8 DEF Typed, Keeps, Fields
<1>10. s1.ready = s.ready /\ s1.highest_pri = s.highest_pri /\ s1.blk_list = s.blk_list
  BY <1>2 DEF Keeps, Fields
<1>11. u \notin Ready(s) /\ u \notin Waiting(s) /\ u \notin Sleeping(s) /\ u \notin LiveIn(s)
  BY DEF Ready, Waiting, Pended, Sleeping, LiveIn
<1>12. Queues(r) /\ Keeps(r, s1, {"ready", "highest_pri"}) /\ Moves(r, s, u, "RDY")
  BY <1>1, <1>3, <1>4, <1>7, <1>9, <1>10, <1>11, GetsReady
<1> HIDE DEF r
<1>13. Waiting(r) = Waiting(s)
  <2>1. Waiting(r) = Waiting(s) \ {u}
    BY <1>12, NotWaiting DEF Pended
  <2>2. QED
    BY <1>11, <2>1
<1>14. Sleeping(r) = Sleeping(s)
  <2>1. Sleeping(r) = Sleeping(s) \ {u}
    BY <1>12, NotSleeping
  <2>2. QED
    BY <1>11, <2>1
<1>15. LiveIn(r) = LiveIn(s) \cup {u}
  BY <1>12, NowLive
<1>16. Keeps(r, s, CreateFields)
  BY <1>2, <1>12 DEF Keeps, Fields, CreateFields
<1>17. /\ r.tick_list = s.tick_list /\ r.obj_type = s.obj_type /\ r.mutex_task = s.mutex_task
       /\ r.count = s.count
  BY <1>16 DEF Keeps, Fields, CreateFields
<1>18. /\ r.prio = s1.prio /\ r.b_prio = s1.b_prio /\ r.suspend_count = s1.suspend_count
       /\ r.blk_obj = s1.blk_obj /\ r.blk_state = s1.blk_state /\ r.mutex_list = s1.mutex_list
  BY <1>12 DEF Keeps, Fields
<1>19. Core(r)
  BY <1>1, <1>12, <1>13, <1>14, <1>17 DEF Core, Ticks
<1>20. \A m \in Mutex \cap s.obj_type : s.mutex_task[m] # u
  BY <1>1, <1>11, CoreAssumption DEF Owners, AllTask
<1>21. Owners(r, None)
  <2>1. Holds(r, u)
    <3>1. <<>> \in Seq(Mutex)
      OBVIOUS
    <3>2. ToSet(<<>>) = {}
      BY <3>1, InList
    <3>3. IsInjective(<<>>)
      BY DEF IsInjective
    <3>4. r.mutex_list[u] = <<>>
      BY <1>8, <1>18
    <3>5. QED
      BY <1>17, <1>20, <3>1, <3>2, <3>3, <3>4 DEF Holds, IsList
  <2>2. \A t \in AllTask \ {u} : Holds(s, t) => Holds(r, t)
    BY <1>8, <1>17, <1>18 DEF Holds
  <2>3. QED
    BY <1>1, <1>15, <1>17, <2>1, <2>2 DEF Owners
<1>22. \A t \in Waiting(s) : t \in AllTask \ {u} /\ r.blk_obj[t] = s.blk_obj[t]
  BY <1>7, <1>11, <1>18 DEF Waiting
<1>23. Waits(r, None)
  BY <1>1, <1>13, <1>17, <1>22, WaitsKept
<1>24. \A x : Lenders(r, x) = Lenders(s, x)
  BY <1>13, <1>17, <1>22, LendersKept DEF IsMutex
<1>25. Inherit(r, r.b_prio, None)
  <2> SUFFICES ASSUME NEW t \in LiveIn(r) PROVE Due(r, r.b_prio, t, r.prio[t])
    BY DEF Inherit
  <2>1. \A v \in Lenders(s, t) : r.prio[v] = s.prio[v]
    BY <1>4, <1>18, <1>22 DEF Lenders
  <2>2. CASE t = u
    <3>1. Lenders(s, u) = {}
      BY <1>20 DEF Lenders, IsMutex
    <3>2. r.prio[u] = pri /\ r.b_prio[u] = pri /\ pri \in Nat
      BY <1>4, <1>5, <1>18, PrioFacts
    <3>3. QED
      BY <1>24, <2>2, <3>1, <3>2 DEF Due
  <2>3. CASE t # u
    <3>1. t \in LiveIn(s) /\ t # None /\ t \in AllTask
      BY <1>15, <2>3, CoreAssumption DEF LiveIn, AllTask
    <3>2. Due(s, s.b_prio, t, s.prio[t])
      BY <1>1, <3>1 DEF Inherit
    <3>3. r.prio[t] = s.prio[t] /\ r.b_prio[t] = s.b_prio[t]
      BY <1>4, <1>5, <1>18, <2>3, <3>1
    <3>4. QED
      BY <1>24, <2>1, <3>2, <3>3 DEF Due
  <2>4. QED
    BY <2>2, <2>3
<1>26. Kernel(r, None, None)
  BY <1>19, <1>21, <1>23, <1>25 DEF Kernel
<1>27. QED
  BY <1>2, <1>12, <1>16, <1>18, <1>26 DEF r, s1

\* krhino_task_suspend and krhino_task_resume.
LEMMA CalmResuspended ==
  ASSUME NEW s, Kernel(s, None, None), NEW u, NEW r, Core(r), Resuspended(r, s, u)
  PROVE  Kernel(r, None, None) /\ Calm(r, s) /\ r.count = s.count
<1>1. /\ Keeps(r, s, {"ready", "highest_pri", "task_state", "suspend_count"})
      /\ Waiting(r) = Waiting(s) /\ Sleeping(r) = Sleeping(s) /\ LiveIn(r) = LiveIn(s)
  BY DEF Resuspended
<1>2. /\ r.prio = s.prio /\ r.b_prio = s.b_prio /\ r.obj_type = s.obj_type
      /\ r.mutex_task = s.mutex_task /\ r.mutex_list = s.mutex_list /\ r.count = s.count
      /\ r.blk_obj = s.blk_obj /\ r.owner_nested = s.owner_nested /\ r.active = s.active
      /\ r.sched_lock = s.sched_lock /\ r.blk_state = s.blk_state
  BY <1>1 DEF Keeps, Fields
<1>3. Kernel(r, None, None)
  BY <1>1, <1>2, KernelKept
<1>4. Calm(r, s)
  BY <1>1, <1>2 DEF Calm, Same
<1>5. QED
  BY <1>2, <1>3, <1>4

LEMMA SleepStarted ==
  ASSUME NEW s, Kernel(s, None, None), NEW t \in Ready(s), t # Idle,
         NEW i \in 1..Len(s.tick_list) + 1
  PROVE  LET r == ready_list_rm(tick_list_insert([s EXCEPT !.task_state[t] = "SLEEP"], t, i), t)
         IN /\ Kernel(r, None, None) /\ Moves(r, s, t, "SLEEP")
            /\ Keeps(r, s, {"ready", "highest_pri", "task_state", "tick_list"})
<1> DEFINE r == ready_list_rm(tick_list_insert([s EXCEPT !.task_state[t] = "SLEEP"], t, i), t)
<1>1. Core(s) /\ t \in AllTask /\ t \notin Waiting(s) /\ t \in LiveIn(s)
  BY DEF Kernel, Ready, Waiting, Pended, LiveIn
<1>2. /\ Core(r) /\ Moves(r, s, t, "SLEEP")
      /\ Keeps(r, s, {"ready", "highest_pri", "task_state", "tick_list"})
  BY <1>1, Slept
<1> HIDE DEF r
<1>3. /\ r.prio = s.prio /\ r.b_prio = s.b_prio /\ r.obj_type = s.obj_type
      /\ r.mutex_task = s.mutex_task /\ r.mutex_list = s.mutex_list /\ r.count = s.count
      /\ r.blk_obj = s.blk_obj
  BY <1>2 DEF Keeps, Fields
<1>4. Waiting(r) = Waiting(s) \ {t}
  BY <1>1, <1>2, NotWaiting DEF Pended
<1>5. LiveIn(r) = LiveIn(s) \cup {t}
  BY <1>1, <1>2, NowLive
<1>6. Waiting(r) = Waiting(s) /\ LiveIn(r) = LiveIn(s)
  BY <1>1, <1>4, <1>5
<1>7. Kernel(r, None, None)
  BY <1>2, <1>3, <1>6, KernelKept
<1>8. QED
  BY <1>2, <1>7 DEF r

-----------------------------------------------------------------------------
(***************************************************************************)
(* k_sem.c, the counters, and the choice of a task.                        *)
(***************************************************************************)
LEMMA OnTheList ==
  ASSUME NEW s, Core(s), NEW o \in Object
  PROVE  /\ \A t \in ToSet(s.blk_list[o]) : t \in Waiting(s) /\ s.blk_obj[t] = o
         /\ s.blk_list[o] = <<>> => \A t \in Waiting(s) : s.blk_obj[t] # o
<1>1. /\ Typed(s) /\ IsList(s.blk_list[o], AllTask)
      /\ \A t \in AllTask : t \in ToSet(s.blk_list[o]) <=> t \in Waiting(s) /\ s.blk_obj[t] = o
  BY DEF Core, Queues, Blocks
<1>2. ToSet(s.blk_list[o]) \subseteq AllTask
  BY <1>1, InList DEF IsList
<1>3. s.blk_list[o] = <<>> => ToSet(s.blk_list[o]) = {}
  BY <1>1, InList DEF IsList
<1>4. \A t \in Waiting(s) : t \in AllTask
  BY DEF Waiting
<1>5. QED
  BY <1>1, <1>2, <1>3, <1>4

\* A semaphore's count changes while nobody waits for it.
Recount(s, o, c) == [s EXCEPT !.count[o] = c]

LEMMA CountChanged ==
  ASSUME NEW s, Kernel(s, None, None), NEW o \in Sem, NEW c \in Nat,
         s.blk_list[o] = <<>> \/ s.count[o] > 0
  PROVE  LET r == Recount(s, o, c)
         IN Kernel(r, None, None) /\ Keeps(r, s, {"count"}) /\ r.count = [s.count EXCEPT ![o] = c]
<1> DEFINE r == Recount(s, o, c)
<1>1. Core(s) /\ Typed(s) /\ Waits(s, None)
  BY DEF Kernel, Core, Queues
<1>2. Keeps(r, s, {"count"}) /\ r.count = [s.count EXCEPT ![o] = c]
  BY <1>1 DEF Typed, IsK, Keeps, Fields, Recount
<1> HIDE DEF r
<1>3. r.count \in [Sem -> Nat] /\ \A x \in Sem \ {o} : r.count[x] = s.count[x]
  BY <1>1, <1>2 DEF Typed
<1>4. Typed(r)
  BY <1>1, <1>2, <1>3 DEF Typed, Keeps, Fields
<1>5. \A t \in Waiting(s) : s.blk_obj[t] # None /\ (s.blk_obj[t] \in Sem => s.count[s.blk_obj[t]] = 0)
  BY <1>1, CoreAssumption DEF Waits, Core, Queues, Object
<1>6. \A t \in Waiting(s) : s.blk_obj[t] # o
  BY <1>1, <1>5, OnTheList DEF Object
<1>7. Keeps(r, s, {"owner_nested", "count", "sched_lock", "active"})
  BY <1>2 DEF Keeps
<1>8. \A t \in Waiting(s) : s.blk_obj[t] \in Sem => r.count[s.blk_obj[t]] = 0
  BY <1>3, <1>5, <1>6
<1>9. Kernel(r, None, None)
  BY <1>4, <1>7, <1>8, MinorChange
<1>10. QED
  BY <1>2, <1>9 DEF r

\* Everyone's wait for the semaphore o ends.
LEMMA AllWoken ==
  ASSUME NEW s, NEW o \in Object, Kernel(s, None, o), ~IsMutex(s, o), NEW result \in Result,
         result # "FINISH" \/ o \notin Mutex
  PROVE  LET r == EndPendAll(s, o, result) IN Kernel(r, None, None) /\ Mild(r, s)
             /\ r.obj_type = s.obj_type
<1> DEFINE r == EndPendAll(s, o, result)
           A == ToSet(s.blk_list[o])
<1>1. Kernel(r, None, None) /\ Awake(r, s, A, result)
  BY AllEnded
<1> HIDE DEF r
<1>2. \A t \in A : t \in Waiting(s) /\ s.blk_obj[t] = o
  BY OnTheList DEF Kernel
<1> HIDE DEF A
<1>3. A \subseteq Waiting(s) /\ (result # "FINISH" \/ \A t \in A : s.blk_obj[t] \notin Mutex)
  BY <1>2
<1>4. Mild(r, s)
  BY <1>1, <1>3, MildAwake
<1>5. r.obj_type = s.obj_type
  BY <1>1 DEF Awake, Keeps, Fields
<1>6. QED
  BY <1>1, <1>4, <1>5 DEF r

\* sem_give.
LEMMA SemGiven ==
  ASSUME NEW s, Kernel(s, None, None), NEW o \in Sem, NEW all \in BOOLEAN
  PROVE  LET r == sem_give(s, o, all)
         IN IF s.blk_list[o] = <<>> THEN r = Recount(s, o, s.count[o] + 1)
            ELSE Kernel(r, None, None) /\ Mild(r, s) /\ r.obj_type = s.obj_type
<1> DEFINE r == sem_give(s, o, all)
<1>1. o \in Object /\ ~IsMutex(s, o) /\ o \notin Mutex /\ "FINISH" \in Result
  BY CoreAssumption DEF Object, IsMutex, Result
<1>2. Core(s) /\ Typed(s) /\ Kernel(s, None, o)
  <2>1. Core(s) /\ Typed(s) /\ Waits(s, None) /\ \A t \in Waiting(s) : s.blk_obj[t] # None
    BY CoreAssumption DEF Kernel, Core, Queues, Object
  <2>2. Waits(s, o)
    BY <2>1 DEF Waits
  <2>3. QED
    BY <2>1, <2>2 DEF Kernel
<1>3. CASE s.blk_list[o] = <<>>
  BY <1>3 DEF sem_give, Recount
<1>4. CASE s.blk_list[o] # <<>> /\ all
  <2>1. r = EndPendAll(s, o, "FINISH")
    BY <1>4 DEF sem_give
  <2> HIDE DEF r
  <2>2. Kernel(r, None, None) /\ Mild(r, s) /\ r.obj_type = s.obj_type
    BY <1>1, <1>2, <2>1, AllWoken
  <2>3. QED
    BY <1>4, <2>2 DEF r
<1>5. CASE s.blk_list[o] # <<>> /\ ~all
  <2> DEFINE u == Head(s.blk_list[o])
  <2>1. r = EndPend(s, u, "FINISH")
    BY <1>5 DEF sem_give, pend_task_wakeup
  <2>2. u \in Waiting(s) /\ u \in AllTask /\ s.blk_obj[u] = o
    BY <1>1, <1>2, <1>5, FirstWaiter
  <2> HIDE DEF r, u
  <2>3. Kernel(r, None, None) /\ Woken(r, s, u, "FINISH")
    BY <1>1, <2>1, <2>2, WokenElsewhere
  <2>4. Awake(r, s, {u}, "FINISH")
    BY <1>2, <2>2, <2>3, AwakeAlone
  <2>5. Mild(r, s)
    BY <1>1, <2>2, <2>4, MildAwake
  <2>6. r.obj_type = s.obj_type
    BY <2>3 DEF Woken, Keeps, Fields
  <2>7. QED
    BY <1>5, <2>3, <2>5, <2>6 DEF r
<1>6. QED
  BY <1>3, <1>4, <1>5

\* krhino_sem_del.
LEMMA SemDeleted ==
  ASSUME NEW s, Kernel(s, None, None), NEW o \in Sem
  PROVE  LET r == PendAllRm(Deleted(s, o), o)
         IN Kernel(r, None, None) /\ Mild(r, s) /\ r.obj_type = s.obj_type \ {o}
<1> DEFINE s1 == Deleted(s, o)
           r  == EndPendAll(s1, o, "DEL")
<1>1. Core(s) /\ Owners(s, None) /\ Waits(s, None) /\ Inherit(s, s.b_prio, None) /\ Typed(s)
  BY DEF Kernel, Core, Queues
<1>2. /\ Core(s1) /\ Keeps(s1, s, {"obj_type"}) /\ s1.obj_type = s.obj_type \ {o}
      /\ Waiting(s1) = Waiting(s) /\ LiveIn(s1) = LiveIn(s)
  BY <1>1, ObjectDeleted
<1> HIDE DEF s1
<1>3. o \in Object /\ o \notin Mutex /\ ~IsMutex(s1, o) /\ "DEL" \in Result
  BY CoreAssumption DEF Object, IsMutex, Result
<1>4. /\ s1.task_state = s.task_state /\ s1.blk_obj = s.blk_obj /\ s1.blk_state = s.blk_state
      /\ s1.prio = s.prio /\ s1.b_prio = s.b_prio /\ s1.mutex_task = s.mutex_task
      /\ s1.mutex_list = s.mutex_list /\ s1.count = s.count /\ s1.owner_nested = s.owner_nested
      /\ s1.active = s.active /\ s1.sched_lock = s.sched_lock
      /\ s1.suspend_count = s.suspend_count
  BY <1>2 DEF Keeps, Fields
<1>5. \A m \in Mutex : m \in s1.obj_type <=> m \in s.obj_type
  BY <1>2, <1>3
<1>6. \A x : IsMutex(s1, x) <=> IsMutex(s, x)
  BY <1>5 DEF IsMutex
<1>7. Owners(s1, None)
  <2>1. ASSUME NEW t \in AllTask, Holds(s, t) PROVE Holds(s1, t)
    BY <1>4, <1>5, <2>1 DEF Holds
  <2>2. QED
    BY <1>1, <1>2, <1>4, <1>5, <2>1 DEF Owners
<1>8. Waits(s1, o)
  BY <1>1, <1>2, <1>4, CoreAssumption DEF Waits, Core, Queues, Object
<1>9. \A x : Lenders(s1, x) = Lenders(s, x)
  BY <1>2, <1>4, <1>6, LendersKept
<1>10. Inherit(s1, s1.b_prio, None)
  BY <1>1, <1>2, <1>4, <1>9, InheritKept
<1>11. Kernel(s1, None, o)
  BY <1>2, <1>7, <1>8, <1>10 DEF Kernel
<1>12. Kernel(r, None, None) /\ Mild(r, s1) /\ r.obj_type = s1.obj_type
  BY <1>3, <1>11, AllWoken
<1> HIDE DEF r
<1>13. Mild(s1, s)
  BY <1>2, <1>4, MildSame
<1>14. Mild(r, s)
  BY <1>12, <1>13, MildTwice
<1>15. QED
  BY <1>2, <1>12, <1>14 DEF r, s1, PendAllRm

\* The nesting count of a mutex changes.
Renested(s, m, n) == [s EXCEPT !.owner_nested[m] = n]

LEMMA NestChanged ==
  ASSUME NEW s, Kernel(s, None, None), NEW m \in Mutex, NEW n \in Nat
  PROVE  LET r == Renested(s, m, n)
         IN /\ Kernel(r, None, None) /\ Keeps(r, s, {"owner_nested"})
            /\ r.owner_nested = [s.owner_nested EXCEPT ![m] = n]
<1> DEFINE r == Renested(s, m, n)
<1>1. Core(s) /\ Typed(s) /\ Waits(s, None)
  BY DEF Kernel, Core, Queues
<1>2. Keeps(r, s, {"owner_nested"}) /\ r.owner_nested = [s.owner_nested EXCEPT ![m] = n]
  BY <1>1 DEF Typed, IsK, Keeps, Fields, Renested
<1> HIDE DEF r
<1>3. r.owner_nested \in [Mutex -> Nat]
  BY <1>1, <1>2 DEF Typed
<1>4. Typed(r)
  BY <1>1, <1>2, <1>3 DEF Typed, Keeps, Fields
<1>5. Keeps(r, s, {"owner_nested", "count", "sched_lock", "active"}) /\ r.count = s.count
  BY <1>2 DEF Keeps, Fields
<1>6. \A t \in Waiting(s) : s.blk_obj[t] \in Sem => r.count[s.blk_obj[t]] = 0
  BY <1>1, <1>5, CoreAssumption DEF Waits
<1>7. Kernel(r, None, None)
  BY <1>4, <1>5, <1>6, MinorChange
<1>8. QED
  BY <1>2, <1>7 DEF r

\* krhino_sched_disable and krhino_sched_enable.
Relocked(s, n) == [s EXCEPT !.sched_lock = n]

LEMMA LockChanged ==
  ASSUME NEW s, Kernel(s, None, None), NEW n \in Nat
  PROVE  LET r == Relocked(s, n)
         IN Kernel(r, None, None) /\ Keeps(r, s, {"sched_lock"}) /\ r.sched_lock = n
<1> DEFINE r == Relocked(s, n)
<1>1. Core(s) /\ Typed(s) /\ Waits(s, None)
  BY DEF Kernel, Core, Queues
<1>2. Keeps(r, s, {"sched_lock"}) /\ r.sched_lock = n
  BY <1>1 DEF Typed, IsK, Keeps, Fields, Relocked
<1> HIDE DEF r
<1>3. Typed(r)
  BY <1>1, <1>2 DEF Typed, Keeps, Fields
<1>4. Keeps(r, s, {"owner_nested", "count", "sched_lock", "active"}) /\ r.count = s.count
  BY <1>2 DEF Keeps, Fields
<1>5. \A t \in Waiting(s) : s.blk_obj[t] \in Sem => r.count[s.blk_obj[t]] = 0
  BY <1>1, <1>4, CoreAssumption DEF Waits
<1>6. Kernel(r, None, None)
  BY <1>3, <1>4, <1>5, MinorChange
<1>7. QED
  BY <1>2, <1>6 DEF r

\* core_sched: the first task of the highest ready priority.
Chosen(s, t) == [s EXCEPT !.active = t]

LEMMA Scheduled ==
  ASSUME NEW s, Kernel(s, None, None)
  PROVE  LET r == core_sched(s)
         IN /\ Kernel(r, None, None) /\ Keeps(r, s, {"active"})
            /\ s.sched_lock > 0 => r.active = s.active
            /\ s.sched_lock = 0 => r.active \in Ready(s) /\ s.prio[r.active] = s.highest_pri
<1> DEFINE x == preferred_cpu_ready_task_get(s)
           r == Chosen(s, x)
<1>1. Core(s) /\ Typed(s) /\ Waits(s, None)
  BY DEF Kernel, Core, Queues
<1>2. x \in Ready(s) /\ x \in AllTask /\ s.prio[x] = s.highest_pri
  <2> DEFINE p == s.highest_pri
  <2>1. /\ p \in Prio /\ s.ready[p] # <<>> /\ IsList(s.ready[p], AllTask)
        /\ \A t \in AllTask : t \in ToSet(s.ready[p]) <=> t \in Ready(s) /\ s.prio[t] = p
    BY <1>1 DEF Core, Queues, Rings, Typed
  <2>2. x \in AllTask /\ x \in ToSet(s.ready[p])
    BY <2>1, InList DEF IsList, preferred_cpu_ready_task_get
  <2>3. QED
    BY <2>1, <2>2
<1> HIDE DEF x
<1>3. Keeps(r, s, {"active"}) /\ r.active = x
  BY <1>1 DEF Typed, IsK, Keeps, Fields, Chosen
<1> HIDE DEF r
<1>4. Typed(r)
  BY <1>1, <1>2, <1>3 DEF Typed, Keeps, Fields
<1>5. Keeps(r, s, {"owner_nested", "count", "sched_lock", "active"}) /\ r.count = s.count
  BY <1>3 DEF Keeps, Fields
<1>6. \A t \in Waiting(s) : s.blk_obj[t] \in Sem => r.count[s.blk_obj[t]] = 0
  BY <1>1, <1>5, CoreAssumption DEF Waits
<1>7. Kernel(r, None, None)
  BY <1>4, <1>5, <1>6, MinorChange
<1>8. CASE s.sched_lock > 0
  <2>1. core_sched(s) = s
    BY <1>8 DEF core_sched
  <2>2. s.sched_lock # 0
    BY <1>1, <1>8 DEF Typed
  <2>3. Keeps(s, s, {"active"})
    BY <1>1 DEF Typed, Keeps
  <2>4. QED
    BY <1>8, <2>1, <2>2, <2>3
<1>9. CASE ~(s.sched_lock > 0)
  <2>1. core_sched(s) = r
    BY <1>9 DEF core_sched, r, x, Chosen
  <2>2. QED
    BY <1>2, <1>3, <1>7, <1>9, <2>1
<1>10. QED
  BY <1>8, <1>9
-----------------------------------------------------------------------------
(***************************************************************************)
(* The application.                                                        *)
(***************************************************************************)

\* The locks that tasks know of, after the mutexes that are not in r are gone.
Forgets(h1, h, r) ==
  /\ h1 \in [AllTask -> [Mutex -> Nat]]
  /\ \A t \in AllTask, m \in Mutex :
       h1[t][m] = IF m \in r.obj_type THEN h[t][m] ELSE 0

LEMMA ForgetsNothing ==
  ASSUME NEW s, NEW p, NEW w, NEW h, NEW a, Machine(s, p, w, h, a),
         NEW r, \A m \in Mutex : m \in s.obj_type => m \in r.obj_type
  PROVE  Forgets(h, h, r)
<1>1. h \in [AllTask -> [Mutex -> Nat]] /\ \A t \in AllTask : Knows(s, p, w, h, t)
  BY DEF Machine, MachineType, Wants
<1>2. \A t \in AllTask, m \in Mutex : m \notin r.obj_type => h[t][m] = 0
  BY <1>1 DEF Knows
<1>3. QED
  BY <1>1, <1>2 DEF Forgets

LEMMA CalmKnows ==
  ASSUME NEW s, NEW p, NEW w, NEW h, NEW t \in AllTask, Knows(s, p, w, h, t),
         w[t] \in Mutex \cup {None},
         NEW r, Calm(r, s), NEW h1, Forgets(h1, h, r),
         NEW p1, p1[t] \in {"run", "sched"} => p[t] \in {"run", "sched"}
  PROVE  Knows(r, p1, w, h1, t)
<1>1. /\ Same(r, s, t) \/ Ends(r, s, t) \/ Rises(r, s, t)
      /\ LiveIn(r) = LiveIn(s)
  BY DEF Calm
<1>2. p1[t] \in {"run", "sched"} => w[t] = None \/ t \notin LiveIn(r)
  BY <1>1 DEF Knows
<1>3. t \in Waiting(r) => w[t] = IF r.blk_obj[t] \in Mutex THEN r.blk_obj[t] ELSE None
  BY <1>1 DEF Knows, Same, Ends, Rises
<1>4. t \in Sleeping(r) => w[t] = None
  BY <1>1 DEF Knows, Same, Ends, Rises
<1>5. t \notin Waiting(r) /\ t \in LiveIn(r) => r.blk_obj[t] = None
  <2>1. t \in Sleeping(s) => t \notin Waiting(s)
    BY SleepOrWait
  <2>2. QED
    BY <1>1, <2>1 DEF Knows, Same, Ends, Rises
<1>6. \A m \in Mutex : h1[t][m] = IF m \in r.obj_type THEN h[t][m] ELSE 0
  BY DEF Forgets
<1>7. w[t] # None => h1[t][w[t]] = 0
  BY <1>6 DEF Knows
<1>8. \A m \in Mutex : t \notin LiveIn(r) \/ m \notin r.obj_type => h1[t][m] = 0
  BY <1>1, <1>6 DEF Knows
<1>9. QED
  BY <1>2, <1>3, <1>4, <1>5, <1>7, <1>8 DEF Knows

LEMMA CalmHas ==
  ASSUME NEW s, NEW p, NEW w, NEW h, NEW a, NEW t \in AllTask, Knows(s, p, w, h, t),
         NEW m \in Mutex, Has(s, w, h, a, t, m),
         t \in Waiting(s) => s.blk_obj[t] # None,
         NEW r, Calm(r, s), NEW h1, h1[t][m] = h[t][m]
  PROVE  Has(r, w, h1, a, t, m)
<1>1. /\ Same(r, s, t) \/ Ends(r, s, t) \/ Rises(r, s, t)
      /\ r.mutex_task = s.mutex_task /\ r.owner_nested = s.owner_nested
  BY DEF Calm
<1>2. m # None
  BY CoreAssumption
<1>3. Granted(r, w, t, m) <=> Granted(s, w, t, m)
  <2>1. CASE Same(r, s, t)
    BY <2>1 DEF Same, Granted
  <2>2. CASE Ends(r, s, t)
    BY <1>2, <2>2 DEF Ends, Granted, Knows
  <2>3. CASE Rises(r, s, t)
    BY <1>2, <2>3 DEF Rises, Granted, Knows
  <2>4. QED
    BY <1>1, <2>1, <2>2, <2>3
<1>4. QED
  BY <1>1, <1>3 DEF Has

LEMMA WaitsForSomething ==
  ASSUME NEW s, Kernel(s, None, None)
  PROVE  \A t \in Waiting(s) : s.blk_obj[t] # None /\ s.blk_obj[t] \in Object
BY CoreAssumption DEF Kernel, Core, Queues, Object

\* What the application knows stays right when the kernel's step is calm.
LEMMA CalmMachine ==
  ASSUME NEW s, NEW p, NEW w, NEW h, NEW a, Machine(s, p, w, h, a),
         NEW r, Kernel(r, None, None), Calm(r, s), Counts(r, a),
         NEW h1, Forgets(h1, h, r),
         NEW p1 \in [AllTask -> {"run", "sched", "pend", "end"}], Runs(r, p1),
         \A t \in AllTask : p1[t] \in {"run", "sched"} => p[t] \in {"run", "sched"}
  PROVE  Machine(r, p1, w, h1, a)
<1>1. /\ MachineType(p, w, h, a) /\ Kernel(s, None, None) /\ Wants(s, p, w, h)
      /\ Owned(s, w, h, a)
  BY DEF Machine
<1>2. /\ r.obj_type \subseteq s.obj_type /\ LiveIn(r) = LiveIn(s)
  BY DEF Calm
<1>3. \A t \in AllTask : w[t] \in Mutex \cup {None}
  BY <1>1 DEF MachineType
<1>4. Wants(r, p1, w, h1)
  BY <1>1, <1>3, CalmKnows DEF Wants
<1>5. Owned(r, w, h1, a)
  <2> SUFFICES ASSUME NEW m \in Mutex, m \in r.obj_type, NEW t \in LiveIn(r)
               PROVE  Has(r, w, h1, a, t, m)
    BY DEF Owned
  <2>1. t \in AllTask /\ t \in LiveIn(s) /\ m \in s.obj_type
    BY <1>2 DEF LiveIn
  <2>2. Has(s, w, h, a, t, m) /\ Knows(s, p, w, h, t) /\ h1[t][m] = h[t][m]
    BY <1>1, <2>1 DEF Owned, Wants, Forgets
  <2>3. t \in Waiting(s) => s.blk_obj[t] # None
    BY <1>1, WaitsForSomething
  <2>4. QED
    BY <2>1, <2>2, <2>3, CalmHas
<1>6. MachineType(p1, w, h1, a)
  BY <1>1 DEF MachineType, Forgets
<1>7. QED
  BY <1>4, <1>5, <1>6 DEF Machine

LEMMA MildCounts ==
  ASSUME NEW s, NEW a, Counts(s, a), NEW r, Mild(r, s)
  PROVE  Counts(r, a)
<1>1. /\ r.count = s.count /\ r.suspend_count = s.suspend_count
      /\ r.owner_nested = s.owner_nested /\ r.mutex_task = s.mutex_task
      /\ r.obj_type \subseteq s.obj_type
      /\ \A t \in AllTask : r.task_state[t] \in Suspended => s.task_state[t] \in Suspended
  BY DEF Mild, Calm
<1>2. QED
  BY <1>1 DEF Counts

\* Where the active task is after RHINO_CRITICAL_EXIT_SCHED.
LEMMA PosMoved ==
  ASSUME NEW p \in [AllTask -> {"run", "sched", "pend", "end"}], NEW t \in AllTask,
         NEW to \in {"run", "sched", "pend", "end"}
  PROVE  LET p1 == [p EXCEPT ![t] = to]
         IN /\ p1 \in [AllTask -> {"run", "sched", "pend", "end"}]
            /\ p1[t] = to /\ \A u \in AllTask \ {t} : p1[u] = p[u]
OBVIOUS

\* A call that ends in RHINO_CRITICAL_EXIT_SCHED.
LEMMA CalmExit ==
  ASSUME NEW s, NEW p, NEW w, NEW h, NEW a, Machine(s, p, w, h, a), p[s.active] = "run",
         NEW r, Kernel(r, None, None), Calm(r, s), Counts(r, a),
         s.sched_lock > 0 => s.active \in Ready(r),
         NEW h1, Forgets(h1, h, r)
  PROVE  Machine(r, [p EXCEPT ![s.active] = "sched"], w, h1, a)
<1> DEFINE p1 == [p EXCEPT ![s.active] = "sched"]
<1>1. p \in [AllTask -> {"run", "sched", "pend", "end"}] /\ s.active \in AllTask
  BY DEF Machine, MachineType, Kernel, Core, Queues, Typed
<1>2. /\ p1 \in [AllTask -> {"run", "sched", "pend", "end"}]
      /\ p1[s.active] = "sched" /\ \A u \in AllTask \ {s.active} : p1[u] = p[u]
  BY <1>1, PosMoved
<1> HIDE DEF p1
<1>3. r.active = s.active /\ r.sched_lock = s.sched_lock
  BY DEF Calm
<1>4. Runs(r, p1)
  BY <1>2, <1>3 DEF Runs
<1>5. \A t \in AllTask : p1[t] \in {"run", "sched"} => p[t] \in {"run", "sched"}
  BY <1>2
<1>6. Machine(r, p1, w, h1, a)
  BY <1>2, <1>4, <1>5, CalmMachine
<1>7. QED
  BY <1>6 DEF p1

LEMMA LockedRuns ==
  ASSUME NEW s, NEW p, NEW w, NEW h, NEW a, Machine(s, p, w, h, a)
  PROVE  /\ s.sched_lock > 0 => s.active \in Ready(s)
         /\ p[s.active] = "run" => s.active \in Ready(s)
         /\ s.active \in AllTask
BY DEF Machine, Runs, Kernel, Core, Queues, Typed

LEMMA MildExit ==
  ASSUME NEW s, NEW p, NEW w, NEW h, NEW a, Machine(s, p, w, h, a), p[s.active] = "run",
         NEW r, Kernel(r, None, None), Mild(r, s), NEW h1, Forgets(h1, h, r)
  PROVE  Machine(r, [p EXCEPT ![s.active] = "sched"], w, h1, a)
<1>1. Calm(r, s) /\ Ready(s) \subseteq Ready(r)
  BY DEF Mild
<1>2. Counts(r, a)
  BY MildCounts DEF Machine
<1>3. s.sched_lock > 0 => s.active \in Ready(r)
  BY <1>1, LockedRuns
<1>4. QED
  BY <1>1, <1>2, <1>3, CalmExit

\* An interrupt, which ends with a choice of task.
LEMMA CalmInterrupt ==
  ASSUME NEW s, NEW p, NEW w, NEW h, NEW a, Machine(s, p, w, h, a),
         NEW r, Kernel(r, None, None), Calm(r, s), Counts(r, a), r.obj_type = s.obj_type,
         s.sched_lock > 0 => s.active \in Ready(r)
  PROVE  Machine(core_sched(r), p, w, h, a)
<1> DEFINE q == core_sched(r)
<1>1. /\ Kernel(q, None, None) /\ Keeps(q, r, {"active"})
      /\ r.sched_lock > 0 => q.active = r.active
      /\ r.sched_lock = 0 => q.active \in Ready(r) /\ r.prio[q.active] = r.highest_pri
  BY Scheduled
<1> HIDE DEF q
<1>2. Forgets(h, h, q)
  <2>1. q.obj_type = s.obj_type
    BY <1>1 DEF Keeps, Fields
  <2>2. QED
    BY <2>1, ForgetsNothing
<1>3. /\ r.task_state = q.task_state /\ r.prio = q.prio /\ r.highest_pri = q.highest_pri
      /\ r.sched_lock = q.sched_lock /\ r.suspend_count = q.suspend_count /\ r.count = q.count
      /\ r.owner_nested = q.owner_nested /\ r.obj_type = q.obj_type
      /\ r.mutex_task = q.mutex_task /\ r.blk_obj = q.blk_obj /\ r.blk_state = q.blk_state
  BY <1>1 DEF Keeps, Fields
<1>4. Counts(q, a)
  BY <1>3 DEF Counts
<1>5. Ready(q) = Ready(r) /\ Waiting(q) = Waiting(r) /\ Sleeping(q) = Sleeping(r)
      /\ LiveIn(q) = LiveIn(r)
  BY <1>3 DEF Ready, Waiting, Sleeping, LiveIn
<1>6. r.sched_lock \in Nat /\ r.sched_lock = s.sched_lock /\ r.active = s.active
  BY DEF Kernel, Core, Queues, Typed, Calm
<1>7. Runs(q, p)
  <2>1. CASE r.sched_lock > 0
    BY <1>1, <1>3, <1>5, <1>6, <2>1 DEF Runs
  <2>2. CASE r.sched_lock = 0
    BY <1>1, <1>3, <1>5, <2>2 DEF Runs
  <2>3. QED
    BY <1>6, <2>1, <2>2
<1>8. /\ MachineType(p, w, h, a) /\ Wants(s, p, w, h) /\ Owned(s, w, h, a)
      /\ Kernel(s, None, None)
  BY DEF Machine
<1>9. Wants(q, p, w, h)
  <2> SUFFICES ASSUME NEW t \in AllTask PROVE Knows(q, p, w, h, t)
    BY DEF Wants
  <2>1. Knows(s, p, w, h, t) /\ w[t] \in Mutex \cup {None}
    BY <1>8 DEF Wants, MachineType
  <2>2. Forgets(h, h, r)
    BY ForgetsNothing
  <2>3. Knows(r, p, w, h, t)
    BY <2>1, <2>2, CalmKnows
  <2>4. QED
    BY <1>3, <1>5, <2>3 DEF Knows
<1>10. Owned(q, w, h, a)
  <2> SUFFICES ASSUME NEW m \in Mutex, m \in q.obj_type, NEW t \in LiveIn(q)
               PROVE  Has(q, w, h, a, t, m)
    BY DEF Owned
  <2>1. t \in AllTask /\ t \in LiveIn(s) /\ m \in s.obj_type
    BY <1>3, <1>5 DEF LiveIn, Calm
  <2>2. Has(s, w, h, a, t, m) /\ Knows(s, p, w, h, t)
    BY <1>8, <2>1 DEF Owned, Wants
  <2>3. t \in Waiting(s) => s.blk_obj[t] # None
    BY <1>8, WaitsForSomething
  <2>4. Has(r, w, h, a, t, m)
    BY <2>1, <2>2, <2>3, CalmHas
  <2>5. Granted(q, w, t, m) <=> Granted(r, w, t, m)
    BY <1>3 DEF Granted
  <2>6. QED
    BY <1>3, <2>4, <2>5 DEF Has
<1>11. Machine(q, p, w, h, a)
  BY <1>1, <1>4, <1>7, <1>8, <1>9, <1>10 DEF Machine
<1>12. QED
  BY <1>11 DEF q

LEMMA MildInterrupt ==
  ASSUME NEW s, NEW p, NEW w, NEW h, NEW a, Machine(s, p, w, h, a),
         NEW r, Kernel(r, None, None), Mild(r, s), r.obj_type = s.obj_type
  PROVE  Machine(core_sched(r), p, w, h, a)
<1>1. Calm(r, s) /\ Ready(s) \subseteq Ready(r)
  BY DEF Mild
<1>2. Counts(r, a)
  BY MildCounts DEF Machine
<1>3. s.sched_lock > 0 => s.active \in Ready(r)
  BY <1>1, LockedRuns
<1>4. QED
  BY <1>1, <1>2, <1>3, CalmInterrupt
-----------------------------------------------------------------------------
\* The tasks stay where they are; what a task knows changes only when it runs.
LEMMA SteadyMachine ==
  ASSUME NEW s, NEW p, NEW w, NEW h, NEW a, Machine(s, p, w, h, a),
         NEW r, Kernel(r, None, None), Counts(r, a),
         Keeps(r, s, {"owner_nested", "count", "mutex_task", "mutex_list", "sched_lock", "active"}),
         NEW p1, NEW w1, NEW h1, MachineType(p1, w1, h1, a), Runs(r, p1), Owned(r, w1, h1, a),
         \A t \in AllTask : /\ w1[t] = None \/ (p1[t] \in {"run", "sched"} => p[t] \in {"run", "sched"})
                            /\ w1[t] = w[t] \/ (w1[t] = None /\ t \notin Waiting(s)),
         \A t \in AllTask, m \in Mutex :
           h1[t][m] = h[t][m] \/ (w1[t] = None /\ t \in LiveIn(s) /\ m \in s.obj_type)
  PROVE  Machine(r, p1, w1, h1, a)
<1>1. r.task_state = s.task_state /\ r.blk_obj = s.blk_obj /\ r.obj_type = s.obj_type
  BY DEF Keeps, Fields
<1>2. Waiting(r) = Waiting(s) /\ Sleeping(r) = Sleeping(s) /\ LiveIn(r) = LiveIn(s)
  BY <1>1 DEF Waiting, Sleeping, LiveIn
<1>3. Wants(r, p1, w1, h1)
  <2> SUFFICES ASSUME NEW t \in AllTask PROVE Knows(r, p1, w1, h1, t)
    BY DEF Wants
  <2>1. Knows(s, p, w, h, t) /\ w1[t] \in Mutex \cup {None}
    BY DEF Machine, Wants, MachineType
  <2>2. /\ w1[t] = None \/ (p1[t] \in {"run", "sched"} => p[t] \in {"run", "sched"})
        /\ w1[t] = w[t] \/ (w1[t] = None /\ t \notin Waiting(s))
        /\ \A m \in Mutex : h1[t][m] = h[t][m]
                            \/ (w1[t] = None /\ t \in LiveIn(s) /\ m \in s.obj_type)
    OBVIOUS
  <2>3. p1[t] \in {"run", "sched"} => w1[t] = None \/ t \notin LiveIn(s)
    BY <2>1, <2>2 DEF Knows
  <2>4. /\ t \in Waiting(s) => w1[t] = IF s.blk_obj[t] \in Mutex THEN s.blk_obj[t] ELSE None
        /\ t \in Sleeping(s) => w1[t] = None
        /\ t \notin Waiting(s) /\ t \in LiveIn(s) => s.blk_obj[t] = None
    BY <2>1, <2>2 DEF Knows
  <2>5. w1[t] # None => h1[t][w1[t]] = 0
    BY <2>1, <2>2 DEF Knows
  <2>6. \A m \in Mutex : t \notin LiveIn(s) \/ m \notin s.obj_type => h1[t][m] = 0
    BY <2>1, <2>2 DEF Knows
  <2>7. QED
    BY <1>1, <1>2, <2>3, <2>4, <2>5, <2>6 DEF Knows
<1>4. QED
  BY <1>3 DEF Machine

LEMMA RunsKept ==
  ASSUME NEW s, NEW p, Runs(s, p),
         NEW r, Keeps(r, s, {"owner_nested", "count", "mutex_task", "mutex_list"})
  PROVE  Runs(r, p)
<1>1. /\ r.task_state = s.task_state /\ r.prio = s.prio /\ r.highest_pri = s.highest_pri
      /\ r.active = s.active /\ r.sched_lock = s.sched_lock
  BY DEF Keeps, Fields
<1>2. QED
  BY <1>1 DEF Runs, Ready

\* The running task waits for nothing.
LEMMA RunnerKnows ==
  ASSUME NEW s, NEW p, NEW w, NEW h, NEW a, Machine(s, p, w, h, a), p[s.active] = "run"
  PROVE  /\ s.active \in Ready(s) /\ s.active \in LiveIn(s) /\ s.active \in AllTask
         /\ s.active \notin Waiting(s) /\ w[s.active] = None
         /\ \A m \in Mutex : ~Granted(s, w, s.active, m)
<1>1. s.active \in AllTask /\ s.active \in Ready(s)
  BY LockedRuns
<1>2. s.active \in LiveIn(s) /\ s.active \notin Waiting(s)
  BY <1>1 DEF Ready, LiveIn, Waiting, Pended
<1>3. w[s.active] = None
  BY <1>1, <1>2 DEF Machine, Wants, Knows
<1>4. QED
  BY <1>1, <1>2, <1>3, CoreAssumption DEF Granted

LEMMA MachineFacts ==
  ASSUME NEW s, NEW p, NEW w, NEW h, NEW a, Machine(s, p, w, h, a)
  PROVE  /\ Kernel(s, None, None) /\ Counts(s, a) /\ Typed(s)
         /\ h \in [AllTask -> [Mutex -> Nat]] /\ s.owner_nested \in [Mutex -> Nat]
         /\ s.mutex_task \in [Mutex -> AllTask \cup {None}]
         /\ a.nest \in Nat /\ a.suspend \in Nat /\ ("mutex" \in a.calls => a.nest > 0)
<1>1. Kernel(s, None, None) /\ Counts(s, a) /\ MachineType(p, w, h, a)
  BY DEF Machine
<1>2. Typed(s)
  BY <1>1 DEF Kernel, Core, Queues
<1>3. s.owner_nested \in [Mutex -> Nat] /\ s.mutex_task \in [Mutex -> AllTask \cup {None}]
  BY <1>2 DEF Typed
<1>4. a \in Application /\ h \in [AllTask -> [Mutex -> Nat]]
  BY <1>1 DEF MachineType
<1>5. a.nest \in Nat /\ a.suspend \in Nat /\ ("mutex" \in a.calls => a.nest > 0)
  BY <1>4, KernelAssumption
<1>6. QED
  BY <1>1, <1>2, <1>3, <1>4, <1>5

LEMMA HasElsewhere ==
  ASSUME NEW s, NEW w, NEW h, NEW a, NEW t, NEW m, Has(s, w, h, a, t, m),
         NEW r, NEW h1, h1[t][m] = h[t][m],
         r.blk_obj[t] = s.blk_obj[t], r.blk_state[t] = s.blk_state[t],
         r.mutex_task[m] = s.mutex_task[m], r.owner_nested[m] = s.owner_nested[m]
  PROVE  Has(r, w, h1, a, t, m)
<1>1. Granted(r, w, t, m) <=> Granted(s, w, t, m)
  BY DEF Granted
<1>2. QED
  BY <1>1 DEF Has

\* Task t knows of n locks of m.
Relocks(h, t, m, n) == [h EXCEPT ![t][m] = n]

LEMMA Relocking ==
  ASSUME NEW h \in [AllTask -> [Mutex -> Nat]], NEW t \in AllTask, NEW m \in Mutex, NEW n \in Nat,
         NEW h1, h1 = Relocks(h, t, m, n)
  PROVE  /\ h1 \in [AllTask -> [Mutex -> Nat]] /\ h1[t][m] = n
         /\ \A u \in AllTask \ {t} : h1[u] = h[u]
         /\ \A x \in Mutex \ {m} : h1[t][x] = h[t][x]
BY DEF Relocks

\* The running task's call changes what it has of the mutex m, and returns.
LEMMA LockMachine ==
  ASSUME NEW s, NEW p, NEW w, NEW h, NEW a, Machine(s, p, w, h, a), p[s.active] = "run",
         NEW m \in Mutex, m \in s.obj_type,
         NEW r, Kernel(r, None, None), Counts(r, a),
         Keeps(r, s, {"owner_nested", "mutex_task", "mutex_list"}),
         \A x \in Mutex \ {m} : /\ r.mutex_task[x] = s.mutex_task[x]
                                /\ r.owner_nested[x] = s.owner_nested[x],
         NEW n \in Nat, NEW h1, h1 = Relocks(h, s.active, m, n),
         \A t \in LiveIn(s) : Has(r, w, h1, a, t, m)
  PROVE  Machine(r, p, w, h1, a)
<1>1. /\ MachineType(p, w, h, a) /\ Runs(s, p) /\ Owned(s, w, h, a)
      /\ h \in [AllTask -> [Mutex -> Nat]]
  BY DEF Machine, MachineType
<1>2. s.active \in LiveIn(s) /\ s.active \in AllTask /\ w[s.active] = None
  BY RunnerKnows
<1>3. /\ h1 \in [AllTask -> [Mutex -> Nat]]
      /\ \A u \in AllTask \ {s.active} : h1[u] = h[u]
      /\ \A x \in Mutex \ {m} : h1[s.active][x] = h[s.active][x]
  <2>1. h \in [AllTask -> [Mutex -> Nat]] /\ s.active \in AllTask
    BY <1>1, <1>2
  <2>2. QED
    BY <2>1, Relocking
<1>5. Keeps(r, s, {"owner_nested", "count", "mutex_task", "mutex_list"})
  BY DEF Keeps
<1>6. Runs(r, p)
  BY <1>1, <1>5, RunsKept
<1>7. /\ r.blk_obj = s.blk_obj /\ r.blk_state = s.blk_state /\ r.obj_type = s.obj_type
      /\ r.task_state = s.task_state
  BY DEF Keeps, Fields
<1>8. Owned(r, w, h1, a)
  <2> SUFFICES ASSUME NEW x \in Mutex, x \in r.obj_type, NEW t \in LiveIn(r)
               PROVE  Has(r, w, h1, a, t, x)
    BY DEF Owned
  <2>1. t \in LiveIn(s) /\ t \in AllTask /\ x \in s.obj_type
    BY <1>7 DEF LiveIn
  <2>2. CASE x # m
    <3>1. Has(s, w, h, a, t, x) /\ h1[t][x] = h[t][x]
      BY <1>1, <1>3, <2>1, <2>2 DEF Owned
    <3>2. QED
      BY <1>7, <2>2, <3>1, HasElsewhere
  <2>3. QED
    BY <2>1, <2>2
<1>9. MachineType(p, w, h1, a)
  BY <1>1, <1>3 DEF MachineType
<1>10. Keeps(r, s, {"owner_nested", "count", "mutex_task", "mutex_list", "sched_lock", "active"})
  BY DEF Keeps
<1>11. \A t \in AllTask, x \in Mutex :
         h1[t][x] = h[t][x] \/ (w[t] = None /\ t \in LiveIn(s) /\ x \in s.obj_type)
  BY <1>2, <1>3
<1>12. QED
  BY <1>6, <1>8, <1>9, <1>10, <1>11, SteadyMachine

\* What the running task has of the mutex m, and what the others have.
LEMMA RunnerHas ==
  ASSUME NEW s, NEW p, NEW w, NEW h, NEW a, Machine(s, p, w, h, a), p[s.active] = "run",
         NEW m \in Mutex, m \in s.obj_type
  PROVE  /\ h[s.active][m] \in Nat /\ s.owner_nested[m] \in Nat
         /\ IF s.mutex_task[m] = s.active
              THEN /\ h[s.active][m] <= s.owner_nested[m]
                   /\ OneLock(a) => h[s.active][m] = s.owner_nested[m]
              ELSE h[s.active][m] = 0
         /\ \A t \in LiveIn(s) : s.mutex_task[m] # t => h[t][m] = 0 /\ ~Granted(s, w, t, m)
<1>1. s.active \in LiveIn(s) /\ s.active \in AllTask /\ ~Granted(s, w, s.active, m)
  BY RunnerKnows
<1>2. /\ \A t \in LiveIn(s) : Has(s, w, h, a, t, m)
      /\ h \in [AllTask -> [Mutex -> Nat]] /\ s.owner_nested \in [Mutex -> Nat]
  BY DEF Machine, Owned, MachineType, Kernel, Core, Queues, Typed
<1>3. h[s.active][m] \in Nat /\ s.owner_nested[m] \in Nat
  BY <1>1, <1>2
<1>4. Has(s, w, h, a, s.active, m)
  BY <1>1, <1>2
<1>5. IF s.mutex_task[m] = s.active
        THEN /\ h[s.active][m] <= s.owner_nested[m]
             /\ OneLock(a) => h[s.active][m] = s.owner_nested[m]
        ELSE h[s.active][m] = 0
  BY <1>1, <1>3, <1>4 DEF Has
<1>6. ASSUME NEW t \in LiveIn(s), s.mutex_task[m] # t
      PROVE  h[t][m] = 0 /\ ~Granted(s, w, t, m)
  <2>1. Has(s, w, h, a, t, m) /\ h[t][m] \in Nat
    BY <1>2 DEF LiveIn
  <2>2. QED
    BY <1>6, <2>1 DEF Has
<1>7. QED
  BY <1>3, <1>5, <1>6
-----------------------------------------------------------------------------
\* krhino_mutex_lock on a mutex that the running task owns.
LEMMA LockedAgain ==
  ASSUME NEW s, NEW p, NEW w, NEW h, NEW a, Machine(s, p, w, h, a), p[s.active] = "run",
         NEW m \in Mutex, m \in s.obj_type, s.mutex_task[m] = s.active,
         s.owner_nested[m] < a.nest
  PROVE  Machine(Renested(s, m, s.owner_nested[m] + 1), p, w,
                 Relocks(h, s.active, m, h[s.active][m] + 1), a)
<1> DEFINE t  == s.active
           n  == s.owner_nested[m] + 1
           r  == Renested(s, m, n)
           h1 == Relocks(h, t, m, h[t][m] + 1)
<1>1. /\ h[t][m] \in Nat /\ s.owner_nested[m] \in Nat
      /\ h[t][m] <= s.owner_nested[m] /\ (OneLock(a) => h[t][m] = s.owner_nested[m])
      /\ \A u \in LiveIn(s) : s.mutex_task[m] # u => h[u][m] = 0 /\ ~Granted(s, w, u, m)
  BY RunnerHas
<1>2. /\ Kernel(s, None, None) /\ Counts(s, a) /\ a.nest \in Nat
      /\ h \in [AllTask -> [Mutex -> Nat]] /\ s.owner_nested \in [Mutex -> Nat]
  BY MachineFacts
<1>3. /\ Kernel(r, None, None) /\ Keeps(r, s, {"owner_nested"})
      /\ r.owner_nested = [s.owner_nested EXCEPT ![m] = n]
  <2>1. n \in Nat
    BY <1>1
  <2> HIDE DEF n
  <2>2. QED
    BY <1>2, <2>1, NestChanged
<1>4. t \in AllTask /\ ~Granted(s, w, t, m)
  BY RunnerKnows
<1>5. /\ h1 \in [AllTask -> [Mutex -> Nat]] /\ h1[t][m] = h[t][m] + 1
      /\ \A u \in AllTask \ {t} : h1[u] = h[u]
  BY <1>1, <1>2, <1>4, Relocking
<1>6. s.mutex_task[m] = t
  OBVIOUS
<1> HIDE DEF r, h1, t
<1>7. r.owner_nested[m] = n /\ \A x \in Mutex \ {m} : r.owner_nested[x] = s.owner_nested[x]
  BY <1>2, <1>3
<1>8. /\ r.mutex_task = s.mutex_task /\ r.suspend_count = s.suspend_count /\ r.count = s.count
      /\ r.task_state = s.task_state /\ r.obj_type = s.obj_type /\ r.blk_obj = s.blk_obj
      /\ r.blk_state = s.blk_state
  BY <1>3 DEF Keeps, Fields
<1>9. Counts(r, a)
  <2>1. n <= a.nest /\ n > 0
    BY <1>1, <1>2
  <2> HIDE DEF n
  <2>2. QED
    BY <1>2, <1>7, <1>8, <2>1 DEF Counts
<1>10. ASSUME NEW u \in LiveIn(s) PROVE Has(r, w, h1, a, u, m)
  <2>1. Granted(r, w, u, m) <=> Granted(s, w, u, m)
    BY <1>8 DEF Granted
  <2>2. u \in AllTask
    BY DEF LiveIn
  <2>3. CASE u = t
    BY <1>1, <1>4, <1>5, <1>6, <1>7, <1>8, <2>1, <2>3 DEF Has
  <2>4. CASE u # t
    <3>1. h1[u] = h[u] /\ h[u][m] = 0 /\ ~Granted(s, w, u, m)
      BY <1>1, <1>5, <1>6, <2>2, <2>4
    <3>2. QED
      BY <1>6, <1>8, <2>1, <2>4, <3>1 DEF Has
  <2>5. QED
    BY <2>3, <2>4
<1>11. Keeps(r, s, {"owner_nested", "mutex_task", "mutex_list"})
  BY <1>3 DEF Keeps
<1>12. Machine(r, p, w, h1, a)
  <2> DEFINE c == h[t][m] + 1
  <2>1. c \in Nat /\ h1 = Relocks(h, s.active, m, c)
    BY <1>1 DEF h1, t
  <2> HIDE DEF c
  <2>2. QED
    BY <1>3, <1>7, <1>8, <1>9, <1>10, <1>11, <2>1, LockMachine
<1>13. QED
  BY <1>12 DEF r, h1, t

\* krhino_mutex_lock on a free mutex.
LEMMA LockedFree ==
  ASSUME NEW s, NEW p, NEW w, NEW h, NEW a, Machine(s, p, w, h, a), p[s.active] = "run",
         NEW m \in Mutex, m \in s.obj_type, s.mutex_task[m] = None, s.active # Idle, a.nest > 0
  PROVE  Machine(Taken(s, s.active, m), p, w,
                 Relocks(h, s.active, m, h[s.active][m] + 1), a)
<1> DEFINE t  == s.active
           r  == Taken(s, t, m)
           h1 == Relocks(h, t, m, h[t][m] + 1)
<1>1. t \in AllTask /\ t \in LiveIn(s) /\ ~Granted(s, w, t, m) /\ t # None
  BY RunnerKnows, CoreAssumption DEF AllTask
<1>2. /\ h[t][m] = 0
      /\ \A u \in LiveIn(s) : u # None => h[u][m] = 0 /\ ~Granted(s, w, u, m)
  BY <1>1, RunnerHas
<1>3. /\ Kernel(s, None, None) /\ Counts(s, a) /\ a.nest \in Nat
      /\ h \in [AllTask -> [Mutex -> Nat]] /\ s.owner_nested \in [Mutex -> Nat]
      /\ s.mutex_task \in [Mutex -> AllTask \cup {None}]
  BY MachineFacts
<1>4. /\ Kernel(r, None, None) /\ Keeps(r, s, {"mutex_task", "owner_nested", "mutex_list"})
      /\ r.mutex_task = [s.mutex_task EXCEPT ![m] = t]
      /\ r.owner_nested = [s.owner_nested EXCEPT ![m] = 1]
  BY <1>1, <1>3, MutexTaken
<1>5. /\ h1 \in [AllTask -> [Mutex -> Nat]] /\ h1[t][m] = h[t][m] + 1
      /\ \A u \in AllTask \ {t} : h1[u] = h[u]
  BY <1>1, <1>2, <1>3, Relocking
<1> HIDE DEF r, h1, t
<1>6. r.owner_nested[m] = 1 /\ \A x \in Mutex \ {m} : r.owner_nested[x] = s.owner_nested[x]
  BY <1>3, <1>4
<1>7. r.mutex_task[m] = t /\ \A x \in Mutex \ {m} : r.mutex_task[x] = s.mutex_task[x]
  BY <1>3, <1>4
<1>8. /\ r.suspend_count = s.suspend_count /\ r.count = s.count
      /\ r.task_state = s.task_state /\ r.obj_type = s.obj_type /\ r.blk_obj = s.blk_obj
      /\ r.blk_state = s.blk_state
  BY <1>4 DEF Keeps, Fields
<1>9. Counts(r, a)
  BY <1>3, <1>6, <1>7, <1>8 DEF Counts
<1>10. ASSUME NEW u \in LiveIn(s) PROVE Has(r, w, h1, a, u, m)
  <2>1. Granted(r, w, u, m) <=> Granted(s, w, u, m)
    BY <1>8 DEF Granted
  <2>2. u \in AllTask /\ u # None
    BY CoreAssumption DEF LiveIn, AllTask
  <2>3. CASE u = t
    BY <1>1, <1>2, <1>5, <1>6, <1>7, <2>1, <2>3 DEF Has
  <2>4. CASE u # t
    <3>1. h1[u] = h[u] /\ h[u][m] = 0 /\ ~Granted(s, w, u, m)
      BY <1>2, <1>5, <2>2, <2>4
    <3>2. QED
      BY <1>7, <2>1, <2>4, <3>1 DEF Has
  <2>5. QED
    BY <2>3, <2>4
<1>11. Machine(r, p, w, h1, a)
  <2> DEFINE c == h[t][m] + 1
  <2>1. c \in Nat /\ h1 = Relocks(h, s.active, m, c)
    BY <1>2 DEF h1, t
  <2>2. Keeps(r, s, {"owner_nested", "mutex_task", "mutex_list"})
    BY <1>4 DEF Keeps
  <2> HIDE DEF c
  <2>3. QED
    BY <1>4, <1>6, <1>7, <1>9, <1>10, <2>1, <2>2, LockMachine
<1>12. QED
  BY <1>11 DEF r, h1, t

\* What an unlock leaves of n locks.
OneLess(n) == IF n = 0 THEN 0 ELSE n - 1

\* krhino_mutex_unlock of a mutex that stays the running task's.
LEMMA UnlockedNested ==
  ASSUME NEW s, NEW p, NEW w, NEW h, NEW a, Machine(s, p, w, h, a), p[s.active] = "run",
         NEW m \in Mutex, m \in s.obj_type, s.mutex_task[m] = s.active,
         s.owner_nested[m] - 1 > 0
  PROVE  Machine(Renested(s, m, s.owner_nested[m] - 1), p, w,
                 Relocks(h, s.active, m, OneLess(h[s.active][m])), a)
<1> DEFINE t  == s.active
           n  == s.owner_nested[m] - 1
           c  == OneLess(h[t][m])
           r  == Renested(s, m, n)
           h1 == Relocks(h, t, m, c)
<1>1. /\ h[t][m] \in Nat /\ s.owner_nested[m] \in Nat
      /\ h[t][m] <= s.owner_nested[m] /\ (OneLock(a) => h[t][m] = s.owner_nested[m])
      /\ \A u \in LiveIn(s) : s.mutex_task[m] # u => h[u][m] = 0 /\ ~Granted(s, w, u, m)
  BY RunnerHas
<1>2. /\ Kernel(s, None, None) /\ Counts(s, a) /\ a.nest \in Nat
      /\ h \in [AllTask -> [Mutex -> Nat]] /\ s.owner_nested \in [Mutex -> Nat]
  BY MachineFacts
<1>3. /\ n \in Nat /\ n > 0 /\ n < s.owner_nested[m]
      /\ c \in Nat /\ c <= n /\ (OneLock(a) => c = n)
  BY <1>1 DEF OneLess
<1> HIDE DEF n, c
<1>4. /\ Kernel(r, None, None) /\ Keeps(r, s, {"owner_nested"})
      /\ r.owner_nested = [s.owner_nested EXCEPT ![m] = n]
  BY <1>2, <1>3, NestChanged
<1>5. t \in AllTask /\ ~Granted(s, w, t, m)
  BY RunnerKnows
<1>6. /\ h1 \in [AllTask -> [Mutex -> Nat]] /\ h1[t][m] = c
      /\ \A u \in AllTask \ {t} : h1[u] = h[u]
  BY <1>2, <1>3, <1>5, Relocking
<1>7. s.mutex_task[m] = t /\ h1 = Relocks(h, s.active, m, c)
  OBVIOUS
<1> HIDE DEF r, h1, t
<1>8. r.owner_nested[m] = n /\ \A x \in Mutex \ {m} : r.owner_nested[x] = s.owner_nested[x]
  BY <1>2, <1>4
<1>9. /\ r.mutex_task = s.mutex_task /\ r.suspend_count = s.suspend_count /\ r.count = s.count
      /\ r.task_state = s.task_state /\ r.obj_type = s.obj_type /\ r.blk_obj = s.blk_obj
      /\ r.blk_state = s.blk_state
  BY <1>4 DEF Keeps, Fields
<1>10. Counts(r, a)
  <2>1. n <= a.nest
    BY <1>1, <1>2, <1>3 DEF Counts
  <2>2. QED
    BY <1>2, <1>3, <1>8, <1>9, <2>1 DEF Counts
<1>11. ASSUME NEW u \in LiveIn(s) PROVE Has(r, w, h1, a, u, m)
  <2>1. Granted(r, w, u, m) <=> Granted(s, w, u, m)
    BY <1>9 DEF Granted
  <2>2. u \in AllTask
    BY DEF LiveIn
  <2>3. CASE u = t
    BY <1>3, <1>5, <1>6, <1>7, <1>8, <1>9, <2>1, <2>3 DEF Has
  <2>4. CASE u # t
    <3>1. h1[u] = h[u] /\ h[u][m] = 0 /\ ~Granted(s, w, u, m)
      BY <1>1, <1>6, <1>7, <2>2, <2>4
    <3>2. QED
      BY <1>7, <1>9, <2>1, <2>4, <3>1 DEF Has
  <2>5. QED
    BY <2>3, <2>4
<1>12. Keeps(r, s, {"owner_nested", "mutex_task", "mutex_list"})
  BY <1>4 DEF Keeps
<1>13. Machine(r, p, w, h1, a)
  BY <1>3, <1>4, <1>7, <1>8, <1>9, <1>10, <1>11, <1>12, LockMachine
<1>14. QED
  BY <1>13 DEF r, h1, t, n, c
-----------------------------------------------------------------------------
\* krhino_mutex_unlock of the last lock: the mutex m is given up ...
GivenUp(s, t, m) == HandOver(mutex_release(Renested(s, m, 0), t, m), m)

UnlockFields == HandOverFields \cup {"prio", "owner_nested"}

\* ... and is free, or goes to the first waiter, with the nesting count n.
UnlocksFree(r, s, m, n) ==
  /\ Kernel(r, None, None) /\ Keeps(r, s, {"mutex_task", "mutex_list", "owner_nested"})
  /\ r.owner_nested = [s.owner_nested EXCEPT ![m] = n]
  /\ r.mutex_task = [s.mutex_task EXCEPT ![m] = None]

UnlocksTo(r, s, t, m, n) ==
  /\ Kernel(r, None, None) /\ Keeps(r, s, UnlockFields)
  /\ r.owner_nested = [s.owner_nested EXCEPT ![m] = n]
  /\ Hands(r, s, t, {m})

LEMMA LastUnlocked ==
  ASSUME NEW s, Kernel(s, None, None), NEW t \in Ready(s), t # Idle, NEW m \in Mutex,
         m \in s.obj_type, s.mutex_task[m] = t, NEW n \in Nat,
         NEW r, r = Renested(GivenUp(s, t, m), m, n)
  PROVE  IF s.blk_list[m] = <<>> THEN UnlocksFree(r, s, m, n) ELSE UnlocksTo(r, s, t, m, n)
<1> DEFINE s1 == Renested(s, m, 0)
           s2 == mutex_release(s1, t, m)
           q  == HandOver(s2, m)
<1>1. /\ Kernel(s1, None, None) /\ Keeps(s1, s, {"owner_nested"})
      /\ s1.owner_nested = [s.owner_nested EXCEPT ![m] = 0]
  BY NestChanged
<1> HIDE DEF s1
<1>2. /\ s1.task_state = s.task_state /\ s1.obj_type = s.obj_type /\ s1.blk_list = s.blk_list
      /\ s1.mutex_task = s.mutex_task /\ s1.prio = s.prio /\ s1.blk_obj = s.blk_obj
      /\ s1.blk_state = s.blk_state
  BY <1>1 DEF Keeps, Fields
<1>3. t \in Ready(s1)
  BY <1>2 DEF Ready
<1>4. /\ Releases(s2, s1, t, m) /\ Kernel(q, None, None) /\ s2.blk_list = s1.blk_list
      /\ IF s1.blk_list[m] = <<>>
           THEN /\ Keeps(q, s1, {"mutex_task", "mutex_list"})
                /\ q.mutex_task = [s1.mutex_task EXCEPT ![m] = None]
           ELSE Passed(q, s2, m, Head(s1.blk_list[m]))
  BY <1>1, <1>2, <1>3, Unlocked
<1>5. r = Renested(q, m, n)
  BY DEF GivenUp, q, s2, s1
<1> HIDE DEF q, s2
<1>6. /\ Kernel(r, None, None) /\ Keeps(r, q, {"owner_nested"})
      /\ r.owner_nested = [q.owner_nested EXCEPT ![m] = n]
  BY <1>4, <1>5, NestChanged
<1>7. Keeps(s2, s1, {"prio", "ready", "highest_pri", "mutex_list"})
  BY <1>4 DEF Releases
<1>8. CASE s.blk_list[m] = <<>>
  <2>1. /\ Keeps(q, s1, {"mutex_task", "mutex_list"})
        /\ q.mutex_task = [s.mutex_task EXCEPT ![m] = None]
    BY <1>2, <1>4, <1>8
  <2>2. Keeps(r, s, {"mutex_task", "mutex_list", "owner_nested"})
    BY <1>1, <1>6, <2>1 DEF Keeps, Fields
  <2>3. r.mutex_task = q.mutex_task
    BY <1>6 DEF Keeps, Fields
  <2>4. q.owner_nested = s1.owner_nested
    BY <2>1 DEF Keeps, Fields
  <2>5. s1.owner_nested = [s.owner_nested EXCEPT ![m] = 0] /\ s.owner_nested \in [Mutex -> Nat]
    BY <1>1 DEF Kernel, Core, Queues, Typed
  <2>6. r.owner_nested = [s.owner_nested EXCEPT ![m] = n]
    BY <1>6, <2>4, <2>5
  <2>7. QED
    BY <1>6, <1>8, <2>1, <2>2, <2>3, <2>6 DEF UnlocksFree
<1>9. CASE s.blk_list[m] # <<>>
  <2> DEFINE u == Head(s.blk_list[m])
  <2>1. Passed(q, s2, m, u)
    BY <1>2, <1>4, <1>9
  <2>2. /\ u \in Waiting(s) /\ u \in AllTask /\ s.blk_obj[u] = m
        /\ \A v \in Waiting(s) : s.blk_obj[v] = m => s.prio[u] <= s.prio[v]
    BY <1>9, FirstWaiter DEF Kernel, Object
  <2> HIDE DEF u
  <2>3. /\ Keeps(q, s2, HandOverFields)
        /\ Moves(q, s2, u, IF s2.task_state[u] = "PEND" THEN "RDY" ELSE "SUSPENDED")
        /\ q.blk_state = [s2.blk_state EXCEPT ![u] = "FINISH"]
        /\ q.blk_obj = [s2.blk_obj EXCEPT ![u] = None]
        /\ q.mutex_task = [s2.mutex_task EXCEPT ![m] = u]
    BY <2>1 DEF Passed, HandOverFields
  <2>4. Keeps(r, s, UnlockFields)
    BY <1>1, <1>6, <1>7, <2>3 DEF Keeps, Fields, UnlockFields, HandOverFields
  <2>5. /\ r.task_state = q.task_state /\ r.blk_obj = q.blk_obj /\ r.blk_state = q.blk_state
        /\ r.mutex_task = q.mutex_task
    BY <1>6 DEF Keeps, Fields
  <2>6. /\ s2.task_state = s.task_state /\ s2.blk_obj = s.blk_obj /\ s2.blk_state = s.blk_state
        /\ s2.mutex_task = s.mutex_task /\ s2.owner_nested = s1.owner_nested
    BY <1>2, <1>7 DEF Keeps, Fields
  <2>7. q.owner_nested = s2.owner_nested
    BY <2>3 DEF Keeps, Fields, HandOverFields
  <2>8. s1.owner_nested = [s.owner_nested EXCEPT ![m] = 0] /\ s.owner_nested \in [Mutex -> Nat]
    BY <1>1 DEF Kernel, Core, Queues, Typed
  <2>9. r.owner_nested = [s.owner_nested EXCEPT ![m] = n]
    BY <1>6, <2>6, <2>7, <2>8
  <2>10. /\ s.blk_obj \in [AllTask -> Object \cup {None}]
         /\ s.blk_state \in [AllTask -> {"FINISH", "TIMEOUT", "DEL"}]
         /\ s.mutex_task \in [Mutex -> AllTask \cup {None}]
    BY DEF Kernel, Core, Queues, Typed
  <2>11. /\ r.blk_obj[u] = None /\ r.blk_state[u] = "FINISH" /\ r.mutex_task[m] = u
         /\ \A v \in AllTask \ {u} : r.blk_obj[v] = s.blk_obj[v] /\ r.blk_state[v] = s.blk_state[v]
         /\ \A x \in Mutex \ {m} : r.mutex_task[x] = s.mutex_task[x]
    BY <2>2, <2>3, <2>5, <2>6, <2>10
  <2>12. /\ r.task_state[u] = IF s.task_state[u] = "PEND" THEN "RDY" ELSE "SUSPENDED"
         /\ \A v \in AllTask \ {u} : r.task_state[v] = s.task_state[v]
    BY <2>3, <2>5, <2>6 DEF Moves
  <2>13. Takes(r, s, u, m)
    BY <2>2, <2>11, <2>12 DEF Takes
  <2>14. \A v \in AllTask \ {u} : SameTask(r, s, v)
    BY <2>11, <2>12 DEF SameTask
  <2>15. t # u /\ t \in AllTask
    BY <2>2 DEF Ready, Waiting, Pended
  <2>16. Hands(r, s, t, {m})
    BY <2>11, <2>13, <2>14, <2>15 DEF Hands
  <2>17. QED
    BY <1>6, <1>9, <2>4, <2>9, <2>16 DEF UnlocksTo
<1>10. QED
  BY <1>8, <1>9

\* Task x has given away its mutexes M, as q says, and goes on or is deleted.
HandedOn(r, p1, h1, s, p, w, h, a, q, x, M) ==
  /\ x \in LiveIn(s) /\ M \subseteq Mutex /\ Hands(q, s, x, M)
  /\ r.obj_type = s.obj_type /\ r.mutex_task = q.mutex_task
  /\ r.blk_obj = q.blk_obj /\ r.blk_state = q.blk_state
  /\ \A t \in AllTask \ {x} : r.task_state[t] = q.task_state[t] /\ h1[t] = h[t]
  /\ r.task_state[x] = "DELETED" \/ (r.task_state[x] = s.task_state[x] /\ w[x] = None)
  /\ \A m \in Mutex \ M : r.owner_nested[m] = s.owner_nested[m]
  /\ \A m \in M : r.owner_nested[m] >= 1 /\ (OneLock(a) => r.owner_nested[m] = 1)
  /\ h1 \in [AllTask -> [Mutex -> Nat]]
  /\ \A m \in Mutex : h1[x][m] = IF m \in M \/ r.task_state[x] = "DELETED" THEN 0 ELSE h[x][m]
  /\ \A t \in AllTask : p1[t] \in {"run", "sched"} =>
       p[t] \in {"run", "sched"} \/ r.task_state[t] = "DELETED"

LEMMA HandsMachine ==
  ASSUME NEW s, NEW p, NEW w, NEW h, NEW a, Machine(s, p, w, h, a),
         NEW r, NEW p1, NEW h1, NEW q, NEW x, NEW M, HandedOn(r, p1, h1, s, p, w, h, a, q, x, M)
  PROVE  Wants(r, p1, w, h1) /\ Owned(r, w, h1, a)
<1>0. /\ x \in LiveIn(s) /\ M \subseteq Mutex /\ Hands(q, s, x, M)
      /\ r.obj_type = s.obj_type /\ r.mutex_task = q.mutex_task
      /\ r.blk_obj = q.blk_obj /\ r.blk_state = q.blk_state
      /\ \A t \in AllTask \ {x} : r.task_state[t] = q.task_state[t] /\ h1[t] = h[t]
      /\ r.task_state[x] = "DELETED" \/ (r.task_state[x] = s.task_state[x] /\ w[x] = None)
      /\ \A m \in Mutex \ M : r.owner_nested[m] = s.owner_nested[m]
      /\ \A m \in M : r.owner_nested[m] >= 1 /\ (OneLock(a) => r.owner_nested[m] = 1)
      /\ h1 \in [AllTask -> [Mutex -> Nat]]
      /\ \A m \in Mutex : h1[x][m] = IF m \in M \/ r.task_state[x] = "DELETED" THEN 0 ELSE h[x][m]
      /\ \A t \in AllTask : p1[t] \in {"run", "sched"} =>
           p[t] \in {"run", "sched"} \/ r.task_state[t] = "DELETED"
  BY DEF HandedOn
<1>1. /\ Wants(s, p, w, h) /\ Owned(s, w, h, a) /\ MachineType(p, w, h, a)
      /\ Kernel(s, None, None)
  BY DEF Machine
<1>2. /\ \A t \in AllTask : w[t] \in Mutex \cup {None} /\ Knows(s, p, w, h, t)
      /\ x \in AllTask
  BY <1>0, <1>1 DEF MachineType, Wants, LiveIn
<1>3. /\ \A m \in Mutex \ M : q.mutex_task[m] = s.mutex_task[m]
      /\ \A m \in M : /\ m \in s.obj_type /\ s.mutex_task[m] = x
                      /\ q.mutex_task[m] = None \/ Takes(q, s, q.mutex_task[m], m)
      /\ \A t \in AllTask : SameTask(q, s, t) \/ \E m \in M : Takes(q, s, t, m)
      /\ SameTask(q, s, x)
  BY <1>0 DEF Hands
<1>4. ASSUME NEW t \in AllTask \ {x}, NEW n \in M, Takes(q, s, t, n)
      PROVE  /\ t \in Waiting(s) /\ s.blk_obj[t] = n /\ w[t] = n /\ n # None /\ h[t][n] = 0
             /\ t \notin Waiting(r) /\ t \notin Sleeping(r) /\ t \in LiveIn(r)
             /\ t \in LiveIn(s) /\ r.blk_obj[t] = None /\ r.blk_state[t] = "FINISH"
             /\ Granted(r, w, t, n) /\ r.mutex_task[n] = t
  <2>1. /\ t \in Waiting(s) /\ s.blk_obj[t] = n /\ q.mutex_task[n] = t
        /\ q.task_state[t] \in {"RDY", "SUSPENDED"}
        /\ q.blk_obj[t] = None /\ q.blk_state[t] = "FINISH"
    BY <1>0, <1>4 DEF Takes
  <2>2. n \in Mutex /\ n # None
    BY <1>0, CoreAssumption
  <2>3. w[t] = n
    BY <1>0, <1>2, <2>1, <2>2 DEF Knows
  <2>4. h[t][n] = 0
    BY <1>0, <1>2, <2>2, <2>3 DEF Knows
  <2>5. r.task_state[t] \in {"RDY", "SUSPENDED"}
    BY <1>0, <2>1
  <2>6. t \notin Waiting(r) /\ t \notin Sleeping(r) /\ t \in LiveIn(r) /\ t \in LiveIn(s)
    BY <1>0, <2>1, <2>5 DEF Waiting, Sleeping, LiveIn, Pended
  <2>7. QED
    BY <1>0, <2>1, <2>2, <2>3, <2>4, <2>6 DEF Granted
<1>5. ASSUME NEW t \in AllTask \ {x}, SameTask(q, s, t)
      PROVE  /\ r.task_state[t] = s.task_state[t] /\ r.blk_obj[t] = s.blk_obj[t]
             /\ r.blk_state[t] = s.blk_state[t]
             /\ t \in Waiting(r) <=> t \in Waiting(s)
             /\ t \in Sleeping(r) <=> t \in Sleeping(s)
             /\ t \in LiveIn(r) <=> t \in LiveIn(s)
  BY <1>0, <1>5 DEF SameTask, Waiting, Sleeping, LiveIn
<1>6. Wants(r, p1, w, h1)
  <2> SUFFICES ASSUME NEW t \in AllTask PROVE Knows(r, p1, w, h1, t)
    BY <1>0 DEF Wants
  <2>1. p1[t] \in {"run", "sched"} => p[t] \in {"run", "sched"} \/ t \notin LiveIn(r)
    BY <1>0 DEF LiveIn
  <2>2. CASE t = x
    <3>1. r.blk_obj[x] = s.blk_obj[x]
      BY <1>0, <1>3 DEF SameTask
    <3>2. \A m \in Mutex : h1[x][m] \in {0, h[x][m]}
      BY <1>0
    <3>3. CASE r.task_state[x] = "DELETED"
      <4>1. x \notin LiveIn(r) /\ x \notin Waiting(r) /\ x \notin Sleeping(r)
        BY <1>0, <3>3 DEF LiveIn, Waiting, Sleeping, Pended
      <4>2. \A m \in Mutex : h1[x][m] = 0
        BY <1>0, <3>3
      <4>3. QED
        BY <1>0, <1>2, <2>2, <4>1, <4>2 DEF Knows
    <3>4. CASE r.task_state[x] = s.task_state[x] /\ w[x] = None
      <4>1. /\ x \in Waiting(r) <=> x \in Waiting(s)
            /\ x \in LiveIn(r) <=> x \in LiveIn(s)
        BY <1>0, <3>4 DEF LiveIn, Waiting
      <4>2. Knows(s, p, w, h, x)
        BY <1>0, <1>2
      <4>3. \A m \in Mutex : x \notin LiveIn(r) \/ m \notin r.obj_type => h1[x][m] = 0
        BY <1>0, <3>2, <4>1, <4>2 DEF Knows
      <4>4. QED
        BY <1>0, <2>2, <3>1, <3>4, <4>1, <4>2, <4>3 DEF Knows
    <3>5. QED
      BY <1>0, <3>3, <3>4
  <2>3. CASE t # x
    <3>1. Knows(s, p, w, h, t) /\ h1[t] = h[t] /\ w[t] \in Mutex \cup {None}
      BY <1>0, <1>2, <2>3
    <3>2. CASE SameTask(q, s, t)
      BY <1>0, <1>5, <2>1, <2>3, <3>1, <3>2 DEF Knows
    <3>3. CASE \E m \in M : Takes(q, s, t, m)
      <4>1. PICK n \in M : Takes(q, s, t, n)
        BY <1>0, <3>3
      <4>2. /\ w[t] = n /\ h[t][n] = 0 /\ t \notin Waiting(r) /\ t \notin Sleeping(r)
            /\ t \in LiveIn(r) /\ t \in LiveIn(s) /\ r.blk_obj[t] = None
        BY <1>0, <1>4, <2>3, <4>1
      <4>3. QED
        BY <1>0, <2>1, <3>1, <4>2 DEF Knows
    <3>4. QED
      BY <1>0, <1>3, <3>2, <3>3
  <2>4. QED
    BY <1>0, <2>2, <2>3
<1>7. Owned(r, w, h1, a)
  <2> SUFFICES ASSUME NEW m \in Mutex, m \in r.obj_type, NEW t \in LiveIn(r)
               PROVE  Has(r, w, h1, a, t, m)
    BY <1>0 DEF Owned
  <2>1. t \in AllTask /\ m \in s.obj_type /\ m # None /\ t # None
    BY <1>0, CoreAssumption DEF LiveIn, AllTask
  <2>2. CASE t = x
    <3>1. r.task_state[x] = s.task_state[x] /\ w[x] = None /\ r.task_state[x] # "DELETED"
      BY <1>0, <2>2 DEF LiveIn
    <3>2. ~Granted(r, w, x, m) /\ ~Granted(s, w, x, m)
      BY <1>0, <2>1, <3>1 DEF Granted
    <3>3. Has(s, w, h, a, x, m)
      BY <1>0, <1>1, <2>1 DEF Owned
    <3>4. CASE m \in M
      <4>1. r.mutex_task[m] # x
        <5>1. Takes(q, s, x, m) => FALSE
          BY <1>0, <1>3, <3>1, CoreAssumption DEF Takes, SameTask, Waiting, Pended
        <5>2. QED
          BY <1>0, <1>3, <2>1, <2>2, <3>4, <5>1
      <4>2. h1[x][m] = 0
        BY <1>0, <3>4
      <4>3. QED
        BY <1>0, <2>2, <3>2, <4>1, <4>2 DEF Has
    <3>5. CASE m \notin M
      <4>1. /\ r.mutex_task[m] = s.mutex_task[m] /\ r.owner_nested[m] = s.owner_nested[m]
            /\ h1[x][m] = h[x][m]
        BY <1>0, <1>3, <3>1, <3>5
      <4>2. QED
        BY <1>0, <2>2, <3>2, <3>3, <4>1 DEF Has
    <3>6. QED
      BY <1>0, <3>4, <3>5
  <2>3. CASE t # x
    <3>1. h1[t] = h[t] /\ t \in AllTask \ {x}
      BY <1>0, <2>1, <2>3
    <3>2. CASE SameTask(q, s, t)
      <4>1. Granted(r, w, t, m) <=> Granted(s, w, t, m)
        BY <1>0, <1>5, <3>1, <3>2 DEF Granted
      <4>2. Has(s, w, h, a, t, m) /\ h[t][m] \in Nat
        BY <1>0, <1>1, <1>5, <2>1, <3>1, <3>2 DEF Owned, MachineType
      <4>3. CASE m \in M
        <5>1. s.mutex_task[m] # t
          BY <1>0, <1>3, <2>3, <4>3
        <5>2. h[t][m] = 0 /\ ~Granted(s, w, t, m)
          BY <1>0, <4>2, <5>1 DEF Has
        <5>3. r.mutex_task[m] # t
          <6>1. Takes(q, s, t, m) => FALSE
            BY <1>0, <3>2, <1>1, WaitsForSomething DEF Takes, SameTask
          <6>2. QED
            BY <1>0, <1>3, <2>1, <4>3, <6>1
        <5>4. QED
          BY <1>0, <3>1, <4>1, <5>2, <5>3 DEF Has
      <4>4. CASE m \notin M
        <5>1. r.mutex_task[m] = s.mutex_task[m] /\ r.owner_nested[m] = s.owner_nested[m]
          BY <1>0, <1>3, <4>4
        <5>2. QED
          BY <1>0, <3>1, <4>1, <4>2, <5>1 DEF Has
      <4>5. QED
        BY <1>0, <4>3, <4>4
    <3>3. CASE \E n \in M : Takes(q, s, t, n)
      <4>1. PICK n \in M : Takes(q, s, t, n)
        BY <1>0, <3>3
      <4>2. /\ w[t] = n /\ h[t][n] = 0 /\ t \in LiveIn(s) /\ Granted(r, w, t, n)
            /\ r.mutex_task[n] = t /\ t \in Waiting(s) /\ s.blk_obj[t] = n
        BY <1>0, <1>4, <3>1, <4>1
      <4>3. CASE m = n
        <5>1. r.owner_nested[n] >= 1 /\ (OneLock(a) => r.owner_nested[n] = 1)
          BY <1>0, <2>1, <4>2
        <5>2. QED
          BY <1>0, <3>1, <4>2, <4>3, <5>1 DEF Has
      <4>4. CASE m # n
        <5>1. ~Granted(r, w, t, m) /\ ~Granted(s, w, t, m)
          BY <1>0, <4>2, <4>4 DEF Granted
        <5>2. Has(s, w, h, a, t, m) /\ h[t][m] \in Nat
          BY <1>0, <1>1, <2>1, <4>2 DEF Owned, MachineType
        <5>3. CASE m \in M
          <6>1. s.mutex_task[m] # t
            BY <1>0, <1>3, <2>3, <5>3
          <6>2. h[t][m] = 0
            BY <1>0, <5>1, <5>2, <6>1 DEF Has
          <6>3. r.mutex_task[m] # t
            <7>1. Takes(q, s, t, m) => FALSE
              BY <1>0, <4>2, <4>4 DEF Takes
            <7>2. QED
              BY <1>0, <1>3, <2>1, <5>3, <7>1
          <6>4. QED
            BY <1>0, <3>1, <5>1, <6>2, <6>3 DEF Has
        <5>4. CASE m \notin M
          <6>1. r.mutex_task[m] = s.mutex_task[m] /\ r.owner_nested[m] = s.owner_nested[m]
            BY <1>0, <1>3, <5>4
          <6>2. QED
            BY <1>0, <3>1, <5>1, <5>2, <6>1 DEF Has
        <5>5. QED
          BY <1>0, <5>3, <5>4
      <4>5. QED
        BY <1>0, <4>3, <4>4
    <3>4. QED
      BY <1>0, <1>3, <2>1, <3>2, <3>3
  <2>4. QED
    BY <1>0, <2>2, <2>3
<1>8. QED
  BY <1>0, <1>6, <1>7
-----------------------------------------------------------------------------
LEMMA HandsCounts ==
  ASSUME NEW s, NEW a, Counts(s, a), NEW x, NEW M, NEW q, Hands(q, s, x, M),
         NEW r, \A t \in AllTask : r.task_state[t] \in {q.task_state[t], "DELETED"},
         r.suspend_count = s.suspend_count, r.count = s.count, r.obj_type = s.obj_type,
         \A m \in Mutex : r.owner_nested[m] <= a.nest,
         \A m \in Mutex \cap s.obj_type : r.mutex_task[m] # None => r.owner_nested[m] > 0
  PROVE  Counts(r, a)
<1>1. ASSUME NEW t \in AllTask, r.task_state[t] \in Suspended PROVE s.task_state[t] \in Suspended
  <2>1. r.task_state[t] = q.task_state[t]
    BY <1>1 DEF Suspended
  <2>2. CASE SameTask(q, s, t)
    BY <1>1, <2>1, <2>2 DEF SameTask
  <2>3. CASE \E m \in M : Takes(q, s, t, m)
    BY <1>1, <2>1, <2>3 DEF Takes, Waiting, Pended, Suspended
  <2>4. QED
    BY <2>2, <2>3 DEF Hands
<1>2. QED
  BY <1>1 DEF Counts

\* krhino_mutex_unlock of the last lock of a mutex that nobody waits for.
LEMMA UnlockedFree ==
  ASSUME NEW s, NEW p, NEW w, NEW h, NEW a, Machine(s, p, w, h, a), p[s.active] = "run",
         s.active # Idle, NEW m \in Mutex, m \in s.obj_type, s.mutex_task[m] = s.active,
         s.owner_nested[m] = 1, s.blk_list[m] = <<>>
  PROVE  Machine(Renested(GivenUp(s, s.active, m), m, 0), p, w,
                 Relocks(h, s.active, m, OneLess(h[s.active][m])), a)
<1> DEFINE t  == s.active
           c  == OneLess(h[t][m])
           r  == Renested(GivenUp(s, t, m), m, 0)
           h1 == Relocks(h, t, m, c)
<1>1. /\ h[t][m] \in Nat /\ h[t][m] <= s.owner_nested[m]
      /\ \A u \in LiveIn(s) : s.mutex_task[m] # u => h[u][m] = 0 /\ ~Granted(s, w, u, m)
  BY RunnerHas
<1>2. /\ Kernel(s, None, None) /\ Counts(s, a) /\ a.nest \in Nat
      /\ h \in [AllTask -> [Mutex -> Nat]] /\ s.owner_nested \in [Mutex -> Nat]
      /\ s.mutex_task \in [Mutex -> AllTask \cup {None}]
  BY MachineFacts
<1>3. t \in AllTask /\ t \in Ready(s) /\ ~Granted(s, w, t, m)
  BY RunnerKnows
<1>4. c = 0
  BY <1>1 DEF OneLess
<1>5. /\ Kernel(r, None, None) /\ Keeps(r, s, {"mutex_task", "mutex_list", "owner_nested"})
      /\ r.owner_nested = [s.owner_nested EXCEPT ![m] = 0]
      /\ r.mutex_task = [s.mutex_task EXCEPT ![m] = None]
  <2> DEFINE n == 0
  <2>1. n \in Nat /\ n = 0 /\ t # Idle /\ s.mutex_task[m] = t /\ r = Renested(GivenUp(s, t, m), m, n)
    OBVIOUS
  <2> HIDE DEF n, r, t
  <2>2. UnlocksFree(r, s, m, n)
    BY <1>2, <1>3, <2>1, LastUnlocked
  <2>3. QED
    BY <2>1, <2>2 DEF UnlocksFree
<1>6. s.mutex_task[m] = t /\ h1 = Relocks(h, s.active, m, c)
  OBVIOUS
<1> HIDE DEF r, h1, t, c
<1>7. h1[t][m] = 0 /\ \A u \in AllTask \ {t} : h1[u] = h[u]
  <2>1. h1 = Relocks(h, t, m, c) /\ c \in Nat /\ h \in [AllTask -> [Mutex -> Nat]]
    BY <1>2, <1>4 DEF h1
  <2>2. /\ h1 \in [AllTask -> [Mutex -> Nat]] /\ h1[t][m] = c
        /\ \A u \in AllTask \ {t} : h1[u] = h[u]
        /\ \A x \in Mutex \ {m} : h1[t][x] = h[t][x]
    BY <1>3, <2>1, Relocking
  <2>3. QED
    BY <1>4, <2>2
<1>8. r.owner_nested[m] = 0 /\ \A x \in Mutex \ {m} : r.owner_nested[x] = s.owner_nested[x]
  BY <1>2, <1>5
<1>9. r.mutex_task[m] = None /\ \A x \in Mutex \ {m} : r.mutex_task[x] = s.mutex_task[x]
  BY <1>2, <1>5
<1>10. /\ r.suspend_count = s.suspend_count /\ r.count = s.count
       /\ r.task_state = s.task_state /\ r.obj_type = s.obj_type /\ r.blk_obj = s.blk_obj
       /\ r.blk_state = s.blk_state
  BY <1>5 DEF Keeps, Fields
<1>11. Counts(r, a)
  <2>1. \A x \in Mutex \ {m} : r.owner_nested[x] <= a.nest
    BY <1>2, <1>8 DEF Counts
  <2>2. r.owner_nested[m] <= a.nest
    BY <1>2, <1>8
  <2>3. \A x \in Mutex : r.owner_nested[x] <= a.nest
    BY <2>1, <2>2
  <2>4. \A x \in Mutex \cap s.obj_type : r.mutex_task[x] # None => r.owner_nested[x] > 0
    BY <1>2, <1>8, <1>9 DEF Counts
  <2>5. QED
    BY <1>2, <1>10, <2>3, <2>4 DEF Counts
<1>12. ASSUME NEW u \in LiveIn(s) PROVE Has(r, w, h1, a, u, m)
  <2>1. Granted(r, w, u, m) <=> Granted(s, w, u, m)
    BY <1>10 DEF Granted
  <2>2. u \in AllTask /\ u # None
    BY CoreAssumption DEF LiveIn, AllTask
  <2>3. h1[u][m] = 0 /\ ~Granted(s, w, u, m)
    BY <1>1, <1>3, <1>6, <1>7, <2>2
  <2>4. QED
    BY <1>9, <2>1, <2>2, <2>3 DEF Has
<1>13. Keeps(r, s, {"owner_nested", "mutex_task", "mutex_list"})
  BY <1>5 DEF Keeps
<1>14. Machine(r, p, w, h1, a)
  <2>1. c \in Nat
    BY <1>4
  <2>2. QED
    BY <1>5, <1>6, <1>8, <1>9, <1>11, <1>12, <1>13, <2>1, LockMachine
<1>15. QED
  BY <1>14 DEF r, h1, t, c

\* krhino_mutex_unlock of the last lock of a mutex that is waited for.
LEMMA UnlockedPassed ==
  ASSUME NEW s, NEW p, NEW w, NEW h, NEW a, Machine(s, p, w, h, a), p[s.active] = "run",
         s.active # Idle, NEW m \in Mutex, m \in s.obj_type, s.mutex_task[m] = s.active,
         s.owner_nested[m] = 1, s.blk_list[m] # <<>>
  PROVE  Machine(Renested(GivenUp(s, s.active, m), m, 1), [p EXCEPT ![s.active] = "sched"], w,
                 Relocks(h, s.active, m, OneLess(h[s.active][m])), a)
<1> DEFINE t  == s.active
           c  == OneLess(h[t][m])
           r  == Renested(GivenUp(s, t, m), m, 1)
           h1 == Relocks(h, t, m, c)
           p1 == [p EXCEPT ![t] = "sched"]
<1>1. h[t][m] \in Nat /\ h[t][m] <= s.owner_nested[m]
  BY RunnerHas
<1>2. /\ Kernel(s, None, None) /\ Counts(s, a) /\ a.nest \in Nat
      /\ h \in [AllTask -> [Mutex -> Nat]] /\ s.owner_nested \in [Mutex -> Nat]
      /\ s.mutex_task \in [Mutex -> AllTask \cup {None}]
  BY MachineFacts
<1>3. t \in AllTask /\ t \in Ready(s) /\ t \in LiveIn(s) /\ w[t] = None
  BY RunnerKnows
<1>4. c = 0
  BY <1>1 DEF OneLess
<1>5. /\ Kernel(r, None, None) /\ Keeps(r, s, UnlockFields)
      /\ r.owner_nested = [s.owner_nested EXCEPT ![m] = 1]
      /\ Hands(r, s, t, {m})
  <2> DEFINE n == 1
  <2>1. n \in Nat /\ n = 1 /\ t # Idle /\ s.mutex_task[m] = t /\ r = Renested(GivenUp(s, t, m), m, n)
    OBVIOUS
  <2> HIDE DEF n, r, t
  <2>2. UnlocksTo(r, s, t, m, n)
    BY <1>2, <1>3, <2>1, LastUnlocked
  <2>3. QED
    BY <2>1, <2>2 DEF UnlocksTo
<1>6. MachineType(p, w, h, a) /\ p \in [AllTask -> {"run", "sched", "pend", "end"}]
  BY DEF Machine, MachineType
<1>7. /\ p1 \in [AllTask -> {"run", "sched", "pend", "end"}]
      /\ p1[t] = "sched" /\ \A u \in AllTask \ {t} : p1[u] = p[u]
  BY <1>3, <1>6, PosMoved
<1>8. p[t] = "run" /\ s.active = t /\ s.owner_nested[m] = 1
  OBVIOUS
<1> HIDE DEF r, h1, t, c, p1
<1>9. /\ h1 \in [AllTask -> [Mutex -> Nat]] /\ h1[t][m] = 0
      /\ \A u \in AllTask \ {t} : h1[u] = h[u]
      /\ \A x \in Mutex \ {m} : h1[t][x] = h[t][x]
  <2>1. h1 = Relocks(h, t, m, c) /\ c \in Nat /\ h \in [AllTask -> [Mutex -> Nat]]
    BY <1>2, <1>4 DEF h1
  <2>2. /\ h1 \in [AllTask -> [Mutex -> Nat]] /\ h1[t][m] = c
        /\ \A u \in AllTask \ {t} : h1[u] = h[u]
        /\ \A x \in Mutex \ {m} : h1[t][x] = h[t][x]
    BY <1>3, <2>1, Relocking
  <2>3. QED
    BY <1>4, <2>2
<1>10. r.owner_nested[m] = 1 /\ \A x \in Mutex \ {m} : r.owner_nested[x] = s.owner_nested[x]
  BY <1>2, <1>5
<1>11. /\ r.suspend_count = s.suspend_count /\ r.count = s.count /\ r.obj_type = s.obj_type
       /\ r.active = s.active /\ r.sched_lock = s.sched_lock
  BY <1>5 DEF Keeps, Fields, UnlockFields, HandOverFields
<1>12. SameTask(r, s, t) /\ \A x \in Mutex \ {m} : r.mutex_task[x] = s.mutex_task[x]
  BY <1>5 DEF Hands
<1>13. r.task_state[t] = s.task_state[t] /\ s.task_state[t] = "RDY"
  BY <1>3, <1>12 DEF SameTask, Ready
<1>14. Runs(r, p1)
  BY <1>3, <1>7, <1>8, <1>11, <1>13 DEF Runs, Ready
<1>15. Counts(r, a)
  <2>1. \A x \in Mutex : r.owner_nested[x] <= a.nest
    BY <1>2, <1>8, <1>10 DEF Counts
  <2>2. \A x \in Mutex \cap s.obj_type : r.mutex_task[x] # None => r.owner_nested[x] > 0
    BY <1>2, <1>10, <1>12 DEF Counts
  <2>3. \A u \in AllTask : r.task_state[u] \in {r.task_state[u], "DELETED"}
    OBVIOUS
  <2>4. QED
    BY <1>2, <1>5, <1>11, <2>1, <2>2, <2>3, HandsCounts
<1>16. Wants(r, p1, w, h1) /\ Owned(r, w, h1, a)
  <2>1. \A x \in Mutex : h1[t][x] = IF x \in {m} \/ r.task_state[t] = "DELETED" THEN 0 ELSE h[t][x]
    BY <1>9, <1>13
  <2>2. \A u \in AllTask : p1[u] \in {"run", "sched"} =>
                   p[u] \in {"run", "sched"} \/ r.task_state[u] = "DELETED"
    BY <1>7, <1>8
  <2>3. \A x \in {m} : r.owner_nested[x] >= 1 /\ (OneLock(a) => r.owner_nested[x] = 1)
    BY <1>10
  <2>4. \A x \in Mutex \ {m} : r.owner_nested[x] = s.owner_nested[x]
    BY <1>10
  <2>5. {m} \subseteq Mutex
    OBVIOUS
  <2>6. HandedOn(r, p1, h1, s, p, w, h, a, r, t, {m})
    BY <1>3, <1>5, <1>9, <1>11, <1>13, <2>1, <2>2, <2>3, <2>4, <2>5 DEF HandedOn
  <2>7. QED
    BY <2>6, HandsMachine
<1>17. MachineType(p1, w, h1, a)
  BY <1>6, <1>7, <1>9 DEF MachineType
<1>18. Machine(r, p1, w, h1, a)
  BY <1>5, <1>14, <1>15, <1>16, <1>17 DEF Machine
<1>19. QED
  BY <1>18 DEF r, h1, t, c, p1

\* krhino_task_del.
LEMMA DeletedMachine ==
  ASSUME NEW s, NEW p, NEW w, NEW h, NEW a, Machine(s, p, w, h, a), p[s.active] = "run",
         "del" \in a.calls, NEW u \in LiveIn(s), u # Idle, u = s.active => s.sched_lock = 0
  PROVE  Machine(Buried(task_mutex_free(s, u), u), [p EXCEPT ![s.active] = "sched"], w,
                 [h EXCEPT ![u] = NoLocks], a)
<1> DEFINE t  == s.active
           r  == Buried(task_mutex_free(s, u), u)
           h1 == [h EXCEPT ![u] = NoLocks]
           p1 == [p EXCEPT ![t] = "sched"]
           M  == ToSet(s.mutex_list[u])
<1>1. /\ Kernel(s, None, None) /\ Counts(s, a) /\ a.nest \in Nat
      /\ h \in [AllTask -> [Mutex -> Nat]] /\ s.owner_nested \in [Mutex -> Nat]
      /\ s.mutex_task \in [Mutex -> AllTask \cup {None}]
  BY MachineFacts
<1>2. t \in AllTask /\ t \in Ready(s)
  BY RunnerKnows
<1>3. u \in AllTask /\ u # None
  BY CoreAssumption DEF LiveIn, AllTask
<1>4. /\ Kernel(r, None, None) /\ Keeps(r, s, HandOverFields \cup {"prio"})
      /\ \E q : /\ Hands(q, s, u, M) /\ q.mutex_task = r.mutex_task
                /\ q.blk_obj = r.blk_obj /\ q.blk_state = r.blk_state
                /\ Moves(r, q, u, "DELETED")
  BY <1>1, TaskDeleted
<1>5. M \subseteq Mutex
  <2>1. Holds(s, u)
    BY <1>1, <1>3 DEF Kernel, Owners
  <2>2. QED
    BY <2>1, InList DEF Holds, IsList
<1>6. MachineType(p, w, h, a) /\ p \in [AllTask -> {"run", "sched", "pend", "end"}]
  BY DEF Machine, MachineType
<1>7. /\ p1 \in [AllTask -> {"run", "sched", "pend", "end"}]
      /\ p1[t] = "sched" /\ \A v \in AllTask \ {t} : p1[v] = p[v]
  BY <1>2, <1>6, PosMoved
<1>8. p[t] = "run" /\ s.active = t /\ (u = t => s.sched_lock = 0)
  OBVIOUS
<1>9. /\ h1 \in [AllTask -> [Mutex -> Nat]] /\ \A x \in Mutex : h1[u][x] = 0
      /\ \A v \in AllTask \ {u} : h1[v] = h[v]
  <2>1. NoLocks \in [Mutex -> Nat] /\ \A x \in Mutex : NoLocks[x] = 0
    BY DEF NoLocks
  <2>2. QED
    BY <1>1, <1>3, <2>1
<1> HIDE DEF r, h1, t, p1, M
<1>10. /\ r.suspend_count = s.suspend_count /\ r.count = s.count /\ r.obj_type = s.obj_type
       /\ r.active = s.active /\ r.sched_lock = s.sched_lock /\ r.owner_nested = s.owner_nested
  BY <1>4 DEF Keeps, Fields, HandOverFields
<1>11. PICK q : /\ Hands(q, s, u, M) /\ q.mutex_task = r.mutex_task
                /\ q.blk_obj = r.blk_obj /\ q.blk_state = r.blk_state
                /\ Moves(r, q, u, "DELETED")
  BY <1>4
<1>12. r.task_state[u] = "DELETED" /\ \A v \in AllTask \ {u} : r.task_state[v] = q.task_state[v]
  BY <1>11 DEF Moves
<1>13. /\ \A m \in Mutex \ M : r.mutex_task[m] = s.mutex_task[m]
       /\ \A m \in M : m \in s.obj_type /\ s.mutex_task[m] = u
       /\ \A v \in AllTask : SameTask(q, s, v) \/ \E m \in M : Takes(q, s, v, m)
  BY <1>11 DEF Hands
<1>14. Runs(r, p1)
  <2>1. t # u => r.task_state[t] = "RDY"
    <3>1. \A m : ~Takes(q, s, t, m)
      BY <1>2 DEF Takes, Ready, Waiting, Pended
    <3>2. SameTask(q, s, t)
      BY <1>2, <1>13, <3>1
    <3>3. QED
      BY <1>2, <1>12, <3>2 DEF SameTask, Ready
  <2>2. s.sched_lock \in Nat
    BY <1>1 DEF Kernel, Core, Queues, Typed
  <2>3. s.sched_lock > 0 => t # u
    BY <1>8, <2>2
  <2>4. QED
    BY <1>2, <1>7, <1>8, <1>10, <2>1, <2>3 DEF Runs, Ready
<1>15. \A m \in M : r.owner_nested[m] >= 1 /\ (OneLock(a) => r.owner_nested[m] = 1)
  <2> SUFFICES ASSUME NEW m \in M
               PROVE  r.owner_nested[m] >= 1 /\ (OneLock(a) => r.owner_nested[m] = 1)
    OBVIOUS
  <2>1. m \in Mutex /\ m \in s.obj_type /\ s.mutex_task[m] # None
    BY <1>3, <1>5, <1>13
  <2>2. s.owner_nested[m] > 0 /\ s.owner_nested[m] <= a.nest /\ s.owner_nested[m] \in Nat
    BY <1>1, <2>1 DEF Counts
  <2>3. OneLock(a) => a.nest <= 1
    BY DEF OneLock
  <2>4. a.nest \in Nat /\ r.owner_nested[m] = s.owner_nested[m]
    BY <1>1, <1>10
  <2>5. QED
    BY <2>2, <2>3, <2>4
<1>16. Counts(r, a)
  <2>1. \A x \in Mutex : r.owner_nested[x] <= a.nest
    BY <1>1, <1>10 DEF Counts
  <2>2. \A x \in Mutex \cap s.obj_type : r.mutex_task[x] # None => r.owner_nested[x] > 0
    <3> SUFFICES ASSUME NEW x \in Mutex \cap s.obj_type, r.mutex_task[x] # None
                 PROVE  r.owner_nested[x] > 0
      OBVIOUS
    <3>1. CASE x \in M
      BY <1>3, <1>1, <1>10, <1>13, <3>1 DEF Counts
    <3>2. CASE x \notin M
      BY <1>1, <1>10, <1>13, <3>2 DEF Counts
    <3>3. QED
      BY <3>1, <3>2
  <2>3. \A v \in AllTask : r.task_state[v] \in {q.task_state[v], "DELETED"}
    BY <1>12
  <2>4. QED
    BY <1>1, <1>10, <1>11, <2>1, <2>2, <2>3, HandsCounts
<1>17. Wants(r, p1, w, h1) /\ Owned(r, w, h1, a)
  <2>1. \A x \in Mutex : h1[u][x] = IF x \in M \/ r.task_state[u] = "DELETED" THEN 0 ELSE h[u][x]
    BY <1>9, <1>12
  <2>2. \A v \in AllTask : p1[v] \in {"run", "sched"} =>
                   p[v] \in {"run", "sched"} \/ r.task_state[v] = "DELETED"
    BY <1>7, <1>8
  <2>3. \A x \in Mutex \ M : r.owner_nested[x] = s.owner_nested[x]
    BY <1>10
  <2>4. HandedOn(r, p1, h1, s, p, w, h, a, q, u, M)
    BY <1>5, <1>9, <1>10, <1>11, <1>12, <1>15, <2>1, <2>2, <2>3 DEF HandedOn
  <2>5. QED
    BY <2>4, HandsMachine
<1>18. MachineType(p1, w, h1, a)
  BY <1>6, <1>7, <1>9 DEF MachineType
<1>19. Machine(r, p1, w, h1, a)
  BY <1>4, <1>14, <1>16, <1>17, <1>18 DEF Machine
<1>20. QED
  BY <1>19 DEF r, h1, t, p1
-----------------------------------------------------------------------------
\* The running task blocks, and knows which mutex it waits for.
LEMMA BlockedMachine ==
  ASSUME NEW s, NEW p, NEW w, NEW h, NEW a, Machine(s, p, w, h, a), p[s.active] = "run",
         s.sched_lock = 0,
         NEW r, Kernel(r, None, None), Keeps(r, s, WaitFields),
         NEW st \in {"PEND", "SLEEP"}, Moves(r, s, s.active, st),
         \A u \in AllTask \ {s.active} : r.blk_obj[u] = s.blk_obj[u],
         NEW w1 \in [AllTask -> Mutex \cup {None}],
         \A u \in AllTask \ {s.active} : w1[u] = w[u],
         st = "PEND" => w1[s.active] = IF r.blk_obj[s.active] \in Mutex
                                         THEN r.blk_obj[s.active] ELSE None,
         st = "SLEEP" => w1[s.active] = None /\ r.blk_obj[s.active] = s.blk_obj[s.active],
         w1[s.active] # None => h[s.active][w1[s.active]] = 0
  PROVE  Machine(r, [p EXCEPT ![s.active] = "pend"], w1, h, a)
<1> DEFINE t  == s.active
           p1 == [p EXCEPT ![t] = "pend"]
<1>1. /\ t \in Ready(s) /\ t \in LiveIn(s) /\ t \in AllTask /\ t \notin Waiting(s)
      /\ w[t] = None /\ \A m \in Mutex : ~Granted(s, w, t, m)
  BY RunnerKnows
<1>2. /\ Counts(s, a) /\ MachineType(p, w, h, a) /\ p \in [AllTask -> {"run", "sched", "pend", "end"}]
      /\ Wants(s, p, w, h) /\ Owned(s, w, h, a)
  BY DEF Machine, MachineType
<1>3. /\ p1 \in [AllTask -> {"run", "sched", "pend", "end"}]
      /\ p1[t] = "pend" /\ \A u \in AllTask \ {t} : p1[u] = p[u]
  BY <1>1, <1>2, PosMoved
<1>4. /\ p[t] = "run" /\ s.active = t /\ r.task_state[t] = st
      /\ \A u \in AllTask \ {t} : r.task_state[u] = s.task_state[u]
      /\ \A u \in AllTask \ {t} : r.blk_obj[u] = s.blk_obj[u] /\ w1[u] = w[u]
      /\ st = "PEND" => w1[t] = IF r.blk_obj[t] \in Mutex THEN r.blk_obj[t] ELSE None
      /\ st = "SLEEP" => w1[t] = None /\ r.blk_obj[t] = s.blk_obj[t]
      /\ w1[t] # None => h[t][w1[t]] = 0
  BY DEF Moves
<1> HIDE DEF p1, t
<1>5. /\ r.suspend_count = s.suspend_count /\ r.count = s.count /\ r.obj_type = s.obj_type
      /\ r.active = t /\ r.sched_lock = 0 /\ r.owner_nested = s.owner_nested
      /\ r.mutex_task = s.mutex_task /\ r.blk_state = s.blk_state
  BY <1>4 DEF Keeps, Fields, WaitFields
<1>6. Runs(r, p1)
  BY <1>3, <1>5 DEF Runs
<1>7. Counts(r, a)
  <2>1. \A u \in AllTask : r.task_state[u] \in Suspended => s.task_state[u] \in Suspended
    BY <1>4 DEF Suspended
  <2>2. QED
    BY <1>2, <1>5, <2>1 DEF Counts
<1>8. LiveIn(r) = LiveIn(s)
  BY <1>1, <1>4 DEF LiveIn
<1>9. /\ \A u \in AllTask \ {t} : u \in Waiting(r) <=> u \in Waiting(s)
      /\ \A u \in AllTask \ {t} : u \in Sleeping(r) <=> u \in Sleeping(s)
      /\ t \in Waiting(r) <=> st = "PEND"
      /\ t \in Sleeping(r) <=> st = "SLEEP"
  BY <1>1, <1>4 DEF Waiting, Sleeping, Pended
<1>10. /\ st = "SLEEP" => r.blk_obj[t] = None
       /\ st = "PEND" => r.blk_obj[t] # None
  <2>1. st = "SLEEP" => s.blk_obj[t] = None
    BY <1>1, <1>2 DEF Wants, Knows
  <2>2. \A u \in Waiting(r) : r.blk_obj[u] # None
    BY WaitsForSomething
  <2>3. QED
    BY <1>4, <1>9, <2>1, <2>2
<1>11. Wants(r, p1, w1, h)
  <2> SUFFICES ASSUME NEW u \in AllTask PROVE Knows(r, p1, w1, h, u)
    BY DEF Wants
  <2>1. Knows(s, p, w, h, u)
    BY <1>2 DEF Wants
  <2>2. CASE u # t
    <3>1. /\ p1[u] = p[u] /\ w1[u] = w[u] /\ r.blk_obj[u] = s.blk_obj[u]
          /\ u \in Waiting(r) <=> u \in Waiting(s)
          /\ u \in Sleeping(r) <=> u \in Sleeping(s)
      BY <1>3, <1>4, <1>9, <2>2
    <3>2. QED
      BY <1>5, <1>8, <2>1, <3>1 DEF Knows
  <2>3. CASE u = t
    <3>1. \A m \in Mutex : t \notin LiveIn(s) \/ m \notin s.obj_type => h[t][m] = 0
      BY <2>1, <2>3 DEF Knows
    <3>2. st = "PEND" \/ st = "SLEEP"
      OBVIOUS
    <3>3. QED
      BY <1>1, <1>3, <1>4, <1>5, <1>8, <1>9, <1>10, <2>3, <3>1, <3>2 DEF Knows
  <2>4. QED
    BY <2>2, <2>3
<1>12. Owned(r, w1, h, a)
  <2> SUFFICES ASSUME NEW m \in Mutex, m \in r.obj_type, NEW u \in LiveIn(r)
               PROVE  Has(r, w1, h, a, u, m)
    BY DEF Owned
  <2>1. Has(s, w, h, a, u, m) /\ u \in AllTask
    BY <1>2, <1>5, <1>8 DEF Owned, LiveIn
  <2>2. CASE u # t
    <3>1. Granted(r, w1, u, m) <=> Granted(s, w, u, m)
      BY <1>4, <1>5, <2>1, <2>2 DEF Granted
    <3>2. QED
      BY <1>5, <2>1, <3>1 DEF Has
  <2>3. CASE u = t
    <3>1. ~Granted(s, w, t, m)
      BY <1>1
    <3>2. m # None
      BY CoreAssumption
    <3>3. ~Granted(r, w1, t, m)
      BY <1>4, <1>10, <3>2 DEF Granted
    <3>4. QED
      BY <1>5, <2>1, <2>3, <3>1, <3>3 DEF Has
  <2>4. QED
    BY <2>2, <2>3
<1>13. MachineType(p1, w1, h, a)
  BY <1>2, <1>3 DEF MachineType
<1>14. Machine(r, p1, w1, h, a)
  BY <1>6, <1>7, <1>11, <1>12, <1>13 DEF Machine
<1>15. QED
  BY <1>14 DEF p1, t

\* krhino_mutex_lock on a mutex that another task owns.
LEMMA WaitsForMutex ==
  ASSUME NEW s, NEW p, NEW w, NEW h, NEW a, Machine(s, p, w, h, a), p[s.active] = "run",
         s.active # Idle, s.sched_lock = 0, NEW m \in Mutex, m \in s.obj_type,
         s.mutex_task[m] \notin {s.active, None}, NEW i \in 0..Len(s.tick_list) + 1
  PROVE  Machine(pend_to_blk_obj(Lent(s, s.active, s.mutex_task[m]), m, s.active, i),
                 [p EXCEPT ![s.active] = "pend"], [w EXCEPT ![s.active] = m], h, a)
<1> DEFINE t  == s.active
           r  == pend_to_blk_obj(Lent(s, t, s.mutex_task[m]), m, t, i)
           w1 == [w EXCEPT ![t] = m]
           st == "PEND"
<1>1. Kernel(s, None, None) /\ Typed(s) /\ w \in [AllTask -> Mutex \cup {None}]
  BY MachineFacts DEF Machine, MachineType
<1>2. t \in Ready(s) /\ t \in AllTask
  BY RunnerKnows
<1>3. t \in Ready(s) \ {Idle}
  BY <1>2
<1>4. Kernel(r, None, None) /\ Begins(r, s, t, m)
  BY <1>1, <1>3, MutexWaited
<1>5. h[t][m] = 0
  BY RunnerHas
<1>6. /\ w1 \in [AllTask -> Mutex \cup {None}] /\ w1[t] = m
      /\ \A u \in AllTask \ {t} : w1[u] = w[u]
  BY <1>1, <1>2
<1>7. m # None /\ st \in {"PEND", "SLEEP"} /\ st = "PEND"
  BY CoreAssumption
<1> HIDE DEF r, w1, st
<1>8. Kernel(r, None, None) /\ Moves(r, s, t, st) /\ Keeps(r, s, WaitFields)
  BY <1>4, <1>7 DEF Begins
<1>9. r.blk_obj[t] = m /\ \A u \in AllTask \ {t} : r.blk_obj[u] = s.blk_obj[u]
  BY <1>1, <1>2, <1>4 DEF Typed, Begins
<1>10. /\ st = "PEND" => w1[t] = IF r.blk_obj[t] \in Mutex THEN r.blk_obj[t] ELSE None
       /\ st = "SLEEP" => w1[t] = None /\ r.blk_obj[t] = s.blk_obj[t]
       /\ w1[t] # None => h[t][w1[t]] = 0
  BY <1>5, <1>6, <1>7, <1>9
<1>11. Machine(r, [p EXCEPT ![s.active] = "pend"], w1, h, a)
  BY <1>6, <1>7, <1>8, <1>9, <1>10, BlockedMachine
<1>12. QED
  BY <1>11 DEF r, w1

\* krhino_sem_take on a semaphore without tokens.
LEMMA WaitsForSem ==
  ASSUME NEW s, NEW p, NEW w, NEW h, NEW a, Machine(s, p, w, h, a), p[s.active] = "run",
         s.active # Idle, s.sched_lock = 0, NEW o \in Sem, o \in s.obj_type,
         s.count[o] = 0, NEW i \in 0..Len(s.tick_list) + 1
  PROVE  Machine(pend_to_blk_obj(s, o, s.active, i), [p EXCEPT ![s.active] = "pend"], w, h, a)
<1> DEFINE t  == s.active
           r  == pend_to_blk_obj(s, o, t, i)
           st == "PEND"
<1>1. Kernel(s, None, None) /\ Typed(s) /\ w \in [AllTask -> Mutex \cup {None}]
  BY MachineFacts DEF Machine, MachineType
<1>2. t \in Ready(s) /\ t \in AllTask /\ w[t] = None
  BY RunnerKnows
<1>3. t \in Ready(s) \ {Idle}
  BY <1>2
<1>4. Kernel(r, None, None) /\ Begins(r, s, t, o)
  BY <1>1, <1>3, SemWaited
<1>5. o \notin Mutex /\ st \in {"PEND", "SLEEP"} /\ st = "PEND"
  BY CoreAssumption
<1> HIDE DEF r, st
<1>6. /\ Moves(r, s, t, st) /\ Keeps(r, s, WaitFields) /\ r.blk_obj = [s.blk_obj EXCEPT ![t] = o]
  BY <1>4, <1>5 DEF Begins
<1>7. r.blk_obj[t] = o /\ \A u \in AllTask \ {t} : r.blk_obj[u] = s.blk_obj[u]
  BY <1>1, <1>2, <1>6 DEF Typed
<1>8. Machine(r, [p EXCEPT ![s.active] = "pend"], w, h, a)
  BY <1>1, <1>2, <1>4, <1>5, <1>6, <1>7, BlockedMachine
<1>9. QED
  BY <1>8 DEF r

\* krhino_task_sleep.
LEMMA GoesToSleep ==
  ASSUME NEW s, NEW p, NEW w, NEW h, NEW a, Machine(s, p, w, h, a), p[s.active] = "run",
         s.active # Idle, s.sched_lock = 0, NEW i \in 1..Len(s.tick_list) + 1
  PROVE  Machine(ready_list_rm(tick_list_insert([s EXCEPT !.task_state[s.active] = "SLEEP"],
                                                s.active, i), s.active),
                 [p EXCEPT ![s.active] = "pend"], w, h, a)
<1> DEFINE t  == s.active
           r  == ready_list_rm(tick_list_insert([s EXCEPT !.task_state[t] = "SLEEP"], t, i), t)
           st == "SLEEP"
<1>1. Kernel(s, None, None) /\ Typed(s) /\ w \in [AllTask -> Mutex \cup {None}]
  BY MachineFacts DEF Machine, MachineType
<1>2. t \in Ready(s) /\ t \in AllTask /\ w[t] = None
  BY RunnerKnows
<1>4. /\ Kernel(r, None, None) /\ Moves(r, s, t, "SLEEP")
      /\ Keeps(r, s, {"ready", "highest_pri", "task_state", "tick_list"})
  BY <1>1, <1>2, SleepStarted
<1>5. st \in {"PEND", "SLEEP"} /\ st = "SLEEP"
  OBVIOUS
<1> HIDE DEF r, st
<1>6. Moves(r, s, t, st) /\ Keeps(r, s, WaitFields) /\ r.blk_obj = s.blk_obj
  BY <1>4, <1>5 DEF Keeps, WaitFields, Fields
<1>8. Machine(r, [p EXCEPT ![s.active] = "pend"], w, h, a)
  BY <1>1, <1>2, <1>4, <1>5, <1>6, BlockedMachine
<1>9. QED
  BY <1>8 DEF r

-----------------------------------------------------------------------------
\* krhino_task_create: the new task has nothing and waits for nothing.
LEMMA CreatedMachine ==
  ASSUME NEW s, NEW p, NEW w, NEW h, NEW a, Machine(s, p, w, h, a), p[s.active] = "run",
         NEW u \in AllTask, u # Idle, s.task_state[u] = "DELETED", NEW pri \in Prio
  PROVE  Machine(ready_list_add_tail(Created(s, u, pri), u),
                 [p EXCEPT ![s.active] = "sched", ![u] = "run"], [w EXCEPT ![u] = None], h, a)
<1> DEFINE t  == s.active
           r  == ready_list_add_tail(Created(s, u, pri), u)
           p1 == [p EXCEPT ![t] = "sched", ![u] = "run"]
           w1 == [w EXCEPT ![u] = None]
<1>1. /\ Kernel(s, None, None) /\ Counts(s, a) /\ Typed(s) /\ MachineType(p, w, h, a)
      /\ Wants(s, p, w, h) /\ Owned(s, w, h, a) /\ a.suspend \in Nat
  BY MachineFacts DEF Machine
<1>2. t \in Ready(s) /\ t \in AllTask /\ t # u /\ p[t] = "run" /\ s.active = t
  BY RunnerKnows DEF Ready
<1>3. /\ p1 \in [AllTask -> {"run", "sched", "pend", "end"}] /\ p1[t] = "sched" /\ p1[u] = "run"
      /\ \A v \in AllTask \ {t} : v # u => p1[v] = p[v]
  BY <1>1, <1>2 DEF MachineType
<1>4. /\ w1 \in [AllTask -> Mutex \cup {None}] /\ w1[u] = None
      /\ \A v \in AllTask \ {u} : w1[v] = w[v]
  BY <1>1 DEF MachineType
<1>5. /\ Kernel(r, None, None) /\ Moves(r, s, u, "RDY") /\ Keeps(r, s, CreateFields)
      /\ r.suspend_count = [s.suspend_count EXCEPT ![u] = 0]
      /\ r.blk_obj = [s.blk_obj EXCEPT ![u] = None]
      /\ r.blk_state = [s.blk_state EXCEPT ![u] = "FINISH"]
  BY <1>1, TaskCreated
<1> HIDE DEF r, p1, w1, t
<1>6. /\ r.count = s.count /\ r.obj_type = s.obj_type /\ r.active = t
      /\ r.sched_lock = s.sched_lock /\ r.owner_nested = s.owner_nested
      /\ r.mutex_task = s.mutex_task
  BY <1>2, <1>5 DEF Keeps, Fields, CreateFields
<1>7. /\ r.suspend_count[u] = 0 /\ \A v \in AllTask \ {u} : r.suspend_count[v] = s.suspend_count[v]
      /\ r.blk_obj[u] = None /\ \A v \in AllTask \ {u} : r.blk_obj[v] = s.blk_obj[v]
      /\ \A v \in AllTask \ {u} : r.blk_state[v] = s.blk_state[v]
      /\ r.task_state[u] = "RDY" /\ \A v \in AllTask \ {u} : r.task_state[v] = s.task_state[v]
  BY <1>1, <1>5 DEF Typed, Moves
<1>8. u \notin LiveIn(s) /\ u # None
  BY CoreAssumption DEF LiveIn, AllTask
<1>9. \A m \in Mutex : h[u][m] = 0
  BY <1>1, <1>8 DEF Wants, Knows
<1>10. \A m \in Mutex \cap s.obj_type : s.mutex_task[m] # u
  BY <1>1, <1>8 DEF Kernel, Owners
<1>11. Runs(r, p1)
  BY <1>2, <1>3, <1>6, <1>7 DEF Runs, Ready
<1>12. Counts(r, a)
  <2>1. \A v \in AllTask : /\ r.suspend_count[v] <= a.suspend
                           /\ r.task_state[v] \in Suspended => r.suspend_count[v] > 0
    <3> SUFFICES ASSUME NEW v \in AllTask
                 PROVE  /\ r.suspend_count[v] <= a.suspend
                        /\ r.task_state[v] \in Suspended => r.suspend_count[v] > 0
      OBVIOUS
    <3>1. CASE v = u
      BY <1>1, <1>7, <3>1 DEF Suspended
    <3>2. CASE v # u
      BY <1>1, <1>7, <3>2 DEF Counts
    <3>3. QED
      BY <3>1, <3>2
  <2>2. QED
    BY <1>1, <1>6, <2>1 DEF Counts
<1>13. Wants(r, p1, w1, h)
  <2> SUFFICES ASSUME NEW v \in AllTask PROVE Knows(r, p1, w1, h, v)
    BY DEF Wants
  <2>1. Knows(s, p, w, h, v)
    BY <1>1 DEF Wants
  <2>2. CASE v # u
    <3>1. /\ p1[v] \in {"run", "sched"} => p[v] \in {"run", "sched"}
          /\ w1[v] = w[v] /\ r.blk_obj[v] = s.blk_obj[v]
      BY <1>2, <1>3, <1>4, <1>7, <2>2
    <3>2. /\ v \in Waiting(r) <=> v \in Waiting(s)
          /\ v \in Sleeping(r) <=> v \in Sleeping(s)
          /\ v \in LiveIn(r) <=> v \in LiveIn(s)
      BY <1>7, <2>2 DEF Waiting, Sleeping, LiveIn
    <3>3. QED
      BY <1>6, <2>1, <3>1, <3>2 DEF Knows
  <2>3. CASE v = u
    <3>1. u \notin Waiting(r) /\ u \notin Sleeping(r)
      BY <1>7 DEF Waiting, Sleeping, Pended
    <3>2. QED
      BY <1>4, <1>7, <1>9, <2>3, <3>1 DEF Knows
  <2>4. QED
    BY <2>2, <2>3
<1>14. Owned(r, w1, h, a)
  <2> SUFFICES ASSUME NEW m \in Mutex, m \in r.obj_type, NEW v \in LiveIn(r)
               PROVE  Has(r, w1, h, a, v, m)
    BY DEF Owned
  <2>1. v \in AllTask /\ m \in s.obj_type
    BY <1>6 DEF LiveIn
  <2>2. CASE v # u
    <3>1. v \in LiveIn(s)
      BY <1>7, <2>1, <2>2 DEF LiveIn
    <3>2. Has(s, w, h, a, v, m)
      BY <1>1, <2>1, <3>1 DEF Owned
    <3>3. Granted(r, w1, v, m) <=> Granted(s, w, v, m)
      BY <1>4, <1>7, <2>1, <2>2 DEF Granted
    <3>4. QED
      BY <1>6, <3>2, <3>3 DEF Has
  <2>3. CASE v = u
    <3>1. m # None
      BY CoreAssumption
    <3>2. ~Granted(r, w1, u, m)
      BY <1>4, <3>1 DEF Granted
    <3>3. r.mutex_task[m] # u /\ h[u][m] = 0
      BY <1>6, <1>9, <1>10, <2>1
    <3>4. QED
      BY <2>3, <3>2, <3>3 DEF Has
  <2>4. QED
    BY <2>2, <2>3
<1>15. MachineType(p1, w1, h, a)
  BY <1>1, <1>3, <1>4 DEF MachineType
<1>16. Machine(r, p1, w1, h, a)
  BY <1>5, <1>11, <1>12, <1>13, <1>14, <1>15 DEF Machine
<1>17. QED
  BY <1>16 DEF r, p1, w1, t

\* krhino_task_suspend and krhino_task_resume, from a task or an interrupt.
LEMMA SuspendedCounts ==
  ASSUME NEW s, NEW a, Counts(s, a), NEW u \in AllTask, NEW r, Resuspended(r, s, u),
         r.suspend_count[u] <= a.suspend
  PROVE  Counts(r, a)
<1>1. /\ r.count = s.count /\ r.obj_type = s.obj_type /\ r.owner_nested = s.owner_nested
      /\ r.mutex_task = s.mutex_task
  BY DEF Resuspended, Keeps, Fields
<1>2. \A t \in AllTask : /\ r.suspend_count[t] <= a.suspend
                         /\ r.task_state[t] \in Suspended => r.suspend_count[t] > 0
  BY DEF Resuspended, Counts
<1>3. QED
  BY <1>1, <1>2 DEF Counts

\* A suspension or a resumption that may be the step of a task or an interrupt.
Pauses(r, s, a) ==
  /\ Kernel(r, None, None) /\ Calm(r, s) /\ Counts(r, a) /\ r.obj_type = s.obj_type
  /\ s.sched_lock > 0 => s.active \in Ready(r)

LEMMA SuspendPauses ==
  ASSUME NEW s, NEW p, NEW w, NEW h, NEW a, Machine(s, p, w, h, a),
         NEW u \in Task, s.suspend_count[u] < a.suspend, u = s.active => s.sched_lock = 0
  PROVE  Pauses(task_suspend(s, u), s, a)
<1> DEFINE r == task_suspend(s, u)
<1>1. Kernel(s, None, None) /\ Core(s) /\ Counts(s, a) /\ Typed(s) /\ a.suspend \in Nat
  BY MachineFacts DEF Kernel
<1>2. u \in AllTask /\ u # Idle
  BY CoreAssumption DEF AllTask
<1>3. /\ Core(r) /\ Resuspended(r, s, u)
      /\ \A t \in Ready(s) \ {u} : t \in Ready(r)
      /\ r.suspend_count[u] \in {1, s.suspend_count[u] + 1}
  BY <1>1, <1>2, TaskSuspended
<1> HIDE DEF r
<1>4. Kernel(r, None, None) /\ Calm(r, s)
  BY <1>1, <1>3, CalmResuspended
<1>5. r.suspend_count[u] <= a.suspend
  <2>1. s.suspend_count[u] \in Nat
    BY <1>1, <1>2 DEF Typed
  <2>2. QED
    BY <1>1, <1>3, <2>1
<1>6. Counts(r, a)
  BY <1>1, <1>2, <1>3, <1>5, SuspendedCounts
<1>7. r.obj_type = s.obj_type
  BY <1>3 DEF Resuspended, Keeps, Fields
<1>8. s.sched_lock > 0 => s.active \in Ready(s)
  BY LockedRuns
<1>9. s.sched_lock > 0 => s.active # u
  <2>1. s.sched_lock \in Nat
    BY <1>1 DEF Typed
  <2>2. QED
    BY <2>1
<1>10. s.sched_lock > 0 => s.active \in Ready(r)
  BY <1>3, <1>8, <1>9
<1>11. Pauses(r, s, a)
  BY <1>4, <1>6, <1>7, <1>10 DEF Pauses
<1>12. QED
  BY <1>11 DEF r

LEMMA ResumePauses ==
  ASSUME NEW s, NEW p, NEW w, NEW h, NEW a, Machine(s, p, w, h, a),
         NEW u \in Task, s.task_state[u] \in Suspended
  PROVE  Pauses(task_resume(s, u), s, a)
<1> DEFINE r == task_resume(s, u)
<1>1. Kernel(s, None, None) /\ Core(s) /\ Counts(s, a) /\ Typed(s) /\ a.suspend \in Nat
  BY MachineFacts DEF Kernel
<1>2. u \in AllTask
  BY DEF AllTask
<1>3. s.suspend_count[u] > 0 /\ s.suspend_count[u] <= a.suspend
  BY <1>1, <1>2 DEF Counts
<1>4. /\ Core(r) /\ Resuspended(r, s, u)
      /\ \A t \in Ready(s) : t \in Ready(r)
      /\ r.suspend_count[u] = s.suspend_count[u] - 1
  BY <1>1, <1>2, <1>3, TaskResumed
<1> HIDE DEF r
<1>5. Kernel(r, None, None) /\ Calm(r, s)
  BY <1>1, <1>4, CalmResuspended
<1>6. r.suspend_count[u] <= a.suspend
  <2>1. s.suspend_count[u] \in Nat
    BY <1>1, <1>2 DEF Typed
  <2>2. QED
    BY <1>1, <1>3, <1>4, <2>1
<1>7. Counts(r, a)
  BY <1>1, <1>2, <1>4, <1>6, SuspendedCounts
<1>8. r.obj_type = s.obj_type
  BY <1>4 DEF Resuspended, Keeps, Fields
<1>9. s.sched_lock > 0 => s.active \in Ready(r)
  BY <1>4, LockedRuns
<1>10. Pauses(r, s, a)
  BY <1>5, <1>7, <1>8, <1>9 DEF Pauses
<1>11. QED
  BY <1>10 DEF r

LEMMA PausesMachine ==
  ASSUME NEW s, NEW p, NEW w, NEW h, NEW a, Machine(s, p, w, h, a), NEW r, Pauses(r, s, a)
  PROVE  /\ p[s.active] = "run" => Machine(r, [p EXCEPT ![s.active] = "sched"], w, h, a)
         /\ Machine(core_sched(r), p, w, h, a)
<1>1. /\ Kernel(r, None, None) /\ Calm(r, s) /\ Counts(r, a) /\ r.obj_type = s.obj_type
      /\ s.sched_lock > 0 => s.active \in Ready(r)
  BY DEF Pauses
<1>2. Forgets(h, h, r)
  BY <1>1, ForgetsNothing
<1>3. p[s.active] = "run" => Machine(r, [p EXCEPT ![s.active] = "sched"], w, h, a)
  BY <1>1, <1>2, CalmExit
<1>4. Machine(core_sched(r), p, w, h, a)
  BY <1>1, CalmInterrupt
<1>5. QED
  BY <1>3, <1>4

-----------------------------------------------------------------------------
\* A semaphore's count changes, by a call that returns or by an interrupt.
LEMMA RecountMachine ==
  ASSUME NEW s, NEW p, NEW w, NEW h, NEW a, Machine(s, p, w, h, a),
         NEW o \in Sem, NEW c \in 0..MaxCount, s.blk_list[o] = <<>> \/ s.count[o] > 0
  PROVE  /\ Machine(Recount(s, o, c), p, w, h, a)
         /\ Machine(core_sched(Recount(s, o, c)), p, w, h, a)
<1> DEFINE r == Recount(s, o, c)
<1>1. /\ Kernel(s, None, None) /\ Counts(s, a) /\ Typed(s)
      /\ MachineType(p, w, h, a) /\ Runs(s, p)
      /\ p \in [AllTask -> {"run", "sched", "pend", "end"}]
  BY MachineFacts DEF Machine, MachineType
<1>2. c \in Nat /\ c <= MaxCount
  BY KernelAssumption
<1>3. Kernel(r, None, None) /\ Keeps(r, s, {"count"}) /\ r.count = [s.count EXCEPT ![o] = c]
  BY <1>1, <1>2, CountChanged
<1> HIDE DEF r
<1>4. /\ r.task_state = s.task_state /\ r.blk_obj = s.blk_obj /\ r.blk_state = s.blk_state
      /\ r.obj_type = s.obj_type /\ r.mutex_task = s.mutex_task
      /\ r.owner_nested = s.owner_nested /\ r.active = s.active
      /\ r.sched_lock = s.sched_lock /\ r.suspend_count = s.suspend_count
  BY <1>3 DEF Keeps, Fields
<1>5. Calm(r, s)
  BY <1>4, MildSame
<1>6. Counts(r, a)
  <2>1. \A x \in Sem : r.count[x] <= MaxCount
    BY <1>1, <1>2, <1>3 DEF Typed, Counts
  <2>2. QED
    BY <1>1, <1>4, <2>1 DEF Counts
<1>7. s.sched_lock > 0 => s.active \in Ready(r)
  BY <1>4, LockedRuns DEF Ready
<1>8. Keeps(r, s, {"owner_nested", "count", "mutex_task", "mutex_list"})
  BY <1>3 DEF Keeps
<1>9. Runs(r, p)
  BY <1>1, <1>8, RunsKept
<1>10. Forgets(h, h, r)
  BY <1>4, ForgetsNothing
<1>11. Machine(r, p, w, h, a)
  BY <1>1, <1>3, <1>5, <1>6, <1>9, <1>10, CalmMachine
<1>12. Machine(core_sched(r), p, w, h, a)
  BY <1>3, <1>4, <1>5, <1>6, <1>7, CalmInterrupt
<1>13. QED
  BY <1>11, <1>12 DEF r

\* The scheduler's lock and the running task are all that changes.
LEMMA SchedMachine ==
  ASSUME NEW s, NEW p, NEW w, NEW h, NEW a, Machine(s, p, w, h, a),
         NEW r, Kernel(r, None, None), Keeps(r, s, {"sched_lock", "active"}),
         NEW p1 \in [AllTask -> {"run", "sched", "pend", "end"}], Runs(r, p1),
         \A t \in AllTask : p1[t] \in {"run", "sched"} => p[t] \in {"run", "sched"}
  PROVE  Machine(r, p1, w, h, a)
<1>1. /\ Counts(s, a) /\ MachineType(p, w, h, a) /\ Owned(s, w, h, a)
  BY DEF Machine
<1>2. /\ r.task_state = s.task_state /\ r.blk_obj = s.blk_obj /\ r.blk_state = s.blk_state
      /\ r.obj_type = s.obj_type /\ r.mutex_task = s.mutex_task
      /\ r.owner_nested = s.owner_nested /\ r.suspend_count = s.suspend_count
      /\ r.count = s.count
  BY DEF Keeps, Fields
<1>3. Counts(r, a)
  BY <1>1, <1>2 DEF Counts
<1>4. Owned(r, w, h, a)
  BY <1>1, <1>2 DEF Owned, Has, Granted, LiveIn
<1>5. MachineType(p1, w, h, a)
  BY <1>1 DEF MachineType
<1>6. Keeps(r, s, {"owner_nested", "count", "mutex_task", "mutex_list", "sched_lock", "active"})
  BY DEF Keeps
<1>7. QED
  BY <1>3, <1>4, <1>5, <1>6, SteadyMachine

\* krhino_sched_disable, and krhino_sched_enable of a nested lock ...
LEMMA RelockMachine ==
  ASSUME NEW s, NEW p, NEW w, NEW h, NEW a, Machine(s, p, w, h, a), p[s.active] = "run",
         NEW n \in Nat, n > 0
  PROVE  Machine(Relocked(s, n), p, w, h, a)
<1> DEFINE r == Relocked(s, n)
<1>1. Kernel(s, None, None) /\ p \in [AllTask -> {"run", "sched", "pend", "end"}]
  BY DEF Machine, MachineType
<1>2. Kernel(r, None, None) /\ Keeps(r, s, {"sched_lock"}) /\ r.sched_lock = n
  BY <1>1, LockChanged
<1> HIDE DEF r
<1>3. s.active \in Ready(s)
  BY RunnerKnows
<1>4. r.task_state = s.task_state /\ r.active = s.active
  BY <1>2 DEF Keeps, Fields
<1>5. Runs(r, p)
  BY <1>2, <1>3, <1>4 DEF Runs, Ready
<1>6. Keeps(r, s, {"sched_lock", "active"})
  BY <1>2 DEF Keeps
<1>7. Machine(r, p, w, h, a)
  BY <1>1, <1>2, <1>5, <1>6, SchedMachine
<1>8. QED
  BY <1>7 DEF r

\* ... and of the last one.
LEMMA UnlockSched ==
  ASSUME NEW s, NEW p, NEW w, NEW h, NEW a, Machine(s, p, w, h, a), p[s.active] = "run"
  PROVE  Machine(Relocked(s, 0), [p EXCEPT ![s.active] = "sched"], w, h, a)
<1> DEFINE n  == 0
           t  == s.active
           r  == Relocked(s, n)
           p1 == [p EXCEPT ![t] = "sched"]
<1>1. Kernel(s, None, None) /\ p \in [AllTask -> {"run", "sched", "pend", "end"}]
  BY DEF Machine, MachineType
<1>2. n \in Nat /\ n = 0 /\ t = s.active /\ p[t] = "run"
  OBVIOUS
<1> HIDE DEF n
<1>3. Kernel(r, None, None) /\ Keeps(r, s, {"sched_lock"}) /\ r.sched_lock = n
  BY <1>1, <1>2, LockChanged
<1>4. t \in AllTask
  BY RunnerKnows
<1>5. /\ p1 \in [AllTask -> {"run", "sched", "pend", "end"}]
      /\ p1[t] = "sched" /\ \A u \in AllTask \ {t} : p1[u] = p[u]
  BY <1>1, <1>4, PosMoved
<1> HIDE DEF r, p1, t
<1>6. r.active = t
  BY <1>2, <1>3 DEF Keeps, Fields
<1>7. Runs(r, p1)
  BY <1>2, <1>3, <1>5, <1>6 DEF Runs
<1>8. Keeps(r, s, {"sched_lock", "active"})
  BY <1>3 DEF Keeps
<1>9. \A u \in AllTask : p1[u] \in {"run", "sched"} => p[u] \in {"run", "sched"}
  BY <1>2, <1>5
<1>10. Machine(r, p1, w, h, a)
  BY <1>3, <1>5, <1>7, <1>8, <1>9, SchedMachine
<1>11. QED
  BY <1>2, <1>10 DEF r, p1, t, n

\* core_sched at the end of a call.
LEMMA SchedulerRan ==
  ASSUME NEW s, NEW p, NEW w, NEW h, NEW a, Machine(s, p, w, h, a),
         p[s.active] \in {"sched", "pend"}
  PROVE  Machine(core_sched(s),
                 [p EXCEPT ![s.active] = IF @ = "pend" THEN "end" ELSE "run"], w, h, a)
<1> DEFINE t  == s.active
           to == IF p[t] = "pend" THEN "end" ELSE "run"
           r  == core_sched(s)
           p1 == [p EXCEPT ![t] = to]
<1>1. Kernel(s, None, None) /\ Typed(s) /\ p \in [AllTask -> {"run", "sched", "pend", "end"}]
      /\ Runs(s, p)
  BY MachineFacts DEF Machine, MachineType
<1>2. t \in AllTask /\ s.sched_lock \in Nat /\ (s.sched_lock > 0 => t \in Ready(s))
  BY <1>1, LockedRuns DEF Typed
<1>3. /\ p1 \in [AllTask -> {"run", "sched", "pend", "end"}]
      /\ p1[t] = to /\ \A u \in AllTask \ {t} : p1[u] = p[u]
  <2>1. to \in {"run", "sched", "pend", "end"}
    OBVIOUS
  <2>2. QED
    BY <1>1, <1>2, <2>1, PosMoved
<1>4. /\ Kernel(r, None, None) /\ Keeps(r, s, {"active"})
      /\ s.sched_lock > 0 => r.active = s.active
      /\ s.sched_lock = 0 => r.active \in Ready(s) /\ s.prio[r.active] = s.highest_pri
  BY <1>1, Scheduled
<1>5. \A u \in AllTask : p1[u] \in {"run", "sched"} => p[u] \in {"run", "sched"}
  <2>1. p[t] \in {"sched", "pend"}
    OBVIOUS
  <2>2. p1[t] \in {"run", "sched"} => p[t] \in {"run", "sched"}
    BY <1>3, <2>1
  <2>3. QED
    BY <1>3, <2>2
<1> HIDE DEF r, p1
<1>6. /\ r.task_state = s.task_state /\ r.prio = s.prio /\ r.highest_pri = s.highest_pri
      /\ r.sched_lock = s.sched_lock
  BY <1>4 DEF Keeps, Fields
<1>7. Runs(r, p1)
  BY <1>2, <1>4, <1>6 DEF Runs, Ready
<1>8. Keeps(r, s, {"sched_lock", "active"})
  BY <1>4 DEF Keeps
<1>9. Machine(r, p1, w, h, a)
  BY <1>3, <1>4, <1>5, <1>7, <1>8, SchedMachine
<1>10. QED
  BY <1>9 DEF r, p1

\* pend_state_end_proc: what was granted is known.
LEMMA WaitOver ==
  ASSUME NEW s, NEW p, NEW w, NEW h, NEW a, Machine(s, p, w, h, a), p[s.active] = "end"
  PROVE  Machine(s, [p EXCEPT ![s.active] = "run"], [w EXCEPT ![s.active] = None],
                 IF s.blk_state[s.active] = "FINISH" /\ IsMutex(s, w[s.active])
                   THEN [h EXCEPT ![s.active][w[s.active]] = 1] ELSE h, a)
<1> DEFINE t  == s.active
           p1 == [p EXCEPT ![t] = "run"]
           w1 == [w EXCEPT ![t] = None]
           g  == s.blk_state[t] = "FINISH" /\ IsMutex(s, w[t])
           h1 == IF g THEN [h EXCEPT ![t][w[t]] = 1] ELSE h
<1>1. /\ Kernel(s, None, None) /\ Typed(s) /\ Counts(s, a) /\ MachineType(p, w, h, a)
      /\ Runs(s, p) /\ Owned(s, w, h, a) /\ Wants(s, p, w, h)
  BY MachineFacts DEF Machine
<1>2. t \in AllTask /\ t \in Ready(s) /\ p[t] = "end" /\ s.active = t
  BY <1>1 DEF Runs, Typed
<1>3. /\ p1 \in [AllTask -> {"run", "sched", "pend", "end"}]
      /\ p1[t] = "run" /\ \A u \in AllTask \ {t} : p1[u] = p[u]
  BY <1>1, <1>2, PosMoved DEF MachineType
<1>4. /\ w1 \in [AllTask -> Mutex \cup {None}] /\ w1[t] = None
      /\ \A u \in AllTask \ {t} : w1[u] = w[u]
  BY <1>1, <1>2 DEF MachineType
<1>5. /\ h1 \in [AllTask -> [Mutex -> Nat]] /\ \A u \in AllTask \ {t} : h1[u] = h[u]
      /\ \A m \in Mutex : h1[t][m] = IF g /\ m = w[t] THEN 1 ELSE h[t][m]
  <2>1. h \in [AllTask -> [Mutex -> Nat]]
    BY <1>1 DEF MachineType
  <2>2. g => w[t] \in Mutex
    BY DEF IsMutex
  <2>3. CASE g
    BY <1>2, <2>1, <2>2, <2>3
  <2>4. CASE ~g
    BY <2>1, <2>4
  <2>5. QED
    BY <2>3, <2>4
<1> HIDE DEF p1, w1, h1
<1>6. t \in LiveIn(s) /\ t \notin Waiting(s) /\ s.blk_obj[t] = None
  BY <1>1, <1>2 DEF Wants, Knows, Ready, LiveIn, Waiting, Pended
<1>7. Owned(s, w1, h1, a)
  <2> SUFFICES ASSUME NEW m \in Mutex, m \in s.obj_type, NEW u \in LiveIn(s)
               PROVE  Has(s, w1, h1, a, u, m)
    BY DEF Owned
  <2>1. Has(s, w, h, a, u, m) /\ u \in AllTask
    BY <1>1 DEF Owned, LiveIn
  <2>2. CASE u # t
    BY <1>4, <1>5, <2>1, <2>2 DEF Has, Granted
  <2>3. CASE u = t
    <3>1. m # None /\ h[t][m] \in Nat
      BY <1>1, <1>2, CoreAssumption DEF MachineType
    <3>2. ~Granted(s, w1, t, m)
      BY <1>4, <3>1 DEF Granted
    <3>3. Granted(s, w, t, m) <=> g /\ m = w[t]
      BY <1>6 DEF Granted, IsMutex
    <3>4. Granted(s, w, t, m) => h[t][m] = 0
      BY <1>1, <1>2, <3>1 DEF Wants, Knows, Granted
    <3>5. h1[t][m] = h[t][m] + (IF Granted(s, w, t, m) THEN 1 ELSE 0)
      BY <1>5, <3>1, <3>3, <3>4
    <3>6. h1[t][m] + (IF Granted(s, w1, t, m) THEN 1 ELSE 0)
            = h[t][m] + (IF Granted(s, w, t, m) THEN 1 ELSE 0)
      BY <3>1, <3>2, <3>5
    <3>7. QED
      BY <2>1, <2>3, <3>6 DEF Has
  <2>4. QED
    BY <2>2, <2>3
<1>8. MachineType(p1, w1, h1, a)
  BY <1>1, <1>3, <1>4, <1>5 DEF MachineType
<1>9. Runs(s, p1)
  BY <1>1, <1>2, <1>3 DEF Runs
<1>10. Keeps(s, s, {"owner_nested", "count", "mutex_task", "mutex_list", "sched_lock", "active"})
  BY <1>1 DEF Keeps, Typed
<1>11. \A u \in AllTask : /\ w1[u] = None \/ (p1[u] \in {"run", "sched"} => p[u] \in {"run", "sched"})
                          /\ w1[u] = w[u] \/ (w1[u] = None /\ u \notin Waiting(s))
  BY <1>3, <1>4, <1>6
<1>12. \A u \in AllTask, m \in Mutex :
         h1[u][m] = h[u][m] \/ (w1[u] = None /\ u \in LiveIn(s) /\ m \in s.obj_type)
  BY <1>4, <1>5, <1>6 DEF IsMutex
<1>13. Machine(s, p1, w1, h1, a)
  BY <1>1, <1>7, <1>8, <1>9, <1>10, <1>11, <1>12, SteadyMachine
<1>14. QED
  BY <1>13 DEF p1, w1, h1

-----------------------------------------------------------------------------
(***************************************************************************)
(* The steps of the specification, one lemma per file of the kernel.       *)
(***************************************************************************)
LEMMA Runner ==
  ASSUME IInv, NEW t, NEW call, Running(t, call)
  PROVE  /\ t = k.active /\ pos[k.active] = "run" /\ k.active # Idle /\ k.active \in AllTask
         /\ k.active \in Ready(k) /\ call \in app.calls
         /\ Machine(k, pos, want, held, app) /\ Kernel(k, None, None) /\ Typed(k) /\ k.active # None
<1>1. t = k.active /\ pos[k.active] = "run" /\ t \in Task /\ call \in app.calls
  BY DEF Running, Calls
<1>2. Machine(k, pos, want, held, app)
  BY DEF IInv
<1>3. k.active \in Ready(k) /\ Kernel(k, None, None) /\ Typed(k)
  BY <1>1, <1>2, RunnerKnows, MachineFacts
<1>4. t # Idle /\ t \in AllTask /\ t # None
  BY <1>1, CoreAssumption DEF AllTask
<1>5. QED
  BY <1>1, <1>2, <1>3, <1>4

LEMMA TimeoutRange ==
  ASSUME Typed(k), NEW i \in Timeout PROVE i \in 0..Len(k.tick_list) + 1
<1>1. Len(k.tick_list) \in Nat
  BY DEF Typed
<1>2. QED
  BY <1>1 DEF Timeout, Place

\* What the model's krhino_mutex_unlock leaves, in the terms of these proofs.
LEMMA UnlockToIs ==
  ASSUME Kernel(k, None, None), NEW t \in Ready(k), t # Idle, NEW m \in Mutex, m \in k.obj_type,
         k.mutex_task[m] = t, k.owner_nested[m] = 1,
         NEW s1, s1 = Renested(k, m, k.owner_nested[m] - 1),
         NEW s2, s2 = mutex_release(s1, t, m),
         NEW s3, s3 = Renested(HandOver(s2, m), m, IF s2.blk_list[m] = <<>> THEN 0 ELSE 1)
  PROVE  /\ s1.owner_nested[m] = 0 /\ s2.blk_list[m] = k.blk_list[m]
         /\ s3 = Renested(GivenUp(k, t, m), m, IF k.blk_list[m] = <<>> THEN 0 ELSE 1)
<1> DEFINE n == 0
<1>1. n \in Nat /\ n = 0 /\ n = k.owner_nested[m] - 1
  OBVIOUS
<1>2. s1 = Renested(k, m, n) /\ s1 = Renested(k, m, 0)
  BY <1>1
<1> HIDE DEF n
<1>3. /\ Kernel(s1, None, None) /\ Keeps(s1, k, {"owner_nested"})
      /\ s1.owner_nested = [k.owner_nested EXCEPT ![m] = n]
  BY <1>1, <1>2, NestChanged
<1>4. s1.owner_nested[m] = 0
  BY <1>1, <1>3 DEF Kernel, Core, Queues, Typed
<1>5. /\ s1.task_state = k.task_state /\ s1.obj_type = k.obj_type /\ s1.mutex_task = k.mutex_task
      /\ s1.blk_list = k.blk_list
  BY <1>3 DEF Keeps, Fields
<1>6. t \in Ready(s1)
  BY <1>5 DEF Ready
<1>7. Releases(s2, s1, t, m)
  BY <1>3, <1>5, <1>6, Released
<1>8. s2.blk_list[m] = k.blk_list[m]
  BY <1>5, <1>7 DEF Releases, Keeps, Fields
<1>9. HandOver(s2, m) = GivenUp(k, t, m)
  BY <1>2 DEF GivenUp
<1>10. QED
  BY <1>4, <1>8, <1>9

LEMMA MutexSteps ==
  ASSUME IInv, UNCHANGED app, NEW t, NEW m \in Mutex,
         \/ MutexLockNow(t, m) \/ MutexUnlock(t, m) \/ MutexDel(t, m)
         \/ \E i \in Timeout : MutexLockWait(t, m, i)
  PROVE  IInv'
<1> USE DEF Return, ExitSched, IsMutex
<1> SUFFICES Machine(k', pos', want', held', app)
  BY DEF IInv
<1>1. CASE MutexLockNow(t, m)
  <2>1. Running(t, "mutex") /\ m \in k.obj_type
    BY <1>1 DEF MutexLockNow
  <2>2. /\ t = k.active /\ pos[k.active] = "run" /\ k.active # Idle /\ k.active \in AllTask
        /\ "mutex" \in app.calls /\ Machine(k, pos, want, held, app) /\ k.active # None
    BY <2>1, Runner
  <2>3. app.nest > 0
    BY <2>2, MachineFacts
  <2>4. held' = Relocks(held, k.active, m, held[k.active][m] + 1)
    BY <1>1, <2>2 DEF MutexLockNow, Relocks
  <2>5. CASE k.mutex_task[m] = t
    <3>1. /\ k' = Renested(k, m, k.owner_nested[m] + 1) /\ UNCHANGED <<pos, want>>
          /\ k.owner_nested[m] < app.nest
      BY <1>1, <2>5 DEF MutexLockNow, Renested, MaxNest
    <3>2. Machine(Renested(k, m, k.owner_nested[m] + 1), pos, want,
                  Relocks(held, k.active, m, held[k.active][m] + 1), app)
      BY <2>1, <2>2, <2>5, <3>1, LockedAgain
    <3>3. QED
      BY <2>4, <3>1, <3>2
  <2>6. CASE k.mutex_task[m] # t
    <3>1. /\ k' = Taken(k, k.active, m) /\ UNCHANGED <<pos, want>> /\ k.mutex_task[m] = None
      BY <1>1, <2>2, <2>6 DEF MutexLockNow, Taken
    <3>2. Machine(Taken(k, k.active, m), pos, want,
                  Relocks(held, k.active, m, held[k.active][m] + 1), app)
      BY <2>1, <2>2, <2>3, <3>1, LockedFree
    <3>3. QED
      BY <2>4, <3>1, <3>2
  <2>7. QED
    BY <2>5, <2>6
<1>2. CASE MutexUnlock(t, m)
  <2> DEFINE s1 == [k EXCEPT !.owner_nested[m] = @ - 1]
             s2 == mutex_release(s1, t, m)
             s3 == [HandOver(s2, m) EXCEPT !.owner_nested[m] =
                      IF s2.blk_list[m] = <<>> THEN 0 ELSE 1]
             h1 == Relocks(held, k.active, m, OneLess(held[k.active][m]))
  <2>1. Running(t, "mutex") /\ m \in k.obj_type /\ k.mutex_task[m] = t
    BY <1>2 DEF MutexUnlock, UnlockTo
  <2>2. /\ t = k.active /\ pos[k.active] = "run" /\ k.active # Idle /\ k.active \in AllTask
        /\ Machine(k, pos, want, held, app) /\ Kernel(k, None, None) /\ Typed(k)
        /\ k.active # None /\ k.active \in Ready(k)
    BY <2>1, Runner
  <2>3. held' = h1
    BY <1>2, <2>2 DEF MutexUnlock, UnlockTo, Relocks, OneLess
  <2>4. IF s1.owner_nested[m] > 0 THEN k' = s1 /\ UNCHANGED <<pos, want>>
        ELSE IF s2.blk_list[m] = <<>> THEN k' = s3 /\ UNCHANGED <<pos, want>>
        ELSE k' = s3 /\ pos' = [pos EXCEPT ![t] = "sched"] /\ UNCHANGED want
    BY <1>2 DEF MutexUnlock, UnlockTo
  <2>5. k.owner_nested[m] \in Nat /\ k.owner_nested[m] > 0
    BY <2>1, <2>2 DEF Typed, Machine, Counts
  <2>6. s1.owner_nested[m] = k.owner_nested[m] - 1 /\ s1 = Renested(k, m, k.owner_nested[m] - 1)
    BY <2>2 DEF Typed, IsK, Fields, Renested
  <2>7. s3 = Renested(HandOver(s2, m), m, IF s2.blk_list[m] = <<>> THEN 0 ELSE 1)
    BY DEF Renested
  <2>8. s2 = mutex_release(s1, t, m)
    OBVIOUS
  <2> HIDE DEF s1, s2, s3
  <2>9. CASE k.owner_nested[m] - 1 > 0
    <3>1. k' = Renested(k, m, k.owner_nested[m] - 1) /\ UNCHANGED <<pos, want>>
      BY <2>4, <2>6, <2>9
    <3>2. Machine(Renested(k, m, k.owner_nested[m] - 1), pos, want, h1, app)
      BY <2>1, <2>2, <2>9, UnlockedNested
    <3>3. QED
      BY <2>3, <3>1, <3>2
  <2>10. CASE ~(k.owner_nested[m] - 1 > 0)
    <3>1. k.owner_nested[m] = 1
      BY <2>5, <2>10
    <3>2. /\ s1.owner_nested[m] = 0 /\ s2.blk_list[m] = k.blk_list[m]
          /\ s3 = Renested(GivenUp(k, t, m), m, IF k.blk_list[m] = <<>> THEN 0 ELSE 1)
      BY <2>1, <2>2, <2>6, <2>7, <2>8, <3>1, UnlockToIs
    <3>3. CASE k.blk_list[m] = <<>>
      <4>1. k' = Renested(GivenUp(k, k.active, m), m, 0) /\ UNCHANGED <<pos, want>>
        BY <2>2, <2>4, <3>2, <3>3
      <4>2. Machine(Renested(GivenUp(k, k.active, m), m, 0), pos, want, h1, app)
        BY <2>1, <2>2, <3>1, <3>3, UnlockedFree
      <4>3. QED
        BY <2>3, <4>1, <4>2
    <3>4. CASE k.blk_list[m] # <<>>
      <4>1. /\ k' = Renested(GivenUp(k, k.active, m), m, 1)
            /\ pos' = [pos EXCEPT ![k.active] = "sched"] /\ UNCHANGED want
        BY <2>2, <2>4, <3>2, <3>4
      <4>2. Machine(Renested(GivenUp(k, k.active, m), m, 1), [pos EXCEPT ![k.active] = "sched"],
                    want, h1, app)
        BY <2>1, <2>2, <3>1, <3>4, UnlockedPassed
      <4>3. QED
        BY <2>3, <4>1, <4>2
    <3>5. QED
      BY <3>3, <3>4
  <2>11. QED
    BY <2>9, <2>10
<1>3. CASE MutexDel(t, m)
  <2> DEFINE r == PendAllRm(MutexGone(k, m), m)
  <2>1. Running(t, "mutex_del") /\ m \in k.obj_type
    BY <1>3 DEF MutexDel
  <2>2. /\ t = k.active /\ pos[k.active] = "run"
        /\ Machine(k, pos, want, held, app) /\ Kernel(k, None, None)
    BY <2>1, Runner
  <2>3. /\ k' = r /\ pos' = [pos EXCEPT ![k.active] = "sched"] /\ UNCHANGED want
        /\ held' = [u \in AllTask |-> [held[u] EXCEPT ![m] = 0]]
    BY <1>3, <2>2 DEF MutexDel, MutexGone, Deleted
  <2>4. Kernel(r, None, None) /\ Mild(r, k) /\ r.obj_type = k.obj_type \ {m}
    BY <2>1, <2>2, MutexDeleted
  <2> HIDE DEF r
  <2>5. Forgets(held', held, r)
    <3>1. held \in [AllTask -> [Mutex -> Nat]]
      BY <2>2, MachineFacts
    <3>2. \A u \in AllTask, x \in Mutex : x \notin k.obj_type => held[u][x] = 0
      BY <2>2 DEF Machine, Wants, Knows
    <3>3. \A u \in AllTask, x \in Mutex : held'[u][x] = IF x = m THEN 0 ELSE held[u][x]
      BY <2>3, <3>1
    <3>4. held' \in [AllTask -> [Mutex -> Nat]]
      BY <2>3, <3>1
    <3>5. QED
      BY <2>4, <3>2, <3>3, <3>4 DEF Forgets
  <2>6. Machine(r, [pos EXCEPT ![k.active] = "sched"], want, held', app)
    BY <2>2, <2>4, <2>5, MildExit
  <2>7. QED
    BY <2>3, <2>6
<1>4. ASSUME NEW i \in Timeout, MutexLockWait(t, m, i) PROVE Machine(k', pos', want', held', app)
  <2> DEFINE r == pend_to_blk_obj(Lent(k, k.active, k.mutex_task[m]), m, k.active, i)
  <2>1. /\ Running(t, "mutex") /\ m \in k.obj_type /\ k.sched_lock = 0
        /\ k.mutex_task[m] \notin {t, None}
    BY <1>4 DEF MutexLockWait
  <2>2. /\ t = k.active /\ pos[k.active] = "run" /\ k.active # Idle
        /\ Machine(k, pos, want, held, app) /\ Typed(k)
    BY <2>1, Runner
  <2>3. /\ k' = r /\ pos' = [pos EXCEPT ![k.active] = "pend"]
        /\ want' = [want EXCEPT ![k.active] = m] /\ held' = held
    BY <1>4, <2>2 DEF MutexLockWait, Lent
  <2>4. i \in 0..Len(k.tick_list) + 1
    BY <2>2, TimeoutRange
  <2>5. Machine(r, [pos EXCEPT ![k.active] = "pend"], [want EXCEPT ![k.active] = m], held, app)
    BY <2>1, <2>2, <2>4, WaitsForMutex
  <2>6. QED
    BY <2>3, <2>5
<1>5. QED
  BY <1>1, <1>2, <1>3, <1>4

LEMMA SemSteps ==
  ASSUME IInv, UNCHANGED app, NEW t, NEW o \in Sem,
         \/ \E all \in BOOLEAN : SemGive(t, o, all)
         \/ SemTakeNow(t, o) \/ SemDel(t, o)
         \/ \E i \in Timeout : SemTakeWait(t, o, i)
         \/ \E c \in 0..MaxCount : SemCountSet(t, o, c)
  PROVE  IInv'
<1> USE DEF Return, ExitSched
<1> SUFFICES Machine(k', pos', want', held', app)
  BY DEF IInv
<1>1. ASSUME NEW all \in BOOLEAN, SemGive(t, o, all) PROVE Machine(k', pos', want', held', app)
  <2> DEFINE r == sem_give(k, o, all)
  <2>1. Running(t, "sem") /\ CanGive(k, o) /\ UNCHANGED held
    BY <1>1 DEF SemGive
  <2>2. /\ t = k.active /\ pos[k.active] = "run" /\ Typed(k)
        /\ Machine(k, pos, want, held, app) /\ Kernel(k, None, None)
    BY <2>1, Runner
  <2>3. IF k.blk_list[o] = <<>> THEN r = Recount(k, o, k.count[o] + 1)
        ELSE Kernel(r, None, None) /\ Mild(r, k) /\ r.obj_type = k.obj_type
    BY <2>2, SemGiven
  <2>4. IF k.blk_list[o] = <<>> THEN k' = r /\ UNCHANGED <<pos, want>>
        ELSE k' = r /\ pos' = [pos EXCEPT ![k.active] = "sched"] /\ UNCHANGED want
    BY <1>1, <2>2 DEF SemGive
  <2> HIDE DEF r
  <2>5. CASE k.blk_list[o] = <<>>
    <3> DEFINE c == k.count[o] + 1
    <3>1. k.count[o] \in Nat /\ k.count[o] < MaxCount
      BY <2>1, <2>2, <2>5 DEF CanGive, Typed
    <3>2. c \in 0..MaxCount
      BY <3>1, KernelAssumption
    <3> HIDE DEF c
    <3>3. Machine(Recount(k, o, c), pos, want, held, app)
      BY <2>2, <2>5, <3>2, RecountMachine
    <3>4. QED
      BY <2>1, <2>3, <2>4, <2>5, <3>3 DEF c
  <2>6. CASE k.blk_list[o] # <<>>
    <3>1. Kernel(r, None, None) /\ Mild(r, k) /\ r.obj_type = k.obj_type
      BY <2>3, <2>6
    <3>2. Forgets(held, held, r)
      BY <2>2, <3>1, ForgetsNothing
    <3>3. Machine(r, [pos EXCEPT ![k.active] = "sched"], want, held, app)
      BY <2>2, <3>1, <3>2, MildExit
    <3>4. QED
      BY <2>1, <2>4, <2>6, <3>3
  <2>7. QED
    BY <2>5, <2>6
<1>2. CASE SemTakeNow(t, o)
  <2> DEFINE c == k.count[o] - 1
  <2>1. Running(t, "sem") /\ k.count[o] > 0 /\ UNCHANGED <<pos, want, held>>
    BY <1>2 DEF SemTakeNow
  <2>2. Machine(k, pos, want, held, app) /\ Typed(k) /\ Counts(k, app)
    BY <2>1, Runner DEF Machine
  <2>3. k' = Recount(k, o, c)
    BY <1>2 DEF SemTakeNow, Recount
  <2>4. k.count[o] \in Nat /\ k.count[o] <= MaxCount
    BY <2>2 DEF Typed, Counts
  <2>5. c \in 0..MaxCount
    BY <2>1, <2>4, KernelAssumption
  <2> HIDE DEF c
  <2>6. Machine(Recount(k, o, c), pos, want, held, app)
    BY <2>1, <2>2, <2>5, RecountMachine
  <2>7. QED
    BY <2>1, <2>3, <2>6
<1>3. CASE SemDel(t, o)
  <2> DEFINE r == PendAllRm(Deleted(k, o), o)
  <2>1. Running(t, "sem_del") /\ UNCHANGED <<want, held>>
    BY <1>3 DEF SemDel
  <2>2. /\ t = k.active /\ pos[k.active] = "run"
        /\ Machine(k, pos, want, held, app) /\ Kernel(k, None, None)
    BY <2>1, Runner
  <2>3. k' = r /\ pos' = [pos EXCEPT ![k.active] = "sched"]
    BY <1>3, <2>2 DEF SemDel, Deleted
  <2>4. Kernel(r, None, None) /\ Mild(r, k) /\ r.obj_type = k.obj_type \ {o}
    BY <2>2, SemDeleted
  <2> HIDE DEF r
  <2>5. \A m \in Mutex : m \in k.obj_type => m \in r.obj_type
    BY <2>4, CoreAssumption
  <2>6. Forgets(held, held, r)
    BY <2>2, <2>5, ForgetsNothing
  <2>7. Machine(r, [pos EXCEPT ![k.active] = "sched"], want, held, app)
    BY <2>2, <2>4, <2>6, MildExit
  <2>8. QED
    BY <2>1, <2>3, <2>7
<1>4. ASSUME NEW i \in Timeout, SemTakeWait(t, o, i) PROVE Machine(k', pos', want', held', app)
  <2>1. /\ Running(t, "sem") /\ o \in k.obj_type /\ k.sched_lock = 0 /\ k.count[o] = 0
        /\ UNCHANGED <<want, held>>
    BY <1>4 DEF SemTakeWait
  <2>2. /\ t = k.active /\ pos[k.active] = "run" /\ k.active # Idle
        /\ Machine(k, pos, want, held, app) /\ Typed(k)
    BY <2>1, Runner
  <2>3. k' = pend_to_blk_obj(k, o, k.active, i) /\ pos' = [pos EXCEPT ![k.active] = "pend"]
    BY <1>4, <2>2 DEF SemTakeWait
  <2>4. i \in 0..Len(k.tick_list) + 1
    BY <2>2, TimeoutRange
  <2>5. Machine(pend_to_blk_obj(k, o, k.active, i), [pos EXCEPT ![k.active] = "pend"],
                want, held, app)
    BY <2>1, <2>2, <2>4, WaitsForSem
  <2>6. QED
    BY <2>1, <2>3, <2>5
<1>5. ASSUME NEW c \in 0..MaxCount, SemCountSet(t, o, c)
      PROVE  Machine(k', pos', want', held', app)
  <2>1. /\ Running(t, "sem_set") /\ (k.count[o] > 0 \/ k.blk_list[o] = <<>>)
        /\ UNCHANGED <<pos, want, held>>
    BY <1>5 DEF SemCountSet
  <2>2. Machine(k, pos, want, held, app)
    BY <2>1, Runner
  <2>3. k' = Recount(k, o, c)
    BY <1>5 DEF SemCountSet, Recount
  <2>4. Machine(Recount(k, o, c), pos, want, held, app)
    BY <2>1, <2>2, RecountMachine
  <2>5. QED
    BY <2>1, <2>3, <2>4
<1>6. QED
  BY <1>1, <1>2, <1>3, <1>4, <1>5

LEMMA TaskSteps ==
  ASSUME IInv, UNCHANGED app, NEW t,
         \/ \E i \in Place : TaskSleep(t, i)
         \/ TaskYield(t)
         \/ \E u \in Task :
              \/ TaskSuspend(t, u) \/ TaskResume(t, u)
              \/ TaskDel(t, u) \/ TaskCreate(t, u, InitPrio[u])
              \/ \E pri \in 1..(IdlePri - 1) : TaskPriChange(t, u, pri)
  PROVE  IInv'
<1> USE DEF ExitSched
<1> SUFFICES Machine(k', pos', want', held', app)
  BY DEF IInv
<1>1. ASSUME NEW i \in Place, TaskSleep(t, i) PROVE Machine(k', pos', want', held', app)
  <2>1. Running(t, "sleep") /\ k.sched_lock = 0 /\ UNCHANGED <<want, held>>
    BY <1>1 DEF TaskSleep
  <2>2. /\ t = k.active /\ pos[k.active] = "run" /\ k.active # Idle
        /\ Machine(k, pos, want, held, app)
    BY <2>1, Runner
  <2>3. /\ pos' = [pos EXCEPT ![k.active] = "pend"]
        /\ k' = ready_list_rm(tick_list_insert([k EXCEPT !.task_state[k.active] = "SLEEP"],
                                               k.active, i), k.active)
    BY <1>1, <2>2 DEF TaskSleep
  <2>4. i \in 1..Len(k.tick_list) + 1
    BY DEF Place
  <2>5. Machine(ready_list_rm(tick_list_insert([k EXCEPT !.task_state[k.active] = "SLEEP"],
                                               k.active, i), k.active),
                [pos EXCEPT ![k.active] = "pend"], want, held, app)
    BY <2>1, <2>2, <2>4, GoesToSleep
  <2>6. QED
    BY <2>1, <2>3, <2>5
<1>2. CASE TaskYield(t)
  <2> DEFINE r == ready_list_head_to_tail(k, k.active)
  <2>1. Running(t, "yield") /\ UNCHANGED <<want, held>>
    BY <1>2 DEF TaskYield
  <2>2. /\ t = k.active /\ pos[k.active] = "run" /\ k.active \in AllTask /\ k.active \in Ready(k)
        /\ Machine(k, pos, want, held, app) /\ Kernel(k, None, None) /\ Typed(k)
    BY <2>1, Runner
  <2>3. k' = r /\ pos' = [pos EXCEPT ![k.active] = "sched"]
    BY <1>2, <2>2 DEF TaskYield
  <2>4. k.ready[k.prio[k.active]] # <<>>
    <3>1. k.prio[k.active] \in Prio
      BY <2>2 DEF Typed
    <3>2. k.active \in ToSet(k.ready[k.prio[k.active]])
      BY <2>2, <3>1 DEF Kernel, Core, Queues, Rings
    <3>3. QED
      BY <3>2 DEF ToSet
  <2>5. Kernel(r, None, None) /\ Mild(r, k) /\ r.obj_type = k.obj_type
    BY <2>2, <2>4, TurnPassed
  <2> HIDE DEF r
  <2>6. Forgets(held, held, r)
    BY <2>2, <2>5, ForgetsNothing
  <2>7. Machine(r, [pos EXCEPT ![k.active] = "sched"], want, held, app)
    BY <2>2, <2>5, <2>6, MildExit
  <2>8. QED
    BY <2>1, <2>3, <2>7
<1>3. ASSUME NEW u \in Task, TaskSuspend(t, u) PROVE Machine(k', pos', want', held', app)
  <2>1. Running(t, "suspend") /\ CanSuspend(k, u) /\ UNCHANGED <<want, held>>
    BY <1>3 DEF TaskSuspend
  <2>2. t = k.active /\ pos[k.active] = "run" /\ Machine(k, pos, want, held, app)
    BY <2>1, Runner
  <2>3. k' = task_suspend(k, u) /\ pos' = [pos EXCEPT ![k.active] = "sched"]
    BY <1>3, <2>2 DEF TaskSuspend
  <2>4. Pauses(task_suspend(k, u), k, app)
    BY <2>1, <2>2, SuspendPauses DEF CanSuspend, MaxSuspend
  <2>5. Machine(task_suspend(k, u), [pos EXCEPT ![k.active] = "sched"], want, held, app)
    BY <2>2, <2>4, PausesMachine
  <2>6. QED
    BY <2>1, <2>3, <2>5
<1>4. ASSUME NEW u \in Task, TaskResume(t, u) PROVE Machine(k', pos', want', held', app)
  <2>1. Running(t, "suspend") /\ CanResume(k, u) /\ UNCHANGED <<want, held>>
    BY <1>4 DEF TaskResume
  <2>2. t = k.active /\ pos[k.active] = "run" /\ Machine(k, pos, want, held, app)
    BY <2>1, Runner
  <2>3. k' = task_resume(k, u) /\ pos' = [pos EXCEPT ![k.active] = "sched"]
    BY <1>4, <2>2 DEF TaskResume
  <2>4. Pauses(task_resume(k, u), k, app)
    BY <2>1, <2>2, ResumePauses DEF CanResume, Suspended
  <2>5. Machine(task_resume(k, u), [pos EXCEPT ![k.active] = "sched"], want, held, app)
    BY <2>2, <2>4, PausesMachine
  <2>6. QED
    BY <2>1, <2>3, <2>5
<1>5. ASSUME NEW u \in Task, TaskDel(t, u) PROVE Machine(k', pos', want', held', app)
  <2>1. /\ Running(t, "del") /\ (u = t => k.sched_lock = 0) /\ k.task_state[u] # "DELETED"
        /\ UNCHANGED want
    BY <1>5 DEF TaskDel
  <2>2. /\ t = k.active /\ pos[k.active] = "run" /\ "del" \in app.calls
        /\ Machine(k, pos, want, held, app)
    BY <2>1, Runner
  <2>3. /\ k' = Buried(task_mutex_free(k, u), u) /\ pos' = [pos EXCEPT ![k.active] = "sched"]
        /\ held' = [held EXCEPT ![u] = NoLocks]
    BY <1>5, <2>2 DEF TaskDel, Buried
  <2>4. u \in LiveIn(k) /\ u # Idle
    BY <2>1, CoreAssumption DEF LiveIn, AllTask
  <2>5. Machine(Buried(task_mutex_free(k, u), u), [pos EXCEPT ![k.active] = "sched"], want,
                [held EXCEPT ![u] = NoLocks], app)
    BY <2>1, <2>2, <2>4, DeletedMachine
  <2>6. QED
    BY <2>1, <2>3, <2>5
<1>6. ASSUME NEW u \in Task, TaskCreate(t, u, InitPrio[u])
      PROVE  Machine(k', pos', want', held', app)
  <2> DEFINE pri == app.prio[u]
  <2>1. Running(t, "create") /\ k.task_state[u] = "DELETED" /\ UNCHANGED held
    BY <1>6 DEF TaskCreate
  <2>2. t = k.active /\ pos[k.active] = "run" /\ Machine(k, pos, want, held, app)
    BY <2>1, Runner
  <2>3. /\ k' = ready_list_add_tail(Created(k, u, pri), u) /\ want' = [want EXCEPT ![u] = None]
        /\ pos' = [pos EXCEPT ![k.active] = "sched", ![u] = "run"]
    BY <1>6, <2>2 DEF TaskCreate, Created, InitPrio
  <2>4. u \in AllTask /\ u # Idle
    BY CoreAssumption DEF AllTask
  <2>5. pri \in Prio
    <3>1. app.prio \in [Task -> 1..(IdlePri - 1)]
      BY <2>2, KernelAssumption DEF Machine, MachineType
    <3>2. QED
      BY <3>1, CoreAssumption DEF Prio
  <2> HIDE DEF pri
  <2>6. Machine(ready_list_add_tail(Created(k, u, pri), u),
                [pos EXCEPT ![k.active] = "sched", ![u] = "run"], [want EXCEPT ![u] = None],
                held, app)
    BY <2>1, <2>2, <2>4, <2>5, CreatedMachine
  <2>7. QED
    BY <2>1, <2>3, <2>6
<1>7. ASSUME NEW u \in Task, NEW pri \in 1..(IdlePri - 1), TaskPriChange(t, u, pri)
      PROVE  Machine(k', pos', want', held', app)
  <2> DEFINE r == task_pri_change(Rebased(k, u, pri), u, mutex_pri_limit(k, u, pri))
  <2>1. Running(t, "prio") /\ k.task_state[u] # "DELETED" /\ UNCHANGED <<want, held>>
    BY <1>7 DEF TaskPriChange
  <2>2. /\ t = k.active /\ pos[k.active] = "run" /\ Machine(k, pos, want, held, app)
        /\ Kernel(k, None, None)
    BY <2>1, Runner
  <2>3. k' = r /\ pos' = [pos EXCEPT ![k.active] = "sched"]
    BY <1>7, <2>2 DEF TaskPriChange, Rebased
  <2>4. u \in LiveIn(k) /\ u # Idle /\ pri \in Prio
    BY <2>1, CoreAssumption DEF LiveIn, AllTask, Prio
  <2>5. Kernel(r, None, None) /\ Mild(r, k) /\ r.obj_type = k.obj_type
    BY <2>2, <2>4, PriorityChanged
  <2> HIDE DEF r
  <2>6. Forgets(held, held, r)
    BY <2>2, <2>5, ForgetsNothing
  <2>7. Machine(r, [pos EXCEPT ![k.active] = "sched"], want, held, app)
    BY <2>2, <2>5, <2>6, MildExit
  <2>8. QED
    BY <2>1, <2>3, <2>7
<1>8. QED
  BY <1>1, <1>2, <1>3, <1>4, <1>5, <1>6, <1>7

LEMMA SchedSteps ==
  ASSUME IInv, UNCHANGED app, NEW t, SchedDisable(t) \/ SchedEnable(t)
  PROVE  IInv'
<1> USE DEF Return, ExitSched
<1> SUFFICES Machine(k', pos', want', held', app)
  BY DEF IInv
<1>1. /\ t = k.active /\ pos[k.active] = "run" /\ Typed(k) /\ Machine(k, pos, want, held, app)
      /\ UNCHANGED <<want, held>>
  BY Runner DEF SchedDisable, SchedEnable
<1>2. k.sched_lock \in Nat /\ IsK(k)
  BY <1>1 DEF Typed
<1>3. CASE SchedDisable(t)
  <2> DEFINE n == k.sched_lock + 1
  <2>1. k' = Relocked(k, n) /\ UNCHANGED pos
    BY <1>3 DEF SchedDisable, Relocked
  <2>2. n \in Nat /\ n > 0
    BY <1>2
  <2> HIDE DEF n
  <2>3. Machine(Relocked(k, n), pos, want, held, app)
    BY <1>1, <2>2, RelockMachine
  <2>4. QED
    BY <1>1, <2>1, <2>3
<1>4. CASE SchedEnable(t)
  <2> DEFINE n == k.sched_lock - 1
             s1 == [k EXCEPT !.sched_lock = @ - 1]
  <2>1. s1 = Relocked(k, n) /\ s1.sched_lock = n /\ k.sched_lock > 0
    BY <1>2, <1>4 DEF SchedEnable, Relocked, IsK, Fields
  <2>2. IF s1.sched_lock > 0 THEN k' = s1 /\ UNCHANGED pos
        ELSE k' = s1 /\ pos' = [pos EXCEPT ![k.active] = "sched"]
    BY <1>1, <1>4 DEF SchedEnable
  <2>3. n \in Nat
    BY <1>2, <2>1
  <2> HIDE DEF n, s1
  <2>4. CASE n > 0
    <3>1. Machine(Relocked(k, n), pos, want, held, app)
      BY <1>1, <2>3, <2>4, RelockMachine
    <3>2. QED
      BY <1>1, <2>1, <2>2, <2>4, <3>1
  <2>5. CASE n = 0
    <3>1. Machine(Relocked(k, 0), [pos EXCEPT ![k.active] = "sched"], want, held, app)
      BY <1>1, UnlockSched
    <3>2. ~(s1.sched_lock > 0) /\ s1 = Relocked(k, 0)
      BY <2>1, <2>5
    <3>3. k' = Relocked(k, 0) /\ pos' = [pos EXCEPT ![k.active] = "sched"]
      BY <2>2, <3>2
    <3>4. QED
      BY <1>1, <3>1, <3>3
  <2>6. QED
    BY <2>3, <2>4, <2>5
<1>5. QED
  BY <1>3, <1>4

\* core_sched and pend_state_end_proc at the end of a call.
LEMMA EndSteps ==
  ASSUME IInv, UNCHANGED app, CoreSched \/ PendEnd
  PROVE  IInv'
<1>1. Machine(k, pos, want, held, app)
  BY DEF IInv
<1>2. CASE CoreSched
  <2>1. /\ pos[k.active] \in {"sched", "pend"} /\ k' = core_sched(k) /\ UNCHANGED <<want, held>>
        /\ pos' = [pos EXCEPT ![k.active] = IF @ = "pend" THEN "end" ELSE "run"]
    BY <1>2 DEF CoreSched
  <2>2. Machine(core_sched(k), [pos EXCEPT ![k.active] = IF @ = "pend" THEN "end" ELSE "run"],
                want, held, app)
    BY <1>1, <2>1, SchedulerRan
  <2>3. Machine(k', pos', want', held', app')
    BY <2>1, <2>2
  <2>4. QED
    BY <2>3 DEF IInv
<1>3. CASE PendEnd
  <2>1. /\ pos[k.active] = "end" /\ k' = k /\ pos' = [pos EXCEPT ![k.active] = "run"]
        /\ want' = [want EXCEPT ![k.active] = None]
        /\ held' = IF k.blk_state[k.active] = "FINISH" /\ IsMutex(k, want[k.active])
                     THEN [held EXCEPT ![k.active][want[k.active]] = 1] ELSE held
    BY <1>3 DEF PendEnd
  <2>2. Machine(k, [pos EXCEPT ![k.active] = "run"], [want EXCEPT ![k.active] = None],
                IF k.blk_state[k.active] = "FINISH" /\ IsMutex(k, want[k.active])
                  THEN [held EXCEPT ![k.active][want[k.active]] = 1] ELSE held, app)
    BY <1>1, <2>1, WaitOver
  <2>3. Machine(k', pos', want', held', app')
    BY <2>1, <2>2
  <2>4. QED
    BY <2>3 DEF IInv
<1>4. QED
  BY <1>2, <1>3

LEMMA IsrSteps ==
  ASSUME IInv, UNCHANGED app, Isr
  PROVE  IInv'
<1> USE DEF Interrupt
<1> SUFFICES Machine(k', pos', want', held', app)
  BY DEF IInv
<1>1. Machine(k, pos, want, held, app) /\ Kernel(k, None, None) /\ Typed(k)
  BY MachineFacts DEF IInv
<1>2. ASSUME NEW n \in 0..Len(k.tick_list), NEW slice \in BOOLEAN, Tick(n, slice)
      PROVE  Machine(k', pos', want', held', app)
  <2> DEFINE s1 == tick_list_update(k, n)
             s2 == time_slice_update(s1)
  <2>1. (k' = core_sched(s1) \/ k' = core_sched(s2)) /\ UNCHANGED <<pos, want, held>>
    BY <1>2 DEF Tick
  <2>2. Kernel(s1, None, None) /\ Mild(s1, k) /\ s1.obj_type = k.obj_type
    BY <1>1, TickUpdated
  <2> HIDE DEF s1
  <2>3. Kernel(s2, None, None) /\ Mild(s2, s1) /\ s2.obj_type = s1.obj_type
    BY <2>2, SliceUpdated
  <2> HIDE DEF s2
  <2>4. Mild(s2, k)
    BY <2>2, <2>3, MildTwice
  <2>5. Machine(core_sched(s1), pos, want, held, app)
    BY <1>1, <2>2, MildInterrupt
  <2>6. Machine(core_sched(s2), pos, want, held, app)
    BY <1>1, <2>2, <2>3, <2>4, MildInterrupt
  <2>7. QED
    BY <2>1, <2>5, <2>6
<1>3. ASSUME NEW o \in Sem, IsrSemGive(o) PROVE Machine(k', pos', want', held', app)
  <2> DEFINE all == FALSE
             r   == sem_give(k, o, all)
  <2>1. k' = core_sched(r) /\ UNCHANGED <<pos, want, held>> /\ CanGive(k, o)
    BY <1>3 DEF IsrSemGive
  <2>2. all \in BOOLEAN
    OBVIOUS
  <2> HIDE DEF all
  <2>3. IF k.blk_list[o] = <<>> THEN r = Recount(k, o, k.count[o] + 1)
        ELSE Kernel(r, None, None) /\ Mild(r, k) /\ r.obj_type = k.obj_type
    BY <1>1, <2>2, SemGiven
  <2> HIDE DEF r
  <2>4. CASE k.blk_list[o] = <<>>
    <3> DEFINE c == k.count[o] + 1
    <3>1. k.count[o] \in Nat /\ k.count[o] < MaxCount
      BY <1>1, <2>1, <2>4 DEF CanGive, Typed
    <3>2. c \in 0..MaxCount
      BY <3>1, KernelAssumption
    <3> HIDE DEF c
    <3>3. Machine(core_sched(Recount(k, o, c)), pos, want, held, app)
      BY <1>1, <2>4, <3>2, RecountMachine
    <3>4. QED
      BY <2>1, <2>3, <2>4, <3>3 DEF c
  <2>5. CASE k.blk_list[o] # <<>>
    <3>1. Machine(core_sched(r), pos, want, held, app)
      BY <1>1, <2>3, <2>5, MildInterrupt
    <3>2. QED
      BY <2>1, <3>1
  <2>6. QED
    BY <2>4, <2>5
<1>4. ASSUME NEW u \in Task, IsrSuspend(u) PROVE Machine(k', pos', want', held', app)
  <2>1. k' = core_sched(task_suspend(k, u)) /\ UNCHANGED <<pos, want, held>> /\ CanSuspend(k, u)
    BY <1>4 DEF IsrSuspend
  <2>2. Pauses(task_suspend(k, u), k, app)
    BY <1>1, <2>1, SuspendPauses DEF CanSuspend, MaxSuspend
  <2>3. Machine(core_sched(task_suspend(k, u)), pos, want, held, app)
    BY <1>1, <2>2, PausesMachine
  <2>4. QED
    BY <2>1, <2>3
<1>5. ASSUME NEW u \in Task, IsrResume(u) PROVE Machine(k', pos', want', held', app)
  <2>1. k' = core_sched(task_resume(k, u)) /\ UNCHANGED <<pos, want, held>> /\ CanResume(k, u)
    BY <1>5 DEF IsrResume
  <2>2. Pauses(task_resume(k, u), k, app)
    BY <1>1, <2>1, ResumePauses DEF CanResume, Suspended
  <2>3. Machine(core_sched(task_resume(k, u)), pos, want, held, app)
    BY <1>1, <2>2, PausesMachine
  <2>4. QED
    BY <2>1, <2>3
<1>6. QED
  BY <1>2, <1>3, <1>4, <1>5 DEF Isr

\* The invariant is inductive.
LEMMA NextKeeps ==
  ASSUME IInv, [Next]_vars
  PROVE  IInv'
<1>1. CASE UNCHANGED vars
  BY <1>1 DEF vars, IInv
<1>2. ASSUME Next, NEW t, TaskStep(t) PROVE IInv'
  <2>1. UNCHANGED app
    BY <1>2 DEF Next
  <2>2. ASSUME NEW m \in Mutex,
               \/ MutexLockNow(t, m) \/ MutexUnlock(t, m) \/ MutexDel(t, m)
               \/ \E i \in Timeout : MutexLockWait(t, m, i)
        PROVE  IInv'
    BY <2>1, <2>2, MutexSteps
  <2>3. ASSUME NEW o \in Sem,
               \/ \E all \in BOOLEAN : SemGive(t, o, all)
               \/ SemTakeNow(t, o) \/ SemDel(t, o)
               \/ \E i \in Timeout : SemTakeWait(t, o, i)
               \/ \E c \in 0..MaxCount : SemCountSet(t, o, c)
        PROVE  IInv'
    BY <2>1, <2>3, SemSteps
  <2>4. CASE \/ \E i \in Place : TaskSleep(t, i)
             \/ TaskYield(t)
             \/ \E u \in Task :
                  \/ TaskSuspend(t, u) \/ TaskResume(t, u)
                  \/ TaskDel(t, u) \/ TaskCreate(t, u, InitPrio[u])
                  \/ \E pri \in 1..(IdlePri - 1) : TaskPriChange(t, u, pri)
    BY <2>1, <2>4, TaskSteps
  <2>5. CASE SchedDisable(t) \/ SchedEnable(t)
    BY <2>1, <2>5, SchedSteps
  <2>6. QED
    BY <1>2, <2>2, <2>3, <2>4, <2>5 DEF TaskStep
<1>3. CASE Next /\ (CoreSched \/ PendEnd)
  BY <1>3, EndSteps DEF Next
<1>4. CASE Next /\ Isr
  BY <1>4, IsrSteps DEF Next
<1>5. QED
  BY <1>1, <1>2, <1>3, <1>4 DEF Next

-----------------------------------------------------------------------------
LEMMA ListOfSet ==
  ASSUME NEW A, NEW S, S \subseteq A, IsFiniteSet(S)
  PROVE  IsList(SetToSeq(S), A) /\ ToSet(SetToSeq(S)) = S
<1> DEFINE n == Cardinality(S)
           f == SetToSeq(S)
<1>1. n \in Nat /\ ExistsBijection(1..n, S)
  BY FS_CardinalityType
<1>2. \E g \in [1..n -> S] : IsInjective(g)
  BY <1>1 DEF ExistsBijection, Bijection, Injection
<1>3. f \in [1..n -> S] /\ IsInjective(f)
  BY <1>2 DEF SetToSeq
<1> HIDE DEF f
<1>4. f \in Injection(1..n, S)
  BY <1>3 DEF Injection
<1>5. Cardinality(1..n) = n
  BY <1>1, FS_Interval
<1>6. f \in Surjection(1..n, S)
  BY <1>4, <1>5, FS_Injection
<1>7. f \in Seq(A) /\ DOMAIN f = 1..n
  BY <1>1, <1>3
<1>8. ToSet(f) = S
  BY <1>3, <1>6, <1>7 DEF ToSet, Surjection
<1>9. QED
  BY <1>3, <1>7, <1>8 DEF IsList, f

\* The run queue of the initial state.
FirstReady(a) ==
  [p \in Prio |-> IF p = IdlePri THEN <<Idle>> ELSE SetToSeq({t \in Task : a.prio[t] = p})]
FirstPrio(a) == [t \in AllTask |-> IF t = Idle THEN IdlePri ELSE a.prio[t]]
FirstHigh(rd) == Min({p \in Prio : rd[p] # <<>>})

LEMMA FirstRings ==
  ASSUME NEW a \in Application, NEW rd, rd = FirstReady(a), NEW pr, pr = FirstPrio(a),
         NEW hi, hi = FirstHigh(rd)
  PROVE  /\ pr \in [AllTask -> Prio] /\ rd \in [Prio -> Seq(AllTask)]
         /\ \A p \in Prio : /\ IsList(rd[p], AllTask)
                            /\ \A t \in AllTask : t \in ToSet(rd[p]) <=> pr[t] = p
         /\ hi \in Prio /\ rd[hi] # <<>> /\ \A p \in Prio : rd[p] # <<>> => hi <= p
         /\ Head(rd[hi]) \in AllTask /\ pr[Head(rd[hi])] = hi
<1> USE DEF FirstReady, FirstPrio, FirstHigh
<1>1. a.prio \in [Task -> 1..(IdlePri - 1)] /\ IdlePri \in Nat \ {0} /\ Idle \notin Task
  BY KernelAssumption, CoreAssumption
<1>2. Prio \subseteq Nat /\ IdlePri \in Prio
  BY PrioFacts
<1>3. \A t \in Task : a.prio[t] \in Prio /\ a.prio[t] # IdlePri
  BY <1>1 DEF Prio
<1>4. pr \in [AllTask -> Prio]
  BY <1>2, <1>3 DEF AllTask
<1>5. ASSUME NEW p \in Prio
      PROVE  /\ IsList(rd[p], AllTask)
             /\ \A t \in AllTask : t \in ToSet(rd[p]) <=> pr[t] = p
  <2>1. CASE p = IdlePri
    <3>1. rd[p] = <<Idle>>
      BY <2>1
    <3>2. <<Idle>> \in Seq(AllTask) /\ IsInjective(<<Idle>>) /\ ToSet(<<Idle>>) = {Idle}
      BY DEF AllTask, IsInjective, ToSet
    <3>3. \A t \in AllTask : pr[t] = IdlePri <=> t = Idle
      BY <1>3 DEF AllTask
    <3>4. QED
      BY <2>1, <3>1, <3>2, <3>3 DEF IsList
  <2>2. CASE p # IdlePri
    <3> DEFINE S == {t \in Task : a.prio[t] = p}
    <3>1. rd[p] = SetToSeq(S)
      BY <2>2
    <3>2. IsFiniteSet(S) /\ S \subseteq AllTask
      BY FS_Subset, CoreAssumption DEF AllTask
    <3>3. \A t \in AllTask : pr[t] = p <=> t \in S
      BY <1>1, <2>2 DEF AllTask
    <3> HIDE DEF S
    <3>4. IsList(SetToSeq(S), AllTask) /\ ToSet(SetToSeq(S)) = S
      BY <3>2, ListOfSet
    <3>5. QED
      BY <3>1, <3>3, <3>4
  <2>3. QED
    BY <2>1, <2>2
<1>6. rd \in [Prio -> Seq(AllTask)]
  <2>1. rd = [p \in Prio |-> rd[p]]
    OBVIOUS
  <2>2. \A p \in Prio : rd[p] \in Seq(AllTask)
    BY <1>5 DEF IsList
  <2>3. QED
    BY <2>1, <2>2
<1>7. hi \in Prio /\ rd[hi] # <<>> /\ \A p \in Prio : rd[p] # <<>> => hi <= p
  <2> DEFINE T == {p \in Prio : rd[p] # <<>>}
  <2>1. rd[IdlePri] # <<>>
    BY <1>2
  <2>2. T \subseteq Nat /\ T # {} /\ hi = Min(T)
    BY <1>2, <2>1
  <2>3. hi \in T /\ \A p \in T : hi <= p
    <3> HIDE DEF T
    <3>1. QED
      BY <2>2, MinFacts
  <2>4. QED
    BY <2>3
<1>8. Head(rd[hi]) \in AllTask /\ pr[Head(rd[hi])] = hi
  <2> DEFINE l == rd[hi]
  <2>1. IsList(l, AllTask) /\ l # <<>> /\ l \in Seq(AllTask)
    BY <1>5, <1>7 DEF IsList
  <2> HIDE DEF l
  <2>2. Head(l) \in AllTask /\ Head(l) = l[1] /\ 1 \in 1..Len(l)
    BY <2>1
  <2>3. Head(l) \in ToSet(l)
    BY <2>1, <2>2, InList
  <2>4. QED
    BY <1>5, <1>7, <2>2, <2>3 DEF l
<1>9. QED
  BY <1>4, <1>5, <1>6, <1>7, <1>8

LEMMA InitHolds == Init => IInv
<1> SUFFICES ASSUME Init PROVE IInv
  OBVIOUS
<1> DEFINE rd == FirstReady(app)
           pr == FirstPrio(app)
           hi == FirstHigh(rd)
<1>1. /\ app \in Application
      /\ k = [task_state |-> [t \in AllTask |-> "RDY"], prio |-> pr, b_prio |-> pr,
              suspend_count |-> [t \in AllTask |-> 0],
              blk_obj |-> [t \in AllTask |-> None],
              blk_state |-> [t \in AllTask |-> "FINISH"],
              ready |-> rd, highest_pri |-> hi, tick_list |-> <<>>,
              blk_list |-> [o \in Object |-> <<>>],
              obj_type |-> Object,
              mutex_task |-> [m \in Mutex |-> None],
              owner_nested |-> [m \in Mutex |-> 0],
              mutex_list |-> [t \in AllTask |-> <<>>],
              count |-> [o \in Sem |-> 0],
              active |-> Head(rd[hi]), sched_lock |-> 0, err |-> FALSE]
      /\ pos = [t \in AllTask |-> "run"]
      /\ want = [t \in AllTask |-> None]
      /\ held = [t \in AllTask |-> NoLocks]
  BY DEF Init, InitPrio, FirstReady, FirstPrio, FirstHigh
<1>2. rd = FirstReady(app) /\ pr = FirstPrio(app) /\ hi = FirstHigh(rd)
  OBVIOUS
<1>3. app \in Application
  BY <1>1
<1> HIDE DEF rd, pr, hi
<1>4. /\ pr \in [AllTask -> Prio] /\ rd \in [Prio -> Seq(AllTask)]
      /\ \A p \in Prio : /\ IsList(rd[p], AllTask)
                         /\ \A t \in AllTask : t \in ToSet(rd[p]) <=> pr[t] = p
      /\ hi \in Prio /\ rd[hi] # <<>> /\ \A p \in Prio : rd[p] # <<>> => hi <= p
      /\ Head(rd[hi]) \in AllTask /\ pr[Head(rd[hi])] = hi
  BY <1>2, <1>3, FirstRings
<1>5. IsK(k)
  BY <1>1 DEF IsK, Fields
<1>6. /\ k.task_state = [t \in AllTask |-> "RDY"] /\ k.prio = pr /\ k.b_prio = pr
      /\ k.suspend_count = [t \in AllTask |-> 0] /\ k.blk_obj = [t \in AllTask |-> None]
      /\ k.blk_state = [t \in AllTask |-> "FINISH"]
      /\ k.ready = rd /\ k.highest_pri = hi /\ k.tick_list = <<>>
      /\ k.blk_list = [o \in Object |-> <<>>]
      /\ k.obj_type = Object
      /\ k.mutex_task = [m \in Mutex |-> None] /\ k.owner_nested = [m \in Mutex |-> 0]
      /\ k.mutex_list = [t \in AllTask |-> <<>>] /\ k.count = [o \in Sem |-> 0]
      /\ k.active = Head(rd[hi]) /\ k.sched_lock = 0 /\ k.err = FALSE
  BY <1>1
<1>7. Typed(k)
  BY <1>4, <1>5, <1>6 DEF Typed, TaskState
<1>8. Ready(k) = AllTask /\ LiveIn(k) = AllTask /\ Waiting(k) = {} /\ Sleeping(k) = {}
  BY <1>6 DEF Ready, LiveIn, Waiting, Sleeping, Pended
<1>9. \A S : IsList(<<>>, S) /\ ToSet(<<>>) = {} /\ \A w : SortedBy(<<>>, w)
  BY DEF IsList, IsInjective, ToSet, SortedBy
<1>10. Core(k)
  <2>1. Rings(k, Ready(k))
    BY <1>4, <1>6, <1>8 DEF Rings
  <2>2. Blocks(k, Waiting(k))
    BY <1>6, <1>8, <1>9 DEF Blocks
  <2>3. Ticks(k, Sleeping(k), Waiting(k))
    BY <1>6, <1>8, <1>9 DEF Ticks
  <2>4. Idle \in Ready(k)
    BY <1>8 DEF AllTask
  <2>5. QED
    BY <1>7, <1>8, <2>1, <2>2, <2>3, <2>4 DEF Core, Queues
<1>11. Owners(k, None) /\ Waits(k, None)
  <2>1. \A t \in AllTask : t # None
    BY CoreAssumption DEF AllTask
  <2>2. \A t \in AllTask : Holds(k, t)
    BY <1>6, <1>9, <2>1 DEF Holds
  <2>3. QED
    BY <1>6, <1>8, <2>2 DEF Owners, Waits
<1>12. Inherit(k, k.b_prio, None)
  <2>1. \A t \in AllTask : Lenders(k, t) = {}
    BY <1>8 DEF Lenders
  <2>2. \A t \in AllTask : pr[t] \in Nat
    BY <1>4, PrioFacts
  <2>3. QED
    BY <1>6, <1>8, <2>1, <2>2 DEF Inherit, Due
<1>13. Kernel(k, None, None)
  BY <1>10, <1>11, <1>12 DEF Kernel
<1>14. MachineType(pos, want, held, app)
  BY <1>1 DEF MachineType, NoLocks
<1>15. Runs(k, pos)
  BY <1>4, <1>6, <1>8 DEF Runs
<1>16. Counts(k, app)
  <2>1. app.suspend \in Nat /\ app.nest \in Nat /\ MaxCount \in Nat
    BY <1>1, KernelAssumption
  <2>2. QED
    BY <1>6, <2>1 DEF Counts, Suspended
<1>17. Wants(k, pos, want, held)
  <2> SUFFICES ASSUME NEW t \in AllTask PROVE Knows(k, pos, want, held, t)
    BY DEF Wants
  <2>1. want[t] = None /\ k.blk_obj[t] = None /\ \A m \in Mutex : held[t][m] = 0
    BY <1>1, <1>6 DEF NoLocks
  <2>2. QED
    BY <1>8, <2>1 DEF Knows
<1>18. Owned(k, want, held, app)
  <2> SUFFICES ASSUME NEW m \in Mutex, NEW t \in AllTask PROVE Has(k, want, held, app, t, m)
    BY <1>8 DEF Owned
  <2>1. want[t] = None /\ held[t][m] = 0 /\ k.mutex_task[m] = None /\ m # None /\ t # None
    BY <1>1, <1>6, CoreAssumption DEF NoLocks, AllTask
  <2>2. QED
    BY <2>1 DEF Has, Granted
<1>19. QED
  BY <1>13, <1>14, <1>15, <1>16, <1>17, <1>18 DEF IInv, Machine

\* The kernel and what its tasks know agree after every step.
THEOREM Invariant == Spec => []IInv
<1>1. Init => IInv
  BY InitHolds
<1>2. IInv /\ [Next]_vars => IInv'
  BY NextKeeps
<1>3. QED
  BY <1>1, <1>2, PTL DEF Spec

-----------------------------------------------------------------------------
(***************************************************************************)
(* What the invariant says about the properties of RhinoKernel.            *)
(***************************************************************************)
LEMMA IInvFacts ==
  ASSUME IInv
  PROVE  /\ Machine(k, pos, want, held, app) /\ Kernel(k, None, None) /\ Typed(k) /\ Core(k)
         /\ Counts(k, app) /\ MachineType(pos, want, held, app) /\ app.nest \in Nat
         /\ app.suspend \in Nat /\ Live = LiveIn(k)
<1>1. Machine(k, pos, want, held, app)
  BY DEF IInv
<1>2. QED
  BY <1>1, MachineFacts DEF Machine, Kernel, Live, LiveIn

LEMMA TypesHold == IInv => TypeOK /\ NoKernelError
<1> SUFFICES ASSUME IInv PROVE TypeOK /\ NoKernelError
  OBVIOUS
<1>1. /\ Machine(k, pos, want, held, app) /\ Typed(k) /\ Counts(k, app)
      /\ MachineType(pos, want, held, app) /\ app.nest \in Nat /\ app.suspend \in Nat
  BY IInvFacts
<1>2. k.suspend_count \in [AllTask -> 0..MaxSuspend]
  <2>1. k.suspend_count \in [AllTask -> Nat] /\ \A t \in AllTask : k.suspend_count[t] <= app.suspend
    BY <1>1 DEF Typed, Counts
  <2>2. QED
    BY <1>1, <2>1 DEF MaxSuspend
<1>3. k.owner_nested \in [Mutex -> 0..MaxNest]
  <2>1. k.owner_nested \in [Mutex -> Nat] /\ \A m \in Mutex : k.owner_nested[m] <= app.nest
    BY <1>1 DEF Typed, Counts
  <2>2. QED
    BY <1>1, <2>1 DEF MaxNest
<1>4. k.count \in [Sem -> 0..MaxCount]
  <2>1. k.count \in [Sem -> Nat] /\ \A o \in Sem : k.count[o] <= MaxCount
    BY <1>1 DEF Typed, Counts
  <2>2. QED
    BY <2>1, KernelAssumption
<1>5. held \in [AllTask -> [Mutex -> 0..MaxNest]]
  <2>1. held \in [AllTask -> [Mutex -> Nat]] /\ k.owner_nested \in [Mutex -> Nat]
    BY <1>1 DEF MachineType, Typed
  <2>2. ASSUME NEW t \in AllTask, NEW m \in Mutex PROVE held[t][m] <= app.nest
    <3>1. held[t][m] \in Nat /\ k.owner_nested[m] \in Nat /\ k.owner_nested[m] <= app.nest
      BY <1>1, <2>1 DEF Counts
    <3>2. CASE t \in LiveIn(k) /\ m \in k.obj_type
      <4>1. Has(k, want, held, app, t, m)
        BY <1>1, <3>2 DEF Machine, Owned
      <4>2. held[t][m] <= k.owner_nested[m]
        BY <3>1, <4>1 DEF Has
      <4>3. QED
        BY <1>1, <3>1, <4>2
    <3>3. CASE ~(t \in LiveIn(k) /\ m \in k.obj_type)
      <4>1. held[t][m] = 0
        BY <1>1, <3>3 DEF Machine, Wants, Knows
      <4>2. QED
        BY <1>1, <4>1
    <3>4. QED
      BY <3>2, <3>3
  <2>3. \A t \in AllTask : held[t] \in [Mutex -> 0..app.nest]
    <3> SUFFICES ASSUME NEW t \in AllTask PROVE held[t] \in [Mutex -> 0..app.nest]
      OBVIOUS
    <3>1. held[t] \in [Mutex -> Nat] /\ \A m \in Mutex : held[t][m] <= app.nest
      BY <2>1, <2>2
    <3>2. QED
      BY <1>1, <3>1
  <2>4. QED
    BY <2>1, <2>3 DEF MaxNest
<1>6. QED
  BY <1>1, <1>2, <1>3, <1>4, <1>5 DEF TypeOK, NoKernelError, Typed, TaskState, MachineType

\* How often an element is on a list.
Times(s, t) == Cardinality({i \in DOMAIN s : s[i] = t})

LEMMA TimesOnList ==
  ASSUME NEW S, NEW s, IsList(s, S), NEW t
  PROVE  /\ Times(s, t) = IF t \in ToSet(s) THEN 1 ELSE 0
         /\ Contains(s, t) <=> t \in ToSet(s)
<1> DEFINE I == {i \in DOMAIN s : s[i] = t}
<1>1. /\ DOMAIN s = 1..Len(s) /\ \A i \in 1..Len(s) : s[i] \in ToSet(s)
      /\ \A x \in ToSet(s) : \E i \in 1..Len(s) : s[i] = x
  BY InList DEF IsList
<1>2. CASE t \in ToSet(s)
  <2>1. PICK i \in DOMAIN s : s[i] = t
    BY <1>1, <1>2
  <2>2. I = {i}
    BY <2>1 DEF IsList, IsInjective
  <2>3. Cardinality(I) = 1
    BY <2>2, FS_Singleton
  <2>4. QED
    BY <1>1, <1>2, <2>3 DEF Contains, Times
<1>3. CASE t \notin ToSet(s)
  <2>1. I = {}
    BY <1>1, <1>3
  <2>2. Cardinality(I) = 0
    BY <2>1, FS_EmptySet
  <2>3. QED
    BY <1>1, <1>3, <2>2 DEF Contains, Times
<1>4. QED
  BY <1>2, <1>3

LEMMA ListsHold == IInv => ListsConsistent
<1> SUFFICES ASSUME IInv PROVE ListsConsistent
  OBVIOUS
<1>1. Core(k) /\ Typed(k)
  BY IInvFacts
<1>2. /\ Rings(k, Ready(k)) /\ Blocks(k, Waiting(k)) /\ Ticks(k, Sleeping(k), Waiting(k))
  BY <1>1 DEF Core, Queues
<1>3. ASSUME NEW t \in AllTask, NEW p \in Prio
      PROVE  Cardinality({i \in DOMAIN k.ready[p] : k.ready[p][i] = t}) =
               IF k.task_state[t] = "RDY" /\ p = k.prio[t] THEN 1 ELSE 0
  <2> DEFINE l == k.ready[p]
  <2>1. /\ IsList(l, AllTask)
        /\ t \in ToSet(l) <=> k.task_state[t] = "RDY" /\ p = k.prio[t]
    BY <1>2 DEF Rings, Ready
  <2> HIDE DEF l
  <2>2. Times(l, t) = IF t \in ToSet(l) THEN 1 ELSE 0
    BY <2>1, TimesOnList
  <2>3. QED
    BY <2>1, <2>2 DEF l, Times
<1>4. ASSUME NEW t \in AllTask, NEW o \in Object
      PROVE  Cardinality({i \in DOMAIN k.blk_list[o] : k.blk_list[o][i] = t}) =
               IF k.task_state[t] \in Pended /\ o = k.blk_obj[t] THEN 1 ELSE 0
  <2> DEFINE l == k.blk_list[o]
  <2>1. /\ IsList(l, AllTask)
        /\ t \in ToSet(l) <=> k.task_state[t] \in Pended /\ o = k.blk_obj[t]
    BY <1>2 DEF Blocks, Waiting
  <2> HIDE DEF l
  <2>2. Times(l, t) = IF t \in ToSet(l) THEN 1 ELSE 0
    BY <2>1, TimesOnList
  <2>3. QED
    BY <2>1, <2>2 DEF l, Times
<1>5. ASSUME NEW t \in AllTask
      PROVE  /\ k.task_state[t] \in {"SLEEP", "SLEEP_SUSPENDED"} => Contains(k.tick_list, t)
             /\ Contains(k.tick_list, t)
                  => k.task_state[t] \in Pended \cup {"SLEEP", "SLEEP_SUSPENDED"}
             /\ Cardinality({i \in DOMAIN k.tick_list : k.tick_list[i] = t}) <= 1
  <2> DEFINE l == k.tick_list
  <2>1. /\ IsList(l, AllTask)
        /\ k.task_state[t] \in {"SLEEP", "SLEEP_SUSPENDED"} => t \in ToSet(l)
        /\ t \in ToSet(l) => k.task_state[t] \in Pended \cup {"SLEEP", "SLEEP_SUSPENDED"}
    BY <1>2 DEF Ticks, Sleeping, Waiting
  <2> HIDE DEF l
  <2>2. Times(l, t) = IF t \in ToSet(l) THEN 1 ELSE 0
    BY <2>1, TimesOnList
  <2>3. Contains(l, t) <=> t \in ToSet(l)
    BY <2>1, TimesOnList
  <2>4. Times(l, t) <= 1
    BY <2>2
  <2>5. QED
    BY <2>1, <2>3, <2>4 DEF l, Times
<1>6. k.highest_pri = Min({p \in Prio : k.ready[p] # <<>>})
  <2> DEFINE T == {p \in Prio : k.ready[p] # <<>>}
             h == k.highest_pri
  <2>1. T \subseteq Nat /\ h \in T /\ \A p \in T : h <= p
    BY <1>1, <1>2, PrioFacts DEF Rings, Typed
  <2> HIDE DEF T, h
  <2>2. Min(T) = h
    BY <2>1, MinIs
  <2>3. QED
    BY <2>2 DEF T, h
<1>7. QED
  BY <1>3, <1>4, <1>5, <1>6 DEF ListsConsistent

LEMMA SortedHolds == IInv => WaitListsSorted
<1> SUFFICES ASSUME IInv, NEW o \in Object
             PROVE  IsSorted([i \in DOMAIN k.blk_list[o] |-> k.prio[k.blk_list[o][i]]], <=)
  BY Zenon DEF WaitListsSorted
<1> DEFINE l == k.blk_list[o]
           s == [i \in DOMAIN l |-> k.prio[l[i]]]
<1>1. IsList(l, AllTask) /\ SortedBy(l, k.prio)
  BY IInvFacts DEF Core, Queues, Blocks
<1> HIDE DEF l
<1>2. DOMAIN l = 1..Len(l) /\ Len(l) \in Nat
  BY <1>1, InList DEF IsList
<1>3. Len(s) = Len(l) /\ \A i \in 1..Len(l) : s[i] = k.prio[l[i]]
  BY <1>2
<1> HIDE DEF s
<1>4. IsSorted(s, <=)
  BY <1>1, <1>3 DEF IsSorted, SortedBy
<1>5. QED
  BY <1>4, Zenon DEF s, l

LEMMA InheritedHolds == IInv => PriorityInherited
<1> SUFFICES ASSUME IInv, NEW t \in Live
             PROVE  k.prio[t] =
                      Min({k.b_prio[t]} \cup
                          {k.prio[u] : u \in {v \in Live :
                             /\ k.task_state[v] \in Pended
                             /\ k.blk_obj[v] \in Mutex
                             /\ k.mutex_task[k.blk_obj[v]] = t}})
  BY DEF PriorityInherited
<1> DEFINE U == {v \in Live : /\ k.task_state[v] \in Pended
                              /\ k.blk_obj[v] \in Mutex
                              /\ k.mutex_task[k.blk_obj[v]] = t}
           A == {k.b_prio[t]} \cup {k.prio[u] : u \in U}
           p == k.prio[t]
<1>1. Kernel(k, None, None) /\ Typed(k) /\ Live = LiveIn(k)
  BY IInvFacts
<1>2. t # None /\ t \in AllTask /\ t \in LiveIn(k)
  BY <1>1, CoreAssumption DEF LiveIn, AllTask
<1>3. U = Lenders(k, t)
  <2>1. \A v \in Waiting(k) : k.blk_obj[v] \in k.obj_type \/ k.blk_obj[v] = None
    BY <1>1 DEF Kernel, Waits
  <2>2. None \notin Mutex
    BY CoreAssumption
  <2>3. QED
    BY <1>1, <2>1, <2>2 DEF Lenders, Waiting, LiveIn, IsMutex, Pended
<1>4. Due(k, k.b_prio, t, p)
  BY <1>1, <1>2 DEF Kernel, Inherit
<1>5. k.prio \in [AllTask -> Prio] /\ k.b_prio \in [AllTask -> Prio] /\ Prio \subseteq Nat
  BY <1>1, PrioFacts DEF Typed
<1>6. U \subseteq AllTask
  BY DEF Live
<1> HIDE DEF U
<1>7. A \subseteq Nat
  BY <1>2, <1>5, <1>6
<1>8. p \in A /\ \A a \in A : p <= a
  BY <1>3, <1>4 DEF Due
<1> HIDE DEF A, p
<1>9. Min(A) = p
  BY <1>7, <1>8, MinIs
<1>10. QED
  BY <1>9 DEF A, U, p

LEMMA CauseHolds == IInv => WaitersHaveCause
<1> SUFFICES ASSUME IInv, NEW o \in Object, k.blk_list[o] # <<>>
             PROVE  /\ o \in k.obj_type
                    /\ o \in Mutex => k.mutex_task[o] \in Live
                    /\ o \in Sem => k.count[o] = 0
  BY DEF WaitersHaveCause
<1> DEFINE u == Head(k.blk_list[o])
<1>1. Kernel(k, None, None) /\ Core(k) /\ Live = LiveIn(k)
  BY IInvFacts
<1>2. u \in Waiting(k) /\ k.blk_obj[u] = o
  BY <1>1, FirstWaiter
<1>3. o # None
  BY CoreAssumption DEF Object
<1> HIDE DEF u
<1>4. /\ o \in k.obj_type /\ (o \in Mutex => k.mutex_task[o] # None)
      /\ o \in Sem => k.count[o] = 0
  BY <1>1, <1>2, <1>3 DEF Kernel, Waits
<1>5. o \in Mutex => k.mutex_task[o] \in LiveIn(k)
  BY <1>1, <1>4 DEF Kernel, Owners
<1>6. QED
  BY <1>1, <1>4, <1>5

LEMMA HighestHolds == IInv => HighestRuns
<1> SUFFICES ASSUME IInv, pos[k.active] = "run", k.sched_lock = 0
             PROVE  /\ k.task_state[k.active] = "RDY"
                    /\ \A t \in AllTask : k.task_state[t] = "RDY" => k.prio[k.active] <= k.prio[t]
  BY DEF HighestRuns
<1>1. Machine(k, pos, want, held, app) /\ Core(k) /\ Typed(k)
  BY IInvFacts
<1>2. k.active \in Ready(k) /\ k.prio[k.active] = k.highest_pri
  BY <1>1 DEF Machine, Runs
<1>3. ASSUME NEW t \in AllTask, k.task_state[t] = "RDY" PROVE k.highest_pri <= k.prio[t]
  <2> DEFINE p == k.prio[t]
             l == k.ready[p]
  <2>1. p \in Prio
    BY <1>1 DEF Typed
  <2>2. t \in ToSet(l) /\ (l # <<>> => k.highest_pri <= p) /\ IsList(l, AllTask)
    BY <1>1, <1>3, <2>1 DEF Core, Queues, Rings, Ready
  <2> HIDE DEF l
  <2>3. l # <<>>
    BY <2>2, InList DEF IsList
  <2>4. QED
    BY <2>2, <2>3
<1>4. QED
  BY <1>2, <1>3 DEF Ready

LEMMA OwnershipHolds ==
  ASSUME IInv, \A a \in Application : OneLock(a) PROVE OwnershipSound
<1> SUFFICES ASSUME NEW m \in Mutex, m \in k.obj_type, NEW t \in Live
             PROVE  IF k.mutex_task[m] = t
                      THEN k.owner_nested[m] =
                             held[t][m] + (IF Granted(k, want, t, m) THEN 1 ELSE 0)
                      ELSE held[t][m] = 0 /\ ~Granted(k, want, t, m)
  BY DEF OwnershipSound, Granted
<1>1. Machine(k, pos, want, held, app) /\ Live = LiveIn(k) /\ MachineType(pos, want, held, app)
  BY IInvFacts
<1>2. Has(k, want, held, app, t, m) /\ OneLock(app) /\ held[t][m] \in Nat
  BY <1>1 DEF Machine, Owned, MachineType, LiveIn
<1>3. QED
  BY <1>2 DEF Has

-----------------------------------------------------------------------------
\* The owners of the mutexes change only as krhino_mutex_lock, krhino_mutex_unlock
\* and krhino_task_del say.
FirstInLine(s, t, m) == \A u \in Waiting(s) : s.blk_obj[u] = m => s.prio[t] <= s.prio[u]

Passes(r, s) ==
  \A m \in Mutex : \/ s.mutex_task[m] = None \/ r.mutex_task[m] \in {None, s.mutex_task[m]}
                   \/ FirstInLine(s, r.mutex_task[m], m)

LEMMA PassesCalm ==
  ASSUME NEW s, NEW r, Calm(r, s) PROVE Passes(r, s)
BY DEF Calm, Passes

LEMMA PassesHands ==
  ASSUME NEW s, NEW x, NEW M, NEW q, Hands(q, s, x, M), NEW r, r.mutex_task = q.mutex_task
  PROVE  Passes(r, s)
<1> SUFFICES ASSUME NEW m \in Mutex
             PROVE  \/ s.mutex_task[m] = None \/ r.mutex_task[m] \in {None, s.mutex_task[m]}
                    \/ FirstInLine(s, r.mutex_task[m], m)
  BY DEF Passes
<1>1. CASE m \in M
  <2>1. q.mutex_task[m] = None \/ Takes(q, s, q.mutex_task[m], m)
    BY <1>1 DEF Hands
  <2>2. Takes(q, s, q.mutex_task[m], m) => FirstInLine(s, q.mutex_task[m], m)
    BY DEF Takes, FirstInLine
  <2>3. QED
    BY <2>1, <2>2
<1>2. CASE m \notin M
  BY <1>2 DEF Hands
<1>3. QED
  BY <1>1, <1>2

LEMMA PassesSched ==
  ASSUME NEW s, NEW r, Kernel(r, None, None), Passes(r, s) PROVE Passes(core_sched(r), s)
<1>1. core_sched(r).mutex_task = r.mutex_task
  BY Scheduled DEF Keeps, Fields
<1>2. QED
  BY <1>1 DEF Passes

LEMMA MutexPasses ==
  ASSUME IInv, NEW t, NEW m \in Mutex,
         \/ MutexLockNow(t, m) \/ MutexUnlock(t, m) \/ MutexDel(t, m)
         \/ \E i \in Timeout : MutexLockWait(t, m, i)
  PROVE  Passes(k', k)
<1> USE DEF Return, ExitSched, IsMutex
<1>0. Typed(k) /\ Kernel(k, None, None)
  BY IInvFacts
<1>1. CASE MutexLockNow(t, m)
  <2>1. \/ k' = [k EXCEPT !.owner_nested[m] = @ + 1]
        \/ /\ k' = [k EXCEPT !.mutex_task[m] = t, !.owner_nested[m] = 1,
                             !.mutex_list[t] = Cons(m, @)]
           /\ k.mutex_task[m] = None
    BY <1>1, CoreAssumption DEF MutexLockNow, Running
  <2>2. CASE k' = [k EXCEPT !.owner_nested[m] = @ + 1]
    <3>1. k'.mutex_task = k.mutex_task
      BY <1>0, <2>2 DEF Typed, IsK, Fields
    <3>2. QED
      BY <3>1 DEF Passes
  <2>3. CASE /\ k' = [k EXCEPT !.mutex_task[m] = t, !.owner_nested[m] = 1,
                               !.mutex_list[t] = Cons(m, @)]
             /\ k.mutex_task[m] = None
    <3>1. k'.mutex_task = [k.mutex_task EXCEPT ![m] = t]
      BY <1>0, <2>3 DEF Typed, IsK, Fields
    <3>2. k.mutex_task \in [Mutex -> AllTask \cup {None}]
      BY <1>0 DEF Typed
    <3>3. QED
      BY <2>3, <3>1, <3>2 DEF Passes
  <2>4. QED
    BY <2>1, <2>2, <2>3
<1>2. CASE MutexUnlock(t, m)
  <2> DEFINE s1 == [k EXCEPT !.owner_nested[m] = @ - 1]
             s2 == mutex_release(s1, t, m)
             s3 == [HandOver(s2, m) EXCEPT !.owner_nested[m] =
                      IF s2.blk_list[m] = <<>> THEN 0 ELSE 1]
  <2>1. Running(t, "mutex") /\ m \in k.obj_type /\ k.mutex_task[m] = t
    BY <1>2 DEF MutexUnlock, UnlockTo
  <2>2. t \in Ready(k) /\ t # Idle /\ Counts(k, app) /\ t # None
    BY <2>1, Runner DEF Machine
  <2>3. IF s1.owner_nested[m] > 0 THEN k' = s1
        ELSE IF s2.blk_list[m] = <<>> THEN k' = s3
        ELSE k' = s3
    BY <1>2 DEF MutexUnlock, UnlockTo
  <2>4. k.owner_nested[m] \in Nat /\ k.owner_nested[m] > 0
    BY <1>0, <2>1, <2>2 DEF Typed, Counts
  <2>5. /\ s1.owner_nested[m] = k.owner_nested[m] - 1 /\ s1 = Renested(k, m, k.owner_nested[m] - 1)
        /\ s1.mutex_task = k.mutex_task
    BY <1>0 DEF Typed, IsK, Fields, Renested
  <2>6. s3 = Renested(HandOver(s2, m), m, IF s2.blk_list[m] = <<>> THEN 0 ELSE 1)
    BY DEF Renested
  <2>7. s2 = mutex_release(s1, t, m)
    OBVIOUS
  <2> HIDE DEF s1, s2, s3
  <2>8. CASE k' = s1
    BY <2>5, <2>8 DEF Passes
  <2>9. CASE k' = s3 /\ ~(s1.owner_nested[m] > 0)
    <3> DEFINE n == IF k.blk_list[m] = <<>> THEN 0 ELSE 1
    <3>1. k.owner_nested[m] = 1
      BY <2>4, <2>5, <2>9
    <3>2. s3 = Renested(GivenUp(k, t, m), m, n)
      BY <1>0, <2>1, <2>2, <2>5, <2>6, <2>7, <3>1, UnlockToIs
    <3>3. n \in Nat
      OBVIOUS
    <3> HIDE DEF n
    <3>4. IF k.blk_list[m] = <<>> THEN UnlocksFree(s3, k, m, n) ELSE UnlocksTo(s3, k, t, m, n)
      BY <1>0, <2>1, <2>2, <3>2, <3>3, LastUnlocked
    <3>5. CASE k.blk_list[m] = <<>>
      <4>1. s3.mutex_task = [k.mutex_task EXCEPT ![m] = None]
        BY <3>4, <3>5 DEF UnlocksFree
      <4>2. QED
        BY <1>0, <2>9, <4>1 DEF Passes, Typed
    <3>6. CASE k.blk_list[m] # <<>>
      <4>1. Hands(s3, k, t, {m})
        BY <3>4, <3>6 DEF UnlocksTo
      <4>2. QED
        BY <2>9, <4>1, PassesHands
    <3>7. QED
      BY <3>5, <3>6
  <2>10. QED
    BY <2>3, <2>8, <2>9
<1>3. CASE MutexDel(t, m)
  <2>1. k' = PendAllRm(MutexGone(k, m), m) /\ m \in k.obj_type
    BY <1>3 DEF MutexDel, MutexGone, Deleted
  <2>2. Mild(PendAllRm(MutexGone(k, m), m), k)
    BY <1>0, <2>1, MutexDeleted
  <2>3. QED
    BY <2>1, <2>2, PassesCalm DEF Mild
<1>4. ASSUME NEW i \in Timeout, MutexLockWait(t, m, i) PROVE Passes(k', k)
  <2> DEFINE r == pend_to_blk_obj(Lent(k, t, k.mutex_task[m]), m, t, i)
  <2>1. Running(t, "mutex") /\ m \in k.obj_type /\ k.mutex_task[m] \notin {t, None} /\ k' = r
    BY <1>4 DEF MutexLockWait, Lent
  <2>2. t \in Ready(k) \ {Idle}
    BY <2>1, Runner
  <2>3. i \in 0..Len(k.tick_list) + 1
    BY <1>0, TimeoutRange
  <2>4. Begins(r, k, t, m)
    BY <1>0, <2>1, <2>2, <2>3, MutexWaited
  <2>5. r.mutex_task = k.mutex_task
    BY <2>4 DEF Begins, Keeps, Fields, WaitFields
  <2>6. QED
    BY <2>1, <2>5 DEF Passes
<1>5. QED
  BY <1>1, <1>2, <1>3, <1>4

LEMMA SemPasses ==
  ASSUME IInv, NEW t, NEW o \in Sem,
         \/ \E all \in BOOLEAN : SemGive(t, o, all)
         \/ SemTakeNow(t, o) \/ SemDel(t, o)
         \/ \E i \in Timeout : SemTakeWait(t, o, i)
         \/ \E c \in 0..MaxCount : SemCountSet(t, o, c)
  PROVE  Passes(k', k)
<1> USE DEF Return, ExitSched
<1>0. Typed(k) /\ Kernel(k, None, None)
  BY IInvFacts
<1>1. ASSUME NEW c, k' = Recount(k, o, c) PROVE Passes(k', k)
  BY <1>0, <1>1 DEF Recount, Passes, Typed, IsK, Fields
<1>2. ASSUME NEW all \in BOOLEAN, SemGive(t, o, all) PROVE Passes(k', k)
  <2> DEFINE r == sem_give(k, o, all)
  <2>1. k' = r
    BY <1>2 DEF SemGive
  <2>2. IF k.blk_list[o] = <<>> THEN r = Recount(k, o, k.count[o] + 1)
        ELSE Kernel(r, None, None) /\ Mild(r, k) /\ r.obj_type = k.obj_type
    BY <1>0, SemGiven
  <2> HIDE DEF r
  <2>3. QED
    BY <1>1, <2>1, <2>2, PassesCalm DEF Mild
<1>3. CASE SemTakeNow(t, o)
  BY <1>1, <1>3 DEF SemTakeNow, Recount
<1>4. CASE SemDel(t, o)
  <2>1. k' = PendAllRm(Deleted(k, o), o)
    BY <1>4 DEF SemDel, Deleted
  <2>2. Mild(PendAllRm(Deleted(k, o), o), k)
    BY <1>0, SemDeleted
  <2>3. QED
    BY <2>1, <2>2, PassesCalm DEF Mild
<1>5. ASSUME NEW i \in Timeout, SemTakeWait(t, o, i) PROVE Passes(k', k)
  <2> DEFINE r == pend_to_blk_obj(k, o, t, i)
  <2>1. Running(t, "sem") /\ o \in k.obj_type /\ k.count[o] = 0 /\ k' = r
    BY <1>5 DEF SemTakeWait
  <2>2. t \in Ready(k) \ {Idle}
    BY <2>1, Runner
  <2>3. i \in 0..Len(k.tick_list) + 1
    BY <1>0, TimeoutRange
  <2>4. Begins(r, k, t, o)
    BY <1>0, <2>1, <2>2, <2>3, SemWaited
  <2>5. r.mutex_task = k.mutex_task
    BY <2>4 DEF Begins, Keeps, Fields, WaitFields
  <2>6. QED
    BY <2>1, <2>5 DEF Passes
<1>6. ASSUME NEW c \in 0..MaxCount, SemCountSet(t, o, c) PROVE Passes(k', k)
  BY <1>1, <1>6 DEF SemCountSet, Recount
<1>7. QED
  BY <1>2, <1>3, <1>4, <1>5, <1>6

LEMMA TaskPasses ==
  ASSUME IInv, NEW t,
         \/ \E i \in Place : TaskSleep(t, i)
         \/ TaskYield(t)
         \/ \E u \in Task :
              \/ TaskSuspend(t, u) \/ TaskResume(t, u)
              \/ TaskDel(t, u) \/ TaskCreate(t, u, InitPrio[u])
              \/ \E pri \in 1..(IdlePri - 1) : TaskPriChange(t, u, pri)
  PROVE  Passes(k', k)
<1> USE DEF ExitSched
<1>0. Typed(k) /\ Kernel(k, None, None) /\ Machine(k, pos, want, held, app)
  BY IInvFacts
<1>1. ASSUME NEW i \in Place, TaskSleep(t, i) PROVE Passes(k', k)
  <2> DEFINE r == ready_list_rm(tick_list_insert([k EXCEPT !.task_state[t] = "SLEEP"], t, i), t)
  <2>1. Running(t, "sleep") /\ k' = r
    BY <1>1 DEF TaskSleep
  <2>2. t \in Ready(k) /\ t # Idle
    BY <2>1, Runner
  <2>3. i \in 1..Len(k.tick_list) + 1
    BY DEF Place
  <2>4. Keeps(r, k, {"ready", "highest_pri", "task_state", "tick_list"})
    BY <1>0, <2>2, <2>3, SleepStarted
  <2> HIDE DEF r
  <2>5. QED
    BY <2>1, <2>4 DEF Keeps, Fields, Passes
<1>2. CASE TaskYield(t)
  <2>1. k' = [k EXCEPT !.ready[k.prio[t]] = Append(Tail(@), Head(@))]
    BY <1>2 DEF TaskYield, ready_list_head_to_tail
  <2>2. QED
    BY <1>0, <2>1 DEF Passes, Typed, IsK, Fields
<1>3. ASSUME NEW u \in Task, TaskSuspend(t, u) PROVE Passes(k', k)
  <2>1. k' = task_suspend(k, u) /\ CanSuspend(k, u)
    BY <1>3 DEF TaskSuspend
  <2>2. Pauses(task_suspend(k, u), k, app)
    BY <1>0, <2>1, SuspendPauses DEF CanSuspend, MaxSuspend
  <2>3. QED
    BY <2>1, <2>2, PassesCalm DEF Pauses
<1>4. ASSUME NEW u \in Task, TaskResume(t, u) PROVE Passes(k', k)
  <2>1. k' = task_resume(k, u) /\ CanResume(k, u)
    BY <1>4 DEF TaskResume
  <2>2. Pauses(task_resume(k, u), k, app)
    BY <1>0, <2>1, ResumePauses DEF CanResume, Suspended
  <2>3. QED
    BY <2>1, <2>2, PassesCalm DEF Pauses
<1>5. ASSUME NEW u \in Task, TaskDel(t, u) PROVE Passes(k', k)
  <2> DEFINE r == Buried(task_mutex_free(k, u), u)
  <2>1. k' = r /\ k.task_state[u] # "DELETED"
    BY <1>5 DEF TaskDel, Buried
  <2>2. u \in LiveIn(k) /\ u # Idle
    BY <2>1, CoreAssumption DEF LiveIn, AllTask
  <2>3. \E q : Hands(q, k, u, ToSet(k.mutex_list[u])) /\ q.mutex_task = r.mutex_task
    BY <1>0, <2>2, TaskDeleted
  <2> HIDE DEF r
  <2>4. QED
    BY <2>1, <2>3, PassesHands
<1>6. ASSUME NEW u \in Task, TaskCreate(t, u, InitPrio[u]) PROVE Passes(k', k)
  <2> DEFINE pri == app.prio[u]
             r   == ready_list_add_tail(Created(k, u, pri), u)
  <2>1. k' = r /\ k.task_state[u] = "DELETED"
    BY <1>6 DEF TaskCreate, Created, InitPrio
  <2>2. u \in AllTask /\ u # Idle
    BY CoreAssumption DEF AllTask
  <2>3. pri \in Prio
    <3>1. app.prio \in [Task -> 1..(IdlePri - 1)]
      BY <1>0, KernelAssumption DEF Machine, MachineType
    <3>2. QED
      BY <3>1, CoreAssumption DEF Prio
  <2> HIDE DEF pri
  <2>4. Keeps(r, k, CreateFields)
    BY <1>0, <2>1, <2>2, <2>3, TaskCreated
  <2> HIDE DEF r
  <2>5. QED
    BY <2>1, <2>4 DEF Keeps, Fields, CreateFields, Passes
<1>7. ASSUME NEW u \in Task, NEW pri \in 1..(IdlePri - 1), TaskPriChange(t, u, pri)
      PROVE  Passes(k', k)
  <2> DEFINE r == task_pri_change(Rebased(k, u, pri), u, mutex_pri_limit(k, u, pri))
  <2>1. k' = r /\ k.task_state[u] # "DELETED"
    BY <1>7 DEF TaskPriChange, Rebased
  <2>2. u \in LiveIn(k) /\ u # Idle /\ pri \in Prio
    BY <2>1, CoreAssumption DEF LiveIn, AllTask, Prio
  <2>3. Mild(r, k)
    BY <1>0, <2>2, PriorityChanged
  <2>4. QED
    BY <2>1, <2>3, PassesCalm DEF Mild
<1>8. QED
  BY <1>1, <1>2, <1>3, <1>4, <1>5, <1>6, <1>7

LEMMA SchedPasses ==
  ASSUME IInv, NEW t, SchedDisable(t) \/ SchedEnable(t) \/ CoreSched \/ PendEnd
  PROVE  Passes(k', k)
<1>0. Typed(k) /\ Kernel(k, None, None)
  BY IInvFacts
<1>1. Passes(k, k)
  BY DEF Passes
<1>2. CASE SchedDisable(t) \/ SchedEnable(t)
  <2>1. \E n : k' = [k EXCEPT !.sched_lock = n]
    BY <1>2 DEF SchedDisable, SchedEnable, Return, ExitSched
  <2>2. QED
    BY <1>0, <2>1 DEF Passes, Typed, IsK, Fields
<1>3. CASE CoreSched
  BY <1>0, <1>1, <1>3, PassesSched DEF CoreSched
<1>4. CASE PendEnd
  BY <1>1, <1>4 DEF PendEnd
<1>5. QED
  BY <1>2, <1>3, <1>4

LEMMA IsrPasses ==
  ASSUME IInv, Isr PROVE Passes(k', k)
<1> USE DEF Interrupt
<1>0. Typed(k) /\ Kernel(k, None, None) /\ Machine(k, pos, want, held, app)
  BY IInvFacts
<1>1. ASSUME NEW n \in 0..Len(k.tick_list), NEW slice \in BOOLEAN, Tick(n, slice)
      PROVE  Passes(k', k)
  <2> DEFINE s1 == tick_list_update(k, n)
             s2 == time_slice_update(s1)
  <2>1. k' = core_sched(s1) \/ k' = core_sched(s2)
    BY <1>1 DEF Tick
  <2>2. Kernel(s1, None, None) /\ Mild(s1, k)
    BY <1>0, TickUpdated
  <2> HIDE DEF s1
  <2>3. Kernel(s2, None, None) /\ Mild(s2, s1)
    BY <2>2, SliceUpdated
  <2> HIDE DEF s2
  <2>4. Mild(s2, k)
    BY <2>2, <2>3, MildTwice
  <2>5. Passes(s1, k) /\ Passes(s2, k)
    BY <2>2, <2>4, PassesCalm DEF Mild
  <2>6. QED
    BY <2>1, <2>2, <2>3, <2>5, PassesSched
<1>2. ASSUME NEW o \in Sem, IsrSemGive(o) PROVE Passes(k', k)
  <2> DEFINE all == FALSE
             c   == k.count[o] + 1
             r   == sem_give(k, o, all)
  <2>1. k' = core_sched(r) /\ all \in BOOLEAN
    BY <1>2 DEF IsrSemGive
  <2> HIDE DEF all
  <2>2. IF k.blk_list[o] = <<>> THEN r = Recount(k, o, c)
        ELSE Kernel(r, None, None) /\ Mild(r, k)
    BY <1>0, <2>1, SemGiven
  <2> HIDE DEF r
  <2>3. CASE k.blk_list[o] = <<>>
    <3>1. k.count[o] \in Nat
      BY <1>0 DEF Typed
    <3>2. c \in Nat
      BY <3>1
    <3> HIDE DEF c
    <3>3. Kernel(Recount(k, o, c), None, None) /\ Keeps(Recount(k, o, c), k, {"count"})
      BY <1>0, <2>3, <3>2, CountChanged
    <3>4. Kernel(r, None, None) /\ Passes(r, k)
      BY <2>2, <2>3, <3>3 DEF Keeps, Fields, Passes
    <3>5. QED
      BY <2>1, <3>4, PassesSched
  <2>4. CASE k.blk_list[o] # <<>>
    BY <2>1, <2>2, <2>4, PassesCalm, PassesSched DEF Mild
  <2>5. QED
    BY <2>3, <2>4
<1>3. ASSUME NEW u \in Task, IsrSuspend(u) PROVE Passes(k', k)
  <2>1. k' = core_sched(task_suspend(k, u)) /\ CanSuspend(k, u)
    BY <1>3 DEF IsrSuspend
  <2>2. Pauses(task_suspend(k, u), k, app)
    BY <1>0, <2>1, SuspendPauses DEF CanSuspend, MaxSuspend
  <2>3. QED
    BY <2>1, <2>2, PassesCalm, PassesSched DEF Pauses
<1>4. ASSUME NEW u \in Task, IsrResume(u) PROVE Passes(k', k)
  <2>1. k' = core_sched(task_resume(k, u)) /\ CanResume(k, u)
    BY <1>4 DEF IsrResume
  <2>2. Pauses(task_resume(k, u), k, app)
    BY <1>0, <2>1, ResumePauses DEF CanResume, Suspended
  <2>3. QED
    BY <2>1, <2>2, PassesCalm, PassesSched DEF Pauses
<1>5. QED
  BY <1>1, <1>2, <1>3, <1>4 DEF Isr

\* What HandoffToHighest says of one step.
ToHighest ==
  \A m \in Mutex :
    k.mutex_task[m] # None /\ k'.mutex_task[m] \notin {None, k.mutex_task[m]}
      => \A u \in ToSet(k.blk_list[m]) : k.prio[k'.mutex_task[m]] <= k.prio[u]

LEMMA NextPasses ==
  ASSUME IInv, [Next]_vars PROVE [ToHighest]_vars
<1>1. ASSUME NEW t, TaskStep(t) PROVE Passes(k', k)
  BY <1>1, MutexPasses, SemPasses, TaskPasses, SchedPasses DEF TaskStep
<1>2. CASE UNCHANGED vars
  BY <1>2
<1>3. CASE Next
  <2>1. Passes(k', k)
    BY <1>1, <1>3, SchedPasses, IsrPasses DEF Next
  <2>2. ASSUME NEW m \in Mutex, NEW u \in ToSet(k.blk_list[m])
        PROVE  u \in Waiting(k) /\ k.blk_obj[u] = m
    <3>1. Core(k) /\ m \in Object
      BY IInvFacts DEF Object
    <3>2. QED
      BY <3>1, OnTheList
  <2>3. QED
    BY <2>1, <2>2 DEF Passes, FirstInLine, ToHighest
<1>4. QED
  BY <1>2, <1>3

-----------------------------------------------------------------------------
(***************************************************************************)
(* The theorems.                                                           *)
(***************************************************************************)

\* No mix of system calls, timeouts, deletions and interrupts brings the lists
\* of k_sched.c, k_pend.c and k_tick.c out of step, leads to k_err_proc, or
\* drives the loop in task_pri_change past ChainBound.
THEOREM KernelStaysSound == Spec => []KernelSound
<1>1. IInv => KernelSound
  BY TypesHold, ListsHold DEF KernelSound
<1>2. QED
  BY <1>1, Invariant, PTL

\* Block lists are sorted by priority at all times (pend_list_reorder).
THEOREM ListsStaySorted == Spec => []WaitListsSorted
BY SortedHolds, Invariant, PTL

\* Priority inheritance is exact along chains of any length (task_pri_change,
\* mutex_release, mutex_task_pri_reset).
THEOREM InheritanceExact == Spec => []PriorityInherited
BY InheritedHolds, Invariant, PTL

\* Every wait has a reason (pend_to_blk_obj against every way a wait ends).
THEOREM WaitsJustified == Spec => []WaitersHaveCause
BY CauseHolds, Invariant, PTL

\* The scheduler's guarantee (RHINO_CRITICAL_EXIT_SCHED, krhino_intrpt_exit).
THEOREM HighestAlwaysRuns == Spec => []HighestRuns
BY HighestHolds, Invariant, PTL

\* Tasks and kernel agree on the locks held, in every application that does not
\* delete the holder of a nested lock: task_mutex_free sets no nesting count
\* for the next owner (k_mutex.c).
THEOREM OwnershipAgrees ==
  ASSUME \A a \in Application : OneLock(a)
  PROVE  Spec => []OwnershipSound
<1>1. IInv => OwnershipSound
  BY OwnershipHolds
<1>2. QED
  BY <1>1, Invariant, PTL

\* A mutex passes to a waiter of the highest priority (krhino_mutex_unlock,
\* task_mutex_free).
THEOREM HandoffIsToHighest == Spec => HandoffToHighest
<1>1. IInv /\ [Next]_vars => [ToHighest]_vars
  BY NextPasses
<1>2. Spec => [][ToHighest]_vars
  BY <1>1, Invariant, PTL DEF Spec
<1>3. QED
  BY <1>2 DEF HandoffToHighest, ToHighest
=============================================================================
