-------------------------- MODULE RhinoTimerProofs --------------------------
(***************************************************************************)
(* Proofs about RhinoTimer for any number of timers, any intervals and any *)
(* interleaving of the timer task, the ticks and the callers.              *)
(***************************************************************************)
EXTENDS RhinoTimer, ListLemmas

\* What a command keeps: the active timers are on the list, once, and a timer
\* on the list was created and not deleted.
Sound(s) ==
  /\ s \in [tm : [Timer -> ktimer_t], list : Seq(Timer), freed : SUBSET Timer]
  /\ IsInjective(s.list)
  /\ \A t \in Timer : (s.tm[t].timer_state = "active") <=> t \in ToSet(s.list)
  /\ \A t \in ToSet(s.list) : s.tm[t].obj_type = "timer"

\* The list is sorted and nothing on it is overdue.
Ordered(s) ==
  /\ \A t \in ToSet(s.list) : s.tm[t].match >= 0
  /\ \A i, j \in 1..Len(s.list) : i < j => s.tm[s.list[i]].match <= s.tm[s.list[j]].match

\* A command on t leaves the other timers alone, and the list sound.
Touches(s, r, t) ==
  /\ Sound(r)
  /\ \A u \in Timer \ {t} : /\ r.tm[u] = s.tm[u]
                            /\ u \in ToSet(r.list) <=> u \in ToSet(s.list)
                            /\ u \in r.freed <=> u \in s.freed
  /\ Ordered(s) => Ordered(r)
-----------------------------------------------------------------------------
\* What callers ask for are numbers of ticks.
LEMMA Ticks == Intervals \subseteq Nat /\ Intervals \cup {0} \subseteq Nat /\ Periods \subseteq Nat
<1>1. Intervals \subseteq Nat \ {0} /\ Rounds \subseteq Nat
  BY TimerAssumption
<1>2. QED
  BY <1>1 DEF Periods

\* timer_list_pri_insert finds a place.
LEMMA PlaceFacts ==
  ASSUME NEW s, Sound(s), NEW g \in Int, NEW val \in Int
  PROVE  /\ Place(s, g, val) \in 1..Len(s.list) + 1
         /\ \A i \in 1..Len(s.list) :
              i < Place(s, g, val) => ~Further(s, s.list[i], g, val)
         /\ Place(s, g, val) <= Len(s.list)
              => Further(s, s.list[Place(s, g, val)], g, val)
<1> DEFINE after == {i \in 1..Len(s.list) : Further(s, s.list[i], g, val)}
<1>1. Len(s.list) \in Nat
  BY LenProperties DEF Sound
<1>2. CASE after = {}
  <2>1. Place(s, g, val) = Len(s.list) + 1
    BY <1>2 DEF Place
  <2>2. QED
    BY <1>1, <1>2, <2>1
<1>3. CASE after # {}
  <2>1. after \subseteq Nat
    BY <1>1
  <2>2. \E i \in after : \A j \in after : i <= j
    <3> HIDE DEF after
    <3> QED
      BY <1>3, <2>1, FirstPlace
  <2>3. Place(s, g, val) = CHOOSE i \in after : \A j \in after : i <= j
    BY <1>3 DEF Place
  <2>4. Place(s, g, val) \in after /\ \A j \in after : Place(s, g, val) <= j
    <3> HIDE DEF after
    <3> QED
      BY <2>2, <2>3
  <2>5. QED
    BY <1>1, <2>4
<1>4. QED
  BY <1>2, <1>3

\* The fields that arming and disarming change.
Changed(x, n, st) == [x EXCEPT !.match = n, !.timer_state = st]

LEMMA ChangedFacts ==
  ASSUME NEW x \in ktimer_t, NEW n \in Int, NEW st \in {"deactive", "active"}
  PROVE  /\ Changed(x, n, st) \in ktimer_t
         /\ Changed(x, n, st).match = n /\ Changed(x, n, st).timer_state = st
         /\ Changed(x, n, st).init_count = x.init_count
         /\ Changed(x, n, st).obj_type = x.obj_type
<1> DEFINE y == Changed(x, n, st)
<1>1. y = [obj_type |-> x.obj_type, timer_state |-> st, init_count |-> x.init_count,
           round_ticks |-> x.round_ticks, match |-> n, timer_cb_arg |-> x.timer_cb_arg]
  <2> DEFINE fields == {"obj_type", "timer_state", "init_count", "round_ticks", "match",
                        "timer_cb_arg"}
  <2>1. x = [f \in fields |-> x[f]]
    BY DEF ktimer_t
  <2>2. y = [[x EXCEPT !.match = n] EXCEPT !.timer_state = st]
    BY DEF Changed
  <2>3. QED
    BY <2>1, <2>2
<1>2. QED
  BY <1>1 DEF ktimer_t

\* Arming a timer that is not active puts it on the list, once.
LEMMA ArmFacts ==
  ASSUME NEW s, Sound(s), NEW t \in Timer, IsTimer(s, t), ~Active(s, t),
         NEW g \in Int, NEW val \in Int, NEW r, r = Arm(s, t, g, val)
  PROVE  /\ Sound(r) /\ r.freed = s.freed
         /\ ToSet(r.list) = ToSet(s.list) \cup {t}
         /\ r.tm[t].match = g + val /\ r.tm[t].init_count = s.tm[t].init_count
         /\ \A u \in Timer \ {t} : r.tm[u] = s.tm[u]
         /\ Ordered(s) /\ g = 0 /\ val >= 0 => Ordered(r)
<1> DEFINE k == Place(s, g, val)
           rec == Changed(s.tm[t], g + val, "active")
<1>1. /\ s \in [tm : [Timer -> ktimer_t], list : Seq(Timer), freed : SUBSET Timer]
      /\ IsList(s.list, Timer) /\ t \in Timer \ ToSet(s.list)
      /\ Len(s.list) \in Nat
  BY LenProperties DEF Sound, IsList, Active
<1>2. r = [tm |-> [s.tm EXCEPT ![t] = rec], list |-> InsertAt(s.list, k, t),
           freed |-> s.freed]
  BY <1>1 DEF Arm, Changed
<1>3. k \in 1..Len(s.list) + 1
  BY PlaceFacts
<1>4. /\ IsList(r.list, Timer) /\ ToSet(r.list) = ToSet(s.list) \cup {t}
      /\ Len(r.list) = Len(s.list) + 1
      /\ \A i \in 1..Len(s.list) + 1 :
           r.list[i] = IF i < k THEN s.list[i] ELSE IF i = k THEN t ELSE s.list[i - 1]
  <2> HIDE DEF k
  <2>1. /\ IsList(InsertAt(s.list, k, t), Timer)
        /\ ToSet(InsertAt(s.list, k, t)) = ToSet(s.list) \cup {t}
        /\ Len(InsertAt(s.list, k, t)) = Len(s.list) + 1
        /\ \A i \in 1..Len(s.list) + 1 :
             InsertAt(s.list, k, t)[i]
               = IF i < k THEN s.list[i] ELSE IF i = k THEN t ELSE s.list[i - 1]
    BY <1>1, <1>3, Inserted
  <2>2. QED
    BY <1>2, <2>1
<1>5. /\ rec \in ktimer_t /\ rec.match = g + val /\ rec.timer_state = "active"
      /\ rec.init_count = s.tm[t].init_count /\ rec.obj_type = "timer"
  <2>1. s.tm[t] \in ktimer_t /\ g + val \in Int /\ s.tm[t].obj_type = "timer"
    BY <1>1 DEF IsTimer
  <2>2. /\ rec \in ktimer_t /\ rec.match = g + val /\ rec.timer_state = "active"
        /\ rec.init_count = s.tm[t].init_count /\ rec.obj_type = s.tm[t].obj_type
    BY <2>1, ChangedFacts
  <2>3. QED
    BY <2>1, <2>2
<1> HIDE DEF rec
<1>6. /\ r.tm \in [Timer -> ktimer_t] /\ r.tm[t] = rec
      /\ \A u \in Timer \ {t} : r.tm[u] = s.tm[u]
  BY <1>1, <1>2, <1>5
<1>7. Sound(r)
  <2>1. r \in [tm : [Timer -> ktimer_t], list : Seq(Timer), freed : SUBSET Timer]
    BY <1>1, <1>2, <1>4, <1>6 DEF IsList
  <2>2. \A u \in Timer : (r.tm[u].timer_state = "active") <=> u \in ToSet(r.list)
    BY <1>4, <1>5, <1>6 DEF Sound
  <2>3. \A u \in ToSet(r.list) : r.tm[u].obj_type = "timer"
    <3>1. ToSet(s.list) \subseteq Timer
      BY <1>1, InList
    <3>2. QED
      BY <1>4, <1>5, <1>6, <3>1 DEF Sound
  <2>4. QED
    BY <1>4, <2>1, <2>2, <2>3 DEF Sound, IsList
<1>8. ASSUME Ordered(s), g = 0, val >= 0
      PROVE  Ordered(r)
  <2>1. /\ \A i \in 1..Len(s.list) : s.list[i] \in ToSet(s.list) /\ s.list[i] \in Timer \ {t}
        /\ ToSet(s.list) \subseteq Timer \ {t}
    BY <1>1, InList
  <2>2. \A u \in ToSet(s.list) : s.tm[u].match \in Int /\ s.tm[u].match >= 0
                                 /\ r.tm[u].match = s.tm[u].match
    BY <1>1, <1>6, <1>8, <2>1 DEF Ordered, ktimer_t
  <2>3. r.tm[t].match = val
    BY <1>5, <1>6, <1>8
  <2>4. \A i \in 1..Len(s.list) : /\ i < k => s.tm[s.list[i]].match <= val
                                  /\ i = k => s.tm[s.list[i]].match > val
    BY <1>3, <1>8, <2>1, <2>2, PlaceFacts DEF Further
  <2>5. \A i, j \in 1..Len(s.list) :
          i < j => s.tm[s.list[i]].match <= s.tm[s.list[j]].match
    BY <1>8 DEF Ordered
  <2>6. \A u \in ToSet(r.list) : r.tm[u].match >= 0
    BY <1>4, <1>8, <2>2, <2>3
  <2> HIDE DEF k
  <2>7. ASSUME NEW i \in 1..Len(r.list), NEW j \in 1..Len(r.list), i < j
        PROVE  r.tm[r.list[i]].match <= r.tm[r.list[j]].match
    <3> DEFINE old(n) == IF n < k THEN n ELSE n - 1
    <3>1. \A n \in 1..Len(r.list) : n # k =>
             /\ old(n) \in 1..Len(s.list) /\ r.list[n] = s.list[old(n)]
             /\ r.tm[r.list[n]].match = s.tm[s.list[old(n)]].match
             /\ s.tm[s.list[old(n)]].match \in Int
      <4> TAKE n \in 1..Len(r.list)
      <4> HAVE n # k
      <4>1. old(n) \in 1..Len(s.list) /\ r.list[n] = s.list[old(n)]
        BY <1>1, <1>3, <1>4
      <4> HIDE DEF old
      <4>2. QED
        BY <2>1, <2>2, <4>1
    <3>2. r.list[k] = t
      BY <1>3, <1>4
    <3>3. CASE i # k /\ j # k
      <4>1. old(i) < old(j)
        BY <1>1, <1>3, <1>4, <2>7, <3>3
      <4> HIDE DEF old
      <4>2. old(i) \in 1..Len(s.list) /\ old(j) \in 1..Len(s.list)
        BY <3>1, <3>3
      <4>3. s.tm[s.list[old(i)]].match <= s.tm[s.list[old(j)]].match
        BY <2>5, <4>1, <4>2
      <4>4. QED
        <5>1. /\ r.tm[r.list[i]].match = s.tm[s.list[old(i)]].match
              /\ r.tm[r.list[j]].match = s.tm[s.list[old(j)]].match
          BY <3>1, <3>3
        <5>2. QED
          BY <4>3, <5>1
    <3>4. CASE i = k
      <4>1. j > k /\ old(j) >= k /\ k \in 1..Len(s.list)
        BY <1>1, <1>3, <1>4, <2>7, <3>4
      <4>2. old(j) \in 1..Len(s.list) /\ s.tm[s.list[k]].match <= s.tm[s.list[old(j)]].match
        <5>1. old(j) \in 1..Len(s.list)
          BY <1>1, <1>3, <1>4, <4>1
        <5> HIDE DEF old
        <5>2. CASE old(j) = k
          BY <2>1, <2>2, <4>1, <5>1, <5>2
        <5>3. CASE old(j) > k
          BY <2>5, <4>1, <5>1, <5>3
        <5>4. QED
          BY <4>1, <5>1, <5>2, <5>3
      <4> HIDE DEF old
      <4>3. s.tm[s.list[k]].match > val /\ s.tm[s.list[k]].match \in Int
        BY <2>1, <2>2, <2>4, <4>1
      <4>4. r.tm[r.list[j]].match = s.tm[s.list[old(j)]].match /\ s.tm[s.list[old(j)]].match \in Int
        BY <1>3, <3>1, <4>1
      <4>5. r.tm[r.list[i]].match = val
        BY <2>3, <3>2, <3>4
      <4>6. val <= s.tm[s.list[old(j)]].match
        BY <4>2, <4>3, <4>4
      <4>7. QED
        BY <4>4, <4>5, <4>6
    <3>5. CASE j = k
      <4>1. i < k /\ old(i) = i /\ i \in 1..Len(s.list) /\ i # k
        BY <1>1, <1>3, <1>4, <2>7, <3>5
      <4>2. s.tm[s.list[i]].match <= val
        BY <2>4, <4>1
      <4>3. r.tm[r.list[i]].match = s.tm[s.list[i]].match
        BY <3>1, <4>1
      <4>4. QED
        BY <2>3, <3>2, <3>5, <4>2, <4>3
    <3>6. QED
      BY <3>3, <3>4, <3>5
  <2>8. QED
    BY <2>6, <2>7 DEF Ordered
<1>9. QED
  BY <1>2, <1>4, <1>5, <1>6, <1>7, <1>8

\* timer_list_rm takes an active timer off the list.
LEMMA DisarmFacts ==
  ASSUME NEW s, Sound(s), NEW t \in Timer, Active(s, t), NEW r, r = Disarm(s, t)
  PROVE  /\ Touches(s, r, t) /\ r.freed = s.freed
         /\ t \notin ToSet(r.list) /\ IsTimer(r, t) /\ ~Active(r, t)
         /\ r.tm[t].init_count = s.tm[t].init_count
<1> DEFINE k == CHOOSE i \in DOMAIN s.list : s.list[i] = t
           rec == Changed(s.tm[t], 0, "deactive")
<1>1. /\ s \in [tm : [Timer -> ktimer_t], list : Seq(Timer), freed : SUBSET Timer]
      /\ IsList(s.list, Timer) /\ t \in ToSet(s.list)
      /\ Len(s.list) \in Nat /\ DOMAIN s.list = 1..Len(s.list)
      /\ s.tm[t].obj_type = "timer"
  BY LenProperties DEF Sound, IsList, Active
<1>2. r = [tm |-> [s.tm EXCEPT ![t] = rec], list |-> RemoveAt(s.list, k),
           freed |-> s.freed]
  BY <1>1 DEF Disarm, Changed
<1>3. k \in 1..Len(s.list) /\ s.list[k] = t
  BY <1>1 DEF ToSet
<1> HIDE DEF k
<1>4. /\ IsList(r.list, Timer) /\ ToSet(r.list) = ToSet(s.list) \ {t}
      /\ Len(r.list) = Len(s.list) - 1
      /\ \A i \in 1..Len(s.list) - 1 :
           r.list[i] = IF i < k THEN s.list[i] ELSE s.list[i + 1]
  <2>1. /\ IsList(RemoveAt(s.list, k), Timer)
        /\ ToSet(RemoveAt(s.list, k)) = ToSet(s.list) \ {s.list[k]}
        /\ Len(RemoveAt(s.list, k)) = Len(s.list) - 1
        /\ \A i \in 1..Len(s.list) - 1 :
             RemoveAt(s.list, k)[i] = IF i < k THEN s.list[i] ELSE s.list[i + 1]
    BY <1>1, <1>3, Removed
  <2>2. QED
    BY <1>2, <1>3, <2>1
<1>5. /\ rec \in ktimer_t /\ rec.timer_state = "deactive" /\ rec.match = 0
      /\ rec.init_count = s.tm[t].init_count /\ rec.obj_type = "timer"
  <2>1. s.tm[t] \in ktimer_t /\ 0 \in Int
    BY <1>1
  <2>2. /\ rec \in ktimer_t /\ rec.match = 0 /\ rec.timer_state = "deactive"
        /\ rec.init_count = s.tm[t].init_count /\ rec.obj_type = s.tm[t].obj_type
    BY <2>1, ChangedFacts
  <2>3. QED
    BY <1>1, <2>2
<1> HIDE DEF rec
<1>6. /\ r.tm \in [Timer -> ktimer_t] /\ r.tm[t] = rec
      /\ \A u \in Timer \ {t} : r.tm[u] = s.tm[u]
  BY <1>1, <1>2, <1>5
<1>7. Sound(r)
  <2>1. r \in [tm : [Timer -> ktimer_t], list : Seq(Timer), freed : SUBSET Timer]
    BY <1>1, <1>2, <1>4, <1>6 DEF IsList
  <2>2. \A u \in Timer : (r.tm[u].timer_state = "active") <=> u \in ToSet(r.list)
    BY <1>4, <1>5, <1>6 DEF Sound
  <2>3. \A u \in ToSet(r.list) : r.tm[u].obj_type = "timer"
    <3>1. ToSet(s.list) \subseteq Timer
      BY <1>1, InList
    <3>2. QED
      BY <1>4, <1>5, <1>6, <3>1 DEF Sound
  <2>4. QED
    BY <1>4, <2>1, <2>2, <2>3 DEF Sound, IsList
<1>8. ASSUME Ordered(s) PROVE Ordered(r)
  <2>1. ToSet(s.list) \subseteq Timer
    BY <1>1, InList
  <2>2. \A u \in ToSet(r.list) : u \in Timer /\ r.tm[u].match = s.tm[u].match
    BY <1>4, <1>6, <2>1
  <2>3. \A u \in ToSet(r.list) : r.tm[u].match >= 0
    BY <1>4, <1>8, <2>2 DEF Ordered
  <2>4. ASSUME NEW i \in 1..Len(r.list), NEW j \in 1..Len(r.list), i < j
        PROVE  r.tm[r.list[i]].match <= r.tm[r.list[j]].match
    <3> DEFINE old(n) == IF n < k THEN n ELSE n + 1
    <3>1. \A n \in 1..Len(r.list) : old(n) \in 1..Len(s.list) /\ r.list[n] = s.list[old(n)]
      BY <1>1, <1>3, <1>4
    <3>2. old(i) < old(j)
      BY <1>1, <1>3, <1>4, <2>4
    <3> HIDE DEF old
    <3>3. s.tm[s.list[old(i)]].match <= s.tm[s.list[old(j)]].match
      BY <1>8, <3>1, <3>2 DEF Ordered
    <3>4. r.list[i] \in ToSet(r.list) /\ r.list[j] \in ToSet(r.list)
      BY <1>4, InList DEF IsList
    <3>5. QED
      BY <2>2, <3>1, <3>3, <3>4
  <2>5. QED
    BY <2>3, <2>4 DEF Ordered
<1>9. Touches(s, r, t)
  BY <1>2, <1>4, <1>6, <1>7, <1>8 DEF Touches
<1>10. QED
  BY <1>2, <1>4, <1>5, <1>6, <1>9 DEF IsTimer, Active
-----------------------------------------------------------------------------
\* A timer that is not on the list: what its other fields become leaves the
\* list alone.
LEMMA UnlistedFacts ==
  ASSUME NEW s, Sound(s), NEW t \in Timer, ~Active(s, t), NEW x \in ktimer_t,
         x.timer_state = "deactive", NEW f \in SUBSET Timer,
         \A u \in Timer \ {t} : u \in f <=> u \in s.freed,
         NEW r, r = [tm |-> [s.tm EXCEPT ![t] = x], list |-> s.list, freed |-> f]
  PROVE  Touches(s, r, t) /\ t \notin ToSet(r.list) /\ r.tm[t] = x
<1>1. /\ s \in [tm : [Timer -> ktimer_t], list : Seq(Timer), freed : SUBSET Timer]
      /\ t \notin ToSet(s.list) /\ ToSet(s.list) \subseteq Timer
  BY InList DEF Sound, Active
<1>2. /\ r.tm \in [Timer -> ktimer_t] /\ r.tm[t] = x /\ r.list = s.list /\ r.freed = f
      /\ \A u \in Timer \ {t} : r.tm[u] = s.tm[u]
  BY <1>1
<1>3. r \in [tm : [Timer -> ktimer_t], list : Seq(Timer), freed : SUBSET Timer]
  BY <1>1, <1>2
<1>4. Sound(r)
  BY <1>1, <1>2, <1>3 DEF Sound
<1>5. ASSUME Ordered(s) PROVE Ordered(r)
  <2>1. \A i \in 1..Len(s.list) : s.list[i] \in ToSet(s.list)
    BY <1>1, InList
  <2>2. QED
    BY <1>1, <1>2, <1>5, <2>1 DEF Ordered
<1>6. QED
  BY <1>1, <1>2, <1>4, <1>5 DEF Touches

\* Two commands in a row on the same timer.
LEMMA TouchesTwice ==
  ASSUME NEW s, NEW r, NEW p, NEW t, Touches(s, r, t), Touches(r, p, t)
  PROVE  Touches(s, p, t)
BY DEF Touches

\* A command that is dropped.
LEMMA TouchesNothing ==
  ASSUME NEW s, Sound(s), NEW t
  PROVE  Touches(s, s, t)
BY DEF Touches

\* TIMER_CMD_START: a timer that was not active is due after init_count ticks.
LEMMA CmdStartFacts ==
  ASSUME NEW s, Sound(s), NEW t \in Timer, NEW r, r = CmdStart(s, t, 0)
  PROVE  /\ Touches(s, r, t) /\ r.freed = s.freed
         /\ t \in ToSet(r.list) => \/ t \in ToSet(s.list) /\ r = s
                                   \/ /\ t \notin ToSet(s.list)
                                      /\ r.tm[t].match = r.tm[t].init_count
<1>1. CASE IsTimer(s, t) /\ ~Active(s, t)
  <2>1. /\ s.tm[t].init_count \in Nat /\ s.tm[t].init_count \in Int
        /\ t \notin ToSet(s.list)
    <3>1. s.tm[t] \in ktimer_t
      BY DEF Sound
    <3>2. s.tm[t].init_count \in Intervals \cup {0}
      BY <3>1 DEF ktimer_t
    <3>3. s.tm[t].init_count \in Nat
      BY <3>2, Ticks
    <3>4. t \notin ToSet(s.list)
      BY <1>1 DEF Sound, Active
    <3>5. QED
      BY <3>3, <3>4
  <2>2. r = Arm(s, t, 0, s.tm[t].init_count)
    BY <1>1 DEF CmdStart
  <2>3. /\ Sound(r) /\ r.freed = s.freed /\ ToSet(r.list) = ToSet(s.list) \cup {t}
        /\ r.tm[t].match = 0 + s.tm[t].init_count
        /\ r.tm[t].init_count = s.tm[t].init_count
        /\ \A u \in Timer \ {t} : r.tm[u] = s.tm[u]
        /\ Ordered(s) => Ordered(r)
    <3> DEFINE val == s.tm[t].init_count
    <3>1. val \in Int /\ val >= 0 /\ r = Arm(s, t, 0, val) /\ 0 \in Int
      BY <2>1, <2>2
    <3> HIDE DEF val
    <3>2. /\ Sound(r) /\ r.freed = s.freed /\ ToSet(r.list) = ToSet(s.list) \cup {t}
          /\ r.tm[t].match = 0 + val
          /\ r.tm[t].init_count = s.tm[t].init_count
          /\ \A u \in Timer \ {t} : r.tm[u] = s.tm[u]
          /\ Ordered(s) => Ordered(r)
      BY <1>1, <3>1, ArmFacts
    <3>3. QED
      BY <3>2 DEF val
  <2>4. Touches(s, r, t)
    BY <2>3 DEF Touches
  <2>5. QED
    BY <2>1, <2>3, <2>4
<1>2. CASE ~(IsTimer(s, t) /\ ~Active(s, t))
  <2>1. r = s
    BY <1>2 DEF CmdStart
  <2>2. QED
    BY <2>1, TouchesNothing
<1>3. QED
  BY <1>1, <1>2

\* TIMER_CMD_STOP: the timer is off the list.
LEMMA CmdStopFacts ==
  ASSUME NEW s, Sound(s), NEW t \in Timer, NEW r, r = CmdStop(s, t)
  PROVE  Touches(s, r, t) /\ r.freed = s.freed /\ t \notin ToSet(r.list)
<1>1. CASE Active(s, t)
  <2>1. IsTimer(s, t)
    BY <1>1 DEF Sound, Active, IsTimer
  <2>2. r = Disarm(s, t)
    BY <1>1, <2>1 DEF CmdStop
  <2>3. QED
    BY <1>1, <2>2, DisarmFacts
<1>2. CASE ~Active(s, t)
  <2>1. r = s /\ t \notin ToSet(s.list)
    BY <1>2 DEF CmdStop, Sound, Active
  <2>2. QED
    BY <2>1, TouchesNothing
<1>3. QED
  BY <1>1, <1>2

\* TIMER_CMD_CB: an active timer is taken off before its intervals change.
LEMMA CmdChgFacts ==
  ASSUME NEW s, Sound(s), NEW t \in Timer, NEW first \in Intervals \cup {0},
         NEW round \in Periods, NEW r, r = CmdChg(s, t, first, round)
  PROVE  Touches(s, r, t) /\ r.freed = s.freed /\ (t \in ToSet(r.list) => r = s)
<1>1. CASE first # 0 /\ IsTimer(s, t)
  <2> DEFINE p == IF Active(s, t) THEN Disarm(s, t) ELSE s
             x == [p.tm[t] EXCEPT !.init_count = first, !.round_ticks = round]
  <2>1. Touches(s, p, t) /\ p.freed = s.freed /\ ~Active(p, t)
    <3>1. CASE Active(s, t)
      BY <3>1, DisarmFacts
    <3>2. CASE ~Active(s, t)
      BY <3>2, TouchesNothing
    <3>3. QED
      BY <3>1, <3>2
  <2>2. r = [p EXCEPT !.tm[t].init_count = first, !.tm[t].round_ticks = round]
    BY <1>1 DEF CmdChg
  <2> HIDE DEF p
  <2>3. /\ Sound(p)
        /\ p \in [tm : [Timer -> ktimer_t], list : Seq(Timer), freed : SUBSET Timer]
    BY <2>1 DEF Touches, Sound
  <2>4. r = [tm |-> [p.tm EXCEPT ![t] = x], list |-> p.list, freed |-> p.freed]
    BY <2>2, <2>3
  <2>5. x \in ktimer_t /\ x.timer_state = "deactive"
    <3>1. p.tm[t] \in ktimer_t /\ p.tm[t].timer_state = "deactive"
      <4>1. p.tm[t] \in ktimer_t
        BY <2>3
      <4>2. QED
        BY <2>1, <4>1 DEF Active, ktimer_t
    <3>2. QED
      BY <3>1 DEF ktimer_t
  <2> HIDE DEF x
  <2>6. p.freed \in SUBSET Timer /\ \A u \in Timer \ {t} : u \in p.freed <=> u \in p.freed
    BY <2>3
  <2>7. Touches(p, r, t) /\ t \notin ToSet(r.list)
    <3>1. Sound(p) /\ ~Active(p, t)
      BY <2>1, <2>3
    <3>2. QED
      BY <2>4, <2>5, <2>6, <3>1, UnlistedFacts
  <2>8. Touches(s, r, t)
    BY <2>1, <2>7, TouchesTwice
  <2>9. QED
    BY <2>1, <2>4, <2>7, <2>8
<1>2. CASE ~(first # 0 /\ IsTimer(s, t))
  <2>1. r = s
    BY <1>2 DEF CmdChg
  <2>2. QED
    BY <2>1, TouchesNothing
<1>3. QED
  BY <1>1, <1>2

\* TIMER_ARG_CHG: only a timer that is not active gets the argument.
LEMMA CmdArgFacts ==
  ASSUME NEW s, Sound(s), NEW t \in Timer, NEW arg \in Args, NEW r, r = CmdArg(s, t, arg)
  PROVE  /\ Touches(s, r, t) /\ r.freed = s.freed
         /\ t \in ToSet(r.list) => r = s
         /\ t \in ToSet(s.list) => r = s
<1>1. CASE IsTimer(s, t) /\ ~Active(s, t)
  <2> DEFINE x == [s.tm[t] EXCEPT !.timer_cb_arg = arg]
  <2>1. /\ s \in [tm : [Timer -> ktimer_t], list : Seq(Timer), freed : SUBSET Timer]
        /\ s.freed \in SUBSET Timer /\ s.tm[t] \in ktimer_t /\ t \notin ToSet(s.list)
    BY <1>1 DEF Sound, Active
  <2>2. r = [s EXCEPT !.tm[t].timer_cb_arg = arg]
    BY <1>1 DEF CmdArg
  <2>3. r = [tm |-> [s.tm EXCEPT ![t] = x], list |-> s.list, freed |-> s.freed]
    BY <2>1, <2>2
  <2>4. x \in ktimer_t /\ x.timer_state = "deactive"
    BY <1>1, <2>1 DEF Active, ktimer_t
  <2> HIDE DEF x
  <2>5. Touches(s, r, t) /\ t \notin ToSet(r.list)
    BY <1>1, <2>1, <2>3, <2>4, UnlistedFacts
  <2>6. QED
    BY <2>1, <2>3, <2>5
<1>2. CASE ~(IsTimer(s, t) /\ ~Active(s, t))
  <2>1. r = s
    BY <1>2 DEF CmdArg
  <2>2. QED
    BY <2>1, TouchesNothing
<1>3. QED
  BY <1>1, <1>2

\* TIMER_CMD_DEL, TIMER_CMD_DYN_DEL: only a timer that is not active is deleted.
LEMMA CmdDelFacts ==
  ASSUME NEW s, Sound(s), NEW t \in Timer, NEW r, r = CmdDel(s, t) \/ r = CmdDynDel(s, t)
  PROVE  /\ Touches(s, r, t) /\ (t \in ToSet(r.list) => r = s)
         /\ r = CmdDel(s, t) => r.freed = s.freed
<1>1. CASE r # s
  <2> DEFINE x == [s.tm[t] EXCEPT !.obj_type = "none"]
  <2>1. /\ s \in [tm : [Timer -> ktimer_t], list : Seq(Timer), freed : SUBSET Timer]
        /\ s.freed \in SUBSET Timer /\ s.tm[t] \in ktimer_t
    BY DEF Sound
  <2>2. /\ ~Active(s, t)
        /\ \/ r = [s EXCEPT !.tm[t].obj_type = "none"]
           \/ /\ r = [s EXCEPT !.tm[t].obj_type = "none", !.freed = @ \cup {t}]
              /\ t \in Dyn
    BY <1>1 DEF CmdDel, CmdDynDel
  <2>3. PICK f \in {s.freed, s.freed \cup {t}} :
          r = [tm |-> [s.tm EXCEPT ![t] = x], list |-> s.list, freed |-> f]
    BY <2>1, <2>2
  <2>4. x \in ktimer_t /\ x.timer_state = "deactive"
    BY <2>1, <2>2 DEF Active, ktimer_t
  <2> HIDE DEF x
  <2>5. f \in SUBSET Timer /\ \A u \in Timer \ {t} : u \in f <=> u \in s.freed
    BY <2>1
  <2>6. Touches(s, r, t) /\ t \notin ToSet(r.list)
    BY <2>2, <2>3, <2>4, <2>5, UnlistedFacts
  <2>7. ASSUME r = CmdDel(s, t) PROVE r.freed = s.freed
    BY <1>1, <2>1, <2>7 DEF CmdDel
  <2>8. QED
    BY <2>6, <2>7
<1>2. CASE r = s
  BY <1>2, TouchesNothing
<1>3. QED
  BY <1>1, <1>2

\* cmd_proc.  After a command the timer is on the list as it was, or it was
\* started and is due after init_count ticks; it is freed only by
\* TIMER_CMD_DYN_DEL, and then it is not on the list.
LEMMA CommandFacts ==
  ASSUME NEW s, Sound(s), NEW c \in Commands, NEW r, r = timer_cmd_proc(s, c, 0)
  PROVE  /\ c.timer \in Timer /\ Touches(s, r, c.timer)
         /\ c.timer \in ToSet(r.list) =>
              \/ /\ c.timer \in ToSet(s.list) /\ r.tm[c.timer] = s.tm[c.timer]
                 /\ c.cb_num # "arg_auto"
              \/ /\ r.tm[c.timer].match = r.tm[c.timer].init_count
                 /\ \/ c.cb_num = "arg_auto"
                    \/ c.cb_num = "start" /\ c.timer \notin ToSet(s.list)
         /\ c.timer \in r.freed \ s.freed =>
              c.cb_num = "dyn_del" /\ c.timer \notin ToSet(r.list)
<1> DEFINE t == c.timer
<1>1. /\ t \in Timer
      /\ c.cb_num \in {"start", "stop", "chg", "arg", "arg_auto", "del", "dyn_del"}
      /\ c.cb_num = "chg" => c.first \in Intervals \cup {0} /\ c.u \in Periods
      /\ c.cb_num \in {"arg", "arg_auto"} => c.u \in Args
  BY DEF Commands
<1>2. CASE c.cb_num = "start"
  <2>1. r = CmdStart(s, t, 0)
    BY <1>2 DEF timer_cmd_proc
  <2>2. QED
    BY <1>1, <1>2, <2>1, CmdStartFacts
<1>3. CASE c.cb_num = "stop"
  <2>1. r = CmdStop(s, t)
    BY <1>3 DEF timer_cmd_proc
  <2>2. QED
    BY <1>1, <1>3, <2>1, CmdStopFacts
<1>4. CASE c.cb_num = "chg"
  <2>1. r = CmdChg(s, t, c.first, c.u)
    BY <1>4 DEF timer_cmd_proc
  <2>2. c.first \in Intervals \cup {0} /\ c.u \in Periods
    BY <1>1, <1>4
  <2>3. Touches(s, r, t) /\ r.freed = s.freed /\ (t \in ToSet(r.list) => r = s)
    BY <1>1, <2>1, <2>2, CmdChgFacts
  <2>4. QED
    BY <1>1, <1>4, <2>3
<1>5. CASE c.cb_num = "arg"
  <2>1. r = CmdArg(s, t, c.u)
    BY <1>5 DEF timer_cmd_proc
  <2>2. QED
    BY <1>1, <1>5, <2>1, CmdArgFacts
<1>6. CASE c.cb_num = "arg_auto"
  <2> DEFINE p == CmdStop(s, t)
             o == CmdArg(p, t, c.u)
  <2>1. r = CmdStart(o, t, 0)
    BY <1>6 DEF timer_cmd_proc
  <2>2. Touches(s, p, t) /\ p.freed = s.freed /\ t \notin ToSet(p.list)
    BY <1>1, CmdStopFacts
  <2> HIDE DEF p
  <2>3. Sound(p)
    BY <2>2 DEF Touches
  <2>4. Touches(p, o, t) /\ o.freed = p.freed /\ (t \in ToSet(o.list) => o = p)
    BY <1>1, <1>6, <2>3, CmdArgFacts
  <2> HIDE DEF o
  <2>5. Sound(o) /\ t \notin ToSet(o.list)
    BY <2>2, <2>4 DEF Touches
  <2>6. /\ Touches(o, r, t) /\ r.freed = o.freed
        /\ t \in ToSet(r.list) => r.tm[t].match = r.tm[t].init_count
    BY <1>1, <2>1, <2>5, CmdStartFacts
  <2>7. Touches(s, r, t)
    BY <2>2, <2>4, <2>6, TouchesTwice
  <2>8. QED
    <3>1. r.freed = s.freed
      BY <2>2, <2>4, <2>6
    <3>2. t \in Timer
      BY <1>1
    <3>3. QED
      BY <1>6, <2>6, <2>7, <3>1, <3>2
<1>7. CASE c.cb_num = "del"
  <2>1. r = CmdDel(s, t)
    BY <1>7 DEF timer_cmd_proc
  <2>2. QED
    BY <1>1, <1>7, <2>1, CmdDelFacts
<1>8. CASE c.cb_num = "dyn_del"
  <2>1. r = CmdDynDel(s, t)
    BY <1>8 DEF timer_cmd_proc
  <2>2. QED
    BY <1>1, <1>8, <2>1, CmdDelFacts
<1>9. QED
  BY <1>1, <1>2, <1>3, <1>4, <1>5, <1>6, <1>7, <1>8
-----------------------------------------------------------------------------
\* The timer task has a command where it obeys one.
GotInv == pc \in {"outer_got", "inner_got"} => cb_msg # NoCommand

\* The callback that runs is that of a timer on the list, and is not early.
CbInv == pc = "cb" => q <= Len(g_timer_head) /\ owed[g_timer_head[q]] = 0

\* A timer on the list is not due before its caller's ticks are over.
OwedInv == \A t \in ToSet(g_timer_head) : owed[t] > 0 => tm[t].match >= owed[t]

\* A deletion is the only command on its timer that is still to be obeyed.
IsDel(c) == c.cb_num \in {"del", "dyn_del"}
SoleDel ==
  /\ cb_msg # NoCommand /\ IsDel(cb_msg) =>
       \A i \in DOMAIN g_timer_queue : g_timer_queue[i].timer # cb_msg.timer
  /\ \A i \in DOMAIN g_timer_queue :
       IsDel(g_timer_queue[i]) =>
         /\ cb_msg # NoCommand => cb_msg.timer # g_timer_queue[i].timer
         /\ \A j \in DOMAIN g_timer_queue \ {i} :
              g_timer_queue[j].timer # g_timer_queue[i].timer

TimerInv ==
  /\ TypeOK /\ Sound(Timers) /\ GotInv /\ CbInv /\ OwedInv /\ SoleDel /\ NoDanglingTimer

\* A timer task that is in time waits for commands only with an empty list, and
\* finds no timer overdue.
InTimeInv ==
  /\ Ordered(Timers)
  /\ pc \in {"outer", "recv", "outer_got"} => g_timer_head = <<>>
  /\ g_timer_count = 0
  /\ WaitsForHead
  /\ pc = "timed" => left > 0
-----------------------------------------------------------------------------
\* The timers as the record the commands work on.
LEMMA TimersFacts ==
  /\ Timers.tm = tm /\ Timers.list = g_timer_head /\ Timers.freed = freed
  /\ Timers'.tm = tm' /\ Timers'.list = g_timer_head' /\ Timers'.freed = freed'
BY DEF Timers

LEMMA BecomesFacts ==
  ASSUME NEW s, Sound(s), Becomes(s)
  PROVE  Timers' = s
<1>1. s \in [tm : [Timer -> ktimer_t], list : Seq(Timer), freed : SUBSET Timer]
  BY DEF Sound
<1>2. s = [tm |-> s.tm, list |-> s.list, freed |-> s.freed]
  BY <1>1
<1>3. QED
  BY <1>2 DEF Becomes, Timers

\* The command queue: what krhino_buf_queue_recv does.
LEMMA ReceiveFacts ==
  ASSUME TimerInv, NEW got \in {"outer_got", "inner_got"}, NEW wait \in Blocked,
         NEW ticks \in Nat, Receive(got, wait, ticks)
  PROVE  /\ g_timer_queue' \in Seq(Commands) /\ Len(g_timer_queue') <= MsgNum
         /\ cb_msg' \in Commands \cup {NoCommand}
         /\ pc' \in {got, wait} /\ left' \in Nat /\ late' \in 0..MaxLate
         /\ GotInv' /\ SoleDel'
         /\ \A t \in Timer : Pending(t)' => Pending(t)
         /\ pc' = wait => left' = ticks
<1>1. /\ g_timer_queue \in Seq(Commands) /\ Len(g_timer_queue) <= MsgNum
      /\ cb_msg \in Commands \cup {NoCommand} /\ left \in Nat /\ late \in 0..MaxLate
      /\ MsgNum \in Nat /\ MaxLate \in Nat
  BY TimerAssumption DEF TimerInv, TypeOK
<1>2. NoCommand \notin Commands
  BY DEF NoCommand, Commands
<1>3. DOMAIN g_timer_queue = 1..Len(g_timer_queue) /\ Len(g_timer_queue) \in Nat
  BY <1>1, LenProperties
<1>4. wait \notin {"outer_got", "inner_got"}
  BY DEF Blocked
<1>5. CASE g_timer_queue # <<>>
  <2>1. /\ cb_msg' = Head(g_timer_queue) /\ g_timer_queue' = Tail(g_timer_queue)
        /\ pc' = got /\ left' = left /\ late' = late
    BY <1>5 DEF Receive
  <2>2. /\ Len(g_timer_queue) > 0 /\ Head(g_timer_queue) = g_timer_queue[1]
        /\ Head(g_timer_queue) \in Commands
    BY <1>1, <1>5, EmptySeq, HeadTailProperties
  <2>3. /\ g_timer_queue' \in Seq(Commands) /\ Len(g_timer_queue') = Len(g_timer_queue) - 1
        /\ \A i \in 1..Len(g_timer_queue) - 1 : g_timer_queue'[i] = g_timer_queue[i + 1]
    BY <1>1, <1>5, <2>1, HeadTailProperties
  <2>4. DOMAIN g_timer_queue' = 1..Len(g_timer_queue) - 1
    BY <2>3, LenProperties
  <2>5. SoleDel'
    <3>1. /\ \A i, j \in 1..Len(g_timer_queue) :
               IsDel(g_timer_queue[i]) /\ i # j => g_timer_queue[j].timer # g_timer_queue[i].timer
      BY <1>3 DEF TimerInv, SoleDel
    <3>2. \A i \in 1..Len(g_timer_queue) - 1 :
            i + 1 \in 1..Len(g_timer_queue) /\ i + 1 # 1
      BY <1>3
    <3>3. 1 \in 1..Len(g_timer_queue)
      BY <1>3, <2>2
    <3>4. cb_msg' # NoCommand /\ IsDel(cb_msg') =>
            \A i \in DOMAIN g_timer_queue' : g_timer_queue'[i].timer # cb_msg'.timer
      BY <2>1, <2>2, <2>3, <2>4, <3>1, <3>2, <3>3
    <3>5. ASSUME NEW i \in DOMAIN g_timer_queue', IsDel(g_timer_queue'[i])
          PROVE  /\ cb_msg'.timer # g_timer_queue'[i].timer
                 /\ \A j \in DOMAIN g_timer_queue' \ {i} :
                      g_timer_queue'[j].timer # g_timer_queue'[i].timer
      <4>1. cb_msg'.timer # g_timer_queue'[i].timer
        BY <2>1, <2>2, <2>3, <2>4, <3>1, <3>2, <3>3, <3>5
      <4>2. ASSUME NEW j \in DOMAIN g_timer_queue' \ {i}
            PROVE  g_timer_queue'[j].timer # g_timer_queue'[i].timer
        <5>1. i + 1 # j + 1
          BY <2>4
        <5>2. QED
          BY <2>3, <2>4, <3>1, <3>2, <3>5, <5>1
      <4>3. QED
        BY <4>1, <4>2
    <3>6. QED
      BY <3>4, <3>5 DEF SoleDel, IsDel
  <2>6. ASSUME NEW t \in Timer, Pending(t)' PROVE Pending(t)
    <3>1. \/ cb_msg'.timer = t
          \/ \E i \in DOMAIN g_timer_queue' : g_timer_queue'[i].timer = t
      BY <2>6 DEF Pending
    <3>2. CASE cb_msg'.timer = t
      <4>1. 1 \in DOMAIN g_timer_queue /\ g_timer_queue[1].timer = t
        BY <1>3, <2>1, <2>2, <3>2
      <4>2. QED
        BY <4>1 DEF Pending
    <3>3. CASE \E i \in DOMAIN g_timer_queue' : g_timer_queue'[i].timer = t
      <4>1. PICK i \in 1..Len(g_timer_queue) - 1 : g_timer_queue'[i].timer = t
        BY <2>4, <3>3
      <4>2. i + 1 \in DOMAIN g_timer_queue /\ g_timer_queue[i + 1].timer = t
        BY <1>3, <2>3, <4>1
      <4>3. QED
        BY <4>2 DEF Pending
    <3>4. QED
      BY <3>1, <3>2, <3>3
  <2>7. GotInv'
    BY <1>2, <2>1, <2>2 DEF GotInv
  <2>8. pc' # wait
    BY <1>4, <2>1
  <2>9. QED
    BY <1>1, <1>3, <2>1, <2>2, <2>3, <2>5, <2>6, <2>7, <2>8
<1>6. CASE g_timer_queue = <<>>
  <2>1. /\ pc' = wait /\ left' = ticks /\ late' = 0
        /\ cb_msg' = cb_msg /\ g_timer_queue' = g_timer_queue
    BY <1>6 DEF Receive
  <2>2. SoleDel'
    BY <2>1 DEF TimerInv, SoleDel
  <2>3. \A t \in Timer : Pending(t)' => Pending(t)
    BY <2>1 DEF Pending
  <2>4. GotInv'
    BY <1>4, <2>1 DEF GotInv
  <2>5. QED
    BY <1>1, <2>1, <2>2, <2>3, <2>4
<1>7. QED
  BY <1>5, <1>6

\* The command queue: what krhino_buf_queue_send does.
LEMMA SendFacts ==
  ASSUME TimerInv, NEW c \in Commands, Send(c),
         ~Doomed(c.timer), IsDel(c) => ~Pending(c.timer)
  PROVE  /\ g_timer_queue' \in Seq(Commands) /\ Len(g_timer_queue') <= MsgNum
         /\ cb_msg' \in Commands \cup {NoCommand}
         /\ \/ pc' = pc /\ left' = left
            \/ pc = "recv" /\ pc' = "outer_got" /\ left' = 0
            \/ pc = "timed" /\ pc' = "inner_got" /\ left' = 0
         /\ GotInv' /\ SoleDel'
         /\ \A t \in Timer : Pending(t)' => Pending(t) \/ (t = c.timer /\ Accepted)
<1>1. /\ g_timer_queue \in Seq(Commands) /\ Len(g_timer_queue) <= MsgNum
      /\ cb_msg \in Commands \cup {NoCommand} /\ left \in Nat
      /\ MsgNum \in Nat
  BY TimerAssumption DEF TimerInv, TypeOK
<1>2. NoCommand \notin Commands
  BY DEF NoCommand, Commands
<1>3. DOMAIN g_timer_queue = 1..Len(g_timer_queue) /\ Len(g_timer_queue) \in Nat
  BY <1>1, LenProperties
<1>4. /\ cb_msg # NoCommand /\ cb_msg.timer = c.timer => ~IsDel(cb_msg) /\ ~IsDel(c)
      /\ \A i \in DOMAIN g_timer_queue :
           g_timer_queue[i].timer = c.timer => ~IsDel(g_timer_queue[i]) /\ ~IsDel(c)
  BY DEF Doomed, Pending, IsDel
<1>5. CASE pc \in Blocked
  <2>1. /\ cb_msg' = c /\ left' = 0 /\ g_timer_queue' = g_timer_queue
        /\ pc' = IF pc = "recv" THEN "outer_got" ELSE "inner_got"
    BY <1>5 DEF Send
  <2>2. SoleDel'
    BY <1>4, <2>1 DEF TimerInv, SoleDel
  <2>3. GotInv'
    BY <1>2, <2>1 DEF GotInv
  <2>4. \A t \in Timer : Pending(t)' => Pending(t) \/ (t = c.timer /\ Accepted)
    BY <1>5, <2>1 DEF Pending, Accepted
  <2>5. \/ pc = "recv" /\ pc' = "outer_got"
        \/ pc = "timed" /\ pc' = "inner_got"
    BY <1>5, <2>1 DEF Blocked
  <2>6. QED
    BY <1>1, <2>1, <2>2, <2>3, <2>4, <2>5
<1>6. CASE pc \notin Blocked /\ ~(Len(g_timer_queue) < MsgNum)
  <2>1. UNCHANGED <<cb_msg, pc, left, g_timer_queue>>
    BY <1>6 DEF Send
  <2>2. SoleDel' /\ GotInv' /\ \A t \in Timer : Pending(t)' => Pending(t)
    BY <2>1 DEF TimerInv, SoleDel, GotInv, Pending
  <2>3. QED
    BY <1>1, <2>1, <2>2
<1>7. CASE pc \notin Blocked /\ Len(g_timer_queue) < MsgNum
  <2>1. UNCHANGED <<cb_msg, pc, left>> /\ g_timer_queue' = Append(g_timer_queue, c)
    BY <1>7 DEF Send
  <2>2. /\ g_timer_queue' \in Seq(Commands) /\ Len(g_timer_queue') = Len(g_timer_queue) + 1
        /\ \A i \in 1..Len(g_timer_queue) : g_timer_queue'[i] = g_timer_queue[i]
        /\ g_timer_queue'[Len(g_timer_queue) + 1] = c
    BY <1>1, <2>1, AppendProperties
  <2>3. DOMAIN g_timer_queue' = 1..Len(g_timer_queue) + 1
    BY <2>2, LenProperties
  <2>4. \A i \in DOMAIN g_timer_queue' :
          \/ i \in DOMAIN g_timer_queue /\ g_timer_queue'[i] = g_timer_queue[i]
          \/ i = Len(g_timer_queue) + 1 /\ g_timer_queue'[i] = c
    BY <1>3, <2>2, <2>3
  <2>5. GotInv'
    BY <2>1 DEF TimerInv, GotInv
  <2>6. \A t \in Timer : Pending(t)' => Pending(t) \/ (t = c.timer /\ Accepted)
    BY <1>7, <2>1, <2>4 DEF Pending, Accepted
  <2>7. SoleDel'
    <3>1. cb_msg # NoCommand /\ IsDel(cb_msg) =>
            \A i \in DOMAIN g_timer_queue' : g_timer_queue'[i].timer # cb_msg.timer
      BY <1>4, <2>4 DEF TimerInv, SoleDel
    <3>2. ASSUME NEW i \in DOMAIN g_timer_queue', IsDel(g_timer_queue'[i])
          PROVE  /\ cb_msg # NoCommand => cb_msg.timer # g_timer_queue'[i].timer
                 /\ \A j \in DOMAIN g_timer_queue' \ {i} :
                      g_timer_queue'[j].timer # g_timer_queue'[i].timer
      <4>1. CASE i \in DOMAIN g_timer_queue /\ g_timer_queue'[i] = g_timer_queue[i]
        BY <1>4, <2>4, <3>2, <4>1 DEF TimerInv, SoleDel
      <4>2. CASE i = Len(g_timer_queue) + 1 /\ g_timer_queue'[i] = c
        BY <1>4, <2>4, <3>2, <4>2
      <4>3. QED
        BY <2>4, <4>1, <4>2
    <3>3. QED
      BY <2>1, <3>1, <3>2 DEF SoleDel, IsDel
  <2>8. QED
    BY <1>1, <1>3, <1>7, <2>1, <2>2, <2>5, <2>6, <2>7
<1>8. QED
  BY <1>5, <1>6, <1>7
-----------------------------------------------------------------------------
\* ktimer_init
LEMMA InitInv == Init => TimerInv /\ InTimeInv
<1> SUFFICES ASSUME Init PROVE TimerInv /\ InTimeInv
  OBVIOUS
<1> USE DEF Init
<1>1. NoTimer \in ktimer_t /\ NoTimer.timer_state = "deactive"
  <2>1. (CHOOSE a \in Args : TRUE) \in Args
    BY TimerAssumption
  <2>2. QED
    BY <2>1 DEF NoTimer, ktimer_t, Periods
<1>2. /\ <<>> \in Seq(Timer) /\ <<>> \in Seq(Commands) /\ Len(<<>>) = 0
      /\ ToSet(g_timer_head) = {} /\ IsInjective(g_timer_head)
  <2>1. <<>> \in Seq(Timer) /\ <<>> \in Seq(Commands) /\ Len(<<>>) = 0
    BY EmptySeq
  <2>2. ToSet(g_timer_head) = {}
    BY <2>1, InList
  <2>3. IsInjective(g_timer_head)
    BY DEF IsInjective
  <2>4. QED
    BY <2>1, <2>2, <2>3
<1>3. TypeOK
  <2>1. MsgNum \in Nat /\ MaxLate \in Nat /\ MaxCalls \in Nat
    BY TimerAssumption
  <2>2. tm \in [Timer -> ktimer_t]
    BY <1>1
  <2>3. QED
    BY <1>2, <2>1, <2>2 DEF TypeOK, Places
<1>4. Sound(Timers)
  BY <1>1, <1>2, <1>3, TimersFacts DEF Sound, TypeOK, Timers
<1>5. GotInv /\ CbInv /\ OwedInv /\ NoDanglingTimer
  BY <1>2 DEF GotInv, CbInv, OwedInv, NoDanglingTimer
<1>6. SoleDel
  BY <1>2 DEF SoleDel
<1>7. InTimeInv
  BY <1>2, TimersFacts DEF InTimeInv, Ordered, WaitsForHead
<1>8. QED
  BY <1>3, <1>4, <1>5, <1>6, <1>7 DEF TimerInv

\* Where the timers stay as they are, what is said of them stays true.
LEMMA QuietFacts ==
  ASSUME TimerInv, UNCHANGED <<tm, g_timer_head, freed, owed>>,
         \A t \in Timer : Pending(t)' => Pending(t)
  PROVE  Sound(Timers)' /\ OwedInv' /\ NoDanglingTimer'
<1>1. Sound(Timers)'
  BY DEF TimerInv, Timers, Sound
<1>2. OwedInv'
  BY DEF TimerInv, OwedInv
<1>3. NoDanglingTimer'
  <2>1. freed \subseteq Timer
    BY DEF TimerInv, TypeOK
  <2>2. QED
    BY <2>1 DEF TimerInv, NoDanglingTimer
<1>4. QED
  BY <1>1, <1>2, <1>3

\* What the type of the timers says of the list.
LEMMA HeadFacts ==
  ASSUME TypeOK
  PROVE  /\ Len(g_timer_head) \in Nat /\ ToSet(g_timer_head) \subseteq Timer
         /\ DOMAIN g_timer_head = 1..Len(g_timer_head)
         /\ \A i \in 1..Len(g_timer_head) : g_timer_head[i] \in ToSet(g_timer_head)
         /\ g_timer_head # <<>> => Head(g_timer_head) \in ToSet(g_timer_head)
         /\ \A t \in Timer : tm[t] \in ktimer_t /\ tm[t].match \in Int /\ owed[t] \in Nat
BY InList DEF TypeOK, ktimer_t

\* krhino_buf_queue_recv in the outer loop and in the inner loop
LEMMA RecvInv ==
  ASSUME TimerInv, RecvForever \/ LoopWait
  PROVE  TimerInv'
<1> USE DEF TimerInv
<1>1. PICK got \in {"outer_got", "inner_got"}, wait \in Blocked, ticks \in Nat :
        Receive(got, wait, ticks)
  <2>1. CASE RecvForever
    BY <2>1 DEF RecvForever, Blocked
  <2>2. CASE LoopWait
    <3>1. tm[Head(g_timer_head)].match \in Nat
      BY <2>2, HeadFacts DEF LoopWait
    <3>2. QED
      BY <2>2, <3>1 DEF LoopWait, Blocked
  <2>3. QED
    BY <2>1, <2>2
<1>2. UNCHANGED <<tm, g_timer_head, freed, g_timer_count, q, calls, owed>>
  BY DEF RecvForever, LoopWait
<1>3. /\ g_timer_queue' \in Seq(Commands) /\ Len(g_timer_queue') <= MsgNum
      /\ cb_msg' \in Commands \cup {NoCommand}
      /\ pc' \in {got, wait} /\ left' \in Nat /\ late' \in 0..MaxLate
      /\ GotInv' /\ SoleDel'
      /\ \A t \in Timer : Pending(t)' => Pending(t)
  BY <1>1, ReceiveFacts
<1>4. pc' \in Places /\ pc' # "cb"
  BY <1>3 DEF Places, Blocked
<1>5. TypeOK'
  BY <1>2, <1>3, <1>4 DEF TypeOK
<1>6. CbInv'
  BY <1>4 DEF CbInv
<1>7. QED
  BY <1>2, <1>3, <1>5, <1>6, QuietFacts

\* The steps of the timer task that only move it.
LEMMA MoveInv ==
  ASSUME TimerInv, LoopEmpty \/ LoopDue \/ Expired \/ PassEnd
  PROVE  TimerInv'
<1> USE DEF TimerInv
<1>1. /\ UNCHANGED <<tm, g_timer_head, freed, g_timer_queue, cb_msg, left, late, calls, owed>>
      /\ pc' \in {"outer", "pass", "loop"} /\ q' \in {q, 1}
      /\ g_timer_count' \in {g_timer_count, 0}
  BY DEF LoopEmpty, LoopDue, Expired, PassEnd, StartPass
<1>2. TypeOK'
  BY <1>1 DEF TypeOK, Places, InPass
<1>3. GotInv' /\ CbInv' /\ SoleDel'
  BY <1>1 DEF GotInv, CbInv, SoleDel
<1>4. \A t \in Timer : Pending(t)' => Pending(t)
  BY <1>1 DEF Pending
<1>5. QED
  BY <1>1, <1>2, <1>3, <1>4, QuietFacts

\* timer_cb_proc calls a callback only when its timer owes its caller nothing.
LEMMA CallIsDue ==
  ASSUME TimerInv, PassCall
  PROVE  q \in 1..Len(g_timer_head) /\ owed[g_timer_head[q]] = 0
<1> DEFINE t == g_timer_head[q]
<1>1. TypeOK /\ q \in Nat \ {0} /\ g_timer_count \in Int /\ g_timer_count <= 0
  BY DEF TimerInv, TypeOK
<1>2. q \in 1..Len(g_timer_head) /\ tm[t].match - g_timer_count <= 0
  BY <1>1, HeadFacts DEF PassCall, Due
<1>3. t \in ToSet(g_timer_head) /\ tm[t].match \in Int /\ owed[t] \in Nat
  BY <1>1, <1>2, HeadFacts
<1>4. tm[t].match <= 0
  BY <1>1, <1>2, <1>3
<1>5. owed[t] > 0 => tm[t].match >= owed[t]
  BY <1>3 DEF TimerInv, OwedInv
<1>6. QED
  BY <1>2, <1>3, <1>4, <1>5

LEMMA PassCallInv ==
  ASSUME TimerInv, PassCall
  PROVE  TimerInv'
<1> USE DEF TimerInv
<1>1. /\ UNCHANGED <<tm, g_timer_head, freed, g_timer_queue, cb_msg, g_timer_count, left,
                     q, late, calls, owed>>
      /\ pc' = "cb"
  BY DEF PassCall
<1>2. TypeOK'
  BY <1>1 DEF TypeOK, Places, InPass
<1>3. GotInv' /\ SoleDel'
  BY <1>1 DEF GotInv, SoleDel
<1>4. CbInv'
  BY <1>1, CallIsDue, HeadFacts DEF CbInv
<1>5. \A t \in Timer : Pending(t)' => Pending(t)
  BY <1>1 DEF Pending
<1>6. QED
  BY <1>1, <1>2, <1>3, <1>4, <1>5, QuietFacts

\* timer_cmd_proc in the two places of the timer task
LEMMA ObeyInv ==
  ASSUME TimerInv, ObeyOuter \/ ObeyInner
  PROVE  TimerInv' /\ (Ordered(Timers) => Ordered(Timers'))
<1> USE DEF TimerInv
<1> DEFINE c == cb_msg
           r == timer_cmd_proc(Timers, c, 0)
<1>1. PICK next \in {"loop", "pass"} : Obey(next) /\ q' \in {q, 1}
  BY DEF ObeyOuter, ObeyInner
<1>2. /\ Becomes(r) /\ owed' = Owed(r, c) /\ g_timer_count' = 0 /\ cb_msg' = NoCommand
      /\ pc' = next /\ UNCHANGED <<g_timer_queue, left, late, calls>>
  BY <1>1 DEF Obey
<1>3. c \in Commands /\ c # NoCommand
  BY DEF TypeOK, GotInv, ObeyOuter, ObeyInner
<1>4. /\ c.timer \in Timer /\ Touches(Timers, r, c.timer)
      /\ c.timer \in ToSet(r.list) =>
           \/ /\ c.timer \in ToSet(g_timer_head) /\ r.tm[c.timer] = tm[c.timer]
              /\ c.cb_num # "arg_auto"
           \/ /\ r.tm[c.timer].match = r.tm[c.timer].init_count
              /\ \/ c.cb_num = "arg_auto"
                 \/ c.cb_num = "start" /\ c.timer \notin ToSet(g_timer_head)
      /\ c.timer \in r.freed \ freed => c.cb_num = "dyn_del" /\ c.timer \notin ToSet(r.list)
  BY <1>3, CommandFacts, TimersFacts
<1> HIDE DEF r
<1>5. /\ Sound(r) /\ (Ordered(Timers) => Ordered(r))
      /\ \A u \in Timer \ {c.timer} : /\ r.tm[u] = tm[u]
                                      /\ u \in ToSet(r.list) <=> u \in ToSet(g_timer_head)
                                      /\ u \in r.freed <=> u \in freed
  BY <1>4, TimersFacts DEF Touches
<1>6. Timers' = r /\ tm' = r.tm /\ g_timer_head' = r.list /\ freed' = r.freed
  BY <1>2, <1>5, BecomesFacts DEF Becomes
<1>7. /\ r.tm \in [Timer -> ktimer_t] /\ r.list \in Seq(Timer) /\ r.freed \subseteq Timer
      /\ ToSet(r.list) \subseteq Timer
      /\ \A u \in Timer : Active(r, u) <=> u \in ToSet(r.list)
      /\ \A u \in Timer : Active(Timers, u) <=> u \in ToSet(g_timer_head)
  <2>1. r \in [tm : [Timer -> ktimer_t], list : Seq(Timer), freed : SUBSET Timer]
    BY <1>5 DEF Sound
  <2>2. \A u \in Timer : Active(r, u) <=> u \in ToSet(r.list)
    BY <1>5 DEF Sound, Active
  <2>3. \A u \in Timer : Active(Timers, u) <=> u \in ToSet(g_timer_head)
    BY TimersFacts DEF Sound, Active
  <2>4. QED
    BY <2>1, <2>2, <2>3, InList
<1>8. /\ r.tm[c.timer].init_count \in Nat
      /\ owed' \in [Timer -> Nat] /\ \A u \in Timer \ {c.timer} : owed'[u] = owed[u]
      /\ owed'[c.timer] \in {owed[c.timer], r.tm[c.timer].init_count}
      /\ c.timer \in ToSet(r.list) =>
           owed'[c.timer] = IF \/ c.cb_num = "arg_auto"
                               \/ c.cb_num = "start" /\ c.timer \notin ToSet(g_timer_head)
                            THEN r.tm[c.timer].init_count ELSE owed[c.timer]
  <2>1. r.tm[c.timer].init_count \in Nat
    <3>1. r.tm[c.timer] \in ktimer_t
      BY <1>4, <1>7
    <3>2. r.tm[c.timer].init_count \in Intervals \cup {0}
      BY <3>1 DEF ktimer_t
    <3>3. QED
      BY <3>2, Ticks
  <2>2. owed \in [Timer -> Nat]
    BY DEF TypeOK
  <2>3. owed' = IF c.timer \in ToSet(r.list)
                     /\ \/ c.cb_num = "arg_auto"
                        \/ c.cb_num = "start" /\ c.timer \notin ToSet(g_timer_head)
                THEN [owed EXCEPT ![c.timer] = r.tm[c.timer].init_count] ELSE owed
    BY <1>2, <1>4, <1>7 DEF Owed
  <2>4. QED
    BY <1>4, <2>1, <2>2, <2>3
<1>9. TypeOK'
  BY <1>1, <1>2, <1>6, <1>7, <1>8 DEF TypeOK, Places, InPass
<1>10. GotInv' /\ CbInv'
  BY <1>1, <1>2 DEF GotInv, CbInv
<1>11. SoleDel'
  BY <1>2 DEF SoleDel
<1>12. OwedInv'
  <2> SUFFICES ASSUME NEW u \in ToSet(r.list), owed'[u] > 0
               PROVE  r.tm[u].match >= owed'[u]
    BY <1>6 DEF OwedInv
  <2>1. CASE u # c.timer
    BY <1>5, <1>7, <1>8, <2>1 DEF OwedInv
  <2>2. CASE u = c.timer
    <3>1. CASE /\ u \in ToSet(g_timer_head) /\ r.tm[u] = tm[u]
               /\ c.cb_num # "arg_auto"
      <4>1. owed'[u] = owed[u]
        BY <1>8, <2>2, <3>1
      <4>2. QED
        BY <3>1, <4>1 DEF OwedInv
    <3>2. CASE /\ r.tm[u].match = r.tm[u].init_count
               /\ \/ c.cb_num = "arg_auto"
                  \/ c.cb_num = "start" /\ u \notin ToSet(g_timer_head)
      <4>1. owed'[u] = r.tm[u].init_count
        BY <1>8, <2>2, <3>2
      <4>2. QED
        BY <1>8, <2>2, <3>2, <4>1
    <3>3. QED
      BY <1>4, <2>2, <3>1, <3>2
  <2>3. QED
    BY <2>1, <2>2
<1>13. NoDanglingTimer'
  <2> SUFFICES ASSUME NEW u \in r.freed
               PROVE  u \notin ToSet(r.list) /\ ~Pending(u)'
    BY <1>6 DEF NoDanglingTimer
  <2>1. Pending(u)' => \E i \in DOMAIN g_timer_queue : g_timer_queue[i].timer = u
    BY <1>2 DEF Pending
  <2>2. CASE u # c.timer
    <3>1. u \in freed /\ u \in Timer
      BY <1>5, <1>7, <2>2
    <3>2. u \notin ToSet(g_timer_head) /\ ~Pending(u)
      BY <3>1 DEF NoDanglingTimer
    <3>3. QED
      BY <1>5, <2>1, <2>2, <3>1, <3>2 DEF Pending
  <2>3. CASE u = c.timer
    <3>1. Pending(u)
      BY <1>3, <2>3 DEF Pending
    <3>2. u \notin freed
      BY <3>1 DEF NoDanglingTimer
    <3>3. IsDel(c) /\ u \notin ToSet(r.list)
      BY <1>4, <2>3, <3>2 DEF IsDel
    <3>4. \A i \in DOMAIN g_timer_queue : g_timer_queue[i].timer # u
      BY <1>3, <2>3, <3>3 DEF SoleDel
    <3>5. QED
      BY <2>1, <3>3, <3>4
  <2>4. QED
    BY <2>2, <2>3
<1>14. Sound(Timers)' /\ (Ordered(Timers) => Ordered(Timers'))
  BY <1>5, <1>6
<1>15. QED
  BY <1>9, <1>10, <1>11, <1>12, <1>13, <1>14

\* The callback returns: a periodic timer is armed again, the other is off.
LEMMA CbReturnInv ==
  ASSUME TimerInv, CbReturn
  PROVE  TimerInv' /\ (Ordered(Timers) /\ g_timer_count = 0 => Ordered(Timers'))
<1> USE DEF TimerInv
<1> DEFINE t == g_timer_head[q]
           off == Disarm(Timers, t)
           round == tm[t].round_ticks
           r == IF round > 0 THEN Arm(off, t, g_timer_count, round) ELSE off
<1>1. /\ pc' = "pass" /\ Becomes(r)
      /\ q' = IF round > 0 THEN Place(off, g_timer_count, round) + 1 ELSE q
      /\ UNCHANGED <<g_timer_queue, cb_msg, g_timer_count, left, late, calls, owed>>
  BY DEF CbReturn, OneShot
<1>2. /\ pc = "cb" /\ q \in 1..Len(g_timer_head) /\ owed[t] = 0
      /\ t \in ToSet(g_timer_head) /\ t \in Timer /\ Active(Timers, t)
  <2>1. pc = "cb" /\ q \in 1..Len(g_timer_head) /\ owed[t] = 0
    BY HeadFacts DEF CbReturn, CbInv, TypeOK
  <2>2. t \in ToSet(g_timer_head) /\ t \in Timer
    BY <2>1, HeadFacts
  <2>3. QED
    BY <2>1, <2>2, TimersFacts DEF Sound, Active
<1>3. g_timer_count \in Int /\ round \in Nat /\ round \in Int
  <2>1. tm[t] \in ktimer_t
    BY <1>2, HeadFacts
  <2>2. round \in Periods
    BY <2>1 DEF ktimer_t
  <2>3. g_timer_count \in Int
    BY DEF TypeOK
  <2> HIDE DEF round
  <2>4. QED
    BY <2>2, <2>3, Ticks
<1> HIDE DEF t, round
<1>4. /\ Touches(Timers, off, t) /\ off.freed = freed /\ t \notin ToSet(off.list)
      /\ IsTimer(off, t) /\ ~Active(off, t)
  BY <1>2, DisarmFacts, TimersFacts
<1> HIDE DEF off
<1>5. /\ Sound(off) /\ (Ordered(Timers) => Ordered(off))
      /\ \A u \in Timer \ {t} : /\ off.tm[u] = tm[u]
                                /\ u \in ToSet(off.list) <=> u \in ToSet(g_timer_head)
  BY <1>4, TimersFacts DEF Touches
<1>6. /\ Sound(r) /\ r.freed = freed /\ q' \in Nat \ {0}
      /\ \A u \in Timer \ {t} : /\ r.tm[u] = tm[u]
                                /\ u \in ToSet(r.list) <=> u \in ToSet(g_timer_head)
      /\ Ordered(Timers) /\ g_timer_count = 0 => Ordered(r)
  <2>1. CASE round > 0
    <3>1. r = Arm(off, t, g_timer_count, round)
      BY <2>1
    <3> HIDE DEF r
    <3>2. /\ Sound(r) /\ r.freed = off.freed
          /\ ToSet(r.list) = ToSet(off.list) \cup {t}
          /\ \A u \in Timer \ {t} : r.tm[u] = off.tm[u]
          /\ Ordered(off) /\ g_timer_count = 0 /\ round >= 0 => Ordered(r)
      <4>1. t \in Timer /\ g_timer_count \in Int /\ round \in Int
        BY <1>2, <1>3
      <4>2. Sound(off) /\ IsTimer(off, t) /\ ~Active(off, t)
        BY <1>4, <1>5
      <4>3. QED
        BY <3>1, <4>1, <4>2, ArmFacts
    <3>3. Place(off, g_timer_count, round) \in Nat
      <4>1. Len(off.list) \in Nat
        BY <1>5, LenProperties DEF Sound
      <4>2. Place(off, g_timer_count, round) \in 1..Len(off.list) + 1
        BY <1>3, <1>5, PlaceFacts
      <4>3. QED
        BY <4>1, <4>2
    <3>4. q' \in Nat \ {0}
      BY <1>1, <2>1, <3>3
    <3>5. QED
      BY <1>3, <1>4, <1>5, <3>2, <3>4
  <2>2. CASE ~(round > 0)
    <3>1. r = off /\ q' = q
      BY <1>1, <2>2
    <3>2. QED
      BY <1>4, <1>5, <3>1 DEF TypeOK
  <2>3. QED
    BY <2>1, <2>2
<1> HIDE DEF r
<1>7. Timers' = r /\ tm' = r.tm /\ g_timer_head' = r.list /\ freed' = freed
  BY <1>1, <1>6, BecomesFacts DEF Becomes
<1>8. r.tm \in [Timer -> ktimer_t] /\ r.list \in Seq(Timer) /\ ToSet(r.list) \subseteq Timer
  BY <1>6, InList DEF Sound
<1>9. TypeOK'
  BY <1>1, <1>6, <1>7, <1>8 DEF TypeOK, Places, InPass
<1>10. GotInv' /\ CbInv' /\ SoleDel'
  BY <1>1 DEF GotInv, CbInv, SoleDel
<1>11. OwedInv'
  <2> SUFFICES ASSUME NEW u \in ToSet(r.list), owed[u] > 0
               PROVE  r.tm[u].match >= owed[u]
    BY <1>1, <1>7 DEF OwedInv
  <2>1. u # t /\ u \in Timer
    BY <1>2, <1>8
  <2>2. QED
    BY <1>6, <2>1 DEF OwedInv
<1>12. NoDanglingTimer'
  <2> SUFFICES ASSUME NEW u \in freed PROVE u \notin ToSet(r.list) /\ ~Pending(u)'
    BY <1>7 DEF NoDanglingTimer
  <2>1. u \in Timer /\ u \notin ToSet(g_timer_head) /\ ~Pending(u) /\ u # t
    BY <1>2 DEF NoDanglingTimer, TypeOK
  <2>2. QED
    BY <1>1, <1>6, <2>1 DEF Pending
<1>13. QED
  BY <1>6, <1>7, <1>9, <1>10, <1>11, <1>12

\* A tick: the timers on the list are one tick nearer, nothing else of them.
LEMMA TickFacts ==
  ASSUME TypeOK, Tick
  PROVE  /\ tm' \in [Timer -> ktimer_t]
         /\ \A t \in Timer : /\ tm'[t].timer_state = tm[t].timer_state
                             /\ tm'[t].obj_type = tm[t].obj_type
                             /\ tm'[t].match = IF t \in ToSet(g_timer_head)
                                               THEN tm[t].match - 1 ELSE tm[t].match
<1>1. tm' = [t \in Timer |-> IF t \in ToSet(g_timer_head)
                             THEN [tm[t] EXCEPT !.match = @ - 1] ELSE tm[t]]
  BY DEF Tick
<1>2. ASSUME NEW x \in ktimer_t
      PROVE  LET y == [x EXCEPT !.match = @ - 1]
             IN  /\ y \in ktimer_t /\ y.timer_state = x.timer_state
                 /\ y.obj_type = x.obj_type /\ y.match = x.match - 1
  BY DEF ktimer_t
<1>3. \A t \in Timer : tm[t] \in ktimer_t
  BY DEF TypeOK
<1>4. QED
  BY <1>1, <1>2, <1>3

LEMMA TickInv ==
  ASSUME TimerInv, Tick
  PROVE  TimerInv'
<1> USE DEF TimerInv
<1>1. /\ UNCHANGED <<g_timer_head, freed, g_timer_queue, cb_msg, q, calls>>
      /\ owed' = [t \in Timer |-> Down(owed[t])] /\ left' = Down(left)
      /\ pc' = IF pc = "timed" /\ left = 1 THEN "expired" ELSE pc
      /\ late' = IF pc \in Blocked THEN 0 ELSE late + 1
      /\ pc \in Blocked \/ late < MaxLate
      /\ g_timer_count' = IF pc \in InPass THEN g_timer_count - 1 ELSE 0
  BY DEF Tick
<1>2. owed' \in [Timer -> Nat] /\ left' \in Nat
  BY <1>1 DEF TypeOK, Down
<1>3. TypeOK'
  <2>1. late' \in 0..MaxLate
    BY <1>1, TimerAssumption DEF TypeOK
  <2>2. g_timer_count' \in Int /\ g_timer_count' <= 0
    BY <1>1 DEF TypeOK
  <2>3. pc' \in Places
    BY <1>1 DEF TypeOK, Places
  <2>4. QED
    BY <1>1, <1>2, <2>1, <2>2, <2>3, TickFacts DEF TypeOK
<1>4. Sound(Timers)'
  <2>1. ToSet(g_timer_head) \subseteq Timer
    BY HeadFacts
  <2>2. Timers' \in [tm : [Timer -> ktimer_t], list : Seq(Timer), freed : SUBSET Timer]
    BY <1>3 DEF TypeOK, Timers
  <2>3. QED
    BY <1>1, <2>1, <2>2, TickFacts, TimersFacts DEF Sound
<1>5. GotInv' /\ SoleDel'
  BY <1>1 DEF GotInv, SoleDel
<1>6. CbInv'
  <2> SUFFICES ASSUME pc' = "cb"
               PROVE  q <= Len(g_timer_head) /\ owed'[g_timer_head[q]] = 0
    BY <1>1 DEF CbInv
  <2>1. q \in 1..Len(g_timer_head) /\ owed[g_timer_head[q]] = 0
    BY <1>1, HeadFacts DEF CbInv, TypeOK
  <2>2. g_timer_head[q] \in Timer
    BY <2>1, HeadFacts
  <2>3. QED
    BY <1>1, <2>1, <2>2 DEF Down
<1>7. OwedInv'
  <2> SUFFICES ASSUME NEW t \in ToSet(g_timer_head), owed'[t] > 0
               PROVE  tm'[t].match >= owed'[t]
    BY <1>1 DEF OwedInv
  <2>1. t \in Timer /\ owed[t] \in Nat /\ tm[t].match \in Int
    BY HeadFacts
  <2>2. owed'[t] = owed[t] - 1 /\ owed[t] > 0
    BY <1>1, <2>1 DEF Down
  <2>3. tm[t].match >= owed[t] /\ tm'[t].match = tm[t].match - 1
    BY <2>1, <2>2, TickFacts DEF OwedInv
  <2>4. QED
    BY <2>1, <2>2, <2>3
<1>8. NoDanglingTimer'
  BY <1>1 DEF NoDanglingTimer, Pending
<1>9. QED
  BY <1>3, <1>4, <1>5, <1>6, <1>7, <1>8

\* A call on a timer puts a command on the queue.
LEMMA CallInv ==
  ASSUME TimerInv, NEW c \in Commands, Call(c), ~Doomed(c.timer),
         IsDel(c) => ~Pending(c.timer)
  PROVE  TimerInv'
<1> USE DEF TimerInv
<1>1. /\ Send(c) /\ UNCHANGED <<tm, g_timer_head, freed, g_timer_count, q, late, owed>>
      /\ calls' = calls + 1 /\ calls < MaxCalls /\ c.timer \notin freed
  BY DEF Call, MayCall, Exists
<1>2. /\ g_timer_queue' \in Seq(Commands) /\ Len(g_timer_queue') <= MsgNum
      /\ cb_msg' \in Commands \cup {NoCommand}
      /\ \/ pc' = pc /\ left' = left
         \/ pc = "recv" /\ pc' = "outer_got" /\ left' = 0
         \/ pc = "timed" /\ pc' = "inner_got" /\ left' = 0
      /\ GotInv' /\ SoleDel'
      /\ \A t \in Timer : Pending(t)' => Pending(t) \/ (t = c.timer /\ Accepted)
  BY <1>1, SendFacts
<1>3. TypeOK'
  <2>1. calls' \in 0..MaxCalls
    BY <1>1, TimerAssumption DEF TypeOK
  <2>2. pc' \in Places /\ left' \in Nat
    BY <1>2 DEF TypeOK, Places
  <2>3. QED
    BY <1>1, <1>2, <2>1, <2>2 DEF TypeOK
<1>4. CbInv'
  BY <1>1, <1>2 DEF CbInv
<1>5. Sound(Timers)' /\ OwedInv'
  BY <1>1 DEF Sound, Timers, OwedInv
<1>6. NoDanglingTimer'
  <2>1. freed \subseteq Timer
    BY DEF TypeOK
  <2>2. QED
    BY <1>1, <1>2, <2>1 DEF NoDanglingTimer
<1>7. QED
  BY <1>2, <1>3, <1>4, <1>5, <1>6

\* krhino_timer_create and krhino_timer_dyn_create
LEMMA CreateInv ==
  ASSUME TimerInv, NEW t \in Timer, NEW first \in Intervals, NEW round \in Rounds,
         NEW arg \in Args, NEW auto_run \in BOOLEAN, Create(t, first, round, arg, auto_run)
  PROVE  TimerInv' /\ (Ordered(Timers) => Ordered(Timers'))
<1> USE DEF TimerInv
<1> DEFINE c == Command("start", t, 0, 0)
           refused == t \in Dyn /\ auto_run /\ ~Accepted
           x == IF refused THEN NoTimer ELSE Created(t, first, round, arg)
           f == IF refused THEN freed \cup {t} ELSE freed \ {t}
<1>1. /\ tm' = [tm EXCEPT ![t] = x] /\ freed' = f
      /\ IF auto_run THEN Send(c) ELSE UNCHANGED <<cb_msg, pc, left, g_timer_queue>>
      /\ UNCHANGED <<g_timer_head, g_timer_count, q, late, owed>>
      /\ calls' = calls + 1 /\ calls < MaxCalls
      /\ tm[t].obj_type = "none" /\ ~Pending(t)
  BY DEF Create, MayCall
<1>2. c \in Commands /\ c.timer = t /\ ~IsDel(c) /\ ~Doomed(t)
  BY <1>1 DEF Command, Commands, IsDel, Doomed, Pending
<1>3. /\ g_timer_queue' \in Seq(Commands) /\ Len(g_timer_queue') <= MsgNum
      /\ cb_msg' \in Commands \cup {NoCommand}
      /\ \/ pc' = pc /\ left' = left
         \/ pc = "recv" /\ pc' = "outer_got" /\ left' = 0
         \/ pc = "timed" /\ pc' = "inner_got" /\ left' = 0
      /\ GotInv' /\ SoleDel'
      /\ \A u \in Timer : Pending(u)' => Pending(u) \/ (u = t /\ auto_run /\ Accepted)
  <2>1. CASE auto_run
    <3>1. Send(c)
      BY <1>1, <2>1
    <3> HIDE DEF c
    <3>2. QED
      BY <1>2, <2>1, <3>1, SendFacts
  <2>2. CASE ~auto_run
    <3>1. UNCHANGED <<cb_msg, pc, left, g_timer_queue>>
      BY <1>1, <2>2
    <3>2. GotInv' /\ SoleDel'
      BY <3>1 DEF GotInv, SoleDel
    <3>3. \A u \in Timer : Pending(u)' => Pending(u)
      BY <3>1 DEF Pending
    <3>4. QED
      BY <3>1, <3>2, <3>3 DEF TypeOK
  <2>3. QED
    BY <2>1, <2>2
<1>4. x \in ktimer_t /\ x.timer_state = "deactive"
  <2>1. (CHOOSE a \in Args : TRUE) \in Args
    BY TimerAssumption
  <2>2. NoTimer \in ktimer_t /\ NoTimer.timer_state = "deactive"
    BY <2>1 DEF NoTimer, ktimer_t, Periods
  <2>3. first \in Intervals \cup {0} /\ round \in Periods
    BY DEF Periods
  <2>4. /\ Created(t, first, round, arg) \in ktimer_t
        /\ Created(t, first, round, arg).timer_state = "deactive"
    <3> DEFINE y == [NoTimer EXCEPT !.obj_type = "timer", !.init_count = first]
               z == [y EXCEPT !.round_ticks = round, !.timer_cb_arg = arg]
    <3>1. y \in ktimer_t /\ y.timer_state = "deactive"
      BY <2>2, <2>3 DEF ktimer_t
    <3>2. Created(t, first, round, arg) = z
      BY DEF Created
    <3> HIDE DEF y
    <3>3. z \in ktimer_t /\ z.timer_state = "deactive"
      BY <2>3, <3>1 DEF ktimer_t
    <3>4. QED
      BY <3>2, <3>3
  <2>5. QED
    BY <2>2, <2>4
<1>5. f \in SUBSET Timer /\ \A u \in Timer \ {t} : u \in f <=> u \in freed
  BY DEF TypeOK
<1>6. ~Active(Timers, t)
  BY <1>1, TimersFacts DEF Sound, Active
<1>7. Timers' = [tm |-> [Timers.tm EXCEPT ![t] = x], list |-> Timers.list, freed |-> f]
  BY <1>1 DEF Timers
<1> HIDE DEF x
<1>8. Touches(Timers, Timers', t) /\ t \notin ToSet(g_timer_head)
  <2> HIDE DEF f
  <2>1. Sound(Timers) /\ \A u \in Timer \ {t} : u \in f <=> u \in Timers.freed
    BY <1>5, TimersFacts
  <2>2. Touches(Timers, Timers', t) /\ t \notin ToSet(Timers'.list)
    BY <1>4, <1>5, <1>6, <1>7, <2>1, UnlistedFacts
  <2>3. QED
    BY <1>1, <2>2, TimersFacts
<1>9. TypeOK'
  <2>1. calls' \in 0..MaxCalls
    BY <1>1, TimerAssumption DEF TypeOK
  <2>2. pc' \in Places /\ left' \in Nat
    BY <1>3 DEF TypeOK, Places
  <2>3. tm' \in [Timer -> ktimer_t] /\ freed' \subseteq Timer
    BY <1>1, <1>4, <1>5 DEF TypeOK
  <2>4. QED
    BY <1>1, <1>3, <2>1, <2>2, <2>3 DEF TypeOK
<1>10. CbInv'
  BY <1>1, <1>3 DEF CbInv
<1>11. Sound(Timers)' /\ (Ordered(Timers) => Ordered(Timers'))
  BY <1>8 DEF Touches
<1>12. OwedInv'
  <2>1. \A u \in ToSet(g_timer_head) : tm'[u] = tm[u]
    BY <1>1, <1>8, HeadFacts DEF TypeOK
  <2>2. QED
    BY <1>1, <2>1 DEF OwedInv
<1>13. NoDanglingTimer'
  <2> SUFFICES ASSUME NEW u \in f PROVE u \notin ToSet(g_timer_head) /\ ~Pending(u)'
    BY <1>1 DEF NoDanglingTimer
  <2>1. CASE u = t
    <3>1. refused
      BY <2>1
    <3>2. QED
      BY <1>1, <1>3, <1>8, <2>1, <3>1
  <2>2. CASE u # t
    <3>1. u \in freed /\ u \in Timer
      BY <1>5, <2>2
    <3>2. QED
      BY <1>3, <2>2, <3>1 DEF NoDanglingTimer
  <2>3. QED
    BY <2>1, <2>2
<1>14. QED
  BY <1>3, <1>9, <1>10, <1>11, <1>12, <1>13

\* A call other than the creation of a timer is a command that may be sent.
LEMMA KernelCallFacts ==
  ASSUME TimerInv, NEW t \in Timer, KernelCall(t)
  PROVE  \/ \E first \in Intervals, round \in Rounds, arg \in Args, auto_run \in BOOLEAN :
              Create(t, first, round, arg, auto_run)
         \/ \E c \in Commands : /\ Call(c) /\ ~Doomed(c.timer)
                                /\ IsDel(c) => ~Pending(c.timer)
<1> SUFFICES ASSUME ~Doomed(t),
                    \/ Start(t) \/ Stop(t)
                    \/ \E first \in Intervals \cup {0}, round \in Rounds : Change(t, first, round)
                    \/ \E arg \in Args : ArgChange(t, arg) \/ ArgChangeAuto(t, arg)
                    \/ Delete(t) \/ DynDelete(t)
             PROVE  \E c \in Commands : /\ Call(c) /\ ~Doomed(c.timer)
                                        /\ IsDel(c) => ~Pending(c.timer)
  BY DEF KernelCall
<1>1. CASE Start(t) \/ Stop(t)
  <2>1. PICK cmd \in {"start", "stop"} : Call(Command(cmd, t, 0, 0))
    BY <1>1 DEF Start, Stop
  <2>2. /\ Command(cmd, t, 0, 0) \in Commands /\ Command(cmd, t, 0, 0).timer = t
        /\ ~IsDel(Command(cmd, t, 0, 0))
    BY DEF Command, Commands, IsDel
  <2>3. QED
    BY <2>1, <2>2
<1>2. CASE \E first \in Intervals \cup {0}, round \in Rounds : Change(t, first, round)
  <2>1. PICK first \in Intervals \cup {0}, round \in Rounds : Change(t, first, round)
    BY <1>2
  <2>2. /\ Command("chg", t, first, round) \in Commands
        /\ Command("chg", t, first, round).timer = t
        /\ ~IsDel(Command("chg", t, first, round))
    BY DEF Command, Commands, Periods, IsDel
  <2>3. QED
    BY <2>1, <2>2 DEF Change
<1>3. CASE \E arg \in Args : ArgChange(t, arg) \/ ArgChangeAuto(t, arg)
  <2>1. PICK arg \in Args, cmd \in {"arg", "arg_auto"} : Call(Command(cmd, t, 0, arg))
    BY <1>3 DEF ArgChange, ArgChangeAuto
  <2>2. /\ Command(cmd, t, 0, arg) \in Commands /\ Command(cmd, t, 0, arg).timer = t
        /\ ~IsDel(Command(cmd, t, 0, arg))
    BY DEF Command, Commands, IsDel
  <2>3. QED
    BY <2>1, <2>2
<1>4. CASE Delete(t) \/ DynDelete(t)
  <2>1. PICK cmd \in {"del", "dyn_del"} : Call(Command(cmd, t, 0, 0)) /\ ~Pending(t)
    BY <1>4 DEF Delete, DynDelete
  <2>2. Command(cmd, t, 0, 0) \in Commands /\ Command(cmd, t, 0, 0).timer = t
    BY DEF Command, Commands
  <2>3. QED
    BY <2>1, <2>2
<1>5. QED
  BY <1>1, <1>2, <1>3, <1>4

\* A step that changes nothing.
LEMMA StutterInv ==
  ASSUME TimerInv, UNCHANGED tvars
  PROVE  TimerInv'
<1> USE DEF TimerInv, tvars
<1>1. TypeOK' /\ GotInv' /\ CbInv' /\ SoleDel'
  BY DEF TypeOK, GotInv, CbInv, SoleDel
<1>2. \A t \in Timer : Pending(t)' => Pending(t)
  BY DEF Pending
<1>3. QED
  BY <1>1, <1>2, QuietFacts

LEMMA NextInv == TimerInv /\ [Next]_tvars => TimerInv'
<1> SUFFICES ASSUME TimerInv, [Next]_tvars PROVE TimerInv'
  OBVIOUS
<1>1. CASE RecvForever \/ LoopWait
  BY <1>1, RecvInv
<1>2. CASE ObeyOuter \/ ObeyInner
  BY <1>2, ObeyInv
<1>3. CASE LoopEmpty \/ LoopDue \/ Expired \/ PassEnd
  BY <1>3, MoveInv
<1>4. CASE PassCall
  BY <1>4, PassCallInv
<1>5. CASE CbReturn
  BY <1>5, CbReturnInv
<1>6. CASE Tick
  BY <1>6, TickInv
<1>7. CASE \E t \in Timer : KernelCall(t)
  <2>1. PICK t \in Timer : KernelCall(t)
    BY <1>7
  <2>2. CASE \E first \in Intervals, round \in Rounds, arg \in Args, auto_run \in BOOLEAN :
               Create(t, first, round, arg, auto_run)
    BY <2>2, CreateInv
  <2>3. CASE \E c \in Commands : /\ Call(c) /\ ~Doomed(c.timer)
                                 /\ IsDel(c) => ~Pending(c.timer)
    BY <2>3, CallInv
  <2>4. QED
    BY <2>1, <2>2, <2>3, KernelCallFacts
<1>8. CASE UNCHANGED tvars
  BY <1>8, StutterInv
<1>9. QED
  BY <1>1, <1>2, <1>3, <1>4, <1>5, <1>6, <1>7, <1>8 DEF Next, TimerTask

\* The timers, the command queue and the timer task keep TimerInv, however
\* commands, ticks and callbacks interleave.
THEOREM Invariance == Spec => []TimerInv
BY InitInv, NextInv, PTL DEF Spec

\* timer_state says whether a timer is on the list, and no timer is there twice:
\* neither a second START nor a re-arm after a STOP closes klist_insert's links
\* into a loop.
THEOREM ActiveTimersListed == Spec => []ActiveIffListed
<1>1. TimerInv => ActiveIffListed
  BY TimersFacts DEF TimerInv, Sound, ActiveIffListed
<1>2. QED
  BY <1>1, Invariance, PTL

\* The timer task never touches a timer whose memory krhino_timer_dyn_del gave
\* back: none is on the list or named by a command still to be obeyed.
THEOREM NothingDangles == Spec => []NoDanglingTimer
<1>1. TimerInv => NoDanglingTimer
  BY DEF TimerInv
<1>2. QED
  BY <1>1, Invariance, PTL

\* A callback does not run before init_count ticks have gone by since its START
\* was obeyed.
THEOREM CallbacksNotEarly == Spec => NeverEarly
<1>1. ASSUME TimerInv, [Next]_tvars
      PROVE  [pc # "cb" /\ pc' = "cb" => owed[g_timer_head[q]] = 0]_tvars
  <2> SUFFICES ASSUME Next, pc # "cb", pc' = "cb" PROVE owed[g_timer_head[q]] = 0
    BY <1>1
  <2>1. PassCall
    <3>1. ~RecvForever /\ ~LoopWait
      BY DEF RecvForever, LoopWait, Receive
    <3>2. ~ObeyOuter /\ ~ObeyInner
      BY DEF ObeyOuter, ObeyInner, Obey
    <3>3. ~LoopEmpty /\ ~LoopDue /\ ~Expired /\ ~PassEnd /\ ~CbReturn /\ ~Tick
      BY DEF LoopEmpty, LoopDue, Expired, PassEnd, StartPass, CbReturn, Tick
    <3>4. \A c : ~Send(c)
      BY DEF Send
    <3>5. ASSUME NEW t \in Timer PROVE ~KernelCall(t)
      <4>1. \A c : ~Call(c)
        BY <3>4 DEF Call
      <4>2. \A first, round, arg, auto_run : ~Create(t, first, round, arg, auto_run)
        BY <3>4 DEF Create
      <4>3. QED
        BY <1>1, <4>1, <4>2, KernelCallFacts
    <3>6. QED
      BY <3>1, <3>2, <3>3, <3>5 DEF Next, TimerTask
  <2>2. QED
    BY <1>1, <2>1, CallIsDue
<1>2. QED
  BY <1>1, Invariance, PTL DEF Spec, NeverEarly
-----------------------------------------------------------------------------
\* A tick that finds the timer task waiting for the head of the list.
LEMMA TickInTime ==
  ASSUME TimerInv, InTimeInv, Tick, pc \in Blocked
  PROVE  InTimeInv'
<1> USE DEF TimerInv, InTimeInv
<1>1. /\ UNCHANGED g_timer_head /\ left' = Down(left) /\ g_timer_count' = 0
      /\ pc' = IF pc = "timed" /\ left = 1 THEN "expired" ELSE pc
  BY DEF Tick, Blocked, InPass
<1>2. /\ \A i \in 1..Len(g_timer_head) :
           /\ g_timer_head[i] \in Timer /\ g_timer_head[i] \in ToSet(g_timer_head)
           /\ tm[g_timer_head[i]].match \in Int
           /\ tm'[g_timer_head[i]].match = tm[g_timer_head[i]].match - 1
      /\ Len(g_timer_head) \in Nat
  BY HeadFacts, TickFacts
<1>3. \A i, j \in 1..Len(g_timer_head) :
        i < j => tm[g_timer_head[i]].match <= tm[g_timer_head[j]].match
  BY TimersFacts DEF Ordered
<1>4. CASE pc = "recv"
  <2>1. g_timer_head = <<>> /\ ToSet(g_timer_head) = {} /\ Len(g_timer_head) = 0
    BY <1>4, EmptySeq, InList DEF TypeOK
  <2>2. Ordered(Timers')
    BY <1>1, <2>1, TimersFacts DEF Ordered
  <2>3. QED
    BY <1>1, <1>4, <2>1, <2>2 DEF WaitsForHead
<1>5. CASE pc = "timed"
  <2>1. /\ g_timer_head # <<>> /\ left = tm[Head(g_timer_head)].match /\ left > 0
        /\ left \in Nat
    BY <1>5 DEF WaitsForHead, TypeOK
  <2>2. Len(g_timer_head) > 0 /\ Head(g_timer_head) = g_timer_head[1]
    BY <1>2, <2>1, EmptySeq DEF TypeOK
  <2>3. \A i \in 1..Len(g_timer_head) : tm[g_timer_head[i]].match >= left
    <3> TAKE i \in 1..Len(g_timer_head)
    <3>1. CASE i = 1
      BY <1>2, <2>1, <2>2, <3>1
    <3>2. CASE i > 1
      <4>1. 1 \in 1..Len(g_timer_head) /\ 1 < i
        BY <1>2, <2>2, <3>2
      <4>2. tm[g_timer_head[1]].match <= tm[g_timer_head[i]].match
        BY <1>3, <4>1
      <4>3. QED
        BY <2>1, <2>2, <4>2
    <3>3. QED
      BY <3>1, <3>2
  <2>4. \A i \in 1..Len(g_timer_head) : tm'[g_timer_head[i]].match >= 0
    <3> TAKE i \in 1..Len(g_timer_head)
    <3> DEFINE n == tm[g_timer_head[i]].match
    <3>1. n \in Int /\ n >= left /\ tm'[g_timer_head[i]].match = n - 1
      BY <1>2, <2>3
    <3> HIDE DEF n
    <3>2. QED
      BY <2>1, <3>1
  <2>5. \A t \in ToSet(g_timer_head) : tm'[t].match >= 0
    BY <2>4, InList DEF TypeOK
  <2>6. ASSUME NEW i \in 1..Len(g_timer_head), NEW j \in 1..Len(g_timer_head), i < j
        PROVE  tm'[g_timer_head[i]].match <= tm'[g_timer_head[j]].match
    <3> DEFINE n == tm[g_timer_head[i]].match
               m == tm[g_timer_head[j]].match
    <3>1. n \in Int /\ m \in Int /\ n <= m
      BY <1>2, <1>3, <2>6
    <3>2. tm'[g_timer_head[i]].match = n - 1 /\ tm'[g_timer_head[j]].match = m - 1
      BY <1>2
    <3> HIDE DEF n, m
    <3>3. QED
      BY <3>1, <3>2
  <2>7. Ordered(Timers')
    BY <1>1, <2>5, <2>6, TimersFacts DEF Ordered
  <2>8. tm'[Head(g_timer_head)].match = left - 1
    BY <1>2, <2>1, <2>2
  <2>9. left' = left - 1
    BY <1>1, <2>1 DEF Down
  <2>10. WaitsForHead' /\ (pc' = "timed" => left' > 0)
    BY <1>1, <1>5, <2>1, <2>8, <2>9 DEF WaitsForHead
  <2>11. QED
    BY <1>1, <1>5, <2>7, <2>10
<1>6. QED
  BY <1>4, <1>5 DEF Blocked

LEMMA InTimeNext ==
  ASSUME MaxLate = 0, TimerInv, InTimeInv, [Next]_tvars
  PROVE  InTimeInv'
<1> USE DEF InTimeInv
<1>1. late = 0 /\ TypeOK /\ Sound(Timers)
  BY DEF TimerInv, TypeOK
<1>2. ASSUME UNCHANGED <<tm, g_timer_head, freed>> PROVE Timers' = Timers
  BY <1>2 DEF Timers
<1>3. CASE RecvForever
  <2>1. UNCHANGED <<tm, g_timer_head, freed, g_timer_count>> /\ pc = "outer"
    BY <1>3 DEF RecvForever
  <2>2. pc' \in {"outer_got", "recv"}
    BY <1>3 DEF RecvForever, Receive
  <2>3. QED
    BY <1>2, <2>1, <2>2 DEF WaitsForHead
<1>4. CASE LoopWait
  <2>1. /\ UNCHANGED <<tm, g_timer_head, freed, g_timer_count>>
        /\ g_timer_head # <<>> /\ tm[Head(g_timer_head)].match > 0
    BY <1>4 DEF LoopWait
  <2>2. pc' = "inner_got" \/ (pc' = "timed" /\ left' = tm[Head(g_timer_head)].match)
    BY <1>4 DEF LoopWait, Receive
  <2>3. QED
    BY <1>2, <2>1, <2>2 DEF WaitsForHead
<1>5. CASE ObeyOuter \/ ObeyInner
  <2>1. pc' \in {"loop", "pass"} /\ g_timer_count' = 0
    BY <1>5 DEF ObeyOuter, ObeyInner, Obey
  <2>2. QED
    BY <1>5, <2>1, ObeyInv DEF WaitsForHead
<1>6. CASE LoopEmpty \/ LoopDue \/ Expired \/ PassEnd \/ PassCall
  <2>1. /\ UNCHANGED <<tm, g_timer_head, freed>> /\ g_timer_count' \in {g_timer_count, 0}
        /\ pc' \in {"pass", "loop", "cb"} \/ (pc' = "outer" /\ g_timer_head = <<>>)
    BY <1>6 DEF LoopEmpty, LoopDue, Expired, PassEnd, PassCall, StartPass
  <2>2. QED
    BY <1>2, <2>1 DEF WaitsForHead
<1>7. CASE CbReturn
  <2>1. pc' = "pass" /\ g_timer_count' = g_timer_count
    BY <1>7 DEF CbReturn
  <2>2. QED
    BY <1>7, <2>1, CbReturnInv DEF WaitsForHead
<1>8. CASE Tick
  <2>1. pc \in Blocked
    BY <1>1, <1>8 DEF Tick
  <2>2. QED
    BY <1>8, <2>1, TickInTime
<1>9. ASSUME NEW t \in Timer, KernelCall(t) PROVE InTimeInv'
  <2>1. \A c : Send(c) => \/ pc' = pc /\ left' = left
                          \/ pc = "recv" /\ pc' = "outer_got"
                          \/ pc = "timed" /\ pc' = "inner_got"
    BY DEF Send, Blocked
  <2>2. ASSUME NEW c \in Commands, Call(c) PROVE InTimeInv'
    <3>1. Send(c) /\ UNCHANGED <<tm, g_timer_head, freed, g_timer_count>>
      BY <2>2 DEF Call
    <3>2. QED
      BY <1>2, <2>1, <3>1 DEF WaitsForHead
  <2>3. ASSUME NEW first \in Intervals, NEW round \in Rounds, NEW arg \in Args,
               NEW auto_run \in BOOLEAN, Create(t, first, round, arg, auto_run)
        PROVE  InTimeInv'
    <3>1. /\ UNCHANGED <<g_timer_head, g_timer_count>> /\ tm[t].obj_type = "none"
          /\ \A u \in Timer \ {t} : tm'[u] = tm[u]
          /\ auto_run => Send(Command("start", t, 0, 0))
          /\ ~auto_run => pc' = pc /\ left' = left
      BY <1>1, <2>3 DEF Create, TypeOK
    <3>2. \/ pc' = pc /\ left' = left
          \/ pc = "recv" /\ pc' = "outer_got"
          \/ pc = "timed" /\ pc' = "inner_got"
      BY <2>1, <3>1
    <3>3. Ordered(Timers')
      BY <2>3, CreateInv
    <3>4. g_timer_head # <<>> => tm'[Head(g_timer_head)] = tm[Head(g_timer_head)]
      <4>1. t \notin ToSet(g_timer_head)
        BY <1>1, <3>1, TimersFacts DEF Sound
      <4>2. QED
        BY <1>1, <3>1, <4>1, HeadFacts
    <3>5. WaitsForHead' /\ (pc' = "timed" => left' > 0)
      BY <3>1, <3>2, <3>4 DEF WaitsForHead
    <3>6. QED
      BY <3>1, <3>2, <3>3, <3>5
  <2>4. QED
    BY <1>9, <2>2, <2>3, KernelCallFacts
<1>10. CASE UNCHANGED tvars
  BY <1>2, <1>10 DEF tvars, WaitsForHead
<1>11. QED
  BY <1>3, <1>4, <1>5, <1>6, <1>7, <1>8, <1>9, <1>10 DEF Next, TimerTask

\* A timer task that is never kept from the processor for a tick keeps its list
\* sorted by the time that remains, and its wait ends exactly when the head of
\* the list is due, whoever calls and when: the head is all it has to look at.
THEOREM InTimeSorted ==
  ASSUME MaxLate = 0
  PROVE  Spec => [](SortedByRemain /\ WaitsForHead)
<1>1. TypeOK /\ InTimeInv => SortedByRemain /\ WaitsForHead
  BY HeadFacts, TimersFacts DEF InTimeInv, Ordered, SortedByRemain
<1>2. TimerInv => TypeOK
  BY DEF TimerInv
<1>3. TimerInv /\ InTimeInv /\ [Next]_tvars => InTimeInv'
  BY InTimeNext
<1>4. QED
  BY <1>1, <1>2, <1>3, InitInv, NextInv, PTL DEF Spec
=============================================================================
