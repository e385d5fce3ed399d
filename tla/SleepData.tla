------------------------------ MODULE SleepData ------------------------------
(***************************************************************************)
(* The memory that survives deep sleep (common/dsleepdata.c): regions are  *)
(* given out one behind the other and found again after a wake-up by their *)
(* id.  Waking up is a start of the program with this memory intact; a     *)
(* power loss leaves anything in it, but not both magic words.             *)
(*                                                                         *)
(* Addresses are words; 0 is NULL.                                         *)
(***************************************************************************)
EXTENDS Integers

CONSTANTS
  Id,         \* enum system_sleepdata_id
  WordsOf,    \* the words each id asks for, aligned
  Start,      \* the first address behind the header
  Stop,       \* __sleep_data_stop
  Watchdog    \* resets also come while interrupts are disabled

VARIABLES
  magic1, magic2,  \* the magic words are right
  cur_addr,
  regions,
  up,              \* the program runs
  pc,              \* the call in progress, between its assignments
  ptr              \* what the users were told since the start

vars == <<magic1, magic2, cur_addr, regions, up, pc, ptr>>

NULL == 0
NoCall == [call |-> "none"]
NoPtr == [i \in Id |-> NULL]

Init ==
  /\ magic1 = FALSE /\ magic2 = FALSE
  /\ cur_addr \in {NULL, Stop} /\ regions \in [Id -> {NULL, Start}]
  /\ up = FALSE
  /\ pc = NoCall
  /\ ptr = NoPtr
-----------------------------------------------------------------------------
Idle == up /\ pc = NoCall

Trusted == magic1 /\ magic2

\* sys_sleepdata_init, when the program starts.
InitFound ==
  /\ ~up /\ Trusted
  /\ up' = TRUE
  /\ UNCHANGED <<magic1, magic2, cur_addr, regions, pc, ptr>>

InitNew ==
  /\ ~up /\ ~Trusted
  /\ up' = TRUE
  /\ regions' = [i \in Id |-> NULL] /\ cur_addr' = NULL
  /\ magic1' = TRUE /\ magic2' = TRUE
  /\ pc' = [call |-> "init"]
  /\ UNCHANGED ptr

InitCur ==
  /\ up /\ pc.call = "init"
  /\ cur_addr' = Start
  /\ pc' = NoCall
  /\ UNCHANGED <<magic1, magic2, regions, up, ptr>>

\* The test is strict: the last word is never given out.
Fits(i) == cur_addr + WordsOf[i] < Stop

\* sys_sleepdata_request of an id that has no region, when there is room.
RequestNew(i) ==
  /\ Idle /\ regions[i] = NULL /\ Fits(i)
  /\ regions' = [regions EXCEPT ![i] = cur_addr]
  /\ pc' = [call |-> "request", id |-> i]
  /\ UNCHANGED <<magic1, magic2, cur_addr, up, ptr>>

RequestCur ==
  /\ up /\ pc.call = "request"
  /\ cur_addr' = cur_addr + WordsOf[pc.id]
  /\ ptr' = [ptr EXCEPT ![pc.id] = regions[pc.id]]
  /\ pc' = NoCall
  /\ UNCHANGED <<magic1, magic2, regions, up>>

\* sys_sleepdata_request or sys_sleepdata_get of what is there or cannot be
\* given.
RequestOld(i) ==
  /\ Idle /\ (regions[i] = NULL => ~Fits(i))
  /\ ptr' = [ptr EXCEPT ![i] = regions[i]]
  /\ UNCHANGED <<magic1, magic2, cur_addr, regions, up, pc>>

\* sys_sleepdata_reset: the next start finds nothing.
Forget ==
  /\ Idle
  /\ magic1' = FALSE
  /\ UNCHANGED <<magic2, cur_addr, regions, up, pc, ptr>>
-----------------------------------------------------------------------------
\* Deep sleep or a reset: what is in ordinary memory is gone.
Sleep ==
  /\ up /\ (pc = NoCall \/ Watchdog)
  /\ up' = FALSE
  /\ pc' = NoCall
  /\ ptr' = NoPtr
  /\ UNCHANGED <<magic1, magic2, cur_addr, regions>>

PowerLoss ==
  /\ up' = FALSE
  /\ pc' = NoCall
  /\ ptr' = NoPtr
  /\ magic1' \in BOOLEAN /\ magic2' \in BOOLEAN /\ ~(magic1' /\ magic2')
  /\ cur_addr' \in {NULL, Stop} /\ regions' \in [Id -> {NULL, Start}]

Next ==
  \/ InitFound \/ InitNew \/ InitCur
  \/ \E i \in Id : RequestNew(i) \/ RequestOld(i)
  \/ RequestCur \/ Forget \/ Sleep \/ PowerLoss

Spec == Init /\ [][Next]_vars
-----------------------------------------------------------------------------
\* Every variable has its type (struct system_sleepdata).
TypeOK ==
  /\ magic1 \in BOOLEAN /\ magic2 \in BOOLEAN /\ up \in BOOLEAN
  /\ cur_addr \in 0..Stop
  /\ regions \in [Id -> Nat] /\ ptr \in [Id -> Nat]
  /\ pc \in {NoCall, [call |-> "init"]} \cup [call : {"request"}, id : Id]

\* Whether it was just started or woke up ten times, the program never has two
\* regions that overlap, or one that leaves the memory.
RegionsDisjoint ==
  Idle =>
    /\ \A i \in Id : regions[i] # NULL =>
         Start <= regions[i] /\ regions[i] + WordsOf[i] <= cur_addr
    /\ \A i, j \in Id : i # j /\ regions[i] # NULL /\ regions[j] # NULL =>
         regions[i] + WordsOf[i] <= regions[j] \/ regions[j] + WordsOf[j] <= regions[i]
    /\ cur_addr <= Stop

\* What a user was told is where its region is, and stays so: a region does
\* not move under a pointer.
PointersHold ==
  \A i \in Id : ptr[i] # NULL => up /\ ptr[i] = regions[i]

\* The invariants of the memory together.
MemorySound == TypeOK /\ RegionsDisjoint /\ PointersHold

\* A region that was given out is still there after a sleep: it is lost only
\* by a power loss or a reset of the memory.
RegionsSurvive ==
  \A i \in Id : Trusted /\ magic1' /\ magic2' /\ regions[i] # NULL =>
    regions'[i] = regions[i]
=============================================================================
